------------------------------ MODULE CarStores ------------------------------
(***************************************************************************)
(* The simulator's hash table and one entrance queue with their pointers,  *)
(* and those who work on them: generate_cars walks a bucket of the table   *)
(* with no mutex, then enqueues and adds under one mutex each; the queue   *)
(* thread dequeues; cars delete their item and free it.                    *)
(*                                                                         *)
(* All plates are in one bucket: buckets share nothing.  A freed item      *)
(* keeps its next pointer until it is allocated again (malloc overwrites   *)
(* the first 16 bytes of a free chunk, the key among them); what strcmp    *)
(* makes of its key is not the plate looked for, or ends the program.  No  *)
(* other thread allocates chunks of its size.                              *)
(***************************************************************************)
EXTENDS Naturals, SequencesExt

CONSTANTS
  Plates,     \* the plates generate_cars can draw
  NoPlate,
  MaxNodes    \* bound: chunks that malloc has for items, and for nodes

ASSUME CarStoresAssumption == NoPlate \notin Plates /\ MaxNodes \in Nat

VARIABLES
  head,         \* buckets[htab_index(h, key)]
  item_key,     \* item->key
  item_next,    \* item->next
  items,        \* the items that are allocated
  deleting,     \* the item htab_delete has unlinked and not freed, 0 if none;
                \*   until then it holds the mutex of the table
  gen_pc,       \* generate_cars: where it stands
  gen_plate,    \*   plate_string
  gen_item,     \*   i, the item htab_find has come to
  front,        \* q->front
  rear,         \* q->rear
  node_plate,   \* node->plate
  node_next,    \* node->next
  nodes,        \* the nodes that are allocated
  cars          \* plates of the cars that have been let in

tableVars == <<head, item_key, item_next, items, deleting>>
genVars   == <<gen_pc, gen_plate, gen_item>>
queueVars == <<front, rear, node_plate, node_next, nodes>>
vars == <<tableVars, genVars, queueVars, cars>>

NULL    == 0
Chunk   == 1 .. MaxNodes
Pointer == Chunk \cup {NULL}

\* The chunks from start on, in the order of their next pointers: hop is NULL
\* for good after the last one.
Chain(next, start) ==
  LET hop[n \in Chunk] ==
        IF n = 1 THEN start ELSE IF hop[n - 1] = NULL THEN NULL ELSE next[hop[n - 1]]
  IN  [n \in {k \in Chunk : hop[k] # NULL} |-> hop[n]]

Items == Chain(item_next, head)
Queue == Chain(node_next, front)

-----------------------------------------------------------------------------
(* generate_cars                                                           *)

\* A plate is drawn and htab_find reads the head of its bucket.
GenDraw(p) ==
  /\ gen_pc = "draw"
  /\ gen_pc' = "compare"
  /\ gen_plate' = p
  /\ gen_item' = head
  /\ UNCHANGED <<tableVars, queueVars, cars>>

\* Mutant of GenCompare: the other items of the bucket are not looked at.
GenCompareFirst ==
  /\ gen_pc = "compare"
  /\ gen_pc' = IF gen_item # NULL /\ item_key[gen_item] = gen_plate THEN "draw" ELSE "enqueue"
  /\ UNCHANGED <<tableVars, gen_plate, gen_item, queueVars, cars>>

\* The end of the bucket: not found.  The key of the item: found, and the
\* plate is dropped.  Another key: on to the next item.
GenCompare ==
  /\ gen_pc = "compare"
  /\ gen_pc' = IF gen_item = NULL THEN "enqueue"
               ELSE IF item_key[gen_item] = gen_plate THEN "draw" ELSE "next"
  /\ UNCHANGED <<tableVars, gen_plate, gen_item, queueVars, cars>>

\* i = i->next, of an item that may have been freed since.
GenNext ==
  /\ gen_pc = "next"
  /\ gen_pc' = "compare"
  /\ gen_item' = item_next[gen_item]
  /\ UNCHANGED <<tableVars, gen_plate, queueVars, cars>>

\* enqueue
GenEnqueue ==
  /\ gen_pc = "enqueue"
  /\ gen_pc' = "add"
  /\ \E n \in Chunk \ nodes :
       /\ nodes' = nodes \cup {n}
       /\ node_plate' = [node_plate EXCEPT ![n] = gen_plate]
       /\ rear' = n
       /\ IF rear = NULL
          THEN front' = n /\ node_next' = [node_next EXCEPT ![n] = NULL]
          ELSE UNCHANGED front /\ node_next' = [node_next EXCEPT ![n] = NULL, ![rear] = n]
  /\ UNCHANGED <<tableVars, gen_plate, gen_item, cars>>

\* htab_add, with the mutex of the table.
GenAdd ==
  /\ gen_pc = "add" /\ deleting = NULL
  /\ gen_pc' = "draw"
  /\ \E i \in Chunk \ items :
       /\ items' = items \cup {i}
       /\ item_key' = [item_key EXCEPT ![i] = gen_plate]
       /\ item_next' = [item_next EXCEPT ![i] = head]
       /\ head' = i
  /\ UNCHANGED <<deleting, gen_plate, gen_item, queueVars, cars>>

-----------------------------------------------------------------------------
(* handle_entrance_queue, and the entrance: see Entrance                   *)

\* Mutant of Dequeue: rear is left behind.
DequeueKeepsRear ==
  /\ front # NULL
  /\ front' = node_next[front]
  /\ UNCHANGED rear
  /\ nodes' = nodes \ {front}
  /\ node_plate' = [node_plate EXCEPT ![front] = NoPlate]
  /\ node_next' = [node_next EXCEPT ![front] = NULL]

\* dequeue: a freed node keeps nothing.
Dequeue ==
  /\ front # NULL
  /\ front' = node_next[front]
  /\ rear' = IF front' = NULL THEN NULL ELSE rear
  /\ nodes' = nodes \ {front}
  /\ node_plate' = [node_plate EXCEPT ![front] = NoPlate]
  /\ node_next' = [node_next EXCEPT ![front] = NULL]

\* Mutant of ServeCar: the plate is read from the node after it was freed.
ServeCarAfterFree ==
  /\ Dequeue
  /\ cars' = cars \cup {node_plate'[front]} \/ UNCHANGED cars
  /\ UNCHANGED <<tableVars, genVars>>

\* The first car is served: it is let in or turned away.
ServeCar ==
  /\ Dequeue
  /\ cars' = cars \cup {node_plate[front]} \/ UNCHANGED cars
  /\ UNCHANGED <<tableVars, genVars>>

-----------------------------------------------------------------------------
(* The end of car_logic: htab_delete, with the mutex of the table          *)

\* Mutant of Unlink: every item is taken for the first of its bucket.
UnlinkAsFirst(i) == head' = item_next[i] /\ UNCHANGED item_next

\* The item is taken out of its bucket.
Unlink(i) ==
  \/ /\ head = i
     /\ head' = item_next[i]
     /\ UNCHANGED item_next
  \/ \E previous \in Range(Items) :
       /\ item_next[previous] = i
       /\ item_next' = [item_next EXCEPT ![previous] = item_next[i]]
       /\ UNCHANGED head

\* The walk, which no other writer can disturb, and the unlinking.  A car
\* whose plate has not been added yet finds nothing to delete.
CarDelete(p) ==
  /\ p \in cars /\ deleting = NULL
  /\ cars' = cars \ {p}
  /\ \/ \E i \in Range(Items) :
          item_key[i] = p /\ Unlink(i) /\ deleting' = i
     \/ /\ \A i \in Range(Items) : item_key[i] # p
        /\ UNCHANGED <<head, item_next, deleting>>
  /\ UNCHANGED <<item_key, items, genVars, queueVars>>

\* free(current)
CarFree ==
  /\ deleting # NULL
  /\ items' = items \ {deleting}
  /\ item_key' = [item_key EXCEPT ![deleting] = NoPlate]
  /\ deleting' = NULL
  /\ UNCHANGED <<head, item_next, genVars, queueVars, cars>>

-----------------------------------------------------------------------------

\* htab_init and create_queue.
Init ==
  /\ head = NULL
  /\ item_key = [i \in Chunk |-> NoPlate]
  /\ item_next = [i \in Chunk |-> NULL]
  /\ items = {}
  /\ deleting = NULL
  /\ gen_pc = "draw" /\ gen_plate = NoPlate /\ gen_item = NULL
  /\ front = NULL /\ rear = NULL
  /\ node_plate = [n \in Chunk |-> NoPlate]
  /\ node_next = [n \in Chunk |-> NULL]
  /\ nodes = {}
  /\ cars = {}

Generator == GenCompare \/ GenNext \/ GenEnqueue \/ GenAdd \/ \E p \in Plates : GenDraw(p)

Next == Generator \/ ServeCar \/ CarFree \/ \E p \in Plates : CarDelete(p)

Spec == Init /\ [][Next]_vars

-----------------------------------------------------------------------------
(* Properties                                                              *)

\* Type invariant.
TypeOK ==
  /\ {head, front, rear, deleting, gen_item} \subseteq Pointer
  /\ item_key \in [Chunk -> Plates \cup {NoPlate}]
  /\ node_plate \in [Chunk -> Plates \cup {NoPlate}]
  /\ item_next \in [Chunk -> Pointer]
  /\ node_next \in [Chunk -> Pointer]
  /\ items \subseteq Chunk /\ nodes \subseteq Chunk
  /\ gen_pc \in {"draw", "compare", "next", "enqueue", "add"}
  /\ gen_plate \in Plates \cup {NoPlate}
  /\ cars \subseteq Plates

\* The pointers implement a set and a queue: an item deleted or a node
\* dequeued takes no other with it, and none is linked twice or in a circle.
Refined == INSTANCE Stores WITH
  table <- {item_key[i] : i \in Range(Items)},
  queue <- [n \in DOMAIN Queue |-> node_plate[Queue[n]]]
StoresImplemented == Refined!Spec

\* "return == NULL AND item not found" (hashtable.c:54), for a walk that cars
\* disturb by freeing the items it stands on: the plate is still absent when
\* it is added, which is the precondition of htab_add.
NewPlateIsAbsent ==
  gen_pc \in {"enqueue", "add"} \/ (gen_pc = "compare" /\ gen_item = NULL) =>
    \A i \in Range(Items) : item_key[i] # gen_plate

\* No pointer that a writer follows leads to freed memory, and both ends of
\* the queue agree: enqueue writes through rear without looking at front.
LinksAreLive ==
  /\ Range(Items) \subseteq items
  /\ Range(Queue) \subseteq nodes
  /\ rear = IF front = NULL THEN NULL ELSE Last(Queue)

=============================================================================
