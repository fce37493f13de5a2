------------------------------- MODULE Stores -------------------------------
(***************************************************************************)
(* What the simulator's table and an entrance queue promise to those who   *)
(* use them: a set of plates and a first-in first-out queue of plates.     *)
(***************************************************************************)
EXTENDS Sequences

CONSTANTS Plates

VARIABLES table, queue

Init == table = {} /\ queue = <<>>

\* pre: the plate is not in the table.
Add(p)     == p \notin table /\ table' = table \cup {p} /\ UNCHANGED queue
Delete(p)  == table' = table \ {p} /\ UNCHANGED queue
Enqueue(p) == queue' = Append(queue, p) /\ UNCHANGED table
Dequeue    == queue # <<>> /\ queue' = Tail(queue) /\ UNCHANGED table

Next == Dequeue \/ \E p \in Plates : Add(p) \/ Delete(p) \/ Enqueue(p)

Spec == Init /\ [][Next]_<<table, queue>>

=============================================================================
