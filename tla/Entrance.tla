------------------------------ MODULE Entrance ------------------------------
(***************************************************************************)
(* The entrances of the car park: the generator that queues cars and the   *)
(* two simulator threads of each entrance (handle_entrance_queue,          *)
(* handle_entrance_boomgate), against the manager's monitor_entrance       *)
(* thread, over the LPR, boom gate and information sign they share.        *)
(*                                                                         *)
(* A critical section is one step: every thread holds one mutex at a time  *)
(* and writes one shared object under it.  A read the code makes outside   *)
(* the mutex is a step of its own, so whatever other threads do between    *)
(* an unlock and that read is explored.  A thread in pthread_cond_wait is  *)
(* a member of the wait set of its condition variable and is not enabled   *)
(* until a broadcast or a signal takes it out.                             *)
(***************************************************************************)
EXTENDS Naturals, Sequences, Functions

CONSTANTS
  Entrances,   \* the entrances
  Plates,      \* the plates generate_cars can draw
  Permitted,   \* those in the manager's table (plates.txt)
  NoPlate,     \* an LPR whose first byte is '\0'
  LEVELS       \* number of levels

ASSUME EntranceAssumption ==
  /\ Permitted \subseteq Plates
  /\ NoPlate \notin Plates
  /\ LEVELS \in Nat \ {0}

VARIABLES
  car_table,        \* plates in the simulator's hash table
  generator,        \* generate_cars: what it does next, with which plate
  entrance_queue,   \* cars waiting before each entrance
  lpr,              \* LPR plate of each entrance
  sign,             \* info_sign.display
  status,           \* boom_gate.status
  queue_pc,         \* handle_entrance_queue: where it stands
  first_plate,      \*   first_plate_in_queue, dequeued, not yet at the LPR
  man_pc,           \* monitor_entrance: where it stands
  permitted_car,    \*   the car it looked up
  directed_lvl,     \*   the level it directs it to
  gate_pc,          \* handle_entrance_boomgate: where it stands
  lpr_cond,         \* threads waiting on the LPR condition variable
  queue_cond,       \* ... on the queue condition variable
  gate_cond,        \* ... on the boom gate condition variable
  inside            \* car_logic threads alive, by plate

simVars   == <<car_table, generator, entrance_queue, queue_pc, first_plate>>
manVars   == <<man_pc, permitted_car, directed_lvl>>
condVars  == <<lpr_cond, queue_cond, gate_cond>>
vars == <<simVars, lpr, sign, status, manVars, gate_pc, condVars, inside>>

-----------------------------------------------------------------------------

BG_RAISING  == "R"
BG_OPENED   == "O"
BG_LOWERING == "L"
BG_CLOSED   == "C"

\* The characters of the sign: '\0', the digits of the levels, and letters,
\* which are above the digits as in ASCII.
Blank      == 0
LevelDigit == 1 .. LEVELS
SignFull   == LEVELS + 1     \* 'F'
SignDenied == LEVELS + 2     \* 'X'
SignEvac   == LEVELS + 3     \* a letter of "EVACUATE "

Idle == [step |-> "find", plate |-> NoPlate, entrance |-> NoPlate]

\* The threads of an entrance, named after their routines.
Queue == "handle_entrance_queue"
Man   == "monitor_entrance"
Gate  == "handle_entrance_boomgate"
Fire  == "open_en_boomgate"      \* waits on the same gate, see Evacuation

\* pthread_cond_wait, pthread_cond_broadcast and pthread_cond_signal.
Wait(cond, e, t)  == cond' = [cond EXCEPT ![e] = @ \cup {t}]
Broadcast(cond, e) == cond' = [cond EXCEPT ![e] = {}]
Signal(cond, e) ==
  \/ cond[e] = {} /\ UNCHANGED cond
  \/ \E t \in cond[e] : cond' = [cond EXCEPT ![e] = @ \ {t}]

Goto(pc, e, from, to) == pc[e] = from /\ pc' = [pc EXCEPT ![e] = to]

-----------------------------------------------------------------------------
(* generate_cars                                                           *)

\* Mutant of GenFind: the plate is not looked up.
GenFindUnchecked(p, e) ==
  /\ generator = Idle
  /\ generator' = [step |-> "enqueue", plate |-> p, entrance |-> e]
  /\ UNCHANGED <<car_table, entrance_queue, queue_pc, first_plate, lpr, sign,
                 status, manVars, gate_pc, condVars, inside>>

\* A plate and an entrance are drawn; htab_find is called without the table
\* mutex and its answer is used by the next two critical sections.
GenFind(p, e) ==
  /\ generator = Idle
  /\ p \notin car_table
  /\ generator' = [step |-> "enqueue", plate |-> p, entrance |-> e]
  /\ UNCHANGED <<car_table, entrance_queue, queue_pc, first_plate, lpr, sign,
                 status, manVars, gate_pc, condVars, inside>>

\* Mutant of GenEnqueue: the queue thread is not told.
GenEnqueueSilent ==
  /\ generator.step = "enqueue"
  /\ entrance_queue' = [entrance_queue EXCEPT ![generator.entrance] = Append(@, generator.plate)]
  /\ generator' = [generator EXCEPT !.step = "add"]
  /\ UNCHANGED <<car_table, queue_pc, first_plate, lpr, sign, status, manVars,
                 gate_pc, condVars, inside>>

GenEnqueue ==
  /\ generator.step = "enqueue"
  /\ LET e == generator.entrance IN
       /\ entrance_queue' = [entrance_queue EXCEPT ![e] = Append(@, generator.plate)]
       /\ Broadcast(queue_cond, e)
  /\ generator' = [generator EXCEPT !.step = "add"]
  /\ UNCHANGED <<car_table, queue_pc, first_plate, lpr, sign, status, manVars,
                 gate_pc, lpr_cond, gate_cond, inside>>

GenAdd ==
  /\ generator.step = "add"
  /\ car_table' = car_table \cup {generator.plate}
  /\ generator' = Idle
  /\ UNCHANGED <<entrance_queue, queue_pc, first_plate, lpr, sign, status,
                 manVars, gate_pc, condVars, inside>>

-----------------------------------------------------------------------------
(* handle_entrance_queue                                                   *)

\* Wait until the LPR is clear.
QueueAwaitClear(e) ==
  /\ Queue \notin lpr_cond[e]
  /\ \/ /\ lpr[e] = NoPlate
        /\ Goto(queue_pc, e, "clear", "take")
        /\ UNCHANGED lpr_cond
     \/ /\ lpr[e] # NoPlate
        /\ Goto(queue_pc, e, "clear", "clear")
        /\ Wait(lpr_cond, e, Queue)
  /\ UNCHANGED <<car_table, generator, entrance_queue, first_plate, lpr, sign,
                 status, manVars, gate_pc, queue_cond, gate_cond, inside>>

\* Wait until the queue is not empty and dequeue its first plate.
QueueTake(e) ==
  /\ Queue \notin queue_cond[e]
  /\ \/ /\ entrance_queue[e] # <<>>
        /\ Goto(queue_pc, e, "take", "trigger")
        /\ first_plate' = [first_plate EXCEPT ![e] = Head(entrance_queue[e])]
        /\ entrance_queue' = [entrance_queue EXCEPT ![e] = Tail(@)]
        /\ UNCHANGED queue_cond
     \/ /\ entrance_queue[e] = <<>>
        /\ Goto(queue_pc, e, "take", "take")
        /\ Wait(queue_cond, e, Queue)
        /\ UNCHANGED <<first_plate, entrance_queue>>
  /\ UNCHANGED <<car_table, generator, lpr, sign, status, manVars, gate_pc,
                 lpr_cond, gate_cond, inside>>

\* After 2 ms, trigger the LPR: it is not checked again.
QueueTrigger(e) ==
  /\ Goto(queue_pc, e, "trigger", "clear")
  /\ lpr' = [lpr EXCEPT ![e] = first_plate[e]]
  /\ first_plate' = [first_plate EXCEPT ![e] = NoPlate]
  /\ Broadcast(lpr_cond, e)
  /\ UNCHANGED <<car_table, generator, entrance_queue, sign, status, manVars,
                 gate_pc, queue_cond, gate_cond, inside>>

-----------------------------------------------------------------------------
(* monitor_entrance                                                        *)

\* Wait until the LPR holds a plate.
ManAwaitPlate(e) ==
  /\ Man \notin lpr_cond[e]
  /\ \/ /\ lpr[e] # NoPlate
        /\ Goto(man_pc, e, "await", "lookup")
        /\ UNCHANGED lpr_cond
     \/ /\ lpr[e] = NoPlate
        /\ Goto(man_pc, e, "await", "await")
        /\ Wait(lpr_cond, e, Man)
  /\ UNCHANGED <<simVars, lpr, sign, status, permitted_car, directed_lvl,
                 gate_pc, queue_cond, gate_cond, inside>>

\* htab_find(hashtable, LPR->plate), with no mutex held.
ManLookup(e) ==
  /\ \/ lpr[e] \in Permitted /\ Goto(man_pc, e, "lookup", "spot")
     \/ lpr[e] \notin Permitted /\ Goto(man_pc, e, "lookup", "deny")
  /\ permitted_car' = [permitted_car EXCEPT
                         ![e] = IF lpr[e] \in Permitted THEN lpr[e] ELSE NoPlate]
  /\ UNCHANGED <<simVars, lpr, sign, status, directed_lvl, gate_pc, condVars,
                 inside>>

\* Mutant of ManGetSpot: the answer is taken for a zero-based index.
ManGetSpotZeroBased(e, d) ==
  /\ \/ d # 0 /\ Goto(man_pc, e, "spot", "direct")
     \/ d = 0 /\ Goto(man_pc, e, "spot", "full")
  /\ directed_lvl' = [directed_lvl EXCEPT ![e] = d + 1]
  /\ UNCHANGED <<simVars, lpr, sign, status, permitted_car, gate_pc, condVars,
                 inside>>

\* get_empty_spot under the capacity mutex answers d; what it answers is the
\* business of the module Capacity.
ManGetSpot(e, d) ==
  /\ \/ d # 0 /\ Goto(man_pc, e, "spot", "direct")
     \/ d = 0 /\ Goto(man_pc, e, "spot", "full")
  /\ directed_lvl' = [directed_lvl EXCEPT ![e] = d]
  /\ UNCHANGED <<simVars, lpr, sign, status, permitted_car, gate_pc, condVars,
                 inside>>

\* The sign shows c: the level, 'F' when the car park is full, 'X' when the
\* car is not permitted, '\0' when the car has been dealt with.
ManShows(e, c, from, to) ==
  /\ Goto(man_pc, e, from, to)
  /\ sign' = [sign EXCEPT ![e] = c]
  /\ UNCHANGED <<simVars, lpr, status, permitted_car, directed_lvl, gate_pc,
                 condVars, inside>>

ManShowLevel(e) == ManShows(e, directed_lvl[e], "direct", "raise")
ManShowFull(e)  == ManShows(e, SignFull, "full", "clear")
ManDeny(e)      == ManShows(e, SignDenied, "deny", "clear")
ManBlankSign(e) == ManShows(e, Blank, "blank", "await")

\* control_boom_gate(BG_RAISING), and the first pthread_cond_wait, which is
\* entered before the mutex is ever released.
ManRaise(e) ==
  /\ Goto(man_pc, e, "raise", "opened")
  /\ status' = [status EXCEPT ![e] = BG_RAISING]
  /\ gate_cond' = [gate_cond EXCEPT ![e] = {Man}]
  /\ UNCHANGED <<simVars, lpr, sign, permitted_car, directed_lvl, gate_pc,
                 lpr_cond, queue_cond, inside>>

\* Wait until the gate is in state s.
ManAwaitGate(e, s, from, to) ==
  /\ Man \notin gate_cond[e]
  /\ \/ /\ status[e] = s
        /\ Goto(man_pc, e, from, to)
        /\ UNCHANGED gate_cond
     \/ /\ status[e] # s
        /\ Goto(man_pc, e, from, from)
        /\ Wait(gate_cond, e, Man)
  /\ UNCHANGED <<simVars, lpr, sign, status, permitted_car, directed_lvl,
                 gate_pc, lpr_cond, queue_cond, inside>>

\* Mutant of ManAwaitClosed: the manager does not wait.
ManAwaitClosedNot(e) ==
  /\ Goto(man_pc, e, "closed", "clear")
  /\ UNCHANGED <<simVars, lpr, sign, status, permitted_car, directed_lvl,
                 gate_pc, condVars, inside>>

ManAwaitOpened(e) == ManAwaitGate(e, BG_OPENED, "opened", "admit")
ManAwaitClosed(e) == ManAwaitGate(e, BG_CLOSED, "closed", "clear")

\* The status is read again, with no mutex; if the gate is (still) open the
\* car is timed and marked as entered, else the lowering is left out.
ManAdmit(e) ==
  /\ \/ status[e] = BG_OPENED /\ Goto(man_pc, e, "admit", "lower")
     \/ status[e] # BG_OPENED /\ Goto(man_pc, e, "admit", "closed")
  /\ UNCHANGED <<simVars, lpr, sign, status, permitted_car, directed_lvl,
                 gate_pc, condVars, inside>>

\* 20 ms later the gate is told to lower; the broadcast follows the unlock.
ManLower(e) ==
  /\ Goto(man_pc, e, "lower", "notify")
  /\ status' = [status EXCEPT ![e] = BG_LOWERING]
  /\ UNCHANGED <<simVars, lpr, sign, permitted_car, directed_lvl, gate_pc,
                 condVars, inside>>

\* Mutant of ManNotify: nobody is told.
ManNotifySilent(e) ==
  /\ Goto(man_pc, e, "notify", "closed")
  /\ UNCHANGED <<simVars, lpr, sign, status, permitted_car, directed_lvl,
                 gate_pc, condVars, inside>>

ManNotify(e) ==
  /\ Goto(man_pc, e, "notify", "closed")
  /\ Broadcast(gate_cond, e)
  /\ UNCHANGED <<simVars, lpr, sign, status, permitted_car, directed_lvl,
                 gate_pc, lpr_cond, queue_cond, inside>>

\* The car has been dealt with; permitted_car and directed_lvl go out of use.
ManClearLPR(e) ==
  /\ Goto(man_pc, e, "clear", "blank")
  /\ lpr' = [lpr EXCEPT ![e] = NoPlate]
  /\ permitted_car' = [permitted_car EXCEPT ![e] = NoPlate]
  /\ directed_lvl' = [directed_lvl EXCEPT ![e] = 0]
  /\ Broadcast(lpr_cond, e)
  /\ UNCHANGED <<simVars, sign, status, gate_pc, queue_cond, gate_cond, inside>>

-----------------------------------------------------------------------------
(* handle_entrance_boomgate                                                *)

\* Mutant of GateAwaitCommand: the command to lower is forgotten.
GateAwaitRaising(e) ==
  /\ Gate \notin gate_cond[e]
  /\ \/ /\ status[e] = BG_RAISING
        /\ Goto(gate_pc, e, "idle", "sign")
        /\ UNCHANGED gate_cond
     \/ /\ status[e] # BG_RAISING
        /\ Goto(gate_pc, e, "idle", "idle")
        /\ Wait(gate_cond, e, Gate)
  /\ UNCHANGED <<simVars, lpr, sign, status, manVars, lpr_cond, queue_cond,
                 inside>>

\* Wait until the gate is told to move.
GateAwaitCommand(e) ==
  /\ Gate \notin gate_cond[e]
  /\ \/ /\ status[e] \in {BG_RAISING, BG_LOWERING}
        /\ Goto(gate_pc, e, "idle", "sign")
        /\ UNCHANGED gate_cond
     \/ /\ status[e] \notin {BG_RAISING, BG_LOWERING}
        /\ Goto(gate_pc, e, "idle", "idle")
        /\ Wait(gate_cond, e, Gate)
  /\ UNCHANGED <<simVars, lpr, sign, status, manVars, lpr_cond, queue_cond,
                 inside>>

\* sign->display is read with no mutex: no digit means an evacuation.
GateReadSign(e) ==
  /\ \/ sign[e] \in LevelDigit /\ Goto(gate_pc, e, "sign", "dispatch")
     \/ sign[e] \notin LevelDigit /\ Goto(gate_pc, e, "sign", "force")
  /\ UNCHANGED <<simVars, lpr, sign, status, manVars, condVars, inside>>

\* boom_gate->status is read with no mutex.
GateDispatch(e) ==
  /\ \/ status[e] = BG_RAISING /\ Goto(gate_pc, e, "dispatch", "opening")
     \/ status[e] = BG_LOWERING /\ Goto(gate_pc, e, "dispatch", "closing")
     \/ /\ status[e] \notin {BG_RAISING, BG_LOWERING}
        /\ Goto(gate_pc, e, "dispatch", "idle")
  /\ UNCHANGED <<simVars, lpr, sign, status, manVars, condVars, inside>>

\* The gate reports state s, whatever the status has become meanwhile.
GateReports(e, s, from, to) ==
  /\ Goto(gate_pc, e, from, to)
  /\ status' = [status EXCEPT ![e] = s]
  /\ Signal(gate_cond, e)
  /\ UNCHANGED <<simVars, lpr, sign, manVars, lpr_cond, queue_cond, inside>>

GateForceOpen(e) == GateReports(e, BG_OPENED, "force", "idle")
GateOpened(e)    == GateReports(e, BG_OPENED, "opening", "spawn")
GateClosed(e)    == GateReports(e, BG_CLOSED, "closing", "idle")

\* strcpy(plate_copy, lpr->plate) with no mutex, and a car_logic thread for
\* it.  (The level and exit it is given belong to the car: see LevelLPR.)
GateSpawnCar(e) ==
  /\ Goto(gate_pc, e, "spawn", "idle")
  /\ inside' = [inside EXCEPT ![lpr[e]] = @ + 1]
  /\ UNCHANGED <<simVars, lpr, sign, status, manVars, condVars>>

-----------------------------------------------------------------------------

\* A car_logic thread ends with htab_delete(hashtable, car->plate).
CarLeaves(p) ==
  /\ inside[p] > 0
  /\ inside' = [inside EXCEPT ![p] = @ - 1]
  /\ car_table' = car_table \ {p}
  /\ UNCHANGED <<generator, entrance_queue, queue_pc, first_plate, lpr, sign,
                 status, manVars, gate_pc, condVars>>

Init ==
  /\ car_table = {}
  /\ generator = Idle
  /\ entrance_queue = [e \in Entrances |-> <<>>]
  /\ lpr = [e \in Entrances |-> NoPlate]
  /\ sign = [e \in Entrances |-> Blank]
  /\ status = [e \in Entrances |-> BG_CLOSED]
  /\ queue_pc = [e \in Entrances |-> "clear"]
  /\ first_plate = [e \in Entrances |-> NoPlate]
  /\ man_pc = [e \in Entrances |-> "await"]
  /\ permitted_car = [e \in Entrances |-> NoPlate]
  /\ directed_lvl = [e \in Entrances |-> 0]
  /\ gate_pc = [e \in Entrances |-> "idle"]
  /\ lpr_cond = [e \in Entrances |-> {}]
  /\ queue_cond = [e \in Entrances |-> {}]
  /\ gate_cond = [e \in Entrances |-> {}]
  /\ inside = [p \in Plates \cup {NoPlate} |-> 0]

Generator == GenEnqueue \/ GenAdd \/ \E p \in Plates, e \in Entrances : GenFind(p, e)

QueueThread(e) == QueueAwaitClear(e) \/ QueueTake(e) \/ QueueTrigger(e)

ManThread(e) ==
  \/ ManAwaitPlate(e) \/ ManLookup(e) \/ \E d \in 0 .. LEVELS : ManGetSpot(e, d)
  \/ ManShowLevel(e) \/ ManShowFull(e) \/ ManDeny(e) \/ ManBlankSign(e)
  \/ ManRaise(e) \/ ManAwaitOpened(e) \/ ManAdmit(e) \/ ManLower(e)
  \/ ManNotify(e) \/ ManAwaitClosed(e) \/ ManClearLPR(e)

GateThread(e) ==
  \/ GateAwaitCommand(e) \/ GateReadSign(e) \/ GateForceOpen(e)
  \/ GateDispatch(e) \/ GateOpened(e) \/ GateSpawnCar(e) \/ GateClosed(e)

Next ==
  \/ Generator
  \/ \E e \in Entrances : QueueThread(e) \/ ManThread(e) \/ GateThread(e)
  \/ \E p \in Plates \cup {NoPlate} : CarLeaves(p)

Spec == Init /\ [][Next]_vars

\* The operating system keeps running every thread that is not blocked.
Fairness ==
  /\ WF_vars(GenEnqueue) /\ WF_vars(GenAdd)
  /\ \A e \in Entrances :
       WF_vars(QueueThread(e)) /\ WF_vars(ManThread(e)) /\ WF_vars(GateThread(e))

FairSpec == Spec /\ Fairness

-----------------------------------------------------------------------------
(* Properties                                                              *)

\* Type invariant of the entrances.
TypeOK ==
  /\ car_table \subseteq Plates
  /\ generator \in [step : {"find", "enqueue", "add"}, plate : Plates \cup {NoPlate},
                    entrance : Entrances \cup {NoPlate}]
  /\ entrance_queue \in [Entrances -> Seq(Plates)]
  /\ lpr \in [Entrances -> Plates \cup {NoPlate}]
  /\ sign \in [Entrances -> 0 .. SignEvac]
  /\ status \in [Entrances -> {BG_RAISING, BG_OPENED, BG_LOWERING, BG_CLOSED}]
  /\ queue_pc \in [Entrances -> {"clear", "take", "trigger"}]
  /\ first_plate \in [Entrances -> Plates \cup {NoPlate}]
  /\ man_pc \in [Entrances -> {"await", "lookup", "spot", "direct", "full", "deny",
                               "raise", "opened", "admit", "lower", "notify",
                               "closed", "clear", "blank"}]
  /\ permitted_car \in [Entrances -> Permitted \cup {NoPlate}]
  /\ directed_lvl \in [Entrances -> 0 .. LEVELS]
  /\ gate_pc \in [Entrances -> {"idle", "sign", "force", "dispatch", "opening",
                                "spawn", "closing"}]
  /\ lpr_cond \in [Entrances -> SUBSET {Queue, Man}]
  /\ queue_cond \in [Entrances -> SUBSET {Queue}]
  /\ gate_cond \in [Entrances -> SUBSET {Man, Gate, Fire}]
  /\ inside \in [Plates \cup {NoPlate} -> Nat]

\* The gate thread copies lpr->plate and sign->display with no mutex
\* (simulator_routines.c:219-224) after a sleep: what it copies is still the
\* permitted car and the level on which the manager decided.
SpawnMatchesDecision ==
  \A e \in Entrances :
    gate_pc[e] = "spawn" =>
      /\ permitted_car[e] \in Permitted /\ lpr[e] = permitted_car[e]
      /\ directed_lvl[e] \in LevelDigit /\ sign[e] = directed_lvl[e]

\* The plate at the LPR has neither been let in nor turned away yet.
Unserved(e) ==
  \/ man_pc[e] \notin {"opened", "admit", "lower", "notify", "closed", "clear"}
  \/ status[e] = BG_RAISING
  \/ gate_pc[e] = "spawn"

\* Where cars with plate p wait to be let in: in a queue, taken from it by
\* the queue thread, or at the LPR.
WaitsAt(p) ==
  {w \in Entrances \X {"queue", "thread", "lpr"} :
     \/ w[2] = "queue" /\ \E i \in DOMAIN entrance_queue[w[1]] : entrance_queue[w[1]][i] = p
     \/ w[2] = "thread" /\ first_plate[w[1]] = p
     \/ w[2] = "lpr" /\ lpr[w[1]] = p /\ Unserved(w[1])}

\* The generator is about to enqueue p.
GeneratorHolds(p) == generator.step = "enqueue" /\ generator.plate = p

\* One car per plate: generate_cars looks into the table with no mutex,
\* enqueues, and only then adds to the table (simulator_routines.c:364-373),
\* while car_logic threads delete from it; still no plate is ever queued, at
\* a reader or inside twice.
OneCarPerPlate ==
  /\ \A e \in Entrances : IsInjective(entrance_queue[e])
  /\ \A p \in Plates :
       /\ inside[p] <= 1
       /\ \A v, w \in WaitsAt(p) : v = w
       /\ inside[p] = 1 => WaitsAt(p) = {}
       /\ GeneratorHolds(p) => WaitsAt(p) = {} /\ inside[p] = 0

\* Every gate goes round closed, raising, opened, lowering and completes its
\* movements, although two threads write its status and neither checks it
\* in the critical section that overwrites it.
Gates == INSTANCE BoomGate WITH Gates <- Entrances
GateProtocol == Gates!Spec

\* No wakeup is lost on the way to the reader: a queued car gets there.
QueuedCarReachesLPR ==
  \A e \in Entrances, p \in Plates :
    (\E i \in DOMAIN entrance_queue[e] : entrance_queue[e][i] = p) ~> lpr[e] = p

\* Nor at the reader: every car is answered and the LPR cleared for the next.
LPRIsCleared == \A e \in Entrances : []<>(lpr[e] = NoPlate)

=============================================================================
