------------------------------ MODULE ExitGate ------------------------------
(***************************************************************************)
(* The exits of the car park: the end of car_logic, which triggers an exit *)
(* LPR without looking whether it is in use; the gate thread               *)
(* handle_exit_boomgate; and the manager's monitor_exit, which bills the   *)
(* plate it finds there and resets it for its next visit.  A car comes in  *)
(* as soon as the gate of its entrance is open; that monitor_entrance has  *)
(* it timed is another thread's step, which may come when the car has left *)
(* and has been billed.                                                    *)
(*                                                                         *)
(* Billing holds the mutex of the manager's table over several steps,      *)
(* because it reads the plate of the LPR, which that mutex does not        *)
(* protect, and the revenue, which has a mutex of its own nobody locks.    *)
(***************************************************************************)
EXTENDS Naturals, FiniteSets

CONSTANTS
  Entrances,   \* the entrances, each with its monitor_entrance
  Exits,       \* the exits
  Plates,      \* permitted plates
  NoPlate,     \* an LPR whose first byte is '\0'
  NoExit,      \* owner of the table mutex when it is free
  MaxVisits    \* bound: visits of all plates together

ASSUME ExitGateAssumption ==
  /\ NoPlate \notin Plates
  /\ NoExit \notin Exits
  /\ MaxVisits \in Nat

VARIABLES
  inside,        \* plates in the car park
  visits,        \* how often a plate has come
  untimed,       \* plate that each monitor_entrance has still to time
  timed,         \* plates whose entry_time is not 0
  exit_lpr,      \* LPR plate of each exit
  status,        \* boom_gate.status
  gate_pc,       \* handle_exit_boomgate: where it stands
  mon_pc,        \* monitor_exit: where it stands
  mon_cars,      \*   the cars it looked up: one to reset, one to bill
  mon_total,     \*   *total, as read by *total += bill
  table_owner,   \* who holds hashtable->mutex
  revenue,       \* total_revenue, in bills
  bills,         \* bills written to billing.txt
  level_alarm,   \* exits whose level has alarm == '1'
  lpr_cond,      \* threads waiting on the LPR condition variable
  gate_cond,     \* ... on the boom gate condition variable
  early,         \* ghost: plates that came back before an exit was done with them
  alone,         \* ghost: plates that found their exit LPR clear, and that no
                 \* other car has overwritten there
  late           \* ghost: plates that an exit reset while a monitor_entrance
                 \* had still to time them

carVars  == <<inside, visits, untimed, early, alone>>
monVars  == <<mon_pc, mon_cars, mon_total>>
billVars == <<timed, late, table_owner, revenue, bills>>
vars == <<carVars, billVars, exit_lpr, status, gate_pc, monVars, level_alarm,
          lpr_cond, gate_cond>>

BG_RAISING  == "R"
BG_OPENED   == "O"
BG_LOWERING == "L"
BG_CLOSED   == "C"

Man  == "monitor_exit"
Gate == "handle_exit_boomgate"
Fire == "open_ex_boomgate"      \* waits on the same gate, see ExitEvacuation

Wait(cond, x, t)   == cond' = [cond EXCEPT ![x] = @ \cup {t}]
Broadcast(cond, x) == cond' = [cond EXCEPT ![x] = {}]
Signal(cond, x) ==
  \/ cond[x] = {} /\ UNCHANGED cond
  \/ \E t \in cond[x] : cond' = [cond EXCEPT ![x] = @ \ {t}]

Goto(pc, x, from, to) == pc[x] = from /\ pc' = [pc EXCEPT ![x] = to]

-----------------------------------------------------------------------------
(* Cars                                                                    *)

\* Some exit has still to reset p, or to look at its plate.
Unsettled(p) ==
  \E x \in Exits :
    \/ p \in mon_cars[x]
    \/ exit_lpr[x] = p /\ mon_pc[x] \notin {"lower", "notify", "closed", "clear"}

\* Some monitor_entrance has still to time p.
ToTime(p) == \E e \in Entrances : untimed[e] = p

\* The gate of the entrance e opens for p, and its gate thread creates the car.
\* The plate may be drawn again as soon as the car has exited, and be let in by
\* another entrance before this one has timed it.
CarEnters(p, e) ==
  /\ p \notin inside /\ visits < MaxVisits
  /\ untimed[e] = NoPlate
  /\ inside' = inside \cup {p}
  /\ visits' = visits + 1
  /\ untimed' = [untimed EXCEPT ![e] = p]
  /\ early' = IF Unsettled(p) THEN early \cup {p} ELSE early \ {p}
  /\ alone' = alone \ {p}
  /\ late' = late \ {p}
  /\ UNCHANGED <<timed, table_owner, revenue, bills, exit_lpr, status, gate_pc,
                 monVars, level_alarm, lpr_cond, gate_cond>>

\* monitor_entrance, woken at the open gate, calls start_time, which takes no
\* mutex: wherever the car is by then.
ManStartTime(e) ==
  /\ untimed[e] # NoPlate
  /\ timed' = timed \cup {untimed[e]}
  /\ untimed' = [untimed EXCEPT ![e] = NoPlate]
  /\ UNCHANGED <<inside, visits, early, alone, late, table_owner, revenue, bills,
                 exit_lpr, status, gate_pc, monVars, level_alarm, lpr_cond, gate_cond>>

\* The end of car_logic: the LPR of a random exit is triggered, whatever it
\* holds, and the car is gone.
CarExits(p, x) ==
  /\ p \in inside
  /\ inside' = inside \ {p}
  /\ exit_lpr' = [exit_lpr EXCEPT ![x] = p]
  /\ Broadcast(lpr_cond, x)
  /\ alone' = (alone \ {exit_lpr[x]}) \cup {q \in {p} : exit_lpr[x] = NoPlate}
  /\ UNCHANGED <<visits, untimed, early, billVars, status, gate_pc, monVars, level_alarm,
                 gate_cond>>

-----------------------------------------------------------------------------
(* monitor_exit                                                            *)

\* Mutant of ManAwaitPlate: the monitor does not wait.
ManAwaitPlateNot(x) ==
  /\ Goto(mon_pc, x, "await", "alarm")
  /\ UNCHANGED <<carVars, billVars, exit_lpr, status, gate_pc, mon_cars, mon_total,
                 level_alarm, lpr_cond, gate_cond>>

\* Wait until the LPR holds a plate.
ManAwaitPlate(x) ==
  /\ Man \notin lpr_cond[x]
  /\ \/ /\ exit_lpr[x] # NoPlate
        /\ Goto(mon_pc, x, "await", "alarm")
        /\ UNCHANGED lpr_cond
     \/ /\ exit_lpr[x] = NoPlate
        /\ Goto(mon_pc, x, "await", "await")
        /\ Wait(lpr_cond, x, Man)
  /\ UNCHANGED <<carVars, billVars, exit_lpr, status, gate_pc, mon_cars, mon_total,
                 level_alarm, gate_cond>>

\* While the level of the exit has its alarm on, the plate is left alone.
ManCheckAlarm(x) ==
  /\ \/ x \in level_alarm /\ Goto(mon_pc, x, "alarm", "await")
     \/ x \notin level_alarm /\ Goto(mon_pc, x, "alarm", "raise")
  /\ UNCHANGED <<carVars, billVars, exit_lpr, status, gate_pc, mon_cars, mon_total,
                 level_alarm, lpr_cond, gate_cond>>

\* control_boom_gate(BG_RAISING) and the first wait, as in Entrance.
ManRaise(x) ==
  /\ Goto(mon_pc, x, "raise", "opened")
  /\ status' = [status EXCEPT ![x] = BG_RAISING]
  /\ gate_cond' = [gate_cond EXCEPT ![x] = {Man}]
  /\ UNCHANGED <<carVars, billVars, exit_lpr, gate_pc, mon_cars, mon_total,
                 level_alarm, lpr_cond>>

\* Wait until the gate is in state s.
ManAwaitGate(x, s, from, to) ==
  /\ Man \notin gate_cond[x]
  /\ \/ /\ status[x] = s
        /\ Goto(mon_pc, x, from, to)
        /\ UNCHANGED gate_cond
     \/ /\ status[x] # s
        /\ Goto(mon_pc, x, from, from)
        /\ Wait(gate_cond, x, Man)
  /\ UNCHANGED <<carVars, billVars, exit_lpr, status, gate_pc, mon_cars, mon_total,
                 level_alarm, lpr_cond>>

ManAwaitOpened(x) == ManAwaitGate(x, BG_OPENED, "opened", "check")
ManAwaitClosed(x) == ManAwaitGate(x, BG_CLOSED, "closed", "clear")

\* The status is read again, with no mutex; unless the gate is (still) open,
\* neither the bill nor the lowering takes place.
ManCheckOpened(x) ==
  /\ \/ status[x] = BG_OPENED /\ Goto(mon_pc, x, "check", "find")
     \/ status[x] # BG_OPENED /\ Goto(mon_pc, x, "check", "closed")
  /\ UNCHANGED <<carVars, billVars, exit_lpr, status, gate_pc, mon_cars, mon_total,
                 level_alarm, lpr_cond, gate_cond>>

\* Mutant of ManFind: the table is not locked.
ManFindUnlocked(x) ==
  /\ Goto(mon_pc, x, "find", "calc")
  /\ mon_cars' = [mon_cars EXCEPT ![x] = {exit_lpr[x]}]
  /\ UNCHANGED <<carVars, timed, late, table_owner, revenue, bills, exit_lpr,
                 status, gate_pc, mon_total, level_alarm, lpr_cond, gate_cond>>

\* Lock the table and find the plate that is now on the LPR.
ManFind(x) ==
  /\ table_owner = NoExit
  /\ Goto(mon_pc, x, "find", "calc")
  /\ table_owner' = x
  /\ mon_cars' = [mon_cars EXCEPT ![x] = {exit_lpr[x]}]
  /\ UNCHANGED <<carVars, timed, late, revenue, bills, exit_lpr, status, gate_pc,
                 mon_total, level_alarm, lpr_cond, gate_cond>>

\* calc_bill looks the plate of the LPR up again and bills that car:
\* *total += bill reads the revenue here and writes it in ManReset.
ManCalcBill(x) ==
  /\ Goto(mon_pc, x, "calc", "reset")
  /\ mon_cars' = [mon_cars EXCEPT ![x] = @ \cup {exit_lpr[x]}]
  /\ mon_total' = [mon_total EXCEPT ![x] = revenue]
  /\ UNCHANGED <<carVars, billVars, exit_lpr, status, gate_pc, level_alarm,
                 lpr_cond, gate_cond>>

\* Mutant of ManReset: the car keeps its entry time.
ManResetNot(x) ==
  /\ Goto(mon_pc, x, "reset", "lower")
  /\ revenue' = mon_total[x] + 1
  /\ bills' = bills + 1
  /\ table_owner' = NoExit
  /\ mon_cars' = [mon_cars EXCEPT ![x] = {}]
  /\ mon_total' = [mon_total EXCEPT ![x] = 0]
  /\ UNCHANGED <<carVars, timed, late, exit_lpr, status, gate_pc, level_alarm, lpr_cond,
                 gate_cond>>

\* The revenue and the line of billing.txt are written, the car found first
\* and the car billed are reset, and the table unlocked.
ManReset(x) ==
  /\ Goto(mon_pc, x, "reset", "lower")
  /\ revenue' = mon_total[x] + 1
  /\ bills' = bills + 1
  /\ timed' = timed \ mon_cars[x]
  /\ late' = late \cup {p \in mon_cars[x] : ToTime(p)}
  /\ table_owner' = NoExit
  /\ mon_cars' = [mon_cars EXCEPT ![x] = {}]
  /\ mon_total' = [mon_total EXCEPT ![x] = 0]
  /\ UNCHANGED <<carVars, exit_lpr, status, gate_pc, level_alarm, lpr_cond, gate_cond>>

\* 20 ms later the gate is told to lower; the broadcast follows the unlock.
ManLower(x) ==
  /\ Goto(mon_pc, x, "lower", "notify")
  /\ status' = [status EXCEPT ![x] = BG_LOWERING]
  /\ UNCHANGED <<carVars, billVars, exit_lpr, gate_pc, mon_cars, mon_total,
                 level_alarm, lpr_cond, gate_cond>>

\* Mutant of ManNotify: nobody is told.
ManNotifySilent(x) ==
  /\ Goto(mon_pc, x, "notify", "closed")
  /\ UNCHANGED <<carVars, billVars, exit_lpr, status, gate_pc, mon_cars, mon_total,
                 level_alarm, lpr_cond, gate_cond>>

ManNotify(x) ==
  /\ Goto(mon_pc, x, "notify", "closed")
  /\ Broadcast(gate_cond, x)
  /\ UNCHANGED <<carVars, billVars, exit_lpr, status, gate_pc, mon_cars, mon_total,
                 level_alarm, lpr_cond>>

\* Mutant of ManClearLPR: the plate stays on the LPR.
ManClearLPRNot(x) ==
  /\ Goto(mon_pc, x, "clear", "await")
  /\ Broadcast(lpr_cond, x)
  /\ UNCHANGED <<carVars, billVars, exit_lpr, status, gate_pc, mon_cars, mon_total,
                 level_alarm, gate_cond>>

\* The LPR is cleared, of whatever plate it holds by now.
ManClearLPR(x) ==
  /\ Goto(mon_pc, x, "clear", "await")
  /\ exit_lpr' = [exit_lpr EXCEPT ![x] = NoPlate]
  /\ Broadcast(lpr_cond, x)
  /\ UNCHANGED <<carVars, billVars, status, gate_pc, mon_cars, mon_total,
                 level_alarm, gate_cond>>

-----------------------------------------------------------------------------
(* handle_exit_boomgate                                                    *)

\* Mutant of GateAwaitCommand: the command to lower is forgotten.
GateAwaitRaising(x) ==
  /\ Gate \notin gate_cond[x]
  /\ \/ /\ status[x] = BG_RAISING
        /\ Goto(gate_pc, x, "idle", "dispatch")
        /\ UNCHANGED gate_cond
     \/ /\ status[x] # BG_RAISING
        /\ Goto(gate_pc, x, "idle", "idle")
        /\ Wait(gate_cond, x, Gate)
  /\ UNCHANGED <<carVars, billVars, exit_lpr, status, monVars, level_alarm, lpr_cond>>

\* Wait until the gate is told to move.
GateAwaitCommand(x) ==
  /\ Gate \notin gate_cond[x]
  /\ \/ /\ status[x] \in {BG_RAISING, BG_LOWERING}
        /\ Goto(gate_pc, x, "idle", "dispatch")
        /\ UNCHANGED gate_cond
     \/ /\ status[x] \notin {BG_RAISING, BG_LOWERING}
        /\ Goto(gate_pc, x, "idle", "idle")
        /\ Wait(gate_cond, x, Gate)
  /\ UNCHANGED <<carVars, billVars, exit_lpr, status, monVars, level_alarm, lpr_cond>>

\* boom_gate->status is read with no mutex.
GateDispatch(x) ==
  /\ \/ status[x] = BG_RAISING /\ Goto(gate_pc, x, "dispatch", "opening")
     \/ status[x] = BG_LOWERING /\ Goto(gate_pc, x, "dispatch", "closing")
     \/ /\ status[x] \notin {BG_RAISING, BG_LOWERING}
        /\ Goto(gate_pc, x, "dispatch", "idle")
  /\ UNCHANGED <<carVars, billVars, exit_lpr, status, monVars, level_alarm,
                 lpr_cond, gate_cond>>

\* 10 ms later the gate reports s, whatever the status has become meanwhile.
GateReports(x, s, from) ==
  /\ Goto(gate_pc, x, from, "idle")
  /\ status' = [status EXCEPT ![x] = s]
  /\ Signal(gate_cond, x)
  /\ UNCHANGED <<carVars, billVars, exit_lpr, monVars, level_alarm, lpr_cond>>

GateOpened(x) == GateReports(x, BG_OPENED, "opening")
GateClosed(x) == GateReports(x, BG_CLOSED, "closing")

-----------------------------------------------------------------------------

Init ==
  /\ inside = {}
  /\ visits = 0
  /\ untimed = [e \in Entrances |-> NoPlate]
  /\ timed = {}
  /\ exit_lpr = [x \in Exits |-> NoPlate]
  /\ status = [x \in Exits |-> BG_CLOSED]
  /\ gate_pc = [x \in Exits |-> "idle"]
  /\ mon_pc = [x \in Exits |-> "await"]
  /\ mon_cars = [x \in Exits |-> {}]
  /\ mon_total = [x \in Exits |-> 0]
  /\ table_owner = NoExit
  /\ revenue = 0
  /\ bills = 0
  /\ level_alarm = {}
  /\ lpr_cond = [x \in Exits |-> {}]
  /\ gate_cond = [x \in Exits |-> {}]
  /\ early = {}
  /\ alone = {}
  /\ late = {}

Car(p) ==
  \/ \E e \in Entrances : CarEnters(p, e)
  \/ \E x \in Exits : CarExits(p, x)

ManThread(x) ==
  \/ ManAwaitPlate(x) \/ ManCheckAlarm(x) \/ ManRaise(x) \/ ManAwaitOpened(x)
  \/ ManCheckOpened(x) \/ ManFind(x) \/ ManCalcBill(x) \/ ManReset(x)
  \/ ManLower(x) \/ ManNotify(x) \/ ManAwaitClosed(x) \/ ManClearLPR(x)

GateThread(x) ==
  GateAwaitCommand(x) \/ GateDispatch(x) \/ GateOpened(x) \/ GateClosed(x)

Next ==
  \/ \E p \in Plates : Car(p)
  \/ \E e \in Entrances : ManStartTime(e)
  \/ \E x \in Exits : ManThread(x) \/ GateThread(x)

Spec == Init /\ [][Next]_vars

\* A thread that can run does, and a mutex is handed to each of its waiters.
Fairness ==
  \A x \in Exits :
    /\ WF_vars(ManThread(x)) /\ WF_vars(GateThread(x))
    /\ SF_vars(ManFind(x))

FairSpec == Spec /\ Fairness

-----------------------------------------------------------------------------
(* Properties                                                              *)

\* Type invariant.
TypeOK ==
  /\ inside \subseteq Plates
  /\ visits \in 0 .. MaxVisits
  /\ untimed \in [Entrances -> Plates \cup {NoPlate}]
  /\ timed \subseteq Plates
  /\ exit_lpr \in [Exits -> Plates \cup {NoPlate}]
  /\ status \in [Exits -> {BG_RAISING, BG_OPENED, BG_LOWERING, BG_CLOSED}]
  /\ gate_pc \in [Exits -> {"idle", "dispatch", "opening", "closing"}]
  /\ mon_pc \in [Exits -> {"await", "alarm", "raise", "opened", "check", "find",
                           "calc", "reset", "lower", "notify", "closed", "clear"}]
  /\ mon_cars \in [Exits -> SUBSET Plates]
  /\ mon_total \in [Exits -> Nat]
  /\ table_owner \in Exits \cup {NoExit}
  /\ revenue \in Nat
  /\ bills \in Nat
  /\ level_alarm \subseteq Exits
  /\ lpr_cond \in [Exits -> SUBSET {Man}]
  /\ gate_cond \in [Exits -> SUBSET {Man, Gate, Fire}]
  /\ early \subseteq Plates
  /\ alone \subseteq Plates
  /\ late \subseteq Plates

\* No update of the revenue is lost: nobody locks revenue_mutex, but every
\* bill is written under the table mutex (manager_routines.c:175-183).
RevenueMatchesBills == revenue = bills

\* No visit is billed twice, nor from the entry_time 0 of a car that nobody
\* will time: although the plate on the LPR may have changed since the gate was
\* raised, and again since the table was searched, the car that calc_bill finds
\* has been timed, or a monitor_entrance is still about to time it (which no
\* mutex keeps it from doing too late, manager_routines.c:86) - or the car has
\* come back before the exit of its last visit was done with it.
BilledCarIsTimed ==
  \A x \in Exits :
    mon_pc[x] = "calc" => exit_lpr[x] \in timed \cup early \/ ToTime(exit_lpr[x])

\* The exit gates keep the protocol of boom gates too.
Gates == INSTANCE BoomGate WITH Gates <- Exits
GateProtocol == Gates!Spec

\* Every exit deals with what is on its LPR and clears it for the next car.
LPRIsCleared == \A x \in Exits : []<>(exit_lpr[x] = NoPlate)

\* "Reset car for re-entry" (manager_routines.c:179): a car is billed and
\* reset before its plate is cleared from the LPR.  Cars trigger an exit LPR
\* that is in use; only a car that finds it clear, and whose plate no other
\* car overwrites, can count on it - and only a car that was timed by then:
\* one that is timed after its reset stays timed.
LoneCarIsReset == \A p \in (alone \cap timed) \ late : Unsettled(p)

=============================================================================
