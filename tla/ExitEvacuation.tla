--------------------------- MODULE ExitEvacuation ---------------------------
(***************************************************************************)
(* The exits during a fire: the fire alarm's open_ex_boomgate threads and  *)
(* its main and tempmonitor threads, which share alarm_active and the      *)
(* alarm flags of the levels with no mutex, joined to the threads of       *)
(* ExitGate.  The gate mutex may be kept from one step to the next, as in  *)
(* Evacuation; an exit has no sign, so that nothing makes its gate ignore  *)
(* the manager.  The exit of a level has the number of the level.          *)
(***************************************************************************)
EXTENDS ExitGate

VARIABLES
  alarm,      \* alarm_active
  main_pc,    \* main: where it stands
  set_levels, \*   exits whose level main has set to '1'
  temp_pc,    \* tempmonitor of the level of each exit: where it stands
  fire_pc,    \* open_ex_boomgate of each exit: where it stands
  gate_held   \* gates whose mutex open_ex_boomgate holds

tempVars == <<alarm, main_pc, set_levels, temp_pc>>
fireVars == <<tempVars, fire_pc, gate_held>>
exitVars == <<carVars, billVars, exit_lpr, status, gate_pc, monVars, lpr_cond, gate_cond>>
evacVars == <<vars, fireVars>>

GoFire(x, to) == fire_pc' = [fire_pc EXCEPT ![x] = to]
Unlock(x) == gate_held' = gate_held \ {x}

-----------------------------------------------------------------------------
(* The fire alarm                                                          *)

\* The loop condition of tempmonitor.
TempTest(x) ==
  /\ Goto(temp_pc, x, "test", IF alarm THEN "done" ELSE "sample")
  /\ UNCHANGED <<vars, alarm, main_pc, set_levels, fire_pc, gate_held>>

\* '0' is written to the flag of the level, and the sample taken; see
\* Temperature for whether it is alarming.
TempSample(x) ==
  /\ Goto(temp_pc, x, "sample", "test") \/ Goto(temp_pc, x, "sample", "raise")
  /\ level_alarm' = level_alarm \ {x}
  /\ UNCHANGED <<exitVars, alarm, main_pc, set_levels, fire_pc, gate_held>>

TempRaise(x) ==
  /\ Goto(temp_pc, x, "raise", "mark")
  /\ alarm' = TRUE
  /\ UNCHANGED <<vars, main_pc, set_levels, fire_pc, gate_held>>

\* The number 1, which is not '1'.
TempMark(x) ==
  /\ Goto(temp_pc, x, "mark", "test")
  /\ level_alarm' = level_alarm \ {x}
  /\ UNCHANGED <<exitVars, alarm, main_pc, set_levels, fire_pc, gate_held>>

\* The monitor of a level whose exit is not one of Exits raises the alarm.
RaiseElsewhere ==
  /\ ~alarm
  /\ alarm' = TRUE
  /\ UNCHANGED <<vars, main_pc, set_levels, temp_pc, fire_pc, gate_held>>

\* main polls alarm_active, sets the flags of the levels to '1' ...
MainSees ==
  /\ main_pc = "poll" /\ alarm
  /\ main_pc' = "levels"
  /\ UNCHANGED <<vars, alarm, set_levels, temp_pc, fire_pc, gate_held>>

MainSetsLevel(x) ==
  /\ main_pc = "levels" /\ x \notin set_levels
  /\ set_levels' = set_levels \cup {x}
  /\ level_alarm' = level_alarm \cup {x}
  /\ UNCHANGED <<exitVars, alarm, main_pc, temp_pc, fire_pc, gate_held>>

\* ... and creates a thread for every exit.
MainOpens ==
  /\ main_pc = "levels" /\ set_levels = Exits
  /\ main_pc' = "evacuate"
  /\ fire_pc' = [x \in Exits |-> "lock"]
  /\ UNCHANGED <<vars, alarm, set_levels, temp_pc, gate_held>>

\* Mutant of FireLock: only a closed gate is told to raise.
FireLockClosed(x) ==
  /\ fire_pc[x] = "lock"
  /\ \/ /\ status[x] = BG_CLOSED
        /\ status' = [status EXCEPT ![x] = BG_RAISING]
        /\ GoFire(x, "notify")
        /\ Unlock(x)
        /\ UNCHANGED gate_cond
     \/ /\ status[x] # BG_CLOSED
        /\ Wait(gate_cond, x, Fire)
        /\ GoFire(x, "wait")
        /\ Unlock(x)
        /\ UNCHANGED status
  /\ UNCHANGED <<carVars, billVars, exit_lpr, gate_pc, monVars, level_alarm,
                 lpr_cond, tempVars>>

\* Lock (or fail to lock, holding it already): whatever the gate does, it is
\* told to raise, unless it is open: then it is waited on.
FireLock(x) ==
  /\ fire_pc[x] = "lock"
  /\ \/ /\ status[x] # BG_OPENED
        /\ status' = [status EXCEPT ![x] = BG_RAISING]
        /\ GoFire(x, "notify")
        /\ UNCHANGED gate_cond
     \/ /\ status[x] = BG_OPENED
        /\ Wait(gate_cond, x, Fire)
        /\ GoFire(x, "wait")
        /\ UNCHANGED status
  /\ Unlock(x)
  /\ UNCHANGED <<carVars, billVars, exit_lpr, gate_pc, monVars, level_alarm,
                 lpr_cond, tempVars>>

\* Mutant of FireNotify: nobody is told.
FireNotifySilent(x) ==
  /\ fire_pc[x] = "notify"
  /\ GoFire(x, "test")
  /\ UNCHANGED <<vars, tempVars, gate_held>>

\* The broadcast follows the unlock.
FireNotify(x) ==
  /\ fire_pc[x] = "notify"
  /\ GoFire(x, "test")
  /\ Broadcast(gate_cond, x)
  /\ UNCHANGED <<carVars, billVars, exit_lpr, status, gate_pc, monVars, level_alarm,
                 lpr_cond, tempVars, gate_held>>

\* The loop condition: an open gate ends the thread.
Loops(x) == GoFire(x, IF status[x] = BG_OPENED THEN "done" ELSE "lock")

\* The loop condition read with no mutex.
FireTest(x) ==
  /\ fire_pc[x] = "test"
  /\ Loops(x)
  /\ UNCHANGED <<vars, tempVars, gate_held>>

\* pthread_cond_wait may return for no reason.  The other waits are in loops
\* that would wait again; this one is followed by the test of an open gate.
FireSpurious(x) ==
  /\ Fire \in gate_cond[x]
  /\ gate_cond' = [gate_cond EXCEPT ![x] = @ \ {Fire}]
  /\ UNCHANGED <<carVars, billVars, exit_lpr, status, gate_pc, monVars, level_alarm,
                 lpr_cond, fireVars>>

\* The loop condition read on return from the wait, the mutex held: it is
\* still held when the thread ends.
FireWoken(x) ==
  /\ fire_pc[x] = "wait"
  /\ Fire \notin gate_cond[x]
  /\ Loops(x)
  /\ gate_held' = gate_held \cup {x}
  /\ UNCHANGED <<vars, tempVars>>

-----------------------------------------------------------------------------
(* Cars of the fire: what open_en_boomgate does to the entrances           *)

\* It raises a closed gate at any moment of its monitor: while the sign shows
\* a level, the gate thread then creates a car of the plate on the LPR that
\* nobody times, and that may be the second one of its plate.  It comes to an
\* exit like the others.  More cars of such a plate may be in the car park
\* than inside can tell: early keeps it until it enters anew.
StrayExits(p, x) ==
  /\ main_pc # "poll" /\ set_levels = Exits
  /\ visits < MaxVisits
  /\ visits' = visits + 1
  /\ exit_lpr' = [exit_lpr EXCEPT ![x] = p]
  /\ Broadcast(lpr_cond, x)
  /\ early' = early \cup {p}
  /\ alone' = alone \ {p, exit_lpr[x]}
  /\ UNCHANGED <<inside, untimed, billVars, status, gate_pc, monVars, level_alarm,
                 gate_cond, fireVars>>

\* While the sign shows a letter the gate opens with no car: monitor_entrance
\* times the plate it waited with all the same.
TimedOutside(p) ==
  /\ main_pc # "poll" /\ set_levels = Exits
  /\ p \notin inside
  /\ timed' = timed \cup {p}
  /\ UNCHANGED <<carVars, late, table_owner, revenue, bills, exit_lpr, status,
                 gate_pc, monVars, level_alarm, lpr_cond, gate_cond, fireVars>>

-----------------------------------------------------------------------------
(* The threads of ExitGate block where they lock a gate mutex that is held.*)

\* Mutant of ManAtGate: the lowering does not lock the gate.
ManAtGateNotLowering(x) == mon_pc[x] \in {"raise", "opened", "closed"}

ManAtGate(x)  == mon_pc[x] \in {"raise", "opened", "lower", "closed"}
GateAtGate(x) == gate_pc[x] \in {"idle", "opening", "closing"}

ManRuns(x)  == (ManAtGate(x) => x \notin gate_held) /\ ManThread(x)
GateRuns(x) == (GateAtGate(x) => x \notin gate_held) /\ GateThread(x)

ExitStep ==
  /\ \/ \E p \in Plates : Car(p)
     \/ \E e \in Entrances : ManStartTime(e)
     \/ \E x \in Exits : ManRuns(x) \/ GateRuns(x)
  /\ UNCHANGED fireVars

TempThread(x) == TempTest(x) \/ TempSample(x) \/ TempRaise(x) \/ TempMark(x)
Main == MainSees \/ MainOpens \/ \E x \in Exits : MainSetsLevel(x)
FireThread(x) == FireLock(x) \/ FireNotify(x) \/ FireTest(x) \/ FireWoken(x)

FireCar(p) == TimedOutside(p) \/ \E x \in Exits : StrayExits(p, x)

EvacInit ==
  /\ Init
  /\ alarm = FALSE
  /\ main_pc = "poll"
  /\ set_levels = {}
  /\ temp_pc = [x \in Exits |-> "test"]
  /\ fire_pc = [x \in Exits |-> "off"]
  /\ gate_held = {}

EvacNext ==
  \/ ExitStep
  \/ RaiseElsewhere \/ Main \/ \E p \in Plates : FireCar(p)
  \/ \E x \in Exits : TempThread(x) \/ FireThread(x) \/ FireSpurious(x)

EvacSpec == EvacInit /\ [][EvacNext]_evacVars

\* As in ExitGate: a thread that can run does.
EvacFairSpec ==
  /\ EvacSpec
  /\ WF_evacVars(Main)
  /\ \A x \in Exits :
       /\ WF_evacVars(ManRuns(x) /\ UNCHANGED fireVars)
       /\ SF_evacVars(ManFind(x) /\ UNCHANGED fireVars)
       /\ WF_evacVars(GateRuns(x) /\ UNCHANGED fireVars)
       /\ WF_evacVars(FireThread(x))

-----------------------------------------------------------------------------
(* Properties                                                              *)

\* Type invariant.
EvacTypeOK ==
  /\ TypeOK
  /\ alarm \in BOOLEAN
  /\ main_pc \in {"poll", "levels", "evacuate"}
  /\ set_levels \subseteq Exits
  /\ temp_pc \in [Exits -> {"test", "sample", "raise", "mark", "done"}]
  /\ fire_pc \in [Exits -> {"off", "lock", "notify", "wait", "test", "done"}]
  /\ gate_held \subseteq Exits

\* open_ex_boomgate may return with the gate mutex locked, which blocks the
\* manager and the gate thread for ever: it does so only at an open gate,
\* which therefore stays open (firealarm.c:215-221).
AbandonedGateIsOpen ==
  \A x \in gate_held : fire_pc[x] = "done" => status[x] = BG_OPENED

\* Once any monitor has raised the alarm every gate opens, whatever the gate
\* and the manager are doing, whatever has become of the flags of the levels,
\* and although open_ex_boomgate commands a gate that is already moving.
AlarmOpensGates ==
  \A x \in Exits : alarm /\ main_pc # "evacuate" ~> status[x] = BG_OPENED

\* A gate that was lowering when it was told to raise may still report
\* "closed": no such mix-up leaves a gate halfway.
MovementsEnd ==
  \A x \in Exits :
    status[x] \in {BG_RAISING, BG_LOWERING} ~> status[x] \in {BG_OPENED, BG_CLOSED}

\* "Open up all boom gates" (firealarm.c:264): a gate that open_ex_boomgate
\* has left open is not closed again during the fire.
OpenedGateStaysOpen ==
  \A x \in Exits : fire_pc[x] = "done" => status[x] # BG_CLOSED

=============================================================================
