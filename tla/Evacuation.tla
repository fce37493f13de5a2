----------------------------- MODULE Evacuation -----------------------------
(***************************************************************************)
(* The entrances during a fire: the fire alarm's open_en_boomgate threads  *)
(* and its endless EVACUATE loop, joined to the threads of Entrance.       *)
(*                                                                         *)
(* open_en_boomgate is the one thread that keeps a gate mutex from one     *)
(* step to the next: after its wait it loops with the mutex held, and may  *)
(* return holding it.  The mutexes are PTHREAD_MUTEX_ERRORCHECK            *)
(* (shared_memory.c:131), so that its own second lock fails with EDEADLK   *)
(* and is ignored.  gate_held is the set of gates it holds.                *)
(***************************************************************************)
EXTENDS Entrance

VARIABLES
  alarm,      \* alarm_active, as main of the fire alarm has seen it
  fire_pc,    \* open_en_boomgate of each entrance: where it stands
  gate_held   \* gates whose mutex open_en_boomgate holds

fireVars == <<alarm, fire_pc, gate_held>>
evacVars == <<vars, fireVars>>

GoFire(e, to) == fire_pc' = [fire_pc EXCEPT ![e] = to]
Unlock(e) == gate_held' = gate_held \ {e}

-----------------------------------------------------------------------------
(* The fire alarm                                                          *)

\* main sees the alarm and creates a thread for every entrance.
RaiseAlarm ==
  /\ ~alarm
  /\ alarm' = TRUE
  /\ fire_pc' = [e \in Entrances |-> "lock"]
  /\ UNCHANGED <<vars, gate_held>>

\* Mutant of FireLock: the mutex of a moving gate is not unlocked.
FireLockKeepsMoving(e) ==
  /\ fire_pc[e] = "lock"
  /\ \/ /\ status[e] = BG_CLOSED
        /\ status' = [status EXCEPT ![e] = BG_RAISING]
        /\ GoFire(e, "notify")
        /\ Unlock(e)
        /\ UNCHANGED gate_cond
     \/ /\ status[e] = BG_OPENED
        /\ Wait(gate_cond, e, Fire)
        /\ GoFire(e, "wait")
        /\ Unlock(e)
        /\ UNCHANGED status
     \/ /\ status[e] \in {BG_RAISING, BG_LOWERING}
        /\ GoFire(e, "test")
        /\ gate_held' = gate_held \cup {e}
        /\ UNCHANGED <<status, gate_cond>>
  /\ UNCHANGED <<simVars, lpr, sign, manVars, gate_pc, lpr_cond, queue_cond,
                 inside, alarm>>

\* Lock (or fail to lock, holding it already): a closed gate is told to
\* raise, an open one is waited on, a moving one is left alone.
FireLock(e) ==
  /\ fire_pc[e] = "lock"
  /\ \/ /\ status[e] = BG_CLOSED
        /\ status' = [status EXCEPT ![e] = BG_RAISING]
        /\ GoFire(e, "notify")
        /\ UNCHANGED gate_cond
     \/ /\ status[e] = BG_OPENED
        /\ Wait(gate_cond, e, Fire)
        /\ GoFire(e, "wait")
        /\ UNCHANGED status
     \/ /\ status[e] \in {BG_RAISING, BG_LOWERING}
        /\ GoFire(e, "test")
        /\ UNCHANGED <<status, gate_cond>>
  /\ Unlock(e)
  /\ UNCHANGED <<simVars, lpr, sign, manVars, gate_pc, lpr_cond, queue_cond,
                 inside, alarm>>

\* Mutant of FireNotify: nobody is told.
FireNotifySilent(e) ==
  /\ fire_pc[e] = "notify"
  /\ GoFire(e, "test")
  /\ UNCHANGED <<vars, alarm, gate_held>>

\* The broadcast follows the unlock.
FireNotify(e) ==
  /\ fire_pc[e] = "notify"
  /\ GoFire(e, "test")
  /\ Broadcast(gate_cond, e)
  /\ UNCHANGED <<simVars, lpr, sign, status, manVars, gate_pc, lpr_cond,
                 queue_cond, inside, alarm, gate_held>>

\* The loop condition: an open gate ends the thread.
Loops(e) == GoFire(e, IF status[e] = BG_OPENED THEN "done" ELSE "lock")

\* The loop condition read with no mutex.
FireTest(e) ==
  /\ fire_pc[e] = "test"
  /\ Loops(e)
  /\ UNCHANGED <<vars, alarm, gate_held>>

\* pthread_cond_wait may return for no reason.  The other waits are in loops
\* that would wait again; this one is followed by the test of an open gate.
FireSpurious(e) ==
  /\ Fire \in gate_cond[e]
  /\ gate_cond' = [gate_cond EXCEPT ![e] = @ \ {Fire}]
  /\ UNCHANGED <<simVars, lpr, sign, status, manVars, gate_pc, lpr_cond,
                 queue_cond, inside, fireVars>>

\* The loop condition read on return from the wait, the mutex held: it is
\* still held when the thread ends.
FireWoken(e) ==
  /\ fire_pc[e] = "wait"
  /\ Fire \notin gate_cond[e]
  /\ Loops(e)
  /\ gate_held' = gate_held \cup {e}
  /\ UNCHANGED <<vars, alarm>>

\* The endless loop of main writes the letters of "EVACUATE " to the signs.
ShowEvacuation(e) ==
  /\ alarm
  /\ sign' = [sign EXCEPT ![e] = SignEvac]
  /\ UNCHANGED <<simVars, lpr, status, manVars, gate_pc, condVars, inside,
                 fireVars>>

-----------------------------------------------------------------------------
(* The threads of Entrance, which lock the gate mutex in some of their     *)
(* steps: in these they block while open_en_boomgate holds it.             *)

\* Mutant of ManAtGate: the lowering does not lock the gate.
ManAtGateNotLowering(e) == man_pc[e] \in {"raise", "opened", "closed"}

ManAtGate(e)  == man_pc[e] \in {"raise", "opened", "lower", "closed"}
GateAtGate(e) == gate_pc[e] \in {"idle", "force", "opening", "closing"}

ManRuns(e)  == (ManAtGate(e) => e \notin gate_held) /\ ManThread(e)
GateRuns(e) == (GateAtGate(e) => e \notin gate_held) /\ GateThread(e)

\* Cars that are inside stay there: leaving would only let their plates be
\* drawn again, and every plate is drawn once.
EntranceStep ==
  /\ \/ Generator
     \/ \E e \in Entrances : QueueThread(e) \/ ManRuns(e) \/ GateRuns(e)
  /\ UNCHANGED fireVars

FireThread(e) == FireLock(e) \/ FireNotify(e) \/ FireTest(e) \/ FireWoken(e)

EvacInit ==
  /\ Init
  /\ alarm = FALSE
  /\ fire_pc = [e \in Entrances |-> "off"]
  /\ gate_held = {}

EvacNext ==
  \/ EntranceStep
  \/ RaiseAlarm
  \/ \E e \in Entrances : FireThread(e) \/ FireSpurious(e) \/ ShowEvacuation(e)

EvacSpec == EvacInit /\ [][EvacNext]_evacVars

\* As in Entrance: a thread that can run does.
EvacFairSpec ==
  /\ EvacSpec
  /\ \A e \in Entrances :
       /\ WF_evacVars(QueueThread(e) /\ UNCHANGED fireVars)
       /\ WF_evacVars(ManRuns(e) /\ UNCHANGED fireVars)
       /\ WF_evacVars(GateRuns(e) /\ UNCHANGED fireVars)
       /\ WF_evacVars(FireThread(e))

-----------------------------------------------------------------------------
(* Properties                                                              *)

\* Type invariant.
EvacTypeOK ==
  /\ TypeOK
  /\ alarm \in BOOLEAN
  /\ fire_pc \in [Entrances -> {"off", "lock", "notify", "wait", "test", "done"}]
  /\ gate_held \subseteq Entrances

\* open_en_boomgate may return with the gate mutex locked, which blocks the
\* manager and the gate thread for ever: it does so only at an open gate,
\* which therefore stays open (firealarm.c:187-194).
AbandonedGateIsOpen ==
  \A e \in gate_held : fire_pc[e] = "done" => status[e] = BG_OPENED

\* "Open up all boom gates" (firealarm.c:264): whatever the gate, the manager
\* and the sign are doing when open_en_boomgate takes its turn, its gate opens.
AlarmOpensGates ==
  \A e \in Entrances : fire_pc[e] = "lock" ~> status[e] = BG_OPENED

\* No gate stops halfway, although the fire alarm and the manager command it
\* at once and the gate's one signal may wake the wrong one of its waiters.
MovementsEnd ==
  \A e \in Entrances :
    status[e] \in {BG_RAISING, BG_LOWERING} ~> status[e] \in {BG_OPENED, BG_CLOSED}

\* "zero index level" (simulator_routines.c:223): the level the gate thread
\* computes from the sign is one of the car park's.
SpawnLevelExists ==
  \A e \in Entrances : gate_pc[e] = "spawn" => sign[e] \in LevelDigit

=============================================================================
