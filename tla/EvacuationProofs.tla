-------------------------- MODULE EvacuationProofs --------------------------
(***************************************************************************)
(* What holds of the entrances during a fire, for every number of          *)
(* entrances, plates and levels: the types, and that the gate mutexes the  *)
(* fire alarm abandons are those of open gates.                            *)
(***************************************************************************)
EXTENDS Evacuation, EntranceProofs

EvacIInv == EvacTypeOK /\ GeneratorInv /\ AbandonedGateIsOpen

\* The threads of the entrances write the status of a gate under its mutex.
LEMMA StatusNeedsMutex ==
  ASSUME TypeOK, EntranceStep, NEW e \in gate_held, gate_held \subseteq Entrances
  PROVE  status'[e] = status[e]
<1> USE DEF Goto, simVars, manVars, condVars
<1>1. CASE Generator
  BY <1>1 DEF Generator, GenFind, GenEnqueue, GenAdd
<1>2. ASSUME NEW f \in Entrances, QueueThread(f)
      PROVE  status' = status
  BY <1>2 DEF QueueThread, QueueAwaitClear, QueueTake, QueueTrigger
<1>3. ASSUME NEW f \in Entrances, ManRuns(f)
      PROVE  status'[e] = status[e]
  <2>1. ManThread(f) /\ (man_pc[f] \in {"raise", "lower"} => f # e)
    BY <1>3 DEF ManRuns, ManAtGate
  <2>2. CASE ManRaise(f) \/ ManLower(f)
    BY <2>1, <2>2 DEF ManRaise, ManLower, TypeOK
  <2>3. CASE ManAwaitPlate(f) \/ ManLookup(f) \/ \E d \in 0 .. LEVELS : ManGetSpot(f, d)
    BY <2>3 DEF ManAwaitPlate, ManLookup, ManGetSpot
  <2>4. CASE ManShowLevel(f) \/ ManShowFull(f) \/ ManDeny(f) \/ ManBlankSign(f)
    BY <2>4 DEF ManShowLevel, ManShowFull, ManDeny, ManBlankSign, ManShows
  <2>5. CASE ManAwaitOpened(f) \/ ManAwaitClosed(f)
    BY <2>5 DEF ManAwaitOpened, ManAwaitClosed, ManAwaitGate
  <2>6. CASE ManAdmit(f) \/ ManNotify(f) \/ ManClearLPR(f)
    BY <2>6 DEF ManAdmit, ManNotify, ManClearLPR
  <2>7. QED
    BY <2>1, <2>2, <2>3, <2>4, <2>5, <2>6 DEF ManThread
<1>4. ASSUME NEW f \in Entrances, GateRuns(f)
      PROVE  status'[e] = status[e]
  <2>1. GateThread(f) /\ (gate_pc[f] \in {"force", "opening", "closing"} => f # e)
    BY <1>4 DEF GateRuns, GateAtGate
  <2>2. CASE GateForceOpen(f) \/ GateOpened(f) \/ GateClosed(f)
    BY <2>1, <2>2 DEF GateForceOpen, GateOpened, GateClosed, GateReports, TypeOK
  <2>3. CASE GateAwaitCommand(f) \/ GateReadSign(f)
    BY <2>3 DEF GateAwaitCommand, GateReadSign
  <2>4. CASE GateDispatch(f) \/ GateSpawnCar(f)
    BY <2>4 DEF GateDispatch, GateSpawnCar
  <2>5. QED
    BY <2>1, <2>2, <2>3, <2>4 DEF GateThread
<1>5. QED
  BY <1>1, <1>2, <1>3, <1>4 DEF EntranceStep

LEMMA InitEvacIInv == EvacInit => EvacIInv
BY InitIInv DEF EvacInit, EvacIInv, EvacTypeOK, AbandonedGateIsOpen, IInv

LEMMA NextEvacIInv == EvacIInv /\ [EvacNext]_evacVars => EvacIInv'
<1> SUFFICES ASSUME EvacIInv, [EvacNext]_evacVars
             PROVE  EvacIInv'
  OBVIOUS
<1> USE DEF EvacIInv, EvacTypeOK, fireVars
<1>1. CASE EntranceStep
  <2>1. Next /\ UNCHANGED fireVars
    BY <1>1 DEF EntranceStep, ManRuns, GateRuns, Next
  <2>2. TypeOK' /\ GeneratorInv'
    BY <2>1, NextTypeOK
  <2>3. AbandonedGateIsOpen'
    BY <1>1, <2>1, StatusNeedsMutex DEF AbandonedGateIsOpen
  <2>4. QED
    BY <2>1, <2>2, <2>3
<1>2. CASE RaiseAlarm
  <2>1. UNCHANGED vars
    BY <1>2 DEF RaiseAlarm
  <2>2. TypeOK' /\ GeneratorInv'
    BY <2>1, NextTypeOK
  <2>3. QED
    BY <1>2, <2>2 DEF RaiseAlarm, AbandonedGateIsOpen
<1> DEFINE Others == UNCHANGED <<simVars, lpr, manVars, gate_pc, lpr_cond, queue_cond,
                                 inside, alarm>>
<1> DEFINE Shared == /\ sign' \in [Entrances -> 0 .. SignEvac]
                     /\ status' \in [Entrances -> {BG_RAISING, BG_OPENED, BG_LOWERING,
                                                   BG_CLOSED}]
                     /\ gate_cond' \in [Entrances -> SUBSET {Man, Gate, Fire}]
<1>3. ASSUME Others, Shared
      PROVE  TypeOK' /\ GeneratorInv'
  BY <1>3 DEF TypeOK, GeneratorInv, simVars, manVars
<1>4. ASSUME NEW e \in Entrances, FireLock(e)
      PROVE  EvacIInv'
  <2> USE <1>4
  <2>1. Others /\ sign' = sign
    BY DEF FireLock
  <2>2. status' = status \/ status' = [status EXCEPT ![e] = BG_RAISING]
    BY DEF FireLock
  <2>3. gate_cond' = gate_cond \/ gate_cond' = [gate_cond EXCEPT ![e] = @ \cup {Fire}]
    BY DEF FireLock, Wait
  <2>4. Shared
    <3>1. Fire \in {Man, Gate, Fire} /\ gate_cond \in [Entrances -> SUBSET {Man, Gate, Fire}]
      BY Zenon DEF TypeOK
    <3>2. gate_cond' \in [Entrances -> SUBSET {Man, Gate, Fire}]
      BY <2>3, <3>1
    <3>3. QED
      BY <2>1, <2>2, <3>2 DEF TypeOK
  <2>5. TypeOK' /\ GeneratorInv'
    BY <1>3, <2>1, <2>4
  <2>6. \E to \in {"notify", "wait", "test"} : fire_pc' = [fire_pc EXCEPT ![e] = to]
    BY DEF FireLock, GoFire
  <2>7. gate_held' = gate_held \ {e}
    BY DEF FireLock, Unlock
  <2>8. AbandonedGateIsOpen'
    BY <2>2, <2>6, <2>7 DEF AbandonedGateIsOpen, TypeOK
  <2>9. QED
    BY <2>1, <2>5, <2>6, <2>7, <2>8
<1>5. ASSUME NEW e \in Entrances, FireNotify(e)
      PROVE  EvacIInv'
  <2>1. Others /\ Shared
    BY <1>5 DEF FireNotify, Broadcast, TypeOK
  <2>2. TypeOK' /\ GeneratorInv'
    BY <1>3, <2>1
  <2>3. fire_pc' = [fire_pc EXCEPT ![e] = "test"] /\ UNCHANGED <<gate_held, status>>
    BY <1>5 DEF FireNotify, GoFire
  <2>4. QED
    BY <2>1, <2>2, <2>3 DEF AbandonedGateIsOpen
<1>6. ASSUME NEW e \in Entrances, FireTest(e) \/ FireWoken(e)
      PROVE  EvacIInv'
  <2>1. UNCHANGED <<vars, alarm>>
    BY <1>6 DEF FireTest, FireWoken
  <2>2. TypeOK' /\ GeneratorInv'
    BY <2>1, NextTypeOK
  <2>3. /\ gate_held' \in {gate_held, gate_held \cup {e}}
        /\ fire_pc' = [fire_pc EXCEPT ![e] = IF status[e] = BG_OPENED THEN "done" ELSE "lock"]
    BY <1>6 DEF FireTest, FireWoken, Loops, GoFire
  <2>4. status' = status
    BY <2>1 DEF vars
  <2>5. AbandonedGateIsOpen'
    BY <2>3, <2>4 DEF AbandonedGateIsOpen
  <2>6. QED
    BY <2>1, <2>2, <2>3, <2>5
<1>7. ASSUME NEW e \in Entrances, FireSpurious(e)
      PROVE  EvacIInv'
  <2>1. Others /\ UNCHANGED <<sign, status, fireVars>>
    BY <1>7 DEF FireSpurious
  <2>2. gate_cond' \in [Entrances -> SUBSET {Man, Gate, Fire}]
    BY <1>7 DEF FireSpurious, TypeOK
  <2>3. TypeOK' /\ GeneratorInv'
    BY <1>3, <2>1, <2>2 DEF TypeOK
  <2>4. QED
    BY <2>1, <2>3 DEF AbandonedGateIsOpen
<1>8. ASSUME NEW e \in Entrances, ShowEvacuation(e)
      PROVE  EvacIInv'
  <2>1. Others /\ UNCHANGED <<status, fireVars>>
    BY <1>8 DEF ShowEvacuation, condVars
  <2>2. Shared
    BY <1>8, EntranceAssumption DEF ShowEvacuation, condVars, SignEvac, TypeOK
  <2>3. TypeOK' /\ GeneratorInv'
    BY <1>3, <2>1, <2>2
  <2>4. QED
    BY <2>1, <2>3 DEF AbandonedGateIsOpen
<1>9. CASE UNCHANGED evacVars
  <2>1. UNCHANGED <<vars, fireVars>>
    BY <1>9 DEF evacVars
  <2>2. TypeOK' /\ GeneratorInv'
    BY <2>1, NextTypeOK
  <2>3. status' = status
    BY <2>1 DEF vars
  <2>4. QED
    BY <2>1, <2>2, <2>3 DEF AbandonedGateIsOpen
<1>10. QED
  BY <1>1, <1>2, <1>4, <1>5, <1>6, <1>7, <1>8, <1>9 DEF EvacNext, FireThread

\* Every reachable state of a fire is well typed.
THEOREM EvacuationTypeOK == EvacSpec => []EvacTypeOK
<1>1. EvacIInv => EvacTypeOK
  BY DEF EvacIInv
<1>2. QED
  BY <1>1, InitEvacIInv, NextEvacIInv, PTL DEF EvacSpec

\* open_en_boomgate only ever leaves behind the mutex of an open gate.
THEOREM EvacuationAbandonedGateIsOpen == EvacSpec => []AbandonedGateIsOpen
<1>1. EvacIInv => AbandonedGateIsOpen
  BY DEF EvacIInv
<1>2. QED
  BY <1>1, InitEvacIInv, NextEvacIInv, PTL DEF EvacSpec

=============================================================================
