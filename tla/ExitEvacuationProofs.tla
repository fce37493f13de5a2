------------------------ MODULE ExitEvacuationProofs ------------------------
(***************************************************************************)
(* What holds of the exits during a fire, for every number of exits,       *)
(* plates and visits: the types, that the gate mutexes the fire alarm      *)
(* abandons are those of open gates, and that billing stays right.         *)
(***************************************************************************)
EXTENDS ExitEvacuation, ExitGateProofs

\* The invariant of the exits survives the fire.
EvacIInv == EvacTypeOK /\ IInv /\ AbandonedGateIsOpen

\* The threads of the exits write the status of a gate under its mutex.
LEMMA StatusNeedsMutex ==
  ASSUME TypeOK, ExitStep, NEW x \in gate_held, gate_held \subseteq Exits
  PROVE  status'[x] = status[x]
<1> USE DEF Goto, carVars, billVars, monVars
<1>1. ASSUME NEW p \in Plates, Car(p)
      PROVE  status' = status
  BY <1>1 DEF Car, CarEnters, CarExits
<1>1a. ASSUME NEW e \in Entrances, ManStartTime(e)
       PROVE  status' = status
  BY <1>1a DEF ManStartTime
<1>2. ASSUME NEW y \in Exits, ManRuns(y)
      PROVE  status'[x] = status[x]
  <2>1. ManThread(y) /\ (mon_pc[y] \in {"raise", "lower"} => y # x)
    BY <1>2 DEF ManRuns, ManAtGate
  <2>2. CASE ManRaise(y) \/ ManLower(y)
    BY <2>1, <2>2 DEF ManRaise, ManLower, TypeOK
  <2>3. CASE ManAwaitPlate(y) \/ ManCheckAlarm(y) \/ ManCheckOpened(y)
    BY <2>3 DEF ManAwaitPlate, ManCheckAlarm, ManCheckOpened
  <2>4. CASE ManAwaitOpened(y) \/ ManAwaitClosed(y)
    BY <2>4 DEF ManAwaitOpened, ManAwaitClosed, ManAwaitGate
  <2>5. CASE ManFind(y) \/ ManCalcBill(y) \/ ManReset(y)
    BY <2>5 DEF ManFind, ManCalcBill, ManReset
  <2>6. CASE ManNotify(y) \/ ManClearLPR(y)
    BY <2>6 DEF ManNotify, ManClearLPR
  <2>7. QED
    BY <2>1, <2>2, <2>3, <2>4, <2>5, <2>6 DEF ManThread
<1>3. ASSUME NEW y \in Exits, GateRuns(y)
      PROVE  status'[x] = status[x]
  <2>1. GateThread(y) /\ (gate_pc[y] \in {"opening", "closing"} => y # x)
    BY <1>3 DEF GateRuns, GateAtGate
  <2>2. CASE GateOpened(y) \/ GateClosed(y)
    BY <2>1, <2>2 DEF GateOpened, GateClosed, GateReports, TypeOK
  <2>3. CASE GateAwaitCommand(y) \/ GateDispatch(y)
    BY <2>3 DEF GateAwaitCommand, GateDispatch
  <2>4. QED
    BY <2>1, <2>2, <2>3 DEF GateThread
<1>4. QED
  BY <1>1, <1>1a, <1>2, <1>3 DEF ExitStep

\* The fire alarm touches the gates and the flags of the levels only: nothing
\* that billing depends on.
LEMMA FireKeepsIInv ==
  ASSUME IInv,
         UNCHANGED <<carVars, billVars, exit_lpr, gate_pc, monVars, lpr_cond>>,
         status' \in [Exits -> {BG_RAISING, BG_OPENED, BG_LOWERING, BG_CLOSED}],
         level_alarm' \subseteq Exits,
         gate_cond' \in [Exits -> SUBSET {Man, Gate, Fire}]
  PROVE  IInv'
<1> USE DEF carVars, billVars, monVars
<1>1. TypeOK'
  BY DEF IInv, TypeOK
<1>2. PlateInv' /\ BillInv'
  BY DEF IInv, PlateInv, BillInv, TableInv, TotalInv, RevenueMatchesBills
<1>3. SettleInv'
  BY SettleShrinks DEF IInv, UnsettledAt, Pending
<1>4. QED
  BY <1>1, <1>2, <1>3 DEF IInv

\* A car that nobody times disturbs the billing of no other plate, and a plate
\* timed outside is one that has not to be billed.
LEMMA FireCarKeepsIInv ==
  ASSUME IInv, NEW p \in Plates, FireCar(p)
  PROVE  IInv'
<1> USE DEF carVars, billVars, monVars
<1>0. /\ TypeOK /\ PlateInv /\ BillInv /\ SettleInv
      /\ exit_lpr \in [Exits -> Plates \cup {NoPlate}]
  BY DEF IInv, TypeOK
<1>1. ASSUME NEW x \in Exits, StrayExits(p, x)
      PROVE  IInv'
  <2>1. /\ exit_lpr' = [exit_lpr EXCEPT ![x] = p]
        /\ lpr_cond' = [lpr_cond EXCEPT ![x] = {}]
        /\ early' = early \cup {p}
        /\ UNCHANGED <<inside, timed, untimed, mon_pc, mon_cars>>
    BY <1>1 DEF StrayExits, Broadcast
  <2>2. TypeOK'
    <3>1. alone' \subseteq Plates /\ early' \subseteq Plates /\ visits' \in 0 .. MaxVisits
      BY <1>1, <1>0, ExitGateAssumption DEF StrayExits, TypeOK
    <3>2. lpr_cond' \in [Exits -> SUBSET {Man}]
      BY <1>0, <2>1 DEF TypeOK
    <3>3. exit_lpr' \in [Exits -> Plates \cup {NoPlate}]
      BY <1>0, <2>1
    <3>4. QED
      BY <1>1, <1>0, <3>1, <3>2, <3>3 DEF StrayExits, TypeOK
  <2>3. PlateInv'
    BY <1>0, <2>1, ExitGateAssumption DEF PlateInv
  <2>4. BillInv'
    BY <1>1, <1>0 DEF StrayExits, BillInv, TableInv, TotalInv, RevenueMatchesBills
  <2>5. SettleInv'
    <3>1. \A q \in Plates, y \in Exits :
            q # p => /\ UnsettledAt(q, y)' => UnsettledAt(q, y)
                     /\ Pending(q, y)' => Pending(q, y)
      BY <1>0, <2>1 DEF UnsettledAt, Pending
    <3>2. \A q \in Plates : Timed(q)' <=> Timed(q)
      BY <2>1 DEF Timed, ToTime
    <3>3. QED
      BY <1>0, <2>1, <3>1, <3>2 DEF SettleInv
  <2>6. QED
    BY <2>2, <2>3, <2>4, <2>5 DEF IInv
<1>2. CASE TimedOutside(p)
  <2>1. timed' = timed \cup {p}
    BY <1>2 DEF TimedOutside
  <2>2. TypeOK' /\ PlateInv'
    BY <1>2, <1>0 DEF TimedOutside, TypeOK, PlateInv
  <2>3. BillInv'
    BY <1>2, <1>0 DEF TimedOutside, BillInv, TableInv, TotalInv, RevenueMatchesBills
  <2>4. SettleInv'
    <3>1. \A q \in Plates, y \in Exits :
            (UnsettledAt(q, y)' <=> UnsettledAt(q, y)) /\ (Pending(q, y)' <=> Pending(q, y))
      BY <1>2 DEF TimedOutside, UnsettledAt, Pending
    <3>2. \A q \in Plates : Timed(q) => Timed(q)'
      BY <1>2, <2>1 DEF TimedOutside, Timed, ToTime
    <3>3. UNCHANGED <<inside, early>>
      BY <1>2 DEF TimedOutside
    <3>4. QED
      BY <1>0, <3>1, <3>2, <3>3 DEF SettleInv
  <2>5. QED
    BY <2>2, <2>3, <2>4 DEF IInv
<1>3. QED
  BY <1>1, <1>2 DEF FireCar

LEMMA InitEvacIInv == EvacInit => EvacIInv
<1> SUFFICES ASSUME EvacInit
             PROVE  EvacIInv
  OBVIOUS
<1>1. IInv
  BY InitIInv DEF EvacInit
<1>2. QED
  BY <1>1 DEF EvacInit, EvacIInv, EvacTypeOK, AbandonedGateIsOpen, IInv

LEMMA NextEvacIInv == EvacIInv /\ [EvacNext]_evacVars => EvacIInv'
<1> SUFFICES ASSUME EvacIInv, [EvacNext]_evacVars
             PROVE  EvacIInv'
  OBVIOUS
<1>t. /\ TypeOK
      /\ status \in [Exits -> {BG_RAISING, BG_OPENED, BG_LOWERING, BG_CLOSED}]
      /\ level_alarm \subseteq Exits
      /\ gate_cond \in [Exits -> SUBSET {Man, Gate, Fire}]
  BY DEF EvacIInv, EvacTypeOK, TypeOK
<1>i. ASSUME IInv'
      PROVE  TypeOK'
  BY <1>i DEF IInv
<1> USE DEF EvacIInv, EvacTypeOK, tempVars, fireVars
<1>1. CASE ExitStep
  <2>1. Next /\ UNCHANGED fireVars
    BY <1>1 DEF ExitStep, ManRuns, GateRuns, Next
  <2>2. IInv'
    BY <2>1, NextIInv
  <2>3. AbandonedGateIsOpen'
    BY <1>1, <1>t, <2>1, StatusNeedsMutex DEF AbandonedGateIsOpen
  <2>4. QED
    BY <1>i, <2>1, <2>2, <2>3
<1>2. ASSUME UNCHANGED <<exitVars, fire_pc, gate_held>>, level_alarm' \subseteq Exits
      PROVE  IInv' /\ AbandonedGateIsOpen'
  <2>1. IInv'
    BY <1>2, <1>t, FireKeepsIInv DEF exitVars
  <2>2. AbandonedGateIsOpen'
    BY <1>2 DEF exitVars, AbandonedGateIsOpen
  <2>3. QED
    BY <2>1, <2>2
<1>3. ASSUME NEW x \in Exits, TempThread(x)
      PROVE  EvacIInv'
  <2> USE DEF TempThread, TempTest, TempSample, TempRaise, TempMark, Goto
  <2>1. UNCHANGED <<exitVars, fire_pc, gate_held>>
    BY <1>3 DEF vars, exitVars
  <2>2. level_alarm' \subseteq Exits
    BY <1>3, <1>t DEF vars
  <2>3. /\ UNCHANGED <<main_pc, set_levels>> /\ alarm' \in BOOLEAN
        /\ temp_pc' \in [Exits -> {"test", "sample", "raise", "mark", "done"}]
    BY <1>3
  <2>4. QED
    BY <1>2, <1>i, <2>1, <2>2, <2>3
<1>4. CASE RaiseElsewhere
  <2>1. UNCHANGED <<exitVars, level_alarm, fire_pc, gate_held>>
    BY <1>4 DEF RaiseElsewhere, vars, exitVars
  <2>2. UNCHANGED <<main_pc, set_levels, temp_pc>> /\ alarm' \in BOOLEAN
    BY <1>4 DEF RaiseElsewhere
  <2>3. QED
    BY <1>2, <1>i, <1>t, <2>1, <2>2
<1>5. ASSUME MainSees \/ \E x \in Exits : MainSetsLevel(x)
      PROVE  EvacIInv'
  <2>1. UNCHANGED <<exitVars, fire_pc, gate_held>>
    BY <1>5 DEF MainSees, MainSetsLevel, vars, exitVars
  <2>2. level_alarm' \subseteq Exits
    BY <1>5, <1>t DEF MainSees, MainSetsLevel, vars
  <2>3. /\ UNCHANGED <<alarm, temp_pc>> /\ set_levels' \subseteq Exits
        /\ main_pc' \in {"poll", "levels", "evacuate"}
    BY <1>5 DEF MainSees, MainSetsLevel
  <2>4. QED
    BY <1>2, <1>i, <2>1, <2>2, <2>3
<1>6. CASE MainOpens
  <2>1. UNCHANGED vars
    BY <1>6 DEF MainOpens
  <2>2. IInv'
    BY <2>1, NextIInv
  <2>3. QED
    BY <1>6, <1>i, <2>2 DEF MainOpens, AbandonedGateIsOpen
<1>7. ASSUME NEW x \in Exits, FireLock(x)
      PROVE  EvacIInv'
  <2>1. /\ UNCHANGED <<carVars, billVars, exit_lpr, gate_pc, monVars, lpr_cond>>
        /\ UNCHANGED <<level_alarm, tempVars>>
    BY <1>7 DEF FireLock
  <2>2. status' = status \/ status' = [status EXCEPT ![x] = BG_RAISING]
    BY <1>7 DEF FireLock
  <2>3. gate_cond' = gate_cond \/ gate_cond' = [gate_cond EXCEPT ![x] = @ \cup {Fire}]
    BY <1>7 DEF FireLock, Wait
  <2>4. Fire \in {Man, Gate, Fire}
    BY Zenon
  <2>5. gate_cond' \in [Exits -> SUBSET {Man, Gate, Fire}]
    BY <1>t, <2>3, <2>4
  <2>6. status' \in [Exits -> {BG_RAISING, BG_OPENED, BG_LOWERING, BG_CLOSED}]
    BY <1>t, <2>2
  <2>7. IInv'
    BY <1>t, <2>1, <2>5, <2>6, FireKeepsIInv
  <2>8. \E to \in {"notify", "wait"} : fire_pc' = [fire_pc EXCEPT ![x] = to]
    BY <1>7 DEF FireLock, GoFire
  <2>9. gate_held' = gate_held \ {x}
    BY <1>7 DEF FireLock, Unlock
  <2>10. AbandonedGateIsOpen'
    BY <1>t, <2>2, <2>8, <2>9 DEF AbandonedGateIsOpen
  <2>11. QED
    BY <1>i, <2>1, <2>7, <2>8, <2>9, <2>10
<1>8. ASSUME NEW x \in Exits, FireNotify(x)
      PROVE  EvacIInv'
  <2>1. /\ UNCHANGED <<carVars, billVars, exit_lpr, gate_pc, monVars, lpr_cond>>
        /\ UNCHANGED <<status, level_alarm, tempVars, gate_held>>
    BY <1>8 DEF FireNotify
  <2>2. gate_cond' \in [Exits -> SUBSET {Man, Gate, Fire}]
    BY <1>8, <1>t DEF FireNotify, Broadcast
  <2>3. IInv'
    BY <1>t, <2>1, <2>2, FireKeepsIInv
  <2>4. fire_pc' = [fire_pc EXCEPT ![x] = "test"]
    BY <1>8 DEF FireNotify, GoFire
  <2>5. QED
    BY <1>i, <2>1, <2>3, <2>4 DEF AbandonedGateIsOpen
<1>9. ASSUME NEW x \in Exits, FireTest(x) \/ FireWoken(x)
      PROVE  EvacIInv'
  <2>1. UNCHANGED <<vars, tempVars>>
    BY <1>9 DEF FireTest, FireWoken
  <2>2. IInv'
    BY <2>1, NextIInv
  <2>3. /\ gate_held' \in {gate_held, gate_held \cup {x}}
        /\ fire_pc' = [fire_pc EXCEPT ![x] = IF status[x] = BG_OPENED THEN "done" ELSE "lock"]
    BY <1>9 DEF FireTest, FireWoken, Loops, GoFire
  <2>4. status' = status
    BY <2>1 DEF vars
  <2>5. AbandonedGateIsOpen'
    BY <2>3, <2>4 DEF AbandonedGateIsOpen
  <2>6. QED
    BY <1>i, <2>1, <2>2, <2>3, <2>5
<1>10. ASSUME NEW x \in Exits, FireSpurious(x)
       PROVE  EvacIInv'
  <2>1. /\ UNCHANGED <<carVars, billVars, exit_lpr, gate_pc, monVars, lpr_cond>>
        /\ UNCHANGED <<status, level_alarm, fireVars>>
    BY <1>10 DEF FireSpurious
  <2>2. gate_cond' \in [Exits -> SUBSET {Man, Gate, Fire}]
    BY <1>10, <1>t DEF FireSpurious
  <2>3. IInv'
    BY <1>t, <2>1, <2>2, FireKeepsIInv
  <2>4. QED
    BY <1>i, <2>1, <2>3 DEF AbandonedGateIsOpen
<1>10a. ASSUME NEW p \in Plates, FireCar(p)
        PROVE  EvacIInv'
  <2>1. IInv'
    BY <1>10a, FireCarKeepsIInv
  <2>2. UNCHANGED <<status, fireVars>>
    BY <1>10a DEF FireCar, StrayExits, TimedOutside
  <2>3. QED
    BY <1>i, <2>1, <2>2 DEF AbandonedGateIsOpen
<1>11. CASE UNCHANGED evacVars
  <2>1. UNCHANGED <<vars, fireVars>>
    BY <1>11 DEF evacVars
  <2>2. IInv'
    BY <2>1, NextIInv
  <2>3. status' = status
    BY <2>1 DEF vars
  <2>4. QED
    BY <1>i, <2>1, <2>2, <2>3 DEF AbandonedGateIsOpen
<1>12. QED
  BY <1>1, <1>3, <1>4, <1>5, <1>6, <1>7, <1>8, <1>9, <1>10, <1>10a, <1>11
  DEF EvacNext, Main, FireThread

\* Every reachable state of a fire is well typed.
THEOREM ExitEvacuationTypeOK == EvacSpec => []EvacTypeOK
<1>1. EvacIInv => EvacTypeOK
  BY DEF EvacIInv
<1>2. QED
  BY <1>1, InitEvacIInv, NextEvacIInv, PTL DEF EvacSpec

\* open_ex_boomgate only ever leaves behind the mutex of an open gate.
THEOREM ExitEvacuationAbandonedGateIsOpen == EvacSpec => []AbandonedGateIsOpen
<1>1. EvacIInv => AbandonedGateIsOpen
  BY DEF EvacIInv
<1>2. QED
  BY <1>1, InitEvacIInv, NextEvacIInv, PTL DEF EvacSpec

\* A fire that moves the gates under the manager's feet, and lets in cars that
\* nobody times, makes it neither lose an update of the revenue nor bill a visit
\* of another plate twice.
THEOREM ExitEvacuationBilling == EvacSpec => [](RevenueMatchesBills /\ BilledCarIsTimed)
<1>1. IInv => RevenueMatchesBills /\ BilledCarIsTimed
  BY IInvBilled DEF IInv, BillInv
<1>2. EvacIInv => IInv
  BY DEF EvacIInv
<1>3. QED
  BY <1>1, <1>2, InitEvacIInv, NextEvacIInv, PTL DEF EvacSpec

=============================================================================
