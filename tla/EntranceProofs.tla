--------------------------- MODULE EntranceProofs ---------------------------
(***************************************************************************)
(* What holds of the entrances for every number of entrances, plates and   *)
(* levels: the types, that the unlocked reads of the gate thread see what  *)
(* the manager decided, that the gates keep the protocol of BoomGate, and  *)
(* that no plate is in the car park twice.                                 *)
(***************************************************************************)
EXTENDS Entrance, TLAPS

\* What the generator holds between its critical sections.
GeneratorInv ==
  generator.step # "find" => /\ generator.plate \in Plates
                             /\ generator.entrance \in Entrances

\* Where the gate thread can stand in each state of the gate.
GateInv(e) ==
  /\ status[e] = BG_CLOSED   => gate_pc[e] = "idle"
  /\ status[e] = BG_RAISING  => gate_pc[e] \in {"idle", "sign", "dispatch", "opening"}
  /\ status[e] = BG_OPENED   => gate_pc[e] \in {"idle", "spawn"}
  /\ status[e] = BG_LOWERING => gate_pc[e] \in {"idle", "spawn", "sign", "dispatch", "closing"}

\* Where the gate is while the manager waits for it, or does not.
ManInv(e) ==
  /\ man_pc[e] \notin {"opened", "admit", "lower", "notify", "closed"}
       => status[e] = BG_CLOSED
  /\ man_pc[e] = "opened" => status[e] \in {BG_RAISING, BG_OPENED}
  /\ man_pc[e] \in {"admit", "lower"} => status[e] = BG_OPENED
  /\ man_pc[e] \in {"notify", "closed"} => status[e] \in {BG_LOWERING, BG_CLOSED}

\* What the manager has decided stands at the LPR and on the sign.
DecisionInv(e) ==
  /\ man_pc[e] \notin {"await", "blank"} => lpr[e] # NoPlate
  /\ man_pc[e] \in {"spot", "direct", "raise", "opened", "admit", "lower", "notify", "closed"}
       => permitted_car[e] \in Permitted /\ lpr[e] = permitted_car[e]
  /\ man_pc[e] \in {"direct", "raise", "opened", "admit", "lower", "notify", "closed"}
       => directed_lvl[e] \in LevelDigit
  /\ man_pc[e] \in {"raise", "opened", "admit", "lower", "notify", "closed"}
       => sign[e] = directed_lvl[e]

\* The queue thread owns the LPR from the moment it has seen it clear.
QueueInv(e) == queue_pc[e] \in {"take", "trigger"} => lpr[e] = NoPlate

EntranceInv(e) == GateInv(e) /\ ManInv(e) /\ DecisionInv(e) /\ QueueInv(e)

IInv == TypeOK /\ GeneratorInv /\ \A e \in Entrances : EntranceInv(e)

-----------------------------------------------------------------------------

LEMMA InitIInv == Init => IInv
<1> SUFFICES ASSUME Init
             PROVE  IInv
  OBVIOUS
<1>1. TypeOK
  BY EntranceAssumption DEF Init, TypeOK, Idle, Blank, SignEvac, BG_CLOSED
<1>2. GeneratorInv
  BY DEF Init, GeneratorInv, Idle
<1>3. ASSUME NEW e \in Entrances
      PROVE  EntranceInv(e)
  BY <1>3 DEF Init, EntranceInv, GateInv, ManInv, DecisionInv, QueueInv,
              BG_CLOSED, BG_RAISING, BG_OPENED, BG_LOWERING
<1>4. QED
  BY <1>1, <1>2, <1>3 DEF IInv

\* Every step keeps the types, and what the generator holds.
LEMMA NextTypeOK ==
  TypeOK /\ GeneratorInv /\ [Next]_vars => TypeOK' /\ GeneratorInv'
<1> SUFFICES ASSUME TypeOK, GeneratorInv, [Next]_vars
             PROVE  TypeOK' /\ GeneratorInv'
  OBVIOUS
<1> USE DEF GeneratorInv, simVars, manVars, condVars,
        BG_RAISING, BG_OPENED, BG_LOWERING, BG_CLOSED
<1>1. ASSUME NEW p \in Plates, NEW e \in Entrances, GenFind(p, e)
      PROVE  TypeOK' /\ GeneratorInv'
  BY <1>1, EntranceAssumption DEF TypeOK, GenFind, Idle
<1>2. ASSUME GenEnqueue
      PROVE  TypeOK' /\ GeneratorInv'
  <2>1. entrance_queue' \in [Entrances -> Seq(Plates)]
    BY <1>2, EntranceAssumption DEF TypeOK, GenEnqueue
  <2>2. queue_cond' \in [Entrances -> SUBSET {Queue}]
    BY <1>2, EntranceAssumption DEF TypeOK, GenEnqueue, Broadcast
  <2>3. QED
    BY <1>2, <2>1, <2>2, EntranceAssumption DEF TypeOK, GenEnqueue
<1>3. ASSUME GenAdd
      PROVE  TypeOK' /\ GeneratorInv'
  BY <1>3, EntranceAssumption DEF TypeOK, GenAdd, Idle
<1>4. ASSUME NEW e \in Entrances, QueueAwaitClear(e)
      PROVE  TypeOK' /\ GeneratorInv'
  <2>1. \/ lpr_cond' = lpr_cond
        \/ lpr_cond' = [lpr_cond EXCEPT ![e] = @ \cup {Queue}]
    BY <1>4 DEF QueueAwaitClear, Wait
  <2>2. Queue \in {Queue, Man}
    BY Zenon
  <2>3. lpr_cond \in [Entrances -> SUBSET {Queue, Man}]
    BY DEF TypeOK
  <2>4. lpr_cond' \in [Entrances -> SUBSET {Queue, Man}]
    BY <2>1, <2>2, <2>3
  <2>5. QED
    BY <1>4, <2>4, EntranceAssumption DEF TypeOK, QueueAwaitClear, Goto
<1>5. ASSUME NEW e \in Entrances, QueueTake(e)
      PROVE  TypeOK' /\ GeneratorInv'
  <2>1. \/ queue_cond' = queue_cond
        \/ queue_cond' = [queue_cond EXCEPT ![e] = @ \cup {Queue}]
    BY <1>5 DEF QueueTake, Wait
  <2>2. Queue \in {Queue}
    BY Zenon
  <2>3. queue_cond \in [Entrances -> SUBSET {Queue}]
    BY DEF TypeOK
  <2>4. queue_cond' \in [Entrances -> SUBSET {Queue}]
    BY <2>1, <2>2, <2>3
  <2>5. /\ entrance_queue' \in [Entrances -> Seq(Plates)]
       /\ first_plate' \in [Entrances -> Plates \cup {NoPlate}]
    <3>1. entrance_queue[e] \in Seq(Plates)
      BY DEF TypeOK
    <3>2. CASE entrance_queue[e] = <<>>
      BY <1>5, <3>2 DEF TypeOK, QueueTake
    <3>3. CASE entrance_queue[e] # <<>>
      <4>1. Head(entrance_queue[e]) \in Plates /\ Tail(entrance_queue[e]) \in Seq(Plates)
        BY <3>1, <3>3
      <4>2. /\ entrance_queue' = [entrance_queue EXCEPT ![e] = Tail(@)]
            /\ first_plate' = [first_plate EXCEPT ![e] = Head(entrance_queue[e])]
        BY <1>5, <3>3 DEF QueueTake
      <4>3. /\ entrance_queue \in [Entrances -> Seq(Plates)]
            /\ first_plate \in [Entrances -> Plates \cup {NoPlate}]
        BY DEF TypeOK
      <4>4. QED
        BY <4>1, <4>2, <4>3
    <3>4. QED
      BY <3>2, <3>3
  <2>6. QED
    BY <1>5, <2>4, <2>5, EntranceAssumption DEF TypeOK, QueueTake, Goto
<1>6. ASSUME NEW e \in Entrances, QueueTrigger(e)
      PROVE  TypeOK' /\ GeneratorInv'
  BY <1>6, EntranceAssumption DEF TypeOK, QueueTrigger, Goto, Broadcast
<1>7. ASSUME NEW e \in Entrances, ManAwaitPlate(e)
      PROVE  TypeOK' /\ GeneratorInv'
  <2>1. \/ lpr_cond' = lpr_cond
        \/ lpr_cond' = [lpr_cond EXCEPT ![e] = @ \cup {Man}]
    BY <1>7 DEF ManAwaitPlate, Wait
  <2>2. Man \in {Queue, Man}
    BY Zenon
  <2>3. lpr_cond \in [Entrances -> SUBSET {Queue, Man}]
    BY DEF TypeOK
  <2>4. lpr_cond' \in [Entrances -> SUBSET {Queue, Man}]
    BY <2>1, <2>2, <2>3
  <2>5. QED
    BY <1>7, <2>4, EntranceAssumption DEF TypeOK, ManAwaitPlate, Goto
<1>8. ASSUME NEW e \in Entrances, ManLookup(e)
      PROVE  TypeOK' /\ GeneratorInv'
  BY <1>8, EntranceAssumption DEF TypeOK, ManLookup, Goto
<1>9. ASSUME NEW e \in Entrances, ManShowLevel(e)
      PROVE  TypeOK' /\ GeneratorInv'
  <2>1. sign' \in [Entrances -> 0 .. SignEvac]
    BY <1>9, EntranceAssumption DEF TypeOK, ManShowLevel, ManShows, SignEvac
  <2>2. QED
    BY <1>9, <2>1, EntranceAssumption DEF TypeOK, ManShowLevel, ManShows, Goto
<1>10. ASSUME NEW e \in Entrances, ManShowFull(e)
      PROVE  TypeOK' /\ GeneratorInv'
  BY <1>10, EntranceAssumption DEF TypeOK, ManShowFull, Goto, ManShows, SignFull, SignEvac
<1>11. ASSUME NEW e \in Entrances, ManDeny(e)
      PROVE  TypeOK' /\ GeneratorInv'
  BY <1>11, EntranceAssumption DEF TypeOK, ManDeny, Goto, ManShows, SignDenied, SignEvac
<1>12. ASSUME NEW e \in Entrances, ManBlankSign(e)
      PROVE  TypeOK' /\ GeneratorInv'
  BY <1>12, EntranceAssumption DEF TypeOK, ManBlankSign, Goto, ManShows, Blank, SignEvac
<1>13. ASSUME NEW e \in Entrances, ManRaise(e)
      PROVE  TypeOK' /\ GeneratorInv'
  BY <1>13, EntranceAssumption DEF TypeOK, ManRaise, Goto
<1>14. ASSUME NEW e \in Entrances, ManAwaitOpened(e)
      PROVE  TypeOK' /\ GeneratorInv'
  <2>1. \/ gate_cond' = gate_cond
        \/ gate_cond' = [gate_cond EXCEPT ![e] = @ \cup {Man}]
    BY <1>14 DEF ManAwaitOpened, ManAwaitGate, Wait
  <2>2. Man \in {Man, Gate, Fire}
    BY Zenon
  <2>3. gate_cond \in [Entrances -> SUBSET {Man, Gate, Fire}]
    BY DEF TypeOK
  <2>4. gate_cond' \in [Entrances -> SUBSET {Man, Gate, Fire}]
    BY <2>1, <2>2, <2>3
  <2>5. QED
    BY <1>14, <2>4, EntranceAssumption DEF TypeOK, ManAwaitOpened, ManAwaitGate, Goto
<1>15. ASSUME NEW e \in Entrances, ManAdmit(e)
      PROVE  TypeOK' /\ GeneratorInv'
  BY <1>15, EntranceAssumption DEF TypeOK, ManAdmit, Goto
<1>16. ASSUME NEW e \in Entrances, ManLower(e)
      PROVE  TypeOK' /\ GeneratorInv'
  BY <1>16, EntranceAssumption DEF TypeOK, ManLower, Goto
<1>17. ASSUME NEW e \in Entrances, ManNotify(e)
      PROVE  TypeOK' /\ GeneratorInv'
  BY <1>17, EntranceAssumption DEF TypeOK, ManNotify, Goto, Broadcast
<1>18. ASSUME NEW e \in Entrances, ManAwaitClosed(e)
      PROVE  TypeOK' /\ GeneratorInv'
  <2>1. \/ gate_cond' = gate_cond
        \/ gate_cond' = [gate_cond EXCEPT ![e] = @ \cup {Man}]
    BY <1>18 DEF ManAwaitClosed, ManAwaitGate, Wait
  <2>2. Man \in {Man, Gate, Fire}
    BY Zenon
  <2>3. gate_cond \in [Entrances -> SUBSET {Man, Gate, Fire}]
    BY DEF TypeOK
  <2>4. gate_cond' \in [Entrances -> SUBSET {Man, Gate, Fire}]
    BY <2>1, <2>2, <2>3
  <2>5. QED
    BY <1>18, <2>4, EntranceAssumption DEF TypeOK, ManAwaitClosed, ManAwaitGate, Goto
<1>19. ASSUME NEW e \in Entrances, ManClearLPR(e)
      PROVE  TypeOK' /\ GeneratorInv'
  BY <1>19, EntranceAssumption DEF TypeOK, ManClearLPR, Goto, Broadcast
<1>20. ASSUME NEW e \in Entrances, GateAwaitCommand(e)
      PROVE  TypeOK' /\ GeneratorInv'
  <2>1. \/ gate_cond' = gate_cond
        \/ gate_cond' = [gate_cond EXCEPT ![e] = @ \cup {Gate}]
    BY <1>20 DEF GateAwaitCommand, Wait
  <2>2. Gate \in {Man, Gate, Fire}
    BY Zenon
  <2>3. gate_cond \in [Entrances -> SUBSET {Man, Gate, Fire}]
    BY DEF TypeOK
  <2>4. gate_cond' \in [Entrances -> SUBSET {Man, Gate, Fire}]
    BY <2>1, <2>2, <2>3
  <2>5. QED
    BY <1>20, <2>4, EntranceAssumption DEF TypeOK, GateAwaitCommand, Goto
<1>21. ASSUME NEW e \in Entrances, GateReadSign(e)
      PROVE  TypeOK' /\ GeneratorInv'
  BY <1>21, EntranceAssumption DEF TypeOK, GateReadSign, Goto
<1>22. ASSUME NEW e \in Entrances, GateForceOpen(e)
      PROVE  TypeOK' /\ GeneratorInv'
  <2>1. \/ gate_cond' = gate_cond
        \/ \E u : gate_cond' = [gate_cond EXCEPT ![e] = @ \ {u}]
    BY <1>22 DEF GateForceOpen, GateReports, Signal
  <2>2. gate_cond \in [Entrances -> SUBSET {Man, Gate, Fire}]
    BY DEF TypeOK
  <2>3. gate_cond' \in [Entrances -> SUBSET {Man, Gate, Fire}]
    BY <2>1, <2>2
  <2>4. QED
    BY <1>22, <2>3, EntranceAssumption DEF TypeOK, GateForceOpen, GateReports, Goto
<1>23. ASSUME NEW e \in Entrances, GateDispatch(e)
      PROVE  TypeOK' /\ GeneratorInv'
  BY <1>23, EntranceAssumption DEF TypeOK, GateDispatch, Goto
<1>24. ASSUME NEW e \in Entrances, GateOpened(e)
      PROVE  TypeOK' /\ GeneratorInv'
  <2>1. \/ gate_cond' = gate_cond
        \/ \E u : gate_cond' = [gate_cond EXCEPT ![e] = @ \ {u}]
    BY <1>24 DEF GateOpened, GateReports, Signal
  <2>2. gate_cond \in [Entrances -> SUBSET {Man, Gate, Fire}]
    BY DEF TypeOK
  <2>3. gate_cond' \in [Entrances -> SUBSET {Man, Gate, Fire}]
    BY <2>1, <2>2
  <2>4. QED
    BY <1>24, <2>3, EntranceAssumption DEF TypeOK, GateOpened, GateReports, Goto
<1>25. ASSUME NEW e \in Entrances, GateSpawnCar(e)
      PROVE  TypeOK' /\ GeneratorInv'
  BY <1>25, EntranceAssumption DEF TypeOK, GateSpawnCar, Goto
<1>26. ASSUME NEW e \in Entrances, GateClosed(e)
      PROVE  TypeOK' /\ GeneratorInv'
  <2>1. \/ gate_cond' = gate_cond
        \/ \E u : gate_cond' = [gate_cond EXCEPT ![e] = @ \ {u}]
    BY <1>26 DEF GateClosed, GateReports, Signal
  <2>2. gate_cond \in [Entrances -> SUBSET {Man, Gate, Fire}]
    BY DEF TypeOK
  <2>3. gate_cond' \in [Entrances -> SUBSET {Man, Gate, Fire}]
    BY <2>1, <2>2
  <2>4. QED
    BY <1>26, <2>3, EntranceAssumption DEF TypeOK, GateClosed, GateReports, Goto
<1>27. ASSUME NEW e \in Entrances, NEW d \in 0 .. LEVELS, ManGetSpot(e, d)
      PROVE  TypeOK' /\ GeneratorInv'
  BY <1>27, EntranceAssumption DEF TypeOK, ManGetSpot, Goto
<1>28. ASSUME NEW p \in Plates \cup {NoPlate}, CarLeaves(p)
      PROVE  TypeOK' /\ GeneratorInv'
  BY <1>28, EntranceAssumption DEF TypeOK, CarLeaves
<1>29. ASSUME UNCHANGED vars
      PROVE  TypeOK' /\ GeneratorInv'
  BY <1>29, EntranceAssumption DEF TypeOK, vars
<1>30. QED
  BY <1>1, <1>2, <1>3, <1>4, <1>5, <1>6, <1>7, <1>8, <1>9, <1>10, <1>11, <1>12, <1>13, <1>14, <1>15, <1>16, <1>17, <1>18, <1>19, <1>20, <1>21, <1>22, <1>23, <1>24, <1>25, <1>26, <1>27, <1>28, <1>29
  DEF Next, Generator, QueueThread, ManThread, GateThread

\* Every step keeps the invariant of every entrance.
LEMMA NextEntranceInv ==
  IInv /\ [Next]_vars => \A f \in Entrances : EntranceInv(f)'
<1> SUFFICES ASSUME IInv, [Next]_vars, NEW f \in Entrances
             PROVE  EntranceInv(f)'
  OBVIOUS
<1>x. /\ lpr \in [Entrances -> Plates \cup {NoPlate}]
      /\ sign \in [Entrances -> 0 .. SignEvac]
      /\ status \in [Entrances -> {BG_RAISING, BG_OPENED, BG_LOWERING, BG_CLOSED}]
      /\ queue_pc \in [Entrances -> {"clear", "take", "trigger"}]
      /\ first_plate \in [Entrances -> Plates \cup {NoPlate}]
      /\ permitted_car \in [Entrances -> Permitted \cup {NoPlate}]
      /\ directed_lvl \in [Entrances -> 0 .. LEVELS]
      /\ man_pc \in [Entrances -> {"await", "lookup", "spot", "direct", "full", "deny",
                                   "raise", "opened", "admit", "lower", "notify",
                                   "closed", "clear", "blank"}]
      /\ gate_pc \in [Entrances -> {"idle", "sign", "force", "dispatch", "opening",
                                    "spawn", "closing"}]
  BY DEF IInv, TypeOK
<1>y. EntranceInv(f)
  BY DEF IInv
<1> USE <1>x, <1>y, EntranceAssumption
    DEF EntranceInv, GateInv, ManInv, DecisionInv, QueueInv, Goto, LevelDigit,
        simVars, manVars, condVars, BG_RAISING, BG_OPENED, BG_LOWERING, BG_CLOSED
<1>1. ASSUME NEW p \in Plates, NEW e \in Entrances, GenFind(p, e)
      PROVE  EntranceInv(f)'
  BY <1>1 DEF GenFind
<1>2. ASSUME GenEnqueue
      PROVE  EntranceInv(f)'
  BY <1>2 DEF GenEnqueue
<1>3. ASSUME GenAdd
      PROVE  EntranceInv(f)'
  BY <1>3 DEF GenAdd
<1>4. ASSUME NEW e \in Entrances, QueueAwaitClear(e)
      PROVE  EntranceInv(f)'
  BY <1>4 DEF QueueAwaitClear
<1>5. ASSUME NEW e \in Entrances, QueueTake(e)
      PROVE  EntranceInv(f)'
  BY <1>5 DEF QueueTake
<1>6. ASSUME NEW e \in Entrances, QueueTrigger(e)
      PROVE  EntranceInv(f)'
  BY <1>6 DEF QueueTrigger
<1>7. ASSUME NEW e \in Entrances, ManAwaitPlate(e)
      PROVE  EntranceInv(f)'
  BY <1>7 DEF ManAwaitPlate, Wait
<1>8. ASSUME NEW e \in Entrances, ManLookup(e)
      PROVE  EntranceInv(f)'
  BY <1>8 DEF ManLookup
<1>9. ASSUME NEW e \in Entrances, ManShowLevel(e)
      PROVE  EntranceInv(f)'
  BY <1>9 DEF ManShowLevel, ManShows
<1>10. ASSUME NEW e \in Entrances, ManShowFull(e)
      PROVE  EntranceInv(f)'
  BY <1>10 DEF ManShowFull, ManShows
<1>11. ASSUME NEW e \in Entrances, ManDeny(e)
      PROVE  EntranceInv(f)'
  BY <1>11 DEF ManDeny, ManShows
<1>12. ASSUME NEW e \in Entrances, ManBlankSign(e)
      PROVE  EntranceInv(f)'
  BY <1>12 DEF ManBlankSign, ManShows
<1>13. ASSUME NEW e \in Entrances, ManRaise(e)
      PROVE  EntranceInv(f)'
  BY <1>13 DEF ManRaise
<1>14. ASSUME NEW e \in Entrances, ManAwaitOpened(e)
      PROVE  EntranceInv(f)'
  BY <1>14 DEF ManAwaitOpened, ManAwaitGate
<1>15. ASSUME NEW e \in Entrances, ManAdmit(e)
      PROVE  EntranceInv(f)'
  BY <1>15 DEF ManAdmit
<1>16. ASSUME NEW e \in Entrances, ManLower(e)
      PROVE  EntranceInv(f)'
  BY <1>16 DEF ManLower
<1>17. ASSUME NEW e \in Entrances, ManNotify(e)
      PROVE  EntranceInv(f)'
  BY <1>17 DEF ManNotify
<1>18. ASSUME NEW e \in Entrances, ManAwaitClosed(e)
      PROVE  EntranceInv(f)'
  BY <1>18 DEF ManAwaitClosed, ManAwaitGate
<1>19. ASSUME NEW e \in Entrances, ManClearLPR(e)
      PROVE  EntranceInv(f)'
  BY <1>19 DEF ManClearLPR
<1>20. ASSUME NEW e \in Entrances, GateAwaitCommand(e)
      PROVE  EntranceInv(f)'
  BY <1>20 DEF GateAwaitCommand
<1>21. ASSUME NEW e \in Entrances, GateReadSign(e)
      PROVE  EntranceInv(f)'
  BY <1>21 DEF GateReadSign
<1>22. ASSUME NEW e \in Entrances, GateForceOpen(e)
      PROVE  EntranceInv(f)'
  BY <1>22 DEF GateForceOpen, GateReports
<1>23. ASSUME NEW e \in Entrances, GateDispatch(e)
      PROVE  EntranceInv(f)'
  BY <1>23 DEF GateDispatch
<1>24. ASSUME NEW e \in Entrances, GateOpened(e)
      PROVE  EntranceInv(f)'
  BY <1>24 DEF GateOpened, GateReports
<1>25. ASSUME NEW e \in Entrances, GateSpawnCar(e)
      PROVE  EntranceInv(f)'
  BY <1>25 DEF GateSpawnCar
<1>26. ASSUME NEW e \in Entrances, GateClosed(e)
      PROVE  EntranceInv(f)'
  BY <1>26 DEF GateClosed, GateReports
<1>27. ASSUME NEW e \in Entrances, NEW d \in 0 .. LEVELS, ManGetSpot(e, d)
      PROVE  EntranceInv(f)'
  BY <1>27 DEF ManGetSpot
<1>28. ASSUME NEW p \in Plates \cup {NoPlate}, CarLeaves(p)
      PROVE  EntranceInv(f)'
  BY <1>28 DEF CarLeaves
<1>29. ASSUME UNCHANGED vars
      PROVE  EntranceInv(f)'
  BY <1>29 DEF vars
<1>30. QED
  BY <1>1, <1>2, <1>3, <1>4, <1>5, <1>6, <1>7, <1>8, <1>9, <1>10, <1>11, <1>12, <1>13, <1>14, <1>15, <1>16, <1>17, <1>18, <1>19, <1>20, <1>21, <1>22, <1>23, <1>24, <1>25, <1>26, <1>27, <1>28, <1>29
  DEF Next, Generator, QueueThread, ManThread, GateThread

LEMMA NextIInv == IInv /\ [Next]_vars => IInv'
  BY NextTypeOK, NextEntranceInv DEF IInv

LEMMA IInvSpawn == IInv => SpawnMatchesDecision
<1> SUFFICES ASSUME IInv, NEW e \in Entrances, gate_pc[e] = "spawn"
             PROVE  /\ permitted_car[e] \in Permitted /\ lpr[e] = permitted_car[e]
                    /\ directed_lvl[e] \in LevelDigit /\ sign[e] = directed_lvl[e]
  BY DEF SpawnMatchesDecision
<1>1. EntranceInv(e)
  BY DEF IInv
<1>2. status[e] \in {BG_OPENED, BG_LOWERING}
  BY <1>1 DEF EntranceInv, GateInv, IInv, TypeOK, BG_RAISING, BG_OPENED,
              BG_LOWERING, BG_CLOSED
<1>3. man_pc[e] \in {"opened", "admit", "lower", "notify", "closed"}
  BY <1>1, <1>2 DEF EntranceInv, ManInv, BG_OPENED, BG_LOWERING, BG_CLOSED
<1>4. QED
  BY <1>1, <1>3 DEF EntranceInv, DecisionInv

\* Every step of the entrances is a step of the boom gates, or leaves every
\* gate as it is.
LEMMA NextGates == IInv /\ [Next]_vars => [Gates!Next]_status
<1> SUFFICES ASSUME IInv, [Next]_vars
             PROVE  [Gates!Next]_status
  OBVIOUS
<1> USE DEF simVars, manVars, condVars, Goto
<1> DEFINE Moves(e, from, to) == /\ status[e] = from
                                 /\ status' = [status EXCEPT ![e] = to]
<1>1. ASSUME NEW e \in Entrances, ManRaise(e)
      PROVE  Moves(e, BG_CLOSED, BG_RAISING)
  BY <1>1 DEF ManRaise, IInv, EntranceInv, ManInv
<1>2. ASSUME NEW e \in Entrances, ManLower(e)
      PROVE  Moves(e, BG_OPENED, BG_LOWERING)
  BY <1>2 DEF ManLower, IInv, EntranceInv, ManInv
<1>3. ASSUME NEW e \in Entrances, GateForceOpen(e)
      PROVE  FALSE
  <2>1. EntranceInv(e)
    BY DEF IInv
  <2>2. gate_pc[e] # "force"
    BY <2>1 DEF IInv, TypeOK, EntranceInv, GateInv, BG_RAISING, BG_OPENED,
                BG_LOWERING, BG_CLOSED
  <2>3. QED
    BY <1>3, <2>2 DEF GateForceOpen, GateReports
<1>4. ASSUME NEW e \in Entrances, GateOpened(e)
      PROVE  Moves(e, BG_RAISING, BG_OPENED)
  <2>1. EntranceInv(e)
    BY DEF IInv
  <2>2. gate_pc[e] = "opening" => status[e] = BG_RAISING
    BY <2>1 DEF IInv, TypeOK, EntranceInv, GateInv, BG_RAISING, BG_OPENED,
                BG_LOWERING, BG_CLOSED
  <2>3. QED
    BY <1>4, <2>2 DEF GateOpened, GateReports
<1>5. ASSUME NEW e \in Entrances, GateClosed(e)
      PROVE  Moves(e, BG_LOWERING, BG_CLOSED)
  <2>1. EntranceInv(e)
    BY DEF IInv
  <2>2. gate_pc[e] = "closing" => status[e] = BG_LOWERING
    BY <2>1 DEF IInv, TypeOK, EntranceInv, GateInv, BG_RAISING, BG_OPENED,
                BG_LOWERING, BG_CLOSED
  <2>3. QED
    BY <1>5, <2>2 DEF GateClosed, GateReports
<1>6. ASSUME NEW e \in Entrances, QueueThread(e)
      PROVE  UNCHANGED status
  BY <1>6 DEF QueueThread, QueueAwaitClear, QueueTake, QueueTrigger
<1>7. ASSUME NEW e \in Entrances, ManThread(e), ~ManRaise(e), ~ManLower(e)
      PROVE  UNCHANGED status
  BY <1>7 DEF ManThread, ManAwaitPlate, ManLookup, ManGetSpot, ManShows,
              ManShowLevel, ManShowFull, ManDeny, ManBlankSign, ManAwaitGate,
              ManAwaitOpened, ManAwaitClosed, ManAdmit, ManNotify, ManClearLPR
<1>8. ASSUME NEW e \in Entrances, GateThread(e), ~GateForceOpen(e),
             ~GateOpened(e), ~GateClosed(e)
      PROVE  UNCHANGED status
  BY <1>8 DEF GateThread, GateAwaitCommand, GateReadSign, GateDispatch, GateSpawnCar
<1>9. ASSUME NEW e \in Entrances,
             \/ Moves(e, BG_CLOSED, BG_RAISING) \/ Moves(e, BG_RAISING, BG_OPENED)
             \/ Moves(e, BG_OPENED, BG_LOWERING) \/ Moves(e, BG_LOWERING, BG_CLOSED)
      PROVE  Gates!Next
  BY <1>9 DEF Gates!Next, Gates!Raise, Gates!Opened, Gates!Lower, Gates!Closed,
      Gates!Moves, Gates!BG_RAISING, Gates!BG_OPENED, Gates!BG_LOWERING,
      Gates!BG_CLOSED, BG_RAISING, BG_OPENED, BG_LOWERING, BG_CLOSED
<1>10. ASSUME NEW e \in Entrances, ManThread(e) \/ GateThread(e)
       PROVE  [Gates!Next]_status
  <2> HIDE DEF Moves
  <2>1. QED
    BY <1>1, <1>2, <1>3, <1>4, <1>5, <1>7, <1>8, <1>9, <1>10, Zenon
<1>11. ASSUME Generator
       PROVE  UNCHANGED status
  BY <1>11 DEF Generator, GenFind, GenEnqueue, GenAdd
<1>12. ASSUME NEW p \in Plates \cup {NoPlate}, CarLeaves(p)
       PROVE  UNCHANGED status
  BY <1>12 DEF CarLeaves
<1>13. ASSUME UNCHANGED vars
       PROVE  UNCHANGED status
  BY <1>13 DEF vars
<1>14. QED
  BY <1>6, <1>10, <1>11, <1>12, <1>13 DEF Next

-----------------------------------------------------------------------------

\* Every reachable state is well typed.
THEOREM EntranceTypeOK == Spec => []TypeOK
<1>1. IInv => TypeOK
  BY DEF IInv
<1>2. QED
  BY <1>1, InitIInv, NextIInv, PTL DEF Spec

\* The plate and the level that the gate thread copies with no mutex are
\* those the manager has decided on.
THEOREM EntranceSpawnMatchesDecision == Spec => []SpawnMatchesDecision
  BY IInvSpawn, InitIInv, NextIInv, PTL DEF Spec

\* The entrances implement the safety part of the specification of the boom
\* gates: no gate ever leaves the cycle, whoever writes its status.
THEOREM EntranceGateProtocol == Spec => Gates!Init /\ [][Gates!Next]_status
<1>1. Init => Gates!Init
  BY DEF Init, Gates!Init, BG_CLOSED, Gates!BG_CLOSED
<1>2. QED
  BY <1>1, InitIInv, NextIInv, NextGates, PTL DEF Spec

-----------------------------------------------------------------------------
(***************************************************************************)
(* One car per plate, for every number of entrances, plates and levels.    *)
(*                                                                         *)
(* The generator looks a plate up with no mutex and adds it to the table   *)
(* only after it has queued the car, so the table alone says too little:   *)
(* a plate is Known from the moment its car is queued.  What keeps cars    *)
(* apart is that every car that waits or is inside is known, that a car    *)
(* moves from one place to the next in a single step, and that what the    *)
(* generator has looked up stays unknown until it queues it.               *)
(***************************************************************************)

\* The plate is in the table, or about to be added.
Known(p) ==
  p \in car_table \/ (generator.step = "add" /\ generator.plate = p)

\* There is one car with this plate at most, and none that is not known.
PlateInv(p) ==
  /\ inside[p] <= 1
  /\ \A v, w \in WaitsAt(p) : v = w
  /\ WaitsAt(p) # {} => inside[p] = 0 /\ Known(p)
  /\ inside[p] > 0 => Known(p)
  /\ GeneratorHolds(p) => ~Known(p)

QueuesInjective == \A e \in Entrances : IsInjective(entrance_queue[e])

PInv == IInv /\ QueuesInjective /\ \A p \in Plates : PlateInv(p)

-----------------------------------------------------------------------------
(* Queues                                                                  *)

InQueue(e, p) == \E i \in DOMAIN entrance_queue[e] : entrance_queue[e][i] = p

\* What a queue holds after an append, and that it is still injective.
LEMMA AppendNew ==
  ASSUME NEW S, NEW q \in Seq(S), NEW x \in S
  PROVE  /\ \A y : (\E i \in DOMAIN Append(q, x) : Append(q, x)[i] = y)
                     => y = x \/ \E i \in DOMAIN q : q[i] = y
         /\ IsInjective(q) /\ (\A i \in DOMAIN q : q[i] # x)
              => IsInjective(Append(q, x))
<1>1. /\ Len(q) \in Nat
      /\ DOMAIN q = 1 .. Len(q)
      /\ DOMAIN Append(q, x) = 1 .. (Len(q) + 1)
      /\ Append(q, x)[Len(q) + 1] = x
      /\ \A i \in 1 .. Len(q) : Append(q, x)[i] = q[i]
  OBVIOUS
<1>2. \A i \in DOMAIN Append(q, x) : i = Len(q) + 1 \/ i \in DOMAIN q
  BY <1>1
<1>3. ASSUME NEW y, NEW i \in DOMAIN Append(q, x), Append(q, x)[i] = y
      PROVE  y = x \/ \E j \in DOMAIN q : q[j] = y
  BY <1>1, <1>2, <1>3
<1>4. ASSUME IsInjective(q), \A i \in DOMAIN q : q[i] # x,
             NEW a \in DOMAIN Append(q, x), NEW b \in DOMAIN Append(q, x),
             Append(q, x)[a] = Append(q, x)[b]
      PROVE  a = b
  BY <1>1, <1>2, <1>4 DEF IsInjective
<1>5. QED
  BY <1>3, <1>4 DEF IsInjective

\* What a queue holds after its head is taken: the rest, without the head.
LEMMA TailOfInjective ==
  ASSUME NEW S, NEW q \in Seq(S), q # <<>>, IsInjective(q)
  PROVE  /\ IsInjective(Tail(q))
         /\ \E i \in DOMAIN q : q[i] = Head(q)
         /\ \A j \in DOMAIN Tail(q) : /\ Tail(q)[j] # Head(q)
                                      /\ \E i \in DOMAIN q : q[i] = Tail(q)[j]
<1>1. /\ Len(q) \in Nat \ {0}
      /\ DOMAIN q = 1 .. Len(q)
      /\ DOMAIN Tail(q) = 1 .. (Len(q) - 1)
      /\ Head(q) = q[1]
      /\ \A j \in 1 .. (Len(q) - 1) : Tail(q)[j] = q[j + 1]
  OBVIOUS
<1>2. \A j \in DOMAIN Tail(q) : j + 1 \in DOMAIN q /\ j + 1 # 1 /\ j \in Nat
  BY <1>1
<1>3. 1 \in DOMAIN q
  BY <1>1
<1>4. ASSUME NEW j \in DOMAIN Tail(q)
      PROVE  /\ Tail(q)[j] # Head(q)
             /\ \E i \in DOMAIN q : q[i] = Tail(q)[j]
  BY <1>1, <1>2, <1>3, <1>4 DEF IsInjective
<1>5. ASSUME NEW a \in DOMAIN Tail(q), NEW b \in DOMAIN Tail(q), Tail(q)[a] = Tail(q)[b]
      PROVE  a = b
  <2>1. q[a + 1] = q[b + 1]
    BY <1>1, <1>5
  <2>2. a + 1 = b + 1
    BY <1>2, <2>1 DEF IsInjective
  <2>3. QED
    BY <1>2, <2>2
<1>6. QED
  BY <1>1, <1>3, <1>4, <1>5 DEF IsInjective

-----------------------------------------------------------------------------
(* Steps that only move cars out of the places where they wait             *)

\* Where cars with plate p wait, one place at a time.
Places(p) ==
  \A w : w \in WaitsAt(p) <=>
    \E e \in Entrances :
      \/ w = <<e, "queue">> /\ InQueue(e, p)
      \/ w = <<e, "thread">> /\ first_plate[e] = p
      \/ w = <<e, "lpr">> /\ lpr[e] = p /\ Unserved(e)

LEMMA WaitsAtPlaces == ASSUME NEW p PROVE Places(p) /\ Places(p)'
<1>1. \A w : w \in Entrances \X {"queue", "thread", "lpr"} <=>
        \E e \in Entrances : w = <<e, "queue">> \/ w = <<e, "thread">> \/ w = <<e, "lpr">>
  OBVIOUS
<1>2. \A e : /\ <<e, "queue">>[1] = e /\ <<e, "queue">>[2] = "queue"
             /\ <<e, "thread">>[1] = e /\ <<e, "thread">>[2] = "thread"
             /\ <<e, "lpr">>[1] = e /\ <<e, "lpr">>[2] = "lpr"
  OBVIOUS
<1>3. Places(p)
  BY <1>1, <1>2 DEF Places, WaitsAt, InQueue
<1>4. Places(p)'
  BY <1>1, <1>2 DEF Places, WaitsAt, InQueue
<1>5. QED
  BY <1>3, <1>4

\* A car that waits in one place waits in no other.
LEMMA OnlyPlace ==
  ASSUME NEW p, NEW e \in Entrances, NEW k \in {"queue", "thread", "lpr"},
         WaitsAt(p) = {<<e, k>>}
  PROVE  \A f \in Entrances :
           /\ InQueue(f, p) => f = e /\ k = "queue"
           /\ first_plate[f] = p => f = e /\ k = "thread"
           /\ lpr[f] = p /\ Unserved(f) => f = e /\ k = "lpr"
<1>1. Places(p)
  BY WaitsAtPlaces
<1>2. ASSUME NEW f \in Entrances, NEW l \in {"queue", "thread", "lpr"},
             <<f, l>> \in WaitsAt(p)
      PROVE  f = e /\ l = k
  <2>1. <<f, l>> = <<e, k>>
    BY <1>2
  <2>2. QED
    BY <2>1
<1>3. ASSUME NEW f \in Entrances
      PROVE  /\ InQueue(f, p) => <<f, "queue">> \in WaitsAt(p)
             /\ first_plate[f] = p => <<f, "thread">> \in WaitsAt(p)
             /\ lpr[f] = p /\ Unserved(f) => <<f, "lpr">> \in WaitsAt(p)
  BY <1>1 DEF Places
<1>4. QED
  BY <1>2, <1>3

LEMMA QuietStep ==
  ASSUME NEW p \in Plates, PlateInv(p), WaitsAt(p)' \subseteq WaitsAt(p),
         UNCHANGED <<car_table, generator, inside>>
  PROVE  PlateInv(p)'
<1>1. Known(p)' <=> Known(p)
  BY DEF Known
<1>2. GeneratorHolds(p)' <=> GeneratorHolds(p)
  BY DEF GeneratorHolds
<1>3. QED
  BY <1>1, <1>2, Zenon DEF PlateInv

\* A step that leaves the queues alone, and serves cars at the readers or
\* leaves them as they are.
LEMMA ReaderStep ==
  ASSUME NEW p \in Plates, UNCHANGED <<entrance_queue, first_plate>>,
         \A e \in Entrances : lpr'[e] = p /\ Unserved(e)' => lpr[e] = p /\ Unserved(e)
  PROVE  WaitsAt(p)' \subseteq WaitsAt(p)
<1>1. \A e \in Entrances : InQueue(e, p)' <=> InQueue(e, p)
  BY DEF InQueue
<1>2. Places(p) /\ Places(p)'
  BY WaitsAtPlaces
<1>3. first_plate' = first_plate
  OBVIOUS
<1>4. QED
  BY <1>1, <1>2, <1>3 DEF Places

\* The manager and the gate thread put no car before a reader: what waits
\* there after their step waited there before it.
LEMMA ManServes ==
  ASSUME IInv, NEW p \in Plates, NEW e \in Entrances, ManThread(e),
         NEW f \in Entrances, lpr'[f] = p, Unserved(f)'
  PROVE  lpr[f] = p /\ Unserved(f)
<1> USE EntranceAssumption DEF Unserved, Goto, simVars, manVars, condVars
<1>0. TypeOK
  BY DEF IInv
<1>1. CASE ManAwaitPlate(e)
  BY <1>0, <1>1 DEF ManAwaitPlate, TypeOK
<1>2. CASE ManLookup(e)
  BY <1>0, <1>2 DEF ManLookup, TypeOK
<1>3. CASE \E d \in 0 .. LEVELS : ManGetSpot(e, d)
  BY <1>0, <1>3 DEF ManGetSpot, TypeOK
<1>4. CASE ManShowLevel(e) \/ ManShowFull(e) \/ ManDeny(e) \/ ManBlankSign(e)
  BY <1>0, <1>4 DEF ManShowLevel, ManShowFull, ManDeny, ManBlankSign, ManShows, TypeOK
<1>5. CASE ManRaise(e)
  BY <1>0, <1>5 DEF ManRaise, TypeOK
<1>6. CASE ManAwaitOpened(e) \/ ManAwaitClosed(e)
  BY <1>0, <1>6 DEF ManAwaitOpened, ManAwaitClosed, ManAwaitGate, TypeOK
<1>7. CASE ManAdmit(e)
  BY <1>0, <1>7 DEF ManAdmit, TypeOK
<1>8. CASE ManLower(e)
  BY <1>0, <1>8 DEF ManLower, TypeOK, BG_RAISING, BG_LOWERING
<1>9. CASE ManNotify(e)
  BY <1>0, <1>9 DEF ManNotify, TypeOK
<1>10. CASE ManClearLPR(e)
  BY <1>0, <1>10 DEF ManClearLPR, TypeOK
<1>11. QED
  BY <1>1, <1>2, <1>3, <1>4, <1>5, <1>6, <1>7, <1>8, <1>9, <1>10 DEF ManThread

LEMMA GateServes ==
  ASSUME IInv, NEW p \in Plates, NEW e \in Entrances, GateThread(e),
         NEW f \in Entrances, lpr'[f] = p, Unserved(f)'
  PROVE  lpr[f] = p /\ Unserved(f)
<1> USE EntranceAssumption DEF Unserved, Goto, simVars, manVars, condVars,
        BG_RAISING, BG_OPENED, BG_LOWERING, BG_CLOSED
<1>0. TypeOK /\ GateInv(e)
  BY DEF IInv, EntranceInv
<1>1. CASE GateAwaitCommand(e)
  BY <1>0, <1>1 DEF GateAwaitCommand, TypeOK
<1>2. CASE GateReadSign(e)
  BY <1>0, <1>2 DEF GateReadSign, TypeOK
<1>3. CASE GateDispatch(e)
  BY <1>0, <1>3 DEF GateDispatch, TypeOK
<1>4. CASE GateForceOpen(e) \/ GateClosed(e)
  BY <1>0, <1>4 DEF GateForceOpen, GateClosed, GateReports, TypeOK
<1>5. CASE GateOpened(e)
  BY <1>0, <1>5 DEF GateOpened, GateReports, GateInv, TypeOK
<1>6. CASE GateSpawnCar(e)
  BY <1>0, <1>6 DEF GateSpawnCar, TypeOK
<1>7. QED
  BY <1>1, <1>2, <1>3, <1>4, <1>5, <1>6 DEF GateThread

-----------------------------------------------------------------------------
(* Steps that move a car from one place to the next                        *)

\* The queue thread takes the head of its queue, which is nowhere else in it.
LEMMA TakeStep ==
  ASSUME PInv, NEW p \in Plates, NEW e \in Entrances, QueueTake(e)
  PROVE  PlateInv(p)' /\ QueuesInjective'
<1>1. /\ entrance_queue \in [Entrances -> Seq(Plates)]
      /\ first_plate \in [Entrances -> Plates \cup {NoPlate}]
      /\ entrance_queue[e] \in Seq(Plates)
      /\ QueuesInjective /\ PlateInv(p)
  BY DEF PInv, IInv, TypeOK
<1>2. UNCHANGED <<car_table, generator, inside, lpr, status, man_pc, gate_pc>>
  BY DEF QueueTake, manVars
<1>3. CASE entrance_queue[e] = <<>>
  <2>1. UNCHANGED <<entrance_queue, first_plate>>
    BY <1>3 DEF QueueTake
  <2>2. WaitsAt(p)' \subseteq WaitsAt(p)
    <3>1. \A f \in Entrances : lpr'[f] = p /\ Unserved(f)' => lpr[f] = p /\ Unserved(f)
      BY <1>2 DEF Unserved
    <3>2. QED
      BY <2>1, <3>1, ReaderStep
  <2>3. PlateInv(p)'
    BY <1>1, <1>2, <2>2, QuietStep
  <2>4. QED
    BY <1>1, <2>1, <2>3 DEF QueuesInjective, IsInjective
<1>4. CASE entrance_queue[e] # <<>>
  <2> DEFINE q == entrance_queue[e]
  <2>1. /\ entrance_queue' = [entrance_queue EXCEPT ![e] = Tail(q)]
        /\ first_plate' = [first_plate EXCEPT ![e] = Head(q)]
    BY <1>4 DEF QueueTake
  <2>2. /\ IsInjective(Tail(q))
        /\ \E i \in DOMAIN q : q[i] = Head(q)
        /\ \A j \in DOMAIN Tail(q) : /\ Tail(q)[j] # Head(q)
                                     /\ \E i \in DOMAIN q : q[i] = Tail(q)[j]
    BY <1>1, <1>4, TailOfInjective DEF QueuesInjective
  <2>3. /\ entrance_queue'[e] = Tail(q) /\ first_plate'[e] = Head(q)
        /\ \A f \in Entrances \ {e} : /\ entrance_queue'[f] = entrance_queue[f]
                                      /\ first_plate'[f] = first_plate[f]
    BY <1>1, <2>1
  <2>4. QueuesInjective'
    BY <1>1, <2>2, <2>3 DEF QueuesInjective, IsInjective
  <2>5. \A f \in Entrances : /\ (Unserved(f)' <=> Unserved(f)) /\ lpr'[f] = lpr[f]
                             /\ InQueue(f, p)' => InQueue(f, p)
    <3>1. \A f \in Entrances : (Unserved(f)' <=> Unserved(f)) /\ lpr'[f] = lpr[f]
      BY <1>2 DEF Unserved
    <3>2. InQueue(e, p)' => InQueue(e, p)
      BY <2>2, <2>3 DEF InQueue
    <3>3. \A f \in Entrances \ {e} : InQueue(f, p)' => InQueue(f, p)
      BY <2>3 DEF InQueue
    <3>4. QED
      BY <3>1, <3>2, <3>3
  <2>6. Places(p) /\ Places(p)'
    BY WaitsAtPlaces
  <2>7. CASE Head(q) = p
    <3>1. <<e, "queue">> \in WaitsAt(p)
      BY <2>2, <2>6, <2>7 DEF Places, InQueue
    <3>2. ~InQueue(e, p)'
      BY <2>2, <2>3, <2>7 DEF InQueue
    <3>3. WaitsAt(p) = {<<e, "queue">>}
      BY <1>1, <3>1 DEF PlateInv
    <3>4. WaitsAt(p)' \subseteq {<<e, "thread">>}
      <4>1. \A f \in Entrances : /\ InQueue(f, p) => f = e
                                 /\ first_plate[f] # p
                                 /\ ~(lpr[f] = p /\ Unserved(f))
        BY <3>3, OnlyPlace
      <4>2. \A f \in Entrances : /\ ~InQueue(f, p)'
                                 /\ first_plate'[f] = p => f = e
                                 /\ ~(lpr'[f] = p /\ Unserved(f)')
        BY <2>3, <2>5, <3>2, <4>1
      <4>3. QED
        BY <2>6, <4>2 DEF Places
    <3>5. /\ Known(p)' <=> Known(p)
          /\ GeneratorHolds(p)' <=> GeneratorHolds(p)
          /\ inside' = inside
      BY <1>2 DEF Known, GeneratorHolds
    <3>6. QED
      BY <1>1, <2>4, <3>1, <3>4, <3>5 DEF PlateInv
  <2>8. CASE Head(q) # p
    <3>1. \A f \in Entrances : first_plate'[f] = p => first_plate[f] = p
      BY <2>3, <2>8
    <3>2. WaitsAt(p)' \subseteq WaitsAt(p)
      BY <2>5, <2>6, <3>1 DEF Places
    <3>3. QED
      BY <1>1, <1>2, <2>4, <3>2, QuietStep
  <2>9. QED
    BY <2>7, <2>8
<1>5. QED
  BY <1>3, <1>4

\* The queue thread puts its car before the reader, which it owns.
LEMMA TriggerStep ==
  ASSUME PInv, NEW p \in Plates, NEW e \in Entrances, QueueTrigger(e)
  PROVE  PlateInv(p)'
<1>1. /\ lpr \in [Entrances -> Plates \cup {NoPlate}]
      /\ first_plate \in [Entrances -> Plates \cup {NoPlate}]
      /\ PlateInv(p) /\ NoPlate # p
  BY EntranceAssumption DEF PInv, IInv, TypeOK
<1>2. /\ UNCHANGED <<car_table, generator, inside, entrance_queue, status, man_pc, gate_pc>>
      /\ lpr'[e] = first_plate[e] /\ first_plate'[e] = NoPlate
      /\ \A f \in Entrances \ {e} : lpr'[f] = lpr[f] /\ first_plate'[f] = first_plate[f]
  BY <1>1 DEF QueueTrigger, manVars
<1>3. \A f \in Entrances : /\ (Unserved(f)' <=> Unserved(f))
                           /\ (InQueue(f, p)' <=> InQueue(f, p))
  BY <1>2 DEF Unserved, InQueue
<1>4. Places(p) /\ Places(p)'
  BY WaitsAtPlaces
<1>5. CASE first_plate[e] = p
  <2>1. <<e, "thread">> \in WaitsAt(p)
    BY <1>4, <1>5 DEF Places
  <2>2. WaitsAt(p) = {<<e, "thread">>}
    BY <1>1, <2>1 DEF PlateInv
  <2>3. \A f \in Entrances : /\ ~InQueue(f, p)
                             /\ first_plate[f] = p => f = e
                             /\ ~(lpr[f] = p /\ Unserved(f))
    BY <2>2, OnlyPlace
  <2>4. \A f \in Entrances : /\ ~InQueue(f, p)'
                             /\ first_plate'[f] # p
                             /\ lpr'[f] = p /\ Unserved(f)' => f = e
    BY <1>1, <1>2, <1>3, <2>3
  <2>5. WaitsAt(p)' \subseteq {<<e, "lpr">>}
    BY <1>4, <2>4 DEF Places
  <2>6. /\ Known(p)' <=> Known(p)
        /\ GeneratorHolds(p)' <=> GeneratorHolds(p)
        /\ inside' = inside
    BY <1>2 DEF Known, GeneratorHolds
  <2>7. QED
    BY <1>1, <2>1, <2>5, <2>6 DEF PlateInv
<1>6. CASE first_plate[e] # p
  <2>1. \A f \in Entrances : /\ first_plate'[f] = p => first_plate[f] = p
                             /\ lpr'[f] = p => lpr[f] = p
    BY <1>1, <1>2, <1>6
  <2>2. WaitsAt(p)' \subseteq WaitsAt(p)
    BY <1>3, <1>4, <2>1 DEF Places
  <2>3. QED
    BY <1>1, <1>2, <2>2, QuietStep
<1>7. QED
  BY <1>5, <1>6

\* The gate thread lets in the car before the reader, which from then on is
\* served, although its plate stays at the reader for a while.
LEMMA SpawnStep ==
  ASSUME PInv, NEW p \in Plates, NEW e \in Entrances, GateSpawnCar(e)
  PROVE  PlateInv(p)'
<1>1. /\ inside \in [Plates \cup {NoPlate} -> Nat]
      /\ gate_pc \in [Entrances -> {"idle", "sign", "force", "dispatch", "opening",
                                    "spawn", "closing"}]
      /\ lpr \in [Entrances -> Plates \cup {NoPlate}]
      /\ PlateInv(p)
  BY DEF PInv, IInv, TypeOK
<1>2. /\ UNCHANGED <<car_table, generator, entrance_queue, first_plate, lpr, status, man_pc>>
      /\ gate_pc[e] = "spawn" /\ gate_pc' = [gate_pc EXCEPT ![e] = "idle"]
      /\ inside' = [inside EXCEPT ![lpr[e]] = @ + 1]
  BY DEF GateSpawnCar, Goto, simVars, manVars
<1>3. \A f \in Entrances : lpr'[f] = p /\ Unserved(f)' => lpr[f] = p /\ Unserved(f)
  BY GateServes DEF PInv, GateThread
<1>4. WaitsAt(p)' \subseteq WaitsAt(p)
  BY <1>2, <1>3, ReaderStep
<1>5. CASE lpr[e] # p
  <2>1. inside'[p] = inside[p]
    BY <1>1, <1>2, <1>5
  <2>2. /\ Known(p)' <=> Known(p)
        /\ GeneratorHolds(p)' <=> GeneratorHolds(p)
    BY <1>2 DEF Known, GeneratorHolds
  <2>3. QED
    BY <1>1, <1>4, <2>1, <2>2, Zenon DEF PlateInv
<1>6. CASE lpr[e] = p
  <2>1. Places(p)
    BY WaitsAtPlaces
  <2>2. <<e, "lpr">> \in WaitsAt(p)
    BY <1>2, <1>6, <2>1 DEF Places, Unserved
  <2>3. WaitsAt(p) = {<<e, "lpr">>}
    BY <1>1, <2>2 DEF PlateInv
  <2>4. inside[p] = 0 /\ Known(p)
    BY <1>1, <2>2 DEF PlateInv
  <2>5. inside'[p] = 1
    BY <1>1, <1>2, <1>6, <2>4
  <2>6. ~Unserved(e)'
    <3>1. EntranceInv(e) /\ TypeOK
      BY DEF PInv, IInv
    <3>2. status[e] \in {BG_OPENED, BG_LOWERING}
      BY <1>2, <3>1 DEF EntranceInv, GateInv, TypeOK, BG_RAISING, BG_OPENED,
                        BG_LOWERING, BG_CLOSED
    <3>3. man_pc[e] \in {"opened", "admit", "lower", "notify", "closed"}
      BY <3>1, <3>2 DEF EntranceInv, ManInv, BG_OPENED, BG_LOWERING, BG_CLOSED
    <3>4. gate_pc'[e] = "idle"
      BY <1>1, <1>2
    <3>5. QED
      BY <1>2, <3>2, <3>3, <3>4 DEF Unserved, BG_RAISING, BG_OPENED, BG_LOWERING
  <2>7. <<e, "lpr">> \notin WaitsAt(p)'
    <3>1. Places(p)'
      BY WaitsAtPlaces
    <3>2. QED
      BY <2>6, <3>1 DEF Places
  <2>8. WaitsAt(p)' = {}
    BY <1>4, <2>3, <2>7
  <2>9. /\ Known(p)' <=> Known(p)
        /\ GeneratorHolds(p)' <=> GeneratorHolds(p)
    BY <1>2 DEF Known, GeneratorHolds
  <2>10. QED
    BY <1>1, <2>4, <2>5, <2>8, <2>9 DEF PlateInv
<1>7. QED
  BY <1>5, <1>6

\* The generator draws a plate that is not known.
LEMMA FindStep ==
  ASSUME PInv, NEW p \in Plates, NEW q \in Plates, NEW e \in Entrances, GenFind(q, e)
  PROVE  PlateInv(p)'
<1>1. PlateInv(p)
  BY DEF PInv
<1>2. /\ UNCHANGED <<car_table, inside, entrance_queue, first_plate, lpr, status, man_pc, gate_pc>>
      /\ generator.step = "find" /\ q \notin car_table
      /\ generator'.step = "enqueue" /\ generator'.plate = q
  BY DEF GenFind, Idle, manVars
<1>3. \A f \in Entrances : lpr'[f] = p /\ Unserved(f)' => lpr[f] = p /\ Unserved(f)
  BY <1>2 DEF Unserved
<1>4. WaitsAt(p)' \subseteq WaitsAt(p)
  BY <1>2, <1>3, ReaderStep
<1>5. /\ Known(p)' <=> Known(p)
      /\ GeneratorHolds(p)' => ~Known(p)
  BY <1>2 DEF Known, GeneratorHolds
<1>6. QED
  BY <1>1, <1>2, <1>4, <1>5 DEF PlateInv

\* It queues the plate, which has not become known meanwhile.
LEMMA EnqueueStep ==
  ASSUME PInv, NEW p \in Plates, GenEnqueue
  PROVE  PlateInv(p)' /\ QueuesInjective'
<1>0. PICK e \in Entrances, x \in Plates : e = generator.entrance /\ x = generator.plate
  BY DEF PInv, IInv, GeneratorInv, GenEnqueue
<1> DEFINE q == entrance_queue[e]
<1>1. /\ entrance_queue \in [Entrances -> Seq(Plates)] /\ q \in Seq(Plates)
      /\ QueuesInjective /\ PlateInv(p) /\ PlateInv(x)
  BY DEF PInv, IInv, TypeOK
<1>2. /\ UNCHANGED <<car_table, inside, first_plate, lpr, status, man_pc, gate_pc>>
      /\ generator.step = "enqueue"
      /\ generator'.step = "add" /\ generator'.plate = x
      /\ entrance_queue'[e] = Append(q, x)
      /\ \A f \in Entrances \ {e} : entrance_queue'[f] = entrance_queue[f]
  <2>1. generator' = [generator EXCEPT !.step = "add"]
    BY DEF GenEnqueue
  <2>2. generator \in [step : {"find", "enqueue", "add"}, plate : Plates \cup {NoPlate},
                       entrance : Entrances \cup {NoPlate}]
    BY DEF PInv, IInv, TypeOK
  <2>3. generator'.step = "add" /\ generator'.plate = x
    BY <1>0, <2>1, <2>2
  <2>4. entrance_queue' = [entrance_queue EXCEPT ![e] = Append(q, x)]
    BY <1>0 DEF GenEnqueue
  <2>5. QED
    BY <1>1, <2>3, <2>4 DEF GenEnqueue, manVars
<1>3. /\ WaitsAt(x) = {} /\ inside[x] = 0 /\ ~Known(x)
  <2>1. GeneratorHolds(x)
    BY <1>0, <1>2 DEF GeneratorHolds
  <2>2. inside[x] \in Nat
    BY DEF PInv, IInv, TypeOK
  <2>3. QED
    BY <1>1, <2>1, <2>2 DEF PlateInv
<1>4. \A i \in DOMAIN q : q[i] # x
  <2>1. Places(x)
    BY WaitsAtPlaces
  <2>2. ~InQueue(e, x)
    BY <1>1, <1>3, <2>1 DEF Places
  <2>3. QED
    BY <2>2 DEF InQueue
<1>5. /\ IsInjective(q)
      /\ IsInjective(Append(q, x))
      /\ \A y : (\E i \in DOMAIN Append(q, x) : Append(q, x)[i] = y)
                  => y = x \/ \E i \in DOMAIN q : q[i] = y
  BY <1>1, <1>4, AppendNew DEF QueuesInjective
<1>6. QueuesInjective'
  <2> HIDE DEF q
  <2>1. \A f \in Entrances \ {e} : IsInjective(entrance_queue'[f])
    BY <1>1, <1>2 DEF QueuesInjective
  <2>2. IsInjective(entrance_queue'[e])
    BY <1>2, <1>5
  <2>3. \A f \in Entrances : IsInjective(entrance_queue'[f])
    BY <2>1, <2>2
  <2>4. QED
    BY <2>3 DEF QueuesInjective, IsInjective
<1>7. \A f \in Entrances : /\ (Unserved(f)' <=> Unserved(f))
                           /\ lpr'[f] = lpr[f] /\ first_plate'[f] = first_plate[f]
  BY <1>2 DEF Unserved
<1>8. Places(p) /\ Places(p)'
  BY WaitsAtPlaces
<1>9. \A f \in Entrances : InQueue(f, p)' => InQueue(f, p) \/ (f = e /\ p = x)
  <2>1. InQueue(e, p)' => InQueue(e, p) \/ p = x
    BY <1>2, <1>5 DEF InQueue
  <2>2. \A f \in Entrances \ {e} : InQueue(f, p)' => InQueue(f, p)
    BY <1>2 DEF InQueue
  <2>3. QED
    BY <2>1, <2>2
<1>10. CASE p = x
  <2>1. \A f \in Entrances : /\ ~InQueue(f, p) /\ first_plate[f] # p
                             /\ ~(lpr[f] = p /\ Unserved(f))
    BY <1>3, <1>8, <1>10 DEF Places
  <2>2. WaitsAt(p)' \subseteq {<<e, "queue">>}
    BY <1>7, <1>8, <1>9, <2>1 DEF Places
  <2>3. Known(p)' /\ ~GeneratorHolds(p)' /\ inside'[p] = 0
    BY <1>2, <1>3, <1>10 DEF Known, GeneratorHolds
  <2>4. QED
    BY <1>6, <2>2, <2>3 DEF PlateInv
<1>11. CASE p # x
  <2>1. WaitsAt(p)' \subseteq WaitsAt(p)
    BY <1>7, <1>8, <1>9, <1>11 DEF Places
  <2>2. (Known(p)' <=> Known(p)) /\ ~GeneratorHolds(p)' /\ inside' = inside
    BY <1>0, <1>2, <1>11 DEF Known, GeneratorHolds
  <2>3. QED
    BY <1>1, <1>6, <2>1, <2>2 DEF PlateInv
<1>12. QED
  BY <1>10, <1>11

\* It adds the plate to the table; the car may be gone again.
LEMMA AddStep ==
  ASSUME PInv, NEW p \in Plates, GenAdd
  PROVE  PlateInv(p)'
<1>1. PlateInv(p)
  BY DEF PInv
<1>2. /\ UNCHANGED <<inside, entrance_queue, first_plate, lpr, status, man_pc, gate_pc>>
      /\ generator.step = "add" /\ car_table' = car_table \cup {generator.plate}
      /\ generator'.step = "find"
  BY DEF GenAdd, Idle, manVars
<1>3. \A f \in Entrances : lpr'[f] = p /\ Unserved(f)' => lpr[f] = p /\ Unserved(f)
  BY <1>2 DEF Unserved
<1>4. WaitsAt(p)' \subseteq WaitsAt(p)
  BY <1>2, <1>3, ReaderStep
<1>5. (Known(p)' <=> Known(p)) /\ ~GeneratorHolds(p)'
  BY <1>2 DEF Known, GeneratorHolds
<1>6. QED
  BY <1>1, <1>2, <1>4, <1>5 DEF PlateInv

\* A car deletes its plate when it leaves: nobody else goes by that plate.
LEMMA LeaveStep ==
  ASSUME PInv, NEW p \in Plates, NEW q \in Plates \cup {NoPlate}, CarLeaves(q)
  PROVE  PlateInv(p)'
<1>1. PlateInv(p) /\ inside \in [Plates \cup {NoPlate} -> Nat]
  BY DEF PInv, IInv, TypeOK
<1>2. /\ UNCHANGED <<generator, entrance_queue, first_plate, lpr, status, man_pc, gate_pc>>
      /\ inside[q] > 0 /\ inside' = [inside EXCEPT ![q] = @ - 1]
      /\ car_table' = car_table \ {q}
  BY DEF CarLeaves, manVars
<1>3. \A f \in Entrances : lpr'[f] = p /\ Unserved(f)' => lpr[f] = p /\ Unserved(f)
  BY <1>2 DEF Unserved
<1>4. WaitsAt(p)' \subseteq WaitsAt(p)
  BY <1>2, <1>3, ReaderStep
<1>5. GeneratorHolds(p)' <=> GeneratorHolds(p)
  BY <1>2 DEF GeneratorHolds
<1>6. CASE p = q
  <2>1. inside[p] = 1 /\ WaitsAt(p) = {}
    BY <1>1, <1>2, <1>6 DEF PlateInv
  <2>2. inside'[p] = 0 /\ WaitsAt(p)' = {}
    BY <1>1, <1>2, <1>4, <1>6, <2>1
  <2>3. Known(p)' => Known(p)
    BY <1>2 DEF Known
  <2>4. QED
    BY <1>1, <1>5, <2>2, <2>3 DEF PlateInv
<1>7. CASE p # q
  <2>1. inside'[p] = inside[p] /\ (Known(p)' <=> Known(p))
    BY <1>1, <1>2, <1>7 DEF Known
  <2>2. QED
    BY <1>1, <1>4, <1>5, <2>1, Zenon DEF PlateInv
<1>8. QED
  BY <1>6, <1>7

-----------------------------------------------------------------------------

LEMMA InitPInv == Init => PInv
<1> SUFFICES ASSUME Init
             PROVE  PInv
  OBVIOUS
<1>1. IInv
  BY InitIInv
<1>2. QueuesInjective
  BY DEF Init, QueuesInjective, IsInjective
<1>3. ASSUME NEW p \in Plates
      PROVE  PlateInv(p)
  <2>1. \A e \in Entrances : ~InQueue(e, p) /\ first_plate[e] # p /\ lpr[e] # p
    BY EntranceAssumption DEF Init, InQueue
  <2>2. Places(p)
    BY WaitsAtPlaces
  <2>3. WaitsAt(p) = {}
    BY <2>1, <2>2 DEF Places
  <2>4. QED
    BY <2>3 DEF Init, PlateInv, GeneratorHolds, Idle
<1>4. QED
  BY <1>1, <1>2, <1>3 DEF PInv

LEMMA NextPInv == PInv /\ [Next]_vars => PInv'
<1> SUFFICES ASSUME PInv, [Next]_vars
             PROVE  PInv'
  OBVIOUS
<1>1. IInv'
  BY NextIInv DEF PInv
<1>2. ASSUME UNCHANGED entrance_queue
      PROVE  QueuesInjective'
  BY <1>2 DEF PInv, QueuesInjective
<1> DEFINE Kept == QueuesInjective' /\ \A p \in Plates : PlateInv(p)'
<1>3. ASSUME UNCHANGED <<entrance_queue, first_plate, car_table, generator, inside>>,
             \A p \in Plates, f \in Entrances :
               lpr'[f] = p /\ Unserved(f)' => lpr[f] = p /\ Unserved(f)
      PROVE  Kept
  <2>1. ASSUME NEW p \in Plates
        PROVE  PlateInv(p)'
    <3>1. WaitsAt(p)' \subseteq WaitsAt(p)
      BY <1>3, ReaderStep
    <3>2. PlateInv(p)
      BY DEF PInv
    <3>3. QED
      BY <1>3, <3>1, <3>2, QuietStep
  <2>2. QED
    BY <1>2, <1>3, <2>1
<1>4. ASSUME NEW p \in Plates, NEW e \in Entrances, GenFind(p, e)
      PROVE  Kept
  BY <1>2, <1>4, FindStep DEF GenFind
<1>5. ASSUME GenEnqueue
      PROVE  Kept
  <2>1. \A p \in Plates : PlateInv(p)' /\ QueuesInjective'
    BY <1>5, EnqueueStep
  <2>2. generator.plate \in Plates
    BY <1>5 DEF PInv, IInv, GeneratorInv, GenEnqueue
  <2>3. QED
    BY <2>1, <2>2
<1>6. ASSUME GenAdd
      PROVE  Kept
  BY <1>2, <1>6, AddStep DEF GenAdd
<1>7. ASSUME NEW e \in Entrances, QueueAwaitClear(e)
      PROVE  Kept
  <2>1. UNCHANGED <<entrance_queue, first_plate, car_table, generator, inside,
                    lpr, status, man_pc, gate_pc>>
    BY <1>7 DEF QueueAwaitClear, manVars
  <2>2. QED
    BY <1>3, <2>1 DEF Unserved
<1>8. ASSUME NEW e \in Entrances, QueueTake(e)
      PROVE  Kept
  <2>1. \A p \in Plates : PlateInv(p)' /\ QueuesInjective'
    BY <1>8, TakeStep
  <2>2. CASE Plates = {}
    BY <1>2, <1>8, <2>2 DEF PInv, IInv, TypeOK, QueueTake
  <2>3. QED
    BY <2>1, <2>2
<1>9. ASSUME NEW e \in Entrances, QueueTrigger(e)
      PROVE  Kept
  BY <1>2, <1>9, TriggerStep DEF QueueTrigger
<1>10. ASSUME NEW e \in Entrances, ManThread(e)
       PROVE  Kept
  <2>1. UNCHANGED <<entrance_queue, first_plate, car_table, generator, inside>>
    BY <1>10 DEF ManThread, ManAwaitPlate, ManLookup, ManGetSpot, ManShows,
              ManShowLevel, ManShowFull, ManDeny, ManBlankSign, ManAwaitGate,
              ManAwaitOpened, ManAwaitClosed, ManRaise, ManAdmit, ManLower,
              ManNotify, ManClearLPR, simVars
  <2>2. QED
    BY <1>3, <1>10, <2>1, ManServes DEF PInv
<1>11. ASSUME NEW e \in Entrances, GateThread(e), ~GateSpawnCar(e)
       PROVE  Kept
  <2>1. UNCHANGED <<entrance_queue, first_plate, car_table, generator, inside>>
    BY <1>11 DEF GateThread, GateAwaitCommand, GateReadSign, GateForceOpen,
              GateDispatch, GateOpened, GateClosed, GateReports, simVars
  <2>2. QED
    BY <1>3, <1>11, <2>1, GateServes DEF PInv
<1>12. ASSUME NEW e \in Entrances, GateSpawnCar(e)
       PROVE  Kept
  BY <1>2, <1>12, SpawnStep DEF GateSpawnCar, simVars
<1>13. ASSUME NEW q \in Plates \cup {NoPlate}, CarLeaves(q)
       PROVE  Kept
  BY <1>2, <1>13, LeaveStep DEF CarLeaves
<1>14. ASSUME UNCHANGED vars
       PROVE  Kept
  <2>1. UNCHANGED <<entrance_queue, first_plate, car_table, generator, inside,
                    lpr, status, man_pc, gate_pc>>
    BY <1>14 DEF vars, simVars, manVars
  <2>2. QED
    BY <1>3, <2>1 DEF Unserved
<1>15. Kept
  <2> HIDE DEF Kept
  <2>1. QED
    BY <1>4, <1>5, <1>6, <1>7, <1>8, <1>9, <1>10, <1>11, <1>12, <1>13, <1>14
    DEF Next, Generator, QueueThread
<1>16. QED
  BY <1>1, <1>15 DEF PInv

LEMMA PInvOneCar == PInv => OneCarPerPlate
<1> SUFFICES ASSUME PInv, NEW p \in Plates
             PROVE  /\ \A e \in Entrances : IsInjective(entrance_queue[e])
                    /\ inside[p] <= 1
                    /\ \A v, w \in WaitsAt(p) : v = w
                    /\ inside[p] = 1 => WaitsAt(p) = {}
                    /\ GeneratorHolds(p) => WaitsAt(p) = {} /\ inside[p] = 0
  BY DEF OneCarPerPlate, PInv, QueuesInjective
<1>1. PlateInv(p) /\ inside[p] \in Nat
  BY DEF PInv, IInv, TypeOK
<1>2. QED
  BY <1>1 DEF PlateInv, PInv, QueuesInjective

\* No plate is ever queued, at a reader or inside twice, although the
\* generator looks plates up with no mutex while cars delete theirs.
THEOREM EntranceOneCarPerPlate == Spec => []OneCarPerPlate
  BY InitPInv, NextPInv, PInvOneCar, PTL DEF Spec

=============================================================================
