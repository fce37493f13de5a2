--------------------------- MODULE ExitGateProofs ---------------------------
(***************************************************************************)
(* What holds of the exits for every number of exits, plates and visits:   *)
(* the types, that no update of the revenue is lost, and that no visit is  *)
(* billed twice.                                                           *)
(***************************************************************************)
EXTENDS ExitGate, Billing, TLAPS

\* Once the monitor has seen a plate there is one, be it another.
PlateInv == \A x \in Exits : mon_pc[x] # "await" => exit_lpr[x] # NoPlate

\* The mutex of the table is held from the search to the reset, and the
\* revenue read in between is the revenue of now.
TableInv == \A x \in Exits : mon_pc[x] \in {"calc", "reset"} <=> table_owner = x
TotalInv == \A x \in Exits : mon_pc[x] = "reset" => mon_total[x] = revenue

BillInv == TableInv /\ TotalInv /\ RevenueMatchesBills

\* The plate of p is on the LPR of x and still to be looked at.
Pending(p, x) ==
  exit_lpr[x] = p /\ mon_pc[x] \notin {"lower", "notify", "closed", "clear"}

\* Unsettled(p) because of the exit x.
UnsettledAt(p, x) == p \in mon_cars[x] \/ Pending(p, x)

\* The car has an entry_time, or some monitor_entrance is about to give it one.
Timed(p) == p \in timed \/ ToTime(p)

\* A car that has not come back early is inside or at one exit, and it is
\* timed, or about to be, until that exit resets it.
SettleInv ==
  \A p \in Plates \ early :
    /\ p \in inside => Timed(p)
    /\ \A x \in Exits : UnsettledAt(p, x) => p \notin inside
    /\ \A x \in Exits : Pending(p, x) => Timed(p)
    /\ \A x, y \in Exits : UnsettledAt(p, x) /\ UnsettledAt(p, y) => x = y

IInv == TypeOK /\ PlateInv /\ BillInv /\ SettleInv

-----------------------------------------------------------------------------

LEMMA InitIInv == Init => IInv
<1> SUFFICES ASSUME Init
             PROVE  IInv
  OBVIOUS
<1>1. TypeOK
  BY ExitGateAssumption DEF Init, TypeOK, BG_CLOSED
<1>2. PlateInv
  BY DEF Init, PlateInv
<1>3. BillInv
  BY ExitGateAssumption DEF Init, BillInv, TableInv, TotalInv, RevenueMatchesBills
<1>4. SettleInv
  BY ExitGateAssumption DEF Init, SettleInv, UnsettledAt, Pending
<1>5. QED
  BY <1>1, <1>2, <1>3, <1>4 DEF IInv

\* Every step keeps the types.
LEMMA NextTypeOK == TypeOK /\ PlateInv /\ [Next]_vars => TypeOK' /\ PlateInv'
<1> SUFFICES ASSUME TypeOK, PlateInv, [Next]_vars
             PROVE  TypeOK' /\ PlateInv'
  OBVIOUS
<1> USE DEF carVars, monVars, billVars, BG_RAISING, BG_OPENED, BG_LOWERING, BG_CLOSED
<1>1. ASSUME NEW p \in Plates, NEW e \in Entrances, CarEnters(p, e)
      PROVE  TypeOK' /\ PlateInv'
  <2>1. early' \subseteq Plates
    BY <1>1 DEF TypeOK, CarEnters
  <2>2. QED
    BY <1>1, <2>1, ExitGateAssumption DEF TypeOK, PlateInv, CarEnters
<1>0. ASSUME NEW e \in Entrances, ManStartTime(e)
      PROVE  TypeOK' /\ PlateInv'
  BY <1>0, ExitGateAssumption DEF TypeOK, PlateInv, ManStartTime
<1>2. ASSUME NEW p \in Plates, NEW x \in Exits, CarExits(p, x)
      PROVE  TypeOK' /\ PlateInv'
  <2>1. /\ exit_lpr' = [exit_lpr EXCEPT ![x] = p]
        /\ lpr_cond' = [lpr_cond EXCEPT ![x] = {}]
    BY <1>2 DEF CarExits, Broadcast
  <2>2. alone' \subseteq Plates
    BY <1>2 DEF TypeOK, CarExits
  <2>3. QED
    BY <1>2, <2>1, <2>2, ExitGateAssumption DEF TypeOK, PlateInv, CarExits
<1>3. ASSUME NEW x \in Exits, ManAwaitPlate(x)
      PROVE  TypeOK' /\ PlateInv'
  <2>1. \/ lpr_cond' = lpr_cond
        \/ lpr_cond' = [lpr_cond EXCEPT ![x] = @ \cup {Man}]
    BY <1>3 DEF ManAwaitPlate, Wait
  <2>2. lpr_cond' \in [Exits -> SUBSET {Man}]
    BY <2>1 DEF TypeOK
  <2>3. QED
    BY <1>3, <2>2, ExitGateAssumption DEF TypeOK, PlateInv, ManAwaitPlate, Goto
<1>4. ASSUME NEW x \in Exits, ManCheckAlarm(x)
      PROVE  TypeOK' /\ PlateInv'
  BY <1>4, ExitGateAssumption DEF TypeOK, PlateInv, ManCheckAlarm, Goto
<1>5. ASSUME NEW x \in Exits, ManRaise(x)
      PROVE  TypeOK' /\ PlateInv'
  <2>1. gate_cond' = [gate_cond EXCEPT ![x] = {Man}]
    BY <1>5 DEF ManRaise
  <2>2. Man \in {Man, Gate, Fire}
    BY Zenon
  <2>3. gate_cond \in [Exits -> SUBSET {Man, Gate, Fire}]
    BY DEF TypeOK
  <2>4. gate_cond' \in [Exits -> SUBSET {Man, Gate, Fire}]
    BY <2>1, <2>2, <2>3
  <2>5. QED
    BY <1>5, <2>4, ExitGateAssumption DEF TypeOK, PlateInv, ManRaise, Goto
<1>6. ASSUME NEW x \in Exits, ManAwaitOpened(x) \/ ManAwaitClosed(x)
      PROVE  TypeOK' /\ PlateInv'
  <2>1. \/ gate_cond' = gate_cond
        \/ gate_cond' = [gate_cond EXCEPT ![x] = @ \cup {Man}]
    BY <1>6 DEF ManAwaitOpened, ManAwaitClosed, ManAwaitGate, Wait
  <2>2. Man \in {Man, Gate, Fire}
    BY Zenon
  <2>3. gate_cond \in [Exits -> SUBSET {Man, Gate, Fire}]
    BY DEF TypeOK
  <2>4. gate_cond' \in [Exits -> SUBSET {Man, Gate, Fire}]
    BY <2>1, <2>2, <2>3
  <2>5. QED
    BY <1>6, <2>4, ExitGateAssumption
    DEF TypeOK, PlateInv, ManAwaitOpened, ManAwaitClosed, ManAwaitGate, Goto
<1>7. ASSUME NEW x \in Exits, ManCheckOpened(x)
      PROVE  TypeOK' /\ PlateInv'
  BY <1>7, ExitGateAssumption DEF TypeOK, PlateInv, ManCheckOpened, Goto
<1>8. ASSUME NEW x \in Exits, ManFind(x)
      PROVE  TypeOK' /\ PlateInv'
  <2>1. exit_lpr[x] \in Plates
    BY <1>8 DEF TypeOK, PlateInv, ManFind, Goto
  <2>2. mon_cars' \in [Exits -> SUBSET Plates]
    BY <1>8, <2>1 DEF TypeOK, ManFind
  <2>3. QED
    BY <1>8, <2>2, ExitGateAssumption DEF TypeOK, PlateInv, ManFind, Goto
<1>9. ASSUME NEW x \in Exits, ManCalcBill(x)
      PROVE  TypeOK' /\ PlateInv'
  <2>1. exit_lpr[x] \in Plates
    BY <1>9 DEF TypeOK, PlateInv, ManCalcBill, Goto
  <2>2. mon_cars' \in [Exits -> SUBSET Plates]
    BY <1>9, <2>1 DEF TypeOK, ManCalcBill
  <2>3. mon_total' \in [Exits -> Nat]
    BY <1>9 DEF TypeOK, ManCalcBill
  <2>4. QED
    BY <1>9, <2>2, <2>3, ExitGateAssumption DEF TypeOK, PlateInv, ManCalcBill, Goto
<1>10. ASSUME NEW x \in Exits, ManReset(x)
       PROVE  TypeOK' /\ PlateInv'
  <2>1. revenue' \in Nat /\ bills' \in Nat
    BY <1>10 DEF TypeOK, ManReset
  <2>2. /\ mon_cars' \in [Exits -> SUBSET Plates]
        /\ mon_total' \in [Exits -> Nat]
    BY <1>10 DEF TypeOK, ManReset
  <2>3. QED
    BY <1>10, <2>1, <2>2, ExitGateAssumption DEF TypeOK, PlateInv, ManReset, Goto
<1>11. ASSUME NEW x \in Exits, ManLower(x)
       PROVE  TypeOK' /\ PlateInv'
  BY <1>11, ExitGateAssumption DEF TypeOK, PlateInv, ManLower, Goto
<1>12. ASSUME NEW x \in Exits, ManNotify(x)
       PROVE  TypeOK' /\ PlateInv'
  BY <1>12, ExitGateAssumption DEF TypeOK, PlateInv, ManNotify, Goto, Broadcast
<1>13. ASSUME NEW x \in Exits, ManClearLPR(x)
       PROVE  TypeOK' /\ PlateInv'
  BY <1>13, ExitGateAssumption DEF TypeOK, PlateInv, ManClearLPR, Goto, Broadcast
<1>14. ASSUME NEW x \in Exits, GateAwaitCommand(x)
       PROVE  TypeOK' /\ PlateInv'
  <2>1. \/ gate_cond' = gate_cond
        \/ gate_cond' = [gate_cond EXCEPT ![x] = @ \cup {Gate}]
    BY <1>14 DEF GateAwaitCommand, Wait
  <2>2. Gate \in {Man, Gate, Fire}
    BY Zenon
  <2>3. gate_cond \in [Exits -> SUBSET {Man, Gate, Fire}]
    BY DEF TypeOK
  <2>4. gate_cond' \in [Exits -> SUBSET {Man, Gate, Fire}]
    BY <2>1, <2>2, <2>3
  <2>5. QED
    BY <1>14, <2>4, ExitGateAssumption DEF TypeOK, PlateInv, GateAwaitCommand, Goto
<1>15. ASSUME NEW x \in Exits, GateDispatch(x)
       PROVE  TypeOK' /\ PlateInv'
  BY <1>15, ExitGateAssumption DEF TypeOK, PlateInv, GateDispatch, Goto
<1>16. ASSUME NEW x \in Exits, GateOpened(x) \/ GateClosed(x)
       PROVE  TypeOK' /\ PlateInv'
  <2>1. \/ gate_cond' = gate_cond
        \/ \E t \in gate_cond[x] : gate_cond' = [gate_cond EXCEPT ![x] = @ \ {t}]
    BY <1>16 DEF GateOpened, GateClosed, GateReports, Signal
  <2>2. gate_cond \in [Exits -> SUBSET {Man, Gate, Fire}]
    BY DEF TypeOK
  <2>3. gate_cond' \in [Exits -> SUBSET {Man, Gate, Fire}]
    BY <2>1, <2>2
  <2>4. QED
    BY <1>16, <2>3, ExitGateAssumption
    DEF TypeOK, PlateInv, GateOpened, GateClosed, GateReports, Goto
<1>17. CASE UNCHANGED vars
  BY <1>17 DEF TypeOK, PlateInv, vars
<1>18. QED
  BY <1>0, <1>1, <1>2, <1>3, <1>4, <1>5, <1>6, <1>7, <1>8, <1>9, <1>10, <1>11,
     <1>12, <1>13, <1>14, <1>15, <1>16, <1>17
  DEF Next, Car, ManThread, GateThread

\* The revenue is only touched by the owner of the table.
LEMMA NextBilling == TypeOK /\ BillInv /\ [Next]_vars => BillInv'
<1> SUFFICES ASSUME TypeOK, BillInv, [Next]_vars
             PROVE  BillInv'
  OBVIOUS
<1> USE ExitGateAssumption
    DEF BillInv, TableInv, TotalInv, RevenueMatchesBills, TypeOK, Goto,
        carVars, monVars, billVars
<1>0. ASSUME NEW e \in Entrances, ManStartTime(e)
      PROVE  BillInv'
  BY <1>0 DEF ManStartTime
<1>1. ASSUME NEW p \in Plates, NEW e \in Entrances, CarEnters(p, e)
      PROVE  BillInv'
  BY <1>1 DEF CarEnters
<1>2. ASSUME NEW p \in Plates, NEW x \in Exits, CarExits(p, x)
      PROVE  BillInv'
  BY <1>2 DEF CarExits
<1>3. ASSUME NEW x \in Exits, ManAwaitPlate(x) \/ ManCheckAlarm(x) \/ ManRaise(x)
      PROVE  BillInv'
  BY <1>3 DEF ManAwaitPlate, ManCheckAlarm, ManRaise
<1>4. ASSUME NEW x \in Exits,
             ManAwaitOpened(x) \/ ManCheckOpened(x) \/ ManAwaitClosed(x)
      PROVE  BillInv'
  BY <1>4 DEF ManAwaitOpened, ManAwaitClosed, ManAwaitGate, ManCheckOpened
<1>5. ASSUME NEW x \in Exits, ManFind(x)
      PROVE  BillInv'
  BY <1>5 DEF ManFind
<1>6. ASSUME NEW x \in Exits, ManCalcBill(x)
      PROVE  BillInv'
  BY <1>6 DEF ManCalcBill
<1>7. ASSUME NEW x \in Exits, ManReset(x)
      PROVE  BillInv'
  <2>1. \A y \in Exits : mon_pc[y] \in {"calc", "reset"} => y = x
    BY <1>7 DEF ManReset
  <2>2. TableInv'
    BY <1>7, <2>1 DEF ManReset
  <2>3. TotalInv'
    BY <1>7, <2>1 DEF ManReset
  <2>4. RevenueMatchesBills'
    BY <1>7 DEF ManReset
  <2>5. QED
    BY <2>2, <2>3, <2>4
<1>8. ASSUME NEW x \in Exits, ManLower(x) \/ ManNotify(x) \/ ManClearLPR(x)
      PROVE  BillInv'
  BY <1>8 DEF ManLower, ManNotify, ManClearLPR
<1>9. ASSUME NEW x \in Exits, GateThread(x)
      PROVE  BillInv'
  BY <1>9
  DEF GateThread, GateAwaitCommand, GateDispatch, GateOpened, GateClosed, GateReports
<1>10. CASE UNCHANGED vars
  BY <1>10 DEF vars
<1>11. QED
  BY <1>0, <1>1, <1>2, <1>3, <1>4, <1>5, <1>6, <1>7, <1>8, <1>9, <1>10
  DEF Next, Car, ManThread

-----------------------------------------------------------------------------

\* A step that leaves the cars alone and settles what it changes.
LEMMA SettleShrinks ==
  ASSUME SettleInv, UNCHANGED <<inside, untimed, timed, early>>,
         \A p \in Plates, x \in Exits :
           /\ UnsettledAt(p, x)' => UnsettledAt(p, x)
           /\ Pending(p, x)' => Pending(p, x)
  PROVE  SettleInv'
BY DEF SettleInv, Timed, ToTime

\* Who is timed or about to be: an entrance adds the car it lets in, and its
\* monitor only turns the one into the other.
LEMMA EntersTimed ==
  ASSUME TypeOK, NEW p \in Plates, NEW e \in Entrances, CarEnters(p, e)
  PROVE  \A q \in Plates : Timed(q)' <=> Timed(q) \/ q = p
<1>1. untimed[e] = NoPlate /\ timed' = timed
  BY DEF CarEnters
<1>2. \A d \in Entrances : untimed'[d] = IF d = e THEN p ELSE untimed[d]
  BY DEF CarEnters, TypeOK
<1>3. QED
  BY <1>1, <1>2, ExitGateAssumption DEF Timed, ToTime

LEMMA StartTimeTimed ==
  ASSUME TypeOK, NEW e \in Entrances, ManStartTime(e)
  PROVE  \A q \in Plates : Timed(q)' <=> Timed(q)
<1>1. \A d \in Entrances : untimed'[d] = IF d = e THEN NoPlate ELSE untimed[d]
  BY DEF ManStartTime, TypeOK
<1>2. timed' = timed \cup {untimed[e]}
  BY DEF ManStartTime
<1>3. QED
  BY <1>1, <1>2, ExitGateAssumption DEF Timed, ToTime

\* A car that exits is unsettled at that exit only, and an exit that resets a
\* car was the only one to do so.
LEMMA NextSettle == TypeOK /\ SettleInv /\ [Next]_vars => SettleInv'
<1> SUFFICES ASSUME TypeOK, SettleInv, [Next]_vars
             PROVE  SettleInv'
  OBVIOUS
<1> USE ExitGateAssumption DEF TypeOK, Goto, carVars, monVars, billVars
<1>0. ASSUME NEW e \in Entrances, ManStartTime(e)
      PROVE  SettleInv'
  <2>1. \A q \in Plates : Timed(q)' <=> Timed(q)
    BY <1>0, StartTimeTimed
  <2>2. \A q \in Plates, x \in Exits :
          (UnsettledAt(q, x)' <=> UnsettledAt(q, x)) /\ (Pending(q, x)' <=> Pending(q, x))
    BY <1>0 DEF ManStartTime, UnsettledAt, Pending
  <2>3. UNCHANGED <<inside, early>>
    BY <1>0 DEF ManStartTime
  <2>4. QED
    BY <2>1, <2>2, <2>3 DEF SettleInv
<1>1. ASSUME NEW p \in Plates, NEW e \in Entrances, CarEnters(p, e)
      PROVE  SettleInv'
  <2>1. \A q \in Plates, x \in Exits :
          (UnsettledAt(q, x)' <=> UnsettledAt(q, x)) /\ (Pending(q, x)' <=> Pending(q, x))
    BY <1>1 DEF CarEnters, UnsettledAt, Pending
  <2>a. \A q \in Plates : Timed(q)' <=> Timed(q) \/ q = p
    BY <1>1, EntersTimed
  <2>b. /\ inside' = inside \cup {p}
        /\ early' = IF Unsettled(p) THEN early \cup {p} ELSE early \ {p}
    BY <1>1 DEF CarEnters
  <2>2. CASE Unsettled(p)
    BY <2>1, <2>2, <2>a, <2>b DEF SettleInv
  <2>3. CASE ~Unsettled(p)
    <3>1. \A x \in Exits : ~UnsettledAt(p, x) /\ ~Pending(p, x)
      BY <2>3 DEF Unsettled, UnsettledAt, Pending
    <3>2. QED
      BY <2>1, <2>3, <2>a, <2>b, <3>1 DEF SettleInv
  <2>4. QED
    BY <2>2, <2>3
<1>2. ASSUME NEW p \in Plates, NEW x \in Exits, CarExits(p, x)
      PROVE  SettleInv'
  <2>1. \A q \in Plates, y \in Exits :
          q # p => /\ UnsettledAt(q, y)' => UnsettledAt(q, y)
                   /\ Pending(q, y)' => Pending(q, y)
    BY <1>2 DEF CarExits, UnsettledAt, Pending
  <2>2. \A y \in Exits :
          y # x => /\ UnsettledAt(p, y)' => UnsettledAt(p, y)
                   /\ Pending(p, y)' => Pending(p, y)
    BY <1>2 DEF CarExits, UnsettledAt, Pending
  <2>3. /\ p \in inside /\ inside' = inside \ {p}
        /\ early' = early /\ UNCHANGED <<timed, untimed>>
    BY <1>2 DEF CarExits
  <2>4. \A q \in Plates : Timed(q)' <=> Timed(q)
    BY <2>3 DEF Timed, ToTime
  <2>5. QED
    BY <2>1, <2>2, <2>3, <2>4 DEF SettleInv
<1>3. ASSUME NEW x \in Exits,
             ManAwaitPlate(x) \/ ManCheckAlarm(x) \/ ManRaise(x) \/ ManAwaitOpened(x)
      PROVE  SettleInv'
  BY <1>3, SettleShrinks
  DEF ManAwaitPlate, ManCheckAlarm, ManRaise, ManAwaitOpened, ManAwaitGate,
      UnsettledAt, Pending
<1>4. ASSUME NEW x \in Exits, ManCheckOpened(x) \/ ManAwaitClosed(x)
      PROVE  SettleInv'
  BY <1>4, SettleShrinks
  DEF ManCheckOpened, ManAwaitClosed, ManAwaitGate, UnsettledAt, Pending
<1>5. ASSUME NEW x \in Exits, ManFind(x) \/ ManCalcBill(x)
      PROVE  SettleInv'
  BY <1>5, SettleShrinks DEF ManFind, ManCalcBill, UnsettledAt, Pending
<1>6. ASSUME NEW x \in Exits, ManReset(x)
      PROVE  SettleInv'
  <2>1. \A p \in Plates, y \in Exits :
          /\ UnsettledAt(p, y)' => UnsettledAt(p, y)
          /\ Pending(p, y)' => Pending(p, y) /\ y # x
    BY <1>6 DEF ManReset, UnsettledAt, Pending
  <2>2. \A p \in mon_cars[x] : UnsettledAt(p, x)
    BY DEF UnsettledAt
  <2>3. \A p \in Plates, y \in Exits : Pending(p, y) => UnsettledAt(p, y)
    BY DEF UnsettledAt
  <2>4. /\ inside' = inside /\ early' = early /\ untimed' = untimed
        /\ timed' = timed \ mon_cars[x]
    BY <1>6 DEF ManReset
  <2>5. \A p \in Plates : p \notin mon_cars[x] => (Timed(p)' <=> Timed(p))
    BY <2>4 DEF Timed, ToTime
  <2>6. QED
    BY <2>1, <2>2, <2>3, <2>4, <2>5 DEF SettleInv
<1>7. ASSUME NEW x \in Exits, ManLower(x) \/ ManNotify(x)
      PROVE  SettleInv'
  BY <1>7, SettleShrinks DEF ManLower, ManNotify, UnsettledAt, Pending
<1>8. ASSUME NEW x \in Exits, ManClearLPR(x)
      PROVE  SettleInv'
  BY <1>8, SettleShrinks DEF ManClearLPR, UnsettledAt, Pending
<1>9. ASSUME NEW x \in Exits, GateThread(x)
      PROVE  SettleInv'
  BY <1>9, SettleShrinks
  DEF GateThread, GateAwaitCommand, GateDispatch, GateOpened, GateClosed,
      GateReports, UnsettledAt, Pending
<1>10. CASE UNCHANGED vars
  BY <1>10, SettleShrinks DEF vars, UnsettledAt, Pending
<1>11. QED
  BY <1>0, <1>1, <1>2, <1>3, <1>4, <1>5, <1>6, <1>7, <1>8, <1>9, <1>10
  DEF Next, Car, ManThread

LEMMA NextIInv == IInv /\ [Next]_vars => IInv'
BY NextTypeOK, NextBilling, NextSettle DEF IInv

LEMMA IInvBilled == IInv => BilledCarIsTimed
<1> SUFFICES ASSUME IInv, NEW x \in Exits, mon_pc[x] = "calc"
             PROVE  exit_lpr[x] \in timed \cup early \/ ToTime(exit_lpr[x])
  BY DEF BilledCarIsTimed
<1>1. exit_lpr[x] \in Plates
  BY DEF IInv, TypeOK, PlateInv
<1>2. Pending(exit_lpr[x], x)
  BY DEF Pending
<1>3. QED
  BY <1>1, <1>2 DEF IInv, SettleInv, Timed

-----------------------------------------------------------------------------

\* Every reachable state of the exits is well typed: in particular the LPR
\* never shows NoPlate to a monitor that looks it up in the table.
THEOREM ExitGateTypeOK == Spec => []TypeOK
<1>1. IInv => TypeOK
  BY DEF IInv
<1>2. QED
  BY <1>1, InitIInv, NextIInv, PTL DEF Spec

\* However many exits bill at the same time, no update of the revenue is
\* lost: total_revenue is what billing.txt adds up to.
THEOREM ExitGateRevenueMatchesBills == Spec => []RevenueMatchesBills
<1>1. IInv => RevenueMatchesBills
  BY DEF IInv, BillInv
<1>2. QED
  BY <1>1, InitIInv, NextIInv, PTL DEF Spec

\* Whatever the other cars and exits do, the car that calc_bill finds has been
\* timed and not yet billed, unless it came back early, or a monitor_entrance
\* has still to time it.
THEOREM ExitGateBilledCarIsTimed == Spec => []BilledCarIsTimed
  BY IInvBilled, InitIInv, NextIInv, PTL DEF Spec

-----------------------------------------------------------------------------
(* The gates, and the cars that nobody disturbs                            *)

\* Where the gate thread can stand in each state of the gate.
GateInv(x) ==
  /\ status[x] \in {BG_CLOSED, BG_OPENED} => gate_pc[x] = "idle"
  /\ status[x] = BG_RAISING  => gate_pc[x] # "closing"
  /\ status[x] = BG_LOWERING => gate_pc[x] # "opening"

\* Where the gate is while the manager waits for it, or does not.
ManInv(x) ==
  /\ mon_pc[x] \in {"await", "alarm", "raise", "clear"} => status[x] = BG_CLOSED
  /\ mon_pc[x] = "opened" => status[x] \in {BG_RAISING, BG_OPENED}
  /\ mon_pc[x] \in {"check", "find", "calc", "reset", "lower"} => status[x] = BG_OPENED
  /\ mon_pc[x] \in {"notify", "closed"} => status[x] \in {BG_LOWERING, BG_CLOSED}

ExitInv(x) == GateInv(x) /\ ManInv(x)

\* The exit x has still to look p up, or has found it and will reset it.
HeldAt(p, x) ==
  /\ exit_lpr[x] = p
  /\ mon_pc[x] \notin {"lower", "notify", "closed", "clear"}
  /\ mon_pc[x] \in {"calc", "reset"} => p \in mon_cars[x]

\* The exit of a car that nobody disturbs holds it until the car is reset, and
\* afterwards only a monitor_entrance that is late can time it.
LoneInv == \A p \in alone \ late : Timed(p) => \E x \in Exits : HeldAt(p, x)

LoneIInv == IInv /\ LoneInv /\ \A x \in Exits : ExitInv(x)

LEMMA InitLoneIInv == Init => LoneIInv
<1> SUFFICES ASSUME Init
             PROVE  LoneIInv
  OBVIOUS
<1>1. IInv
  BY InitIInv
<1>2. LoneInv
  BY DEF Init, LoneInv
<1>3. ASSUME NEW x \in Exits
      PROVE  ExitInv(x)
  BY DEF Init, ExitInv, GateInv, ManInv, BG_CLOSED, BG_RAISING, BG_OPENED, BG_LOWERING
<1>4. QED
  BY <1>1, <1>2, <1>3 DEF LoneIInv

\* Every step keeps manager and gate in agreement.
LEMMA NextExitInv ==
  TypeOK /\ (\A x \in Exits : ExitInv(x)) /\ [Next]_vars => \A y \in Exits : ExitInv(y)'
<1> SUFFICES ASSUME TypeOK, \A x \in Exits : ExitInv(x), [Next]_vars, NEW y \in Exits
             PROVE  ExitInv(y)'
  OBVIOUS
<1>0. /\ ExitInv(y)
      /\ status \in [Exits -> {BG_RAISING, BG_OPENED, BG_LOWERING, BG_CLOSED}]
      /\ gate_pc \in [Exits -> {"idle", "dispatch", "opening", "closing"}]
      /\ mon_pc \in [Exits -> {"await", "alarm", "raise", "opened", "check", "find",
                               "calc", "reset", "lower", "notify", "closed", "clear"}]
  BY DEF TypeOK
<1> USE <1>0 DEF ExitInv, GateInv, ManInv, Goto, carVars, billVars, monVars,
        BG_RAISING, BG_OPENED, BG_LOWERING, BG_CLOSED
<1>0a. ASSUME NEW e \in Entrances, ManStartTime(e)
      PROVE  ExitInv(y)'
  BY <1>0a DEF ManStartTime
<1>1. ASSUME NEW p \in Plates, Car(p)
      PROVE  ExitInv(y)'
  BY <1>1 DEF Car, CarEnters, CarExits
<1>2. ASSUME NEW x \in Exits, ManAwaitPlate(x)
      PROVE  ExitInv(y)'
  BY <1>2 DEF ManAwaitPlate
<1>3. ASSUME NEW x \in Exits, ManCheckAlarm(x)
      PROVE  ExitInv(y)'
  BY <1>3 DEF ManCheckAlarm
<1>4. ASSUME NEW x \in Exits, ManRaise(x)
      PROVE  ExitInv(y)'
  BY <1>4 DEF ManRaise
<1>5. ASSUME NEW x \in Exits, ManAwaitOpened(x)
      PROVE  ExitInv(y)'
  BY <1>5 DEF ManAwaitOpened, ManAwaitGate
<1>6. ASSUME NEW x \in Exits, ManCheckOpened(x)
      PROVE  ExitInv(y)'
  BY <1>6 DEF ManCheckOpened
<1>7. ASSUME NEW x \in Exits, ManFind(x)
      PROVE  ExitInv(y)'
  BY <1>7 DEF ManFind
<1>8. ASSUME NEW x \in Exits, ManCalcBill(x)
      PROVE  ExitInv(y)'
  BY <1>8 DEF ManCalcBill
<1>9. ASSUME NEW x \in Exits, ManReset(x)
      PROVE  ExitInv(y)'
  BY <1>9 DEF ManReset
<1>10. ASSUME NEW x \in Exits, ManLower(x)
      PROVE  ExitInv(y)'
  BY <1>10 DEF ManLower
<1>11. ASSUME NEW x \in Exits, ManNotify(x)
      PROVE  ExitInv(y)'
  BY <1>11 DEF ManNotify
<1>12. ASSUME NEW x \in Exits, ManAwaitClosed(x)
      PROVE  ExitInv(y)'
  BY <1>12 DEF ManAwaitClosed, ManAwaitGate
<1>13. ASSUME NEW x \in Exits, ManClearLPR(x)
      PROVE  ExitInv(y)'
  BY <1>13 DEF ManClearLPR
<1>14. ASSUME NEW x \in Exits, GateAwaitCommand(x)
      PROVE  ExitInv(y)'
  BY <1>14 DEF GateAwaitCommand
<1>15. ASSUME NEW x \in Exits, GateDispatch(x)
      PROVE  ExitInv(y)'
  BY <1>15 DEF GateDispatch
<1>16. ASSUME NEW x \in Exits, GateOpened(x)
      PROVE  ExitInv(y)'
  BY <1>16 DEF GateOpened, GateReports
<1>17. ASSUME NEW x \in Exits, GateClosed(x)
      PROVE  ExitInv(y)'
  BY <1>17 DEF GateClosed, GateReports
<1>18. CASE UNCHANGED vars
  BY <1>18 DEF vars
<1>19. QED
  BY <1>0a, <1>1, <1>2, <1>3, <1>4, <1>5, <1>6, <1>7, <1>8, <1>9, <1>10, <1>11,
     <1>12, <1>13, <1>14, <1>15, <1>16, <1>17, <1>18
  DEF Next, ManThread, GateThread

\* A car stays where it is held: until it is reset, or another car takes its
\* place and it is no longer alone.
LEMMA NextLoneInv ==
  IInv /\ LoneInv /\ (\A x \in Exits : ExitInv(x)) /\ [Next]_vars => LoneInv'
<1> SUFFICES ASSUME IInv, LoneInv, \A x \in Exits : ExitInv(x), [Next]_vars
             PROVE  LoneInv'
  OBVIOUS
<1>a. alone' \subseteq Plates
  <2>1. TypeOK'
    BY NextTypeOK DEF IInv
  <2>2. QED
    BY <2>1 DEF TypeOK
<1> SUFFICES ASSUME NEW p \in Plates, p \in alone', p \notin late', Timed(p)'
             PROVE  \E x \in Exits : HeldAt(p, x)'
  BY <1>a DEF LoneInv
<1>0. TypeOK /\ PlateInv /\ p # NoPlate
  BY ExitGateAssumption DEF IInv
<1> USE <1>0 DEF Goto, carVars, billVars, monVars
<1>1. ASSUME UNCHANGED <<alone, late, untimed, timed>>,
             \A x \in Exits : HeldAt(p, x) => HeldAt(p, x)'
      PROVE  \E x \in Exits : HeldAt(p, x)'
  BY <1>1 DEF LoneInv, Timed, ToTime
<1>2. ASSUME NEW q \in Plates, NEW e \in Entrances, CarEnters(q, e)
      PROVE  \E x \in Exits : HeldAt(p, x)'
  <2>1. p # q /\ p \in alone /\ p \notin late
    BY <1>2 DEF CarEnters
  <2>2. Timed(p)
    BY <1>2, <2>1, EntersTimed
  <2>3. UNCHANGED <<exit_lpr, mon_pc, mon_cars>>
    BY <1>2 DEF CarEnters
  <2>4. QED
    BY <2>1, <2>2, <2>3 DEF LoneInv, HeldAt
<1>2a. ASSUME NEW e \in Entrances, ManStartTime(e)
       PROVE  \E x \in Exits : HeldAt(p, x)'
  <2>1. Timed(p)
    BY <1>2a, StartTimeTimed
  <2>2. UNCHANGED <<alone, late, exit_lpr, mon_pc, mon_cars>>
    BY <1>2a DEF ManStartTime
  <2>3. QED
    BY <2>1, <2>2 DEF LoneInv, HeldAt
<1>3. ASSUME NEW q \in Plates, NEW x \in Exits, CarExits(q, x)
      PROVE  \E z \in Exits : HeldAt(p, z)'
  <2>1. CASE p = q /\ exit_lpr[x] = NoPlate
    <3>1. mon_pc'[x] = "await" /\ exit_lpr'[x] = p
      BY <1>3, <2>1 DEF TypeOK, PlateInv, CarExits
    <3>2. QED
      BY <3>1 DEF HeldAt
  <2>2. CASE ~(p = q /\ exit_lpr[x] = NoPlate)
    <3>1. p \in alone /\ p # exit_lpr[x] /\ p \notin late /\ Timed(p)
      BY <1>3, <2>2 DEF CarExits, Timed, ToTime
    <3>2. PICK z \in Exits : HeldAt(p, z)
      BY <1>3, <3>1 DEF LoneInv, CarExits
    <3>3. z # x
      BY <3>1, <3>2 DEF HeldAt
    <3>4. HeldAt(p, z)'
      BY <1>3, <3>2, <3>3 DEF HeldAt, CarExits, TypeOK
    <3>5. QED
      BY <3>4
  <2>3. QED
    BY <2>1, <2>2
<1>4. ASSUME NEW x \in Exits, ManAwaitPlate(x) \/ ManCheckAlarm(x) \/ ManRaise(x)
      PROVE  \E z \in Exits : HeldAt(p, z)'
  BY <1>1, <1>4 DEF ManAwaitPlate, ManCheckAlarm, ManRaise, HeldAt, TypeOK
<1>5. ASSUME NEW x \in Exits, ManAwaitOpened(x) \/ ManAwaitClosed(x)
      PROVE  \E z \in Exits : HeldAt(p, z)'
  BY <1>1, <1>5 DEF ManAwaitOpened, ManAwaitClosed, ManAwaitGate, HeldAt, TypeOK
<1>6. ASSUME NEW x \in Exits, ManCheckOpened(x)
      PROVE  \E z \in Exits : HeldAt(p, z)'
  <2>1. mon_pc[x] = "check" /\ status[x] = BG_OPENED
    BY <1>6 DEF ManCheckOpened, ExitInv, ManInv
  <2>2. mon_pc' = [mon_pc EXCEPT ![x] = "find"]
    BY <1>6, <2>1 DEF ManCheckOpened
  <2>3. QED
    BY <1>1, <1>6, <2>2 DEF ManCheckOpened, HeldAt, TypeOK
<1>7. ASSUME NEW x \in Exits, ManFind(x) \/ ManCalcBill(x)
      PROVE  \E z \in Exits : HeldAt(p, z)'
  BY <1>1, <1>7 DEF ManFind, ManCalcBill, HeldAt, TypeOK
<1>8. ASSUME NEW x \in Exits, ManReset(x)
      PROVE  \E z \in Exits : HeldAt(p, z)'
  <2>1. p \in alone /\ p \notin late /\ Timed(p) /\ p \notin mon_cars[x]
    BY <1>8 DEF ManReset, Timed, ToTime
  <2>2. PICK z \in Exits : HeldAt(p, z)
    BY <2>1 DEF LoneInv
  <2>3. z # x
    BY <1>8, <2>1, <2>2 DEF HeldAt, ManReset
  <2>4. HeldAt(p, z)'
    BY <1>8, <2>2, <2>3 DEF HeldAt, ManReset, TypeOK
  <2>5. QED
    BY <2>4
<1>9. ASSUME NEW x \in Exits, ManLower(x) \/ ManNotify(x) \/ ManClearLPR(x)
      PROVE  \E z \in Exits : HeldAt(p, z)'
  BY <1>1, <1>9 DEF ManLower, ManNotify, ManClearLPR, HeldAt, TypeOK
<1>10. ASSUME NEW x \in Exits, GateThread(x)
       PROVE  \E z \in Exits : HeldAt(p, z)'
  BY <1>1, <1>10
  DEF GateThread, GateAwaitCommand, GateDispatch, GateOpened, GateClosed,
      GateReports, HeldAt
<1>11. CASE UNCHANGED vars
  BY <1>1, <1>11 DEF vars, HeldAt
<1>12. QED
  BY <1>2, <1>2a, <1>3, <1>4, <1>5, <1>6, <1>7, <1>8, <1>9, <1>10, <1>11
  DEF Next, Car, ManThread

LEMMA NextLoneIInv == LoneIInv /\ [Next]_vars => LoneIInv'
<1> SUFFICES ASSUME LoneIInv, [Next]_vars
             PROVE  LoneIInv'
  OBVIOUS
<1>1. IInv' /\ LoneInv'
  BY NextIInv, NextLoneInv DEF LoneIInv
<1>2. \A x \in Exits : ExitInv(x)'
  BY NextExitInv DEF LoneIInv, IInv
<1>3. QED
  BY <1>1, <1>2 DEF LoneIInv

LEMMA LoneIInvReset == LoneIInv => LoneCarIsReset
<1> SUFFICES ASSUME LoneIInv, NEW p \in (alone \cap timed) \ late
             PROVE  Unsettled(p)
  BY DEF LoneCarIsReset
<1>1. PICK x \in Exits : HeldAt(p, x)
  BY DEF LoneIInv, LoneInv, Timed
<1>2. QED
  BY <1>1 DEF HeldAt, Unsettled

\* Every step of the exits is a step of the boom gates, or leaves every gate
\* as it is.
LEMMA NextGates == LoneIInv /\ [Next]_vars => [Gates!Next]_status
<1> SUFFICES ASSUME LoneIInv, [Next]_vars
             PROVE  [Gates!Next]_status
  OBVIOUS
<1>0. /\ \A x \in Exits : GateInv(x) /\ ManInv(x)
      /\ status \in [Exits -> {BG_RAISING, BG_OPENED, BG_LOWERING, BG_CLOSED}]
  BY DEF LoneIInv, ExitInv, IInv, TypeOK
<1> USE DEF carVars, monVars, billVars, Goto
<1> DEFINE Moves(x, from, to) == /\ status[x] = from
                                 /\ status' = [status EXCEPT ![x] = to]
<1>1. ASSUME NEW x \in Exits, ManRaise(x)
      PROVE  Moves(x, BG_CLOSED, BG_RAISING)
  BY <1>0, <1>1 DEF ManRaise, ManInv
<1>2. ASSUME NEW x \in Exits, ManLower(x)
      PROVE  Moves(x, BG_OPENED, BG_LOWERING)
  BY <1>0, <1>2 DEF ManLower, ManInv
<1>3. ASSUME NEW x \in Exits, GateOpened(x)
      PROVE  Moves(x, BG_RAISING, BG_OPENED)
  <2>1. gate_pc[x] = "opening" /\ status' = [status EXCEPT ![x] = BG_OPENED]
    BY <1>3 DEF GateOpened, GateReports
  <2>2. status[x] = BG_RAISING
    BY <1>0, <2>1 DEF GateInv, BG_RAISING, BG_OPENED, BG_LOWERING, BG_CLOSED
  <2>3. QED
    BY <2>1, <2>2
<1>4. ASSUME NEW x \in Exits, GateClosed(x)
      PROVE  Moves(x, BG_LOWERING, BG_CLOSED)
  <2>1. gate_pc[x] = "closing" /\ status' = [status EXCEPT ![x] = BG_CLOSED]
    BY <1>4 DEF GateClosed, GateReports
  <2>2. status[x] = BG_LOWERING
    BY <1>0, <2>1 DEF GateInv, BG_RAISING, BG_OPENED, BG_LOWERING, BG_CLOSED
  <2>3. QED
    BY <2>1, <2>2
<1>5. ASSUME NEW x \in Exits,
             \/ Moves(x, BG_CLOSED, BG_RAISING) \/ Moves(x, BG_RAISING, BG_OPENED)
             \/ Moves(x, BG_OPENED, BG_LOWERING) \/ Moves(x, BG_LOWERING, BG_CLOSED)
      PROVE  Gates!Next
  BY <1>5 DEF Gates!Next, Gates!Raise, Gates!Opened, Gates!Lower, Gates!Closed,
      Gates!Moves, Gates!BG_RAISING, Gates!BG_OPENED, Gates!BG_LOWERING,
      Gates!BG_CLOSED, BG_RAISING, BG_OPENED, BG_LOWERING, BG_CLOSED
<1>6. ASSUME NEW x \in Exits, ManThread(x), ~ManRaise(x), ~ManLower(x)
      PROVE  UNCHANGED status
  BY <1>6 DEF ManThread, ManAwaitPlate, ManCheckAlarm, ManAwaitOpened,
              ManAwaitClosed, ManAwaitGate, ManCheckOpened, ManFind, ManCalcBill,
              ManReset, ManNotify, ManClearLPR
<1>7. ASSUME NEW x \in Exits, GateThread(x), ~GateOpened(x), ~GateClosed(x)
      PROVE  UNCHANGED status
  BY <1>7 DEF GateThread, GateAwaitCommand, GateDispatch
<1>8a. ASSUME NEW e \in Entrances, ManStartTime(e)
       PROVE  UNCHANGED status
  BY <1>8a DEF ManStartTime
<1>8. ASSUME NEW p \in Plates, Car(p)
      PROVE  UNCHANGED status
  BY <1>8 DEF Car, CarEnters, CarExits
<1>9. CASE UNCHANGED vars
  BY <1>9 DEF vars
<1> HIDE DEF Moves
<1>10. ASSUME NEW x \in Exits, ManThread(x) \/ GateThread(x)
       PROVE  [Gates!Next]_status
  BY <1>1, <1>2, <1>3, <1>4, <1>5, <1>6, <1>7, <1>10, Zenon
<1>11. QED
  BY <1>8, <1>8a, <1>9, <1>10 DEF Next

\* A car that finds the LPR of its exit clear, and whose plate no other car
\* overwrites there, is reset before the exit is done with it, if it has been
\* timed by then.
THEOREM ExitGateLoneCarIsReset == Spec => []LoneCarIsReset
  BY InitLoneIInv, NextLoneIInv, LoneIInvReset, PTL DEF Spec

\* The exits implement the safety part of the specification of the boom gates.
THEOREM ExitGateGateProtocol == Spec => Gates!Init /\ [][Gates!Next]_status
<1>1. Init => Gates!Init
  BY DEF Init, Gates!Init, BG_CLOSED, Gates!BG_CLOSED
<1>2. QED
  BY <1>1, InitLoneIInv, NextLoneIInv, NextGates, PTL DEF Spec

-----------------------------------------------------------------------------
(* What a stay is charged for                                              *)

\* The integer arithmetic of billing.c:32, with its 5 / 2 of 2, rounds to the
\* nearest multiple of 5: a stay is charged for at most 2 ms too much or too
\* little, and the sum fits an int for every stay up to 2 ms below INT_MAX.
THEOREM RoundedIsNearest ==
  ASSUME NEW delta_ms \in Nat
  PROVE  /\ Rounded(delta_ms) \in Nat
         /\ Rounded(delta_ms) % 5 = 0
         /\ Rounded(delta_ms) <= delta_ms + 2
         /\ delta_ms <= Rounded(delta_ms) + 2
         /\ delta_ms <= INT_MAX - 2 => Rounded(delta_ms) <= INT_MAX
<1> DEFINE q == (delta_ms + 2) \div 5
<1>1. Rounded(delta_ms) = q * 5
  BY DEF Rounded, Quotient
<1>2. q \in Nat /\ 5 * q <= delta_ms + 2 /\ delta_ms + 2 <= 5 * q + 4
  OBVIOUS
<1>3. (q * 5) % 5 = 0
  BY <1>2
<1>4. QED
  BY <1>1, <1>2, <1>3 DEF INT_MAX

\* A longer stay is never cheaper, to the microsecond, and no stay is billed
\* less than nothing - as long as its milliseconds, and the 2 that rounding
\* adds, fit an int: 24 days.
THEOREM BillIsMonotone ==
  ASSUME NEW entry_time \in Nat, NEW exit_time \in Nat, NEW later \in Nat,
         entry_time <= exit_time, exit_time <= later,
         Millis(entry_time, later) <= INT_MAX - 2
  PROVE  /\ 0 <= BillOf(DeltaMs(entry_time, exit_time))
         /\ BillOf(DeltaMs(entry_time, exit_time)) <= BillOf(DeltaMs(entry_time, later))
<1> DEFINE d == Millis(entry_time, exit_time)
           e == Millis(entry_time, later)
<1>1. d \in Nat /\ e \in Nat /\ d <= e
  BY DEF Millis
<1> HIDE DEF d, e
<1>2. (d + 2) \div 5 \in Nat /\ (e + 2) \div 5 \in Nat
      /\ (d + 2) \div 5 <= (e + 2) \div 5
  BY <1>1
<1>3. /\ BillOf(d) = ((d + 2) \div 5) * 25
      /\ BillOf(e) = ((e + 2) \div 5) * 25
  BY <1>1, <1>2 DEF BillOf, Rounded, Quotient
<1>4. DeltaMs(entry_time, exit_time) = d /\ DeltaMs(entry_time, later) = e
  <2>1. d <= INT_MAX /\ e <= INT_MAX
    BY <1>1 DEF INT_MAX, e
  <2>2. QED
    BY <2>1 DEF DeltaMs, d, e
<1>5. QED
  BY <1>2, <1>3, <1>4

\* The bound is needed: past it the conversion to int gives INT_MIN, and the
\* manager pays for the stay.
THEOREM LongStayIsPaidFor ==
  ASSUME NEW entry_time \in Nat, NEW exit_time \in Nat,
         Millis(entry_time, exit_time) > INT_MAX
  PROVE  BillOf(DeltaMs(entry_time, exit_time)) < 0
<1>1. Millis(entry_time, exit_time) \in Int
  BY DEF Millis
<1>2. DeltaMs(entry_time, exit_time) = -2147483648
  BY <1>1 DEF DeltaMs, INT_MIN, INT_MAX
<1>3. Rounded(-2147483648) = -2147483645
  <2>1. Quotient(5, 2) = 2
    BY DEF Quotient
  <2>2. Quotient(-2147483646, 5) = -429496729
    BY DEF Quotient
  <2>3. QED
    BY <2>1, <2>2 DEF Rounded
<1>4. QED
  BY <1>2, <1>3 DEF BillOf

=============================================================================
