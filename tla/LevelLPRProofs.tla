--------------------------- MODULE LevelLPRProofs ---------------------------
(***************************************************************************)
(* What holds of the counters and of the plate readers for every number of *)
(* levels, spots, plates and visits.  The counters: never negative, a flag *)
(* that is never stale, the lowest free level.  The readers: the types,    *)
(* that they use the counters as the module Capacity says, that every      *)
(* trigger of a car that is not confused is taken for what it is, and that *)
(* the counters are exact while no car is.                                 *)
(***************************************************************************)
EXTENDS LevelLPR, FiniteSetTheorems, WellFoundedInduction, TLAPS

-----------------------------------------------------------------------------
(* The counters alone: every number of levels, every level size and every  *)
(* order of calls.                                                         *)

\* A non-empty set of natural numbers has a least element.
LEMMA LeastElement ==
  ASSUME NEW S, S \subseteq Nat, S # {}
  PROVE  \E m \in S : \A k \in S : m <= k
<1> DEFINE R == OpToRel(<, Nat)
<1>1. PICK m \in S : \A k \in S : ~ (<<k, m>> \in R)
  <2> HIDE DEF R
  <2>1. IsWellFoundedOn(R, Nat)
    BY NatLessThanWellFounded DEF R
  <2>2. QED
    BY <2>1, WFMin
<1>2. \A k \in S : ~ (k < m)
  BY <1>1 DEF OpToRel
<1>3. QED
  BY <1>2

\* The scan loop of get_empty_spot returns the lowest level with room, and 0
\* only when no level has any.
LEMMA ScanLevelsCorrect ==
  ASSUME NEW curr \in [Level -> Nat]
  PROVE  /\ FreeLevels(curr) = {} <=> ScanLevels(curr) = 0
         /\ FreeLevels(curr) # {} =>
              /\ ScanLevels(curr) \in FreeLevels(curr)
              /\ \A k \in FreeLevels(curr) : ScanLevels(curr) <= k
<1>1. FreeLevels(curr) \subseteq Nat \ {0}
  BY CapacityAssumption DEF FreeLevels, Level
<1>2. CASE FreeLevels(curr) = {}
  BY <1>2 DEF ScanLevels
<1>3. CASE FreeLevels(curr) # {}
  <2>1. PICK m \in FreeLevels(curr) : \A k \in FreeLevels(curr) : m <= k
    BY <1>1, <1>3, LeastElement
  <2>2. /\ ScanLevels(curr) \in FreeLevels(curr)
        /\ \A k \in FreeLevels(curr) : ScanLevels(curr) <= k
    BY <1>3, <2>1 DEF ScanLevels
  <2>3. QED
    BY <1>1, <1>3, <2>2
<1>4. QED
  BY <1>2, <1>3

\* The inductive invariant: the types and the freshness of the flag.
IInv == TypeOK /\ FullNotStale

LEMMA InitIInv == Init => IInv
<1> SUFFICES ASSUME Init
             PROVE  IInv
  OBVIOUS
<1>1. curr_capacity \in [Level -> Nat]
  BY DEF Init
<1>2. full \in BOOLEAN /\ ~full
  BY Zenon DEF Init
<1>3. QED
  BY <1>1, <1>2, Zenon DEF IInv, TypeOK, FullNotStale

LEMMA NextIInv == IInv /\ [Next]_vars => IInv'
<1> SUFFICES ASSUME IInv, [Next]_vars
             PROVE  IInv'
  OBVIOUS
<1> USE DEF IInv
<1>1. ASSUME GetEmptySpot
      PROVE  IInv'
  <2>1. TypeOK'
    BY <1>1 DEF GetEmptySpot, TypeOK
  <2>2. FullNotStale'
    BY <1>1, ScanLevelsCorrect
    DEF GetEmptySpot, TypeOK, FullNotStale, EmptySpot
  <2>3. QED
    BY <2>1, <2>2
<1>2. ASSUME NEW l \in Level, SetCapacity(l)
      PROVE  IInv'
  <2>1. TypeOK'
    <3>1. CASE full
      BY <1>2, <3>1 DEF SetCapacity, TypeOK, vars
    <3>2. CASE ~full
      <4>1. /\ curr_capacity' = [curr_capacity EXCEPT ![l] = @ + 1]
            /\ full' \in BOOLEAN
        BY <1>2, <3>2, Zenon DEF SetCapacity
      <4>2. curr_capacity' \in [Level -> Nat]
        BY <4>1 DEF TypeOK
      <4>3. QED
        BY <4>1, <4>2 DEF TypeOK
    <3>3. QED
      BY <3>1, <3>2
  <2>2. FullNotStale'
    BY <1>2, <2>1, ScanLevelsCorrect
    DEF SetCapacity, TypeOK, FullNotStale, vars
  <2>3. QED
    BY <2>1, <2>2
<1>3. ASSUME NEW l \in Level, FreeCarparkSpace(l)
      PROVE  IInv'
  <2>1. curr_capacity' \in [Level -> Nat]
    BY <1>3 DEF FreeCarparkSpace, TypeOK
  <2>2. full' \in BOOLEAN /\ ~full'
    BY <1>3, Zenon DEF FreeCarparkSpace
  <2>3. QED
    BY <2>1, <2>2, Zenon DEF TypeOK, FullNotStale
<1>4. CASE UNCHANGED vars
  BY <1>4 DEF vars, TypeOK, FullNotStale
<1>5. QED
  BY <1>1, <1>2, <1>3, <1>4 DEF Next

\* Every reachable state is well typed: no counter of the manager is ever
\* negative, whatever order the monitors call in.
THEOREM CapacityTypeOK == Spec => []TypeOK
<1>1. IInv => TypeOK
  BY DEF IInv
<1>2. QED
  BY <1>1, InitIInv, NextIInv, PTL DEF Spec

\* The cached flag that get_empty_spot trusts is never stale.
THEOREM CapacityFullNotStale == Spec => []FullNotStale
<1>1. IInv => FullNotStale
  BY DEF IInv
<1>2. QED
  BY <1>1, InitIInv, NextIInv, PTL DEF Spec

\* get_empty_spot answers with the lowest level that has room, and with 0
\* exactly when there is none, although it may answer without looking.
THEOREM CapacitySpotIsLowestFree == Spec => []SpotIsLowestFree
<1>1. ASSUME IInv
      PROVE  SpotIsLowestFree
  <2>1. EmptySpot = ScanLevels(curr_capacity)
    BY <1>1, ScanLevelsCorrect DEF IInv, TypeOK, FullNotStale, EmptySpot
  <2>2. FreeLevels(curr_capacity) \subseteq Level
    BY DEF FreeLevels
  <2>3. EmptySpot = 0 <=> \A l \in Level : ~HasRoom(curr_capacity, l)
    BY <1>1, <2>1, ScanLevelsCorrect DEF IInv, TypeOK, FreeLevels
  <2>4. ASSUME EmptySpot # 0
        PROVE  /\ HasRoom(curr_capacity, EmptySpot)
               /\ \A l \in 1 .. (EmptySpot - 1) : ~HasRoom(curr_capacity, l)
    <3>1. /\ EmptySpot \in FreeLevels(curr_capacity)
          /\ \A k \in FreeLevels(curr_capacity) : EmptySpot <= k
      BY <1>1, <2>1, <2>4, ScanLevelsCorrect DEF IInv, TypeOK
    <3>2. ASSUME NEW l \in 1 .. (EmptySpot - 1)
          PROVE  ~HasRoom(curr_capacity, l)
      <4>1. EmptySpot \in Int /\ l \in Level /\ l < EmptySpot
        BY <2>2, <3>1, <3>2, CapacityAssumption DEF Level
      <4>2. l \notin FreeLevels(curr_capacity)
        BY <3>1, <4>1, CapacityAssumption DEF Level
      <4>3. QED
        BY <4>1, <4>2 DEF FreeLevels
    <3>3. QED
      BY <3>1, <3>2 DEF FreeLevels
  <2>5. QED
    BY <2>3, <2>4 DEF SpotIsLowestFree
<1>2. QED
  BY <1>1, InitIInv, NextIInv, PTL DEF Spec

-----------------------------------------------------------------------------
(* The plate readers                                                       *)


\* The monitor has a car from the lookup to the clearing, and only it clears
\* the reader.
MonInv(l) ==
  /\ mon_pc[l] \in {"await", "lookup"} <=> mon_car[l] = NoPlate
  /\ mon_pc[l] # "await" => level_lpr[l] # NoPlate

\* A car that is not confused is dealt with on its own level only.
PlaceInv(p) == \A l \in Level : level_lpr[l] = p \/ mon_car[l] = p => l = actual_lvl[p]

\* The manager has let p in, and its next trigger is one on the way in ...
GoingIn(p) == ToMark(p) \/ entered[p]
\* ... or it has counted p in, and its next trigger is one on the way out.
GoingOut(p) == ~ToMark(p) /\ ~entered[p]

AtReader(p)   == level_lpr[actual_lvl[p]] = p
AtMonitor(p)  == mon_car[actual_lvl[p]] = p
MonitorPc(p)  == mon_pc[actual_lvl[p]]

\* One visit of a car that is not confused.
VisitInv(p) ==
  /\ car_pc[p] \in {"await1", "trigger1"} => ~AtReader(p) /\ ~AtMonitor(p) /\ GoingIn(p)
  /\ OnLevel(p) =>
       /\ ~AtMonitor(p) => IF AtReader(p) THEN GoingIn(p) ELSE GoingOut(p)
       /\ AtMonitor(p) =>
            /\ MonitorPc(p) # "out"
            /\ MonitorPc(p) = "test" => GoingIn(p)
            /\ MonitorPc(p) \in {"in", "mark"} => ~ToMark(p)
            /\ MonitorPc(p) = "clear" => GoingOut(p)
       /\ car_pc[p] = "trigger2" => ~AtReader(p) /\ ~AtMonitor(p)
  /\ car_pc[p] = "outside" =>
       GoingOut(p) /\ (AtMonitor(p) => MonitorPc(p) \notin {"in", "mark"})

\* The cars whose last counted trigger on l was the one on their way in.
Counted(l) == {p \in Plates : actual_lvl[p] = l /\ (OnLevel(p) <=> ~Uncounted(p, l))}

VisitsInv ==
  /\ \A l \in Level : MonInv(l)
  /\ \A p \in Plates \ confused : PlaceInv(p) /\ VisitInv(p)
  /\ exact => confused = {}

LprInv == LprTypeOK /\ VisitsInv

-----------------------------------------------------------------------------

\* The monitors and the entrances use the counters through capacity.c only.
LEMMA LprImplementsCapacity == [LprNext]_lprVars => [Next]_vars
<1> USE DEF capVars, vars
<1>1. ASSUME NEW p \in Plates, NEW e \in Entrances, NEW l \in Level, AdmitCar(p, e, l)
      PROVE  Next
  BY <1>1 DEF AdmitCar, Next
<1>2. ASSUME TurnAway
      PROVE  Next
  BY <1>2 DEF TurnAway, Next
<1>3. ASSUME NEW p \in Plates, CarThread(p)
      PROVE  UNCHANGED vars
  BY <1>3 DEF CarThread, CarAwaitIn, CarAwaitOut, CarAwait, CarTriggerIn,
              CarTriggerOut, CarTrigger
<1>4. ASSUME NEW e \in Entrances, MarkEntered(e)
      PROVE  UNCHANGED vars
  BY <1>4 DEF MarkEntered
<1>5. ASSUME NEW l \in Level, MonThread(l)
      PROVE  Next \/ UNCHANGED vars
  BY <1>5 DEF MonThread, MonAwait, MonLookup, MonTest, MonCountIn, MonMark,
              MonCountOut, MonClear, Next
<1>6. CASE UNCHANGED lprVars
  BY <1>6 DEF lprVars
<1>7. QED
  BY <1>1, <1>2, <1>3, <1>4, <1>5, <1>6 DEF LprNext

LEMMA InitLprInv == LprInit => LprInv
<1> SUFFICES ASSUME LprInit
             PROVE  LprInv
  OBVIOUS
<1>1. LprTypeOK
  BY CapacityAssumption, LevelLPRAssumption DEF LprInit, LprTypeOK, Level
<1>2. VisitsInv
  BY CapacityAssumption, LevelLPRAssumption
  DEF LprInit, VisitsInv, MonInv, PlaceInv, VisitInv, OnLevel, GoingOut,
      ToMark, AtReader, AtMonitor, MonitorPc, Level
<1>3. QED
  BY <1>1, <1>2 DEF LprInv

LEMMA NextLprTypeOK == LprInv /\ [LprNext]_lprVars => LprTypeOK'
<1> SUFFICES ASSUME LprInv, [LprNext]_lprVars
             PROVE  LprTypeOK'
  OBVIOUS
<1> USE LevelLPRAssumption
    DEF LprInv, LprTypeOK, carVars, monVars, markVars, ghosts, Mon
<1>1. ASSUME NEW p \in Plates, NEW e \in Entrances, NEW l \in Level, AdmitCar(p, e, l)
      PROVE  LprTypeOK'
  <2>1. confused' \subseteq Plates
    BY <1>1 DEF AdmitCar, Comes
  <2>2. exact' \in BOOLEAN
    BY <1>1, Zenon DEF AdmitCar, Comes
  <2>3. QED
    BY <1>1, <2>1, <2>2 DEF AdmitCar, CarGoto
<1>2. ASSUME TurnAway
      PROVE  LprTypeOK'
  BY <1>2 DEF TurnAway
<1>3. ASSUME NEW p \in Plates, CarAwaitIn(p) \/ CarAwaitOut(p)
      PROVE  LprTypeOK'
  BY <1>3 DEF CarAwaitIn, CarAwaitOut, CarAwait, CarGoto, Wait
<1>4. ASSUME NEW p \in Plates, CarTriggerIn(p) \/ CarTriggerOut(p)
      PROVE  LprTypeOK'
  <2>1. confused' \subseteq Plates /\ exact' \in BOOLEAN
    BY <1>4 DEF CarTriggerIn, CarTriggerOut, CarTrigger, Confuses
  <2>2. QED
    BY <1>4, <2>1 DEF CarTriggerIn, CarTriggerOut, CarTrigger, CarGoto, Broadcast
<1>5. ASSUME NEW e \in Entrances, MarkEntered(e)
      PROVE  LprTypeOK'
  BY <1>5 DEF MarkEntered
<1>6. ASSUME NEW l \in Level, MonAwait(l)
      PROVE  LprTypeOK'
  BY <1>6 DEF MonAwait, MonGoto, Wait
<1>7. ASSUME NEW l \in Level, MonLookup(l)
      PROVE  LprTypeOK'
  BY <1>7 DEF MonLookup, MonGoto
<1>8. ASSUME NEW l \in Level, MonTest(l)
      PROVE  LprTypeOK'
  <2>1. confused' \subseteq Plates /\ exact' \in BOOLEAN
    BY <1>8 DEF MonTest, MonGoto, Confuses, VisitsInv, MonInv
  <2>2. QED
    BY <1>8, <2>1 DEF MonTest, MonGoto
<1>9. ASSUME NEW l \in Level, MonCountIn(l) \/ MonCountOut(l)
      PROVE  LprTypeOK'
  <2>1. exact' \in BOOLEAN
    BY <1>9, Zenon DEF MonCountIn, MonCountOut
  <2>2. QED
    BY <1>9, <2>1 DEF MonCountIn, MonCountOut, MonGoto
<1>10. ASSUME NEW l \in Level, MonMark(l)
       PROVE  LprTypeOK'
  BY <1>10 DEF MonMark, MonGoto
<1>11. ASSUME NEW l \in Level, MonClear(l)
       PROVE  LprTypeOK'
  <2>1. level_lpr[l] # NoPlate
    BY <1>11 DEF MonClear, MonGoto, VisitsInv, MonInv
  <2>2. confused' \subseteq Plates /\ exact' \in BOOLEAN
    BY <1>11, <2>1 DEF MonClear, Confuses
  <2>3. QED
    BY <1>11, <2>2 DEF MonClear, MonGoto, Broadcast
<1>12. CASE UNCHANGED lprVars
  BY <1>12 DEF lprVars
<1>13. QED
  BY <1>1, <1>2, <1>3, <1>4, <1>5, <1>6, <1>7, <1>8, <1>9, <1>10, <1>11, <1>12
  DEF LprNext, CarThread, MonThread

-----------------------------------------------------------------------------

\* One step of any thread keeps every visit in order.
LEMMA NextVisitsInv == LprInv /\ [LprNext]_lprVars => VisitsInv'
<1> SUFFICES ASSUME LprInv, [LprNext]_lprVars
             PROVE  VisitsInv'
  OBVIOUS
<1>t. /\ car_pc \in [Plates -> {"outside", "await1", "trigger1", "await2", "trigger2"}]
      /\ actual_lvl \in [Plates -> Level]
      /\ level_lpr \in [Level -> Plates \cup {NoPlate}]
      /\ mon_pc \in [Level -> {"await", "lookup", "test", "in", "mark", "out", "clear"}]
      /\ mon_car \in [Level -> Plates \cup {NoPlate}]
      /\ entered \in [Plates -> BOOLEAN]
      /\ unmarked \in [Entrances -> Plates \cup {NoPlate}]
      /\ exact \in BOOLEAN
      /\ NoPlate \notin Plates
  BY LevelLPRAssumption DEF LprInv, LprTypeOK
<1>v. /\ \A l \in Level : MonInv(l)
      /\ \A p \in Plates \ confused : PlaceInv(p) /\ VisitInv(p)
      /\ exact => confused = {}
  BY DEF LprInv, VisitsInv
<1> USE DEF carVars, monVars, markVars, ghosts, CarGoto, MonGoto, Confuses
<1>1. ASSUME NEW p \in Plates, NEW e \in Entrances, NEW l \in Level, AdmitCar(p, e, l)
      PROVE  VisitsInv'
  <2>1. \A k \in Level : MonInv(k)'
    BY <1>1, <1>v DEF AdmitCar, MonInv
  <2>2. /\ confused' = IF DealtWith(p) THEN confused \ {p} ELSE confused \cup {p}
        /\ exact' = (exact /\ DealtWith(p))
    BY <1>1 DEF AdmitCar, Comes
  <2>3. ASSUME p \notin confused'
        PROVE  PlaceInv(p)' /\ VisitInv(p)'
    <3>1. \A k \in Level : level_lpr'[k] # p /\ mon_car'[k] # p
      BY <1>1, <2>2, <2>3 DEF AdmitCar, DealtWith
    <3>2. car_pc'[p] = "await1" /\ ToMark(p)' /\ actual_lvl'[p] \in Level
      BY <1>1, <1>t DEF AdmitCar, ToMark
    <3>3. QED
      BY <3>1, <3>2
      DEF PlaceInv, VisitInv, OnLevel, GoingIn, AtReader, AtMonitor
  <2>4. ASSUME NEW q \in Plates \ confused, q # p
        PROVE  PlaceInv(q)' /\ VisitInv(q)'
    <3>1. ToMark(q)' <=> ToMark(q)
      BY <1>1, <1>t, <2>4 DEF AdmitCar, ToMark
    <3>2. QED
      BY <1>1, <1>t, <1>v, <2>4, <3>1
      DEF AdmitCar, PlaceInv, VisitInv, OnLevel, GoingIn, GoingOut, AtReader, AtMonitor,
          MonitorPc
  <2>5. \A q \in Plates \ confused' : q # p => q \in Plates \ confused
    BY <2>2
  <2>6. exact' => confused' = {}
    BY <1>v, <2>2
  <2>7. QED
    BY <2>1, <2>3, <2>4, <2>5, <2>6 DEF VisitsInv
<1>2. ASSUME TurnAway
      PROVE  VisitsInv'
  BY <1>2, <1>v
  DEF TurnAway, VisitsInv, MonInv, PlaceInv, VisitInv, OnLevel, GoingIn, GoingOut, ToMark,
      AtReader, AtMonitor, MonitorPc
<1>3. ASSUME NEW p \in Plates, CarAwaitIn(p) \/ CarAwaitOut(p)
      PROVE  VisitsInv'
  <2> USE DEF CarAwaitIn, CarAwaitOut, CarAwait
  <2>1. UNCHANGED <<actual_lvl, level_lpr, monVars, markVars, ghosts>>
    BY <1>3
  <2>2. (\A k \in Level : MonInv(k)') /\ (\A q \in Plates \ confused' : PlaceInv(q)')
    BY <1>v, <2>1 DEF MonInv, PlaceInv
  <2>3. ASSUME NEW q \in Plates \ confused, q # p
        PROVE  VisitInv(q)'
    BY <1>3, <1>t, <1>v, <2>1, <2>3
    DEF VisitInv, OnLevel, GoingIn, GoingOut, ToMark, AtReader, AtMonitor, MonitorPc
  <2>4. ASSUME p \notin confused
        PROVE  VisitInv(p)'
    <3>1. VisitInv(p) /\ MonInv(actual_lvl[p])
      BY <1>t, <1>v, <2>4
    <3>2. level_lpr[actual_lvl[p]] = NoPlate => ~AtReader(p) /\ ~AtMonitor(p)
      BY <1>t, <3>1 DEF MonInv, AtReader, AtMonitor
    <3>3. QED
      BY <1>3, <1>t, <2>1, <3>1, <3>2
      DEF VisitInv, OnLevel, GoingIn, GoingOut, ToMark, AtReader, AtMonitor, MonitorPc
  <2>5. QED
    BY <1>v, <2>1, <2>2, <2>3, <2>4 DEF VisitsInv
<1>4. ASSUME NEW p \in Plates, CarTriggerIn(p) \/ CarTriggerOut(p)
      PROVE  VisitsInv'
  <2> DEFINE l == actual_lvl[p]
  <2> USE DEF CarTriggerIn, CarTriggerOut, CarTrigger
  <2>1. /\ UNCHANGED <<actual_lvl, monVars, markVars>>
        /\ level_lpr' = [level_lpr EXCEPT ![l] = p]
        /\ confused' = confused \cup ({level_lpr[l]} \ {NoPlate, mon_car[l]})
    BY <1>4
  <2>2. (\A k \in Level : MonInv(k)') /\ (\A q \in Plates \ confused' : PlaceInv(q)')
    BY <1>t, <1>v, <2>1 DEF MonInv, PlaceInv
  <2>3. ASSUME NEW q \in Plates \ confused', q # p
        PROVE  VisitInv(q)'
    <3>1. VisitInv(q) /\ PlaceInv(q) /\ actual_lvl[q] \in Level /\ l \in Level
      BY <1>t, <1>v, <2>1, <2>3
    <3>2. CASE actual_lvl[q] = l
      <4>1. AtReader(q) => AtMonitor(q)
        BY <1>t, <2>1, <2>3, <3>2 DEF AtReader, AtMonitor
      <4>2. ~AtReader(q)' /\ AtMonitor(q)' = AtMonitor(q) /\ MonitorPc(q)' = MonitorPc(q)
        BY <1>t, <2>1, <2>3, <3>2 DEF AtReader, AtMonitor, MonitorPc
      <4>3. car_pc'[q] = car_pc[q] /\ GoingIn(q)' = GoingIn(q) /\ GoingOut(q)' = GoingOut(q)
        BY <1>4, <1>t, <2>1, <2>3 DEF GoingIn, GoingOut, ToMark
      <4>4. ToMark(q)' = ToMark(q)
        BY <2>1 DEF ToMark
      <4>5. QED
        BY <3>1, <4>1, <4>2, <4>3, <4>4 DEF VisitInv, OnLevel
    <3>3. CASE actual_lvl[q] # l
      BY <1>4, <1>t, <2>1, <2>3, <3>1, <3>3
      DEF VisitInv, OnLevel, GoingIn, GoingOut, ToMark, AtReader, AtMonitor, MonitorPc
    <3>4. QED
      BY <3>2, <3>3
  <2>4. ASSUME p \notin confused'
        PROVE  VisitInv(p)'
    <3>1. VisitInv(p)
      BY <1>v, <2>1, <2>4
    <3>2. AtReader(p)' /\ ~AtMonitor(p)'
      BY <1>4, <1>t, <2>1, <3>1 DEF VisitInv, OnLevel, AtReader, AtMonitor
    <3>3. QED
      BY <1>4, <1>t, <2>1, <3>1, <3>2 DEF VisitInv, OnLevel, GoingIn, GoingOut, ToMark, AtReader, AtMonitor
  <2>5. exact' => confused' = {}
    BY <1>4, <1>v
  <2>6. QED
    BY <2>2, <2>3, <2>4, <2>5 DEF VisitsInv
<1>5. ASSUME NEW e \in Entrances, MarkEntered(e)
      PROVE  VisitsInv'
  <2>1. (\A k \in Level : MonInv(k)') /\ (\A q \in Plates \ confused' : PlaceInv(q)')
    BY <1>5, <1>v DEF MarkEntered, MonInv, PlaceInv
  <2>2. ASSUME NEW q \in Plates \ confused
        PROVE  VisitInv(q)'
    <3>1. VisitInv(q)
      BY <1>v
    <3>2. UNCHANGED <<car_pc, actual_lvl, level_lpr, mon_car, mon_pc>>
      BY <1>5 DEF MarkEntered
    <3>3. (GoingIn(q) => GoingIn(q)') /\ (~ToMark(q) => ~ToMark(q)')
      BY <1>5, <1>t DEF MarkEntered, GoingIn, ToMark
    <3>4. GoingOut(q) => GoingOut(q)'
      BY <1>5, <1>t DEF MarkEntered, GoingOut, ToMark
    <3>5. QED
      BY <3>1, <3>2, <3>3, <3>4 DEF VisitInv, OnLevel, AtReader, AtMonitor, MonitorPc
  <2>3. QED
    BY <1>5, <1>v, <2>1, <2>2 DEF MarkEntered, VisitsInv
<1>6. ASSUME NEW l \in Level, MonAwait(l)
      PROVE  VisitsInv'
  <2>1. (\A k \in Level : MonInv(k)') /\ (\A q \in Plates \ confused' : PlaceInv(q)')
    BY <1>6, <1>t, <1>v DEF MonAwait, MonInv, PlaceInv
  <2>2. ASSUME NEW q \in Plates \ confused
        PROVE  VisitInv(q)'
    <3>1. VisitInv(q) /\ actual_lvl[q] \in Level /\ mon_car[l] # q
      BY <1>6, <1>t, <1>v DEF MonAwait, MonInv
    <3>2. QED
      BY <1>6, <1>t, <3>1
      DEF MonAwait, VisitInv, OnLevel, GoingIn, GoingOut, ToMark, AtReader, AtMonitor, MonitorPc
  <2>3. QED
    BY <1>6, <1>v, <2>1, <2>2 DEF MonAwait, VisitsInv
<1>7. ASSUME NEW l \in Level, MonLookup(l)
      PROVE  VisitsInv'
  <2>1. (\A k \in Level : MonInv(k)') /\ (\A q \in Plates \ confused' : PlaceInv(q)')
    BY <1>7, <1>t, <1>v DEF MonLookup, MonInv, PlaceInv
  <2>2. ASSUME NEW q \in Plates \ confused
        PROVE  VisitInv(q)'
    <3>1. VisitInv(q) /\ PlaceInv(q) /\ actual_lvl[q] \in Level /\ mon_car[l] # q
      BY <1>7, <1>t, <1>v DEF MonLookup, MonInv
    <3>2. QED
      BY <1>7, <1>t, <3>1
      DEF MonLookup, VisitInv, OnLevel, GoingIn, GoingOut, ToMark, AtReader, AtMonitor, MonitorPc
  <2>3. QED
    BY <1>7, <1>v, <2>1, <2>2 DEF MonLookup, VisitsInv
<1>8. ASSUME NEW l \in Level, MonTest(l)
      PROVE  VisitsInv'
  <2>1. (\A k \in Level : MonInv(k)') /\ (\A q \in Plates \ confused' : PlaceInv(q)')
    BY <1>8, <1>t, <1>v DEF MonTest, MonInv, PlaceInv
  <2>2. ASSUME NEW q \in Plates \ confused'
        PROVE  VisitInv(q)'
    <3>1. VisitInv(q) /\ actual_lvl[q] \in Level /\ (mon_car[l] = q => ~ToMark(q))
      BY <1>8, <1>t, <1>v DEF MonTest
    <3>2. QED
      BY <1>8, <1>t, <3>1
      DEF MonTest, VisitInv, OnLevel, GoingIn, GoingOut, ToMark, AtReader, AtMonitor, MonitorPc
  <2>3. exact' => confused' = {}
    BY <1>8, <1>v DEF MonTest
  <2>4. QED
    BY <2>1, <2>2, <2>3 DEF VisitsInv
<1>9. ASSUME NEW l \in Level, MonCountIn(l) \/ MonCountOut(l) \/ MonMark(l)
      PROVE  VisitsInv'
  <2> USE DEF MonCountIn, MonCountOut, MonMark
  <2>1. (\A k \in Level : MonInv(k)') /\ (\A q \in Plates \ confused' : PlaceInv(q)')
    BY <1>9, <1>t, <1>v DEF MonInv, PlaceInv
  <2>2. ASSUME NEW q \in Plates \ confused
        PROVE  VisitInv(q)'
    <3>1. VisitInv(q) /\ PlaceInv(q) /\ actual_lvl[q] \in Level
      BY <1>v, <1>t
    <3>2. CASE mon_car[l] = q
      BY <1>9, <1>t, <3>1, <3>2
      DEF VisitInv, PlaceInv, OnLevel, GoingIn, GoingOut, ToMark, AtReader, AtMonitor, MonitorPc
    <3>3. CASE mon_car[l] # q
      BY <1>9, <1>t, <3>1, <3>3
      DEF VisitInv, OnLevel, GoingIn, GoingOut, ToMark, AtReader, AtMonitor, MonitorPc
    <3>4. QED
      BY <3>2, <3>3
  <2>3. confused' = confused
    BY <1>9
  <2>4. exact' => exact
    BY <1>9, Zenon
  <2>5. QED
    BY <1>v, <2>1, <2>2, <2>3, <2>4 DEF VisitsInv
<1>10. ASSUME NEW l \in Level, MonClear(l)
       PROVE  VisitsInv'
  <2>1. (\A k \in Level : MonInv(k)') /\ (\A q \in Plates \ confused' : PlaceInv(q)')
    BY <1>10, <1>t, <1>v DEF MonClear, MonInv, PlaceInv
  <2>2. ASSUME NEW q \in Plates \ confused'
        PROVE  VisitInv(q)'
    <3>1. VisitInv(q) /\ actual_lvl[q] \in Level /\ (level_lpr[l] = q => mon_car[l] = q)
      BY <1>10, <1>t, <1>v DEF MonClear
    <3>2. QED
      BY <1>10, <1>t, <3>1
      DEF MonClear, VisitInv, OnLevel, GoingIn, GoingOut, ToMark, AtReader, AtMonitor, MonitorPc
  <2>3. exact' => confused' = {}
    BY <1>10, <1>v DEF MonClear
  <2>4. QED
    BY <2>1, <2>2, <2>3 DEF VisitsInv
<1>11. CASE UNCHANGED lprVars
  BY <1>11, <1>v
  DEF lprVars, VisitsInv, MonInv, PlaceInv, VisitInv, OnLevel, GoingIn, GoingOut, ToMark,
      AtReader, AtMonitor, MonitorPc
<1>12. QED
  BY <1>1, <1>2, <1>3, <1>4, <1>5, <1>6, <1>7, <1>8, <1>9, <1>10, <1>11
  DEF LprNext, CarThread, MonThread

-----------------------------------------------------------------------------

LEMMA CountedFinite ==
  \A l \in Level : IsFiniteSet(Counted(l)) /\ Cardinality(Counted(l)) \in Nat
<1> SUFFICES ASSUME NEW l \in Level
             PROVE  IsFiniteSet(Counted(l)) /\ Cardinality(Counted(l)) \in Nat
  OBVIOUS
<1>1. Counted(l) \subseteq Plates
  BY DEF Counted
<1>2. QED
  BY <1>1, LevelLPRAssumption, FS_Subset, FS_CardinalityType

\* The counters are the numbers of the cars counted.
LEMMA CountsExactCounted ==
  CountsExact <=> (exact => \A l \in Level : curr_capacity[l] = Cardinality(Counted(l)))
BY DEF CountsExact, Counted

\* Counting in adds the car to those counted on the level, counting out
\* removes it, and no other step makes a difference while nobody is confused.
LEMMA NextCountsExact ==
  LprInv /\ TypeOK /\ CountsExact /\ [LprNext]_lprVars => CountsExact'
<1> SUFFICES ASSUME LprInv, TypeOK, CountsExact, [LprNext]_lprVars, exact',
                    NEW k \in Level
             PROVE  curr_capacity'[k] = Cardinality(Counted(k)')
  BY DEF CountsExact, Counted
<1>t. /\ car_pc \in [Plates -> {"outside", "await1", "trigger1", "await2", "trigger2"}]
      /\ actual_lvl \in [Plates -> Level]
      /\ level_lpr \in [Level -> Plates \cup {NoPlate}]
      /\ mon_pc \in [Level -> {"await", "lookup", "test", "in", "mark", "out", "clear"}]
      /\ mon_car \in [Level -> Plates \cup {NoPlate}]
      /\ curr_capacity \in [Level -> Nat]
      /\ NoPlate \notin Plates
  BY LevelLPRAssumption DEF LprInv, LprTypeOK, TypeOK
<1>v. /\ \A l \in Level : MonInv(l)
      /\ exact => \A p \in Plates : PlaceInv(p) /\ VisitInv(p)
  BY DEF LprInv, VisitsInv
<1>c. exact => curr_capacity[k] = Cardinality(Counted(k))
  BY CountsExactCounted
<1>e. ASSUME exact, curr_capacity' = curr_capacity,
             \A p \in Plates :
               /\ actual_lvl'[p] = k <=> actual_lvl[p] = k
               /\ actual_lvl[p] = k =>
                    ((OnLevel(p) <=> Uncounted(p, k)) <=> (OnLevel(p) <=> Uncounted(p, k))')
      PROVE  curr_capacity'[k] = Cardinality(Counted(k)')
  <2>1. Counted(k)' = Counted(k)
    BY <1>e DEF Counted
  <2>2. QED
    BY <1>c, <1>e, <2>1
<1> USE DEF carVars, monVars, markVars, ghosts, capVars, vars, CarGoto, MonGoto, Confuses
<1>1. ASSUME NEW p \in Plates, NEW e \in Entrances, NEW l \in Level, AdmitCar(p, e, l)
      PROVE  curr_capacity'[k] = Cardinality(Counted(k)')
  <2>1. exact /\ DealtWith(p) /\ curr_capacity' = curr_capacity
    BY <1>1, Zenon DEF AdmitCar, Comes, GetEmptySpot
  <2>2. p \notin Counted(k) /\ p \notin Counted(k)'
    BY <1>1, <1>t, <2>1 DEF AdmitCar, DealtWith, Counted, OnLevel, Uncounted
  <2>3. \A q \in Plates : q # p => (q \in Counted(k)' <=> q \in Counted(k))
    BY <1>1, <1>t DEF AdmitCar, Counted, OnLevel, Uncounted
  <2>4. Counted(k)' = Counted(k)
    BY <2>2, <2>3 DEF Counted
  <2>5. QED
    BY <1>c, <2>1, <2>4
<1>2. ASSUME TurnAway
      PROVE  curr_capacity'[k] = Cardinality(Counted(k)')
  BY <1>2, <1>e DEF TurnAway, GetEmptySpot, OnLevel, Uncounted
<1>3. ASSUME NEW p \in Plates, CarAwaitIn(p) \/ CarAwaitOut(p)
      PROVE  curr_capacity'[k] = Cardinality(Counted(k)')
  BY <1>3, <1>e, <1>t DEF CarAwaitIn, CarAwaitOut, CarAwait, OnLevel, Uncounted
<1>4. ASSUME NEW p \in Plates, CarTriggerIn(p) \/ CarTriggerOut(p)
      PROVE  curr_capacity'[k] = Cardinality(Counted(k)')
  <2> DEFINE l == actual_lvl[p]
  <2> USE DEF CarTriggerIn, CarTriggerOut, CarTrigger
  <2>1. /\ exact /\ curr_capacity' = curr_capacity
        /\ UNCHANGED <<actual_lvl, mon_pc, mon_car>>
        /\ level_lpr' = [level_lpr EXCEPT ![l] = p]
        /\ level_lpr[l] \in {NoPlate, mon_car[l]}
    BY <1>4
  <2>2. ASSUME NEW q \in Plates, q # p
        PROVE  OnLevel(q)' = OnLevel(q) /\ (Uncounted(q, k)' <=> Uncounted(q, k))
    BY <1>4, <1>t, <2>1, <2>2 DEF OnLevel, Uncounted
  <2>3. ASSUME l = k
        PROVE  (OnLevel(p) <=> Uncounted(p, k)) <=> (OnLevel(p) <=> Uncounted(p, k))'
    <3>1. level_lpr[l] # p /\ mon_car[l] # p
      BY <1>4, <1>v, <2>1 DEF VisitInv, OnLevel, AtReader, AtMonitor
    <3>2. ~Uncounted(p, k) /\ Uncounted(p, k)'
      BY <1>t, <2>1, <2>3, <3>1 DEF Uncounted
    <3>3. OnLevel(p)' <=> ~OnLevel(p)
      BY <1>4, <1>t DEF OnLevel
    <3>4. QED
      BY <3>2, <3>3
  <2>4. QED
    BY <1>e, <2>1, <2>2, <2>3
<1>5. ASSUME NEW l \in Level, MonAwait(l) \/ MonLookup(l)
      PROVE  curr_capacity'[k] = Cardinality(Counted(k)')
  <2>1. exact /\ UNCHANGED <<curr_capacity, car_pc, actual_lvl, level_lpr>>
    BY <1>5 DEF MonAwait, MonLookup
  <2>2. ASSUME NEW p \in Plates
        PROVE  Uncounted(p, k)' <=> Uncounted(p, k)
    <3>1. CASE MonAwait(l)
      BY <1>t, <3>1 DEF MonAwait, Uncounted
    <3>2. CASE MonLookup(l)
      BY <1>t, <1>v, <3>2 DEF MonLookup, MonInv, Uncounted
    <3>3. QED
      BY <1>5, <3>1, <3>2
  <2>3. QED
    BY <1>e, <2>1, <2>2 DEF OnLevel
<1>6. ASSUME NEW l \in Level, MonTest(l) \/ MonMark(l)
      PROVE  curr_capacity'[k] = Cardinality(Counted(k)')
  <2>1. UNCHANGED <<curr_capacity, car_pc, actual_lvl, level_lpr, mon_car>>
    BY <1>6 DEF MonTest, MonMark
  <2>2. exact
    BY <1>6, Zenon DEF MonTest, MonMark
  <2>3. ASSUME NEW p \in Plates
        PROVE  Uncounted(p, k)' <=> Uncounted(p, k)
    BY <1>6, <1>t, <2>1 DEF MonTest, MonMark, Uncounted
  <2>4. QED
    BY <1>e, <2>1, <2>2, <2>3 DEF OnLevel
<1>7. ASSUME NEW l \in Level, MonCountIn(l)
      PROVE  curr_capacity'[k] = Cardinality(Counted(k)')
  <2> DEFINE p == mon_car[l]
  <2>1. exact /\ ~full
    BY <1>7, Zenon DEF MonCountIn
  <2>2. curr_capacity' = [curr_capacity EXCEPT ![l] = @ + 1]
    BY <1>7, <2>1 DEF MonCountIn, SetCapacity
  <2>3. p \in Plates /\ actual_lvl[p] = l /\ OnLevel(p)
    BY <1>7, <1>t, <1>v, <2>1
    DEF MonCountIn, MonInv, PlaceInv, VisitInv, OnLevel, AtMonitor, MonitorPc
  <2>4. p \notin Counted(l) /\ Counted(l)' = Counted(l) \cup {p}
    BY <1>7, <1>t, <2>3 DEF MonCountIn, Counted, OnLevel, Uncounted
  <2>5. k # l => Counted(k)' = Counted(k)
    BY <1>7, <1>t DEF MonCountIn, Counted, OnLevel, Uncounted
  <2>6. k = l => Cardinality(Counted(k)') = Cardinality(Counted(k)) + 1
    BY <2>4, CountedFinite, FS_AddElement
  <2>7. QED
    BY <1>c, <1>t, <2>1, <2>2, <2>5, <2>6
<1>8. ASSUME NEW l \in Level, MonCountOut(l)
      PROVE  curr_capacity'[k] = Cardinality(Counted(k)')
  <2> DEFINE p == mon_car[l]
  <2>1. exact
    BY <1>8 DEF MonCountOut
  <2>2. curr_capacity' = [curr_capacity EXCEPT ![l] = IF @ - 1 >= 0 THEN @ - 1 ELSE 0]
    BY <1>8 DEF MonCountOut, FreeCarparkSpace
  <2>3. p \in Plates /\ actual_lvl[p] = l /\ ~OnLevel(p)
    BY <1>8, <1>t, <1>v, <2>1
    DEF MonCountOut, MonInv, PlaceInv, VisitInv, OnLevel, AtMonitor, MonitorPc
  <2>4. p \in Counted(l) /\ Counted(l)' = Counted(l) \ {p}
    BY <1>8, <1>t, <2>3 DEF MonCountOut, Counted, OnLevel, Uncounted
  <2>5. k # l => Counted(k)' = Counted(k)
    BY <1>8, <1>t DEF MonCountOut, Counted, OnLevel, Uncounted
  <2>6. k = l => /\ Cardinality(Counted(k)') = Cardinality(Counted(k)) - 1
                 /\ Cardinality(Counted(k)) - 1 >= 0
    <3>1. Counted(l) \ {p} \subseteq Plates
      BY DEF Counted
    <3>2. Cardinality(Counted(l) \ {p}) \in Nat
      BY <3>1, LevelLPRAssumption, FS_Subset, FS_CardinalityType
    <3>3. Cardinality(Counted(l) \ {p}) = Cardinality(Counted(l)) - 1
      BY <2>4, CountedFinite, FS_RemoveElement
    <3>4. Cardinality(Counted(l)) \in Nat
      BY CountedFinite
    <3>5. Cardinality(Counted(l)) - 1 \in Nat
      BY <3>2, <3>3
    <3>6. Cardinality(Counted(l)) - 1 >= 0
      BY <3>4, <3>5
    <3>7. Cardinality(Counted(l)') = Cardinality(Counted(l)) - 1
      BY <2>4, <3>3
    <3>8. QED
      BY <3>6, <3>7
  <2>7. QED
    BY <1>c, <1>t, <2>1, <2>2, <2>5, <2>6
<1>9. ASSUME NEW l \in Level, MonClear(l)
      PROVE  curr_capacity'[k] = Cardinality(Counted(k)')
  <2>1. exact /\ level_lpr[l] = mon_car[l]
    BY <1>9 DEF MonClear
  <2>2. QED
    BY <1>9, <1>e, <1>t, <2>1 DEF MonClear, OnLevel, Uncounted
<1>10. CASE UNCHANGED lprVars
  BY <1>10, <1>e DEF lprVars, OnLevel, Uncounted
<1>11. ASSUME NEW e \in Entrances, MarkEntered(e)
       PROVE  curr_capacity'[k] = Cardinality(Counted(k)')
  BY <1>11, <1>e DEF MarkEntered, OnLevel, Uncounted
<1>12. QED
  BY <1>1, <1>2, <1>3, <1>4, <1>5, <1>6, <1>7, <1>8, <1>9, <1>10, <1>11
  DEF LprNext, CarThread, MonThread

-----------------------------------------------------------------------------

LEMMA NextLprInv == LprInv /\ [LprNext]_lprVars => LprInv'
BY NextLprTypeOK, NextVisitsInv DEF LprInv

LEMMA InitCountsExact == LprInit => CountsExact
<1> SUFFICES ASSUME LprInit
             PROVE  CountsExact
  OBVIOUS
<1>1. \A l \in Level : Counted(l) = {}
  BY LevelLPRAssumption DEF LprInit, Counted, OnLevel, Uncounted
<1>2. \A l \in Level : curr_capacity[l] = 0
  BY DEF LprInit, Init
<1>3. Cardinality({}) = 0
  BY FS_EmptySet
<1>4. QED
  BY <1>1, <1>2, <1>3, CountsExactCounted

LEMMA LprInvClassified == LprInv => ClassifiedRight
<1> SUFFICES ASSUME LprInv, NEW l \in Level, mon_pc[l] \in {"in", "out"},
                    mon_car[l] \notin confused
             PROVE  mon_pc[l] = "in" <=> OnLevel(mon_car[l])
  BY DEF ClassifiedRight
<1> DEFINE p == mon_car[l]
<1>1. p \in Plates
  BY DEF LprInv, LprTypeOK, VisitsInv, MonInv
<1>2. VisitInv(p) /\ l = actual_lvl[p]
  BY <1>1 DEF LprInv, VisitsInv, PlaceInv
<1>3. AtMonitor(p) /\ MonitorPc(p) = mon_pc[l]
  BY <1>2 DEF AtMonitor, MonitorPc
<1>4. car_pc[p] \in {"outside", "await1", "trigger1", "await2", "trigger2"}
  BY <1>1 DEF LprInv, LprTypeOK
<1>5. QED
  BY <1>2, <1>3, <1>4 DEF VisitInv, OnLevel

\* The readers implement the specification of the counters: whatever its
\* theorems say of Spec is true of them.
THEOREM LevelLPRImplementsCapacity == LprSpec => Spec
<1>1. LprInit => Init
  BY DEF LprInit
<1>2. QED
  BY <1>1, LprImplementsCapacity, PTL DEF LprSpec, Spec

\* Every reachable state of the readers is well typed.
THEOREM LevelLPRTypeOK == LprSpec => []LprTypeOK
<1>1. LprInv => LprTypeOK
  BY DEF LprInv
<1>2. QED
  BY <1>1, InitLprInv, NextLprInv, PTL DEF LprSpec

\* A car that comes when its last visit is dealt with, and none of whose
\* triggers is lost or looked up before its mark, is counted in on its first
\* trigger and out on its second, whatever the others do.
THEOREM LevelLPRClassifiedRight == LprSpec => []ClassifiedRight
  BY LprInvClassified, InitLprInv, NextLprInv, PTL DEF LprSpec

\* While no trigger is lost, mistaken or ignored, every counter is the number
\* of the cars on its level.
THEOREM LevelLPRCountsExact == LprSpec => []CountsExact
<1> DEFINE I == LprInv /\ IInv /\ CountsExact
<1>1. LprInit => I
  BY InitLprInv, InitIInv, InitCountsExact DEF LprInit
<1>2. I /\ [LprNext]_lprVars => I'
  BY NextLprInv, NextIInv, LprImplementsCapacity, NextCountsExact DEF IInv
<1>3. I => CountsExact
  OBVIOUS
<1>4. QED
  BY <1>1, <1>2, <1>3, PTL DEF LprSpec

=============================================================================
