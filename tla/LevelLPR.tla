------------------------------ MODULE LevelLPR ------------------------------
(***************************************************************************)
(* The plate reader of each level: the car_logic threads that trigger it   *)
(* on their way in and out, the manager's monitor_lpr thread that counts   *)
(* them, and the counters of the module Capacity.                          *)
(*                                                                         *)
(* A car waits for a clear reader in one critical section and triggers it  *)
(* in the next without looking again; the monitor reads the plate with no  *)
(* mutex and clears whatever plate is there: triggers get lost that way.   *)
(* The manager marks a car as entered while the car is already on its way, *)
(* and a plate may come back before its last visit is dealt with: triggers *)
(* are taken for the wrong one that way.  The ghost variable confused      *)
(* records the cars to which either happens during their visit.            *)
(***************************************************************************)
EXTENDS Capacity, FiniteSets

CONSTANTS
  Entrances,       \* entrances, each with its monitor_entrance
  Plates,          \* permitted plates
  NoPlate,         \* an LPR whose first byte is '\0'
  MaxVisits        \* bound: visits of each plate

ASSUME LevelLPRAssumption ==
  /\ IsFiniteSet(Plates)
  /\ NoPlate \notin Plates
  /\ MaxVisits \in [Plates -> Nat]

VARIABLES
  car_pc,          \* car_logic: where it stands
  actual_lvl,      \*   the level it goes to
  visits,          \*   how often the plate has come
  level_lpr,       \* LPR plate of each level
  lpr_cond,        \* threads waiting on the LPR condition variable
  mon_pc,          \* monitor_lpr: where it stands
  mon_car,         \*   the car it looked up
  entered,         \* item->entered in the manager's table
  unmarked,        \* car that each monitor_entrance has still to mark as entered
  confused,        \* ghost: cars that came while their last visit was dealt
                   \* with, or one of whose triggers, in this visit, nobody
                   \* looked up or somebody looked up before they were marked
  exact            \* ghost: no car has been confused, nor come while "full"

capVars == vars    \* of Capacity
carVars == <<car_pc, actual_lvl, visits>>
monVars == <<mon_pc, mon_car>>
markVars == <<entered, unmarked>>
ghosts  == <<confused, exact>>
lprVars == <<carVars, level_lpr, lpr_cond, monVars, markVars, capVars, ghosts>>

\* The waiters of an LPR: plates stand for their car_logic threads, NoPlate
\* for the monitor.
Mon == NoPlate
Wait(l, t)   == lpr_cond' = [lpr_cond EXCEPT ![l] = @ \cup {t}]
Broadcast(l) == lpr_cond' = [lpr_cond EXCEPT ![l] = {}]

\* The cars of S are confused from now on, until their next visit.
Confuses(S) == confused' = confused \cup S /\ exact' = (exact /\ S = {})

\* Some monitor_entrance has still to mark p.
ToMark(p) == \E e \in Entrances : unmarked[e] = p

\* The last visit of p is dealt with: no reader and no monitor has it either.
DealtWith(p) == ~ToMark(p) /\ \A l \in Level : level_lpr[l] # p /\ mon_car[l] # p

CarGoto(p, from, to) == car_pc[p] = from /\ car_pc' = [car_pc EXCEPT ![p] = to]
MonGoto(l, from, to) == mon_pc[l] = from /\ mon_pc' = [mon_pc EXCEPT ![l] = to]

-----------------------------------------------------------------------------
(* The entrances (see Entrance), as the levels see them.                   *)

\* A car comes: it is confused if its last visit is still dealt with.
Comes(p) ==
  /\ confused' = IF DealtWith(p) THEN confused \ {p} ELSE confused \cup {p}
  /\ exact' = (exact /\ DealtWith(p))

\* Mutant of AdmitCar: levels are counted from 0.
AdmitCarZeroBased(p, e, l) ==
  /\ CarGoto(p, "outside", "await1")
  /\ visits[p] < MaxVisits[p]
  /\ unmarked[e] = NoPlate
  /\ EmptySpot # 0
  /\ GetEmptySpot
  /\ visits' = [visits EXCEPT ![p] = @ + 1]
  /\ actual_lvl' = [actual_lvl EXCEPT ![p] = l - 1]
  /\ unmarked' = [unmarked EXCEPT ![e] = p]
  /\ Comes(p)
  /\ UNCHANGED <<entered, level_lpr, lpr_cond, monVars>>

\* monitor_entrance is told that there is a spot and opens the gate (see
\* Entrance), the gate thread sends the car to that level or to a random one: l
\* is any level.  What the car does follows at any later time.
AdmitCar(p, e, l) ==
  /\ CarGoto(p, "outside", "await1")
  /\ visits[p] < MaxVisits[p]
  /\ unmarked[e] = NoPlate
  /\ EmptySpot # 0
  /\ GetEmptySpot
  /\ visits' = [visits EXCEPT ![p] = @ + 1]
  /\ actual_lvl' = [actual_lvl EXCEPT ![p] = l]
  /\ unmarked' = [unmarked EXCEPT ![e] = p]
  /\ Comes(p)
  /\ UNCHANGED <<entered, level_lpr, lpr_cond, monVars>>

\* Mutant of MarkEntered: only the entry time is set.
MarkEnteredNot(e) ==
  /\ unmarked[e] # NoPlate
  /\ unmarked' = [unmarked EXCEPT ![e] = NoPlate]
  /\ UNCHANGED <<carVars, level_lpr, lpr_cond, monVars, entered, capVars, ghosts>>

\* monitor_entrance is woken by the gate that has opened, and marks the car,
\* which has been under way since.
MarkEntered(e) ==
  /\ unmarked[e] # NoPlate
  /\ unmarked' = [unmarked EXCEPT ![e] = NoPlate]
  /\ entered' = [entered EXCEPT ![unmarked[e]] = TRUE]
  /\ UNCHANGED <<carVars, level_lpr, lpr_cond, monVars, capVars, ghosts>>

\* There is no spot: the car is turned away, and the flag is set.
TurnAway ==
  /\ EmptySpot = 0
  /\ GetEmptySpot
  /\ UNCHANGED <<carVars, level_lpr, lpr_cond, monVars, markVars, ghosts>>

-----------------------------------------------------------------------------
(* car_logic                                                               *)

\* Wait until the LPR of the level is clear.
CarAwait(p, from, to) ==
  LET l == actual_lvl[p] IN
  /\ p \notin lpr_cond[l]
  /\ \/ /\ level_lpr[l] = NoPlate
        /\ CarGoto(p, from, to)
        /\ UNCHANGED lpr_cond
     \/ /\ level_lpr[l] # NoPlate
        /\ CarGoto(p, from, from)
        /\ Wait(l, p)
  /\ UNCHANGED <<actual_lvl, visits, level_lpr, monVars, markVars, capVars, ghosts>>

\* Trigger it, in a second critical section that does not look again.  A
\* plate the monitor has not looked up yet is lost.
CarTrigger(p, from, to) ==
  LET l == actual_lvl[p] IN
  /\ CarGoto(p, from, to)
  /\ level_lpr' = [level_lpr EXCEPT ![l] = p]
  /\ Broadcast(l)
  /\ Confuses({level_lpr[l]} \ {NoPlate, mon_car[l]})
  /\ UNCHANGED <<actual_lvl, visits, monVars, markVars, capVars>>

CarAwaitIn(p)    == CarAwait(p, "await1", "trigger1")
CarTriggerIn(p)  == CarTrigger(p, "trigger1", "await2")   \* then parks
CarAwaitOut(p)   == CarAwait(p, "await2", "trigger2")
CarTriggerOut(p) == CarTrigger(p, "trigger2", "outside")  \* then leaves

-----------------------------------------------------------------------------
(* monitor_lpr                                                             *)

\* Wait until the LPR holds a plate.
MonAwait(l) ==
  /\ Mon \notin lpr_cond[l]
  /\ \/ /\ level_lpr[l] # NoPlate
        /\ MonGoto(l, "await", "lookup")
        /\ UNCHANGED lpr_cond
     \/ /\ level_lpr[l] = NoPlate
        /\ MonGoto(l, "await", "await")
        /\ Wait(l, Mon)
  /\ UNCHANGED <<carVars, level_lpr, mon_car, markVars, capVars, ghosts>>

\* htab_find(hashtable, lpr->plate), with no mutex: the plate of now.
MonLookup(l) ==
  /\ MonGoto(l, "lookup", "test")
  /\ mon_car' = [mon_car EXCEPT ![l] = level_lpr[l]]
  /\ UNCHANGED <<carVars, level_lpr, lpr_cond, markVars, capVars, ghosts>>

\* car->entered tells a car going in from one going out.
MonTest(l) ==
  /\ \/ MonGoto(l, "test", "in") /\ entered[mon_car[l]]
     \/ MonGoto(l, "test", "out") /\ ~entered[mon_car[l]]
  /\ Confuses({p \in {mon_car[l]} : ToMark(p)})
  /\ UNCHANGED <<carVars, level_lpr, lpr_cond, mon_car, markVars, capVars>>

MonCountIn(l) ==
  /\ MonGoto(l, "in", "mark")
  /\ SetCapacity(l)
  /\ exact' = (exact /\ ~full)
  /\ UNCHANGED <<carVars, level_lpr, lpr_cond, mon_car, markVars, confused>>

\* Mutant of MonMark: car->entered is not reset.
MonMarkNot(l) ==
  /\ MonGoto(l, "mark", "clear")
  /\ UNCHANGED <<carVars, level_lpr, lpr_cond, mon_car, markVars, capVars, ghosts>>

MonMark(l) ==
  /\ MonGoto(l, "mark", "clear")
  /\ entered' = [entered EXCEPT ![mon_car[l]] = FALSE]
  /\ UNCHANGED <<carVars, level_lpr, lpr_cond, mon_car, unmarked, capVars, ghosts>>

MonCountOut(l) ==
  /\ MonGoto(l, "out", "clear")
  /\ FreeCarparkSpace(l)
  /\ UNCHANGED <<carVars, level_lpr, lpr_cond, mon_car, markVars, ghosts>>

\* Mutant of MonClear: the cars that wait are not told.
MonClearSilent(l) ==
  /\ MonGoto(l, "clear", "await")
  /\ level_lpr' = [level_lpr EXCEPT ![l] = NoPlate]
  /\ mon_car' = [mon_car EXCEPT ![l] = NoPlate]
  /\ Confuses({level_lpr[l]} \ {mon_car[l]})
  /\ UNCHANGED <<carVars, lpr_cond, markVars, capVars>>

\* The LPR is cleared, of whatever plate it holds by now.
MonClear(l) ==
  /\ MonGoto(l, "clear", "await")
  /\ level_lpr' = [level_lpr EXCEPT ![l] = NoPlate]
  /\ mon_car' = [mon_car EXCEPT ![l] = NoPlate]
  /\ Confuses({level_lpr[l]} \ {mon_car[l]})
  /\ Broadcast(l)
  /\ UNCHANGED <<carVars, markVars, capVars>>

-----------------------------------------------------------------------------

LprInit ==
  /\ Init
  /\ car_pc = [p \in Plates |-> "outside"]
  /\ actual_lvl = [p \in Plates |-> 1]
  /\ visits = [p \in Plates |-> 0]
  /\ level_lpr = [l \in Level |-> NoPlate]
  /\ lpr_cond = [l \in Level |-> {}]
  /\ mon_pc = [l \in Level |-> "await"]
  /\ mon_car = [l \in Level |-> NoPlate]
  /\ entered = [p \in Plates |-> FALSE]
  /\ unmarked = [e \in Entrances |-> NoPlate]
  /\ confused = {}
  /\ exact = TRUE

CarThread(p) ==
  CarAwaitIn(p) \/ CarTriggerIn(p) \/ CarAwaitOut(p) \/ CarTriggerOut(p)

MonThread(l) ==
  \/ MonAwait(l) \/ MonLookup(l) \/ MonTest(l) \/ MonCountIn(l) \/ MonMark(l)
  \/ MonCountOut(l) \/ MonClear(l)

LprNext ==
  \/ TurnAway
  \/ \E p \in Plates, e \in Entrances, l \in Level : AdmitCar(p, e, l)
  \/ \E e \in Entrances : MarkEntered(e)
  \/ \E p \in Plates : CarThread(p)
  \/ \E l \in Level : MonThread(l)

LprSpec == LprInit /\ [][LprNext]_lprVars

\* A thread that can run does.
LprFairSpec ==
  /\ LprSpec
  /\ \A p \in Plates : WF_lprVars(CarThread(p))
  /\ \A l \in Level : WF_lprVars(MonThread(l))

-----------------------------------------------------------------------------
(* Properties                                                              *)

\* Type invariant, next to that of Capacity.
LprTypeOK ==
  /\ car_pc \in [Plates -> {"outside", "await1", "trigger1", "await2", "trigger2"}]
  /\ actual_lvl \in [Plates -> Level]
  /\ visits \in [Plates -> Nat]
  /\ level_lpr \in [Level -> Plates \cup {NoPlate}]
  /\ lpr_cond \in [Level -> SUBSET (Plates \cup {Mon})]
  /\ mon_pc \in [Level -> {"await", "lookup", "test", "in", "mark", "out", "clear"}]
  /\ mon_car \in [Level -> Plates \cup {NoPlate}]
  /\ entered \in [Plates -> BOOLEAN]
  /\ unmarked \in [Entrances -> Plates \cup {NoPlate}]
  /\ confused \subseteq Plates
  /\ exact \in BOOLEAN

\* The car is on the level: it has triggered the LPR on its way in only.
OnLevel(p) == car_pc[p] \in {"await2", "trigger2"}

\* One flag tells the first trigger of a visit from the second
\* (manager_routines.c:232): whatever happens to the other cars, and happened
\* to this one in earlier visits, a car is counted in on its first trigger and
\* out on its second unless it was confused in this very visit or came back
\* before the last one was dealt with.
ClassifiedRight ==
  \A l \in Level :
    mon_pc[l] \in {"in", "out"} /\ mon_car[l] \notin confused =>
      (mon_pc[l] = "in" <=> OnLevel(mon_car[l]))

\* The trigger of p still has to be counted by the monitor of l.
Uncounted(p, l) ==
  \/ mon_car[l] = p /\ mon_pc[l] \in {"test", "in", "out"}
  \/ mon_car[l] # p /\ level_lpr[l] = p

\* The counters are exact as long as no car has been confused and nobody was
\* counted in while "full" was set: a level counts the cars that are on it, but for
\* those whose trigger is still being handled.
CountsExact ==
  exact =>
    \A l \in Level :
      curr_capacity[l] =
        Cardinality({p \in Plates : actual_lvl[p] = l /\ (OnLevel(p) <=> ~Uncounted(p, l))})

\* Losing triggers never loses a wakeup: every car gets in and out again.
EveryCarLeaves == \A p \in Plates : car_pc[p] = "await1" ~> car_pc[p] = "outside"

=============================================================================
