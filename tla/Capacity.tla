------------------------------ MODULE Capacity ------------------------------
(***************************************************************************)
(* The manager's occupancy counters (capacity.c): one counter per level    *)
(* and a cached "full" flag, shared by every entrance monitor and every    *)
(* level monitor of the manager.  Each call runs under capacity->mutex, so *)
(* a call is one atomic step.                                              *)
(***************************************************************************)
EXTENDS Integers

CONSTANTS
  LEVELS,          \* number of levels
  NUM_SPOTS_LVL    \* max_cap_per_lvl, the spots of one level

ASSUME CapacityAssumption ==
  /\ LEVELS \in Nat \ {0}
  /\ NUM_SPOTS_LVL \in Nat \ {0}

Level == 1 .. LEVELS

VARIABLES
  curr_capacity,   \* cars the manager believes to be on each level
  full             \* the cached "car park full" flag

vars == <<curr_capacity, full>>

HasRoom(curr, l) == curr[l] < NUM_SPOTS_LVL

FreeLevels(curr) == {l \in Level : HasRoom(curr, l)}

\* Mutant of ScanLevels: the scan runs from the top level down.
ScanLevelsDown(curr) ==
  IF FreeLevels(curr) = {} THEN 0
  ELSE CHOOSE l \in FreeLevels(curr) : \A k \in FreeLevels(curr) : l >= k

\* The scan loop of get_empty_spot: the first level with room, 0 if none.
ScanLevels(curr) ==
  IF FreeLevels(curr) = {} THEN 0
  ELSE CHOOSE l \in FreeLevels(curr) : \A k \in FreeLevels(curr) : l <= k

\* What get_empty_spot returns: the flag is trusted and short-cuts the scan.
EmptySpot == IF full THEN 0 ELSE ScanLevels(curr_capacity)

-----------------------------------------------------------------------------

\* init_capacity, on counters that static storage has zeroed.
Init ==
  /\ curr_capacity = [l \in Level |-> 0]
  /\ full = FALSE

\* An entrance monitor asks for a level: a failed search sets the flag.
GetEmptySpot ==
  /\ full' = (EmptySpot = 0)
  /\ UNCHANGED curr_capacity

\* Mutants of FreeCarparkSpace: the counter is not stopped at zero; the flag
\* is left set.
FreeCarparkSpaceUnclamped(l) ==
  /\ curr_capacity' = [curr_capacity EXCEPT ![l] = @ - 1]
  /\ full' = FALSE

FreeCarparkSpaceKeepsFull(l) ==
  /\ curr_capacity' = [curr_capacity EXCEPT ![l] = IF @ - 1 >= 0 THEN @ - 1 ELSE 0]
  /\ UNCHANGED full

\* A level monitor counts a car in.  While the flag is set the call does
\* nothing; otherwise the nested get_empty_spot refreshes the flag.
SetCapacity(l) ==
  \/ /\ full
     /\ UNCHANGED vars
  \/ /\ ~full
     /\ curr_capacity' = [curr_capacity EXCEPT ![l] = @ + 1]
     /\ full' = (ScanLevels(curr_capacity') = 0)

\* A level monitor counts a car out: the counter stops at zero and the flag
\* is cleared on either branch.
FreeCarparkSpace(l) ==
  /\ curr_capacity' = [curr_capacity EXCEPT ![l] = IF @ - 1 >= 0 THEN @ - 1 ELSE 0]
  /\ full' = FALSE

\* The level monitors call in any order, a count-out before the count-in
\* included: what makes them call is modelled in the module LevelLPR.
Next ==
  \/ GetEmptySpot
  \/ \E l \in Level : SetCapacity(l) \/ FreeCarparkSpace(l)

Spec == Init /\ [][Next]_vars

-----------------------------------------------------------------------------

\* Type invariant: no counter is ever negative (int curr_capacity[LEVELS]).
TypeOK ==
  /\ curr_capacity \in [Level -> Nat]
  /\ full \in BOOLEAN

\* The cached flag is never stale: while it is set no level has room, however
\* the calls of the monitors interleave (capacity.c:17 trusts it unseen).
FullNotStale == full => FreeLevels(curr_capacity) = {}

\* get_empty_spot answers with "lowest numbered level with a free capacity"
\* (capacity.c:14), and with 0 exactly when there is none.
SpotIsLowestFree ==
  /\ EmptySpot = 0 <=> \A l \in Level : ~HasRoom(curr_capacity, l)
  /\ EmptySpot # 0 => /\ HasRoom(curr_capacity, EmptySpot)
                      /\ \A l \in 1 .. (EmptySpot - 1) : ~HasRoom(curr_capacity, l)

=============================================================================
