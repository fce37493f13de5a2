# Car park simulator: specifications, model checking and proofs

This directory holds TLA+ modules that model the three programs of the
repository (`simulator`, `manager`, `firealarm`), the TLC configurations that
check them on small instances, and proofs, checked by TLAPS, of the properties
that matter most for every number of entrances, levels and cars.

## 1. The system and its parts

Three processes share one memory segment (`carpark_details.h`): five entrances,
five exits and five levels, each with plate readers (LPR), boom gates and signs,
every one of them a C struct with a mutex and a condition variable. One or two
threads of the simulator play the hardware of each object, one thread of the
manager commands it, and the fire alarm interferes with all of them.

| Component | State | Operations | Made correct by |
|---|---|---|---|
| Occupancy counters (`capacity.c`) | a counter per level, cached `full` flag | `get_empty_spot`, `set_capacity`, `free_carpark_space` | counters never negative; flag never stale; the lowest free level is offered |
| Car generation (`generate_cars`) | the simulator's hash table, the queues | draw a plate, look it up, enqueue, add | no plate twice in the car park |
| Entrance queue thread (`handle_entrance_queue`) | queue, LPR | wait for a clear LPR, dequeue, trigger | every queued car gets to the LPR |
| Entrance monitor (`monitor_entrance`) | LPR, sign, gate | look up, ask for a spot, show, raise, lower, clear | every car is answered; the gate protocol |
| Entrance gate thread (`handle_entrance_boomgate`) | gate, copies of LPR and sign | open, close, create the car | the car created is the one admitted |
| Cars (`car_logic`) | a plate, its level and exit | trigger the level LPR in and out, then an exit LPR | every car gets out |
| Level monitor (`monitor_lpr`) | `entered` flag, counters | look up, count in or out, clear | in is not taken for out; exact counts |
| Exit monitor, exit gate (`monitor_exit`, `handle_exit_boomgate`) | LPR, gate, table, revenue | raise, bill, reset, lower, clear | nobody billed twice, no revenue lost |
| Billing (`billing.c`) | entry times, `total_revenue` | `start_time`, `calc_bill` | bill and total agree |
| Fire alarm (`firealarm.c`) | alarm flags, gates, signs | see the alarm, open every gate, show EVACUATE | every gate opens; no thread stuck |
| Temperature monitors (`tempmonitor`) | windows of samples and medians, alarm flags | sample, smooth, compare, raise the alarm | every lasting fire is detected, nothing else is |
| Temperature simulation (`sim_fire_sensors`) | sensors | write temperatures, by mode | a rising mode rises |
| Hash table, queue (`hashtable.c`, `queue.c`) | buckets, list | find, add, delete; enqueue, dequeue | set and FIFO behaviour |
| Start-up (`shared_memory.c`, the `main`s) | segment, semaphores | create, initialise, signal, wait | nobody is told to use what is not initialised; no signal is doubled or reaches another run |

### How the components interact

* A **car** moves generator -> entrance queue -> entrance LPR -> (admitted by the
  monitor through sign and gate) -> level LPR in -> level LPR out -> exit LPR.
  Each arrow is a `strcpy` into an object and a broadcast.
* A **gate** is a status byte with several writers: the monitor raises and lowers
  it, the gate thread reports opened and closed, the fire alarm raises it. The
  monitor unlocks between reading and writing, the gate thread reads outside the
  mutex, and the gate reports with `pthread_cond_signal` to one of up to three
  kinds of waiters.
* The **manager's threads** share one table (mutex taken by the exits only), one
  capacity record (mutex always taken) and one revenue (its own mutex never taken).
* The **fire alarm** writes gates and signs of entrances while the manager does,
  and the alarm flags of levels, which the exits read, from two kinds of threads.

### What is hard here

Unlocked reads after sleeps (the gate thread copies plate and sign 10 ms after it
checked them), check-then-act in two critical sections (the cars at the level LPR,
the generator and its table), wakeups by `signal` on a shared condition variable,
a mutex that is kept across a loop and possibly for ever (`open_en_boomgate`),
lost triggers, and one flag that has to tell a car's first trigger from its
second; cars that are marked and timed by the manager while they are under way
already. `PROJECT.json` lists them as hazards, each at its line.

## 2. The modules

| Module | Models | Threads and their steps |
|---|---|---|
| `Capacity` | `capacity.c` | one action per call: `GetEmptySpot`, `SetCapacity`, `FreeCarparkSpace` |
| `BoomGate` | what a gate promises (abstract) | `Raise`, `Opened`, `Lower`, `Closed` |
| `Entrance` | generator, queue thread, monitor, gate thread of the entrances | `Gen*`, `Queue*`, `Man*`, `Gate*`, `CarLeaves` |
| `Evacuation` | `Entrance` and the fire alarm | `Fire*` (`open_en_boomgate`), `RaiseAlarm`, `ShowEvacuation` |
| `LevelLPR` | `car_logic` on the levels, `monitor_lpr`, the marking of entered cars, on top of `Capacity` | `Car*`, `Mon*`, `AdmitCar`, `MarkEntered`, `TurnAway` |
| `ExitGate` | end of `car_logic`, `handle_exit_boomgate`, `monitor_exit`, billing, and where the entrances create and time a car | `CarEnters`, `ManStartTime`, `CarExits`, `Gate*`, `Man*` |
| `ExitEvacuation` | `ExitGate` and the fire alarm: `main`, the alarm flags, the openers, and what the raised entrance gates let in | `Temp*` (`tempmonitor`), `Main*`, `Fire*` (`open_ex_boomgate`), `StrayExits`, `TimedOutside` |
| `Temperature` | `sim_fire_sensors`, `tempmonitor`, `main`'s alarm, for one level | `Sim*`, `Mon*`, `MainAlarm` |
| `Stores` | what the table and a queue promise (abstract) | `Add`, `Delete`, `Enqueue`, `Dequeue` |
| `CarStores` | `hashtable.c` and `queue.c` with their pointers, and who uses them | `Gen*`, `ServeCar`, `CarDelete`, `CarFree` |
| `Startup` | the `main`s of simulator and manager, `shared_memory.c` | `Sim*`, `Man*`; `SimMode` is the user, `SimKill`, `ManEnds` are kills |
| `Billing` | the arithmetic of `calc_bill`, its conversion to `int` included | no state |
| `...Proofs` | theorems about the module they are named after; `LevelLPRProofs` also has those of `Capacity`, `ExitGateProofs` those of `Billing` | |
| `MC...` | model values for TLC | |

`Evacuation` extends `Entrance`, `ExitEvacuation` extends `ExitGate`, and `LevelLPR`
extends `Capacity`: the composed modules keep the actions of the component as they
are and add the steps of those who interfere. Mutants, named after the definition
they change, stand before it.

**Threads.** Each thread has a program counter (`man_pc[e]` and so on); its labels
are the places where the thread may be interrupted between two accesses to shared
state. One critical section is one action, because every thread
releases its mutex before the next step, but for `open_*_boomgate` (`gate_held`),
the billing in `monitor_exit` (`table_owner`) and `htab_delete` (`deleting`), whose
mutexes are state. Reads
outside a mutex (`ManLookup`, `ManAdmit`, `GateReadSign`, `GateDispatch`,
`GateSpawnCar`, `ManStartTime`, `MarkEntered`, `MonLookup`, `ManFind`, `ManCalcBill`, `FireTest`, `MonReadTens`,
`GenCompare`) are actions of
their own. A `pthread_cond_broadcast` that follows the unlock (`ManNotify`,
`FireNotify`) is an action of its own, one within the critical section is part of it.

**Condition variables.** `Wait` adds the thread to the wait set of the condition
variable; it is not enabled until `Broadcast` or `Signal` takes it out, and then
tests its loop condition again. A spurious wakeup is modelled where it matters, in
`open_*_boomgate` (`FireSpurious`); the other waits are `while` loops in which it only
adds a step that waits again. `Signal` wakes any one waiter, as POSIX allows.

**Mutexes that are kept.** `open_en_boomgate` and `open_ex_boomgate` unlock only at
the top of their loop: after a wait they loop, or return, with the mutex held.
`gate_held` is the set of such gates; manager and gate thread are blocked in the
steps that lock the gate mutex (`ManAtGate`, `GateAtGate`). The second lock of the
same thread fails (`PTHREAD_MUTEX_ERRORCHECK`, `shared_memory.c:131`) and is ignored,
as in the code.

**Time.** Sleeps are not modelled: every delay may take any time, so that the
threads of a module may run in every order that the code allows, and in some that
its delays make unlikely. Where the code relies on a delay a ghost variable records
that the unlikely order has happened, and the property says what holds for the others.

**The manager behind the car.** The gate thread creates a car when the gate is open
(`simulator_routines.c:214-246`); the manager is woken by the same gate, times the car
and marks it as entered (`manager_routines.c:86-87`) whenever it gets to run, be it
after the car has triggered a reader, left, been billed and reset, or come again. So
`ExitGate` has `CarEnters` and `ManStartTime`, and `LevelLPR` `AdmitCar` and
`MarkEntered`: `untimed[e]` and `unmarked[e]` hold the car that the monitor of `e` has
still to see to, one at a time, because a monitor lets no other car in before.

**Ghost variables.** They record history and guard nothing.

| Ghost | Module | Records | Without it |
|---|---|---|---|
| `confused` | `LevelLPR` | cars that came back while a reader, a level monitor or an entrance still had their last visit, or one of whose triggers in this visit was overwritten or cleared unseen, or was looked at before the manager had marked the car | the wait for a clear reader (`simulator_routines.c:115`) and the trigger are two critical sections, so that triggers do get lost; a plate may be drawn again at once (`:168`) |
| `exact` | `LevelLPR` | nobody was ever confused, nor counted in while `full` | as above, and `set_capacity` does nothing while `full` |
| `early` | `ExitGate` | plates drawn again before the exit of their last visit was done with them; in `ExitEvacuation` also those that a gate raised by the fire alarm let in, until they enter anew | `start_time` and the reset hit the same item; nobody times the car of a fire, and there may be two of its plate |
| `late` | `ExitGate` | plates that an exit reset when a `monitor_entrance` had still to time them | the car stays timed, outside, with no exit to reset it |
| `alone` | `ExitGate` | cars that found their exit LPR clear and that nobody has overwritten | a car triggers an exit LPR that is in use (`simulator_routines.c:156`); who is overwritten is never billed |
| `unclear` | `Temperature` | a fire, or an unset sensor, may have been sampled | a fire alarm started first samples -528 degrees |
| `taken`, `hot` | `Temperature` | samples taken, hot samples in a row | they state what "90%" means |
| `overlap` | `Startup` | the running manager opened objects while a simulator replaced them; it starts anew with every manager | nothing in the code prevents it |
| `mixed` | `Startup` | some manager did so during this run of the simulator; it starts anew with every run | as above: its post may reach this run's semaphore on account of another's |
| `lost` | `Startup` | runs whose signal a killed manager took along | as above |

**Pointers.** `CarStores` keeps a heap of chunks for items and one for nodes. A freed
chunk may be allocated again at once. A freed item keeps its `next` pointer, because
`free` overwrites the first 16 bytes only; what a reader sees of its key is not a
plate. All plates are in one bucket, the worst case.

### Limits of the models

* `GenFind` draws any plate of a set; the simulator draws from a file with plates
  of the manager's list and random ones. The sets are finite and a plate that was
  turned away stays in the simulator's table for ever, so that in the end nothing
  may move: hence `CHECK_DEADLOCK FALSE` in the configurations with cars. What must
  not stop is stated as liveness. `Startup` stops when its runs are used up.
* `AdmitCar` (`LevelLPR`) and `CarEnters` (`ExitGate`) stand for the whole way through
  an entrance. `AdmitCar` happens when the spot is asked for, and the car's first step,
  at a level reader, follows at any later time; that an admitted car does get in is the
  subject of `Entrance`. `CarEnters` happens when the gate opens, and the car's first
  step there, at an exit, follows at any later time too.
* Several cars of one plate are in the car park only during a fire. `ExitEvacuation` has
  them (`StrayExits`), for permitted plates: at a plate that is not in the table
  `monitor_exit` uses a null pointer (`manager_routines.c:180`), and there is nothing after
  it to state. `LevelLPR` is about the time before a fire.
* The key of a freed item, which `htab_find` may read (`hashtable.c:60`), is taken for one
  that does not match. What `strcmp` finds there is undefined; a crash is not modelled.
* `Evacuation` leaves `CarLeaves` out: every plate is drawn once.
* A plate is written in one step: torn reads of a plate during a copy are not
  modelled, nor is the terminator that `generate_cars` does not write
  (`simulator_routines.c:363`). A level is shown by one character as in the code.
* `mon_total` and `bills` count bills, not cents; `Billing` has the cents.
* `Temperature` models one level; the levels share `alarm_active` only, which
  `ExitEvacuation` models with `RaiseElsewhere`. Its windows are short (3 and 2
  instead of 5 and 30). Random changes of the temperature are choices, without
  their probabilities.
* `ExitEvacuation` takes the sample of a `tempmonitor` to be alarming or not: which,
  is the subject of `Temperature`.
* `SimMode` (`Startup`) is the loop that asks for a mode (`simulator.c:148`): it ends when
  the user answers, or at once, because `temp_mode` is read before it is written.
* In `Startup` a manager may end at any moment after it has attached: it would
  crash on mutexes that are not initialised, its threads are started before it waits.
* The exits of a level whose flag a `tempmonitor` has written over ('0', or the
  number 1, instead of '1': `firealarm.c:81`, `:148`) go on as without a fire. The
  models have these steps (`TempSample`, `TempMark`), and every gate opens all the same.

## 3. What the runs check

| Run | Instance | What it shows |
|---|---|---|
| `LevelLPR` | 2 entrances, 2 levels with 1 spot, 2 plates, one of which comes twice, fair | `TypeOK` (no negative counter), `FullNotStale`, `SpotIsLowestFree`. `ClassifiedRight`: a car that is not confused in its visit is never taken to go the wrong way, whatever happened before or to others. `CountsExact`: counters are exact while nothing was lost, mistaken or ignored. `EveryCarLeaves`: losing triggers loses no wakeups |
| `Entrance` | 2 entrances, 2 permitted plates, symmetric | `SpawnMatchesDecision`: what the gate thread copies without a mutex is what the manager decided. `OneCarPerPlate`: the unlocked lookup of the generator never lets a plate in twice |
| `EntranceLive` | 1 entrance, 2 permitted plates and 1 other, fair | `GateProtocol`: the gate implements `BoomGate`, its fairness included. `QueuedCarReachesLPR`, `LPRIsCleared`: no wakeup is lost |
| `Evacuation` | 1 entrance, 1 permitted and 1 other plate, fair, alarm at any moment | `AbandonedGateIsOpen`: `open_en_boomgate` may keep a mutex for good, but only at an open gate. `AlarmOpensGates`, `MovementsEnd` |
| `ExitGate` | 2 entrances, 2 exits, 2 plates, 2 visits in all, fair | `RevenueMatchesBills`; `BilledCarIsTimed`: no visit is billed twice although the plate may change twice under the monitor, and none from an `entry_time` of 0 but one that came back early or has still to be timed; `LoneCarIsReset`; `GateProtocol`; `LPRIsCleared` |
| `ExitEvacuation` | 1 entrance, 1 exit, 1 plate, 2 cars of it, fair, alarm at any moment from this level or another | `AbandonedGateIsOpen`; `BilledCarIsTimed`, with the cars that raised entrance gates let in; `AlarmOpensGates` (from the alarm to the open gate, through `main`), `MovementsEnd` |
| `Temperature` | windows of 3 samples and 2 medians, every mode | `FireDetected`: enough hot samples raise the alarm whatever came before. `NoFalseAlarm`: normal and fixed temperatures raise none, although their digits are read while they change |
| `Startup` | 2 simulator runs, 3 managers, kills at any moment, fair | `ReadyMeansSetUp`, `SignalConserved`, `AnswersFromSameSegment`, `HandshakeCompletes` |
| `CarStores` | 3 plates, 3 items, 3 nodes | `StoresImplemented`: a set and a queue. `NewPlateIsAbsent`: the walk without a mutex never misses the plate it looks for. `LinksAreLive` |
| `EvacuationLevel` | 1 entrance, 2 permitted plates | violation of `SpawnLevelExists` |
| `ExitEvacuationReclosed` | 1 exit, 1 plate | violation of `OpenedGateStaysOpen` |
| `TemperatureRaising` | raising mode only | violation of `RaisingRaises` |

**Bounds.** Entrances share the generator, its table and the cars only, exits the
manager's table and the revenue only: two of them have every conflict, and what
happens at one gate needs one. Two entrances let a car that has not been timed or marked
by one come back through the other. Two permitted plates give a car being served and
one waiting behind it; a third, not permitted, the denial. Two plates on two levels
with one spot each reach lost triggers, a full car park, more cars than spots, and
with a second visit of one of them what the first one leaves behind. Two visits at two
exits are two cars that overwrite each other or bill at once, or one that comes back
while its last visit is being billed or has still to be timed. Three items in
one bucket have a first, a middle and a last one. Two simulator runs and three
managers have one replacement, with a manager before, during and after it. `MaxVisits`,
`MaxRuns`, `MaxManagers`, `MaxNodes` and `NormalUnits` are the models' bounds, the
code has no such ones; the fair runs stop when they are used up. Queues need no
bound: no plate is queued twice.

**Fairness.** Weak fairness for every thread of manager, simulator and fire alarm:
a thread that is not blocked runs at last. Nothing is assumed of the generator
starting a new plate, of cars entering or leaving the exits, of the temperature
monitors, nor of the alarm; `Main` is fair because it polls. The exits also have
strong fairness of `ManFind`, where two threads compete for the table mutex:
a mutex that is released again and again is obtained at last. Gate mutexes need
none: as long as they are not abandoned they are never kept by anyone for more
than a step that a fair thread takes. The monitors of
the entrances need no fairness where only exits and levels are checked: they may time or
mark a car as late as they like. In `Startup` the two programs are fair while
they run; nobody is obliged to start or to kill one, and the user not to answer the
dialogue either: `HandshakeCompletes` begins when the simulator waits for the manager.

### Findings

1. `EvacuationLevel`. The gate thread checks that the sign shows a level, sleeps
   10 ms, and reads the sign again for the "zero index level"
   (`simulator_routines.c:223`); the evacuation loop has written a letter in
   between, and the car goes to a level that does not exist.
2. `ExitEvacuationReclosed`. "Open up all boom gates" (`firealarm.c:264`): a gate that
   was rising for a car when the alarm came is lowered again by the manager, and
   `open_ex_boomgate` has ended by then.
3. `TemperatureRaising`. The "60% chance of raising temperature"
   (`simulator_routines.c:518`) adds to an `atoi` that reads on from the two bytes of the
   sensor into the alarm flag behind them: once the fire alarm has set it to '0',
   25 degrees are 250, and the first two digits of 254 are written back.

## 4. What is proved

Every type invariant and every safety invariant that a passing run checks, and the
safety part of every refinement, is a theorem for every value of the constants. All
theorems are of the specification without fairness, from the named assumptions on the
constants only (`CapacityAssumption` and so on).

`LevelLPRProofs`, the counters: `TypeOK`, `FullNotStale` and `SpotIsLowestFree` for
every number of levels and spots. The two first are inductive together; the third
follows from them, with `LeastElement`: a nonempty set of levels has a least element,
because `<` is well-founded on the naturals.

`LevelLPRProofs`, the readers: `LevelLPRImplementsCapacity` (every step of the readers
is one of `Capacity` or leaves the counters alone, so that the theorems above hold of
them), `LevelLPRTypeOK`, `LevelLPRClassifiedRight` and `LevelLPRCountsExact`. The
inductive invariant is `VisitsInv`: `MonInv` (the monitor has a car from the lookup to
the clearing, and the reader is not clear meanwhile) and, for each car that is not
confused, `PlaceInv` (it is dealt with on its own level) and `VisitInv`, which follows it
through one visit: before its first trigger it is `GoingIn` (marked or to be marked),
after the monitor has reset its flag it is `GoingOut`, and between the two triggers
the monitor has looked at it. It is needed because `ClassifiedRight` speaks of one
moment only, and is right then because of what the flag and the marking were all the
way before. `CountsExact` is inductive relative to it: `NextCountsExact` shows that
counting in adds one car to the set of those counted, counting out removes one, and
every other step leaves that set as it is.

`EntranceProofs`, for every set of entrances and plates: `EntranceTypeOK`,
`EntranceSpawnMatchesDecision` and `EntranceGateProtocol`. All three come from one
inductive invariant:

    IInv == TypeOK /\ GeneratorInv /\ \A e \in Entrances : EntranceInv(e)

`EntranceInv(e)` has four parts. `GateInv` ties the gate thread's place to the status:
only its own report ends a movement. `ManInv` ties the manager's place to the status:
it commands only a gate that is at rest. `DecisionInv` says that from the lookup to
the clearing `permitted_car`, `directed_lvl`, the LPR and the sign agree, and
`QueueInv` that the queue thread holds no plate while the LPR holds one. None is
inductive alone: the gate thread's unlocked reads are right because the manager waits
for its report, and the manager waits for the right thing because only one thread
reports. `NextEntranceInv` has one step per action. `EntranceGateProtocol` shows that
every step of `Entrance` is one of `BoomGate` or leaves the gates alone.

`EntranceProofs`, second part: `EntranceOneCarPerPlate`. The table alone says too
little, because the generator adds a plate to it only after it has queued the car, so
`PlateInv` speaks of `Known` plates: in the table or about to be added. Every car that
waits or is inside is known, a plate waits in one place or is inside but not both, and
what the generator has looked up stays unknown until it is queued. It is inductive
relative to `IInv`, which shows that a car let in is no longer waiting although its
plate still stands at the reader. One lemma per kind of step: those that move no car
into a place (`ReaderStep`, `ManServes`, `GateServes`), and one each for those that do
(`EnqueueStep`, `TakeStep`, `TriggerStep`, `SpawnStep`). That a deletion by a leaving
car hits nobody else (`LeaveStep`) is where uniqueness is used.

`ExitGateProofs`: `ExitGateTypeOK`, `ExitGateRevenueMatchesBills`,
`ExitGateBilledCarIsTimed`, `ExitGateLoneCarIsReset` and `ExitGateGateProtocol`. The
invariant has a part for each of the first three. `PlateInv`: once the monitor has
seen a plate there is one, be it another (types need it: the lookup never asks for the
empty plate). `BillInv`: the owner of the table is the one exit that bills, and the
total it has read is still the revenue. `SettleInv`: a car that has not come back
early is inside or at one exit, not at two, and is `Timed` (timed, or still to be
timed by an entrance) until that exit resets it; hence what `calc_bill` finds is timed or
about to be, and a reset hits nobody else. That a car may come and be timed in any order
with the rest is `EntersTimed` and `StartTimeTimed`. `LoneIInv` adds
`LoneInv` (a car that nobody disturbs is held by one exit, which still has to look it
up or has found it, as long as it is timed and was not timed late) and `ExitInv`, which ties gate thread and
manager to the status of the gate as at the entrances and gives the refinement of
`BoomGate`.

`ExitGateProofs`, billing: `RoundedIsNearest` (`((ms + 5 / 2) / 5) * 5` is the nearest
multiple of 5, and does not overflow below the largest `int`), `BillIsMonotone` (of two
stays whose milliseconds fit an `int`, which is 24 days, the longer is not billed less) and
`LongStayIsPaidFor`: past that bound the conversion yields the smallest `int`, as on x86, and
the bill is negative.

`EvacuationProofs` and `ExitEvacuationProofs`: the types during a fire, and
`AbandonedGateIsOpen`. It rests on `StatusNeedsMutex`: manager and gate thread write
the status of a gate in steps that they cannot take while `open_*_boomgate` keeps its
mutex. `ExitEvacuationBilling` adds that the invariant of the exits outlasts a fire: the
openers touch nothing it speaks of but the types (`FireKeepsIInv`), and the cars of a fire
are among those that came early (`FireCarKeepsIInv`).

`StartupProofs`, for every number of runs and managers, each killed at any moment:
`StartupTypeOK`, `StartupReadyMeansSetUp`, `StartupSignalConserved` and
`StartupAnswersFromSameSegment`. The parts of the inductive invariant are about who
can hold what: `RunsInv` (names and opened semaphores are of runs that there have
been), `FreshInv` (runs to come have left no trace, so that a new run starts with no
signal), `NamesInv` (which names the simulator has taken away or given so far, and
that the names of the two signals are never of two runs at once), `MemoryInv` (how far
the segment is set up), `ManInv` (what a manager opened with no replacement in
between belongs together), `SegmentInv` and `WorksInv` (the segment of a set-up run keeps its
name as long as its semaphore, so that such a manager has that segment mapped) and
`OverlapInv` (a manager that was disturbed in an earlier run has nothing of this one, so
that `SignalConserved` may forget it). `SignalInv` is `SignalConserved` with sums instead of
cardinalities (`SignalsCounted`); that `sem_post` and `sem_wait` move the one signal
and never make a second needs all of them, because a post to an old semaphore counts
for a run that is no more.

`TemperatureProofs`, for windows of any length: `TemperatureTypeOK`,
`TemperatureFireDetected` and `TemperatureNoFalseAlarm`. `MedianIsMiddle` says what
the sorted window gives (by counting the samples below and not above each value), and
`MedianIsHot` that a window with more than half of its samples hot has a hot median.
`CountInv` says how many samples and medians the lists hold after so many samples, and
which of them must be hot after so many hot ones; `EnoughHotMedians` turns that into
90%. `CalmInv` says that the sensor, the bytes still to be written, the digit read so
far and both lists hold nothing but calm temperatures, or the zero they start with;
the rise of 8 degrees cannot come about among them (`CalmRaisesNothing`). The proof of
`FireDetected` showed what the claim depends on: the list of medians starts with a
zeroed node, which may still be there when the fire has lasted long enough. Hence
`DetectionAssumption`: either the window of medians has 10 nodes or more, so that one
cold one is within the 10%, or the window of samples has 3, so that the first median
follows soon enough. Without it TLC finds a counterexample (5 samples, 2 medians); the
code's 5 and 30 satisfy it, and so does the instance that is checked.

`CarStoresProofs`, for any number of plates and chunks: `CarStoresTypeOK`,
`CarStoresLinksAreLive`, `CarStoresNewPlateIsAbsent` and `CarStoresImplementsStores`,
the whole refinement of `Stores`. `IsChain(next, start, s)` says that the chunks of
`s` follow each other from `start` to NULL, none twice; `ChainFound` that such an `s`
is what the walk along the pointers gives (two functions that satisfy the recursion
cannot differ at a least place). One lemma per change of pointers: `ChainTail`,
`ChainPush`, `ChainAppend`, `ChainUnlink`. `ItemInv` and `NodeInv` say that what is
allocated is what is linked, but for the item that is being freed, and that no two
items have the same plate. `WalkInv` is why a lookup with no mutex works: an item that
is unlinked, and freed, keeps its `next`, so that the walk that stands on it still
comes to every linked item it had before it; `UnlinkStep` says so of every chain at
once, the bucket and the walk.

Only model-checked: liveness under fairness (`EveryCarLeaves`, `QueuedCarReachesLPR`,
`LPRIsCleared`, `AlarmOpensGates`, `MovementsEnd`, `HandshakeCompletes`, and the
fairness that is part of `GateProtocol`), which is out of reach of the prover.

## 5. Not modelled

* Display and printing (`print_capacity`, `print_queue`, `htab_print`, the display
  loops of the `main`s), `utility.c`, build files: output, delays and rules. That `print_queue`
  walks a list without its mutex can end the display and nothing else.
* Torn plates, the missing terminator of a plate, mutexes used before they are
  initialised: undefined behaviour after which there is no state to speak of.
* `import_htable`: the plates of `plates.txt` are
  the constants `Plates` and `Permitted`.
* The steps after the endless loops of the three `main`s, `htab_destroy` and
  `destroy_shared_object`: never reached.
* Probabilities and durations. Two assertions that rest on durations are neither
  checked nor reported: that a letter of EVACUATE which the manager has written over
  comes back before the gate is lowered (`manager_routines.c:72`), and how many cars too many
  come in while others are between gate and level reader (`capacity.c:34`).

What is left for later: a composition of
`Entrance`, `LevelLPR` and `ExitGate` over one table of cars, for the orders across
the car park that `unmarked`, `untimed`, `early` and `CarLeaves` stand for now.
