------------------------------- MODULE Startup -------------------------------
(***************************************************************************)
(* The start of the programs.  The simulator creates the semaphores        *)
(* and the memory segment under names that a killed simulator leaves       *)
(* behind; the manager opens what the names stand for at that moment (and  *)
(* so does the fire alarm, which then waits for nobody).  Simulator and    *)
(* manager tell each other through two semaphores that they are ready.     *)
(* Neither ever ends: killing it and starting it again is how it restarts. *)
(* Two more semaphores, for the end, are created but never posted.         *)
(*                                                                         *)
(* An object is known by the run of the simulator that created it; objects *)
(* outlive their names for those who have opened them.                     *)
(***************************************************************************)
EXTENDS Integers, FiniteSets

CONSTANTS
  MaxRuns,       \* bound: how often the simulator is started
  MaxManagers    \* bound: how often the manager is started

ASSUME StartupAssumption == MaxRuns \in Nat \ {0} /\ MaxManagers \in Nat

VARIABLES
  run,          \* the current, or latest, run of the simulator
  sim_pc,       \* main of the simulator: where it stands
  sim_sem,      \*   the semaphores it has opened
  sem_name,     \* the semaphore that each name stands for, 0 if none
  sem_val,      \* the value of each semaphore
  shm_name,     \* the segment that SHM_NAME stands for, 0 if none
  memory,       \* how far each segment has been set up
  managers,     \* how often the manager has been started
  man_pc,       \* main of the manager: where it stands
  man_sem,      \*   the semaphores it has opened
  man_shm,      \*   the segment it has mapped
  overlap,      \* ghost: this manager opened objects while they were replaced
  mixed,        \* ghost: some manager did so in this run of the simulator
  lost          \* ghost: runs whose ready signal a killed manager took along

simVars == <<run, sim_pc, sim_sem>>
manVars == <<managers, man_pc, man_sem, man_shm>>
objects == <<sem_name, sem_val, shm_name, memory>>
ghosts  == <<overlap, mixed, lost>>
vars == <<simVars, objects, manVars, ghosts>>

Runs  == 1 .. MaxRuns
EST   == "/SHM_ESTABLISHED"
SIM   == "/SIM_READY"
MAN   == "/MAN_READY"
Sems  == {EST, SIM, MAN}
None  == [s \in Sems |-> 0]

SimGoto(from, to) == sim_pc = from /\ sim_pc' = to
ManGoto(from, to) == man_pc = from /\ man_pc' = to

Post(s, g) == sem_val' = [sem_val EXCEPT ![s][g] = @ + 1]

\* Mutant of TakeToken: nobody waits.
TakeTokenAtOnce(s, g) == sem_val' = [sem_val EXCEPT ![s][g] = @ - 1]

TakeToken(s, g) == sem_val[s][g] > 0 /\ sem_val' = [sem_val EXCEPT ![s][g] = @ - 1]

\* The simulator is between its first sem_unlink and its shm_open; the manager
\* between its first sem_open and its shm_open.
Replacing == sim_pc \in {"unlink EST", "unlink SIM", "unlink MAN", "open EST",
                         "open SIM", "open MAN", "shm unlink", "shm open"}
Opening   == man_pc \in {"open EST", "open SIM", "open MAN", "attach"}

-----------------------------------------------------------------------------
(* main of the simulator                                                   *)

SimStart ==
  /\ SimGoto("off", "unlink EST")
  /\ run < MaxRuns
  /\ run' = run + 1
  /\ sim_sem' = None
  /\ overlap' = (overlap \/ Opening)
  /\ mixed' = Opening
  /\ UNCHANGED <<objects, manVars, lost>>

\* Mutant of SimUnlink: the old semaphores keep their names.
SimUnlinkNot(s, from, to) ==
  /\ SimGoto(from, to)
  /\ UNCHANGED <<run, sim_sem, objects, manVars, ghosts>>

\* sem_unlink: a name that does not exist is only reported.
SimUnlink(s, from, to) ==
  /\ SimGoto(from, to)
  /\ sem_name' = [sem_name EXCEPT ![s] = 0]
  /\ UNCHANGED <<run, sim_sem, sem_val, shm_name, memory, manVars, ghosts>>

\* sem_open with O_CREAT: an existing semaphore is opened as it is.
SimOpen(s, from, to) ==
  /\ SimGoto(from, to)
  /\ LET g == IF sem_name[s] = 0 THEN run ELSE sem_name[s] IN
       /\ sem_name' = [sem_name EXCEPT ![s] = g]
       /\ sim_sem' = [sim_sem EXCEPT ![s] = g]
  /\ UNCHANGED <<run, sem_val, shm_name, memory, manVars, ghosts>>

\* create_shared_object, first step: the old segment loses its name.
SimShmUnlink ==
  /\ SimGoto("shm unlink", "shm open")
  /\ shm_name' = 0
  /\ UNCHANGED <<run, sim_sem, sem_name, sem_val, memory, manVars, ghosts>>

\* shm_open: a segment of size 0 that has the name already.
SimShmOpen ==
  /\ SimGoto("shm open", "empty")
  /\ shm_name' = run
  /\ UNCHANGED <<run, sim_sem, sem_name, sem_val, memory, manVars, ghosts>>

\* The segment is set up step by step.
SimSetUp(from, to) ==
  /\ SimGoto(from, to)
  /\ memory' = [memory EXCEPT ![run] = to]
  /\ UNCHANGED <<run, sim_sem, sem_name, sem_val, shm_name, manVars, ghosts>>

SimMap           == SimSetUp("empty", "zeroed")    \* ftruncate and mmap
SimInitShared    == SimSetUp("zeroed", "mutexes")  \* init_shared_memory_data
SimInitEntrances == SimSetUp("mutexes", "ready")   \* init_entrance_data, threads

\* Mutants of SimPost: the segment is not set up yet; the wrong semaphore.
SimPostEarly ==
  /\ SimGoto("zeroed", "mode")
  /\ Post(SIM, sim_sem[SIM])
  /\ UNCHANGED <<run, sim_sem, sem_name, shm_name, memory, manVars, ghosts>>

SimPostOther ==
  /\ SimGoto("ready", "mode")
  /\ Post(EST, sim_sem[EST])
  /\ UNCHANGED <<run, sim_sem, sem_name, shm_name, memory, manVars, ghosts>>

SimPost ==
  /\ SimGoto("ready", "mode")
  /\ Post(SIM, sim_sem[SIM])
  /\ UNCHANGED <<run, sim_sem, sem_name, shm_name, memory, manVars, ghosts>>

\* The user has chosen the mode of the temperatures, or the variable that is to
\* hold it happens not to be '\0'.
SimMode ==
  /\ SimGoto("mode", "wait")
  /\ UNCHANGED <<run, sim_sem, objects, manVars, ghosts>>

\* The manager is ready: sensors and generator are started.
SimWait ==
  /\ SimGoto("wait", "generating")
  /\ TakeToken(MAN, sim_sem[MAN])
  /\ UNCHANGED <<run, sim_sem, sem_name, shm_name, memory, manVars, ghosts>>

SimKill ==
  /\ sim_pc # "off"
  /\ sim_pc' = "off"
  /\ UNCHANGED <<run, sim_sem, objects, manVars, ghosts>>

-----------------------------------------------------------------------------
(* main of the manager                                                     *)

ManStart ==
  /\ ManGoto("off", "open EST")
  /\ managers < MaxManagers
  /\ managers' = managers + 1
  /\ man_sem' = None
  /\ man_shm' = 0
  /\ overlap' = FALSE
  /\ UNCHANGED <<simVars, objects, mixed, lost>>

\* sem_open without O_CREAT: a missing semaphore is a null pointer, 0.
ManOpen(s, from, to) ==
  /\ ManGoto(from, to)
  /\ man_sem' = [man_sem EXCEPT ![s] = sem_name[s]]
  /\ overlap' = (overlap \/ Replacing)
  /\ mixed' = (mixed \/ Replacing)
  /\ UNCHANGED <<simVars, objects, managers, man_shm, lost>>

\* get_shared_object: without a segment the manager exits.
ManAttach ==
  /\ \/ shm_name # 0 /\ ManGoto("attach", "established")
     \/ shm_name = 0 /\ ManGoto("attach", "off")
  /\ man_shm' = shm_name
  /\ overlap' = (overlap \/ Replacing)
  /\ mixed' = (mixed \/ Replacing)
  /\ UNCHANGED <<simVars, objects, managers, man_sem, lost>>

\* The segment is reported established, which nobody waits for, and all the
\* monitors are started.
ManEstablished ==
  /\ man_sem[EST] # 0
  /\ ManGoto("established", "wait")
  /\ Post(EST, man_sem[EST])
  /\ UNCHANGED <<simVars, sem_name, shm_name, memory, managers, man_sem, man_shm, ghosts>>

\* Mutant of ManWait: a manager that comes late does not wait.
ManWaitNot ==
  /\ man_sem[SIM] # 0
  /\ ManGoto("wait", "post")
  /\ UNCHANGED <<simVars, objects, managers, man_sem, man_shm, ghosts>>

ManWait ==
  /\ man_sem[SIM] # 0
  /\ ManGoto("wait", "post")
  /\ TakeToken(SIM, man_sem[SIM])
  /\ UNCHANGED <<simVars, sem_name, shm_name, memory, managers, man_sem, man_shm, ghosts>>

ManPost ==
  /\ man_sem[MAN] # 0
  /\ ManGoto("post", "serving")
  /\ Post(MAN, man_sem[MAN])
  /\ UNCHANGED <<simVars, sem_name, shm_name, memory, managers, man_sem, man_shm, ghosts>>

\* The manager ends: it is killed, or it uses a null pointer, or its monitors
\* a segment that has no size yet.
ManEnds ==
  /\ man_pc # "off"
  /\ man_pc' = "off"
  /\ lost' = IF man_pc = "post" THEN lost \cup {man_sem[SIM]} ELSE lost
  /\ UNCHANGED <<simVars, objects, managers, man_sem, man_shm, overlap, mixed>>

-----------------------------------------------------------------------------

Init ==
  /\ run = 0 /\ sim_pc = "off" /\ sim_sem = None
  /\ sem_name = None
  /\ sem_val = [s \in Sems |-> [g \in Runs |-> 0]]
  /\ shm_name = 0
  /\ memory = [g \in Runs |-> "empty"]
  /\ managers = 0 /\ man_pc = "off" /\ man_sem = None /\ man_shm = 0
  /\ overlap = FALSE /\ mixed = FALSE
  /\ lost = {}

Simulator ==
  \/ SimUnlink(EST, "unlink EST", "unlink SIM")
  \/ SimUnlink(SIM, "unlink SIM", "unlink MAN")
  \/ SimUnlink(MAN, "unlink MAN", "open EST")
  \/ SimOpen(EST, "open EST", "open SIM")
  \/ SimOpen(SIM, "open SIM", "open MAN")
  \/ SimOpen(MAN, "open MAN", "shm unlink")
  \/ SimShmUnlink \/ SimShmOpen
  \/ SimMap \/ SimInitShared \/ SimInitEntrances
  \/ SimPost \/ SimWait

Manager ==
  \/ ManOpen(EST, "open EST", "open SIM")
  \/ ManOpen(SIM, "open SIM", "open MAN")
  \/ ManOpen(MAN, "open MAN", "attach")
  \/ ManAttach \/ ManEstablished \/ ManWait \/ ManPost

Next ==
  \/ Simulator \/ Manager
  \/ SimStart \/ SimMode \/ SimKill
  \/ ManStart \/ ManEnds

Spec == Init /\ [][Next]_vars

\* A program that can run does; nobody has to start or to kill one, or to
\* choose a mode.
FairSpec == Spec /\ WF_vars(Simulator) /\ WF_vars(Manager)

-----------------------------------------------------------------------------
(* Properties                                                              *)

\* Type invariant.
TypeOK ==
  /\ run \in 0 .. MaxRuns
  /\ sim_sem \in [Sems -> 0 .. MaxRuns]
  /\ sem_name \in [Sems -> 0 .. MaxRuns]
  /\ sem_val \in [Sems -> [Runs -> Nat]]
  /\ shm_name \in 0 .. MaxRuns
  /\ memory \in [Runs -> {"empty", "zeroed", "mutexes", "ready"}]
  /\ managers \in 0 .. MaxManagers
  /\ man_sem \in [Sems -> 0 .. MaxRuns]
  /\ man_shm \in 0 .. MaxRuns
  /\ overlap \in BOOLEAN /\ mixed \in BOOLEAN
  /\ lost \subseteq Runs

\* "Simulation ready": in whatever order the programs were started and killed,
\* the ready signal of a run is sent when its segment is set up, and a manager
\* that goes on with it works on that segment, unless the simulator replaced the
\* objects while this manager opened them.
ReadyMeansSetUp ==
  /\ \A g \in Runs : sem_val[SIM][g] > 0 => memory[g] = "ready"
  /\ man_pc \in {"post", "serving"} =>
       memory[man_sem[SIM]] = "ready" /\ (~overlap => man_shm = man_sem[SIM])

\* The ready signal of a run is in one place: on its way to a manager, with the
\* manager, on its way back, or back; unless a killed manager took it along.
\* No restart makes a second one of it, and none reaches another run, unless a
\* manager opened some objects before and some after their replacement.
SignalConserved ==
  ~mixed /\ run # 0 =>
    sem_val[SIM][run] + sem_val[MAN][run]
      + Cardinality({m \in {man_sem[SIM]} : man_pc = "post" /\ m = run})
      + Cardinality({g \in lost : g = run})
      + Cardinality({x \in {sim_pc} : x = "generating"})
    \in IF sim_pc = "off" THEN {0, 1}
        ELSE IF sim_pc \in {"mode", "wait", "generating"} THEN {1} ELSE {0}

\* A manager that has answered the running simulator looks at its segment, and
\* not at one a killed simulator has left behind, unless the objects were
\* replaced while this manager opened them; what earlier managers did is
\* forgotten with them.
AnswersFromSameSegment ==
  ~overlap /\ sim_pc = "generating" /\ man_pc = "serving"
    /\ man_sem[MAN] = sim_sem[MAN]
    => man_shm = run

\* A simulator that waits for a manager, and a manager that waits for it or is
\* about to answer, get each other going, unless one of them is killed or an
\* earlier manager took the signal along.
HandshakeCompletes ==
  sim_pc = "wait" /\ man_pc \in {"wait", "post"} /\ man_sem = sim_sem
    /\ run \notin lost
    ~> sim_pc = "generating" \/ sim_pc = "off" \/ man_pc = "off"

=============================================================================
