---------------------------- MODULE StartupProofs ----------------------------
(***************************************************************************)
(* What holds of the start of the programs for every number of runs of     *)
(* simulator and manager, killed whenever it may be: the types, that the   *)
(* ready signal means what it says, that there is one of it for each run,  *)
(* and that it is answered by a manager on the same segment.               *)
(***************************************************************************)
EXTENDS Startup, FiniteSetTheorems, TLAPS

SimPcs == {"off", "unlink EST", "unlink SIM", "unlink MAN", "open EST",
           "open SIM", "open MAN", "shm unlink", "shm open", "empty", "zeroed",
           "mutexes", "ready", "mode", "wait", "generating"}
ManPcs == {"off", "open EST", "open SIM", "open MAN", "attach", "established",
           "wait", "post", "serving"}

PcOK == sim_pc \in SimPcs /\ man_pc \in ManPcs

\* Names and opened semaphores stand for runs that there have been; a manager
\* that has got past its wait had a semaphore to wait for.
RunsInv ==
  /\ sim_pc # "off" => run # 0
  /\ man_pc \in {"post", "serving"} => man_sem[SIM] # 0
  /\ \A s \in Sems : sem_name[s] <= run /\ man_sem[s] <= run

\* Nothing is known yet of the runs to come.
FreshInv ==
  \A g \in Runs : g > run =>
    memory[g] = "empty" /\ g \notin lost /\ \A s \in Sems : sem_val[s][g] = 0

\* The names that the simulator has taken away or given so far.
NamesInv ==
  /\ sim_pc \in {"unlink MAN", "open EST", "open SIM"} => sem_name[SIM] = 0
  /\ sim_pc \in {"open EST", "open SIM", "open MAN"} => sem_name[MAN] = 0
  /\ sim_pc \in {"open MAN", "shm unlink", "shm open", "empty", "zeroed", "mutexes",
                 "ready", "mode", "wait", "generating"}
       => sim_sem[SIM] = run /\ sem_name[SIM] = run
  /\ sim_pc \in {"shm unlink", "shm open", "empty", "zeroed", "mutexes", "ready",
                 "mode", "wait", "generating"}
       => sim_sem[MAN] = run /\ sem_name[MAN] = run
  /\ sim_pc \in {"empty", "zeroed", "mutexes", "ready", "mode", "wait", "generating"}
       => shm_name = run
  /\ 0 \in {sem_name[SIM], sem_name[MAN]} \/ sem_name[SIM] = sem_name[MAN]

\* How far the segment of the running simulator has been set up.
MemoryInv ==
  /\ sim_pc \in {"zeroed", "mutexes", "ready"} => memory[run] = sim_pc
  /\ sim_pc \in {"unlink EST", "unlink SIM", "unlink MAN", "open EST", "open SIM",
                 "open MAN", "shm unlink", "shm open", "empty"}
       => memory[run] = "empty"

\* What a manager opens that no simulator disturbs belongs together.
ManInv ==
  ~overlap =>
    /\ man_pc \in {"open SIM", "open MAN", "attach"} => ~Replacing
    /\ man_pc \in {"open MAN", "attach"} => man_sem[SIM] = sem_name[SIM]
    /\ man_pc = "attach" => man_sem[MAN] = sem_name[MAN]
    /\ man_pc \in {"established", "wait", "post", "serving"} =>
         /\ 0 \in {man_sem[SIM], man_sem[MAN]} \/ man_sem[SIM] = man_sem[MAN]
         /\ sim_pc # "off" /\ run \in {man_sem[SIM], man_sem[MAN]} => man_shm = run

\* The name of a segment that is set up is given before its signal can be sent
\* and taken away after the name of its semaphore.
SegmentInv ==
  sem_name[SIM] # 0 /\ memory[sem_name[SIM]] = "ready" => shm_name = sem_name[SIM]

\* A manager that no simulator disturbed has the segment of its semaphore, if
\* that is set up.
WorksInv ==
  ~overlap /\ man_pc \in {"established", "wait", "post", "serving"}
    /\ man_sem[SIM] # 0 /\ memory[man_sem[SIM]] = "ready"
    => man_shm = man_sem[SIM]

\* A manager that was disturbed in an earlier run has nothing of this one.
OverlapInv ==
  overlap /\ ~mixed => ~Opening /\ \A s \in Sems : man_sem[s] < run

\* The ready signal of the current run: with the manager, taken along by one
\* that was killed, back at the simulator.
WithManager == IF man_pc = "post" /\ man_sem[SIM] = run THEN 1 ELSE 0
TakenAlong  == IF run \in lost THEN 1 ELSE 0
Back        == IF sim_pc = "generating" THEN 1 ELSE 0

Signals == sem_val[SIM][run] + sem_val[MAN][run] + WithManager + TakenAlong + Back
Allowed == IF sim_pc = "off" THEN {0, 1}
           ELSE IF sim_pc \in {"mode", "wait", "generating"} THEN {1} ELSE {0}

\* SignalConserved, without the cardinalities.
SignalInv == ~mixed /\ run # 0 => Signals \in Allowed

\* The inductive invariant.
IInv == /\ TypeOK /\ PcOK /\ RunsInv /\ FreshInv
        /\ NamesInv /\ MemoryInv /\ ManInv
        /\ SegmentInv /\ WorksInv /\ OverlapInv
        /\ ReadyMeansSetUp /\ SignalInv

-----------------------------------------------------------------------------

\* The constants and the names.
LEMMA Bounds ==
  /\ MaxRuns \in Nat /\ MaxManagers \in Nat
  /\ 0 \in 0 .. MaxRuns /\ 0 \in 0 .. MaxManagers
  /\ Runs \subseteq 0 .. MaxRuns
  /\ None \in [Sems -> 0 .. MaxRuns]
  /\ \A t \in Sems : None[t] = 0
  /\ EST \in Sems /\ SIM \in Sems /\ MAN \in Sems
  /\ EST # SIM /\ EST # MAN /\ SIM # MAN
<1>1. EST \in Sems /\ SIM \in Sems /\ MAN \in Sems
      /\ EST # SIM /\ EST # MAN /\ SIM # MAN
  BY DEF Sems, EST, SIM, MAN
<1>2. MaxRuns \in Nat /\ MaxManagers \in Nat /\ 0 \in 0 .. MaxRuns
      /\ 0 \in 0 .. MaxManagers
  BY StartupAssumption
<1>3. Runs \subseteq 0 .. MaxRuns
  BY <1>2 DEF Runs
<1>4. QED
  BY <1>1, <1>2, <1>3 DEF None

\* sem_post or sem_wait: the value of one semaphore changes by d.
Changed(s, g, d) ==
  /\ s \in Sems /\ g \in Runs
  /\ sem_val' \in [Sems -> [Runs -> Nat]]
  /\ sem_val'[s][g] = sem_val[s][g] + d
  /\ \A t \in Sems, h \in Runs : t # s \/ h # g => sem_val'[t][h] = sem_val[t][h]

\* What sem_post and sem_wait do.
LEMMA PostEffect ==
  ASSUME TypeOK, NEW s \in Sems, NEW g \in Runs, Post(s, g)
  PROVE  Changed(s, g, 1)
BY DEF TypeOK, Post, Changed

\* sem_wait returns only when there is something to take.
LEMMA TakeTokenEffect ==
  ASSUME TypeOK, NEW s \in Sems, NEW g \in Runs, TakeToken(s, g)
  PROVE  sem_val[s][g] > 0 /\ Changed(s, g, -1)
<1>1. sem_val[s][g] \in Nat /\ sem_val[s][g] > 0
  BY DEF TypeOK, TakeToken
<1>2. sem_val[s][g] - 1 \in Nat /\ sem_val[s][g] - 1 = sem_val[s][g] + (-1)
  BY <1>1
<1>3. QED
  BY <1>1, <1>2 DEF TypeOK, TakeToken, Changed

\* A simulator that runs has a run.
LEMMA Running ==
  ASSUME TypeOK, RunsInv, sim_pc # "off"
  PROVE  run \in Runs
<1>1. run \in 0 .. MaxRuns /\ run # 0
  BY DEF TypeOK, RunsInv
<1>2. QED
  BY <1>1 DEF Runs

\* Every semaphore that is posted or waited for exists, and which one it is.
LEMMA Tokens ==
  ASSUME TypeOK, RunsInv, NamesInv
  PROVE  /\ sim_pc # "off" => run \in Runs
         /\ \A s \in Sems : man_sem[s] # 0 => man_sem[s] \in Runs
         /\ SimPost => Changed(SIM, run, 1)
         /\ SimWait => sem_val[MAN][run] > 0 /\ Changed(MAN, run, -1)
         /\ ManEstablished => Changed(EST, man_sem[EST], 1)
         /\ ManWait => sem_val[SIM][man_sem[SIM]] > 0
                       /\ Changed(SIM, man_sem[SIM], -1)
         /\ ManPost => Changed(MAN, man_sem[MAN], 1)
<1>1. sim_pc # "off" => run \in Runs
  BY Running
<1>2. \A s \in Sems : man_sem[s] \in 0 .. MaxRuns
  BY DEF TypeOK
<1>3. \A s \in Sems : man_sem[s] # 0 => man_sem[s] \in Runs
  BY <1>2, Bounds DEF Runs
<1>4. SimPost => run \in Runs /\ Post(SIM, run)
  BY <1>1 DEF SimPost, SimGoto, NamesInv
<1>5. SimWait => run \in Runs /\ TakeToken(MAN, run)
  BY <1>1 DEF SimWait, SimGoto, NamesInv
<1>6. /\ ManEstablished => man_sem[EST] \in Runs /\ Post(EST, man_sem[EST])
      /\ ManWait => man_sem[SIM] \in Runs /\ TakeToken(SIM, man_sem[SIM])
      /\ ManPost => man_sem[MAN] \in Runs /\ Post(MAN, man_sem[MAN])
  BY <1>3, Bounds DEF ManEstablished, ManWait, ManPost
<1>7. QED
  BY <1>1, <1>3, <1>4, <1>5, <1>6, Bounds, PostEffect, TakeTokenEffect

\* The next run is one that nothing knows of yet.
LEMMA NextRun ==
  ASSUME TypeOK, SimStart
  PROVE  run \in Nat /\ run' = run + 1 /\ run' \in Nat /\ run' # 0 /\ run' > run
         /\ run' \in Runs /\ run' \in 0 .. MaxRuns
<1>1. run \in 0 .. MaxRuns
  BY DEF TypeOK
<1>2. run < MaxRuns /\ run' = run + 1
  BY DEF SimStart
<1>3. QED
  BY <1>1, <1>2, Bounds DEF Runs

\* Nothing that there has been is the next run.
LEMMA NoLater ==
  ASSUME TypeOK, SimStart, NEW x \in 0 .. MaxRuns, x <= run
  PROVE  x # run'
BY NextRun

\* What a manager has opened is older than the run that starts.
LEMMA OfEarlierRuns ==
  ASSUME TypeOK, RunsInv, SimStart
  PROVE  \A s \in Sems : man_sem[s] < run'
<1>1. run \in Nat /\ run' = run + 1
  BY NextRun
<1>2. \A s \in Sems : man_sem[s] \in Int
  BY DEF TypeOK
<1>3. \A s \in Sems : man_sem[s] <= run
  BY DEF RunsInv
<1>4. QED
  BY <1>1, <1>2, <1>3

\* The initial state satisfies the invariant.
LEMMA InitIInv == Init => IInv
<1> SUFFICES ASSUME Init
             PROVE  IInv
  OBVIOUS
<1> USE Bounds DEF Init
<1>1. TypeOK
  BY DEF TypeOK
<1>2. PcOK
  BY DEF PcOK, SimPcs, ManPcs
<1>3. RunsInv /\ FreshInv
  BY DEF RunsInv, FreshInv, Runs
<1>4. NamesInv /\ MemoryInv /\ ManInv
  BY DEF NamesInv, MemoryInv, ManInv
<1>5. SegmentInv /\ WorksInv /\ OverlapInv
  BY DEF SegmentInv, WorksInv, OverlapInv
<1>6. ReadyMeansSetUp /\ SignalInv
  BY DEF ReadyMeansSetUp, SignalInv
<1>7. QED
  BY <1>1, <1>2, <1>3, <1>4, <1>5, <1>6 DEF IInv

\* The parts of SignalInv are natural numbers.
LEMMA Terms ==
  ASSUME TypeOK
  PROVE  /\ WithManager \in 0 .. 1 /\ TakenAlong \in 0 .. 1 /\ Back \in 0 .. 1
         /\ run \in Runs => sem_val[SIM][run] \in Nat /\ sem_val[MAN][run] \in Nat
BY Bounds DEF TypeOK, WithManager, TakenAlong, Back

\* Every step keeps the types.
LEMMA NextTypeOK ==
  ASSUME TypeOK, RunsInv, NamesInv, [Next]_vars
  PROVE  TypeOK'
<1> USE Bounds
    DEF TypeOK,
        SimGoto, ManGoto, simVars, manVars, objects, ghosts
<1>1. ASSUME SimStart
      PROVE  TypeOK'
  <2>1. run' \in 0 .. MaxRuns
    BY <1>1, NextRun
  <2>2. sim_sem' \in [Sems -> 0 .. MaxRuns]
    BY <1>1 DEF SimStart
  <2>3. overlap' \in BOOLEAN /\ mixed' \in BOOLEAN
    <3>1. mixed' = Opening /\ overlap' = (overlap \/ Opening)
      BY <1>1 DEF SimStart
    <3>2. Opening \in BOOLEAN
      BY DEF Opening
    <3>3. QED
      BY <3>1, <3>2, Zenon
  <2>4. UNCHANGED <<sem_name, sem_val, shm_name, memory, managers, man_sem,
                    man_shm, lost>>
    BY <1>1 DEF SimStart
  <2>5. QED
    BY <2>1, <2>2, <2>3, <2>4
<1>2. ASSUME \/ SimUnlink(EST, "unlink EST", "unlink SIM")
             \/ SimUnlink(SIM, "unlink SIM", "unlink MAN")
             \/ SimUnlink(MAN, "unlink MAN", "open EST")
      PROVE  TypeOK'
  BY <1>2 DEF SimUnlink
<1>3. ASSUME \/ SimOpen(EST, "open EST", "open SIM")
             \/ SimOpen(SIM, "open SIM", "open MAN")
             \/ SimOpen(MAN, "open MAN", "shm unlink")
      PROVE  TypeOK'
  <2>1. \A s \in Sems : (IF sem_name[s] = 0 THEN run ELSE sem_name[s]) \in 0 .. MaxRuns
    OBVIOUS
  <2>2. sem_name' \in [Sems -> 0 .. MaxRuns]
    BY <1>3, <2>1 DEF SimOpen
  <2>3. sim_sem' \in [Sems -> 0 .. MaxRuns]
    BY <1>3, <2>1 DEF SimOpen
  <2>4. QED
    BY <1>3, <2>1, <2>2, <2>3 DEF SimOpen
<1>4. ASSUME SimShmUnlink
      PROVE  TypeOK'
  BY <1>4 DEF SimShmUnlink
<1>5. ASSUME SimShmOpen
      PROVE  TypeOK'
  BY <1>5 DEF SimShmOpen
<1>6. ASSUME SimMap \/ SimInitShared \/ SimInitEntrances
      PROVE  TypeOK'
  BY <1>6 DEF SimMap, SimInitShared, SimInitEntrances, SimSetUp
<1>7. ASSUME SimPost
      PROVE  TypeOK'
  <2>1. Changed(SIM, run, 1)
    BY <1>7, Tokens
  <2>2. QED
    BY <1>7, <2>1 DEF SimPost, Changed
<1>8. ASSUME SimWait
      PROVE  TypeOK'
  <2>1. Changed(MAN, run, -1)
    BY <1>8, Tokens
  <2>2. QED
    BY <1>8, <2>1 DEF SimWait, Changed
<1>9. ASSUME SimKill
      PROVE  TypeOK'
  BY <1>9 DEF SimKill
<1>10. ASSUME ManStart
      PROVE  TypeOK'
  <2>1. managers < MaxManagers /\ managers' = managers + 1
    BY <1>10 DEF ManStart
  <2>2. managers' \in 0 .. MaxManagers
    BY <2>1
  <2>3. man_sem' \in [Sems -> 0 .. MaxRuns]
    BY <1>10 DEF ManStart
  <2>4. QED
    BY <1>10, <2>1, <2>2, <2>3 DEF ManStart
<1>11. ASSUME \/ ManOpen(EST, "open EST", "open SIM")
             \/ ManOpen(SIM, "open SIM", "open MAN")
             \/ ManOpen(MAN, "open MAN", "attach")
      PROVE  TypeOK'
  BY <1>11 DEF ManOpen
<1>12. ASSUME ManAttach
      PROVE  TypeOK'
  BY <1>12 DEF ManAttach
<1>13. ASSUME ManEstablished
      PROVE  TypeOK'
  <2>1. Changed(EST, man_sem[EST], 1)
    BY <1>13, Tokens
  <2>2. QED
    BY <1>13, <2>1 DEF ManEstablished, Changed
<1>14. ASSUME ManWait
      PROVE  TypeOK'
  <2>1. Changed(SIM, man_sem[SIM], -1)
    BY <1>14, Tokens
  <2>2. QED
    BY <1>14, <2>1 DEF ManWait, Changed
<1>15. ASSUME ManPost
      PROVE  TypeOK'
  <2>1. Changed(MAN, man_sem[MAN], 1)
    BY <1>15, Tokens
  <2>2. QED
    BY <1>15, <2>1 DEF ManPost, Changed
<1>16. ASSUME ManEnds
      PROVE  TypeOK'
  <2>1. man_pc = "post" => man_sem[SIM] \in Runs
    BY Tokens DEF RunsInv
  <2>2. lost' \subseteq Runs
    BY <1>16, <2>1 DEF ManEnds
  <2>3. QED
    BY <1>16, <2>1, <2>2 DEF ManEnds
<1>17. ASSUME UNCHANGED vars
      PROVE  TypeOK'
  BY <1>17 DEF vars
<1>18. ASSUME SimMode
      PROVE  TypeOK'
  BY <1>18 DEF SimMode
<1>19. QED
  BY <1>1, <1>2, <1>3, <1>4, <1>5, <1>6, <1>7, <1>8, <1>9, <1>10, <1>11, <1>12,
     <1>13, <1>14, <1>15, <1>16, <1>17, <1>18
  DEF Next, Simulator, Manager

\* The control of the two programs stays in its program.
LEMMA NextPcOK ==
  ASSUME PcOK, [Next]_vars
  PROVE  PcOK'
<1> USE Bounds
    DEF PcOK, SimPcs, ManPcs,
        SimGoto, ManGoto, simVars, manVars, objects, ghosts
<1>1. ASSUME SimStart
      PROVE  PcOK'
  BY <1>1 DEF SimStart
<1>2. ASSUME \/ SimUnlink(EST, "unlink EST", "unlink SIM")
             \/ SimUnlink(SIM, "unlink SIM", "unlink MAN")
             \/ SimUnlink(MAN, "unlink MAN", "open EST")
      PROVE  PcOK'
  BY <1>2 DEF SimUnlink
<1>3. ASSUME \/ SimOpen(EST, "open EST", "open SIM")
             \/ SimOpen(SIM, "open SIM", "open MAN")
             \/ SimOpen(MAN, "open MAN", "shm unlink")
      PROVE  PcOK'
  BY <1>3 DEF SimOpen
<1>4. ASSUME SimShmUnlink
      PROVE  PcOK'
  BY <1>4 DEF SimShmUnlink
<1>5. ASSUME SimShmOpen
      PROVE  PcOK'
  BY <1>5 DEF SimShmOpen
<1>6. ASSUME SimMap \/ SimInitShared \/ SimInitEntrances
      PROVE  PcOK'
  BY <1>6 DEF SimMap, SimInitShared, SimInitEntrances, SimSetUp
<1>7. ASSUME SimPost
      PROVE  PcOK'
  BY <1>7 DEF SimPost
<1>8. ASSUME SimWait
      PROVE  PcOK'
  BY <1>8 DEF SimWait
<1>9. ASSUME SimKill
      PROVE  PcOK'
  BY <1>9 DEF SimKill
<1>10. ASSUME ManStart
      PROVE  PcOK'
  BY <1>10 DEF ManStart
<1>11. ASSUME \/ ManOpen(EST, "open EST", "open SIM")
             \/ ManOpen(SIM, "open SIM", "open MAN")
             \/ ManOpen(MAN, "open MAN", "attach")
      PROVE  PcOK'
  BY <1>11 DEF ManOpen
<1>12. ASSUME ManAttach
      PROVE  PcOK'
  BY <1>12 DEF ManAttach
<1>13. ASSUME ManEstablished
      PROVE  PcOK'
  BY <1>13 DEF ManEstablished
<1>14. ASSUME ManWait
      PROVE  PcOK'
  BY <1>14 DEF ManWait
<1>15. ASSUME ManPost
      PROVE  PcOK'
  BY <1>15 DEF ManPost
<1>16. ASSUME ManEnds
      PROVE  PcOK'
  BY <1>16 DEF ManEnds
<1>17. ASSUME UNCHANGED vars
      PROVE  PcOK'
  BY <1>17 DEF vars
<1>18. ASSUME SimMode
      PROVE  PcOK'
  BY <1>18 DEF SimMode
<1>19. QED
  BY <1>1, <1>2, <1>3, <1>4, <1>5, <1>6, <1>7, <1>8, <1>9, <1>10, <1>11, <1>12,
     <1>13, <1>14, <1>15, <1>16, <1>17, <1>18
  DEF Next, Simulator, Manager

\* A name or an opened semaphore never stands for a run to come.
LEMMA NextRunsInv ==
  ASSUME TypeOK, RunsInv, NamesInv, [Next]_vars
  PROVE  RunsInv'
<1> USE DEF RunsInv,
        SimGoto, ManGoto, simVars, manVars, objects, ghosts
<1>1. ASSUME SimStart
      PROVE  RunsInv'
  <2>1. run \in Nat /\ run' = run + 1 /\ run' # 0
    BY <1>1, NextRun
  <2>2. \A s \in Sems : sem_name[s] \in Int /\ man_sem[s] \in Int
    BY DEF TypeOK
  <2>3. \A s \in Sems : sem_name[s] <= run' /\ man_sem[s] <= run'
    BY <2>1, <2>2
  <2>4. QED
    BY <1>1, <2>1, <2>2, <2>3 DEF SimStart
<1>2. ASSUME \/ SimUnlink(EST, "unlink EST", "unlink SIM")
             \/ SimUnlink(SIM, "unlink SIM", "unlink MAN")
             \/ SimUnlink(MAN, "unlink MAN", "open EST")
      PROVE  RunsInv'
  <2>1. run \in Nat /\ 0 <= run /\ run <= run /\ sem_name \in [Sems -> Int]
        /\ man_sem \in [Sems -> Int]
    BY DEF TypeOK
  <2>2. \A s \in Sems : sem_name'[s] <= run /\ man_sem[s] <= run
    BY <1>2, <2>1 DEF SimUnlink
  <2>3. QED
    BY <1>2, <2>1, <2>2 DEF SimUnlink
<1>3. ASSUME \/ SimOpen(EST, "open EST", "open SIM")
             \/ SimOpen(SIM, "open SIM", "open MAN")
             \/ SimOpen(MAN, "open MAN", "shm unlink")
      PROVE  RunsInv'
  <2>1. run \in Nat /\ 0 <= run /\ run <= run /\ sem_name \in [Sems -> Int]
        /\ man_sem \in [Sems -> Int]
    BY DEF TypeOK
  <2>2. \A s \in Sems : sem_name'[s] <= run /\ man_sem[s] <= run
    BY <1>3, <2>1 DEF SimOpen
  <2>3. QED
    BY <1>3, <2>1, <2>2 DEF SimOpen
<1>4. ASSUME SimShmUnlink
      PROVE  RunsInv'
  BY <1>4 DEF SimShmUnlink
<1>5. ASSUME SimShmOpen
      PROVE  RunsInv'
  BY <1>5 DEF SimShmOpen
<1>6. ASSUME SimMap \/ SimInitShared \/ SimInitEntrances
      PROVE  RunsInv'
  BY <1>6 DEF SimMap, SimInitShared, SimInitEntrances, SimSetUp
<1>7. ASSUME SimPost
      PROVE  RunsInv'
  BY <1>7 DEF SimPost
<1>8. ASSUME SimWait
      PROVE  RunsInv'
  BY <1>8 DEF SimWait
<1>9. ASSUME SimKill
      PROVE  RunsInv'
  BY <1>9 DEF SimKill
<1>10. ASSUME ManStart
      PROVE  RunsInv'
  <2>1. run \in Nat
    BY DEF TypeOK
  <2>2. \A s \in Sems : man_sem'[s] = 0
    BY <1>10, Bounds DEF ManStart
  <2>3. \A s \in Sems : man_sem'[s] <= run
    BY <2>1, <2>2
  <2>4. QED
    BY <1>10, <2>1, <2>2, <2>3 DEF ManStart
<1>11. ASSUME \/ ManOpen(EST, "open EST", "open SIM")
             \/ ManOpen(SIM, "open SIM", "open MAN")
             \/ ManOpen(MAN, "open MAN", "attach")
      PROVE  RunsInv'
  <2>1. man_sem \in [Sems -> Int]
    BY DEF TypeOK
  <2>2. QED
    BY <1>11, <2>1 DEF ManOpen
<1>12. ASSUME ManAttach
      PROVE  RunsInv'
  BY <1>12 DEF ManAttach
<1>13. ASSUME ManEstablished
      PROVE  RunsInv'
  BY <1>13 DEF ManEstablished
<1>14. ASSUME ManWait
      PROVE  RunsInv'
  <2>1. Changed(SIM, man_sem[SIM], -1)
    BY <1>14, Tokens
  <2>2. man_sem[SIM] \in Runs
    BY <1>14, <2>1 DEF Changed
  <2>3. QED
    BY <1>14, <2>1, <2>2 DEF ManWait, Runs
<1>15. ASSUME ManPost
      PROVE  RunsInv'
  BY <1>15 DEF ManPost
<1>16. ASSUME ManEnds
      PROVE  RunsInv'
  BY <1>16 DEF ManEnds
<1>17. ASSUME UNCHANGED vars
      PROVE  RunsInv'
  BY <1>17 DEF vars
<1>18. ASSUME SimMode
      PROVE  RunsInv'
  BY <1>18 DEF SimMode
<1>19. QED
  BY <1>1, <1>2, <1>3, <1>4, <1>5, <1>6, <1>7, <1>8, <1>9, <1>10, <1>11, <1>12,
     <1>13, <1>14, <1>15, <1>16, <1>17, <1>18
  DEF Next, Simulator, Manager

\* Only the current run, or an earlier one, is set up, posted or taken along.
LEMMA NextFreshInv ==
  ASSUME TypeOK, RunsInv, FreshInv, NamesInv, [Next]_vars
  PROVE  FreshInv'
<1> USE Bounds
    DEF FreshInv,
        SimGoto, ManGoto, simVars, manVars, objects, ghosts
<1>1. ASSUME SimStart
      PROVE  FreshInv'
  <2>1. run \in Nat /\ run' = run + 1 /\ Runs \subseteq Nat
    BY <1>1, NextRun DEF Runs
  <2>2. \A g \in Runs : g > run' => g > run
    BY <2>1
  <2>3. QED
    BY <1>1, <2>1, <2>2 DEF SimStart
<1>2. ASSUME \/ SimUnlink(EST, "unlink EST", "unlink SIM")
             \/ SimUnlink(SIM, "unlink SIM", "unlink MAN")
             \/ SimUnlink(MAN, "unlink MAN", "open EST")
      PROVE  FreshInv'
  BY <1>2 DEF SimUnlink
<1>3. ASSUME \/ SimOpen(EST, "open EST", "open SIM")
             \/ SimOpen(SIM, "open SIM", "open MAN")
             \/ SimOpen(MAN, "open MAN", "shm unlink")
      PROVE  FreshInv'
  BY <1>3 DEF SimOpen
<1>4. ASSUME SimShmUnlink
      PROVE  FreshInv'
  BY <1>4 DEF SimShmUnlink
<1>5. ASSUME SimShmOpen
      PROVE  FreshInv'
  BY <1>5 DEF SimShmOpen
<1>6. ASSUME SimMap \/ SimInitShared \/ SimInitEntrances
      PROVE  FreshInv'
  <2>1. run \in Nat /\ Runs \subseteq Nat
    BY DEF TypeOK, Runs
  <2>2. memory' = [memory EXCEPT ![run] = memory'[run]]
    BY <1>6 DEF SimMap, SimInitShared, SimInitEntrances, SimSetUp, TypeOK
  <2>3. QED
    BY <1>6, <2>1, <2>2 DEF SimMap, SimInitShared, SimInitEntrances, SimSetUp,
       TypeOK
<1>7. ASSUME SimPost
      PROVE  FreshInv'
  <2>1. Changed(SIM, run, 1)
    BY <1>7, Tokens
  <2>2. \A g \in Runs : g > run => g # run
    BY DEF TypeOK, Runs
  <2>3. \A g \in Runs, s \in Sems : g > run => sem_val'[s][g] = sem_val[s][g]
    BY <2>1, <2>2 DEF Changed
  <2>4. UNCHANGED <<run, memory, lost>>
    BY <1>7 DEF SimPost
  <2>5. QED
    BY <2>3, <2>4
<1>8. ASSUME SimWait
      PROVE  FreshInv'
  <2>1. Changed(MAN, run, -1)
    BY <1>8, Tokens
  <2>2. \A g \in Runs : g > run => g # run
    BY DEF TypeOK, Runs
  <2>3. \A g \in Runs, s \in Sems : g > run => sem_val'[s][g] = sem_val[s][g]
    BY <2>1, <2>2 DEF Changed
  <2>4. UNCHANGED <<run, memory, lost>>
    BY <1>8 DEF SimWait
  <2>5. QED
    BY <2>3, <2>4
<1>9. ASSUME SimKill
      PROVE  FreshInv'
  BY <1>9 DEF SimKill
<1>10. ASSUME ManStart
      PROVE  FreshInv'
  BY <1>10 DEF ManStart
<1>11. ASSUME \/ ManOpen(EST, "open EST", "open SIM")
             \/ ManOpen(SIM, "open SIM", "open MAN")
             \/ ManOpen(MAN, "open MAN", "attach")
      PROVE  FreshInv'
  BY <1>11 DEF ManOpen
<1>12. ASSUME ManAttach
      PROVE  FreshInv'
  BY <1>12 DEF ManAttach
<1>13. ASSUME ManEstablished
      PROVE  FreshInv'
  <2>1. Changed(EST, man_sem[EST], 1)
    BY <1>13, Tokens
  <2>2. man_sem[EST] <= run /\ run \in Nat /\ man_sem[EST] \in Nat
        /\ Runs \subseteq Nat
    BY DEF TypeOK, RunsInv, Runs
  <2>3. QED
    BY <1>13, <2>1, <2>2 DEF ManEstablished, Changed
<1>14. ASSUME ManWait
      PROVE  FreshInv'
  <2>1. Changed(SIM, man_sem[SIM], -1)
    BY <1>14, Tokens
  <2>2. man_sem[SIM] <= run /\ run \in Nat /\ man_sem[SIM] \in Nat
        /\ Runs \subseteq Nat
    BY DEF TypeOK, RunsInv, Runs
  <2>3. QED
    BY <1>14, <2>1, <2>2 DEF ManWait, Changed
<1>15. ASSUME ManPost
      PROVE  FreshInv'
  <2>1. Changed(MAN, man_sem[MAN], 1)
    BY <1>15, Tokens
  <2>2. man_sem[MAN] <= run /\ run \in Nat /\ man_sem[MAN] \in Nat
        /\ Runs \subseteq Nat
    BY DEF TypeOK, RunsInv, Runs
  <2>3. QED
    BY <1>15, <2>1, <2>2 DEF ManPost, Changed
<1>16. ASSUME ManEnds
      PROVE  FreshInv'
  <2>1. man_sem[SIM] <= run /\ run \in Nat /\ man_sem[SIM] \in Nat
    BY DEF TypeOK, RunsInv
  <2>2. \A g \in Runs : g > run => g \notin lost'
    BY <1>16, <2>1 DEF ManEnds, Runs
  <2>3. QED
    BY <1>16, <2>1, <2>2 DEF ManEnds
<1>17. ASSUME UNCHANGED vars
      PROVE  FreshInv'
  BY <1>17 DEF vars
<1>18. ASSUME SimMode
      PROVE  FreshInv'
  BY <1>18 DEF SimMode
<1>19. QED
  BY <1>1, <1>2, <1>3, <1>4, <1>5, <1>6, <1>7, <1>8, <1>9, <1>10, <1>11, <1>12,
     <1>13, <1>14, <1>15, <1>16, <1>17, <1>18
  DEF Next, Simulator, Manager

\* What the simulator has renamed so far, and what it has opened.
LEMMA NextNamesInv ==
  ASSUME TypeOK, PcOK, RunsInv, NamesInv, [Next]_vars
  PROVE  NamesInv'
<1> USE Bounds
    DEF TypeOK, PcOK, RunsInv, NamesInv, SimPcs, Runs,
        SimGoto, ManGoto, simVars, manVars, objects, ghosts
<1>1. ASSUME SimStart
      PROVE  NamesInv'
  BY <1>1 DEF SimStart
<1>2. ASSUME \/ SimUnlink(EST, "unlink EST", "unlink SIM")
             \/ SimUnlink(SIM, "unlink SIM", "unlink MAN")
             \/ SimUnlink(MAN, "unlink MAN", "open EST")
      PROVE  NamesInv'
  BY <1>2 DEF SimUnlink
<1>3. ASSUME \/ SimOpen(EST, "open EST", "open SIM")
             \/ SimOpen(SIM, "open SIM", "open MAN")
             \/ SimOpen(MAN, "open MAN", "shm unlink")
      PROVE  NamesInv'
  BY <1>3 DEF SimOpen
<1>4. ASSUME SimShmUnlink
      PROVE  NamesInv'
  BY <1>4 DEF SimShmUnlink
<1>5. ASSUME SimShmOpen
      PROVE  NamesInv'
  BY <1>5 DEF SimShmOpen
<1>6. ASSUME SimMap \/ SimInitShared \/ SimInitEntrances
      PROVE  NamesInv'
  BY <1>6 DEF SimMap, SimInitShared, SimInitEntrances, SimSetUp
<1>7. ASSUME SimPost
      PROVE  NamesInv'
  BY <1>7 DEF SimPost
<1>8. ASSUME SimWait
      PROVE  NamesInv'
  BY <1>8 DEF SimWait
<1>9. ASSUME SimKill
      PROVE  NamesInv'
  BY <1>9 DEF SimKill
<1>10. ASSUME ManStart
      PROVE  NamesInv'
  BY <1>10 DEF ManStart
<1>11. ASSUME \/ ManOpen(EST, "open EST", "open SIM")
             \/ ManOpen(SIM, "open SIM", "open MAN")
             \/ ManOpen(MAN, "open MAN", "attach")
      PROVE  NamesInv'
  BY <1>11 DEF ManOpen
<1>12. ASSUME ManAttach
      PROVE  NamesInv'
  BY <1>12 DEF ManAttach
<1>13. ASSUME ManEstablished
      PROVE  NamesInv'
  BY <1>13 DEF ManEstablished
<1>14. ASSUME ManWait
      PROVE  NamesInv'
  BY <1>14 DEF ManWait
<1>15. ASSUME ManPost
      PROVE  NamesInv'
  BY <1>15 DEF ManPost
<1>16. ASSUME ManEnds
      PROVE  NamesInv'
  BY <1>16 DEF ManEnds
<1>17. ASSUME UNCHANGED vars
      PROVE  NamesInv'
  BY <1>17 DEF vars
<1>18. ASSUME SimMode
      PROVE  NamesInv'
  BY <1>18 DEF SimMode
<1>19. QED
  BY <1>1, <1>2, <1>3, <1>4, <1>5, <1>6, <1>7, <1>8, <1>9, <1>10, <1>11, <1>12,
     <1>13, <1>14, <1>15, <1>16, <1>17, <1>18
  DEF Next, Simulator, Manager

\* The segment of the running simulator is as far as its main is.
LEMMA NextMemoryInv ==
  ASSUME TypeOK, PcOK, RunsInv, FreshInv, MemoryInv, [Next]_vars
  PROVE  MemoryInv'
<1> USE DEF MemoryInv,
        SimGoto, ManGoto, simVars, manVars, objects, ghosts
<1>1. ASSUME SimStart
      PROVE  MemoryInv'
  <2>1. run \in Nat /\ run' = run + 1 /\ run' \in Runs
    BY <1>1, NextRun
  <2>2. run' > run
    BY <1>1, NextRun
  <2>3. memory[run'] = "empty"
    BY <2>1, <2>2 DEF FreshInv
  <2>4. QED
    BY <1>1, <2>1, <2>2, <2>3 DEF SimStart
<1>2. ASSUME \/ SimUnlink(EST, "unlink EST", "unlink SIM")
             \/ SimUnlink(SIM, "unlink SIM", "unlink MAN")
             \/ SimUnlink(MAN, "unlink MAN", "open EST")
      PROVE  MemoryInv'
  BY <1>2 DEF SimUnlink
<1>3. ASSUME \/ SimOpen(EST, "open EST", "open SIM")
             \/ SimOpen(SIM, "open SIM", "open MAN")
             \/ SimOpen(MAN, "open MAN", "shm unlink")
      PROVE  MemoryInv'
  BY <1>3 DEF SimOpen
<1>4. ASSUME SimShmUnlink
      PROVE  MemoryInv'
  BY <1>4 DEF SimShmUnlink
<1>5. ASSUME SimShmOpen
      PROVE  MemoryInv'
  BY <1>5 DEF SimShmOpen
<1>6. ASSUME SimMap \/ SimInitShared \/ SimInitEntrances
      PROVE  MemoryInv'
  <2>1. sim_pc # "off"
    BY <1>6 DEF SimMap, SimInitShared, SimInitEntrances, SimSetUp
  <2>2. run \in Runs
    BY <2>1, Running
  <2>3. QED
    BY <1>6, <2>1, <2>2 DEF SimMap, SimInitShared, SimInitEntrances, SimSetUp,
       TypeOK
<1>7. ASSUME SimPost
      PROVE  MemoryInv'
  BY <1>7 DEF SimPost
<1>8. ASSUME SimWait
      PROVE  MemoryInv'
  BY <1>8 DEF SimWait
<1>9. ASSUME SimKill
      PROVE  MemoryInv'
  BY <1>9 DEF SimKill
<1>10. ASSUME ManStart
      PROVE  MemoryInv'
  BY <1>10 DEF ManStart
<1>11. ASSUME \/ ManOpen(EST, "open EST", "open SIM")
             \/ ManOpen(SIM, "open SIM", "open MAN")
             \/ ManOpen(MAN, "open MAN", "attach")
      PROVE  MemoryInv'
  BY <1>11 DEF ManOpen
<1>12. ASSUME ManAttach
      PROVE  MemoryInv'
  BY <1>12 DEF ManAttach
<1>13. ASSUME ManEstablished
      PROVE  MemoryInv'
  BY <1>13 DEF ManEstablished
<1>14. ASSUME ManWait
      PROVE  MemoryInv'
  BY <1>14 DEF ManWait
<1>15. ASSUME ManPost
      PROVE  MemoryInv'
  BY <1>15 DEF ManPost
<1>16. ASSUME ManEnds
      PROVE  MemoryInv'
  BY <1>16 DEF ManEnds
<1>17. ASSUME UNCHANGED vars
      PROVE  MemoryInv'
  BY <1>17 DEF vars
<1>18. ASSUME SimMode
      PROVE  MemoryInv'
  BY <1>18 DEF SimMode
<1>19. QED
  BY <1>1, <1>2, <1>3, <1>4, <1>5, <1>6, <1>7, <1>8, <1>9, <1>10, <1>11, <1>12,
     <1>13, <1>14, <1>15, <1>16, <1>17, <1>18
  DEF Next, Simulator, Manager

\* A manager opens what belongs together, unless the simulator replaces it.
LEMMA NextManInv ==
  ASSUME TypeOK, PcOK, RunsInv, NamesInv, ManInv, [Next]_vars
  PROVE  ManInv'
<1> USE Bounds
    DEF TypeOK, PcOK, RunsInv, NamesInv, ManInv, SimPcs, ManPcs, Replacing, Opening,
        SimGoto, ManGoto, simVars, manVars, objects, ghosts
<1>1. ASSUME SimStart
      PROVE  ManInv'
  <2>1. run \in Nat /\ run' = run + 1 /\ run' # 0
    BY <1>1, NextRun
  <2>2. \A s \in Sems : man_sem[s] \in 0 .. MaxRuns /\ man_sem[s] <= run
    BY Bounds DEF TypeOK, RunsInv
  <2>3. \A s \in Sems : man_sem[s] # run'
    BY <1>1, <2>2, NoLater
  <2>4. QED
    BY <1>1, <2>1, <2>2, <2>3 DEF SimStart
<1>2. ASSUME \/ SimUnlink(EST, "unlink EST", "unlink SIM")
             \/ SimUnlink(SIM, "unlink SIM", "unlink MAN")
             \/ SimUnlink(MAN, "unlink MAN", "open EST")
      PROVE  ManInv'
  BY <1>2 DEF SimUnlink
<1>3. ASSUME \/ SimOpen(EST, "open EST", "open SIM")
             \/ SimOpen(SIM, "open SIM", "open MAN")
             \/ SimOpen(MAN, "open MAN", "shm unlink")
      PROVE  ManInv'
  BY <1>3 DEF SimOpen
<1>4. ASSUME SimShmUnlink
      PROVE  ManInv'
  BY <1>4 DEF SimShmUnlink
<1>5. ASSUME SimShmOpen
      PROVE  ManInv'
  BY <1>5 DEF SimShmOpen
<1>6. ASSUME SimMap \/ SimInitShared \/ SimInitEntrances
      PROVE  ManInv'
  BY <1>6 DEF SimMap, SimInitShared, SimInitEntrances, SimSetUp
<1>7. ASSUME SimPost
      PROVE  ManInv'
  BY <1>7 DEF SimPost
<1>8. ASSUME SimWait
      PROVE  ManInv'
  BY <1>8 DEF SimWait
<1>9. ASSUME SimKill
      PROVE  ManInv'
  BY <1>9 DEF SimKill
<1>10. ASSUME ManStart
      PROVE  ManInv'
  BY <1>10 DEF ManStart
<1>11. ASSUME \/ ManOpen(EST, "open EST", "open SIM")
             \/ ManOpen(SIM, "open SIM", "open MAN")
             \/ ManOpen(MAN, "open MAN", "attach")
      PROVE  ManInv'
  BY <1>11 DEF ManOpen
<1>12. ASSUME ManAttach
      PROVE  ManInv'
  BY <1>12 DEF ManAttach
<1>13. ASSUME ManEstablished
      PROVE  ManInv'
  BY <1>13 DEF ManEstablished
<1>14. ASSUME ManWait
      PROVE  ManInv'
  BY <1>14 DEF ManWait
<1>15. ASSUME ManPost
      PROVE  ManInv'
  BY <1>15 DEF ManPost
<1>16. ASSUME ManEnds
      PROVE  ManInv'
  BY <1>16 DEF ManEnds
<1>17. ASSUME UNCHANGED vars
      PROVE  ManInv'
  BY <1>17 DEF vars
<1>18. ASSUME SimMode
      PROVE  ManInv'
  BY <1>18 DEF SimMode
<1>19. QED
  BY <1>1, <1>2, <1>3, <1>4, <1>5, <1>6, <1>7, <1>8, <1>9, <1>10, <1>11, <1>12,
     <1>13, <1>14, <1>15, <1>16, <1>17, <1>18
  DEF Next, Simulator, Manager

\* A segment keeps its name as long as its semaphore does, once it is set up.
LEMMA NextSegmentInv ==
  ASSUME TypeOK, PcOK, RunsInv, NamesInv, MemoryInv, SegmentInv, [Next]_vars
  PROVE  SegmentInv'
<1> USE Bounds
    DEF TypeOK, RunsInv, NamesInv, MemoryInv, SegmentInv, Runs,
        SimGoto, ManGoto, simVars, manVars, objects, ghosts
<1>1. ASSUME SimStart
      PROVE  SegmentInv'
  BY <1>1 DEF SimStart
<1>2. ASSUME \/ SimUnlink(EST, "unlink EST", "unlink SIM")
             \/ SimUnlink(SIM, "unlink SIM", "unlink MAN")
             \/ SimUnlink(MAN, "unlink MAN", "open EST")
      PROVE  SegmentInv'
  BY <1>2 DEF SimUnlink
<1>3. ASSUME \/ SimOpen(EST, "open EST", "open SIM")
             \/ SimOpen(SIM, "open SIM", "open MAN")
             \/ SimOpen(MAN, "open MAN", "shm unlink")
      PROVE  SegmentInv'
  BY <1>3 DEF SimOpen
<1>4. ASSUME SimShmUnlink
      PROVE  SegmentInv'
  BY <1>4 DEF SimShmUnlink
<1>5. ASSUME SimShmOpen
      PROVE  SegmentInv'
  BY <1>5 DEF SimShmOpen
<1>6. ASSUME SimMap \/ SimInitShared \/ SimInitEntrances
      PROVE  SegmentInv'
  <2>1. run \in Runs /\ \A g \in Runs : g # run => memory'[g] = memory[g]
    BY <1>6, Tokens DEF SimMap, SimInitShared, SimInitEntrances, SimSetUp
  <2>2. QED
    BY <1>6, <2>1 DEF SimMap, SimInitShared, SimInitEntrances, SimSetUp
<1>7. ASSUME SimPost
      PROVE  SegmentInv'
  BY <1>7 DEF SimPost
<1>8. ASSUME SimWait
      PROVE  SegmentInv'
  BY <1>8 DEF SimWait
<1>9. ASSUME SimKill
      PROVE  SegmentInv'
  BY <1>9 DEF SimKill
<1>10. ASSUME ManStart
      PROVE  SegmentInv'
  BY <1>10 DEF ManStart
<1>11. ASSUME \/ ManOpen(EST, "open EST", "open SIM")
             \/ ManOpen(SIM, "open SIM", "open MAN")
             \/ ManOpen(MAN, "open MAN", "attach")
      PROVE  SegmentInv'
  BY <1>11 DEF ManOpen
<1>12. ASSUME ManAttach
      PROVE  SegmentInv'
  BY <1>12 DEF ManAttach
<1>13. ASSUME ManEstablished
      PROVE  SegmentInv'
  BY <1>13 DEF ManEstablished
<1>14. ASSUME ManWait
      PROVE  SegmentInv'
  BY <1>14 DEF ManWait
<1>15. ASSUME ManPost
      PROVE  SegmentInv'
  BY <1>15 DEF ManPost
<1>16. ASSUME ManEnds
      PROVE  SegmentInv'
  BY <1>16 DEF ManEnds
<1>17. ASSUME UNCHANGED vars
      PROVE  SegmentInv'
  BY <1>17 DEF vars
<1>18. ASSUME SimMode
      PROVE  SegmentInv'
  BY <1>18 DEF SimMode
<1>19. QED
  BY <1>1, <1>2, <1>3, <1>4, <1>5, <1>6, <1>7, <1>8, <1>9, <1>10, <1>11, <1>12,
     <1>13, <1>14, <1>15, <1>16, <1>17, <1>18
  DEF Next, Simulator, Manager

\* A manager works on the segment that its ready signal is about.
LEMMA NextWorksInv ==
  ASSUME TypeOK, PcOK, RunsInv, NamesInv, SegmentInv, ManInv, WorksInv, [Next]_vars
  PROVE  WorksInv'
<1> USE Bounds
    DEF TypeOK, RunsInv, NamesInv, SegmentInv, ManInv, WorksInv, Runs,
        SimGoto, ManGoto, simVars, manVars, objects, ghosts
<1>1. ASSUME SimStart
      PROVE  WorksInv'
  BY <1>1 DEF SimStart
<1>2. ASSUME \/ SimUnlink(EST, "unlink EST", "unlink SIM")
             \/ SimUnlink(SIM, "unlink SIM", "unlink MAN")
             \/ SimUnlink(MAN, "unlink MAN", "open EST")
      PROVE  WorksInv'
  BY <1>2 DEF SimUnlink
<1>3. ASSUME \/ SimOpen(EST, "open EST", "open SIM")
             \/ SimOpen(SIM, "open SIM", "open MAN")
             \/ SimOpen(MAN, "open MAN", "shm unlink")
      PROVE  WorksInv'
  BY <1>3 DEF SimOpen
<1>4. ASSUME SimShmUnlink
      PROVE  WorksInv'
  BY <1>4 DEF SimShmUnlink
<1>5. ASSUME SimShmOpen
      PROVE  WorksInv'
  BY <1>5 DEF SimShmOpen
<1>6. ASSUME SimMap \/ SimInitShared \/ SimInitEntrances
      PROVE  WorksInv'
  <2>1. run \in Runs /\ \A g \in Runs : g # run => memory'[g] = memory[g]
    BY <1>6, Tokens DEF SimMap, SimInitShared, SimInitEntrances, SimSetUp
  <2>2. man_sem[SIM] # 0 => man_sem[SIM] \in Runs
    BY Tokens
  <2>3. CASE man_sem[SIM] = run
    BY <1>6, <2>1, <2>3 DEF SimMap, SimInitShared, SimInitEntrances, SimSetUp
  <2>4. CASE man_sem[SIM] # run
    BY <1>6, <2>1, <2>2, <2>4 DEF SimMap, SimInitShared, SimInitEntrances, SimSetUp
  <2>5. QED
    BY <2>3, <2>4
<1>7. ASSUME SimPost
      PROVE  WorksInv'
  BY <1>7 DEF SimPost
<1>8. ASSUME SimWait
      PROVE  WorksInv'
  BY <1>8 DEF SimWait
<1>9. ASSUME SimKill
      PROVE  WorksInv'
  BY <1>9 DEF SimKill
<1>10. ASSUME ManStart
      PROVE  WorksInv'
  BY <1>10 DEF ManStart
<1>11. ASSUME \/ ManOpen(EST, "open EST", "open SIM")
             \/ ManOpen(SIM, "open SIM", "open MAN")
             \/ ManOpen(MAN, "open MAN", "attach")
      PROVE  WorksInv'
  BY <1>11 DEF ManOpen
<1>12. ASSUME ManAttach
      PROVE  WorksInv'
  BY <1>12 DEF ManAttach
<1>13. ASSUME ManEstablished
      PROVE  WorksInv'
  BY <1>13 DEF ManEstablished
<1>14. ASSUME ManWait
      PROVE  WorksInv'
  BY <1>14 DEF ManWait
<1>15. ASSUME ManPost
      PROVE  WorksInv'
  BY <1>15 DEF ManPost
<1>16. ASSUME ManEnds
      PROVE  WorksInv'
  BY <1>16 DEF ManEnds
<1>17. ASSUME UNCHANGED vars
      PROVE  WorksInv'
  BY <1>17 DEF vars
<1>18. ASSUME SimMode
      PROVE  WorksInv'
  BY <1>18 DEF SimMode
<1>19. QED
  BY <1>1, <1>2, <1>3, <1>4, <1>5, <1>6, <1>7, <1>8, <1>9, <1>10, <1>11, <1>12,
     <1>13, <1>14, <1>15, <1>16, <1>17, <1>18
  DEF Next, Simulator, Manager

\* Objects of the running simulator are mixed with others only in its own run.
LEMMA NextOverlapInv ==
  ASSUME TypeOK, RunsInv, OverlapInv, [Next]_vars
  PROVE  OverlapInv'
<1> USE Bounds
    DEF OverlapInv, Opening,
        SimGoto, ManGoto, simVars, manVars, objects, ghosts
<1>1. ASSUME SimStart
      PROVE  OverlapInv'
  <2>1. \A s \in Sems : man_sem[s] < run'
    BY <1>1, OfEarlierRuns
  <2>2. QED
    BY <1>1, <2>1 DEF SimStart
<1>2. ASSUME \/ SimUnlink(EST, "unlink EST", "unlink SIM")
             \/ SimUnlink(SIM, "unlink SIM", "unlink MAN")
             \/ SimUnlink(MAN, "unlink MAN", "open EST")
      PROVE  OverlapInv'
  BY <1>2 DEF SimUnlink
<1>3. ASSUME \/ SimOpen(EST, "open EST", "open SIM")
             \/ SimOpen(SIM, "open SIM", "open MAN")
             \/ SimOpen(MAN, "open MAN", "shm unlink")
      PROVE  OverlapInv'
  BY <1>3 DEF SimOpen
<1>4. ASSUME SimShmUnlink
      PROVE  OverlapInv'
  BY <1>4 DEF SimShmUnlink
<1>5. ASSUME SimShmOpen
      PROVE  OverlapInv'
  BY <1>5 DEF SimShmOpen
<1>6. ASSUME SimMap \/ SimInitShared \/ SimInitEntrances
      PROVE  OverlapInv'
  BY <1>6 DEF SimMap, SimInitShared, SimInitEntrances, SimSetUp
<1>7. ASSUME SimPost
      PROVE  OverlapInv'
  BY <1>7 DEF SimPost
<1>8. ASSUME SimWait
      PROVE  OverlapInv'
  BY <1>8 DEF SimWait
<1>9. ASSUME SimKill
      PROVE  OverlapInv'
  BY <1>9 DEF SimKill
<1>10. ASSUME ManStart
      PROVE  OverlapInv'
  BY <1>10 DEF ManStart
<1>11. ASSUME \/ ManOpen(EST, "open EST", "open SIM")
             \/ ManOpen(SIM, "open SIM", "open MAN")
             \/ ManOpen(MAN, "open MAN", "attach")
      PROVE  OverlapInv'
  <2>1. overlap => mixed
    BY <1>11 DEF ManOpen
  <2>2. overlap' => mixed'
    BY <1>11, <2>1 DEF ManOpen
  <2>3. QED
    BY <2>2
<1>12. ASSUME ManAttach
      PROVE  OverlapInv'
  <2>1. overlap => mixed
    BY <1>12 DEF ManAttach
  <2>2. overlap' => mixed'
    BY <1>12, <2>1 DEF ManAttach
  <2>3. QED
    BY <2>2
<1>13. ASSUME ManEstablished
      PROVE  OverlapInv'
  BY <1>13 DEF ManEstablished
<1>14. ASSUME ManWait
      PROVE  OverlapInv'
  BY <1>14 DEF ManWait
<1>15. ASSUME ManPost
      PROVE  OverlapInv'
  BY <1>15 DEF ManPost
<1>16. ASSUME ManEnds
      PROVE  OverlapInv'
  BY <1>16 DEF ManEnds
<1>17. ASSUME UNCHANGED vars
      PROVE  OverlapInv'
  BY <1>17 DEF vars
<1>18. ASSUME SimMode
      PROVE  OverlapInv'
  BY <1>18 DEF SimMode
<1>19. QED
  BY <1>1, <1>2, <1>3, <1>4, <1>5, <1>6, <1>7, <1>8, <1>9, <1>10, <1>11, <1>12,
     <1>13, <1>14, <1>15, <1>16, <1>17, <1>18
  DEF Next, Simulator, Manager

\* Only a segment that is set up is announced as ready.
LEMMA NextReady ==
  ASSUME TypeOK, PcOK, RunsInv, NamesInv, MemoryInv, WorksInv, ReadyMeansSetUp,
         [Next]_vars
  PROVE  ReadyMeansSetUp'
<1> USE Bounds
    DEF ReadyMeansSetUp,
        SimGoto, ManGoto, simVars, manVars, objects, ghosts
<1>1. ASSUME SimStart
      PROVE  ReadyMeansSetUp'
  BY <1>1 DEF SimStart
<1>2. ASSUME \/ SimUnlink(EST, "unlink EST", "unlink SIM")
             \/ SimUnlink(SIM, "unlink SIM", "unlink MAN")
             \/ SimUnlink(MAN, "unlink MAN", "open EST")
      PROVE  ReadyMeansSetUp'
  BY <1>2 DEF SimUnlink
<1>3. ASSUME \/ SimOpen(EST, "open EST", "open SIM")
             \/ SimOpen(SIM, "open SIM", "open MAN")
             \/ SimOpen(MAN, "open MAN", "shm unlink")
      PROVE  ReadyMeansSetUp'
  BY <1>3 DEF SimOpen
<1>4. ASSUME SimShmUnlink
      PROVE  ReadyMeansSetUp'
  BY <1>4 DEF SimShmUnlink
<1>5. ASSUME SimShmOpen
      PROVE  ReadyMeansSetUp'
  BY <1>5 DEF SimShmOpen
<1>6. ASSUME SimMap \/ SimInitShared \/ SimInitEntrances
      PROVE  ReadyMeansSetUp'
  <2>1. sim_pc # "off" /\ run \in Runs /\ memory[run] # "ready"
    BY <1>6, Tokens DEF SimMap, SimInitShared, SimInitEntrances, SimSetUp,
       MemoryInv
  <2>2. \A g \in Runs : g # run => memory'[g] = memory[g]
    BY <1>6 DEF SimMap, SimInitShared, SimInitEntrances, SimSetUp, TypeOK
  <2>3. man_pc \in {"post", "serving"} => man_sem[SIM] \in Runs
    BY Tokens DEF RunsInv
  <2>4. QED
    BY <1>6, <2>1, <2>2, <2>3 DEF SimMap, SimInitShared, SimInitEntrances, SimSetUp
<1>7. ASSUME SimPost
      PROVE  ReadyMeansSetUp'
  <2>1. Changed(SIM, run, 1)
    BY <1>7, Tokens
  <2>2. memory[run] = "ready"
    BY <1>7 DEF SimPost, MemoryInv
  <2>3. QED
    BY <1>7, <2>1, <2>2 DEF SimPost, Changed
<1>8. ASSUME SimWait
      PROVE  ReadyMeansSetUp'
  <2>1. Changed(MAN, run, -1)
    BY <1>8, Tokens
  <2>2. QED
    BY <1>8, <2>1 DEF SimWait, Changed
<1>9. ASSUME SimKill
      PROVE  ReadyMeansSetUp'
  BY <1>9 DEF SimKill
<1>10. ASSUME ManStart
      PROVE  ReadyMeansSetUp'
  BY <1>10 DEF ManStart
<1>11. ASSUME \/ ManOpen(EST, "open EST", "open SIM")
             \/ ManOpen(SIM, "open SIM", "open MAN")
             \/ ManOpen(MAN, "open MAN", "attach")
      PROVE  ReadyMeansSetUp'
  BY <1>11 DEF ManOpen
<1>12. ASSUME ManAttach
      PROVE  ReadyMeansSetUp'
  BY <1>12 DEF ManAttach
<1>13. ASSUME ManEstablished
      PROVE  ReadyMeansSetUp'
  <2>1. Changed(EST, man_sem[EST], 1)
    BY <1>13, Tokens
  <2>2. QED
    BY <1>13, <2>1 DEF ManEstablished, Changed
<1>14. ASSUME ManWait
      PROVE  ReadyMeansSetUp'
  <2>1. Changed(SIM, man_sem[SIM], -1)
    BY <1>14, Tokens
  <2>2. memory[man_sem[SIM]] = "ready" /\ (~overlap => man_shm = man_sem[SIM])
    BY <1>14, <2>1, Tokens DEF Changed, ManWait, WorksInv
  <2>3. \A g \in Runs : sem_val'[SIM][g] > 0 => sem_val[SIM][g] > 0
    BY <1>14, <2>1, Tokens DEF Changed, TypeOK
  <2>4. QED
    BY <1>14, <2>1, <2>2, <2>3 DEF ManWait
<1>15. ASSUME ManPost
      PROVE  ReadyMeansSetUp'
  <2>1. Changed(MAN, man_sem[MAN], 1)
    BY <1>15, Tokens
  <2>2. QED
    BY <1>15, <2>1 DEF ManPost, Changed
<1>16. ASSUME ManEnds
      PROVE  ReadyMeansSetUp'
  BY <1>16 DEF ManEnds
<1>17. ASSUME UNCHANGED vars
      PROVE  ReadyMeansSetUp'
  BY <1>17 DEF vars
<1>18. ASSUME SimMode
      PROVE  ReadyMeansSetUp'
  BY <1>18 DEF SimMode
<1>19. QED
  BY <1>1, <1>2, <1>3, <1>4, <1>5, <1>6, <1>7, <1>8, <1>9, <1>10, <1>11, <1>12,
     <1>13, <1>14, <1>15, <1>16, <1>17, <1>18
  DEF Next, Simulator, Manager

\* No step makes a second ready signal of a run or loses it.
LEMMA NextSignal ==
  ASSUME TypeOK, RunsInv, FreshInv, NamesInv, ManInv, OverlapInv, SignalInv,
         [Next]_vars
  PROVE  SignalInv'
<1> USE DEF SignalInv,
        SimGoto, ManGoto, simVars, manVars, objects, ghosts
<1>1. ASSUME SimStart
      PROVE  SignalInv'
  <2>1. run \in Nat /\ run' = run + 1 /\ run' \in Runs /\ run' > run
    BY <1>1, NextRun
  <2>2. sem_val'[SIM][run'] = 0 /\ sem_val'[MAN][run'] = 0 /\ TakenAlong' = 0
    BY <1>1, <2>1, Bounds DEF SimStart, FreshInv, TakenAlong
  <2>3. man_sem[SIM] \in Nat /\ man_sem[SIM] <= run
    BY Bounds DEF TypeOK, RunsInv
  <2>4. man_sem[SIM] # run'
    BY <2>1, <2>3
  <2>5. WithManager' = 0
    BY <1>1, <2>4 DEF SimStart, WithManager
  <2>6. Back' = 0 /\ Allowed' = {0}
    BY <1>1 DEF SimStart, Back, Allowed
  <2>7. Signals' = 0
    BY <2>2, <2>5, <2>6 DEF Signals
  <2>8. QED
    BY <2>6, <2>7
<1>2. ASSUME \/ SimUnlink(EST, "unlink EST", "unlink SIM")
             \/ SimUnlink(SIM, "unlink SIM", "unlink MAN")
             \/ SimUnlink(MAN, "unlink MAN", "open EST")
      PROVE  SignalInv'
  <2>1. Signals' = Signals /\ Allowed' = Allowed
    BY <1>2 DEF SimUnlink, Signals, Allowed, WithManager, TakenAlong, Back
  <2>2. QED
    BY <1>2, <2>1 DEF SimUnlink
<1>3. ASSUME \/ SimOpen(EST, "open EST", "open SIM")
             \/ SimOpen(SIM, "open SIM", "open MAN")
             \/ SimOpen(MAN, "open MAN", "shm unlink")
      PROVE  SignalInv'
  <2>1. Signals' = Signals /\ Allowed' = Allowed
    BY <1>3 DEF SimOpen, Signals, Allowed, WithManager, TakenAlong, Back
  <2>2. QED
    BY <1>3, <2>1 DEF SimOpen
<1>4. ASSUME SimShmUnlink
      PROVE  SignalInv'
  <2>1. Signals' = Signals /\ Allowed' = Allowed
    BY <1>4 DEF SimShmUnlink, Signals, Allowed, WithManager, TakenAlong, Back
  <2>2. QED
    BY <1>4, <2>1 DEF SimShmUnlink
<1>5. ASSUME SimShmOpen
      PROVE  SignalInv'
  <2>1. Signals' = Signals /\ Allowed' = Allowed
    BY <1>5 DEF SimShmOpen, Signals, Allowed, WithManager, TakenAlong, Back
  <2>2. QED
    BY <1>5, <2>1 DEF SimShmOpen
<1>6. ASSUME SimMap \/ SimInitShared \/ SimInitEntrances
      PROVE  SignalInv'
  <2>1. Signals' = Signals /\ Allowed' = Allowed
    BY <1>6 DEF SimMap, SimInitShared, SimInitEntrances, SimSetUp, Signals,
       Allowed, WithManager, TakenAlong, Back
  <2>2. QED
    BY <1>6, <2>1 DEF SimMap, SimInitShared, SimInitEntrances, SimSetUp
<1>7. ASSUME SimPost
      PROVE  SignalInv'
  <2>1. Changed(SIM, run, 1)
    BY <1>7, Tokens
  <2>2. run \in Runs /\ run' = run
    BY <1>7, Tokens DEF SimPost
  <2>3. Back' = Back /\ WithManager' = WithManager /\ TakenAlong' = TakenAlong
    BY <1>7 DEF SimPost, WithManager, TakenAlong, Back
  <2>4. sem_val'[SIM][run] = sem_val[SIM][run] + 1
        /\ sem_val'[MAN][run] = sem_val[MAN][run]
    BY <2>1, <2>2, Bounds DEF Changed
  <2>5. Signals \in Int /\ Signals' = Signals + 1
    BY <2>2, <2>3, <2>4, Terms DEF Signals
  <2>6. Allowed = {0} /\ Allowed' = {1}
    BY <1>7 DEF SimPost, Allowed
  <2>7. QED
    BY <1>7, <2>1, <2>2, <2>3, <2>4, <2>5, <2>6 DEF SimPost
<1>8. ASSUME SimWait
      PROVE  SignalInv'
  <2>1. Changed(MAN, run, -1)
    BY <1>8, Tokens
  <2>2. run \in Runs /\ run' = run
    BY <1>8, Tokens DEF SimWait
  <2>3. Back = 0 /\ Back' = 1 /\ WithManager' = WithManager
        /\ TakenAlong' = TakenAlong
    BY <1>8 DEF SimWait, WithManager, TakenAlong, Back
  <2>4. sem_val'[SIM][run] = sem_val[SIM][run]
        /\ sem_val'[MAN][run] = sem_val[MAN][run] + (-1)
    BY <2>1, <2>2, Bounds DEF Changed
  <2>5. Signals' = Signals
    BY <2>2, <2>3, <2>4, Terms DEF Signals
  <2>6. Allowed' = Allowed
    BY <1>8 DEF SimWait, Allowed
  <2>7. QED
    BY <1>8, <2>1, <2>2, <2>3, <2>4, <2>5, <2>6 DEF SimWait
<1>9. ASSUME SimKill
      PROVE  SignalInv'
  <2>1. run \in Runs /\ run' = run /\ sem_val' = sem_val
    BY <1>9, Tokens DEF SimKill
  <2>2. WithManager' = WithManager /\ TakenAlong' = TakenAlong /\ Back' = 0
    BY <1>9 DEF SimKill, WithManager, TakenAlong, Back
  <2>3. Signals \in Nat /\ Signals' \in Nat /\ Signals' = Signals - Back
    BY <2>1, <2>2, Terms DEF Signals
  <2>4. Signals \in Allowed => Signals \in {0, 1}
    BY DEF Allowed
  <2>5. Signals \in {0, 1} => Signals' \in {0, 1}
    BY <2>3, Terms
  <2>6. Allowed' = {0, 1}
    BY <1>9 DEF SimKill, Allowed
  <2>7. QED
    BY <1>9, <2>1, <2>2, <2>3, <2>4, <2>5, <2>6 DEF SimKill
<1>10. ASSUME ManStart
      PROVE  SignalInv'
  <2>1. Signals' = Signals /\ Allowed' = Allowed
    BY <1>10 DEF ManStart, Signals, Allowed, WithManager, TakenAlong, Back
  <2>2. QED
    BY <1>10, <2>1 DEF ManStart
<1>11. ASSUME \/ ManOpen(EST, "open EST", "open SIM")
             \/ ManOpen(SIM, "open SIM", "open MAN")
             \/ ManOpen(MAN, "open MAN", "attach")
      PROVE  SignalInv'
  <2>1. Signals' = Signals /\ Allowed' = Allowed
    BY <1>11 DEF ManOpen, Signals, Allowed, WithManager, TakenAlong, Back
  <2>2. QED
    BY <1>11, <2>1 DEF ManOpen
<1>12. ASSUME ManAttach
      PROVE  SignalInv'
  <2>1. Signals' = Signals /\ Allowed' = Allowed
    BY <1>12 DEF ManAttach, Signals, Allowed, WithManager, TakenAlong, Back
  <2>2. QED
    BY <1>12, <2>1 DEF ManAttach
<1>13. ASSUME ManEstablished
      PROVE  SignalInv'
  <2>1. Changed(EST, man_sem[EST], 1)
    BY <1>13, Tokens
  <2>2. Back' = Back /\ WithManager' = WithManager /\ TakenAlong' = TakenAlong
        /\ run' = run
    BY <1>13 DEF ManEstablished, WithManager, TakenAlong, Back
  <2>3. run # 0 => run \in Runs
    BY DEF TypeOK, Runs
  <2>4. run # 0 =>
          sem_val'[SIM][run] = sem_val[SIM][run] /\ sem_val'[MAN][run] = sem_val[MAN][run]
    BY <2>1, <2>3, Bounds DEF Changed
  <2>5. run # 0 => Signals' = Signals
    BY <2>2, <2>4 DEF Signals
  <2>6. QED
    BY <1>13, <2>1, <2>2, <2>3, <2>4, <2>5 DEF ManEstablished, Allowed
<1>14. ASSUME ManWait
      PROVE  SignalInv'
  <2>1. Changed(SIM, man_sem[SIM], -1)
    BY <1>14, Tokens
  <2>2. Back' = Back /\ TakenAlong' = TakenAlong /\ WithManager = 0
        /\ Allowed' = Allowed /\ run' = run
    BY <1>14 DEF ManWait, WithManager, TakenAlong, Back, Allowed
  <2>3. run # 0 => run \in Runs
    BY DEF TypeOK, Runs
  <2>4. WithManager' = IF man_sem[SIM] = run THEN 1 ELSE 0
    BY <1>14 DEF ManWait, WithManager
  <2>5. run # 0 => sem_val'[MAN][run] = sem_val[MAN][run]
    BY <2>1, <2>3, Bounds DEF Changed
  <2>6. run # 0 =>
          sem_val'[SIM][run] = IF man_sem[SIM] = run THEN sem_val[SIM][run] + (-1)
                               ELSE sem_val[SIM][run]
    BY <2>1, <2>3, Bounds DEF Changed
  <2>7. run # 0 => Signals' = Signals
    BY <2>2, <2>3, <2>4, <2>5, <2>6, Terms DEF Signals
  <2>8. QED
    BY <1>14, <2>1, <2>2, <2>3, <2>4, <2>5, <2>6, <2>7 DEF ManWait
<1>15. ASSUME ManPost
      PROVE  SignalInv'
  <2>1. Changed(MAN, man_sem[MAN], 1)
    BY <1>15, Tokens
  <2>2. Back' = Back /\ TakenAlong' = TakenAlong /\ WithManager' = 0
        /\ Allowed' = Allowed /\ run' = run
    BY <1>15 DEF ManPost, WithManager, TakenAlong, Back, Allowed
  <2>3. run # 0 => run \in Runs
    BY DEF TypeOK, Runs
  <2>4. ~mixed => (man_sem[SIM] = run <=> man_sem[MAN] = run)
    <3>1. CASE ~overlap
      BY <1>15, <3>1 DEF ManPost, ManInv, RunsInv
    <3>2. CASE overlap /\ ~mixed
      <4>1. run \in Nat /\ man_sem[SIM] \in Nat /\ man_sem[MAN] \in Nat
        BY Bounds DEF TypeOK
      <4>2. man_sem[SIM] < run /\ man_sem[MAN] < run
        BY <3>2, Bounds DEF OverlapInv
      <4>3. QED
        BY <4>1, <4>2
    <3>3. QED
      BY <3>1, <3>2
  <2>5. WithManager = IF man_sem[SIM] = run THEN 1 ELSE 0
    BY <1>15 DEF ManPost, WithManager
  <2>6. run # 0 => sem_val'[SIM][run] = sem_val[SIM][run]
    BY <2>1, <2>3, Bounds DEF Changed
  <2>7. run # 0 =>
          sem_val'[MAN][run] = IF man_sem[MAN] = run THEN sem_val[MAN][run] + 1
                               ELSE sem_val[MAN][run]
    BY <2>1, <2>3, Bounds DEF Changed
  <2>8. run # 0 /\ ~mixed => Signals' = Signals
    BY <2>2, <2>3, <2>4, <2>5, <2>6, <2>7, Terms DEF Signals
  <2>9. QED
    BY <1>15, <2>1, <2>2, <2>3, <2>4, <2>5, <2>6, <2>7, <2>8 DEF ManPost
<1>16. ASSUME ManEnds
      PROVE  SignalInv'
  <2>1. Back' = Back /\ WithManager' = 0 /\ Allowed' = Allowed /\ run' = run
        /\ sem_val' = sem_val
    BY <1>16 DEF ManEnds, WithManager, Back, Allowed
  <2>2. run # 0 => run \in Runs
    BY DEF TypeOK, Runs
  <2>3. TakenAlong' = IF WithManager = 1 THEN 1 ELSE TakenAlong
    BY <1>16 DEF ManEnds, WithManager, TakenAlong
  <2>4. Signals \in Allowed => Signals \in {0, 1}
    BY DEF Allowed
  <2>5. run # 0 /\ Signals \in {0, 1} => Signals' = Signals
    BY <2>1, <2>2, <2>3, Terms DEF Signals
  <2>6. QED
    BY <1>16, <2>1, <2>2, <2>3, <2>4, <2>5 DEF ManEnds
<1>17. ASSUME UNCHANGED vars
      PROVE  SignalInv'
  <2>1. Signals' = Signals /\ Allowed' = Allowed
    BY <1>17 DEF vars, Signals, Allowed, WithManager, TakenAlong, Back
  <2>2. QED
    BY <1>17, <2>1 DEF vars
<1>18. ASSUME SimMode
      PROVE  SignalInv'
  <2>1. Signals' = Signals /\ Allowed' = Allowed
    BY <1>18 DEF SimMode, Signals, Allowed, WithManager, TakenAlong, Back
  <2>2. QED
    BY <1>18, <2>1 DEF SimMode
<1>19. QED
  BY <1>1, <1>2, <1>3, <1>4, <1>5, <1>6, <1>7, <1>8, <1>9, <1>10, <1>11, <1>12,
     <1>13, <1>14, <1>15, <1>16, <1>17, <1>18
  DEF Next, Simulator, Manager

-----------------------------------------------------------------------------

\* The inductive step.
LEMMA NextIInv == IInv /\ [Next]_vars => IInv'
<1> SUFFICES ASSUME IInv, [Next]_vars
             PROVE  IInv'
  OBVIOUS
<1>1. /\ TypeOK /\ PcOK /\ RunsInv /\ FreshInv /\ NamesInv /\ MemoryInv
      /\ ManInv /\ SegmentInv /\ WorksInv /\ OverlapInv
      /\ ReadyMeansSetUp /\ SignalInv
  BY DEF IInv
<1>2. TypeOK' /\ PcOK' /\ RunsInv' /\ FreshInv'
  BY <1>1, NextTypeOK, NextPcOK, NextRunsInv, NextFreshInv
<1>3. NamesInv' /\ MemoryInv' /\ ManInv'
  BY <1>1, NextNamesInv, NextMemoryInv, NextManInv
<1>4. SegmentInv' /\ WorksInv' /\ OverlapInv'
  BY <1>1, NextSegmentInv, NextWorksInv, NextOverlapInv
<1>5. ReadyMeansSetUp' /\ SignalInv'
  BY <1>1, NextReady, NextSignal
<1>6. QED
  BY <1>2, <1>3, <1>4, <1>5 DEF IInv

\* The invariant holds of every run of the programs.
LEMMA Invariance == Spec => []IInv
<1>1. QED
  BY InitIInv, NextIInv, PTL DEF Spec

\* The cardinalities of SignalConserved are the zeros and ones of SignalInv.
LEMMA OneOrNone ==
  ASSUME NEW x, NEW P \in BOOLEAN
  PROVE  Cardinality({y \in {x} : P}) = IF P THEN 1 ELSE 0
<1>1. CASE P
  <2>1. {y \in {x} : P} = {x}
    BY <1>1
  <2>2. QED
    BY <1>1, <2>1, FS_Singleton
<1>2. CASE ~P
  <2>1. {y \in {x} : P} = {}
    BY <1>2
  <2>2. QED
    BY <1>2, <2>1, FS_EmptySet
<1>3. QED
  BY <1>1, <1>2

LEMMA SignalsCounted == SignalInv => SignalConserved
<1>1. Cardinality({m \in {man_sem[SIM]} : man_pc = "post"
      /\ m = run}) = WithManager
  <2> DEFINE P == man_pc = "post" /\ man_sem[SIM] = run
  <2>1. {m \in {man_sem[SIM]} : man_pc = "post" /\ m = run}
        = {m \in {man_sem[SIM]} : P}
    OBVIOUS
  <2>2. P \in BOOLEAN
    OBVIOUS
  <2>3. Cardinality({m \in {man_sem[SIM]} : P}) = IF P THEN 1 ELSE 0
    BY <2>2, OneOrNone
  <2>4. QED
    BY <2>1, <2>3 DEF WithManager
<1>2. Cardinality({g \in lost : g = run}) = TakenAlong
  <2>1. {g \in lost : g = run} = {g \in {run} : run \in lost}
    OBVIOUS
  <2>2. (run \in lost) \in BOOLEAN
    OBVIOUS
  <2>3. Cardinality({g \in {run} : run \in lost}) = IF run \in lost
        THEN 1 ELSE 0
    BY <2>2, OneOrNone
  <2>4. QED
    BY <2>1, <2>3 DEF TakenAlong
<1>3. Cardinality({x \in {sim_pc} : x = "generating"}) = Back
  <2>1. {x \in {sim_pc} : x = "generating"} = {x
        \in {sim_pc} : sim_pc = "generating"}
    OBVIOUS
  <2>2. (sim_pc = "generating") \in BOOLEAN
    OBVIOUS
  <2>3. Cardinality({x \in {sim_pc} : sim_pc = "generating"})
        = IF sim_pc = "generating" THEN 1 ELSE 0
    BY <2>2, OneOrNone
  <2>4. QED
    BY <2>1, <2>3 DEF Back
<1>4. QED
  BY <1>1, <1>2, <1>3 DEF SignalInv, SignalConserved, Signals, Allowed

-----------------------------------------------------------------------------

\* The state stays what main of the simulator and of the manager can make of it,
\* however often they are killed and started.
THEOREM StartupTypeOK == Spec => []TypeOK
<1>1. IInv => TypeOK
  BY DEF IInv
<1>2. QED
  BY <1>1, Invariance, PTL

\* The post of the simulator on SIM_READY means what it says, whoever gets it
\* and when: the segment of that run of the simulator is set up, and it is the
\* one that the manager has mapped, unless the simulator replaced the objects
\* while this very manager opened them.
THEOREM StartupReadyMeansSetUp == Spec => []ReadyMeansSetUp
<1>1. IInv => ReadyMeansSetUp
  BY DEF IInv
<1>2. QED
  BY <1>1, Invariance, PTL

\* sem_post and sem_wait of the two programs neither double the ready signal of
\* a run nor lose it, except with a manager that is killed holding it, as long
\* as no manager opens objects while this run of the simulator replaces them.
THEOREM StartupSignalConserved == Spec => []SignalConserved
<1>1. IInv => SignalConserved
  BY SignalsCounted DEF IInv
<1>2. QED
  BY <1>1, Invariance, PTL

\* A manager that answers the simulator has mapped the segment of that run, if
\* the objects were not replaced while this very manager opened them.
THEOREM StartupAnswersFromSameSegment == Spec => []AnswersFromSameSegment
<1>1. IInv => AnswersFromSameSegment
  BY DEF IInv, NamesInv, ManInv, AnswersFromSameSegment
<1>2. QED
  BY <1>1, Invariance, PTL

=============================================================================
