---------------------------- MODULE GradingProofs ----------------------------
(***************************************************************************)
(* Proofs about the three parts that MCGrading puts side by side, each for *)
(* every value of its constants.                                           *)
(***************************************************************************)
EXTENDS MCGrading, SequenceTheorems, FunctionTheorems, FiniteInduction

-----------------------------------------------------------------------------
(***************************************************************************)
(* Execution, for every number of test cases, every choice of programs and *)
(* modes, and any number of faults of every kind.                          *)
(***************************************************************************)

(* The steps, flattened. *)
LEMMA NextCases ==
  ASSUME Next
  PROVE  \/ Resolve \/ Refuse \/ Prepare \/ PrepareFails \/ Spawn \/ SpawnFails
         \/ Compiles \/ CompileError \/ Judge \/ Cleanup
         \/ Overflow \/ HardTimeout \/ DaemonStops
         \/ \E r \in Runs : \/ ContainerStarts(r) \/ NeverStarts(r) \/ Exits(r) \/ Timeout(r)
                            \/ KillArrives(r)
  BY DEF Next, Grader, Machine

(* A test case is judged when all before it have been. *)
Counted ==
  /\ step \in {"resolve", "prepare", "spawn", "await"} =>
       Len(results) = IF i = 0 THEN 0 ELSE i - 1
  /\ step \in {"resolve", "prepare"} => i = 0

LEMMA ExitCodeType ==
  ASSUME NEW b \in Behaviours, b \notin Endless
  PROVE  /\ ExitCode(b) \in {"0", "1", "137"}
         /\ ExitCode(b) = "0" => b \in {"right", "wrong", "burst"}
         /\ ExitCode(b) = "1" => b = "crash"
         /\ ExitCode(b) = "137" => b = "memory"
  BY DEF ExitCode, Behaviours, Endless

LEMMA ClassifyType == ASSUME NEW r PROVE Classify(r) \in Verdicts
  BY DEF Classify, Verdicts

(* No fault strikes oftener than the bound. *)
LEMMA FaultsType == ASSUME TypeOK, NEW kind, Strike(kind) PROVE faults' \in 0 .. MaxFaults
  BY ExecutionAssumption DEF TypeOK, Strike

LEMMA TypeStep ==
  ASSUME TypeOK, Counted, [Next]_vars
  PROVE  TypeOK' /\ Counted'
  <1> USE DEF TypeOK, Counted
  <1>a. Tests \in Nat /\ Tests >= 1 /\ MaxFaults \in Nat /\ Runs = 0 .. Tests
    BY ExecutionAssumption DEF Runs
  <1>1. CASE Resolve \/ Refuse \/ Prepare \/ Cleanup
    <2>1. CASE Resolve
      <3>1. cached' \in BOOLEAN /\ backend' \in {"docker", "host"}
        BY <2>1, ZenonT(30) DEF Resolve
      <3> QED
        BY <2>1, <3>1 DEF Resolve, given, runVars
    <2>2. CASE Refuse
      BY <2>2 DEF Refuse, given, envVars, runVars
    <2>3. CASE Prepare
      BY <2>3 DEF Prepare, given, runVars
    <2>4. CASE Cleanup
      <3>1. workDir' \in BOOLEAN
        BY <2>4 DEF Cleanup
      <3>2. Counted'
        BY <2>4 DEF Cleanup
      <3> QED
        BY <2>4, <3>1, <3>2 DEF Cleanup, given, runVars
    <2> QED
      BY <1>1, <2>1, <2>2, <2>3, <2>4
  <1>2. CASE PrepareFails
    BY <1>2, FaultsType DEF PrepareFails, given, runVars
  <1>3. CASE Spawn
    BY <1>3 DEF Spawn, given, envVars
  <1>4. CASE SpawnFails
    BY <1>4, FaultsType DEF SpawnFails, given, envVars
  <1>5. CASE Compiles
    <2>1. step = "await" /\ i = 0 /\ i' = 1 /\ step' = "spawn" /\ 1 \in Runs
      BY <1>5, <1>a DEF Compiles, Closed
    <2>2. Len(results') = 0 /\ results' = results
      BY <1>5, <2>1 DEF Compiles
    <2>3. Counted'
      BY <2>1, <2>2
    <2> QED
      BY <1>5, <2>1, <2>2, <2>3 DEF Compiles, given, envVars
  <1>6. CASE CompileError
    BY <1>6 DEF CompileError, Closed, given, envVars
  <1>7. CASE Judge
    <2>1. /\ step = "await" /\ i \in Int /\ i > 0 /\ i <= Tests /\ Len(results) = i - 1
          /\ results' = Append(results, Classify(i))
      BY <1>7, <1>a DEF Judge, Closed
    <2>2. results' \in Seq(Verdicts) /\ Len(results') = i
      BY <2>1, ClassifyType
    <2>3. /\ step' \in {"spawn", "cleanup"} /\ outcome' \in {outcome, "graded"}
          /\ i' \in 0 .. Tests /\ (step' = "spawn" => i' = i + 1)
      BY <1>7, <1>a, <2>1 DEF Judge
    <2>4. Len(results') <= Tests /\ i' \in Runs
      BY <1>a, <2>1, <2>2, <2>3
    <2>5. Counted'
      <3>1. step' = "spawn" => i' # 0 /\ i' - 1 = i
        BY <2>1, <2>3
      <3> HIDE DEF TypeOK
      <3> QED
        BY <2>2, <2>3, <3>1
    <2>6. armed' \in BOOLEAN
      BY <1>7 DEF Judge
    <2>7. TypeOK'
      BY <1>7, <2>2, <2>3, <2>4, <2>6 DEF Judge, given, envVars
    <2> QED
      BY <2>5, <2>7
  <1>8. CASE Overflow
    BY <1>8 DEF Overflow, ClientEnds, KeepRun, given, envVars
  <1>9. CASE HardTimeout
    <2>1. faults' \in 0 .. MaxFaults
      BY <1>9, FaultsType DEF HardTimeout, TimerDue
    <2> QED
      BY <1>9, <2>1 DEF HardTimeout, ClientEnds, KeepRun, given, envVars
  <1>10. CASE DaemonStops
    <2>1. faults' \in 0 .. MaxFaults
      BY <1>10, FaultsType DEF DaemonStops
    <2>2. prog' \in [Runs -> {"none", "creating", "live", "ended", "failed"}]
      BY <1>10 DEF DaemonStops
    <2>3. /\ client' \in {"none", "live", "dead"}
          /\ code' \in {"none", "0", "1", "124", "125", "137", "null", "-1"}
      BY <1>10 DEF DaemonStops, ClientEnds
    <2>4. daemon' \in BOOLEAN
      BY <1>10 DEF DaemonStops
    <2>5. Counted'
      BY <1>10 DEF DaemonStops
    <2>6. TypeOK'
      BY <1>10, <2>1, <2>2, <2>3, <2>4 DEF DaemonStops, given
    <2> QED
      BY <2>5, <2>6
  <1>11. ASSUME NEW r \in Runs, ContainerStarts(r) \/ KillArrives(r) PROVE TypeOK' /\ Counted'
    BY <1>11 DEF ContainerStarts, KillArrives, KeepRun, given, envVars, runVars
  <1>12. ASSUME NEW r \in Runs, NeverStarts(r) PROVE TypeOK' /\ Counted'
    BY <1>12 DEF NeverStarts, Ends, ClientEnds, KeepRun, given, envVars
  <1>13. ASSUME NEW r \in Runs, Exits(r) PROVE TypeOK' /\ Counted'
    <2>1. ExitCode(program[r]) \in {"0", "1", "137"}
      BY <1>13, ExitCodeType DEF Exits
    <2> QED
      BY <1>13, <2>1 DEF Exits, Ends, ClientEnds, KeepRun, given, envVars
  <1>14. ASSUME NEW r \in Runs, Timeout(r) PROVE TypeOK' /\ Counted'
    <2>1. faults' \in 0 .. MaxFaults
      BY <1>14, FaultsType DEF Timeout
    <2> QED
      BY <1>14, <2>1 DEF Timeout, Ends, ClientEnds, KeepRun, given, envVars
  <1>15. CASE UNCHANGED vars
    BY <1>15 DEF vars, given, envVars, runVars
  <1> QED
    BY <1>1, <1>2, <1>3, <1>4, <1>5, <1>6, <1>7, <1>8, <1>9, <1>10, <1>11, <1>12, <1>13, <1>14,
       <1>15, NextCases

LEMMA TypeInvariance == Spec => [](TypeOK /\ Counted)
  <1>1. Init => TypeOK /\ Counted
    <2> SUFFICES ASSUME Init PROVE TypeOK /\ Counted
      OBVIOUS
    <2>1. Tests \in Nat /\ MaxFaults \in Nat /\ Runs = 0 .. Tests /\ 0 \in Runs
      BY ExecutionAssumption DEF Runs
    <2>2. results \in Seq(Verdicts) /\ Len(results) = 0
      BY DEF Init
    <2> QED
      BY <2>1, <2>2 DEF Init, TypeOK, Counted
  <1> QED
    BY <1>1, TypeStep, PTL DEF Spec

(* The types of all variables; no more verdicts than test cases, and none   *)
(* in advance.                                                             *)
THEOREM ExecutionTyping == Spec => []TypeOK
  BY TypeInvariance, PTL

-----------------------------------------------------------------------------
(***************************************************************************)
(* What is true of the current run while it is awaited, and of the others. *)
(***************************************************************************)

(* Only what has been spawned can have a container or a program. *)
Begun ==
  /\ \A r \in Runs : prog[r] # "none" =>
       r < i \/ (r = i /\ step \in {"await", "cleanup", "done"} /\ outcome # "threw")
  /\ outcome = "threw" => step = "done"
  /\ step \in {"spawn", "await", "cleanup"} => backend \in {"docker", "host"}
  /\ \A r \in Runs : prog[r] = "creating" => backend = "docker"

(* The exit code is known when the spawned process is gone. *)
Watched ==
  /\ client = "live" => step = "await" /\ code = "none"
  /\ client = "dead" => code # "none"
  /\ step = "await" => client # "none"

(* What ended the current run, as far as code and flags tell. *)
ExitKnown ==
  step = "await" =>
    /\ code = "0" => program[i] \in {"right", "wrong", "burst"}
    /\ code = "1" => program[i] = "crash"
    /\ code = "137" => program[i] = "memory"
    /\ code = "null" => killedForTimeout \/ killedForOutput
    /\ killedForOutput => program[i] \in {"flood", "burst"}

Fair == faults = 0 /\ (daemon \/ backend = "host")

(* And on a machine and a sandbox that work. *)
FairExit ==
  step = "await" /\ Fair =>
    /\ code # "-1" /\ code # "125"
    /\ code = "124" => program[i] \in {"loop", "flood"}
    /\ killedForTimeout /\ i > 0 => program[i] \in Endless

(* What still runs is waited for, or is known to be astray. *)
Kept ==
  \A r \in Runs : prog[r] \in {"creating", "live"} =>
    \/ r = i /\ step = "await" /\ (client = "live" \/ backend = "host")
    \/ r \in killSent \/ program[r] \in {"flood", "burst"}

RunInv == TypeOK /\ Counted /\ Begun /\ Watched /\ ExitKnown /\ FairExit /\ Kept
IInv == RunInv /\ VerdictIsDeserved /\ WorkDirGone

LEMMA BegunStep == ASSUME RunInv, [Next]_vars PROVE Begun'
  <1> USE DEF RunInv, TypeOK, Counted, Begun
  <1>a. Tests \in Nat /\ Runs = 0 .. Tests
    BY ExecutionAssumption DEF Runs
  <1>1. CASE Resolve
    BY <1>1, <1>a DEF Resolve, given, runVars
  <1>2. CASE Refuse \/ Prepare \/ PrepareFails
    BY <1>2, <1>a DEF Refuse, Prepare, PrepareFails, given, envVars, runVars
  <1>3. CASE Spawn
    BY <1>3, <1>a DEF Spawn, given, envVars
  <1>4. CASE SpawnFails \/ CompileError \/ Cleanup
    BY <1>4, <1>a DEF SpawnFails, CompileError, Closed, Cleanup, given, envVars, runVars
  <1>5. CASE Compiles
    BY <1>5, <1>a DEF Compiles, Closed, given, envVars
  <1>6. CASE Judge
    BY <1>6, <1>a DEF Judge, Closed, given, envVars
  <1>7. CASE Overflow \/ HardTimeout
    BY <1>7 DEF Overflow, HardTimeout, KeepRun, given, envVars
  <1>8. CASE DaemonStops
    BY <1>8 DEF DaemonStops, given
  <1>9. ASSUME NEW r \in Runs, ContainerStarts(r) \/ KillArrives(r) PROVE Begun'
    BY <1>9 DEF ContainerStarts, KillArrives, KeepRun, given, envVars, runVars
  <1>10. ASSUME NEW r \in Runs, NeverStarts(r) \/ Exits(r) \/ Timeout(r) PROVE Begun'
    BY <1>10 DEF NeverStarts, Exits, Timeout, Ends, KeepRun, given, envVars
  <1>11. CASE UNCHANGED vars
    BY <1>11 DEF vars, given, envVars, runVars
  <1> QED
    BY <1>1, <1>2, <1>3, <1>4, <1>5, <1>6, <1>7, <1>8, <1>9, <1>10, <1>11, NextCases

LEMMA WatchedStep == ASSUME RunInv, [Next]_vars PROVE Watched'
  <1> USE DEF RunInv, TypeOK, Watched
  <1>1. CASE Resolve \/ Refuse \/ Prepare \/ PrepareFails \/ Cleanup
    BY <1>1 DEF Resolve, Refuse, Prepare, PrepareFails, Cleanup, runVars
  <1>2. CASE Spawn \/ SpawnFails
    BY <1>2 DEF Spawn, SpawnFails
  <1>3. CASE Compiles \/ CompileError \/ Judge
    BY <1>3 DEF Compiles, CompileError, Judge, Closed
  <1>4. CASE Overflow \/ HardTimeout
    <2>1. client' = "dead" /\ code' = (IF client = "live" THEN "null" ELSE code)
      BY <1>4 DEF Overflow, HardTimeout, ClientEnds
    <2> QED
      BY <1>4, <2>1 DEF Overflow, HardTimeout
  <1>5. CASE DaemonStops
    BY <1>5 DEF DaemonStops, ClientEnds
  <1>6. ASSUME NEW r \in Runs, ContainerStarts(r) \/ KillArrives(r) PROVE Watched'
    BY <1>6 DEF ContainerStarts, KillArrives, KeepRun, runVars
  <1>7. ASSUME NEW r \in Runs, NeverStarts(r) \/ Timeout(r) PROVE Watched'
    BY <1>7 DEF NeverStarts, Timeout, Ends, ClientEnds, KeepRun
  <1>8. ASSUME NEW r \in Runs, Exits(r) PROVE Watched'
    <2>1. ExitCode(program[r]) # "none"
      BY <1>8, ExitCodeType DEF Exits
    <2> QED
      BY <1>8, <2>1 DEF Exits, Ends, ClientEnds, KeepRun
  <1>9. CASE UNCHANGED vars
    BY <1>9 DEF vars, runVars
  <1> QED
    BY <1>1, <1>2, <1>3, <1>4, <1>5, <1>6, <1>7, <1>8, <1>9, NextCases

LEMMA ExitKnownStep == ASSUME RunInv, [Next]_vars PROVE ExitKnown'
  <1> USE DEF RunInv, TypeOK, Watched, ExitKnown
  <1>1. CASE Resolve \/ Refuse \/ Prepare \/ PrepareFails \/ Cleanup
    BY <1>1 DEF Resolve, Refuse, Prepare, PrepareFails, Cleanup
  <1>2. CASE Spawn \/ SpawnFails
    BY <1>2 DEF Spawn, SpawnFails
  <1>3. CASE Compiles \/ CompileError \/ Judge
    BY <1>3 DEF Compiles, CompileError, Judge
  <1>4. CASE Overflow \/ HardTimeout
    BY <1>4 DEF Overflow, HardTimeout, ClientEnds, KeepRun, given
  <1>5. CASE DaemonStops
    BY <1>5 DEF DaemonStops, ClientEnds, given
  <1>6. ASSUME NEW r \in Runs, ContainerStarts(r) \/ KillArrives(r) PROVE ExitKnown'
    BY <1>6 DEF ContainerStarts, KillArrives, KeepRun, given, runVars
  <1>7. ASSUME NEW r \in Runs, NeverStarts(r) \/ Timeout(r) PROVE ExitKnown'
    BY <1>7 DEF NeverStarts, Timeout, Ends, ClientEnds, KeepRun, given
  <1>8. ASSUME NEW r \in Runs, Exits(r) PROVE ExitKnown'
    <2>1. /\ ExitCode(program[r]) \in {"0", "1", "137"}
          /\ ExitCode(program[r]) = "0" => program[r] \in {"right", "wrong", "burst"}
          /\ ExitCode(program[r]) = "1" => program[r] = "crash"
          /\ ExitCode(program[r]) = "137" => program[r] = "memory"
      BY <1>8, ExitCodeType DEF Exits
    <2> QED
      BY <1>8, <2>1 DEF Exits, Ends, ClientEnds, KeepRun, given
  <1>9. CASE UNCHANGED vars
    BY <1>9 DEF vars, given, runVars
  <1> QED
    BY <1>1, <1>2, <1>3, <1>4, <1>5, <1>6, <1>7, <1>8, <1>9, NextCases

(* Faults are not undone: nothing that follows is fair once one has struck. *)
LEMMA FairBefore ==
  ASSUME TypeOK, [Next]_vars, Fair', step # "resolve"
  PROVE  Fair
  <1> USE DEF TypeOK
  <1>1. faults = 0 /\ UNCHANGED backend
    <2>1. faults' >= faults /\ UNCHANGED backend
      <3>1. CASE Refuse \/ Prepare \/ Cleanup \/ Spawn \/ Compiles \/ CompileError \/ Judge
        BY <3>1 DEF Refuse, Prepare, Cleanup, Spawn, Compiles, CompileError, Judge, envVars
      <3>2. CASE PrepareFails \/ SpawnFails \/ DaemonStops
        BY <3>2 DEF PrepareFails, SpawnFails, DaemonStops, Strike, envVars
      <3>3. CASE Overflow \/ HardTimeout
        BY <3>3 DEF Overflow, HardTimeout, TimerDue, Strike, KeepRun, envVars
      <3>4. ASSUME NEW r \in Runs, ContainerStarts(r) \/ KillArrives(r)
            PROVE  faults' >= faults /\ UNCHANGED backend
        BY <3>4 DEF ContainerStarts, KillArrives, KeepRun, envVars
      <3>5. ASSUME NEW r \in Runs, NeverStarts(r) \/ Exits(r) \/ Timeout(r)
            PROVE  faults' >= faults /\ UNCHANGED backend
        BY <3>5 DEF NeverStarts, Exits, Timeout, Strike, Ends, KeepRun, envVars
      <3>6. CASE UNCHANGED vars
        BY <3>6 DEF vars, envVars
      <3>7. ~Resolve
        BY DEF Resolve
      <3> QED
        BY <3>1, <3>2, <3>3, <3>4, <3>5, <3>6, <3>7, NextCases
    <2> QED
      BY <2>1 DEF Fair
  <1>2. daemon \/ ~daemon'
    BY NextCases DEF Resolve, Refuse, Prepare, PrepareFails, Cleanup, Spawn, SpawnFails, Compiles,
       CompileError, Judge, Overflow, HardTimeout, DaemonStops, ContainerStarts, KillArrives,
       NeverStarts, Exits, Timeout, Ends, KeepRun, envVars, vars
  <1> QED
    BY <1>1, <1>2 DEF Fair

LEMMA FairExitStep == ASSUME RunInv, [Next]_vars PROVE FairExit'
  <1> SUFFICES ASSUME step' = "await", Fair'
               PROVE  /\ code' # "-1" /\ code' # "125"
                      /\ code' = "124" => program'[i'] \in {"loop", "flood"}
                      /\ killedForTimeout' /\ i' > 0 => program'[i'] \in Endless
    BY DEF FairExit
  <1> DEFINE Goal == /\ code' # "-1" /\ code' # "125"
                     /\ code' = "124" => program'[i'] \in {"loop", "flood"}
                     /\ killedForTimeout' /\ i' > 0 => program'[i'] \in Endless
  <1> USE DEF RunInv, TypeOK, Watched, FairExit
  <1>1. CASE Resolve \/ Refuse \/ Prepare \/ PrepareFails \/ Cleanup
    BY <1>1 DEF Resolve, Refuse, Prepare, PrepareFails, Cleanup
  <1>2. CASE Spawn
    BY <1>2 DEF Spawn
  <1>3. CASE SpawnFails \/ DaemonStops
    BY <1>3 DEF SpawnFails, DaemonStops, Strike, Fair
  <1>4. CASE Compiles \/ CompileError \/ Judge
    BY <1>4 DEF Compiles, CompileError, Judge
  <1>5. CASE Overflow
    <2>1. Fair /\ step = "await"
      BY <1>5, FairBefore DEF Overflow
    <2> QED
      BY <1>5, <2>1 DEF Overflow, ClientEnds, KeepRun, given
  <1>6. CASE HardTimeout
    <2>1. Fair /\ step = "await"
      BY <1>6, FairBefore DEF HardTimeout
    <2>2. i > 0 => program[i] \in Endless
      BY <1>6, <2>1 DEF HardTimeout, TimerDue, Orphaned, Strike, Fair, Endless
    <2> QED
      BY <1>6, <2>1, <2>2 DEF HardTimeout, ClientEnds, KeepRun, given
  <1>7. ASSUME NEW r \in Runs, ContainerStarts(r) \/ KillArrives(r) PROVE Goal
    <2>1. Fair /\ step = "await"
      BY <1>7, FairBefore DEF ContainerStarts, KillArrives, KeepRun
    <2> QED
      BY <1>7, <2>1 DEF ContainerStarts, KillArrives, KeepRun, given, runVars
  <1>8. ASSUME NEW r \in Runs, NeverStarts(r) PROVE Goal
    <2>1. Fair /\ step = "await"
      BY <1>8, FairBefore DEF NeverStarts, Ends, KeepRun
    <2>2. backend = "docker" /\ UNCHANGED <<daemon, backend>>
      BY <1>8 DEF NeverStarts, Begun, Ends, KeepRun, envVars
    <2>3. ~(r = i /\ client = "live")
      BY <1>8, <2>1, <2>2 DEF NeverStarts, ClientAlive, Fair
    <2> QED
      BY <1>8, <2>1, <2>3 DEF NeverStarts, Ends, KeepRun, given
  <1>9. ASSUME NEW r \in Runs, Exits(r) PROVE Goal
    <2>1. Fair /\ step = "await"
      BY <1>9, FairBefore DEF Exits, Ends, KeepRun
    <2>2. ExitCode(program[r]) \in {"0", "1", "137"}
      BY <1>9, ExitCodeType DEF Exits
    <2> QED
      BY <1>9, <2>1, <2>2 DEF Exits, Ends, ClientEnds, KeepRun, given
  <1>10. ASSUME NEW r \in Runs, Timeout(r) PROVE Goal
    <2>1. Fair /\ step = "await"
      BY <1>10, FairBefore DEF Timeout, Ends, KeepRun
    <2>2. program[r] \in {"loop", "flood"}
      BY <1>10, <2>1 DEF Timeout, Strike, Fair, Endless
    <2> QED
      BY <1>10, <2>1, <2>2 DEF Timeout, Ends, ClientEnds, KeepRun, given
  <1>11. CASE UNCHANGED vars
    BY <1>11 DEF vars, given, envVars, runVars, Fair
  <1> QED
    BY <1>1, <1>2, <1>3, <1>4, <1>5, <1>6, <1>7, <1>8, <1>9, <1>10, <1>11, NextCases

LEMMA KeptStep == ASSUME RunInv, [Next]_vars PROVE Kept'
  <1> USE DEF RunInv, TypeOK, Counted, Begun, Watched, Kept
  <1>a. Tests \in Nat /\ Runs = 0 .. Tests
    BY ExecutionAssumption DEF Runs
  <1>1. CASE Resolve \/ Refuse \/ Prepare \/ PrepareFails \/ Cleanup
    BY <1>1, <1>a DEF Resolve, Refuse, Prepare, PrepareFails, Cleanup, given, runVars
  <1>2. CASE Spawn
    BY <1>2, <1>a DEF Spawn, given, envVars
  <1>3. CASE SpawnFails
    BY <1>3, <1>a DEF SpawnFails, given, envVars
  <1>4. CASE Compiles \/ CompileError \/ Judge
    <2>1. \A r \in Runs : prog[r] \in {"creating", "live"} =>
            r \in killSent \/ program[r] \in {"flood", "burst"}
      BY <1>4 DEF Compiles, CompileError, Judge, Closed
    <2> QED
      BY <1>4, <2>1 DEF Compiles, CompileError, Judge, given, envVars
  <1>5. CASE Overflow
    BY <1>5 DEF Overflow, KeepRun, given, envVars
  <1>6. CASE HardTimeout
    BY <1>6 DEF HardTimeout, KeepRun, given, envVars
  <1>7. CASE DaemonStops
    BY <1>7 DEF DaemonStops, given
  <1>8. ASSUME NEW r \in Runs, ContainerStarts(r) \/ KillArrives(r) PROVE Kept'
    BY <1>8 DEF ContainerStarts, KillArrives, KeepRun, given, envVars, runVars
  <1>9. ASSUME NEW r \in Runs, NeverStarts(r) \/ Exits(r) \/ Timeout(r) PROVE Kept'
    BY <1>9 DEF NeverStarts, Exits, Timeout, Ends, KeepRun, given, envVars
  <1>10. CASE UNCHANGED vars
    BY <1>10 DEF vars, given, envVars, runVars
  <1> QED
    BY <1>1, <1>2, <1>3, <1>4, <1>5, <1>6, <1>7, <1>8, <1>9, <1>10, NextCases

-----------------------------------------------------------------------------
(***************************************************************************)
(* The verdict, and what is left behind.                                   *)
(***************************************************************************)

(* Only a program that was right and ended by itself is classified as such. *)
LEMMA AcceptedWhenRight ==
  ASSUME RunInv, Closed, i > 0, Classify(i) = "accepted"
  PROVE  program[i] = "right"
  BY DEF RunInv, ExitKnown, Closed, Classify, Passed

LEMMA VerdictOf ==
  ASSUME RunInv, Closed, i > 0, Fair
  PROVE  Classify(i) \in Deserved(program[i])
  <1> USE DEF RunInv, TypeOK, Watched, ExitKnown, FairExit, Closed
  <1>1. CASE TimedOut
    BY <1>1 DEF TimedOut, Classify, Deserved, Endless
  <1>2. CASE ~TimedOut /\ killedForOutput
    BY <1>2 DEF Classify, Deserved
  <1>3. CASE ~TimedOut /\ ~killedForOutput
    <2>1. code \in {"0", "1", "137"}
      BY <1>3 DEF TimedOut
    <2>2. CASE code = "0"
      BY <1>3, <2>2 DEF Classify, Deserved, Passed
    <2>3. CASE code # "0"
      BY <1>3, <2>1, <2>3 DEF Classify, Deserved, Passed
    <2> QED
      BY <2>2, <2>3
  <1> QED
    BY <1>1, <1>2, <1>3

(* Only Judge writes a verdict. *)
LEMMA ResultsOnlyJudged ==
  ASSUME [Next]_vars, ~Judge
  PROVE  UNCHANGED <<results, program>>
  BY NextCases DEF Resolve, Refuse, Prepare, PrepareFails, Cleanup, Spawn, SpawnFails, Compiles,
     CompileError, Overflow, HardTimeout, DaemonStops, ContainerStarts, KillArrives,
     NeverStarts, Exits, Timeout, Ends, KeepRun, given, vars

LEMMA VerdictStep ==
  ASSUME RunInv, VerdictIsDeserved, [Next]_vars
  PROVE  VerdictIsDeserved'
  <1>1. CASE Judge
    <2>1. /\ results \in Seq(Verdicts) /\ i \in Nat /\ i > 0 /\ Closed
          /\ Len(results) = i - 1 /\ UNCHANGED <<program, faults, daemon, backend>>
      BY <1>1, ExecutionAssumption
         DEF Judge, Closed, RunInv, TypeOK, Counted, Runs, given, envVars
    <2>2. /\ Len(results') = i /\ results'[i] = Classify(i)
          /\ \A r \in 1 .. i - 1 : results'[r] = results[r]
      BY <1>1, <2>1 DEF Judge
    <2>3. AcceptedMeansRight'
      <3> SUFFICES ASSUME NEW r \in 1 .. i, results'[r] = "accepted" PROVE program[r] = "right"
        BY <2>1, <2>2 DEF AcceptedMeansRight
      <3>1. CASE r = i
        BY <3>1, <2>1, <2>2, AcceptedWhenRight
      <3>2. CASE r # i
        BY <3>2, <2>1, <2>2 DEF VerdictIsDeserved, AcceptedMeansRight
      <3> QED
        BY <3>1, <3>2
    <2>4. FairVerdict'
      <3> SUFFICES ASSUME Fair, NEW r \in 1 .. i
                   PROVE  results'[r] \in Deserved(program[r])
        BY <2>1, <2>2 DEF FairVerdict, Fair
      <3>1. CASE r = i
        BY <3>1, <2>1, <2>2, VerdictOf
      <3>2. CASE r # i
        BY <3>2, <2>1, <2>2 DEF VerdictIsDeserved, FairVerdict, Fair
      <3> QED
        BY <3>1, <3>2
    <2> QED
      BY <2>3, <2>4 DEF VerdictIsDeserved
  <1>2. CASE ~Judge
    <2>1. UNCHANGED <<results, program>>
      BY <1>2, ResultsOnlyJudged
    <2>2. AcceptedMeansRight'
      BY <2>1 DEF VerdictIsDeserved, AcceptedMeansRight
    <2>3. CASE step = "resolve"
      <3>1. Len(results) = 0
        BY <2>3 DEF RunInv, Counted
      <3> QED
        BY <2>1, <2>2, <3>1 DEF VerdictIsDeserved, FairVerdict
    <2>4. CASE step # "resolve"
      <3>1. Fair' => Fair
        BY <2>4, FairBefore DEF RunInv
      <3> QED
        BY <2>1, <2>2, <3>1 DEF VerdictIsDeserved, FairVerdict, Fair
    <2> QED
      BY <2>3, <2>4
  <1> QED
    BY <1>1, <1>2

LEMMA WorkDirStep ==
  ASSUME RunInv, WorkDirGone, [Next]_vars
  PROVE  WorkDirGone'
  <1> USE DEF WorkDirGone
  <1>1. CASE Resolve \/ Refuse \/ Prepare \/ PrepareFails
    BY <1>1 DEF Resolve, Refuse, Prepare, PrepareFails
  <1>2. CASE Cleanup
    BY <1>2 DEF Cleanup
  <1>3. CASE Spawn \/ SpawnFails \/ Compiles \/ CompileError \/ Judge
    BY <1>3 DEF Spawn, SpawnFails, Compiles, CompileError, Judge
  <1>4. CASE \/ Overflow \/ HardTimeout \/ UNCHANGED vars \/ DaemonStops
             \/ \E r \in Runs : \/ ContainerStarts(r) \/ NeverStarts(r) \/ Exits(r) \/ Timeout(r)
                                \/ KillArrives(r)
    BY <1>4 DEF Overflow, HardTimeout, DaemonStops, ContainerStarts, KillArrives, NeverStarts, Exits,
       Timeout, Ends, KeepRun, vars, envVars
  <1> QED
    BY <1>1, <1>2, <1>3, <1>4, NextCases

LEMMA Invariance == Spec => []IInv
  <1>1. Init => IInv
    <2> SUFFICES ASSUME Init PROVE IInv
      OBVIOUS
    <2>1. Tests \in Nat /\ MaxFaults \in Nat /\ Runs = 0 .. Tests /\ 0 \in Runs
      BY ExecutionAssumption DEF Runs
    <2>2. results \in Seq(Verdicts) /\ Len(results) = 0
      BY DEF Init
    <2>3. TypeOK /\ Counted
      BY <2>1, <2>2 DEF Init, TypeOK, Counted
    <2>4. Begun /\ Watched /\ ExitKnown /\ FairExit /\ Kept /\ WorkDirGone
      BY <2>1 DEF Init, Begun, Watched, ExitKnown, FairExit, Kept, WorkDirGone
    <2>5. VerdictIsDeserved
      BY <2>2 DEF VerdictIsDeserved, AcceptedMeansRight, FairVerdict
    <2> QED
      BY <2>3, <2>4, <2>5 DEF IInv, RunInv
  <1>2. IInv /\ [Next]_vars => IInv'
    <2> SUFFICES ASSUME IInv, [Next]_vars PROVE IInv'
      OBVIOUS
    <2>1. TypeOK' /\ Counted'
      BY TypeStep DEF IInv, RunInv
    <2>2. Begun' /\ Watched' /\ ExitKnown' /\ FairExit' /\ Kept'
      BY BegunStep, WatchedStep, ExitKnownStep, FairExitStep, KeptStep DEF IInv
    <2>3. VerdictIsDeserved' /\ WorkDirGone'
      BY VerdictStep, WorkDirStep DEF IInv
    <2> QED
      BY <2>1, <2>2, <2>3 DEF IInv, RunInv
  <1> QED
    BY <1>1, <1>2, PTL DEF Spec

(* A verdict "accepted" is given to right programs only, whatever faults    *)
(* strike, and with a machine and a sandbox that work every program gets    *)
(* the verdict it deserves, in whatever order its end, the output limit and *)
(* the two clocks come.                                                    *)
THEOREM VerdictsAreDeserved == Spec => []VerdictIsDeserved
  BY Invariance, PTL DEF IInv

(* The work directory is gone when runTestCases is over, unless it could    *)
(* not be prepared; a container that outlives its run has been told to stop *)
(* or belongs to a program that went over the output limit.                *)
THEOREM NothingIsLeftUnknown == Spec => []NothingLeftBehind
  <1>1. IInv => NothingLeftBehind
    <2> SUFFICES ASSUME IInv, NEW r \in Runs, Answered(r), prog[r] \in {"creating", "live"}
                 PROVE  r \in killSent \/ program[r] \in {"flood", "burst"}
      BY DEF IInv, NothingLeftBehind, StraysAreKnown
    <2>1. ~(r = i /\ step = "await")
      BY ExecutionAssumption DEF Answered, IInv, RunInv, TypeOK, Runs
    <2> QED
      BY <2>1 DEF IInv, RunInv, Kept
  <1> QED
    BY <1>1, Invariance, PTL

-----------------------------------------------------------------------------
(***************************************************************************)
(* Judging, for any texts, checkers, weights and numbers of edits.         *)
(***************************************************************************)

(* What a step relies on besides the types.                                *)
CasesKept == kept \in Seq(TestCases) /\ asked \in Seq(TestCases)

LEMMA RemovedFrom ==
  ASSUME NEW S, NEW s \in Seq(S), NEW k \in DOMAIN s
  PROVE  RemoveAt(s, k) \in Seq(S) /\ Len(RemoveAt(s, k)) = Len(s) - 1
  <1> DEFINE n == Len(s)
             a == SubSeq(s, 1, k - 1)
             b == SubSeq(s, k + 1, n)
  <1>1. n \in Nat /\ k \in 1 .. n
    OBVIOUS
  <1>2. a \in Seq(S) /\ Len(a) = k - 1
    <2>1. k - 1 \in 0 .. n /\ (1 .. (k - 1)) \subseteq 1 .. n
      BY <1>1
    <2> QED
      BY <1>1, <2>1, SubSeqProperties
  <1>3. b \in Seq(S) /\ Len(b) = n - k
    <2>1. k + 1 \in 1 .. n + 1 /\ (k + 1) .. n \subseteq 1 .. n
      BY <1>1
    <2> QED
      BY <1>1, <2>1, SubSeqProperties
  <1> HIDE DEF a, b
  <1>4. a \o b \in Seq(S) /\ Len(a \o b) = Len(a) + Len(b)
    BY <1>2, <1>3, ConcatProperties
  <1>5. Len(a \o b) = n - 1
    BY <1>1, <1>2, <1>3, <1>4
  <1>6. RemoveAt(s, k) = a \o b
    BY DEF RemoveAt, a, b
  <1> QED
    BY <1>4, <1>5, <1>6

LEMMA ToSetIn == ASSUME NEW S, NEW s \in Seq(S) PROVE ToSet(s) \subseteq S
  <1>1. \A k \in DOMAIN s : s[k] \in S
    BY ElementOfSeq
  <1> QED
    BY <1>1 DEF ToSet

LEMMA OneResultEach ==
  ASSUME asked \in Seq(TestCases)
  PROVE  Len(runTestCases.results) = Len(asked)
  <1> DEFINE result(k) == Result(asked[k], IF compiles THEN verdictOf(asked[k]) ELSE "compile_error")
             n == Len(asked)
  <1>1. runTestCases.results = [k \in DOMAIN asked |-> result(k)]
    BY DEF runTestCases
  <1>2. DOMAIN asked = 1 .. n /\ n \in Nat
    OBVIOUS
  <1> HIDE DEF result, n
  <1>3. Len([k \in 1 .. n |-> result(k)]) = n
    BY <1>2
  <1> QED
    BY <1>1, <1>2, <1>3 DEF n

LEMMA ChangesCounted == ASSUME JudgingTypeOK, Changes PROVE changes' \in 0 .. MaxChanges
  <1>1. changes \in 0 .. MaxChanges /\ changes < MaxChanges /\ changes' = changes + 1
    BY DEF Changes, JudgingTypeOK
  <1> QED
    BY <1>1, JudgingAssumption

LEMMA RoomForOne ==
  ASSUME NEW n \in Nat, NEW m, m = n + 1, n < MaxCasesKept
  PROVE  m =< MaxCasesKept
  BY JudgingAssumption

LEMMA JudgingStep ==
  ASSUME JudgingTypeOK, CasesKept, [JudgingNext]_judgingVars
  PROVE  JudgingTypeOK' /\ CasesKept'
  <1>1. CASE ReadsCases
    BY <1>1 DEF ReadsCases, JudgingTypeOK, CasesKept
  <1>2. CASE ReadsProblem
    BY <1>2 DEF ReadsProblem, JudgingTypeOK, CasesKept
  <1>3. CASE Grades
    BY <1>3, OneResultEach DEF Grades, JudgingTypeOK, CasesKept
  <1>4. CASE PostTestCase
    <2>1. PICK row \in [expected : LaterTexts, checker : {""} \cup CheckersUsed,
                        weight : Weights, group : {"", "edge"}] : kept' = Append(kept, row)
      BY <1>4 DEF PostTestCase
    <2>2. row \in TestCases
      BY <2>1 DEF TestCases
    <2>3. kept' \in Seq(TestCases) /\ Len(kept') = Len(kept) + 1
      BY <2>1, <2>2, AppendProperties DEF CasesKept
    <2>4. Len(kept') =< MaxCasesKept
      <3>1. Len(kept) < MaxCasesKept
        BY <1>4 DEF PostTestCase
      <3>2. Len(kept) \in Nat
        BY LenProperties DEF CasesKept
      <3> QED
        BY <2>3, <3>1, <3>2, RoomForOne
    <2>5. ToSet(kept') \subseteq TestCases
      BY <2>3, ToSetIn
    <2>6. changes' \in 0 .. MaxChanges
      BY <1>4, ChangesCounted DEF PostTestCase
    <2> QED
      BY <1>4, <2>3, <2>4, <2>5, <2>6 DEF PostTestCase, JudgingTypeOK, CasesKept
  <1>5. CASE DeleteTestCase
    <2>1. PICK k \in DOMAIN kept : kept' = RemoveAt(kept, k)
      BY <1>5 DEF DeleteTestCase
    <2>2. kept' \in Seq(TestCases) /\ Len(kept') = Len(kept) - 1
      BY <2>1, RemovedFrom DEF CasesKept
    <2>3. Len(kept') =< MaxCasesKept
      <3>1. Len(kept) \in Nat /\ Len(kept) =< MaxCasesKept
        BY LenProperties DEF JudgingTypeOK, CasesKept
      <3> QED
        BY <2>2, <3>1, JudgingAssumption
    <2>4. ToSet(kept') \subseteq TestCases
      BY <2>2, ToSetIn
    <2>5. changes' \in 0 .. MaxChanges
      BY <1>5, ChangesCounted DEF DeleteTestCase
    <2> QED
      BY <1>5, <2>2, <2>3, <2>4, <2>5 DEF DeleteTestCase, JudgingTypeOK, CasesKept
  <1>6. CASE PutChecker
    <2>1. changes' \in 0 .. MaxChanges
      BY <1>6, ChangesCounted DEF PutChecker
    <2> QED
      BY <1>6, <2>1 DEF PutChecker, JudgingTypeOK, CasesKept
  <1>7. CASE UNCHANGED judgingVars
    BY <1>7 DEF judgingVars, JudgingTypeOK, CasesKept
  <1> QED
    BY <1>1, <1>2, <1>3, <1>4, <1>5, <1>6, <1>7 DEF JudgingNext

LEMMA JudgingStart == JudgingInit => JudgingTypeOK /\ CasesKept
  <1> SUFFICES ASSUME JudgingInit PROVE JudgingTypeOK /\ CasesKept
    OBVIOUS
  <1>1. kept \in Seq(TestCases) /\ Len(kept) \in 1 .. MaxCasesKept
    BY DEF JudgingInit
  <1>2. ToSet(kept) \subseteq TestCases
    BY <1>1, ToSetIn
  <1>3. changes \in 0 .. MaxChanges /\ Len(kept) =< MaxCasesKept
    BY <1>1, JudgingAssumption DEF JudgingInit
  <1> QED
    BY <1>1, <1>2, <1>3 DEF JudgingInit, JudgingTypeOK, CasesKept, NotYet

(* A submission has one result for every test case the worker has read.    *)
THEOREM JudgingTyping == JudgingSpec => []JudgingTypeOK
  BY JudgingStart, JudgingStep, PTL DEF JudgingSpec

-----------------------------------------------------------------------------
(***************************************************************************)
(* Texts: what splitting, cutting the ends and normalizing make of any     *)
(* text.                                                                   *)
(***************************************************************************)

(* What split returns: at least one piece. *)
Pieces(C) == {ps \in Seq(Seq(C)) : Len(ps) >= 1}

(* split's step: a separator starts a new piece, and any other character joins
   the last. *)
NextPieces(ps, c, sep) == IF c = sep THEN Append(ps, <<>>)
                          ELSE [ps EXCEPT ![Len(ps)] = Append(@, c)]

LEMMA NextPiecesIs ==
  ASSUME NEW C, NEW ps \in Pieces(C), NEW c \in C, NEW sep
  PROVE  /\ NextPieces(ps, c, sep) \in Pieces(C)
         /\ Len(NextPieces(ps, c, sep)) = IF c = sep THEN Len(ps) + 1 ELSE Len(ps)
  <1>1. ps \in Seq(Seq(C)) /\ Len(ps) \in Nat /\ Len(ps) >= 1 /\ Len(ps) \in DOMAIN ps
    BY DEF Pieces
  <1>2. CASE c = sep
    <2>1. <<>> \in Seq(C)
      OBVIOUS
    <2>2. Append(ps, <<>>) \in Seq(Seq(C)) /\ Len(Append(ps, <<>>)) = Len(ps) + 1
      BY <1>1, <2>1, AppendProperties
    <2> QED
      BY <1>1, <1>2, <2>2 DEF Pieces, NextPieces
  <1>3. CASE c # sep
    <2>1. ps[Len(ps)] \in Seq(C)
      BY <1>1, ElementOfSeq
    <2>2. Append(ps[Len(ps)], c) \in Seq(C)
      BY <2>1, AppendProperties
    <2> DEFINE qs == [ps EXCEPT ![Len(ps)] = Append(@, c)]
    <2>3. qs \in Seq(Seq(C)) /\ Len(qs) = Len(ps)
      BY <1>1, <2>2, ExceptSeq
    <2> QED
      BY <1>1, <1>3, <2>3 DEF Pieces, NextPieces
  <1> QED
    BY <1>2, <1>3

(* split, as a run of its steps. *)
LEMMA SplitIs ==
  ASSUME NEW C, NEW s \in Seq(C), NEW sep
  PROVE  \E p \in [0 .. Len(s) -> Pieces(C)] :
           /\ p[0] = << <<>> >>
           /\ \A k \in 1 .. Len(s) : p[k] = NextPieces(p[k - 1], s[k], sep)
           /\ split(s, sep) = p[Len(s)]
  <1> DEFINE A == Pieces(C)
             op == [q \in A \X C |-> NextPieces(q[1], q[2], sep)]
             base == << <<>> >>
             S == DOMAIN s
             g == CHOOSE g : g = [T \in SUBSET S |-> IF T = {} THEN base
                                                     ELSE NextPieces(g[T \ {Top(T)}], s[Top(T)], sep)]
  <1>1. op \in [A \X C -> A]
    BY NextPiecesIs
  <1>2. base \in A
    BY DEF Pieces
  <1>3. \A q \in A, c \in C : op[<<q, c>>] = NextPieces(q, c, sep)
    OBVIOUS
  <1>4. split(s, sep) = g[S]
    BY DEF split, FoldLeft, MapThenFoldSet, Max, Top, NextPieces
  <1>5. S \in SUBSET Nat /\ IsFiniteSet(S) /\ S = 1 .. Len(s) /\ \A x \in S : s[x] \in C
    <2>1. S = 1 .. Len(s) /\ Len(s) \in Nat
      OBVIOUS
    <2> QED
      BY <2>1, FS_Interval, ElementOfSeq
  <1> HIDE DEF A, op, base, S
  <1>6. PICK f \in [SUBSET S -> A], p \in [0 .. Len(s) -> A] : Folding(op, base, s, f, p)
    BY <1>1, <1>2, FoldIs DEF S
  <1>7. f = [T \in SUBSET S |-> IF T = {} THEN base ELSE NextPieces(f[T \ {Top(T)}], s[Top(T)], sep)]
    <2>1. ASSUME NEW T \in SUBSET S, T # {}
          PROVE  f[T] = NextPieces(f[T \ {Top(T)}], s[Top(T)], sep)
      <3>1. f[T \ {Top(T)}] \in A /\ s[Top(T)] \in C
        BY <1>5, <1>6, <2>1 DEF Folding, S
      <3> QED
        BY <1>3, <1>6, <2>1, <3>1 DEF Folding, S
    <2> QED
      BY <1>6, <2>1 DEF Folding, S
  <1>8. g = [T \in SUBSET S |-> IF T = {} THEN base ELSE NextPieces(g[T \ {Top(T)}], s[Top(T)], sep)]
    BY <1>7
  <1> HIDE DEF g
  <1>9. g[S] = f[S]
    <2>1. g[{}] = f[{}]
      BY <1>6, <1>8 DEF Folding
    <2>2. ASSUME NEW T \in SUBSET S, T # {} /\ g[T \ {Top(T)}] = f[T \ {Top(T)}]
          PROVE  g[T] = f[T]
      <3>1. g[T] = NextPieces(g[T \ {Top(T)}], s[Top(T)], sep)
        BY <1>8, <2>2
      <3>2. f[T] = NextPieces(f[T \ {Top(T)}], s[Top(T)], sep)
        BY <1>7, <2>2
      <3> QED
        BY <2>2, <3>1, <3>2
    <2> QED
      BY <1>5, <2>1, <2>2, FoldsAgree
  <1>10. ASSUME NEW k \in 1 .. Len(s) PROVE p[k] = NextPieces(p[k - 1], s[k], sep)
    <2>1. k - 1 \in 0 .. Len(s) /\ s[k] \in C
      BY <1>5
    <2> QED
      BY <1>3, <1>6, <2>1 DEF Folding
  <1> QED
    BY <1>4, <1>6, <1>9, <1>10 DEF Folding, base, A, S

(* The lines of a text: at most one more than its characters. *)
LEMMA LinesOf ==
  ASSUME NEW C, NEW s \in Seq(C)
  PROVE  /\ splitLines(s) \in Seq(Seq(C)) /\ Len(splitLines(s)) \in Nat
         /\ Len(splitLines(s)) =< Len(s) + 1
  <1>1. PICK p \in [0 .. Len(s) -> Pieces(C)] :
           /\ p[0] = << <<>> >>
           /\ \A k \in 1 .. Len(s) : p[k] = NextPieces(p[k - 1], s[k], "nl")
           /\ split(s, "nl") = p[Len(s)]
    BY SplitIs
  <1>2. Len(s) \in Nat /\ \A k \in 1 .. Len(s) : s[k] \in C
    OBVIOUS
  <1>3. ASSUME NEW k \in 0 .. Len(s)
        PROVE  p[k] \in Pieces(C) /\ p[k] \in Seq(Seq(C)) /\ Len(p[k]) \in Nat
    <2>1. p[k] \in Pieces(C)
      BY <1>1
    <2>2. p[k] \in Seq(Seq(C))
      BY <2>1 DEF Pieces
    <2> QED
      BY <2>1, <2>2, LenProperties
  <1> DEFINE Z == {k \in 0 .. Len(s) : ~(Len(p[k]) =< k + 1)}
  <1>4. Z = {}
    <2> SUFFICES ASSUME Z # {} PROVE FALSE
      OBVIOUS
    <2>1. PICK k \in Z : \A j \in Z : k <= j
      <3>1. Z \in SUBSET Nat
        BY <1>2
      <3> HIDE DEF Z
      <3> QED
        BY <3>1, LeastNumber
    <2>2. k \in 0 .. Len(s) /\ ~(Len(p[k]) =< k + 1)
      BY <2>1
    <2>3. k # 0
      <3>1. Len(<< <<>> >>) = 1
        OBVIOUS
      <3>2. Len(p[0]) = 1
        BY <1>1, <3>1
      <3> QED
        BY <2>2, <3>2
    <2>4. k \in 1 .. Len(s) /\ k - 1 \in 0 .. Len(s) /\ k - 1 \notin Z
      <3>1. k \in 1 .. Len(s) /\ k - 1 \in 0 .. Len(s) /\ ~(k <= k - 1)
        BY <1>2, <2>2, <2>3
      <3> QED
        BY <2>1, <3>1
    <2>5. Len(p[k - 1]) =< k
      BY <2>2, <2>4
    <2>6. Len(p[k]) = Len(p[k - 1]) + 1 \/ Len(p[k]) = Len(p[k - 1])
      <3>1. p[k - 1] \in Pieces(C) /\ s[k] \in C
        BY <1>2, <1>3, <2>4
      <3>2. p[k] = NextPieces(p[k - 1], s[k], "nl")
        BY <1>1, <2>4
      <3> QED
        BY <3>1, <3>2, NextPiecesIs
    <2> DEFINE i1 == Len(p[k - 1])
               i2 == Len(p[k])
    <2>7. i1 \in Nat /\ i1 =< k /\ ~(i2 =< k + 1) /\ (i2 = i1 + 1 \/ i2 = i1) /\ k \in Nat
      BY <1>3, <2>2, <2>4, <2>5, <2>6 DEF Pieces
    <2> HIDE DEF i1, i2
    <2> QED
      BY ONLY <2>7
  <1>5. Len(s) \notin Z /\ Len(s) \in 0 .. Len(s)
    BY <1>2, <1>4
  <1> QED
    BY <1>1, <1>3, <1>5 DEF splitLines

(* UpTo keeps everything up to the last place that is to be kept. *)
LEMMA UpToIs ==
  ASSUME NEW C, NEW s \in Seq(C), NEW Keep \in SUBSET DOMAIN s
  PROVE  \E m \in 0 .. Len(s) :
           /\ m = Max({0} \cup Keep)
           /\ UpTo(s, Keep) = SubSeq(s, 1, m)
           /\ UpTo(s, Keep) \in Seq(C) /\ Len(UpTo(s, Keep)) = m
           /\ \A k \in 1 .. m : UpTo(s, Keep)[k] = s[k]
           /\ m # 0 => m \in Keep
           /\ \A k \in Keep : k =< m
  <1> DEFINE T == {0} \cup Keep
  <1>1. Len(s) \in Nat /\ DOMAIN s = 1 .. Len(s)
    OBVIOUS
  <1>2. T \in SUBSET Nat /\ T # {}
    BY <1>1
  <1>3. IsFiniteSet(T)
    <2>1. T \in SUBSET (0 .. Len(s)) /\ IsFiniteSet(0 .. Len(s))
      BY <1>1, FS_Interval
    <2> QED
      BY <2>1, FS_Subset
  <1> HIDE DEF T
  <1>4. PICK m : m = Top(T)
    OBVIOUS
  <1>5. m \in T /\ \A y \in T : m >= y
    BY <1>2, <1>3, <1>4, TopIs
  <1>6. m = Max(T)
    BY <1>4 DEF Max, Top
  <1>7. m \in 0 .. Len(s) /\ (m # 0 => m \in Keep) /\ \A k \in Keep : k =< m
    <2>1. m \in 0 .. Len(s) /\ (m # 0 => m \in Keep)
      BY <1>1, <1>5 DEF T
    <2>2. \A k \in Keep : k \in Nat /\ m >= k
      BY <1>1, <1>5 DEF T
    <2> QED
      BY <2>1, <2>2
  <1>8. UpTo(s, Keep) = SubSeq(s, 1, m)
    BY <1>6 DEF UpTo, T
  <1>9. SubSeq(s, 1, m) \in Seq(C) /\ Len(SubSeq(s, 1, m)) = m
        /\ \A k \in 1 .. m : SubSeq(s, 1, m)[k] = s[k]
    <2>1. m \in Nat /\ 1 .. m \subseteq 1 .. Len(s)
      BY <1>1, <1>7
    <2> QED
      BY <1>1, <2>1
  <1> QED
    BY <1>6, <1>7, <1>8, <1>9 DEF T

(* The lines of normalize, before the empty ones at the end go. *)
Stripped(s) == [k \in DOMAIN splitLines(s) |-> withoutTail(splitLines(s)[k])]

(* What is left of a line is text of the same characters. *)
LEMMA TailIs ==
  ASSUME NEW C, NEW line \in Seq(C)
  PROVE  withoutTail(line) \in Seq(C)
  <1>1. {k \in DOMAIN line : line[k] # " "} \in SUBSET DOMAIN line
    OBVIOUS
  <1> QED
    BY <1>1, UpToIs DEF withoutTail

(* normalize keeps the stripped lines up to the last that is not empty. *)
LEMMA NormalIs ==
  ASSUME NEW C, NEW s \in Seq(C)
  PROVE  /\ normalize(s) \in Seq(Seq(C)) /\ Len(normalize(s)) \in 0 .. Len(s) + 1
         /\ Len(normalize(s)) # 0 => normalize(s)[Len(normalize(s))] # <<>>
         /\ \A k \in Nat \ {0} :
              LineOf(s, k) = IF k =< Len(normalize(s)) THEN normalize(s)[k] ELSE <<>>
  <1> DEFINE ls == splitLines(s)
             st == Stripped(s)
             Keep == {k \in DOMAIN st : st[k] # <<>>}
  <1>1. ls \in Seq(Seq(C)) /\ Len(ls) \in Nat /\ Len(ls) =< Len(s) + 1 /\ DOMAIN ls = 1 .. Len(ls)
    BY LinesOf
  <1>2. \A k \in 1 .. Len(ls) : withoutTail(ls[k]) \in Seq(C)
    BY <1>1, TailIs, ElementOfSeq
  <1>3. st \in Seq(Seq(C)) /\ Len(st) = Len(ls) /\ DOMAIN st = 1 .. Len(ls)
    <2>1. st = [k \in 1 .. Len(ls) |-> withoutTail(ls[k])]
      BY <1>1 DEF Stripped
    <2> HIDE DEF ls, st
    <2> QED
      BY <1>1, <1>2, <2>1
  <1>4. normalize(s) = UpTo(st, Keep)
    BY DEF normalize, Stripped
  <1>5. \A k \in Nat \ {0} : LineOf(s, k) = IF k \in 1 .. Len(ls) THEN st[k] ELSE <<>>
    BY <1>1 DEF LineOf, Stripped
  <1>6. Keep \in SUBSET DOMAIN st
    OBVIOUS
  <1>a. \A k \in 1 .. Len(ls) : k \notin Keep => st[k] = <<>>
    BY <1>3
  <1>b. \A k \in Keep : st[k] # <<>>
    OBVIOUS
  <1> HIDE DEF ls, st, Keep
  <1>7. PICK m \in 0 .. Len(st) :
           /\ UpTo(st, Keep) \in Seq(Seq(C)) /\ Len(UpTo(st, Keep)) = m
           /\ \A k \in 1 .. m : UpTo(st, Keep)[k] = st[k]
           /\ m # 0 => m \in Keep
           /\ \A k \in Keep : k =< m
    BY <1>3, <1>6, UpToIs
  <1>8. m \in 0 .. Len(s) + 1
    <2>1. Len(s) \in Nat
      OBVIOUS
    <2> QED
      BY <1>1, <1>3, <1>7, <2>1
  <1>9. m # 0 => UpTo(st, Keep)[m] # <<>>
    <2>1. m # 0 => m \in 1 .. m
      BY <1>3, <1>1
    <2> QED
      BY <1>7, <1>b, <2>1
  <1>10. ASSUME NEW k \in Nat \ {0}
         PROVE  LineOf(s, k) = IF k =< m THEN UpTo(st, Keep)[k] ELSE <<>>
    <2>1. CASE k =< m
      <3>1. k \in 1 .. m /\ k \in 1 .. Len(ls)
        BY <1>1, <1>3, <2>1
      <3> QED
        BY <1>5, <1>7, <2>1, <3>1
    <2>2. CASE ~(k =< m)
      <3>1. k \notin Keep
        BY <1>7, <2>2
      <3> QED
        BY <1>5, <1>a, <2>2, <3>1
    <2> QED
      BY <2>1, <2>2
  <1> QED
    BY <1>4, <1>7, <1>8, <1>9, <1>10

(* Two texts look alike just when the service makes the same of both. *)
LEMMA LooksLikeIs ==
  ASSUME NEW C, NEW a \in Seq(C), NEW e \in Seq(C)
  PROVE  LooksLike(a, e) <=> normalize(a) = normalize(e)
  <1> DEFINE x == normalize(a)
             y == normalize(e)
             N == Len(a) + Len(e) + 1
  <1>1. Len(a) \in Nat /\ Len(e) \in Nat
    OBVIOUS
  <1>2. /\ x \in Seq(Seq(C)) /\ Len(x) \in 0 .. Len(a) + 1
        /\ Len(x) # 0 => x[Len(x)] # <<>>
        /\ \A k \in Nat \ {0} : LineOf(a, k) = IF k =< Len(x) THEN x[k] ELSE <<>>
    BY NormalIs
  <1>3. /\ y \in Seq(Seq(C)) /\ Len(y) \in 0 .. Len(e) + 1
        /\ Len(y) # 0 => y[Len(y)] # <<>>
        /\ \A k \in Nat \ {0} : LineOf(e, k) = IF k =< Len(y) THEN y[k] ELSE <<>>
    BY NormalIs
  <1>4. LooksLike(a, e) <=> \A k \in 1 .. N : LineOf(a, k) = LineOf(e, k)
    BY DEF LooksLike
  <1> HIDE DEF x, y
  <1>5. ASSUME x = y, NEW k \in 1 .. N PROVE LineOf(a, k) = LineOf(e, k)
    <2>1. k \in Nat \ {0}
      BY <1>1
    <2> QED
      BY <1>2, <1>3, <1>5, <2>1
  <1>6. ASSUME \A k \in 1 .. N : LineOf(a, k) = LineOf(e, k) PROVE x = y
    <2>1. ~(Len(x) < Len(y))
      <3> SUFFICES ASSUME Len(x) < Len(y) PROVE FALSE
        OBVIOUS
      <3> DEFINE k == Len(y)
      <3>1. k \in 1 .. N /\ k \in Nat \ {0} /\ k =< Len(y) /\ ~(k =< Len(x)) /\ k # 0
        BY <1>1, <1>2, <1>3
      <3>2. LineOf(a, k) = <<>>
        BY <1>2, <3>1
      <3>3. LineOf(e, k) = y[k]
        BY <1>3, <3>1
      <3> QED
        BY <1>3, <1>6, <3>1, <3>2, <3>3
    <2>2. ~(Len(y) < Len(x))
      <3> SUFFICES ASSUME Len(y) < Len(x) PROVE FALSE
        OBVIOUS
      <3> DEFINE k == Len(x)
      <3>1. k \in 1 .. N /\ k \in Nat \ {0} /\ k =< Len(x) /\ ~(k =< Len(y)) /\ k # 0
        BY <1>1, <1>2, <1>3
      <3>2. LineOf(e, k) = <<>>
        BY <1>3, <3>1
      <3>3. LineOf(a, k) = x[k]
        BY <1>2, <3>1
      <3> QED
        BY <1>2, <1>6, <3>1, <3>2, <3>3
    <2>3. Len(x) = Len(y) /\ Len(x) \in Nat
      BY <1>1, <1>2, <1>3, <2>1, <2>2
    <2>4. ASSUME NEW k \in 1 .. Len(x) PROVE x[k] = y[k]
      <3>1. k \in 1 .. N /\ k \in Nat \ {0} /\ k =< Len(x) /\ k =< Len(y)
        BY <1>1, <1>2, <2>3
      <3> QED
        BY <1>2, <1>3, <1>6, <3>1
    <2> QED
      BY <1>2, <1>3, <2>3, <2>4, SeqEqual
  <1> QED
    BY <1>4, <1>5, <1>6 DEF x, y

-----------------------------------------------------------------------------
(***************************************************************************)
(* The folds of words, tokens, numbers and marks, taken item by item.      *)
(***************************************************************************)

(* words' step: an empty piece is no word. *)
NextWords(ws, w) == IF w = <<>> THEN ws ELSE Append(ws, w)

LEMMA NextWordsIs ==
  ASSUME NEW C, NEW ws \in Seq(Seq(C)), NEW w \in Seq(C)
  PROVE  NextWords(ws, w) \in Seq(Seq(C))
  BY AppendProperties DEF NextWords

(* Words are pieces of the line. *)
LEMMA FilteredIs ==
  ASSUME NEW C, NEW s \in Seq(Seq(C))
  PROVE  FoldLeft(LAMBDA ws, w : IF w = <<>> THEN ws ELSE Append(ws, w), <<>>, s) \in Seq(Seq(C))
  <1> DEFINE A == Seq(Seq(C))
             op == [q \in A \X Seq(C) |-> NextWords(q[1], q[2])]
             base == <<>>
             S == DOMAIN s
             g == CHOOSE g : g = [T \in SUBSET S |-> IF T = {} THEN base
                                                     ELSE NextWords(g[T \ {Top(T)}], s[Top(T)])]
  <1>1. op \in [A \X Seq(C) -> A]
    BY NextWordsIs
  <1>2. base \in A
    OBVIOUS
  <1>3. \A q \in A, c \in Seq(C) : op[<<q, c>>] = NextWords(q, c)
    OBVIOUS
  <1>4. FoldLeft(LAMBDA ws, w : IF w = <<>> THEN ws ELSE Append(ws, w), <<>>, s) = g[S]
    BY DEF FoldLeft, MapThenFoldSet, Max, Top, NextWords
  <1>5. S \in SUBSET Nat /\ IsFiniteSet(S) /\ S = 1 .. Len(s) /\ \A x \in S : s[x] \in Seq(C)
    <2>1. S = 1 .. Len(s) /\ Len(s) \in Nat
      OBVIOUS
    <2>2. IsFiniteSet(S)
      BY <2>1, FS_Interval
    <2>3. \A x \in S : s[x] \in Seq(C)
      BY <2>1, ElementOfSeq
    <2>4. S \in SUBSET Nat
      BY <2>1
    <2> QED
      BY <2>1, <2>2, <2>3, <2>4
  <1> HIDE DEF A, op, base, S
  <1>6. PICK f \in [SUBSET S -> A], p \in [0 .. Len(s) -> A] : Folding(op, base, s, f, p)
    BY <1>1, <1>2, FoldIs DEF S
  <1>7. f = [T \in SUBSET S |-> IF T = {} THEN base ELSE NextWords(f[T \ {Top(T)}], s[Top(T)])]
    <2>1. ASSUME NEW T \in SUBSET S, T # {}
          PROVE  f[T] = NextWords(f[T \ {Top(T)}], s[Top(T)])
      <3>1. f[T \ {Top(T)}] \in A /\ s[Top(T)] \in Seq(C)
        BY <1>5, <1>6, <2>1 DEF Folding, S
      <3> QED
        BY <1>3, <1>6, <2>1, <3>1 DEF Folding, S
    <2> QED
      BY <1>6, <2>1 DEF Folding, S
  <1>8. g = [T \in SUBSET S |-> IF T = {} THEN base ELSE NextWords(g[T \ {Top(T)}], s[Top(T)])]
    BY <1>7
  <1> HIDE DEF g
  <1>9. g[S] = f[S]
    <2>1. g[{}] = f[{}]
      BY <1>6, <1>8 DEF Folding
    <2>2. ASSUME NEW T \in SUBSET S, T # {} /\ g[T \ {Top(T)}] = f[T \ {Top(T)}]
          PROVE  g[T] = f[T]
      <3>1. g[T] = NextWords(g[T \ {Top(T)}], s[Top(T)])
        BY <1>8, <2>2
      <3>2. f[T] = NextWords(f[T \ {Top(T)}], s[Top(T)])
        BY <1>7, <2>2
      <3> QED
        BY <2>2, <3>1, <3>2
    <2> QED
      BY <1>5, <2>1, <2>2, FoldsAgree
  <1>10. f[S] \in A
    BY <1>6 DEF S
  <1> QED
    BY <1>4, <1>9, <1>10 DEF A

(* tokens' step. *)
NextTokens(ts, line) == ts \o words(line)

(* What is left of a text are words. *)
LEMMA TokensOf ==
  ASSUME NEW C, \A line \in Seq(C) : words(line) \in Seq(Seq(C)), NEW s \in Seq(Seq(C))
  PROVE  FoldLeft(LAMBDA ts, line : ts \o words(line), <<>>, s) \in Seq(Seq(C))
  <1> DEFINE A == Seq(Seq(C))
             op == [q \in A \X Seq(C) |-> NextTokens(q[1], q[2])]
             base == <<>>
             S == DOMAIN s
             g == CHOOSE g : g = [T \in SUBSET S |-> IF T = {} THEN base
                                                     ELSE NextTokens(g[T \ {Top(T)}], s[Top(T)])]
  <1>1. op \in [A \X Seq(C) -> A]
    BY ConcatProperties DEF NextTokens
  <1>2. base \in A
    OBVIOUS
  <1>3. \A q \in A, c \in Seq(C) : op[<<q, c>>] = NextTokens(q, c)
    OBVIOUS
  <1>4. FoldLeft(LAMBDA ts, line : ts \o words(line), <<>>, s) = g[S]
    BY DEF FoldLeft, MapThenFoldSet, Max, Top, NextTokens
  <1>5. S \in SUBSET Nat /\ IsFiniteSet(S) /\ S = 1 .. Len(s) /\ \A x \in S : s[x] \in Seq(C)
    <2>1. S = 1 .. Len(s) /\ Len(s) \in Nat
      OBVIOUS
    <2>2. IsFiniteSet(S)
      BY <2>1, FS_Interval
    <2>3. \A x \in S : s[x] \in Seq(C)
      BY <2>1, ElementOfSeq
    <2>4. S \in SUBSET Nat
      BY <2>1
    <2> QED
      BY <2>1, <2>2, <2>3, <2>4
  <1> HIDE DEF A, op, base, S
  <1>6. PICK f \in [SUBSET S -> A], p \in [0 .. Len(s) -> A] : Folding(op, base, s, f, p)
    BY <1>1, <1>2, FoldIs DEF S
  <1>7. f = [T \in SUBSET S |-> IF T = {} THEN base ELSE NextTokens(f[T \ {Top(T)}], s[Top(T)])]
    <2>1. ASSUME NEW T \in SUBSET S, T # {}
          PROVE  f[T] = NextTokens(f[T \ {Top(T)}], s[Top(T)])
      <3>1. f[T \ {Top(T)}] \in A /\ s[Top(T)] \in Seq(C)
        BY <1>5, <1>6, <2>1 DEF Folding, S
      <3> QED
        BY <1>3, <1>6, <2>1, <3>1 DEF Folding, S
    <2> QED
      BY <1>6, <2>1 DEF Folding, S
  <1>8. g = [T \in SUBSET S |-> IF T = {} THEN base ELSE NextTokens(g[T \ {Top(T)}], s[Top(T)])]
    BY <1>7
  <1> HIDE DEF g
  <1>9. g[S] = f[S]
    <2>1. g[{}] = f[{}]
      BY <1>6, <1>8 DEF Folding
    <2>2. ASSUME NEW T \in SUBSET S, T # {} /\ g[T \ {Top(T)}] = f[T \ {Top(T)}]
          PROVE  g[T] = f[T]
      <3>1. g[T] = NextTokens(g[T \ {Top(T)}], s[Top(T)])
        BY <1>8, <2>2
      <3>2. f[T] = NextTokens(f[T \ {Top(T)}], s[Top(T)])
        BY <1>7, <2>2
      <3> QED
        BY <2>2, <3>1, <3>2
    <2> QED
      BY <1>5, <2>1, <2>2, FoldsAgree
  <1>10. f[S] \in A
    BY <1>6 DEF S
  <1> QED
    BY <1>4, <1>9, <1>10 DEF A

(* Number's step: one more digit. *)
NextNumber(n, c) == 10 * n + (IF c = "0" THEN 0 ELSE IF c = "1" THEN 1 ELSE 2)

(* Digits denote a number. *)
LEMMA DigitsOf ==
  ASSUME NEW C, NEW s \in Seq(C)
  PROVE  FoldLeft(LAMBDA n, c : 10 * n + (IF c = "0" THEN 0 ELSE IF c = "1" THEN 1 ELSE 2), 0, s) \in Nat
  <1> DEFINE A == Nat
             op == [q \in A \X C |-> NextNumber(q[1], q[2])]
             base == 0
             S == DOMAIN s
             g == CHOOSE g : g = [T \in SUBSET S |-> IF T = {} THEN base
                                                     ELSE NextNumber(g[T \ {Top(T)}], s[Top(T)])]
  <1>1. op \in [A \X C -> A]
    BY DEF NextNumber
  <1>2. base \in A
    OBVIOUS
  <1>3. \A q \in A, c \in C : op[<<q, c>>] = NextNumber(q, c)
    OBVIOUS
  <1>4. FoldLeft(LAMBDA n, c : 10 * n + (IF c = "0" THEN 0 ELSE IF c = "1" THEN 1 ELSE 2), 0, s) = g[S]
    BY DEF FoldLeft, MapThenFoldSet, Max, Top, NextNumber
  <1>5. S \in SUBSET Nat /\ IsFiniteSet(S) /\ S = 1 .. Len(s) /\ \A x \in S : s[x] \in C
    <2>1. S = 1 .. Len(s) /\ Len(s) \in Nat
      OBVIOUS
    <2>2. IsFiniteSet(S)
      BY <2>1, FS_Interval
    <2>3. \A x \in S : s[x] \in C
      BY <2>1, ElementOfSeq
    <2>4. S \in SUBSET Nat
      BY <2>1
    <2> QED
      BY <2>1, <2>2, <2>3, <2>4
  <1> HIDE DEF A, op, base, S
  <1>6. PICK f \in [SUBSET S -> A], p \in [0 .. Len(s) -> A] : Folding(op, base, s, f, p)
    BY <1>1, <1>2, FoldIs DEF S
  <1>7. f = [T \in SUBSET S |-> IF T = {} THEN base ELSE NextNumber(f[T \ {Top(T)}], s[Top(T)])]
    <2>1. ASSUME NEW T \in SUBSET S, T # {}
          PROVE  f[T] = NextNumber(f[T \ {Top(T)}], s[Top(T)])
      <3>1. f[T \ {Top(T)}] \in A /\ s[Top(T)] \in C
        BY <1>5, <1>6, <2>1 DEF Folding, S
      <3> QED
        BY <1>3, <1>6, <2>1, <3>1 DEF Folding, S
    <2> QED
      BY <1>6, <2>1 DEF Folding, S
  <1>8. g = [T \in SUBSET S |-> IF T = {} THEN base ELSE NextNumber(g[T \ {Top(T)}], s[Top(T)])]
    BY <1>7
  <1> HIDE DEF g
  <1>9. g[S] = f[S]
    <2>1. g[{}] = f[{}]
      BY <1>6, <1>8 DEF Folding
    <2>2. ASSUME NEW T \in SUBSET S, T # {} /\ g[T \ {Top(T)}] = f[T \ {Top(T)}]
          PROVE  g[T] = f[T]
      <3>1. g[T] = NextNumber(g[T \ {Top(T)}], s[Top(T)])
        BY <1>8, <2>2
      <3>2. f[T] = NextNumber(f[T \ {Top(T)}], s[Top(T)])
        BY <1>7, <2>2
      <3> QED
        BY <2>2, <3>1, <3>2
    <2> QED
      BY <1>5, <2>1, <2>2, FoldsAgree
  <1>10. f[S] \in A
    BY <1>6 DEF S
  <1> QED
    BY <1>4, <1>9, <1>10 DEF A

(* Total's step: a result counts or does not. *)
NextTotal(n, r, Z) == IF r \in Z THEN n + r.weight ELSE n

(* The total after so many results. *)
LEMMA TotalIs ==
  ASSUME NEW C, \A r \in C : r.weight \in Nat, NEW s \in Seq(C), NEW Z
  PROVE  \E p \in [0 .. Len(s) -> Nat] :
           /\ p[0] = 0
           /\ \A k \in 1 .. Len(s) : p[k] = NextTotal(p[k - 1], s[k], Z)
           /\ Total(s, Z) = p[Len(s)]
  <1> DEFINE A == Nat
             op == [q \in A \X C |-> NextTotal(q[1], q[2], Z)]
             base == 0
             S == DOMAIN s
             g == CHOOSE g : g = [T \in SUBSET S |-> IF T = {} THEN base
                                                     ELSE NextTotal(g[T \ {Top(T)}], s[Top(T)], Z)]
  <1>1. op \in [A \X C -> A]
    BY DEF NextTotal
  <1>2. base \in A
    OBVIOUS
  <1>3. \A q \in A, c \in C : op[<<q, c>>] = NextTotal(q, c, Z)
    OBVIOUS
  <1>4. Total(s, Z) = g[S]
    BY DEF Total, FoldLeft, MapThenFoldSet, Max, Top, NextTotal
  <1>5. S \in SUBSET Nat /\ IsFiniteSet(S) /\ S = 1 .. Len(s) /\ \A x \in S : s[x] \in C
    <2>1. S = 1 .. Len(s) /\ Len(s) \in Nat
      OBVIOUS
    <2>2. IsFiniteSet(S)
      BY <2>1, FS_Interval
    <2>3. \A x \in S : s[x] \in C
      BY <2>1, ElementOfSeq
    <2>4. S \in SUBSET Nat
      BY <2>1
    <2> QED
      BY <2>1, <2>2, <2>3, <2>4
  <1> HIDE DEF A, op, base, S
  <1>6. PICK f \in [SUBSET S -> A], p \in [0 .. Len(s) -> A] : Folding(op, base, s, f, p)
    BY <1>1, <1>2, FoldIs DEF S
  <1>7. f = [T \in SUBSET S |-> IF T = {} THEN base ELSE NextTotal(f[T \ {Top(T)}], s[Top(T)], Z)]
    <2>1. ASSUME NEW T \in SUBSET S, T # {}
          PROVE  f[T] = NextTotal(f[T \ {Top(T)}], s[Top(T)], Z)
      <3>1. f[T \ {Top(T)}] \in A /\ s[Top(T)] \in C
        BY <1>5, <1>6, <2>1 DEF Folding, S
      <3> QED
        BY <1>3, <1>6, <2>1, <3>1 DEF Folding, S
    <2> QED
      BY <1>6, <2>1 DEF Folding, S
  <1>8. g = [T \in SUBSET S |-> IF T = {} THEN base ELSE NextTotal(g[T \ {Top(T)}], s[Top(T)], Z)]
    BY <1>7
  <1> HIDE DEF g
  <1>9. g[S] = f[S]
    <2>1. g[{}] = f[{}]
      BY <1>6, <1>8 DEF Folding
    <2>2. ASSUME NEW T \in SUBSET S, T # {} /\ g[T \ {Top(T)}] = f[T \ {Top(T)}]
          PROVE  g[T] = f[T]
      <3>1. g[T] = NextTotal(g[T \ {Top(T)}], s[Top(T)], Z)
        BY <1>8, <2>2
      <3>2. f[T] = NextTotal(f[T \ {Top(T)}], s[Top(T)], Z)
        BY <1>7, <2>2
      <3> QED
        BY <2>2, <3>1, <3>2
    <2> QED
      BY <1>5, <2>1, <2>2, FoldsAgree
  <1>10. ASSUME NEW k \in 1 .. Len(s) PROVE p[k] = NextTotal(p[k - 1], s[k], Z)
    <2>1. k - 1 \in 0 .. Len(s) /\ s[k] \in C
      BY <1>5
    <2> QED
      BY <1>3, <1>6, <2>1 DEF Folding, A
  <1> QED
    BY <1>4, <1>6, <1>9, <1>10 DEF Folding, base, A, S

-----------------------------------------------------------------------------
(***************************************************************************)
(* Upper and lower case: lowering the letters of a text and making lines   *)
(* of it may be done in either order.                                      *)
(***************************************************************************)

(* toLowerCase, of one line. *)
LowerLine(line) == [j \in DOMAIN line |-> Lower(line[j])]

(* Lowering changes no length. *)
LEMMA LowerLineIs ==
  ASSUME NEW C, NEW line \in Seq(C)
  PROVE  /\ LowerLine(line) \in Seq(C \cup {"x"}) /\ Len(LowerLine(line)) = Len(line)
         /\ DOMAIN LowerLine(line) = 1 .. Len(line)
         /\ \A j \in 1 .. Len(line) : LowerLine(line)[j] = Lower(line[j])
  <1> DEFINE n == Len(line)
             D == C \cup {"x"}
  <1>1. n \in Nat /\ DOMAIN line = 1 .. n /\ \A j \in 1 .. n : line[j] \in C
    OBVIOUS
  <1>2. \A j \in 1 .. n : Lower(line[j]) \in D
    BY <1>1 DEF Lower
  <1>3. LowerLine(line) = [j \in 1 .. n |-> Lower(line[j])]
    BY <1>1 DEF LowerLine
  <1> HIDE DEF n, D
  <1>4. LowerLine(line) \in Seq(D) /\ Len(LowerLine(line)) = n /\ DOMAIN LowerLine(line) = 1 .. n
    BY <1>1, <1>2, <1>3
  <1> QED
    BY <1>3, <1>4 DEF n, D

LEMMA LowerCaseIs ==
  ASSUME NEW C, NEW ls \in Seq(Seq(C))
  PROVE  /\ toLowerCase(ls) \in Seq(Seq(C \cup {"x"})) /\ Len(toLowerCase(ls)) = Len(ls)
         /\ DOMAIN toLowerCase(ls) = 1 .. Len(ls)
         /\ \A k \in 1 .. Len(ls) : toLowerCase(ls)[k] = LowerLine(ls[k])
  <1> DEFINE n == Len(ls)
             D == Seq(C \cup {"x"})
  <1>1. n \in Nat /\ DOMAIN ls = 1 .. n /\ \A k \in 1 .. n : ls[k] \in Seq(C)
    BY ElementOfSeq
  <1>2. \A k \in 1 .. n : LowerLine(ls[k]) \in D
    BY <1>1, LowerLineIs
  <1>3. toLowerCase(ls) = [k \in 1 .. n |-> LowerLine(ls[k])]
    BY <1>1 DEF toLowerCase, LowerLine
  <1> HIDE DEF n, D
  <1>4. toLowerCase(ls) \in Seq(D) /\ Len(toLowerCase(ls)) = n /\ DOMAIN toLowerCase(ls) = 1 .. n
    BY <1>1, <1>2, <1>3
  <1> QED
    BY <1>3, <1>4 DEF n, D

(* It makes no difference whether the step of split is taken before or after
   lowering. *)
LEMMA LowerAppends ==
  ASSUME NEW C, NEW line \in Seq(C), NEW c \in C
  PROVE  Append(LowerLine(line), Lower(c)) = LowerLine(Append(line, c))
  <1> DEFINE D == C \cup {"x"}
             u == Append(LowerLine(line), Lower(c))
             v == LowerLine(Append(line, c))
             n == Len(line)
  <1>1. Lower(c) \in D
    BY DEF Lower
  <1>2. /\ LowerLine(line) \in Seq(D) /\ Len(LowerLine(line)) = n
        /\ \A j \in 1 .. n : LowerLine(line)[j] = Lower(line[j])
    BY LowerLineIs
  <1>3. /\ u \in Seq(D) /\ Len(u) = n + 1
        /\ \A j \in 1 .. n : u[j] = Lower(line[j])
        /\ u[n + 1] = Lower(c)
    BY <1>1, <1>2, AppendProperties
  <1>4. Append(line, c) \in Seq(C) /\ Len(Append(line, c)) = n + 1 /\ n \in Nat
        /\ (\A j \in 1 .. n : Append(line, c)[j] = line[j]) /\ Append(line, c)[n + 1] = c
    BY AppendProperties
  <1>5. /\ v \in Seq(D) /\ Len(v) = n + 1
        /\ \A j \in 1 .. n + 1 : v[j] = Lower(Append(line, c)[j])
    BY <1>4, LowerLineIs
  <1> HIDE DEF u, v, D
  <1>6. \A j \in 1 .. n + 1 : u[j] = v[j]
    <2>1. ASSUME NEW j \in 1 .. n + 1 PROVE u[j] = v[j]
      <3>1. j \in 1 .. n \/ j = n + 1
        BY <1>4
      <3>2. CASE j \in 1 .. n
        BY <1>3, <1>4, <1>5, <3>2
      <3>3. CASE j = n + 1
        BY <1>3, <1>4, <1>5, <3>3
      <3> QED
        BY <3>1, <3>2, <3>3
    <2> QED
      BY <2>1
  <1>7. u = v
    BY <1>3, <1>5, <1>6, SeqEqual
  <1> QED
    BY <1>7 DEF u, v

(* No letter becomes a line ending, so the pieces of a lowered text are the
   lowered pieces. *)
LEMMA LowerSplits ==
  ASSUME NEW C, NEW ps \in Pieces(C), NEW c \in C
  PROVE  NextPieces(toLowerCase(ps), Lower(c), "nl") = toLowerCase(NextPieces(ps, c, "nl"))
  <1> DEFINE D == C \cup {"x"}
             n == Len(ps)
             qs == toLowerCase(ps)
             u == NextPieces(qs, Lower(c), "nl")
             ns == NextPieces(ps, c, "nl")
             v == toLowerCase(ns)
  <1>1. ps \in Seq(Seq(C)) /\ n \in Nat /\ n >= 1 /\ DOMAIN ps = 1 .. n
    BY DEF Pieces
  <1>2. /\ qs \in Seq(Seq(D)) /\ Len(qs) = n /\ DOMAIN qs = 1 .. n
        /\ \A k \in 1 .. n : qs[k] = LowerLine(ps[k])
    BY <1>1, LowerCaseIs
  <1>3. qs \in Pieces(D)
    BY <1>1, <1>2 DEF Pieces
  <1>4. Lower(c) \in D /\ (Lower(c) = "nl" <=> c = "nl")
    BY DEF Lower
  <1> HIDE DEF qs, D
  <1>5. u \in Pieces(D) /\ u \in Seq(Seq(D)) /\ Len(u) = IF c = "nl" THEN n + 1 ELSE n
    <2>1. u \in Pieces(D) /\ Len(u) = IF c = "nl" THEN n + 1 ELSE n
      BY <1>2, <1>3, <1>4, NextPiecesIs
    <2> QED
      BY <2>1 DEF Pieces
  <1>6. ns \in Pieces(C) /\ ns \in Seq(Seq(C)) /\ Len(ns) = IF c = "nl" THEN n + 1 ELSE n
    <2>1. ns \in Pieces(C) /\ Len(ns) = IF c = "nl" THEN n + 1 ELSE n
      BY NextPiecesIs
    <2> QED
      BY <2>1 DEF Pieces
  <1>7. /\ v \in Seq(Seq(D)) /\ Len(v) = Len(ns)
        /\ \A k \in 1 .. Len(ns) : v[k] = LowerLine(ns[k])
    BY <1>6, LowerCaseIs DEF D
  <1>8. ASSUME NEW k \in 1 .. Len(ns) PROVE u[k] = v[k]
    <2>1. CASE c = "nl"
      <3>1. <<>> \in Seq(C) /\ <<>> \in Seq(D)
        OBVIOUS
      <3>2. ns = Append(ps, <<>>) /\ u = Append(qs, <<>>)
        BY <1>4, <2>1 DEF NextPieces
      <3>3. Len(ns) = n + 1
        BY <1>6, <2>1
      <3>4. k \in 1 .. n \/ k = n + 1
        BY <1>1, <3>3
      <3>5. CASE k \in 1 .. n
        <4>1. Append(ps, <<>>)[k] = ps[k] /\ Append(qs, <<>>)[k] = qs[k]
          BY <1>1, <1>2, <3>1, <3>5, AppendProperties
        <4> QED
          BY <1>2, <1>7, <3>2, <3>5, <4>1
      <3>6. CASE k = n + 1
        <4>1. Append(ps, <<>>)[n + 1] = <<>> /\ Append(qs, <<>>)[n + 1] = <<>>
          BY <1>1, <1>2, <3>1, AppendProperties
        <4>2. LowerLine(<<>>) = <<>>
          <5>1. LowerLine(<<>>) \in Seq(D) /\ Len(LowerLine(<<>>)) = 0
            BY <3>1, LowerLineIs DEF D
          <5> QED
            BY <5>1
        <4> QED
          BY <1>7, <3>2, <3>6, <4>1, <4>2
      <3> QED
        BY <3>4, <3>5, <3>6
    <2>2. CASE c # "nl"
      <3>1. ns = [ps EXCEPT ![n] = Append(@, c)]
        BY <2>2 DEF NextPieces
      <3>2. u = [qs EXCEPT ![n] = Append(@, Lower(c))]
        BY <1>2, <1>4, <2>2 DEF NextPieces
      <3>3. k \in 1 .. n /\ n \in 1 .. n
        BY <1>1, <1>6, <2>2
      <3>4. CASE k = n
        <4>1. ps[n] \in Seq(C)
          BY <1>1, <3>3, ElementOfSeq
        <4>2. Append(LowerLine(ps[n]), Lower(c)) = LowerLine(Append(ps[n], c))
          BY <4>1, LowerAppends
        <4>3. ns[n] = Append(ps[n], c) /\ u[n] = Append(qs[n], Lower(c))
          BY <1>1, <1>2, <3>1, <3>2, <3>3
        <4> QED
          BY <1>2, <1>7, <3>3, <3>4, <4>2, <4>3
      <3>5. CASE k # n
        <4>1. ns[k] = ps[k] /\ u[k] = qs[k]
          BY <1>1, <1>2, <3>1, <3>2, <3>3, <3>5
        <4> QED
          BY <1>2, <1>7, <3>3, <4>1
      <3> QED
        BY <3>4, <3>5
    <2> QED
      BY <2>1, <2>2
  <1> HIDE DEF u, v, ns, n
  <1>9. u = v
    <2>1. Len(u) = Len(ns)
      BY <1>5, <1>6
    <2> QED
      BY <1>5, <1>7, <1>8, <2>1, SeqEqual
  <1> QED
    BY <1>9 DEF u, v, ns, qs

LEMMA LowerLines ==
  ASSUME NEW C, NEW s \in Seq(C)
  PROVE  splitLines(LowerLine(s)) = toLowerCase(splitLines(s))
  <1> DEFINE D == C \cup {"x"}
             t == LowerLine(s)
             n == Len(s)
  <1>1. t \in Seq(D) /\ Len(t) = n /\ n \in Nat /\ \A k \in 1 .. n : t[k] = Lower(s[k]) /\ s[k] \in C
    <2>1. n \in Nat /\ \A k \in 1 .. n : s[k] \in C
      OBVIOUS
    <2> QED
      BY <2>1, LowerLineIs
  <1>2. PICK p \in [0 .. n -> Pieces(C)] :
           /\ p[0] = << <<>> >>
           /\ \A k \in 1 .. n : p[k] = NextPieces(p[k - 1], s[k], "nl")
           /\ split(s, "nl") = p[n]
    BY SplitIs
  <1> HIDE DEF t, D
  <1>3. PICK q \in [0 .. n -> Pieces(D)] :
           /\ q[0] = << <<>> >>
           /\ \A k \in 1 .. n : q[k] = NextPieces(q[k - 1], t[k], "nl")
           /\ split(t, "nl") = q[n]
    <2>1. \E q \in [0 .. Len(t) -> Pieces(D)] :
           /\ q[0] = << <<>> >>
           /\ \A k \in 1 .. Len(t) : q[k] = NextPieces(q[k - 1], t[k], "nl")
           /\ split(t, "nl") = q[Len(t)]
      <3>1. t \in Seq(D)
        BY <1>1
      <3> QED
        BY ONLY <3>1, SplitIs
    <2> QED
      BY <1>1, <2>1
  <1> DEFINE Z == {k \in 0 .. n : q[k] # toLowerCase(p[k])}
  <1>4. Z = {}
    <2> SUFFICES ASSUME Z # {} PROVE FALSE
      OBVIOUS
    <2>1. PICK k \in Z : \A j \in Z : k <= j
      <3>1. Z \in SUBSET Nat
        BY <1>1
      <3> HIDE DEF Z
      <3> QED
        BY <3>1, LeastNumber
    <2>2. k \in 0 .. n /\ q[k] # toLowerCase(p[k])
      BY <2>1
    <2>3. k # 0
      <3>1. toLowerCase(<< <<>> >>) = << <<>> >>
        <4> DEFINE z == << <<>> >>
        <4>1. z \in Seq(Seq(C)) /\ Len(z) = 1 /\ z[1] = <<>>
          OBVIOUS
        <4>2. /\ toLowerCase(z) \in Seq(Seq(D)) /\ Len(toLowerCase(z)) = 1
              /\ \A j \in 1 .. 1 : toLowerCase(z)[j] = LowerLine(z[j])
          BY <4>1, LowerCaseIs DEF D
        <4>3. LowerLine(<<>>) = <<>>
          <5>1. <<>> \in Seq(C)
            OBVIOUS
          <5>2. LowerLine(<<>>) \in Seq(D) /\ Len(LowerLine(<<>>)) = 0
            BY <5>1, LowerLineIs DEF D
          <5> QED
            BY <5>2
        <4>4. z \in Seq(Seq(D))
          OBVIOUS
        <4>5. \A j \in 1 .. 1 : toLowerCase(z)[j] = z[j]
          BY <4>1, <4>2, <4>3
        <4> HIDE DEF z
        <4>6. toLowerCase(z) = z
          BY <4>1, <4>2, <4>4, <4>5, SeqEqual
        <4> QED
          BY <4>6 DEF z
      <3> QED
        BY <1>2, <1>3, <2>2, <3>1
    <2>4. k \in 1 .. n /\ k - 1 \in 0 .. n /\ q[k - 1] = toLowerCase(p[k - 1])
      <3>1. k \in 1 .. n /\ k - 1 \in 0 .. n /\ ~(k <= k - 1)
        BY <1>1, <2>2, <2>3
      <3>2. k - 1 \notin Z
        BY <2>1, <3>1
      <3> QED
        BY <3>1, <3>2
    <2>5. q[k] = NextPieces(toLowerCase(p[k - 1]), Lower(s[k]), "nl")
      BY <1>1, <1>3, <2>4
    <2>6. p[k - 1] \in Pieces(C) /\ s[k] \in C /\ p[k] = NextPieces(p[k - 1], s[k], "nl")
      BY <1>1, <1>2, <2>4
    <2>7. q[k] = toLowerCase(p[k])
      BY <2>5, <2>6, LowerSplits
    <2> QED
      BY <2>2, <2>7
  <1>5. q[n] = toLowerCase(p[n])
    BY <1>1, <1>4
  <1> QED
    BY <1>2, <1>3, <1>5 DEF splitLines, t

(* No letter becomes a blank. *)
LEMMA LowerTail ==
  ASSUME NEW C, NEW line \in Seq(C)
  PROVE  withoutTail(LowerLine(line)) = LowerLine(withoutTail(line))
  <1> DEFINE D == C \cup {"x"}
             t == LowerLine(line)
             n == Len(line)
             Z == {k \in DOMAIN line : line[k] # " "}
             L == {k \in DOMAIN t : t[k] # " "}
  <1>1. /\ t \in Seq(D) /\ Len(t) = n /\ DOMAIN t = 1 .. n
        /\ \A k \in 1 .. n : t[k] = Lower(line[k])
    BY LowerLineIs
  <1>2. n \in Nat /\ DOMAIN line = 1 .. n
    OBVIOUS
  <1>3. \A c : Lower(c) # " " <=> c # " "
    BY DEF Lower
  <1>4. Z = L
    BY <1>1, <1>2, <1>3
  <1>5. Z \in SUBSET DOMAIN line /\ Z \in SUBSET DOMAIN t
    BY <1>1, <1>2
  <1>6. withoutTail(line) = UpTo(line, Z) /\ withoutTail(t) = UpTo(t, Z)
    BY <1>4 DEF withoutTail
  <1> HIDE DEF Z, L, t, D
  <1>7. PICK m \in 0 .. n :
           /\ m = Max({0} \cup Z)
           /\ UpTo(line, Z) \in Seq(C) /\ Len(UpTo(line, Z)) = m
           /\ \A k \in 1 .. m : UpTo(line, Z)[k] = line[k]
    BY <1>5, UpToIs
  <1>8. PICK o \in 0 .. Len(t) :
           /\ o = Max({0} \cup Z)
           /\ UpTo(t, Z) \in Seq(D) /\ Len(UpTo(t, Z)) = o
           /\ \A k \in 1 .. o : UpTo(t, Z)[k] = t[k]
    BY <1>1, <1>5, UpToIs
  <1> DEFINE u == UpTo(line, Z)
             v == UpTo(t, Z)
  <1>9. u \in Seq(C) /\ Len(u) = m /\ \A k \in 1 .. m : u[k] = line[k]
    BY <1>7
  <1>10. v \in Seq(D) /\ Len(v) = m /\ \A k \in 1 .. m : v[k] = t[k]
    BY <1>7, <1>8
  <1> HIDE DEF u, v
  <1>11. LowerLine(u) \in Seq(D) /\ Len(LowerLine(u)) = m /\ \A k \in 1 .. m : LowerLine(u)[k] = Lower(u[k])
    BY <1>9, LowerLineIs DEF D
  <1>12. \A k \in 1 .. m : v[k] = LowerLine(u)[k]
    <2>1. ASSUME NEW k \in 1 .. m PROVE v[k] = LowerLine(u)[k]
      <3>1. k \in 1 .. n
        BY <1>2, <1>7
      <3> QED
        BY <1>1, <1>9, <1>10, <1>11, <3>1
    <2> QED
      BY <2>1
  <1>13. v = LowerLine(u)
    BY <1>10, <1>11, <1>12, SeqEqual
  <1> QED
    BY <1>6, <1>13 DEF u, v, t

(* Case is lost as well before the blanks are as after. *)
LEMMA LowerNormal ==
  ASSUME NEW C, NEW s \in Seq(C)
  PROVE  normalize(LowerLine(s)) = toLowerCase(normalize(s))
  <1> DEFINE D == C \cup {"x"}
             ls == splitLines(s)
             n == Len(ls)
             st == Stripped(s)
             lo == Stripped(LowerLine(s))
             Z == {k \in DOMAIN st : st[k] # <<>>}
             L == {k \in DOMAIN lo : lo[k] # <<>>}
  <1>1. ls \in Seq(Seq(C)) /\ n \in Nat /\ DOMAIN ls = 1 .. n /\ \A k \in 1 .. n : ls[k] \in Seq(C)
    BY LinesOf, ElementOfSeq
  <1>2. splitLines(LowerLine(s)) = toLowerCase(ls)
    BY LowerLines
  <1>3. DOMAIN toLowerCase(ls) = 1 .. n /\ \A k \in 1 .. n : toLowerCase(ls)[k] = LowerLine(ls[k])
    BY <1>1, LowerCaseIs
  <1>4. st = [k \in 1 .. n |-> withoutTail(ls[k])]
    BY <1>1 DEF Stripped
  <1>5. lo = [k \in 1 .. n |-> withoutTail(LowerLine(ls[k]))]
    BY <1>2, <1>3 DEF Stripped
  <1>6. ASSUME NEW k \in 1 .. n
        PROVE  st[k] \in Seq(C) /\ lo[k] \in Seq(D) /\ lo[k] = LowerLine(st[k]) /\ (lo[k] = <<>> <=> st[k] = <<>>)
    <2>1. ls[k] \in Seq(C) /\ st[k] = withoutTail(ls[k]) /\ lo[k] = withoutTail(LowerLine(ls[k]))
      BY <1>1, <1>4, <1>5
    <2>2. st[k] \in Seq(C) /\ lo[k] = LowerLine(st[k])
      BY <2>1, TailIs, LowerTail
    <2> HIDE DEF st, lo
    <2>a. \A z \in Seq(C) : LowerLine(z) \in Seq(D) /\ Len(LowerLine(z)) = Len(z) /\ Len(z) \in Nat
      BY LowerLineIs
    <2>3. lo[k] \in Seq(D) /\ Len(lo[k]) = Len(st[k]) /\ Len(st[k]) \in Nat
      BY <2>2, <2>a
    <2>4. Len(lo[k]) = 0 <=> Len(st[k]) = 0
      BY <2>3
    <2> QED
      BY <2>2, <2>3, <2>4, EmptySeq
  <1>7. DOMAIN st = 1 .. n /\ DOMAIN lo = 1 .. n
    BY <1>4, <1>5
  <1> HIDE DEF ls, st, lo, n, D
  <1>8. st \in Seq(Seq(C)) /\ lo \in Seq(Seq(D)) /\ Len(st) = n /\ Len(lo) = n
    BY <1>1, <1>4, <1>5, <1>6
  <1>9. Z = L /\ Z \in SUBSET DOMAIN st /\ Z \in SUBSET DOMAIN lo
    BY <1>6, <1>7
  <1>10. normalize(s) = UpTo(st, Z) /\ normalize(LowerLine(s)) = UpTo(lo, Z)
    BY <1>9 DEF normalize, Stripped, st, lo
  <1> HIDE DEF Z, L
  <1>11. PICK m \in 0 .. Len(st) :
           /\ m = Max({0} \cup Z)
           /\ UpTo(st, Z) \in Seq(Seq(C)) /\ Len(UpTo(st, Z)) = m
           /\ \A k \in 1 .. m : UpTo(st, Z)[k] = st[k]
    <2>1. st \in Seq(Seq(C)) /\ Z \in SUBSET DOMAIN st
      BY <1>8, <1>9
    <2> QED
      BY ONLY <2>1, UpToIs, ZenonT(40)
  <1>12. PICK o \in 0 .. Len(lo) :
           /\ o = Max({0} \cup Z)
           /\ UpTo(lo, Z) \in Seq(Seq(D)) /\ Len(UpTo(lo, Z)) = o
           /\ \A k \in 1 .. o : UpTo(lo, Z)[k] = lo[k]
    <2>1. lo \in Seq(Seq(D)) /\ Z \in SUBSET DOMAIN lo
      BY <1>8, <1>9
    <2> QED
      BY ONLY <2>1, UpToIs, ZenonT(40)
  <1> DEFINE u == UpTo(st, Z)
             v == UpTo(lo, Z)
  <1>13. u \in Seq(Seq(C)) /\ Len(u) = m /\ \A k \in 1 .. m : u[k] = st[k]
    BY <1>11
  <1>14. v \in Seq(Seq(D)) /\ Len(v) = m /\ \A k \in 1 .. m : v[k] = lo[k]
    BY <1>11, <1>12
  <1> HIDE DEF u, v
  <1>15. /\ toLowerCase(u) \in Seq(Seq(D)) /\ Len(toLowerCase(u)) = m
         /\ \A k \in 1 .. m : toLowerCase(u)[k] = LowerLine(u[k])
    BY <1>13, LowerCaseIs DEF D
  <1>16. \A k \in 1 .. m : v[k] = toLowerCase(u)[k]
    <2>1. ASSUME NEW k \in 1 .. m PROVE v[k] = toLowerCase(u)[k]
      <3>1. k \in 1 .. n
        BY <1>1, <1>8, <1>11
      <3> QED
        BY <1>6, <1>13, <1>14, <1>15, <3>1
    <2> QED
      BY <2>1
  <1>17. v = toLowerCase(u)
    BY <1>14, <1>15, <1>16, SeqEqual
  <1> QED
    BY <1>10, <1>17 DEF u, v

-----------------------------------------------------------------------------
(***************************************************************************)
(* Two sequences hold the same items equally often just when one is a      *)
(* reordering of the other.                                                *)
(***************************************************************************)

(* g fits S into T, one by one. *)
Into(g, S, T) == g \in [S -> T] /\ \A x, y \in S : g[x] = g[y] => x = y

(* The smaller set fits into the larger. *)
LEMMA FewerFitInto ==
  ASSUME NEW S, NEW T, IsFiniteSet(S), IsFiniteSet(T), Cardinality(S) <= Cardinality(T)
  PROVE  \E g : Into(g, S, T)
  <1> DEFINE m == Cardinality(S)
             n == Cardinality(T)
  <1>1. m \in Nat /\ n \in Nat /\ m <= n /\ ExistsBijection(1 .. m, S) /\ ExistsBijection(1 .. n, T)
    BY FS_CardinalityType
  <1> HIDE DEF m, n
  <1>2. PICK f : f \in Bijection(S, 1 .. m)
    BY <1>1, Fun_ExistsBijSymmetric DEF ExistsBijection
  <1>3. PICK h : h \in Bijection(1 .. n, T)
    BY <1>1 DEF ExistsBijection
  <1>4. f \in [S -> 1 .. m] /\ \A x, y \in S : f[x] = f[y] => x = y
    BY <1>2, Fun_BijectionProperties
  <1>5. h \in [1 .. n -> T] /\ \A x, y \in 1 .. n : h[x] = h[y] => x = y
    BY <1>3, Fun_BijectionProperties
  <1>6. \A x \in S : f[x] \in 1 .. n
    <2>1. \A k \in 1 .. m : k \in 1 .. n
      BY <1>1
    <2> QED
      BY <1>4, <2>1
  <1> DEFINE g == [x \in S |-> h[f[x]]]
  <1>7. Into(g, S, T)
    BY <1>4, <1>5, <1>6 DEF Into
  <1> QED
    BY <1>7

(* A finite set that fits into itself fills itself. *)
LEMMA IntoItself ==
  ASSUME NEW S, IsFiniteSet(S), NEW g, Into(g, S, S)
  PROVE  \A y \in S : \E x \in S : g[x] = y
  <1>1. g \in Injection(S, S)
    BY Fun_IsInj DEF Into
  <1>2. g \in Surjection(S, S)
    BY <1>1, FS_Injection
  <1> QED
    BY <1>2, Fun_SurjectionProperties

(* What fits into a finite set is no larger. *)
LEMMA NoMoreThan ==
  ASSUME NEW S, NEW T, IsFiniteSet(T), NEW g, Into(g, S, T)
  PROVE  IsFiniteSet(S) /\ Cardinality(S) <= Cardinality(T)
  <1>1. g \in Injection(S, T)
    BY Fun_IsInj DEF Into
  <1> QED
    BY <1>1, FS_Injection

(* Where x occurs. *)
At(x, s) == {k \in DOMAIN s : s[k] = x}

(* Occurs counts those places. *)
LEMMA AtIs ==
  ASSUME NEW C, NEW s \in Seq(C), NEW x
  PROVE  /\ IsFiniteSet(At(x, s)) /\ At(x, s) \in SUBSET (1 .. Len(s))
         /\ Occurs(x, s) = Cardinality(At(x, s)) /\ Occurs(x, s) \in Nat
  <1>1. Len(s) \in Nat /\ DOMAIN s = 1 .. Len(s)
    OBVIOUS
  <1>2. At(x, s) \in SUBSET (1 .. Len(s)) /\ IsFiniteSet(1 .. Len(s))
    BY <1>1, FS_Interval DEF At
  <1>3. IsFiniteSet(At(x, s)) /\ Cardinality(At(x, s)) \in Nat
    BY <1>2, FS_Subset, FS_CardinalityType
  <1> QED
    BY <1>2, <1>3 DEF Occurs, At

(* The counts that sameMultiset takes down: x's places up to k. *)
LEMMA AtUpTo ==
  ASSUME NEW C, NEW s \in Seq(C), NEW k \in DOMAIN s, NEW x
  PROVE  /\ SubSeq(s, 1, k) \in Seq(C)
         /\ At(x, SubSeq(s, 1, k)) = {j \in At(x, s) : j =< k}
  <1> DEFINE u == SubSeq(s, 1, k)
             n == Len(s)
  <1>1. n \in Nat /\ DOMAIN s = 1 .. n /\ k \in 1 .. n
    OBVIOUS
  <1>2. u \in Seq(C) /\ Len(u) = k /\ \A j \in 1 .. k : u[j] = s[j]
    <2>1. 1 .. k \subseteq 1 .. n
      BY <1>1
    <2> QED
      BY <1>1, <2>1
  <1>3. DOMAIN u = 1 .. k
    BY <1>2
  <1> HIDE DEF u, n
  <1>4. \A j \in Nat : j \in 1 .. k <=> j \in 1 .. n /\ j =< k
    BY <1>1
  <1> QED
    BY <1>1, <1>2, <1>3, <1>4 DEF At, u

(* sameMultiset, which takes the counts of a down, agrees with Reordered. *)
LEMMA ReorderedIs ==
  ASSUME NEW A, NEW a \in Seq(A), NEW B, NEW b \in Seq(B)
  PROVE  sameMultiset(a, b) <=> Reordered(a, b)
  <1> DEFINE n == Len(a)
             I == 1 .. n
  <1>1. n \in Nat /\ DOMAIN a = I /\ Len(b) \in Nat /\ DOMAIN b = 1 .. Len(b) /\ IsFiniteSet(I)
    BY FS_Interval
  <1> HIDE DEF n, I
  <1>2. ASSUME Reordered(a, b) PROVE sameMultiset(a, b)
    <2>1. Len(b) = n /\ DOMAIN b = I
      BY <1>1, <1>2 DEF Reordered, n, I
    <2>2. PICK f \in [I -> I] : (\A x, y \in I : f[x] = f[y] => x = y) /\ \A x \in I : a[x] = b[f[x]]
      BY <1>1, <1>2, <2>1 DEF Reordered
    <2>3. Into(f, I, I)
      BY <2>2 DEF Into
    <2>4. \A y \in I : \E x \in I : f[x] = y
      BY <1>1, <2>3, IntoItself
    <2>5. ASSUME NEW k \in I PROVE Occurs(b[k], SubSeq(b, 1, k)) =< Occurs(b[k], a)
      <3> DEFINE P == At(b[k], SubSeq(b, 1, k))
                 Q == At(b[k], a)
                 g == [j \in P |-> CHOOSE x \in I : f[x] = j]
      <3>1. SubSeq(b, 1, k) \in Seq(B) /\ P = {j \in At(b[k], b) : j =< k}
        BY <2>1, <2>5, AtUpTo
      <3>2. Occurs(b[k], SubSeq(b, 1, k)) = Cardinality(P)
        BY <3>1, AtIs
      <3>3. Occurs(b[k], a) = Cardinality(Q) /\ IsFiniteSet(Q)
        BY AtIs
      <3>4. \A j \in P : j \in I /\ b[j] = b[k]
        BY <2>1, <3>1 DEF At
      <3> HIDE DEF P
      <3>5. \A j \in P : g[j] \in I /\ f[g[j]] = j
        BY <2>4, <3>4
      <3>6. \A j \in P : g[j] \in Q
        BY <1>1, <2>2, <3>4, <3>5 DEF At
      <3>7. Into(g, P, Q)
        <4>1. g \in [P -> Q]
          BY <3>6
        <4> HIDE DEF g, Q
        <4> QED
          BY <3>5, <4>1 DEF Into
      <3> HIDE DEF g, Q
      <3>8. Cardinality(P) <= Cardinality(Q)
        BY <3>3, <3>7, NoMoreThan
      <3> QED
        BY <3>2, <3>3, <3>8
    <2> QED
      BY <2>1, <2>5 DEF sameMultiset, n
  <1>3. ASSUME sameMultiset(a, b) PROVE Reordered(a, b)
    <2>1. Len(b) = n /\ DOMAIN b = I
      BY <1>1, <1>3 DEF sameMultiset, n, I
    <2>2. ASSUME NEW x, x \in {b[k] : k \in I} PROVE \E g : Into(g, At(x, b), At(x, a))
      <3> DEFINE P == At(x, b)
                 Q == At(x, a)
      <3>1. /\ IsFiniteSet(P) /\ P \in SUBSET (1 .. Len(b)) /\ Occurs(x, b) = Cardinality(P)
            /\ IsFiniteSet(Q) /\ Occurs(x, a) = Cardinality(Q)
        BY AtIs
      <3>2. P # {} /\ P \in SUBSET Nat /\ P \in SUBSET I
        BY <1>1, <2>1, <2>2, <3>1 DEF At
      <3>3. PICK k \in P : \A j \in P : k >= j
        BY <3>1, <3>2, GreatestNumber
      <3>4. k \in I /\ b[k] = x
        BY <2>1, <3>2, <3>3 DEF At
      <3>5. SubSeq(b, 1, k) \in Seq(B) /\ At(x, SubSeq(b, 1, k)) = {j \in P : j =< k}
        BY <2>1, <3>4, AtUpTo
      <3>6. {j \in P : j =< k} = P
        BY <3>2, <3>3
      <3>7. Occurs(x, SubSeq(b, 1, k)) = Cardinality(P)
        BY <3>5, <3>6, AtIs
      <3>8. Occurs(x, SubSeq(b, 1, k)) =< Occurs(x, a)
        BY <1>3, <2>1, <3>4 DEF sameMultiset
      <3>9. Cardinality(P) <= Cardinality(Q)
        BY <3>1, <3>7, <3>8
      <3> HIDE DEF P, Q
      <3>10. \E g : Into(g, P, Q)
        BY <3>1, <3>9, FewerFitInto
      <3> QED
        BY <3>10 DEF P, Q
    <2> DEFINE h(x) == CHOOSE g : Into(g, At(x, b), At(x, a))
               G == [k \in I |-> h(b[k])[k]]
    <2>3. ASSUME NEW x, x \in {b[k] : k \in I} PROVE Into(h(x), At(x, b), At(x, a))
      BY <2>2, <2>3
    <2>4. ASSUME NEW k \in I PROVE G[k] \in At(b[k], a)
      <3>1. k \in At(b[k], b)
        BY <2>1 DEF At
      <3>2. Into(h(b[k]), At(b[k], b), At(b[k], a))
        BY <2>3
      <3> HIDE DEF h
      <3> QED
        BY <3>1, <3>2 DEF Into
    <2>5. ASSUME NEW j \in I, NEW k \in I, G[j] = G[k] PROVE j = k
      <3>1. b[j] = b[k]
        BY <2>4, <2>5 DEF At
      <3>2. j \in At(b[k], b) /\ k \in At(b[k], b)
        BY <2>1, <3>1 DEF At
      <3>3. Into(h(b[k]), At(b[k], b), At(b[k], a))
        BY <2>3
      <3>4. h(b[k])[j] = h(b[k])[k]
        BY <2>5, <3>1
      <3> HIDE DEF h
      <3> QED
        BY <3>2, <3>3, <3>4 DEF Into
    <2>6. \A k \in I : G[k] \in I /\ a[G[k]] = b[k]
      BY <1>1, <2>4 DEF At
    <2>7. Into(G, I, I)
      <3>1. G \in [I -> I]
        BY <2>6
      <3> HIDE DEF G
      <3> QED
        BY <2>5, <3>1 DEF Into
    <2> HIDE DEF G
    <2>8. \A y \in I : \E x \in I : G[x] = y
      BY <1>1, <2>7, IntoItself
    <2> DEFINE f == [y \in I |-> CHOOSE x \in I : G[x] = y]
    <2>9. \A y \in I : f[y] \in I /\ G[f[y]] = y
      BY <2>8
    <2>10. f \in [I -> I]
      BY <2>9
    <2> HIDE DEF f
    <2>11. \A x, y \in I : f[x] = f[y] => x = y
      BY <2>9
    <2>12. \A x \in I : a[x] = b[f[x]]
      BY <2>6, <2>9
    <2> QED
      BY <1>1, <2>1, <2>10, <2>11, <2>12, ZenonT(40) DEF Reordered, n
  <1> QED
    BY <1>2, <1>3

(* A sequence is a reordering of itself. *)
LEMMA SameAsItself ==
  ASSUME NEW A, NEW a \in Seq(A)
  PROVE  sameMultiset(a, a)
  <1>1. Reordered(a, a)
    <2> DEFINE f == [k \in DOMAIN a |-> k]
    <2>1. f \in [DOMAIN a -> DOMAIN a]
      OBVIOUS
    <2>2. (\A x, y \in DOMAIN a : f[x] = f[y] => x = y) /\ \A x \in DOMAIN a : a[x] = a[f[x]]
      OBVIOUS
    <2> HIDE DEF f
    <2> QED
      BY <2>1, <2>2 DEF Reordered
  <1> QED
    BY <1>1, ReorderedIs

-----------------------------------------------------------------------------
(***************************************************************************)
(* What check decides is the right answer of every checker.                *)
(***************************************************************************)

(* The tokens of a text are texts. *)
LEMMA TokensIs ==
  ASSUME NEW C, NEW s \in Seq(C)
  PROVE  tokens(s) \in Seq(Seq(C))
  <1>1. ASSUME NEW line \in Seq(C) PROVE words(line) \in Seq(Seq(C))
    <2>1. PICK p \in [0 .. Len(line) -> Pieces(C)] :
             /\ p[0] = << <<>> >>
             /\ \A k \in 1 .. Len(line) : p[k] = NextPieces(p[k - 1], line[k], " ")
             /\ split(line, " ") = p[Len(line)]
      BY SplitIs, ZenonT(40)
    <2>2. Len(line) \in 0 .. Len(line)
      OBVIOUS
    <2>3. split(line, " ") \in Seq(Seq(C))
      BY <2>1, <2>2 DEF Pieces
    <2> QED
      BY <2>3, FilteredIs DEF words
  <1>2. normalize(s) \in Seq(Seq(C))
    BY NormalIs
  <1>3. FoldLeft(LAMBDA ts, line : ts \o words(line), <<>>, normalize(s)) \in Seq(Seq(C))
    BY <1>1, <1>2, TokensOf
  <1> QED
    BY <1>3 DEF tokens

LEMMA LinesIs ==
  ASSUME NEW C, NEW s \in Seq(C)
  PROVE  \E E : lines(s) \in Seq(E)
  <1> DEFINE ls == normalize(s)
             n == Len(ls)
             E == {trim(ls[k]) : k \in 1 .. n}
  <1>1. n \in Nat /\ DOMAIN ls = 1 .. n
    BY NormalIs
  <1>2. lines(s) = [k \in 1 .. n |-> trim(ls[k])]
    BY <1>1 DEF lines
  <1>3. lines(s) \in [1 .. n -> E]
    BY <1>2
  <1> HIDE DEF E, n
  <1>4. lines(s) \in Seq(E)
    BY <1>1, <1>3
  <1> QED
    BY <1>4

(* A token is NaN or denotes a number. *)
LEMMA NumberIs ==
  ASSUME NEW C, NEW s \in Seq(C)
  PROVE  Number(s) # NaN => Number(s) \in Nat
  BY DigitsOf DEF Number

(* numbersClose does not tell which of two numbers was expected. *)
LEMMA CloseBothWays ==
  ASSUME NEW a \in Nat, NEW b \in Nat
  PROVE  numbersClose(a, b) => numbersClose(b, a)
  <1>1. CASE a = b
    BY <1>1
  <1>2. CASE a > b
    <2>1. (IF a > b THEN a - b ELSE b - a) = (IF b > a THEN b - a ELSE a - b)
      BY <1>2
    <2>2. (IF a > b THEN a ELSE b) = (IF b > a THEN b ELSE a)
      BY <1>2
    <2> QED
      BY <2>1, <2>2 DEF numbersClose
  <1>3. CASE b > a
    <2>1. (IF a > b THEN a - b ELSE b - a) = (IF b > a THEN b - a ELSE a - b)
      BY <1>3
    <2>2. (IF a > b THEN a ELSE b) = (IF b > a THEN b ELSE a)
      BY <1>3
    <2> QED
      BY <2>1, <2>2 DEF numbersClose
  <1> QED
    BY <1>1, <1>2, <1>3

(* Only a tolerance below zero tells a number from itself. *)
LEMMA CloseToItself ==
  ASSUME NEW a \in Nat, Tolerance.num >= 0
  PROVE  numbersClose(a, a)
  <1>1. a - a = 0
    OBVIOUS
  <1>2. \A d \in Nat : 0 * d = 0
    OBVIOUS
  <1>3. (a - a) * Tolerance.den = 0
    BY <1>1, <1>2, JudgingAssumption
  <1>4. (a - a) * Tolerance.den =< Tolerance.num
    BY <1>3, JudgingAssumption
  <1> QED
    BY <1>4 DEF numbersClose

(* Whom the float checker takes for the other, it takes both ways round. *)
LEMMA FloatBothWays ==
  ASSUME NEW C, NEW a \in Seq(C), NEW e \in Seq(C), checkFloat(a, e)
  PROVE  checkFloat(e, a)
  <1> DEFINE x == tokens(a)
             y == tokens(e)
  <1>1. x \in Seq(Seq(C)) /\ y \in Seq(Seq(C))
    BY TokensIs
  <1>2. /\ Len(x) = Len(y)
        /\ \A k \in DOMAIN y :
             IF Number(y[k]) = NaN THEN x[k] = y[k]
             ELSE Number(x[k]) # NaN /\ numbersClose(Number(x[k]), Number(y[k]))
    BY DEF checkFloat
  <1> SUFFICES /\ Len(y) = Len(x)
               /\ \A k \in DOMAIN x :
                    IF Number(x[k]) = NaN THEN y[k] = x[k]
                    ELSE Number(y[k]) # NaN /\ numbersClose(Number(y[k]), Number(x[k]))
    BY DEF checkFloat
  <1> HIDE DEF x, y
  <1>3. ASSUME NEW k \in DOMAIN x
        PROVE  IF Number(x[k]) = NaN THEN y[k] = x[k]
               ELSE Number(y[k]) # NaN /\ numbersClose(Number(y[k]), Number(x[k]))
    <2>1. k \in DOMAIN y /\ x[k] \in Seq(C) /\ y[k] \in Seq(C)
      BY <1>1, <1>2, ElementOfSeq
    <2>2. CASE Number(y[k]) = NaN
      BY <1>2, <2>1, <2>2
    <2>3. CASE Number(y[k]) # NaN
      <3>1. Number(x[k]) # NaN /\ numbersClose(Number(x[k]), Number(y[k]))
        BY <1>2, <2>1, <2>3
      <3>2. Number(x[k]) \in Nat /\ Number(y[k]) \in Nat
        BY <2>1, <2>3, <3>1, NumberIs
      <3> QED
        BY <2>3, <3>1, <3>2, CloseBothWays
    <2> QED
      BY <2>2, <2>3
  <1> QED
    BY <1>2, <1>3

LEMMA FloatOfTheSame ==
  ASSUME NEW C, NEW a \in Seq(C), NEW e \in Seq(C), tokens(a) = tokens(e), Tolerance.num >= 0
  PROVE  checkFloat(a, e)
  <1>1. tokens(e) \in Seq(Seq(C))
    BY TokensIs
  <1>2. ASSUME NEW k \in DOMAIN tokens(e)
        PROVE  IF Number(tokens(e)[k]) = NaN THEN tokens(a)[k] = tokens(e)[k]
               ELSE /\ Number(tokens(a)[k]) # NaN
                    /\ numbersClose(Number(tokens(a)[k]), Number(tokens(e)[k]))
    <2> DEFINE t == tokens(e)[k]
    <2>1. t \in Seq(C)
      BY <1>1, ElementOfSeq
    <2> HIDE DEF t
    <2>2. Number(t) # NaN => numbersClose(Number(t), Number(t))
      BY <2>1, NumberIs, CloseToItself
    <2> QED
      BY <2>2 DEF t
  <1> QED
    BY <1>2 DEF checkFloat

(* Each checker passes the right answers, as they are defined without it, and
   no others. *)
LEMMA ChecksAreRight ==
  ASSUME NEW C, NEW a \in Seq(C), NEW e \in Seq(C), NEW judge \in CheckersUsed
  PROVE  check(a, e, judge) <=> RightAnswer(a, e, judge)
  <1>1. judge \in {"exact", "case_insensitive", "float", "unordered_lines", "unordered_tokens", "regex"}
    BY JudgingAssumption
  <1>2. CASE judge = "exact"
    <2>1. LooksLike(a, e) <=> normalize(a) = normalize(e)
      BY LooksLikeIs
    <2> QED
      BY <1>2, <2>1 DEF check, RightAnswer
  <1>3. CASE judge = "case_insensitive"
    <2>1. LowerLine(a) \in Seq(C \cup {"x"}) /\ LowerLine(e) \in Seq(C \cup {"x"})
      BY LowerLineIs
    <2>2. LooksLike(LowerLine(a), LowerLine(e)) <=> normalize(LowerLine(a)) = normalize(LowerLine(e))
      BY <2>1, LooksLikeIs
    <2>3. normalize(LowerLine(a)) = toLowerCase(normalize(a)) /\ normalize(LowerLine(e)) = toLowerCase(normalize(e))
      BY LowerNormal
    <2>4. check(a, e, judge) <=> toLowerCase(normalize(a)) = toLowerCase(normalize(e))
      BY <1>3 DEF check
    <2>5. RightAnswer(a, e, judge) <=> LooksLike(LowerLine(a), LowerLine(e))
      BY <1>3 DEF RightAnswer, LowerLine
    <2> QED
      BY <2>2, <2>3, <2>4, <2>5
  <1>4. CASE judge = "float"
    <2>1. check(a, e, judge) <=> checkFloat(a, e)
      BY <1>4 DEF check
    <2>2. RightAnswer(a, e, judge) <=> \/ tokens(a) = tokens(e) /\ Tolerance.num >= 0
                                       \/ checkFloat(a, e) /\ checkFloat(e, a)
      BY <1>4 DEF RightAnswer
    <2>3. checkFloat(a, e) => checkFloat(e, a)
      BY FloatBothWays
    <2>4. tokens(a) = tokens(e) /\ Tolerance.num >= 0 => checkFloat(a, e)
      BY FloatOfTheSame
    <2> QED
      BY <2>1, <2>2, <2>3, <2>4
  <1>5. CASE judge = "unordered_lines"
    <2>1. PICK A : lines(a) \in Seq(A)
      BY LinesIs
    <2>2. PICK B : lines(e) \in Seq(B)
      BY LinesIs
    <2>3. sameMultiset(lines(a), lines(e)) <=> Reordered(lines(a), lines(e))
      BY <2>1, <2>2, ReorderedIs
    <2> QED
      BY <1>5, <2>3 DEF check, RightAnswer
  <1>6. CASE judge = "unordered_tokens"
    <2>1. tokens(a) \in Seq(Seq(C)) /\ tokens(e) \in Seq(Seq(C))
      BY TokensIs
    <2>2. sameMultiset(tokens(a), tokens(e)) <=> Reordered(tokens(a), tokens(e))
      BY <2>1, ReorderedIs
    <2> QED
      BY <1>6, <2>2 DEF check, RightAnswer
  <1>7. CASE judge = "regex"
    BY <1>7 DEF check, RightAnswer, checkRegex
  <1> QED
    BY <1>1, <1>2, <1>3, <1>4, <1>5, <1>6, <1>7

(* Exact is the strictest. *)
LEMMA AllAccommodate ==
  ASSUME NEW C, NEW a \in Seq(C), NEW e \in Seq(C), LooksLike(a, e), NEW judge \in Accommodating
  PROVE  check(a, e, judge)
  <1>1. judge \in {"exact", "case_insensitive", "float", "unordered_lines", "unordered_tokens"}
        /\ (judge = "float" => Tolerance.num >= 0)
    BY JudgingAssumption DEF Accommodating
  <1>2. normalize(a) = normalize(e)
    BY LooksLikeIs
  <1>3. tokens(a) = tokens(e) /\ lines(a) = lines(e)
    BY <1>2 DEF tokens, lines
  <1>4. sameMultiset(tokens(e), tokens(e))
    BY TokensIs, SameAsItself
  <1>5. sameMultiset(lines(e), lines(e))
    <2>1. PICK A : lines(e) \in Seq(A)
      BY LinesIs
    <2> QED
      BY <2>1, SameAsItself
  <1>6. judge = "float" => checkFloat(a, e)
    BY <1>1, <1>3, FloatOfTheSame
  <1>7. CASE judge = "exact"
    BY <1>2, <1>7 DEF check
  <1>8. CASE judge = "case_insensitive"
    BY <1>2, <1>8 DEF check
  <1>9. CASE judge = "float"
    BY <1>6, <1>9 DEF check
  <1>10. CASE judge = "unordered_lines"
    BY <1>3, <1>5, <1>10 DEF check
  <1>11. CASE judge = "unordered_tokens"
    BY <1>3, <1>4, <1>11 DEF check
  <1> QED
    BY <1>1, <1>7, <1>8, <1>9, <1>10, <1>11

-----------------------------------------------------------------------------
(***************************************************************************)
(* The marks: weigh's folds add up, in the whole and by section.           *)
(***************************************************************************)

(* The places of s weigh what their results are worth. *)
WorthIn(w, f, s) == (\A k \in DOMAIN s : w[k] = s[k].weight) /\ Weighing(w, f, DOMAIN s)

(* Where s holds a result of Z. *)
Places(s, Z) == {k \in DOMAIN s : s[k] \in Z}

(* Weights are never negative. *)
Worthy(C) == \A r \in C : r.weight \in Nat

(* What the results of s are worth: f, over the places of any of them. *)
LEMMA TotalOf ==
  ASSUME NEW C, Worthy(C), NEW s \in Seq(C), NEW w, NEW f, WorthIn(w, f, s), NEW Z
  PROVE  Total(s, Z) = f[Places(s, Z)]
  <1> USE DEF Worthy, WorthIn, Weighing
  <1> DEFINE n == Len(s)
             Upto(k) == {j \in 1 .. k : s[j] \in Z}
  <1>1. n \in Nat /\ DOMAIN s = 1 .. n /\ \A k \in 1 .. n : s[k] \in C
    OBVIOUS
  <1>2. PICK p \in [0 .. n -> Nat] :
           /\ p[0] = 0
           /\ \A k \in 1 .. n : p[k] = NextTotal(p[k - 1], s[k], Z)
           /\ Total(s, Z) = p[n]
    BY TotalIs
  <1> DEFINE L == {k \in 0 .. n : p[k] # f[Upto(k)]}
  <1>3. L = {}
    <2> SUFFICES ASSUME L # {} PROVE FALSE
      OBVIOUS
    <2>1. PICK k \in L : \A j \in L : k <= j
      <3>1. L \in SUBSET Nat
        BY <1>1
      <3> HIDE DEF L
      <3> QED
        BY <3>1, LeastNumber
    <2>2. k \in 0 .. n /\ p[k] # f[Upto(k)]
      BY <2>1
    <2>3. k # 0
      <3>1. Upto(0) = {}
        OBVIOUS
      <3>2. f[{}] = 0
        BY DEF Additive
      <3> QED
        BY <1>2, <2>2, <3>1, <3>2
    <2>4. k \in 1 .. n /\ k - 1 \in 0 .. n /\ p[k - 1] = f[Upto(k - 1)]
      <3>1. k \in 1 .. n /\ k - 1 \in 0 .. n /\ ~(k <= k - 1)
        BY <1>1, <2>2, <2>3
      <3>2. k - 1 \notin L
        BY <2>1, <3>1
      <3> QED
        BY <3>1, <3>2
    <2>5. p[k] = NextTotal(p[k - 1], s[k], Z)
      BY <1>2, <2>4
    <2>6. CASE s[k] \notin Z
      <3>1. Upto(k) = Upto(k - 1)
        <4>1. \A j \in 1 .. k : j = k \/ j \in 1 .. (k - 1)
          BY <1>1, <2>4
        <4>2. \A j \in 1 .. (k - 1) : j \in 1 .. k
          BY <1>1, <2>4
        <4> QED
          BY <2>6, <4>1, <4>2
      <3>2. p[k] = p[k - 1]
        BY <2>5, <2>6 DEF NextTotal
      <3> QED
        BY <2>2, <2>4, <3>1, <3>2
    <2>7. CASE s[k] \in Z
      <3> DEFINE V == Upto(k)
                 U == Upto(k - 1)
      <3>1. V \in SUBSET DOMAIN s /\ k \in V /\ V \ {k} = U
        <4>1. \A j \in 1 .. k : j = k \/ j \in 1 .. (k - 1)
          BY <1>1, <2>4
        <4>2. \A j \in 1 .. (k - 1) : j \in 1 .. k /\ j # k
          BY <1>1, <2>4
        <4>3. k \in 1 .. k /\ \A j \in 1 .. k : j \in 1 .. n
          BY <1>1, <2>4
        <4> QED
          BY <1>1, <2>7, <4>1, <4>2, <4>3
      <3> HIDE DEF V, U
      <3>2. f[V] = w[k] + f[U]
        BY <3>1 DEF Additive
      <3>3. w[k] = s[k].weight /\ s[k].weight \in Nat /\ p[k - 1] \in Nat
        BY <1>1, <1>2, <2>4
      <3>4. p[k] = p[k - 1] + s[k].weight
        BY <2>5, <2>7 DEF NextTotal
      <3>5. f[V] = p[k]
        <4> DEFINE i1 == s[k].weight
                   i2 == p[k - 1]
        <4>1. i1 \in Nat /\ i2 \in Nat /\ p[k] = i2 + i1 /\ f[V] = i1 + i2
          BY <2>4, <3>2, <3>3, <3>4 DEF U
        <4> HIDE DEF i1, i2
        <4> QED
          BY <4>1
      <3> QED
        BY <2>2, <3>5 DEF V
    <2> QED
      BY <2>6, <2>7
  <1>4. p[n] = f[Upto(n)]
    <2>1. n \in 0 .. n
      BY <1>1
    <2> QED
      BY <1>3, <2>1
  <1>5. Upto(n) = Places(s, Z)
    BY <1>1 DEF Places
  <1> QED
    BY <1>2, <1>4, <1>5

(* The worth of the places in Z, as the definition of the marks sums it. *)
LEMMA WorthOf ==
  ASSUME NEW s, NEW w, NEW f, WorthIn(w, f, s), NEW Z \in SUBSET DOMAIN s
  PROVE  MapThenSumSet(LAMBDA k : s[k].weight, Z) = f[Z]
  <1> USE DEF WorthIn, Weighing
  <1> DEFINE g == CHOOSE g : g = [T \in SUBSET Z |-> IF T = {} THEN 0
                                                    ELSE s[AnyOf(T)].weight + g[T \ {AnyOf(T)}]]
  <1>1. MapThenSumSet(LAMBDA k : s[k].weight, Z) = g[Z]
    BY DEF MapThenSumSet, MapThenFoldSet, AnyOf
  <1>2. IsFiniteSet(Z) /\ \A k \in Z : w[k] \in Nat
    BY FS_Subset
  <1>3. PICK h \in [SUBSET Z -> Nat] : SumsUp(w, h, Z)
    BY <1>2, SumsExist
  <1>4. \A T \in SUBSET Z : T # {} => w[AnyOf(T)] = s[AnyOf(T)].weight
    BY DEF AnyOf
  <1>5. h = [T \in SUBSET Z |-> IF T = {} THEN 0 ELSE s[AnyOf(T)].weight + h[T \ {AnyOf(T)}]]
    BY <1>3, <1>4 DEF SumsUp, SumStep
  <1>6. g = [T \in SUBSET Z |-> IF T = {} THEN 0 ELSE s[AnyOf(T)].weight + g[T \ {AnyOf(T)}]]
    BY <1>5
  <1> HIDE DEF g
  <1>7. SumsUp(w, g, Z)
    BY <1>4, <1>6 DEF SumsUp, SumStep
  <1> QED
    BY <1>1, <1>7, FoldedIs

(* What all sections' records hold, as JudgedAsWritten sums it: earned here,
   and total below. *)
LEMMA EarnedOf ==
  ASSUME NEW R, NEW w, NEW f, Weighing(w, f, R), \A r \in R : w[r] = r.earned
  PROVE  MapThenSumSet(LAMBDA r : r.earned, R) = f[R]
  <1> USE DEF Weighing
  <1> DEFINE g == CHOOSE g : g = [T \in SUBSET R |-> IF T = {} THEN 0
                                                    ELSE AnyOf(T).earned + g[T \ {AnyOf(T)}]]
  <1>1. MapThenSumSet(LAMBDA r : r.earned, R) = g[R]
    BY DEF MapThenSumSet, MapThenFoldSet, AnyOf
  <1>3. PICK h \in [SUBSET R -> Nat] : SumsUp(w, h, R)
    BY SumsExist
  <1>4. \A T \in SUBSET R : T # {} => w[AnyOf(T)] = AnyOf(T).earned
    BY DEF AnyOf
  <1>5. h = [T \in SUBSET R |-> IF T = {} THEN 0 ELSE AnyOf(T).earned + h[T \ {AnyOf(T)}]]
    BY <1>3, <1>4 DEF SumsUp, SumStep
  <1>6. g = [T \in SUBSET R |-> IF T = {} THEN 0 ELSE AnyOf(T).earned + g[T \ {AnyOf(T)}]]
    BY <1>5
  <1> HIDE DEF g
  <1>7. SumsUp(w, g, R)
    BY <1>4, <1>6 DEF SumsUp, SumStep
  <1> QED
    BY <1>1, <1>7, FoldedIs

LEMMA TotalsOf ==
  ASSUME NEW R, NEW w, NEW f, Weighing(w, f, R), \A r \in R : w[r] = r.total
  PROVE  MapThenSumSet(LAMBDA r : r.total, R) = f[R]
  <1> USE DEF Weighing
  <1> DEFINE g == CHOOSE g : g = [T \in SUBSET R |-> IF T = {} THEN 0
                                                    ELSE AnyOf(T).total + g[T \ {AnyOf(T)}]]
  <1>1. MapThenSumSet(LAMBDA r : r.total, R) = g[R]
    BY DEF MapThenSumSet, MapThenFoldSet, AnyOf
  <1>3. PICK h \in [SUBSET R -> Nat] : SumsUp(w, h, R)
    BY SumsExist
  <1>4. \A T \in SUBSET R : T # {} => w[AnyOf(T)] = AnyOf(T).total
    BY DEF AnyOf
  <1>5. h = [T \in SUBSET R |-> IF T = {} THEN 0 ELSE AnyOf(T).total + h[T \ {AnyOf(T)}]]
    BY <1>3, <1>4 DEF SumsUp, SumStep
  <1>6. g = [T \in SUBSET R |-> IF T = {} THEN 0 ELSE AnyOf(T).total + g[T \ {AnyOf(T)}]]
    BY <1>5
  <1> HIDE DEF g
  <1>7. SumsUp(w, g, R)
    BY <1>4, <1>6 DEF SumsUp, SumStep
  <1> QED
    BY <1>1, <1>7, FoldedIs

(* The image of a finite set is finite. *)
LEMMA FiniteImage ==
  ASSUME NEW S, IsFiniteSet(S), NEW f
  PROVE  IsFiniteSet({f[x] : x \in S})
  <1> DEFINE T == {f[x] : x \in S}
             g == [x \in S |-> f[x]]
  <1>1. g \in [S -> T] /\ \A y \in T : \E x \in S : g[x] = y
    OBVIOUS
  <1> HIDE DEF T, g
  <1>2. g \in Surjection(S, T)
    BY <1>1, Fun_IsSurj
  <1>3. IsFiniteSet(T)
    BY <1>2, FS_Surjection
  <1> QED
    BY <1>3 DEF T

(* One record for each section, with the section's share of A: what the records
   hold is A's worth. *)
LEMMA SectionSums ==
  ASSUME NEW S, NEW w, NEW f, Weighing(w, f, S), NEW A \in SUBSET S,
         NEW v, NEW G, NEW lab, Shares(v, G, lab, A, f), IsFiniteSet(G),
         NEW u, NEW h, NEW R, Weighing(u, h, R), NEW n, Renames(n, G, v, R, u)
  PROVE  h[R] = f[A]
  <1>1. \A g \in G : v[g] \in Nat
    <2>1. \A g \in G : {x \in A : lab[x] = g} \in SUBSET S
      OBVIOUS
    <2> QED
      BY <2>1 DEF Additive, Weighing, Shares
  <1>2. PICK t : Additive(v, t, G)
    BY <1>1, SumIs
  <1>3. Weighing(v, t, G)
    BY <1>1, <1>2 DEF Weighing
  <1>4. t[G] = f[A]
    BY <1>3, SumBySection
  <1>5. h[R] = t[G]
    BY <1>3, SumRenamed
  <1> QED
    BY <1>4, <1>5

(* The places of the results that are accepted. *)
Accepted(s) == {k \in DOMAIN s : s[k].verdict = "accepted"}

(* What s is worth to weigh, in the whole and in its sections. *)
AddsUp(s, f) ==
  /\ weigh(s).earned = f[Accepted(s)] /\ weigh(s).total = f[DOMAIN s]
  /\ MapThenSumSet(LAMBDA g : g.earned, weigh(s).groups) = f[Accepted(s)]
  /\ MapThenSumSet(LAMBDA g : g.total, weigh(s).groups) = f[DOMAIN s]

(* weigh adds up: each section counts the results of its label, and the
   sections are a partition. *)
LEMMA MarksAddUp ==
  ASSUME NEW C, Worthy(C), NEW s \in Seq(C), NEW w, NEW f, WorthIn(w, f, s)
  PROVE  AddsUp(s, f)
  <1> DEFINE S == DOMAIN s
             A == Accepted(s)
             all == ToSet(s)
             passed == {r \in all : r.verdict = "accepted"}
             Sec(g) == {r \in all : r.group = g}
             lab == [k \in S |-> s[k].group]
             G == {lab[k] : k \in S}
             rec(g) == [label |-> g, earned |-> Total(s, passed \cap Sec(g)), total |-> Total(s, Sec(g))]
             n == [g \in G |-> rec(g)]
             R == {n[g] : g \in G}
  <1>1. Weighing(w, f, S)
    BY DEF WorthIn
  <1>2. A \in SUBSET S
    BY DEF Accepted
  <1>3. \A Z : Total(s, Z) = f[{k \in S : s[k] \in Z}]
    <2>1. ASSUME NEW Z PROVE Total(s, Z) = f[{k \in S : s[k] \in Z}]
      <3>1. Total(s, Z) = f[Places(s, Z)]
        BY TotalOf
      <3> QED
        BY <3>1 DEF Places
    <2> QED
      BY <2>1
  <1>4. weigh(s) = [earned |-> Total(s, passed), total |-> Total(s, all),
                    groups |-> {rec(g) : g \in {r.group : r \in all}}]
    BY DEF weigh
  <1>5. (\A k \in S : s[k] \in all) /\ \A r \in all : \E k \in S : r = s[k]
    BY DEF ToSet
  <1>6. weigh(s).groups = R
    <2>1. {r.group : r \in all} = G
      BY <1>5
    <2>2. weigh(s).groups = {rec(g) : g \in G}
      <3> DEFINE G1 == {r.group : r \in all}
      <3>1. weigh(s).groups = {rec(g) : g \in G1}
        <4> DEFINE i1 == Total(s, passed)
                   i2 == Total(s, all)
                   i3 == {rec(g) : g \in G1}
        <4>1. weigh(s) = [earned |-> i1, total |-> i2, groups |-> i3]
          BY <1>4
        <4> HIDE DEF i1, i2, i3
        <4>2. weigh(s).groups = i3
          BY <4>1
        <4> QED
          BY <4>2 DEF i3
      <3>2. G1 = G
        BY <2>1
      <3> HIDE DEF G1, G, rec
      <3> QED
        BY <3>1, <3>2
    <2>3. {rec(g) : g \in G} = R
      <3> HIDE DEF G, rec
      <3> QED
        OBVIOUS
    <2> QED
      BY <2>2, <2>3
  <1>7. weigh(s).earned = f[A]
    <2>1. {k \in S : s[k] \in passed} = A
      BY <1>5 DEF Accepted
    <2>2. weigh(s).earned = Total(s, passed)
      BY <1>4
    <2> QED
      BY <1>3, <2>1, <2>2
  <1>8. weigh(s).total = f[S]
    <2>1. {k \in S : s[k] \in all} = S
      BY <1>5
    <2>2. weigh(s).total = Total(s, all)
      BY <1>4
    <2> QED
      BY <1>3, <2>1, <2>2
  <1>9. \A x, y \in G : n[x] = n[y] => x = y
    <2>1. ASSUME NEW x \in G, NEW y \in G, n[x] = n[y] PROVE x = y
      <3>1. n[x].label = x /\ n[y].label = y
        OBVIOUS
      <3> QED
        BY <2>1, <3>1
    <2> QED
      BY <2>1
  <1>10. \A g \in G : n[g].earned = f[{k \in A : lab[k] = g}]
    <2>1. ASSUME NEW g \in G PROVE n[g].earned = f[{k \in A : lab[k] = g}]
      <3>1. n[g].earned = Total(s, passed \cap Sec(g))
        OBVIOUS
      <3>2. {k \in S : s[k] \in passed \cap Sec(g)} = {k \in A : lab[k] = g}
        BY <1>5 DEF Accepted
      <3> QED
        BY <1>3, <3>1, <3>2
    <2> QED
      BY <2>1
  <1>11. \A g \in G : n[g].total = f[{k \in S : lab[k] = g}]
    <2>1. ASSUME NEW g \in G PROVE n[g].total = f[{k \in S : lab[k] = g}]
      <3>1. n[g].total = Total(s, Sec(g))
        OBVIOUS
      <3>2. {k \in S : s[k] \in Sec(g)} = {k \in S : lab[k] = g}
        BY <1>5
      <3> QED
        BY <1>3, <3>1, <3>2
    <2> QED
      BY <2>1
  <1>12. \A k \in S : lab[k] \in G
    OBVIOUS
  <1>13. IsFiniteSet(S) /\ \A Z \in SUBSET S : f[Z] \in Nat
    BY <1>1 DEF Weighing, Additive
  <1>14. IsFiniteSet(G)
    <2> HIDE DEF S, lab
    <2> QED
      BY <1>13, FiniteImage
  <1> HIDE DEF S, A, all, passed, Sec, lab, rec, n, G
  <1>15. IsFiniteSet(R)
    BY <1>14, FiniteImage
  <1>16. \A r \in R : \E g \in G : r = n[g]
    OBVIOUS
  <1>17. \A g \in G : n[g] \in R
    OBVIOUS
  <1>18. R = {n[g] : g \in G}
    OBVIOUS
  <1> HIDE DEF R
  <1>19. MapThenSumSet(LAMBDA g : g.earned, R) = f[A]
    <2> DEFINE u == [r \in R |-> r.earned]
               v == [g \in G |-> f[{k \in A : lab[k] = g}]]
    <2>1. \A r \in R : u[r] = r.earned
      OBVIOUS
    <2>2. \A g \in G : v[g] = f[{k \in A : lab[k] = g}]
      OBVIOUS
    <2> HIDE DEF u, v
    <2>3. Shares(v, G, lab, A, f)
      BY <1>2, <1>12, <2>2 DEF Shares
    <2>4. Renames(n, G, v, R, u)
      BY <1>9, <1>10, <1>17, <1>18, <2>1, <2>2 DEF Renames
    <2>5. \A r \in R : u[r] \in Nat
      <3>1. \A g \in G : n[g].earned \in Nat
        <4>1. \A g \in G : {k \in A : lab[k] = g} \in SUBSET S
          BY <1>2
        <4> QED
          BY <1>10, <1>13, <4>1
      <3> QED
        BY <1>16, <2>1, <3>1
    <2>6. PICK h : Additive(u, h, R)
      BY <1>15, <2>5, SumIs
    <2>7. Weighing(u, h, R)
      BY <1>15, <2>5, <2>6 DEF Weighing
    <2>8. MapThenSumSet(LAMBDA g : g.earned, R) = h[R]
      BY <2>1, <2>7, EarnedOf
    <2>9. h[R] = f[A]
      BY <1>1, <1>2, <1>14, <2>3, <2>4, <2>7, SectionSums
    <2> QED
      BY <2>8, <2>9
  <1>20. MapThenSumSet(LAMBDA g : g.total, R) = f[S]
    <2> DEFINE u == [r \in R |-> r.total]
               v == [g \in G |-> f[{k \in S : lab[k] = g}]]
    <2>1. \A r \in R : u[r] = r.total
      OBVIOUS
    <2>2. \A g \in G : v[g] = f[{k \in S : lab[k] = g}]
      OBVIOUS
    <2> HIDE DEF u, v
    <2>3. Shares(v, G, lab, S, f)
      BY <1>12, <2>2 DEF Shares
    <2>4. Renames(n, G, v, R, u)
      BY <1>9, <1>11, <1>17, <1>18, <2>1, <2>2 DEF Renames
    <2>5. \A r \in R : u[r] \in Nat
      <3>1. \A g \in G : n[g].total \in Nat
        <4>1. \A g \in G : {k \in S : lab[k] = g} \in SUBSET S
          OBVIOUS
        <4> QED
          BY <1>11, <1>13, <4>1
      <3> QED
        BY <1>16, <2>1, <3>1
    <2>6. PICK h : Additive(u, h, R)
      BY <1>15, <2>5, SumIs
    <2>7. Weighing(u, h, R)
      BY <1>15, <2>5, <2>6 DEF Weighing
    <2>8. MapThenSumSet(LAMBDA g : g.total, R) = h[R]
      BY <2>1, <2>7, TotalsOf
    <2>9. h[R] = f[S]
      BY <1>1, <1>14, <2>3, <2>4, <2>7, SectionSums
    <2> QED
      BY <2>8, <2>9
  <1> QED
    BY <1>6, <1>7, <1>8, <1>19, <1>20 DEF A, S, AddsUp

-----------------------------------------------------------------------------
(***************************************************************************)
(* Judging as written: the invariant, and what it says of a report.        *)
(***************************************************************************)

(* What a judged submission's report is made of, and that the test cases are
   none only when they were once all gone. *)
Judged ==
  /\ printed \in Texts
  /\ stage = "judged" => report = runTestCases
  /\ kept = <<>> => emptied
  /\ stage # "queued" /\ asked = <<>> => emptied

JudgingInv == JudgingTypeOK /\ CasesKept /\ Judged

(* The report is made once, of what was read; nothing that it is made of
   changes later. *)
LEMMA JudgedStep ==
  ASSUME JudgingInv, [JudgingNext]_judgingVars
  PROVE  Judged'
  <1> USE DEF JudgingInv
  <1>1. CASE ReadsCases
    BY <1>1 DEF ReadsCases, Judged, programVars
  <1>2. CASE ReadsProblem
    BY <1>2 DEF ReadsProblem, Judged, programVars
  <1>3. CASE Grades
    <2>1. runTestCases' = runTestCases
      <3>1. UNCHANGED <<printed, exit, compiles, engine, checker, asked>>
        BY <1>3 DEF Grades, programVars
      <3> QED
        BY <3>1 DEF runTestCases, summarize, verdictOf, checkerFor, check, checkRegex
    <2> QED
      BY <1>3, <2>1 DEF Grades, Judged, programVars
  <1>4. CASE PostTestCase
    <2>1. kept' # <<>>
      <3>1. PICK row : kept' = Append(kept, row)
        BY <1>4 DEF PostTestCase
      <3> QED
        BY <3>1 DEF CasesKept
    <2>2. stage' # "judged"
      BY <1>4 DEF PostTestCase, Changes
    <2> QED
      BY <1>4, <2>1, <2>2 DEF PostTestCase, Judged, programVars
  <1>5. CASE DeleteTestCase
    <2>1. stage' # "judged"
      BY <1>5 DEF DeleteTestCase, Changes
    <2> QED
      BY <1>5, <2>1 DEF DeleteTestCase, Judged, programVars
  <1>6. CASE PutChecker
    <2>1. stage' # "judged"
      BY <1>6 DEF PutChecker, Changes
    <2> QED
      BY <1>6, <2>1 DEF PutChecker, Judged, programVars
  <1>7. CASE UNCHANGED judgingVars
    <2>1. runTestCases' = runTestCases
      BY <1>7 DEF judgingVars, programVars, runTestCases, summarize, verdictOf, checkerFor, check, checkRegex
    <2> QED
      BY <1>7, <2>1 DEF judgingVars, Judged, programVars
  <1> QED
    BY <1>1, <1>2, <1>3, <1>4, <1>5, <1>6, <1>7 DEF JudgingNext

LEMMA JudgingInvariance == JudgingSpec => []JudgingInv
  <1>1. JudgingInit => JudgingTypeOK /\ CasesKept
    BY JudgingStart
  <1>2. JudgingInit => Judged
    <2> SUFFICES ASSUME JudgingInit PROVE Judged
      OBVIOUS
    <2>1. kept # <<>>
      <3>1. Len(kept) \in 1 .. MaxCasesKept /\ kept \in Seq(TestCases)
        BY DEF JudgingInit
      <3> QED
        BY <3>1, JudgingAssumption
    <2> QED
      BY <2>1 DEF JudgingInit, Judged
  <1>3. JudgingInv /\ [JudgingNext]_judgingVars => JudgingInv'
    BY JudgingStep, JudgedStep DEF JudgingInv
  <1> QED
    BY <1>1, <1>2, <1>3, PTL DEF JudgingSpec, JudgingInv

(* The marks of s are those that w and f weigh. *)
LEMMA MarksOf ==
  ASSUME NEW C, Worthy(C), NEW s \in Seq(C)
  PROVE  \E w, f : WorthIn(w, f, s) /\ AddsUp(s, f)
  <1> DEFINE w == [k \in DOMAIN s |-> s[k].weight]
             D == DOMAIN s
  <1>1. IsFiniteSet(D) /\ \A k \in D : w[k] = s[k].weight /\ w[k] \in Nat
    <2>1. D = 1 .. Len(s) /\ Len(s) \in Nat /\ \A k \in D : s[k] \in C
      OBVIOUS
    <2>2. IsFiniteSet(D)
      BY <2>1, FS_Interval
    <2> QED
      BY <2>1, <2>2 DEF Worthy
  <1> HIDE DEF w, D
  <1>2. PICK f : Additive(w, f, D)
    BY <1>1, SumIs
  <1>3. WorthIn(w, f, s)
    BY <1>1, <1>2 DEF WorthIn, Weighing, D
  <1> QED
    BY <1>3, MarksAddUp

LEMMA AskedWorth ==
  ASSUME NEW w, NEW f, WorthIn(w, f, asked), NEW Z \in SUBSET DOMAIN asked
  PROVE  MapThenSumSet(LAMBDA k : asked[k].weight, Z) = f[Z]
  BY WorthOf

(* The parts of JudgedAsWritten. *)
LEMMA ResultsAre ==
  ASSUME JudgingInv, stage = "judged"
  PROVE  /\ asked \in Seq(TestCases) /\ DOMAIN report.results = DOMAIN asked
         /\ report.results = [k \in DOMAIN asked |-> Result(asked[k], IF compiles THEN verdictOf(asked[k])
                                                                     ELSE "compile_error")]
         /\ report.verdict = summarize(report.results)
         /\ report.earned = weigh(report.results).earned /\ report.total = weigh(report.results).total
         /\ report.groups = IF compiles THEN weigh(report.results).groups ELSE {}
  <1>1. report = runTestCases /\ asked \in Seq(TestCases)
    BY DEF JudgingInv, Judged, CasesKept
  <1> DEFINE rs == [k \in DOMAIN asked |-> Result(asked[k], IF compiles THEN verdictOf(asked[k])
                                                           ELSE "compile_error")]
             v == summarize(rs)
             m == weigh(rs)
             gs == IF compiles THEN m.groups ELSE {}
  <1>2. report = [results |-> rs, verdict |-> v, earned |-> m.earned, total |-> m.total, groups |-> gs]
    BY <1>1 DEF runTestCases
  <1>3. DOMAIN rs = DOMAIN asked
    OBVIOUS
  <1> DEFINE e == m.earned
             t == m.total
  <1>4. report = [results |-> rs, verdict |-> v, earned |-> e, total |-> t, groups |-> gs]
    BY <1>2
  <1> HIDE DEF rs, v, e, t, gs
  <1>5. report.results = rs /\ report.verdict = v /\ report.earned = e /\ report.total = t /\ report.groups = gs
    BY <1>4
  <1>6. report.verdict = summarize(report.results) /\ report.earned = weigh(report.results).earned
        /\ report.total = weigh(report.results).total
    BY <1>5 DEF v, e, t
  <1>7. report.groups = IF compiles THEN weigh(report.results).groups ELSE {}
    BY <1>5 DEF gs
  <1>8. DOMAIN report.results = DOMAIN asked
    BY <1>3, <1>5
  <1>9. report.results = [k \in DOMAIN asked |-> Result(asked[k], IF compiles THEN verdictOf(asked[k])
                                                                  ELSE "compile_error")]
    BY <1>5 DEF rs
  <1> QED
    BY <1>1, <1>6, <1>7, <1>8, <1>9

(* What the worker has read expects a text, and names a checker or none. *)
LEMMA RowIs ==
  ASSUME JudgingInv, NEW k \in DOMAIN asked
  PROVE  /\ asked[k].expected \in Seq(STRING) /\ printed \in Seq(STRING)
         /\ checkerFor(asked[k]) \in CheckersUsed /\ asked[k].weight \in Nat
  <1>1. asked[k] \in TestCases
    <2>1. asked \in Seq(TestCases)
      BY DEF JudgingInv, CasesKept
    <2> QED
      BY <2>1, ElementOfSeq
  <1>2. asked[k].expected \in Texts \cup LaterTexts /\ asked[k].checker \in {""} \cup CheckersUsed
        /\ asked[k].weight \in Weights
    BY <1>1 DEF TestCases
  <1>3. printed \in Texts /\ checker \in CheckersUsed
    BY DEF JudgingInv, Judged, JudgingTypeOK
  <1>4. checkerFor(asked[k]) \in CheckersUsed
    BY <1>2, <1>3 DEF checkerFor
  <1> QED
    BY <1>2, <1>3, <1>4, JudgingAssumption

(* A test case is passed by the right answers, and by whatever looks right if
   its checker accommodates. *)
LEMMA PassedWhenRight ==
  ASSUME JudgingInv, stage = "judged", NEW k \in DOMAIN report.results
  PROVE  /\ report.results[k].verdict = "accepted" <=>
              /\ compiles /\ exit = 0
              /\ RightAnswer(printed, asked[k].expected, checkerFor(asked[k]))
         /\ LooksLike(printed, asked[k].expected) =>
              \A c \in Accommodating : check(printed, asked[k].expected, c)
  <1> DEFINE e == asked[k].expected
             c1 == checkerFor(asked[k])
             yes == check(printed, e, c1)
  <1>1. k \in DOMAIN asked
    BY ResultsAre
  <1>2. e \in Seq(STRING) /\ printed \in Seq(STRING) /\ c1 \in CheckersUsed
    BY <1>1, RowIs
  <1>3. report.results[k].verdict = IF compiles THEN verdictOf(asked[k]) ELSE "compile_error"
    <2>1. report.results[k] = Result(asked[k], IF compiles THEN verdictOf(asked[k]) ELSE "compile_error")
      BY <1>1, ResultsAre
    <2> QED
      BY <2>1 DEF Result
  <1>4. verdictOf(asked[k]) = IF exit # 0 THEN "runtime_error"
                              ELSE IF yes THEN "accepted" ELSE "wrong_answer"
    BY DEF verdictOf
  <1> HIDE DEF e, c1
  <1>5. yes <=> RightAnswer(printed, e, c1)
    BY <1>2, ChecksAreRight
  <1>6. LooksLike(printed, e) => \A c \in Accommodating : check(printed, e, c)
    BY <1>2, AllAccommodate
  <1> HIDE DEF yes
  <1>7. report.results[k].verdict = "accepted" <=> compiles /\ exit = 0 /\ yes
    BY <1>3, <1>4
  <1> QED
    BY <1>5, <1>6, <1>7 DEF e, c1

(* The test cases that the report calls passed. *)
CasesPassed == {k \in DOMAIN report.results : report.results[k].verdict = "accepted"}

(* The marks are those of the test cases passed, in the whole and section by
   section. *)
LEMMA MarksAreEarned ==
  ASSUME JudgingInv, stage = "judged"
  PROVE  /\ report.earned = MapThenSumSet(LAMBDA k : asked[k].weight, CasesPassed)
         /\ report.earned =< report.total
         /\ report.groups # {} =>
              /\ MapThenSumSet(LAMBDA g : g.earned, report.groups) = report.earned
              /\ MapThenSumSet(LAMBDA g : g.total, report.groups) = report.total
  <1> DEFINE rs == report.results
             C == {rs[k] : k \in DOMAIN rs}
  <1>1. /\ asked \in Seq(TestCases) /\ DOMAIN rs = DOMAIN asked
        /\ rs = [k \in DOMAIN asked |-> Result(asked[k], IF compiles THEN verdictOf(asked[k])
                                                       ELSE "compile_error")]
        /\ report.earned = weigh(rs).earned /\ report.total = weigh(rs).total
        /\ report.groups # {} => report.groups = weigh(rs).groups
    BY ResultsAre
  <1>2. \A k \in DOMAIN rs : rs[k].weight = asked[k].weight /\ asked[k].weight \in Nat
    <2>1. ASSUME NEW k \in DOMAIN rs PROVE rs[k].weight = asked[k].weight /\ asked[k].weight \in Nat
      <3>1. rs[k] = Result(asked[k], IF compiles THEN verdictOf(asked[k]) ELSE "compile_error")
        BY <1>1
      <3>2. rs[k].weight = asked[k].weight
        BY <3>1 DEF Result
      <3> QED
        BY <1>1, <3>2, RowIs
    <2> QED
      BY <2>1
  <1>3. rs \in Seq(C) /\ Worthy(C)
    <2>1. \E n \in Nat : DOMAIN rs = 1 .. n
      <3>1. DOMAIN asked = 1 .. Len(asked) /\ Len(asked) \in Nat
        BY <1>1
      <3> QED
        BY <1>1, <3>1
    <2>2. rs = [k \in DOMAIN rs |-> rs[k]]
      BY <1>1
    <2>3. Worthy(C)
      BY <1>2 DEF Worthy
    <2> HIDE DEF rs
    <2> QED
      BY <2>1, <2>2, <2>3
  <1>4. CasesPassed = Accepted(rs)
    BY DEF CasesPassed, Accepted
  <1> HIDE DEF rs, C
  <1>5. PICK w, f : WorthIn(w, f, rs) /\ AddsUp(rs, f)
    BY <1>3, MarksOf
  <1>6. WorthIn(w, f, asked)
    BY <1>1, <1>2, <1>5 DEF WorthIn
  <1>7. CasesPassed \in SUBSET DOMAIN asked /\ CasesPassed \in SUBSET DOMAIN rs
    BY <1>1, <1>4 DEF Accepted
  <1>8. MapThenSumSet(LAMBDA k : asked[k].weight, CasesPassed) = f[CasesPassed]
    BY <1>6, <1>7, AskedWorth
  <1>9. report.earned = f[CasesPassed] /\ report.total = f[DOMAIN rs]
    BY <1>1, <1>4, <1>5 DEF AddsUp
  <1>10. f[CasesPassed] =< f[DOMAIN rs]
    <2> DEFINE D == DOMAIN rs
    <2>1. Weighing(w, f, D) /\ CasesPassed \in SUBSET D /\ D \in SUBSET D /\ CasesPassed \subseteq D
      BY <1>5, <1>7 DEF WorthIn
    <2> HIDE DEF D
    <2>2. f[CasesPassed] <= f[D]
      BY <2>1, SumGrows DEF Weighing
    <2> QED
      BY <2>2 DEF D
  <1>11. ASSUME report.groups # {}
         PROVE  /\ MapThenSumSet(LAMBDA g : g.earned, report.groups) = f[CasesPassed]
                /\ MapThenSumSet(LAMBDA g : g.total, report.groups) = f[DOMAIN rs]
    BY <1>1, <1>4, <1>5, <1>11 DEF AddsUp
  <1> QED
    BY <1>8, <1>9, <1>10, <1>11

(* The first test case that fails gives its verdict to the whole. *)
LEMMA AcceptedOnlyThen ==
  ASSUME JudgingInv, stage = "judged", report.verdict = "accepted"
  PROVE  CasesPassed = DOMAIN report.results /\ (CasesPassed = {} => emptied)
  <1> DEFINE rs == report.results
             failing == {k \in DOMAIN rs : rs[k].verdict # "accepted"}
  <1>1. asked \in Seq(TestCases) /\ DOMAIN rs = DOMAIN asked /\ summarize(rs) = "accepted"
    BY ResultsAre
  <1>2. summarize(rs) = IF ~compiles THEN "compile_error"
                        ELSE IF failing = {} THEN "accepted" ELSE rs[Min(failing)].verdict
    BY DEF summarize
  <1>3. failing = {}
    <2> SUFFICES ASSUME failing # {} PROVE FALSE
      OBVIOUS
    <2>1. failing \in SUBSET Nat
      <3>1. DOMAIN asked = 1 .. Len(asked) /\ Len(asked) \in Nat
        BY <1>1
      <3> QED
        BY <1>1, <3>1
    <2>2. rs[Min(failing)].verdict = "accepted"
      BY <1>1, <1>2
    <2>3. Min(failing) \in failing
      <3> HIDE DEF failing
      <3>1. \E x \in failing : \A y \in failing : x <= y
        BY <2>1, LeastNumber
      <3> QED
        BY <3>1 DEF Min
    <2> QED
      BY <2>2, <2>3
  <1>4. CasesPassed = DOMAIN rs
    BY <1>3 DEF CasesPassed
  <1>5. CasesPassed = {} => emptied
    <2> SUFFICES ASSUME CasesPassed = {} PROVE emptied
      OBVIOUS
    <2>1. asked = <<>>
      BY <1>1, <1>4
    <2> QED
      BY <2>1 DEF JudgingInv, Judged
  <1> QED
    BY <1>4, <1>5

(* Every test case is passed by the right answers of its own checker and by no
   others, and what looks right is right to every accommodating checker
   (checker.service.js:6-159); the marks are those of the test cases passed, in
   the whole and section by section (codeExecution.service.js:363-395); and a
   submission is accepted with nothing passed only if its test cases were all
   deleted while it waited: for any texts, checkers, weights, tolerance, and
   numbers of test cases and edits. *)
THEOREM JudgedRightly == JudgingSpec => []JudgedAsWritten
  <1>1. JudgingInv => JudgedAsWritten
    <2> SUFFICES ASSUME JudgingInv, stage = "judged" PROVE JudgedAsWritten
      BY DEF JudgedAsWritten
    <2>1. \A k \in DOMAIN report.results :
            /\ k \in CasesPassed <=>
                 /\ compiles /\ exit = 0
                 /\ RightAnswer(printed, asked[k].expected, checkerFor(asked[k]))
            /\ LooksLike(printed, asked[k].expected) =>
                 \A c \in Accommodating : check(printed, asked[k].expected, c)
      BY PassedWhenRight DEF CasesPassed
    <2>2. report.verdict = "accepted" => CasesPassed = DOMAIN report.results /\ (CasesPassed = {} => emptied)
      BY AcceptedOnlyThen
    <2> QED
      BY <2>1, <2>2, MarksAreEarned DEF JudgedAsWritten, CasesPassed
  <1> QED
    BY <1>1, JudgingInvariance, PTL

-----------------------------------------------------------------------------
(***************************************************************************)
(* Similarity, for any tokens, hashes, sizes of grams and windows, and     *)
(* classes of any size.                                                    *)
(***************************************************************************)

LEMMA DocumentIs ==
  ASSUME NEW d \in Documents
  PROVE  /\ Len(d) \in Nat /\ DOMAIN d = 1 .. Len(d)
         /\ \A q \in 1 .. Len(d) : d[q] \in Tokens
  <1>1. PICK n \in 0 .. MaxLength : d \in [1 .. n -> Tokens]
    BY DEF Documents
  <1>2. n \in Nat
    BY SizesAssumption
  <1>3. d \in Seq(Tokens) /\ Len(d) = n
    BY <1>1, <1>2
  <1> QED
    BY <1>1, <1>2, <1>3

(* A document has one gram less than tokens for every token that a gram    *)
(* has beyond the first.                                                   *)
LEMMA GramsAre ==
  ASSUME NEW d \in Documents, hashString \in [Grams -> Nat]
  PROVE  LET g == grams(d)
             n == Len(d) - K + 1
         IN  /\ n \in Int /\ DOMAIN g = 1 .. n
             /\ \A q \in 1 .. n : g[q] \in Nat
             /\ Len(g) = IF n > 0 THEN n ELSE 0
             /\ IsFiniteSet(1 .. n) /\ 1 .. n \in SUBSET Nat
  <1> DEFINE n == Len(d) - K + 1
             g == grams(d)
             gram(q) == [j \in 1 .. K |-> d[q + j - 1]]
  <1>1. n \in Int /\ K \in Nat \ {0} /\ Len(d) \in Nat
    BY DocumentIs, SizesAssumption
  <1>2. g = [q \in 1 .. n |-> hashString[gram(q)]]
    BY DEF grams
  <1>3. ASSUME NEW q \in 1 .. n PROVE g[q] \in Nat
    <2>1. \A j \in 1 .. K : q + j - 1 \in 1 .. Len(d)
      BY <1>1
    <2>2. gram(q) \in Grams
      BY <2>1, DocumentIs DEF Grams
    <2>3. g[q] = hashString[gram(q)]
      BY <1>2
    <2> HIDE DEF gram, g
    <2> QED
      BY <2>2, <2>3
  <1>4. DOMAIN g = 1 .. n
    BY <1>2
  <1> HIDE DEF g
  <1>5. Len(g) = IF n > 0 THEN n ELSE 0
    <2> HIDE DEF n
    <2>1. g = [q \in 1 .. n |-> g[q]]
      BY <1>2, <1>4
    <2>2. CASE n > 0
      <3>1. g \in Seq(Nat) /\ Len(g) = n
        BY <1>1, <1>3, <2>1, <2>2
      <3> QED
        BY <2>2, <3>1
    <2>3. CASE ~(n > 0)
      <3>1. 1 .. n = {}
        BY <1>1, <2>3
      <3>2. g = << >>
        BY <1>4, <2>1, <3>1
      <3> QED
        BY <2>3, <3>2, EmptySeq
    <2> QED
      BY <2>2, <2>3
  <1>6. IsFiniteSet(1 .. n) /\ 1 .. n \in SUBSET Nat
    <2> HIDE DEF n
    <2> QED
      BY <1>1, FS_Interval
  <1> QED
    BY <1>1, <1>3, <1>4, <1>5, <1>6 DEF g

-----------------------------------------------------------------------------
(* winnow: every window has a rightmost minimum, and one only. *)

LEMMA MinimumIs ==
  ASSUME NEW g, NEW q \in Nat, \A m \in Window(q) : g[m] \in Nat
  PROVE  /\ IsRightmostMinimum(g, q, rightmostMinimum(g, q))
         /\ \A j : IsRightmostMinimum(g, q, j) => j = rightmostMinimum(g, q)
  <1>0. /\ W \in Nat \ {0} /\ Window(q) = q .. (q + W - 1) /\ q \in Window(q)
        /\ Window(q) \in SUBSET Nat
    BY SizesAssumption DEF Window
  <1> DEFINE V == {g[m] : m \in Window(q)}
  <1>1. V \in SUBSET Nat /\ V # {}
    BY <1>0
  <1>2. PICK v \in V : \A w \in V : v <= w
    BY <1>1, LeastNumber
  <1> DEFINE M == {m \in Window(q) : g[m] = v}
  <1>3. M \in SUBSET Nat /\ M # {} /\ IsFiniteSet(M)
    <2>1. IsFiniteSet(Window(q))
      BY <1>0, FS_Interval
    <2> QED
      BY <1>0, <2>1, FS_Subset
  <1>4. PICK j \in M : \A m \in M : j >= m
    BY <1>3, GreatestNumber
  <1>5. IsRightmostMinimum(g, q, j)
    <2>1. j \in Window(q) /\ g[j] = v /\ v \in Nat
      BY <1>1, <1>4
    <2>2. ASSUME NEW m \in Window(q) PROVE g[j] =< g[m] /\ (m > j => g[j] < g[m])
      <3> DEFINE x == g[m]
      <3>1. v <= x /\ x \in Nat /\ (x = v => j >= m) /\ m \in Nat /\ j \in Nat
        BY <1>0, <1>2, <1>4
      <3> HIDE DEF x
      <3>2. v =< x /\ (m > j => v < x)
        BY ONLY <3>1, <2>1
      <3> QED
        BY <2>1, <3>2 DEF x
    <2> QED
      BY <2>1, <2>2 DEF IsRightmostMinimum
  <1>6. IsRightmostMinimum(g, q, rightmostMinimum(g, q))
    BY <1>5 DEF rightmostMinimum, IsRightmostMinimum
  <1>7. ASSUME NEW a, NEW b, IsRightmostMinimum(g, q, a), IsRightmostMinimum(g, q, b) PROVE a = b
    <2> DEFINE x == g[a]
               y == g[b]
    <2>1. a \in Nat /\ b \in Nat /\ x \in Nat /\ y \in Nat
      BY <1>0, <1>7 DEF IsRightmostMinimum
    <2>2. x <= y /\ y <= x /\ (b > a => x < y) /\ (a > b => y < x)
      BY <1>7 DEF IsRightmostMinimum
    <2> HIDE DEF x, y
    <2> QED
      BY ONLY <2>1, <2>2
  <1> QED
    BY <1>6, <1>7

(* The places that are kept are places of grams. *)
LEMMA WinnowIs ==
  ASSUME NEW d \in Documents, hashString \in [Grams -> Nat]
  PROVE  LET g == grams(d)
             n == Len(d) - K + 1
         IN  /\ winnow(g) \subseteq 1 .. n
             /\ \A q \in 1 .. (n - W + 1) :
                  /\ IsRightmostMinimum(g, q, rightmostMinimum(g, q))
                  /\ \A j : IsRightmostMinimum(g, q, j) => j = rightmostMinimum(g, q)
                  /\ rightmostMinimum(g, q) \in winnow(g)
  <1> DEFINE g == grams(d)
             n == Len(d) - K + 1
  <1>1. /\ n \in Int /\ DOMAIN g = 1 .. n /\ \A q \in 1 .. n : g[q] \in Nat
        /\ Len(g) = IF n > 0 THEN n ELSE 0
    BY GramsAre
  <1>2. W \in Nat \ {0}
    BY SizesAssumption
  <1> HIDE DEF g, n
  <1>3. ASSUME NEW q \in 1 .. (n - W + 1)
        PROVE  /\ IsRightmostMinimum(g, q, rightmostMinimum(g, q))
               /\ \A j : IsRightmostMinimum(g, q, j) => j = rightmostMinimum(g, q)
               /\ rightmostMinimum(g, q) \in 1 .. n
    <2>1. q \in Nat /\ Window(q) \subseteq 1 .. n
      BY <1>1, <1>2 DEF Window
    <2>2. \A m \in Window(q) : g[m] \in Nat
      BY <1>1, <2>1
    <2>3. /\ IsRightmostMinimum(g, q, rightmostMinimum(g, q))
          /\ \A j : IsRightmostMinimum(g, q, j) => j = rightmostMinimum(g, q)
      BY <2>1, <2>2, MinimumIs
    <2> QED
      BY <2>1, <2>3 DEF IsRightmostMinimum
  <1>4. CASE Len(g) =< W
    <2>1. winnow(g) = 1 .. n
      BY <1>1, <1>4 DEF winnow
    <2> QED
      BY <1>3, <2>1 DEF g, n
  <1>5. CASE ~(Len(g) =< W)
    <2>1. Len(g) = n
      BY <1>1, <1>2, <1>5
    <2>2. winnow(g) = {rightmostMinimum(g, q) : q \in 1 .. (n - W + 1)}
      BY <1>5, <2>1 DEF winnow
    <2> QED
      BY <1>3, <2>2 DEF g, n
  <1> QED
    BY <1>4, <1>5

LEMMA FingerprintIs ==
  ASSUME NEW d \in Documents, hashString \in [Grams -> Nat]
  PROVE  IsFiniteSet(computeFingerprint(d)) /\ Cardinality(computeFingerprint(d)) \in Nat
  <1> DEFINE g == grams(d)
             P == winnow(g)
             f == [p \in P |-> g[p]]
             F == {g[p] : p \in P}
  <1>1. IsFiniteSet(P)
    BY GramsAre, WinnowIs, FS_Subset
  <1>2. f \in Surjection(P, F)
    BY DEF Surjection
  <1>3. IsFiniteSet(F)
    BY <1>1, <1>2, FS_Surjection
  <1> QED
    BY <1>3, FS_CardinalityType DEF computeFingerprint

-----------------------------------------------------------------------------
(* Tenths: a share of a percentage, and nothing only below a half tenth. *)

LEMMA QuotientAtMost ==
  ASSUME NEW n \in Nat, NEW d \in Nat \ {0}, NEW k \in Nat, n < d * (k + 1)
  PROVE  n \div d \in Nat /\ n \div d <= k
  OBVIOUS

LEMMA QuotientAtLeastOne ==
  ASSUME NEW n \in Nat, NEW d \in Nat \ {0}, n >= d
  PROVE  n \div d >= 1
  OBVIOUS

LEMMA TenthsAre ==
  ASSUME NEW whole, IsFiniteSet(whole), whole # {}, NEW subset \in SUBSET whole
  PROVE  /\ Tenths(subset, whole) \in 0 .. 1000
         /\ subset # {} /\ Cardinality(whole) <= 2000 => Tenths(subset, whole) > 0
  <1> DEFINE p == Cardinality(subset)
             w == Cardinality(whole)
             t == Tenths(subset, whole)
             n == 2000 * p + w
             d == 2 * w
  <1>1. IsFiniteSet(subset) /\ p \in Nat /\ w \in Nat /\ p <= w
    BY FS_Subset, FS_CardinalityType
  <1>2. w # 0 /\ (subset # {} => p # 0)
    BY <1>1, FS_EmptySet
  <1>3. t = n \div d
    BY DEF Tenths
  <1> HIDE DEF p, w, t
  <1>4. n \in Nat /\ d \in Nat \ {0} /\ n < d * (1000 + 1)
    BY <1>1, <1>2
  <1>5. p # 0 /\ w <= 2000 => n >= d
    BY <1>1, <1>2
  <1> HIDE DEF n, d
  <1>6. n \div d \in Nat /\ n \div d <= 1000
    BY <1>4, QuotientAtMost
  <1>7. p # 0 /\ w <= 2000 => n \div d >= 1
    BY <1>4, <1>5, QuotientAtLeastOne
  <1>8. t \in 0 .. 1000 /\ (p # 0 /\ w <= 2000 => t > 0)
    BY <1>3, <1>6, <1>7
  <1> QED
    BY <1>2, <1>8 DEF t, w

LEMMA SimilarityIs ==
  ASSUME NEW a \in Documents, NEW b \in Documents, hashString \in [Grams -> Nat]
  PROVE  /\ similarity(a, b) \in 0 .. 1000
         /\ archiveSimilarity(a, b) =< similarity(a, b)
         /\ /\ shared(a, b) # {}
            /\ \E doc \in {a, b} : Cardinality(computeFingerprint(doc)) =< 2000
            => similarity(a, b) > 0
  <1> DEFINE A == computeFingerprint(a)
             B == computeFingerprint(b)
             S == shared(a, b)
             x == Tenths(S, A)
             y == Tenths(S, B)
             big == Cardinality(winnow(grams(a))) >= MinPrints /\ Cardinality(winnow(grams(b))) >= MinPrints
  <1>1. IsFiniteSet(A) /\ IsFiniteSet(B) /\ S \subseteq A /\ S \subseteq B
    BY FingerprintIs DEF shared
  <1>2. CASE A # {} /\ B # {}
    <2>1. similarity(a, b) = Larger(x, y)
      BY <1>2 DEF similarity, BothSigned
    <2>2. archiveSimilarity(a, b) = IF big THEN Smaller(x, y) ELSE 0
      BY <1>2 DEF archiveSimilarity, BothSigned
    <2>3. /\ x \in 0 .. 1000 /\ (S # {} /\ Cardinality(A) <= 2000 => x > 0)
          /\ y \in 0 .. 1000 /\ (S # {} /\ Cardinality(B) <= 2000 => y > 0)
      BY <1>1, <1>2, TenthsAre
    <2> HIDE DEF x, y
    <2>4. /\ Larger(x, y) \in 0 .. 1000 /\ Smaller(x, y) <= Larger(x, y) /\ 0 <= Larger(x, y)
          /\ (x > 0 \/ y > 0 => Larger(x, y) > 0)
      BY <2>3 DEF Larger, Smaller
    <2>5. archiveSimilarity(a, b) =< Larger(x, y)
      BY <2>2, <2>4
    <2> HIDE DEF S
    <2>6. S # {} /\ (\E doc \in {a, b} : Cardinality(computeFingerprint(doc)) =< 2000) => x > 0 \/ y > 0
      BY <2>3
    <2> QED
      BY <2>1, <2>4, <2>5, <2>6 DEF S
  <1>3. CASE ~(A # {} /\ B # {})
    <2>1. similarity(a, b) = 0 /\ archiveSimilarity(a, b) = 0 /\ S = {}
      BY <1>1, <1>3 DEF similarity, archiveSimilarity, BothSigned
    <2> QED
      BY <2>1
  <1> QED
    BY <1>2, <1>3

-----------------------------------------------------------------------------
(* getMatchedSpans *)

LEMMA SpansAre ==
  ASSUME NEW d \in Documents, hashString \in [Grams -> Nat], NEW H
  PROVE  /\ getMatchedSpans(d, H) \subseteq DOMAIN d
         /\ \A p \in winnow(grams(d)) : grams(d)[p] \in H => p \in getMatchedSpans(d, H)
  <1> DEFINE P == {p \in winnow(grams(d)) : grams(d)[p] \in H}
             n == Len(d) - K + 1
  <1>1. getMatchedSpans(d, H) = UNION {q .. (q + K - 1) : q \in P}
    BY DEF getMatchedSpans
  <1>2. P \subseteq 1 .. n /\ K \in Nat \ {0} /\ Len(d) \in Nat /\ DOMAIN d = 1 .. Len(d)
    BY WinnowIs, DocumentIs, SizesAssumption
  <1> HIDE DEF P
  <1>3. ASSUME NEW p \in P PROVE p .. (p + K - 1) \subseteq 1 .. Len(d) /\ p \in p .. (p + K - 1)
    BY <1>2
  <1>4. getMatchedSpans(d, H) \subseteq DOMAIN d
    BY <1>1, <1>2, <1>3
  <1>5. \A p \in P : p \in getMatchedSpans(d, H)
    BY <1>1, <1>3
  <1> QED
    BY <1>4, <1>5 DEF P

(* Where two documents have K + W - 1 tokens in common, they have a window *)
(* of grams in common, and its rightmost minimum is kept in both.          *)
LEMMA RunIsShared ==
  ASSUME NEW a \in Documents, NEW b \in Documents, hashString \in [Grams -> Nat],
         NEW q \in 1 .. (Len(a) - (K + W - 1) + 1), NEW j \in 1 .. (Len(b) - (K + W - 1) + 1),
         \A n \in 0 .. (K + W - 2) : a[q + n] = b[j + n]
  PROVE  /\ shared(a, b) # {}
         /\ getMatchedSpans(a, shared(a, b)) \cap (q .. (q + (K + W - 1) - 1)) # {}
         /\ getMatchedSpans(b, shared(a, b)) \cap (j .. (j + (K + W - 1) - 1)) # {}
  <1> DEFINE g == grams(a)
             h == grams(b)
             n == Len(a) - K + 1
             m == Len(b) - K + 1
             x == rightmostMinimum(g, q)
             y == j + (x - q)
  <1>1. /\ K \in Nat \ {0} /\ W \in Nat \ {0} /\ Len(a) \in Nat /\ Len(b) \in Nat
        /\ n \in Int /\ m \in Int /\ q \in 1 .. (n - W + 1) /\ j \in 1 .. (m - W + 1)
    BY DocumentIs, SizesAssumption
  <1>2. /\ g = [k \in 1 .. n |-> hashString[[t \in 1 .. K |-> a[k + t - 1]]]]
        /\ h = [k \in 1 .. m |-> hashString[[t \in 1 .. K |-> b[k + t - 1]]]]
    BY DEF grams
  <1>3. ASSUME NEW k \in 0 .. (W - 1) PROVE g[q + k] = h[j + k]
    <2>1. q + k \in 1 .. n /\ j + k \in 1 .. m
      BY <1>1
    <2>2. \A t \in 1 .. K : a[q + k + t - 1] = b[j + k + t - 1]
      <3>1. ASSUME NEW t \in 1 .. K PROVE a[q + k + t - 1] = b[j + k + t - 1]
        <4>1. k + t - 1 \in 0 .. (K + W - 2)
          BY <1>1
        <4>2. q + (k + t - 1) = q + k + t - 1 /\ j + (k + t - 1) = j + k + t - 1
          BY <1>1
        <4> QED
          BY <4>1, <4>2
      <3> QED
        BY <3>1
    <2>3. [t \in 1 .. K |-> a[q + k + t - 1]] = [t \in 1 .. K |-> b[j + k + t - 1]]
      BY <2>2
    <2>4. g[q + k] = hashString[[t \in 1 .. K |-> a[q + k + t - 1]]]
      BY <1>2, <2>1
    <2>5. h[j + k] = hashString[[t \in 1 .. K |-> b[j + k + t - 1]]]
      BY <1>2, <2>1
    <2> HIDE DEF g, h
    <2> QED
      BY <2>3, <2>4, <2>5
  <1>4. /\ winnow(g) \subseteq 1 .. n
        /\ IsRightmostMinimum(g, q, x) /\ x \in winnow(g)
    <2> HIDE DEF x
    <2>1. \A k \in 1 .. (n - W + 1) :
            /\ IsRightmostMinimum(g, k, rightmostMinimum(g, k)) /\ rightmostMinimum(g, k) \in winnow(g)
      BY WinnowIs
    <2>2. winnow(g) \subseteq 1 .. n
      BY WinnowIs
    <2> HIDE DEF g, n
    <2> QED
      BY <1>1, <2>1, <2>2 DEF x
  <1>5. /\ winnow(h) \subseteq 1 .. m
        /\ IsRightmostMinimum(h, j, y) => y \in winnow(h)
    <2>1. \A k \in 1 .. (m - W + 1) :
            /\ \A l : IsRightmostMinimum(h, k, l) => l = rightmostMinimum(h, k)
            /\ rightmostMinimum(h, k) \in winnow(h)
      BY WinnowIs
    <2>2. winnow(h) \subseteq 1 .. m
      BY WinnowIs
    <2> HIDE DEF g, h, n, m, x, y
    <2> QED
      BY <1>1, <2>1, <2>2
  <1> HIDE DEF g, h, n, m, x
  <1>6. x \in q .. (q + W - 1) /\ \A k \in q .. (q + W - 1) : g[x] =< g[k] /\ (k > x => g[x] < g[k])
    BY <1>4 DEF IsRightmostMinimum, Window
  <1>7. y \in j .. (j + W - 1) /\ y - j \in 0 .. (W - 1) /\ q + (y - j) = x
    BY <1>1, <1>6
  <1>8. h[y] = g[x]
    <2>1. x - q \in 0 .. (W - 1) /\ q + (x - q) = x
      BY <1>1, <1>6
    <2> QED
      BY <1>3, <2>1
  <1>9. IsRightmostMinimum(h, j, y)
    <2>1. ASSUME NEW k \in Window(j) PROVE h[y] =< h[k] /\ (k > y => h[y] < h[k])
      <3>1. k - j \in 0 .. (W - 1) /\ j + (k - j) = k /\ q + (k - j) \in q .. (q + W - 1)
        BY <1>1 DEF Window
      <3>2. h[k] = g[q + (k - j)]
        BY <1>3, <3>1
      <3>3. k > y => q + (k - j) > x
        BY <1>1, <1>6, <3>1
      <3> QED
        BY <1>6, <1>8, <3>1, <3>2, <3>3
    <2> QED
      BY <1>7, <2>1 DEF IsRightmostMinimum, Window
  <1>10. y \in winnow(h)
    BY <1>5, <1>9
  <1>11. g[x] \in shared(a, b)
    BY <1>4, <1>8, <1>10 DEF shared, computeFingerprint, g, h
  <1>12. x \in getMatchedSpans(a, shared(a, b)) /\ y \in getMatchedSpans(b, shared(a, b))
    BY <1>4, <1>8, <1>10, <1>11, SpansAre DEF g, h
  <1>13. x \in q .. (q + (K + W - 1) - 1) /\ y \in j .. (j + (K + W - 1) - 1)
    BY <1>1, <1>6, <1>7
  <1> QED
    BY <1>11, <1>12, <1>13

-----------------------------------------------------------------------------
(* The median *)

Less(f, v)   == {p \in DOMAIN f : f[p] < v}
AtMost(f, v) == {p \in DOMAIN f : f[p] =< v}

LEMMA KthSmallestIs ==
  ASSUME NEW f, IsFiniteSet(DOMAIN f), \A p \in DOMAIN f : f[p] \in Nat,
         NEW k \in 1 .. Cardinality(DOMAIN f)
  PROVE  LET v == KthSmallest(f, k)
         IN  /\ v \in Nat /\ Cardinality(Less(f, v)) < k /\ k =< Cardinality(AtMost(f, v))
  <1> DEFINE V == {f[p] : p \in DOMAIN f}
             n == Cardinality(DOMAIN f)
             U == {u \in V : k =< Cardinality(AtMost(f, u))}
  <1>1. n \in Nat /\ n # 0
    BY FS_CardinalityType
  <1>2. V \in SUBSET Nat /\ V # {} /\ IsFiniteSet(V)
    <2>1. [p \in DOMAIN f |-> f[p]] \in Surjection(DOMAIN f, V)
      BY DEF Surjection
    <2>2. IsFiniteSet(V)
      BY <2>1, FS_Surjection
    <2>3. V # {}
      BY <1>1, FS_EmptySet
    <2> QED
      BY <2>2, <2>3
  <1>3. PICK top \in V : \A u \in V : top >= u
    BY <1>2, GreatestNumber
  <1>4. top \in U
    <2>1. AtMost(f, top) = DOMAIN f
      BY <1>3 DEF AtMost
    <2> QED
      BY <1>1, <2>1
  <1>5. PICK v \in U : \A u \in U : v <= u
    <2>1. U \in SUBSET Nat
      BY <1>2
    <2> HIDE DEF U
    <2> QED
      BY <1>4, <2>1, LeastNumber
  <1>6. v \in Nat /\ v \in V /\ k =< Cardinality(AtMost(f, v))
    BY <1>2, <1>5
  <1>7. Cardinality(Less(f, v)) < k
    <2> DEFINE L == {u \in V : u < v}
    <2>1. CASE L = {}
      <3>1. Less(f, v) = {}
        BY <2>1 DEF Less
      <3>2. Cardinality(Less(f, v)) = 0
        BY <3>1, FS_EmptySet
      <3> QED
        BY <3>2
    <2>2. CASE L # {}
      <3>1. L \in SUBSET Nat /\ IsFiniteSet(L)
        BY <1>2, FS_Subset
      <3>2. PICK u \in L : \A w \in L : u >= w
        <4> HIDE DEF L
        <4> QED
          BY <2>2, <3>1, GreatestNumber
      <3>3. u \in V /\ u \in Nat /\ u < v
        BY <3>1, <3>2
      <3>4. Less(f, v) = AtMost(f, u)
        <4>1. ASSUME NEW p \in DOMAIN f PROVE f[p] < v <=> f[p] =< u
          <5> DEFINE z == f[p]
          <5>1. z \in Nat /\ z \in V /\ (z < v => u >= z)
            BY <3>2
          <5> HIDE DEF z
          <5>2. z < v <=> z =< u
            BY ONLY <1>6, <3>3, <5>1
          <5> QED
            BY <5>2 DEF z
        <4> QED
          BY <4>1 DEF Less, AtMost
      <3>5. u \notin U
        BY <1>5, <1>6, <3>3
      <3>6. ~(k =< Cardinality(AtMost(f, u)))
        BY <3>3, <3>5
      <3>7. Cardinality(AtMost(f, u)) \in Nat
        <4>1. AtMost(f, u) \subseteq DOMAIN f
          BY DEF AtMost
        <4> QED
          BY <4>1, FS_Subset, FS_CardinalityType
      <3> QED
        BY <1>1, <3>4, <3>6, <3>7
    <2> QED
      BY <2>1, <2>2
  <1>8. \E w \in V : Cardinality(Less(f, w)) < k /\ k =< Cardinality(AtMost(f, w))
    BY <1>6, <1>7
  <1>9. KthSmallest(f, k) = CHOOSE w \in V : Cardinality(Less(f, w)) < k /\ k =< Cardinality(AtMost(f, w))
    BY DEF KthSmallest, Less, AtMost
  <1> QED
    BY <1>2, <1>8, <1>9

(* No more than half of the values are above the median. *)
LEMMA HalfAbove ==
  ASSUME NEW f, IsFiniteSet(DOMAIN f), \A p \in DOMAIN f : f[p] \in Nat, NEW N \in SUBSET DOMAIN f,
         \A p \in N : 2 * f[p] >= TwiceMedian(f) + 400
  PROVE  2 * Cardinality(N) =< Cardinality(DOMAIN f)
  <1> DEFINE n == Cardinality(DOMAIN f)
             k == (n + 1) \div 2
             l == (n \div 2) + 1
             v == KthSmallest(f, k)
             w == KthSmallest(f, l)
  <1>1. n \in Nat /\ IsFiniteSet(N) /\ Cardinality(N) \in Nat
    BY FS_CardinalityType, FS_Subset
  <1>2. CASE n = 0
    <2>1. DOMAIN f = {} /\ N = {}
      BY <1>2, FS_EmptySet
    <2>2. Cardinality(N) = 0
      BY <2>1, FS_EmptySet
    <2> QED
      BY <1>2, <2>2
  <1>3. CASE n # 0
    <2>0. TwiceMedian(f) = v + w
      BY <1>3 DEF TwiceMedian
    <2>1. k \in 1 .. n /\ l \in 1 .. n /\ k <= l /\ n <= 2 * k
      <3> HIDE DEF n
      <3> QED
        BY <1>1, <1>3
    <2>2. /\ v \in Nat /\ Cardinality(Less(f, v)) < k /\ k =< Cardinality(AtMost(f, v))
          /\ w \in Nat /\ Cardinality(Less(f, w)) < l /\ l =< Cardinality(AtMost(f, w))
      <3> HIDE DEF k, l
      <3> QED
        BY <2>1, KthSmallestIs
    <2> HIDE DEF v, w, k, l, n
    <2>3. \A u \in Nat : /\ IsFiniteSet(Less(f, u)) /\ IsFiniteSet(AtMost(f, u))
                         /\ Cardinality(Less(f, u)) \in Nat /\ Cardinality(AtMost(f, u)) \in Nat
      <3>1. \A u \in Nat : Less(f, u) \subseteq DOMAIN f /\ AtMost(f, u) \subseteq DOMAIN f
        BY DEF Less, AtMost
      <3> QED
        BY <3>1, FS_Subset, FS_CardinalityType
    <2>4. v <= w
      <3> SUFFICES ASSUME w < v PROVE FALSE
        BY <2>2
      <3>1. AtMost(f, w) \subseteq Less(f, v)
        BY <2>2 DEF AtMost, Less
      <3>2. Cardinality(AtMost(f, w)) <= Cardinality(Less(f, v))
        BY <2>2, <2>3, <3>1, FS_Subset
      <3> QED
        BY <2>1, <2>2, <2>3, <3>2
    <2>5. N \cap AtMost(f, v) = {}
      <3>1. ASSUME NEW p \in N PROVE ~(f[p] =< v)
        <4> DEFINE z == f[p]
        <4>1. z \in Nat /\ 2 * z >= v + w + 400
          BY <2>0
        <4> HIDE DEF z
        <4>2. ~(z =< v)
          BY ONLY <2>2, <2>4, <4>1
        <4> QED
          BY <4>2 DEF z
      <3> QED
        BY <3>1 DEF AtMost
    <2>6. Cardinality(N \cup AtMost(f, v)) = Cardinality(N) + Cardinality(AtMost(f, v))
      <3>1. /\ IsFiniteSet(AtMost(f, v))
            /\ Cardinality(N \cap AtMost(f, v)) = 0
        BY <2>2, <2>3, <2>5, FS_EmptySet
      <3> DEFINE B == AtMost(f, v)
      <3>2. IsFiniteSet(N) /\ IsFiniteSet(B) /\ Cardinality(N \cap B) = 0
        BY <1>1, <3>1
      <3>3. Cardinality(N) \in Nat /\ Cardinality(B) \in Nat
        BY <1>1, <2>2, <2>3
      <3> HIDE DEF B
      <3>4. Cardinality(N \cup B) = Cardinality(N) + Cardinality(B) - Cardinality(N \cap B)
        BY <3>2, FS_Union
      <3>5. Cardinality(N \cup B) = Cardinality(N) + Cardinality(B)
        BY <3>2, <3>3, <3>4
      <3> QED
        BY <3>5 DEF B
    <2>7. N \cup AtMost(f, v) \subseteq DOMAIN f
      BY DEF AtMost
    <2>8. Cardinality(N \cup AtMost(f, v)) <= n
      BY <2>7, FS_Subset DEF n
    <2>9. Cardinality(AtMost(f, v)) \in Nat
      BY <2>2, <2>3
    <2>10. 2 * Cardinality(N) =< n
      BY <1>1, <2>1, <2>2, <2>6, <2>8, <2>9
    <2> QED
      BY <2>10 DEF n
  <1> QED
    BY <1>2, <1>3

-----------------------------------------------------------------------------
(* The two routes *)

PairReport(p) ==
  [view |-> "pair", of |-> p, similarity |-> similarity(latestCode[p[1]], latestCode[p[2]]),
   spansA |-> getMatchedSpans(latestCode[p[1]], shared(latestCode[p[1]], latestCode[p[2]])),
   spansB |-> getMatchedSpans(latestCode[p[2]], shared(latestCode[p[1]], latestCode[p[2]]))]

(* What is shown is what the documents of the class come to. *)
ScreenInv ==
  /\ hashString \in [Grams -> Nat] /\ latestCode \in Seq(Documents)
  /\ \/ screened = Nothing
     \/ screened = [view |-> "class", report |-> computeClassReport]
     \/ \E p \in Pairs : screened = PairReport(p)

LEMMA ScreenStep ==
  ASSUME ScreenInv, [ScreenNext]_screenVars
  PROVE  ScreenInv'
  <1>1. UNCHANGED <<hashString, latestCode>>
    BY DEF ScreenNext, GetSimilarity, GetCompare, screenVars
  <1>2. hashString' \in [Grams -> Nat] /\ latestCode' \in Seq(Documents)
    BY <1>1 DEF ScreenInv
  <1>3. /\ computeClassReport' = computeClassReport /\ Pairs' = Pairs
        /\ \A p \in Pairs : PairReport(p)' = PairReport(p)
    <2>1. \A t : grams(t)' = grams(t)
      BY <1>1 DEF grams
    <2>2. \A t : computeFingerprint(t)' = computeFingerprint(t)
      BY <2>1 DEF computeFingerprint, winnow, rightmostMinimum, IsRightmostMinimum
    <2>3. \A t, h : getMatchedSpans(t, h)' = getMatchedSpans(t, h)
      BY <2>1 DEF getMatchedSpans, winnow, rightmostMinimum, IsRightmostMinimum
    <2>4. \A x, y : similarity(x, y)' = similarity(x, y) /\ shared(x, y)' = shared(x, y)
      BY <2>2 DEF similarity, BothSigned, shared
    <2>5. Pairs' = Pairs
      BY <1>1 DEF Pairs
    <2>6. computeClassReport' = computeClassReport
      BY <1>1, <2>4, <2>5 DEF computeClassReport
    <2>7. \A p \in Pairs : PairReport(p)' = PairReport(p)
      BY <1>1, <2>3, <2>4 DEF PairReport
    <2> QED
      BY <2>5, <2>6, <2>7
  <1>4. CASE GetSimilarity
    <2>1. screened' = [view |-> "class", report |-> computeClassReport']
      BY <1>3, <1>4 DEF GetSimilarity
    <2> QED
      BY <1>2, <2>1 DEF ScreenInv
  <1>5. CASE GetCompare
    <2>1. PICK p \in Pairs : screened' = PairReport(p)
      BY <1>5 DEF GetCompare, PairReport
    <2>2. p \in Pairs' /\ screened' = PairReport(p)'
      BY <1>3, <2>1
    <2> QED
      BY <1>2, <2>2 DEF ScreenInv
  <1>6. CASE UNCHANGED screenVars
    <2>1. screened' = screened
      BY <1>6 DEF screenVars
    <2>2. \/ screened' = Nothing
          \/ screened' = [view |-> "class", report |-> computeClassReport']
          \/ \E p \in Pairs' : screened' = PairReport(p)'
      BY <1>3, <2>1 DEF ScreenInv
    <2> QED
      BY <1>2, <2>2 DEF ScreenInv, Nothing
  <1> QED
    BY <1>4, <1>5, <1>6 DEF ScreenNext

LEMMA PairsAre ==
  ASSUME ScreenInv
  PROVE  /\ IsFiniteSet(Pairs)
         /\ \A p \in Pairs : latestCode[p[1]] \in Documents /\ latestCode[p[2]] \in Documents
  <1>1. /\ latestCode \in Seq(Documents) /\ Len(latestCode) \in Nat
        /\ DOMAIN latestCode = 1 .. Len(latestCode)
    BY LenProperties DEF ScreenInv
  <1>2. IsFiniteSet(DOMAIN latestCode)
    BY <1>1, FS_Interval
  <1>3. IsFiniteSet((DOMAIN latestCode) \X (DOMAIN latestCode))
    BY <1>2, FS_Product
  <1>4. IsFiniteSet(Pairs)
    BY <1>3, FS_Subset DEF Pairs
  <1>5. \A q \in DOMAIN latestCode : latestCode[q] \in Documents
    BY <1>1, ElementOfSeq
  <1> QED
    BY <1>4, <1>5 DEF Pairs

(* Whoever copied K + W - 1 tokens is shown where, a class that writes the *)
(* same is not a class of copies, and the archive accuses no one whom the  *)
(* class would not.                                                        *)
LEMMA SoundScreening == ScreenInv => ScreeningIsSound
  <1> SUFFICES ASSUME ScreenInv PROVE ScreeningIsSound
    OBVIOUS
  <1>1. hashString \in [Grams -> Nat]
    BY DEF ScreenInv
  <1>2. SharedRunIsSeen
    <2> SUFFICES ASSUME screened.view = "pair" PROVE SharedRunIsSeen
      BY DEF SharedRunIsSeen
    <2>1. PICK p \in Pairs : screened = PairReport(p)
      BY DEF ScreenInv, Nothing
    <2> DEFINE a == latestCode[p[1]]
               b == latestCode[p[2]]
               run == K + W - 1
    <2>2. /\ screened.of = p /\ screened.similarity = similarity(a, b)
          /\ screened.spansA = getMatchedSpans(a, shared(a, b))
          /\ screened.spansB = getMatchedSpans(b, shared(a, b))
      BY <2>1 DEF PairReport
    <2>3. a \in Documents /\ b \in Documents
      BY PairsAre
    <2> HIDE DEF a, b
    <2>4. K + W - 2 = run - 1
      BY SizesAssumption
    <2>5. ASSUME NEW q \in 1 .. (Len(a) - run + 1), NEW j \in 1 .. (Len(b) - run + 1),
                 \A n \in 0 .. (run - 1) : a[q + n] = b[j + n]
          PROVE  /\ (\E doc \in {a, b} : Cardinality(computeFingerprint(doc)) =< 2000) =>
                      screened.similarity > 0
                 /\ screened.spansA \cap (q .. (q + run - 1)) # {}
                 /\ screened.spansB \cap (j .. (j + run - 1)) # {}
      <3>1. \A n \in 0 .. (K + W - 2) : a[q + n] = b[j + n]
        BY <2>4, <2>5
      <3>2. /\ shared(a, b) # {}
            /\ getMatchedSpans(a, shared(a, b)) \cap (q .. (q + run - 1)) # {}
            /\ getMatchedSpans(b, shared(a, b)) \cap (j .. (j + run - 1)) # {}
        BY <1>1, <2>3, <3>1, RunIsShared
      <3>3. (\E doc \in {a, b} : Cardinality(computeFingerprint(doc)) =< 2000) =>
              similarity(a, b) > 0
        BY <1>1, <2>3, <3>2, SimilarityIs
      <3> QED
        BY <2>2, <3>2, <3>3
    <2>6. a = latestCode[screened.of[1]] /\ b = latestCode[screened.of[2]]
      BY <2>2 DEF a, b
    <2> QED
      BY <2>5, <2>6 DEF SharedRunIsSeen
  <1>3. HalfTheClassAtMost
    <2> SUFFICES ASSUME screened.view = "class" PROVE HalfTheClassAtMost
      BY DEF HalfTheClassAtMost
    <2> DEFINE score == [p \in Pairs |-> similarity(latestCode[p[1]], latestCode[p[2]])]
               N == {p \in Pairs : /\ score[p] >= ABSOLUTE_FLOOR
                                   /\ 2 * score[p] >= TwiceMedian(score) + 2 * MARGIN_OVER_BASELINE}
    <2>1. screened = [view |-> "class", report |-> computeClassReport]
      BY DEF ScreenInv, Nothing, PairReport
    <2>2. computeClassReport = [similarity |-> score, notable |-> N]
      BY DEF computeClassReport
    <2>3. screened.report.notable = N /\ screened.report.similarity = score
      BY <2>1, <2>2
    <2>4. \A p \in Pairs : /\ score[p] \in Nat
                           /\ archiveSimilarity(latestCode[p[1]], latestCode[p[2]]) =< score[p]
      <3>1. ASSUME NEW p \in Pairs
            PROVE  /\ score[p] \in Nat
                   /\ archiveSimilarity(latestCode[p[1]], latestCode[p[2]]) =< score[p]
        <4> DEFINE a == latestCode[p[1]]
                   b == latestCode[p[2]]
        <4>1. a \in Documents /\ b \in Documents
          BY PairsAre
        <4>2. score[p] = similarity(a, b)
          OBVIOUS
        <4> HIDE DEF a, b, score
        <4>3. similarity(a, b) \in 0 .. 1000 /\ archiveSimilarity(a, b) =< similarity(a, b)
          BY <1>1, <4>1, SimilarityIs
        <4> QED
          BY <4>2, <4>3 DEF a, b
      <3> QED
        BY <3>1
    <2>5. DOMAIN score = Pairs /\ IsFiniteSet(Pairs)
      BY PairsAre
    <2>6. N \in SUBSET DOMAIN score /\ \A p \in N : 2 * score[p] >= TwiceMedian(score) + 400
      BY DEF MARGIN_OVER_BASELINE
    <2> HIDE DEF score, N
    <2>7. 2 * Cardinality(N) =< Cardinality(Pairs)
      BY <2>4, <2>5, <2>6, HalfAbove
    <2> QED
      BY <2>3, <2>4, <2>7 DEF HalfTheClassAtMost
  <1> QED
    BY <1>2, <1>3 DEF ScreeningIsSound

LEMMA ScreenTypes == ScreenInv => ScreenTypeOK
  <1> SUFFICES ASSUME ScreenInv PROVE ScreenTypeOK
    OBVIOUS
  <1>1. ASSUME NEW p \in Pairs, screened = PairReport(p)
        PROVE  /\ screened.similarity \in 0 .. 1000
               /\ screened.spansA \subseteq DOMAIN latestCode[screened.of[1]]
               /\ screened.spansB \subseteq DOMAIN latestCode[screened.of[2]]
    <2> DEFINE a == latestCode[p[1]]
               b == latestCode[p[2]]
    <2>1. a \in Documents /\ b \in Documents /\ hashString \in [Grams -> Nat]
      BY PairsAre DEF ScreenInv
    <2>2. /\ screened.of = p /\ screened.similarity = similarity(a, b)
          /\ screened.spansA = getMatchedSpans(a, shared(a, b))
          /\ screened.spansB = getMatchedSpans(b, shared(a, b))
      BY <1>1 DEF PairReport
    <2> HIDE DEF a, b
    <2>3. /\ similarity(a, b) \in 0 .. 1000
          /\ getMatchedSpans(a, shared(a, b)) \subseteq DOMAIN a
          /\ getMatchedSpans(b, shared(a, b)) \subseteq DOMAIN b
      BY <2>1, SimilarityIs, SpansAre
    <2>4. a = latestCode[screened.of[1]] /\ b = latestCode[screened.of[2]]
      BY <2>2 DEF a, b
    <2>5. screened.spansA \subseteq DOMAIN a /\ screened.spansB \subseteq DOMAIN b
      BY ONLY <2>2, <2>3
    <2>6. screened.similarity \in 0 .. 1000
      BY ONLY <2>2, <2>3
    <2> QED
      BY <2>4, <2>5, <2>6, Zenon
  <1>2. ASSUME screened = [view |-> "class", report |-> computeClassReport]
        PROVE  screened.report.notable \subseteq Pairs
    <2>1. computeClassReport.notable \subseteq Pairs
      BY DEF computeClassReport
    <2> QED
      BY <1>2, <2>1
  <1>3. screened.view = "pair" => \E p \in Pairs : screened = PairReport(p)
    BY DEF ScreenInv, Nothing
  <1>4. screened.view = "class" => screened = [view |-> "class", report |-> computeClassReport]
    BY DEF ScreenInv, Nothing, PairReport
  <1> QED
    BY <1>1, <1>2, <1>3, <1>4 DEF ScreenTypeOK

LEMMA ScreenInvariance == ScreenSpec => []ScreenInv
  <1>1. ScreenInit => ScreenInv
    BY DEF ScreenInit, ScreenInv
  <1> QED
    BY <1>1, ScreenStep, PTL DEF ScreenSpec

(* In classes of any size, with any hash and any sizes of grams and        *)
(* windows, neither a copied run is missed nor a class accused.            *)
THEOREM CopiesAreSeen == ScreenSpec => []ScreeningIsSound
  BY ScreenInvariance, SoundScreening, PTL

LEMMA ScreenTyping == ScreenSpec => []ScreenTypeOK
  BY ScreenInvariance, ScreenTypes, PTL

-----------------------------------------------------------------------------
(***************************************************************************)
(* The three parts side by side                                            *)
(***************************************************************************)

(* Each behaves as it does alone; Execution may also run without fairness. *)
LEMMA GradingParts == GradingSpec => Spec /\ JudgingSpec /\ ScreenSpec
  <1>1. GradingInit => Init /\ JudgingInit /\ ScreenInit
    BY DEF GradingInit
  <1>2. [GradingNext]_<<part, vars, judgingVars, screenVars>> =>
          [Next]_vars /\ [JudgingNext]_judgingVars /\ [ScreenNext]_screenVars
    BY DEF GradingNext
  <1> QED
    BY <1>1, <1>2, PTL DEF GradingSpec, Spec, JudgingSpec, ScreenSpec

(* Execution, judging and screening keep the types of all their variables. *)
THEOREM GradingTyping == GradingSpec => []GradingTypeOK
  BY GradingParts, ExecutionTyping, JudgingTyping, ScreenTyping, PTL DEF GradingTypeOK
=============================================================================
