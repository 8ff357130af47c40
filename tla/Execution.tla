----------------------------- MODULE Execution -----------------------------
(***************************************************************************)
(* runTestCases: a submission is compiled and then run once per test case, *)
(* each time in a process of its own that spawnCollect watches: the docker *)
(* client, whose container the daemon runs, or on the host bash and        *)
(* `timeout`, whose child is the program.  Output limits, two clocks, the  *)
(* end of the program and the loss of the daemon race each other to decide *)
(* the verdict (verdict.service.js).                                       *)
(***************************************************************************)
EXTENDS Integers, Sequences, FiniteSets

CONSTANTS
  Tests,      \* the number of test cases
  Compilers,  \* what compiling may do
  Programs,   \* what the program may do in a test case
  Modes,      \* values of SANDBOX_MODE
  FaultKinds, \* the faults that may strike ...
  MaxFaults   \* ... and how often (bound)

(* right, wrong: prints an answer and exits 0; crash: prints the right one  *)
(* and exits 1; memory: is killed by the memory cap; loop, flood: never     *)
(* ends, silently or printing; stubborn: loops, and ignores the SIGTERM of  *)
(* `timeout`; burst: prints too much, and exits 0.                          *)
Endless    == {"loop", "flood", "stubborn"}
Behaviours == {"right", "wrong", "crash", "memory", "burst"} \cup Endless

(* slow: the machine needs longer than the limits for an ordinary run;      *)
(* spawn: the process cannot be created; prepare: the work directory cannot *)
(* be written; daemon: Docker stops.                                        *)
AllFaults == {"slow", "spawn", "prepare", "daemon"}

ASSUME ExecutionAssumption ==
  /\ Tests \in Nat /\ Tests >= 1
  /\ Compilers \subseteq Behaviours /\ Programs \subseteq Behaviours
  /\ Modes \subseteq {"docker", "host", "auto"}
  /\ FaultKinds \subseteq AllFaults
  /\ MaxFaults \in Nat

Runs == 0 .. Tests \* compiling is run 0

VARIABLES
  mode,      \* SANDBOX_MODE
  program,   \* what each run's program does
  daemon,    \* a Docker daemon is reachable
  cached,    \* dockerAvailable: a probe has once succeeded in this process
  backend,   \* what resolveBackend has chosen
  workDir,   \* the submission's work directory exists
  step,      \* where runTestCases is
  i,         \* its current run
  client,    \* the current run's spawned process
  prog,      \* each run's container, or program on the host
  code,      \* exit code of the current run's process
  armed,     \* hardTimer is set
  killedForTimeout, killedForOutput,
  killSent,  \* runs for which `docker kill` has been issued ...
  killing,   \* ... and has not reached the daemon yet
  results,   \* verdicts so far
  outcome,   \* what runTestCases returns
  faults

given   == <<mode, program>>
runVars == <<client, code, armed, killedForTimeout, killedForOutput>>
envVars == <<daemon, cached, backend, workDir>>
vars == <<given, envVars, step, i, runVars, prog, killSent, killing, results,
          outcome, faults>>

Verdicts == {"accepted", "wrong_answer", "runtime_error", "time_limit_exceeded",
             "memory_limit_exceeded", "output_limit_exceeded"}

TypeOK ==
  /\ mode \in Modes
  /\ program \in [Runs -> Behaviours]
  /\ daemon \in BOOLEAN /\ cached \in BOOLEAN /\ workDir \in BOOLEAN
  /\ backend \in {"none", "docker", "host"}
  /\ step \in {"resolve", "prepare", "spawn", "await", "cleanup", "done"}
  /\ i \in Runs
  /\ client \in {"none", "live", "dead"}
  /\ prog \in [Runs -> {"none", "creating", "live", "ended", "failed"}]
  /\ code \in {"none", "0", "1", "124", "125", "137", "null", "-1"}
  /\ armed \in BOOLEAN /\ killedForTimeout \in BOOLEAN /\ killedForOutput \in BOOLEAN
  /\ killing \subseteq killSent /\ killSent \subseteq Runs
  /\ results \in Seq(Verdicts) /\ Len(results) <= Tests
  /\ outcome \in {"none", "graded", "compile_error", "threw"}
  /\ faults \in 0 .. MaxFaults

Strike(kind) == kind \in FaultKinds /\ faults < MaxFaults /\ faults' = faults + 1

Init ==
  /\ mode \in Modes
  /\ program \in [Runs -> Behaviours]
  /\ program[0] \in Compilers /\ \A r \in 1 .. Tests : program[r] \in Programs
  /\ daemon \in BOOLEAN /\ cached \in BOOLEAN
  /\ backend = "none" /\ workDir = FALSE
  /\ step = "resolve" /\ i = 0
  /\ client = "none" /\ code = "none"
  /\ armed = FALSE /\ killedForTimeout = FALSE /\ killedForOutput = FALSE
  /\ prog = [r \in Runs |-> "none"]
  /\ killSent = {} /\ killing = {}
  /\ results = <<>> /\ outcome = "none"
  /\ faults = 0

-----------------------------------------------------------------------------
(***************************************************************************)
(* verdict.service.js, on what spawnCollect returns.                       *)
(***************************************************************************)

(* Mutant: only the hard timer counts, not `timeout`. *)
HardTimedOut == killedForTimeout

TimedOut == killedForTimeout \/ code = "124"

(* check(): whether what was printed is the expected output. *)
Passed(r) == program[r] \in {"right", "crash"}

(* Mutant: judged by the output alone (before v0.0.7). *)
ClassifyByOutput(r) ==
  IF TimedOut THEN "time_limit_exceeded"
  ELSE IF Passed(r) THEN "accepted" ELSE "wrong_answer"

Classify(r) ==
  IF TimedOut THEN "time_limit_exceeded"
  ELSE IF killedForOutput THEN "output_limit_exceeded"
  ELSE IF code = "137" THEN "memory_limit_exceeded"
  ELSE IF code # "0" THEN "runtime_error"
  ELSE IF Passed(r) THEN "accepted" ELSE "wrong_answer"

-----------------------------------------------------------------------------
(***************************************************************************)
(* runTestCases.                                                           *)
(***************************************************************************)

(* resolveBackend; a successful probe is remembered for good. *)
Resolve ==
  /\ step = "resolve"
  /\ mode = "host" \/ cached \/ daemon \/ mode = "auto"
  /\ backend' = IF mode # "host" /\ (cached \/ daemon) THEN "docker" ELSE "host"
  /\ cached' = (cached \/ (mode # "host" /\ daemon))
  /\ step' = "prepare"
  /\ UNCHANGED <<given, daemon, workDir, i, runVars, prog, killSent, killing, results,
                 outcome, faults>>

(* "Refusing to execute submitted code without container isolation." *)
Refuse ==
  /\ step = "resolve"
  /\ mode = "docker" /\ ~cached /\ ~daemon
  /\ outcome' = "threw"
  /\ step' = "done"
  /\ UNCHANGED <<given, envVars, i, runVars, prog, killSent, killing, results, faults>>

Prepare ==
  /\ step = "prepare"
  /\ workDir' = TRUE
  /\ step' = "spawn"
  /\ UNCHANGED <<given, daemon, cached, backend, i, runVars, prog, killSent, killing,
                 results, outcome, faults>>

(* prepareWorkDir throws, before or after its mkdir; there is no finally yet. *)
PrepareFails ==
  /\ step = "prepare"
  /\ Strike("prepare")
  /\ workDir' \in BOOLEAN
  /\ outcome' = "threw"
  /\ step' = "done"
  /\ UNCHANGED <<given, daemon, cached, backend, i, runVars, prog, killSent, killing,
                 results>>

(* Mutant: compiling has no hard timer, as it has no `timeout`. *)
SpawnUntimed ==
  /\ step = "spawn"
  /\ client' = "live" /\ code' = "none"
  /\ armed' = (i > 0) /\ killedForTimeout' = FALSE /\ killedForOutput' = FALSE
  /\ prog' = [prog EXCEPT ![i] = IF backend = "docker" THEN "creating" ELSE "live"]
  /\ step' = "await"
  /\ UNCHANGED <<given, envVars, i, killSent, killing, results, outcome, faults>>

(* spawnCollect: docker run, or bash. *)
Spawn ==
  /\ step = "spawn"
  /\ client' = "live" /\ code' = "none"
  /\ armed' = TRUE /\ killedForTimeout' = FALSE /\ killedForOutput' = FALSE
  /\ prog' = [prog EXCEPT ![i] = IF backend = "docker" THEN "creating" ELSE "live"]
  /\ step' = "await"
  /\ UNCHANGED <<given, envVars, i, killSent, killing, results, outcome, faults>>

(* The child's 'error' event: the promise is resolved with -1. *)
SpawnFails ==
  /\ step = "spawn"
  /\ Strike("spawn")
  /\ client' = "dead" /\ code' = "-1"
  /\ armed' = FALSE /\ killedForTimeout' = FALSE /\ killedForOutput' = FALSE
  /\ step' = "await"
  /\ UNCHANGED <<given, envVars, i, prog, killSent, killing, results, outcome>>

ClientEnds(c) == client' = "dead" /\ code' = (IF client = "live" THEN c ELSE code)

KeepRun == UNCHANGED <<given, envVars, step, i, results, outcome>>

(* The output limit, in what is read: the spawned process is killed, and    *)
(* nothing else.                                                            *)
Overflow ==
  /\ step = "await" /\ ~killedForOutput
  /\ program[i] \in {"flood", "burst"} /\ prog[i] \in {"live", "ended"}
  /\ killedForOutput' = TRUE
  /\ ClientEnds("null")
  /\ UNCHANGED <<armed, killedForTimeout, prog, killSent, killing, faults>>
  /\ KeepRun

(* `timeout` is dead, and the program it was to stop never ends. *)
Orphaned ==
  /\ backend = "host" /\ step = "await" /\ client = "dead"
  /\ prog[i] = "live" /\ program[i] \in Endless

(* An ordinary program meets a time limit only if the machine is slow, and  *)
(* so does a test case meet this timer, two seconds after `timeout`, unless *)
(* `timeout` cannot end it.                                                *)
TimerDue ==
  \/ /\ \/ i = 0 /\ program[0] \in Endless
        \/ program[i] = "stubborn"
        \/ Orphaned
     /\ UNCHANGED faults
  \/ Strike("slow")

(* Mutant: the container is not killed by name. *)
HardTimeoutClientOnly ==
  /\ step = "await" /\ armed
  /\ TimerDue
  /\ armed' = FALSE /\ killedForTimeout' = TRUE
  /\ ClientEnds("null")
  /\ UNCHANGED <<killedForOutput, prog, killSent, killing>>
  /\ KeepRun

(* hardTimer: the container is killed by name, the client directly.         *)
HardTimeout ==
  /\ step = "await" /\ armed
  /\ TimerDue
  /\ armed' = FALSE /\ killedForTimeout' = TRUE
  /\ ClientEnds("null")
  /\ IF backend = "docker"
     THEN killSent' = killSent \cup {i} /\ killing' = killing \cup {i}
     ELSE UNCHANGED <<killSent, killing>>
  /\ UNCHANGED <<killedForOutput, prog>>
  /\ KeepRun

(* 'close': the process is gone, and so is everything that holds its pipes: *)
(* on the host that is the program, wherever its parent was killed.  What a *)
(* program that ended by itself has printed has all been read.             *)
Closed ==
  /\ step = "await" /\ client = "dead"
  /\ backend = "host" => prog[i] # "live"
  /\ program[i] = "burst" /\ code = "0" => killedForOutput

Compiles ==
  /\ i = 0 /\ Closed
  /\ code = "0" /\ ~TimedOut
  /\ i' = 1 /\ step' = "spawn"
  /\ armed' = FALSE
  /\ UNCHANGED <<given, envVars, client, code, killedForTimeout, killedForOutput, prog,
                 killSent, killing, results, outcome, faults>>

(* Mutant: returned from outside the try block. *)
CompileErrorUncleaned ==
  /\ i = 0 /\ Closed
  /\ (code # "0" \/ TimedOut)
  /\ outcome' = "compile_error" /\ step' = "done"
  /\ armed' = FALSE
  /\ UNCHANGED <<given, envVars, i, client, code, killedForTimeout, killedForOutput, prog,
                 killSent, killing, results, faults>>

CompileError ==
  /\ i = 0 /\ Closed
  /\ (code # "0" \/ TimedOut)
  /\ outcome' = "compile_error" /\ step' = "cleanup"
  /\ armed' = FALSE
  /\ UNCHANGED <<given, envVars, i, client, code, killedForTimeout, killedForOutput, prog,
                 killSent, killing, results, faults>>

(* Mutant: one test case too many. *)
JudgePastEnd ==
  /\ i > 0 /\ Closed
  /\ results' = Append(results, Classify(i))
  /\ IF i <= Tests
     THEN i' = i + 1 /\ step' = "spawn" /\ UNCHANGED outcome
     ELSE outcome' = "graded" /\ step' = "cleanup" /\ UNCHANGED i
  /\ armed' = FALSE
  /\ UNCHANGED <<given, envVars, client, code, killedForTimeout, killedForOutput, prog,
                 killSent, killing, faults>>

(* A test case is judged, and the next one is run. *)
Judge ==
  /\ i > 0 /\ Closed
  /\ results' = Append(results, Classify(i))
  /\ IF i < Tests
     THEN i' = i + 1 /\ step' = "spawn" /\ UNCHANGED outcome
     ELSE outcome' = "graded" /\ step' = "cleanup" /\ UNCHANGED i
  /\ armed' = FALSE
  /\ UNCHANGED <<given, envVars, client, code, killedForTimeout, killedForOutput, prog,
                 killSent, killing, faults>>

(* The finally block. *)
Cleanup ==
  /\ step = "cleanup"
  /\ workDir' = FALSE
  /\ step' = "done"
  /\ UNCHANGED <<given, daemon, cached, backend, i, runVars, prog, killSent, killing,
                 results, outcome, faults>>

-----------------------------------------------------------------------------
(***************************************************************************)
(* The daemon, the containers and the programs in them.                    *)
(***************************************************************************)

(* The end of run r's program ends the process that waits for it. *)
Ends(r, how, c) ==
  /\ prog' = [prog EXCEPT ![r] = how]
  /\ IF r = i /\ client = "live" THEN ClientEnds(c) ELSE UNCHANGED <<client, code>>
  /\ UNCHANGED <<armed, killedForTimeout, killedForOutput, killSent, killing>>
  /\ KeepRun

ClientAlive(r) == r = i /\ step = "await" /\ client = "live"

(* The container starts; a client killed meanwhile may have asked for it. *)
ContainerStarts(r) ==
  /\ prog[r] = "creating" /\ daemon
  /\ prog' = [prog EXCEPT ![r] = "live"]
  /\ UNCHANGED <<runVars, killSent, killing, faults>>
  /\ KeepRun

(* It does not: its client was killed before it asked, or Docker is down.   *)
NeverStarts(r) ==
  /\ prog[r] = "creating"
  /\ ~daemon \/ ~ClientAlive(r)
  /\ Ends(r, "failed", "125")
  /\ UNCHANGED faults

ExitCode(b) == CASE b \in {"right", "wrong", "burst"} -> "0"
                 [] b = "crash" -> "1"
                 [] b = "memory" -> "137"

Exits(r) ==
  /\ prog[r] = "live"
  /\ program[r] \notin Endless
  /\ Ends(r, "ended", ExitCode(program[r]))
  /\ UNCHANGED faults

(* `timeout`, which wraps test cases but not compiling.  In a container it  *)
(* outlives the client; on the host it is the client.                      *)
Timeout(r) ==
  /\ prog[r] = "live" /\ r > 0
  /\ backend = "host" => ClientAlive(r)
  /\ program[r] # "stubborn"
  /\ \/ program[r] \in Endless /\ UNCHANGED faults
     \/ Strike("slow")
  /\ Ends(r, "ended", "124")

(* `docker kill` finds the container running, or does nothing. *)
KillArrives(r) ==
  /\ r \in killing
  /\ killing' = killing \ {r}
  /\ prog' = [prog EXCEPT ![r] = IF @ = "live" THEN "ended" ELSE @]
  /\ UNCHANGED <<runVars, killSent, faults>>
  /\ KeepRun

(* The daemon stops, and its containers with it. *)
DaemonStops ==
  /\ daemon /\ Strike("daemon")
  /\ daemon' = FALSE
  /\ IF backend = "docker"
     THEN /\ prog' = [r \in Runs |-> IF prog[r] = "live" THEN "ended" ELSE prog[r]]
          /\ IF prog[i] = "live" /\ client = "live"
             THEN ClientEnds("125") ELSE UNCHANGED <<client, code>>
     ELSE UNCHANGED <<prog, client, code>>
  /\ UNCHANGED <<given, cached, backend, workDir, step, i, armed, killedForTimeout,
                 killedForOutput, killSent, killing, results, outcome>>

Grader == \/ Resolve \/ Refuse \/ Prepare \/ Spawn
          \/ Compiles \/ CompileError \/ Judge \/ Cleanup

Machine(r) == \/ ContainerStarts(r) \/ NeverStarts(r) \/ Exits(r) \/ Timeout(r)
              \/ KillArrives(r)

Next == \/ Grader \/ PrepareFails \/ SpawnFails \/ Overflow \/ HardTimeout \/ DaemonStops
        \/ \E r \in Runs : Machine(r)

Spec == Init /\ [][Next]_vars

(* Node runs what is due, reads what is printed, its timer fires, and the   *)
(* machine goes on.                                                        *)
FairSpec ==
  /\ Spec
  /\ WF_vars(Grader)
  /\ WF_vars(Overflow) /\ WF_vars(HardTimeout /\ UNCHANGED faults)
  /\ \A r \in Runs : WF_vars(Machine(r) /\ UNCHANGED faults)

-----------------------------------------------------------------------------
(***************************************************************************)
(* Properties.                                                             *)
(***************************************************************************)

(* No race of clocks, limits and exits gets a mark to a program that did   *)
(* not answer rightly and exit 0: "did the program run successfully, and   *)
(* is its output the right answer?" (codeExecution.service.js:443).         *)
AcceptedMeansRight ==
  \A r \in 1 .. Len(results) : results[r] = "accepted" => program[r] = "right"

(* What a program deserves.  A flood may be met by either limit. *)
Deserved(b) == CASE b = "right"  -> {"accepted"}
                 [] b = "wrong"  -> {"wrong_answer"}
                 [] b = "crash"  -> {"runtime_error"}
                 [] b = "memory" -> {"memory_limit_exceeded"}
                 [] b \in {"loop", "stubborn"} -> {"time_limit_exceeded"}
                 [] b = "flood"  -> {"time_limit_exceeded", "output_limit_exceeded"}
                 [] b = "burst"  -> {"output_limit_exceeded"}

(* With a machine and a sandbox that work, every test case gets the verdict its program *)
(* deserves, whichever of the end, the limit and the clocks comes first.   *)
FairVerdict ==
  faults = 0 /\ (daemon \/ backend = "host") =>
    \A r \in 1 .. Len(results) : results[r] \in Deserved(program[r])

(* The work directory outlives runTestCases only where prepareWorkDir has   *)
(* thrown, before there was a finally block to remove it.                  *)
WorkDirGone == step = "done" /\ workDir => outcome = "threw"

(* A verdict is right and fair. *)
VerdictIsDeserved == AcceptedMeansRight /\ FairVerdict

(* Run r has been answered. *)
Answered(r) == r < i \/ (r = i /\ step \in {"cleanup", "done"})

(* A container that is still there when its run has been answered has been *)
(* told to stop, or belongs to a program that went over the output limit.  *)
StraysAreKnown ==
  \A r \in Runs : Answered(r) /\ prog[r] \in {"creating", "live"} =>
    r \in killSent \/ program[r] \in {"flood", "burst"}

(* Neither files nor containers are left behind unknown. *)
NothingLeftBehind == WorkDirGone /\ StraysAreKnown

(* Every grading comes to an end, unless on the host `timeout` has been    *)
(* killed in the place of a program that never ends: that program holds    *)
(* the pipes that 'close' waits for (codeExecution.service.js:152).        *)
GradingEnds == <>(step = "done") \/ <>[]Orphaned

(* "The container has to be killed by name as well or it keeps burning CPU  *)
(* after we've given up on it" (codeExecution.service.js:126-127).          *)
GivenUpIsKilled ==
  \A r \in Runs : Answered(r) /\ prog[r] = "live" => r \in killSent
=============================================================================
