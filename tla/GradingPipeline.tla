-------------------------- MODULE GradingPipeline --------------------------
(***************************************************************************)
(* How a submission travels from POST /api/submissions to its result:      *)
(* the request handler of submissions.routes.js, enqueueGrading, the       *)
(* BullMQ queue in Redis, and the worker processes of worker.js, with the  *)
(* faults the code is written against.  One action stands for the code     *)
(* between two awaits; a fault of a kind in FaultKinds may strike at most  *)
(* MaxFaults times in a behaviour.                                         *)
(***************************************************************************)
EXTENDS Naturals, Sequences, FiniteSets

CONSTANTS
  Submissions,  \* rows of the submissions table
  Workers,      \* worker processes (worker.js)
  Slots,        \* concurrent gradings, WORKER_CONCURRENCY of them per process
  WorkerOf,     \* the process a slot belongs to
  MaxStalls,    \* BullMQ's maxStalledCount (the default, 1, in the code)
  FaultKinds,   \* the kinds of fault considered, a subset of AllFaults
  MaxFaults,    \* bound: faults in one behaviour
  NoSub, NoSlot \* "grading nothing" and "locked by nobody"

AllFaults ==
  { "timeout",  \* QUEUE_ENQUEUE_TIMEOUT_MS elapses before Redis answers add()
    "redis",    \* Redis answers add() with an error
    "api",      \* the API process dies
    "db",       \* Postgres rejects an UPDATE whose failure the code swallows
    "throw",    \* a query or the sandbox throws inside gradeSubmission
    "lock",     \* a live worker loses its job lock (blocked loop, partition)
    "sigterm",  \* a worker is asked to stop
    "force",    \* its 30 s shutdown timer fires first
    "kill",     \* a worker process dies on the spot
    "delete" }  \* the submission's problem or author is deleted (CASCADE)

ASSUME PipelineAssumption ==
  /\ WorkerOf \in [Slots -> Workers]
  /\ MaxStalls \in Nat
  /\ MaxFaults \in Nat
  /\ FaultKinds \subseteq AllFaults
  /\ NoSub \notin Submissions
  /\ NoSlot \notin Slots

VARIABLES
  status,       \* submissions.status, "absent" while there is no row
  result,       \* the grading the row's results_json, counts and verdict hold
  request,      \* progress of the POST handler
  command,      \* its add() as seen by ioredis and Redis
  job,          \* state of the BullMQ job
  holder,       \* slot whose token the job's lock carries
  stalls,       \* the job's stalled counter
  returnvalue,  \* what the job's 'completed' event announces
  on, pc, out,  \* per slot: the submission, the place in gradeSubmission, the grading
  proc,         \* state of each worker process
  pendingError, \* 'failed' handlers whose UPDATE has not run yet
  faults        \* the kinds of the faults so far, in their order

rowVars    == <<status, result>>
apiVars    == <<request, command>>
queueVars  == <<job, holder, stalls, returnvalue>>
slotVars   == <<on, pc, out>>
workerVars == <<slotVars, proc, pendingError>>
vars       == <<rowVars, apiVars, queueVars, workerVars, faults>>

Outcomes == {"graded", "compile_error"}
Settled  == {"completed", "error"}
Steps    == {"marking", "reading", "grading", "saving", "reporting", "threw"}

(* Mutant: an enum value the column does not have. *)
StatusOfVerdict(o) == IF o = "compile_error" THEN "failed" ELSE "completed"

(* worker.js:125 and :156: only a compile error turns a grading into 'error'. *)
StatusOf(o) == IF o = "compile_error" THEN "error" ELSE "completed"

RowExists(s) == status[s] # "absent"

(* An UPDATE ... WHERE id = s that sets the status, a no-op without the row. *)
SetStatus(s, new) ==
  status' = IF RowExists(s) THEN [status EXCEPT ![s] = new] ELSE status

Strike(kind) ==
  /\ kind \in FaultKinds
  /\ Len(faults) < MaxFaults
  /\ faults' = Append(faults, kind)

Struck(kind) == \E n \in 1 .. Len(faults) : faults[n] = kind

FaultHistory == faults \in Seq(FaultKinds) /\ Len(faults) <= MaxFaults

TypeOK ==
  /\ status \in [Submissions -> {"absent", "queued", "running"} \cup Settled]
  /\ result \in [Submissions -> Outcomes \cup {"none"}]
  /\ request \in [Submissions ->
        {"idle", "enqueueing", "catch", "accepted", "refused", "lost"}]
  /\ command \in [Submissions -> {"none", "pending", "applied", "void"}]
  /\ job \in [Submissions -> {"none", "waiting", "active", "completed", "failed"}]
  /\ holder \in [Submissions -> Slots \cup {NoSlot}]
  /\ stalls \in [Submissions -> 0 .. (MaxStalls + 1)]
  /\ returnvalue \in [Submissions -> Outcomes \cup {"none"}]
  /\ on \in [Slots -> Submissions \cup {NoSub}]
  /\ pc \in [Slots -> Steps \cup {"idle"}]
  /\ out \in [Slots -> Outcomes \cup {"none"}]
  /\ proc \in [Workers -> {"up", "closing", "down"}]
  /\ pendingError \subseteq Workers \X Submissions
  /\ FaultHistory

Init ==
  /\ status = [s \in Submissions |-> "absent"]
  /\ result = [s \in Submissions |-> "none"]
  /\ request = [s \in Submissions |-> "idle"]
  /\ command = [s \in Submissions |-> "none"]
  /\ job = [s \in Submissions |-> "none"]
  /\ holder = [s \in Submissions |-> NoSlot]
  /\ stalls = [s \in Submissions |-> 0]
  /\ returnvalue = [s \in Submissions |-> "none"]
  /\ on = [k \in Slots |-> NoSub]
  /\ pc = [k \in Slots |-> "idle"]
  /\ out = [k \in Slots |-> "none"]
  /\ proc = [w \in Workers |-> "up"]
  /\ pendingError = {}
  /\ faults = <<>>

-----------------------------------------------------------------------------
(***************************************************************************)
(* The API process: POST /api/submissions and enqueueGrading.              *)
(***************************************************************************)

(* Mutant: the INSERT leaves status to the column's default (schema.sql:218). *)
InsertDefault(s) ==
  /\ request[s] = "idle"
  /\ status' = [status EXCEPT ![s] = "completed"]
  /\ request' = [request EXCEPT ![s] = "enqueueing"]
  /\ command' = [command EXCEPT ![s] = "pending"]
  /\ UNCHANGED <<result, queueVars, workerVars, faults>>

(* The INSERT commits and, in the same turn of the event loop, add() is    *)
(* handed to ioredis, which sends it whenever Redis is reachable.          *)
Insert(s) ==
  /\ request[s] = "idle"
  /\ status' = [status EXCEPT ![s] = "queued"]
  /\ request' = [request EXCEPT ![s] = "enqueueing"]
  /\ command' = [command EXCEPT ![s] = "pending"]
  /\ UNCHANGED <<result, queueVars, workerVars, faults>>

(* Redis runs the add, whether or not the handler is still waiting for it. *)
AddApplied(s) ==
  /\ command[s] = "pending"
  /\ command' = [command EXCEPT ![s] = "applied"]
  /\ job' = [job EXCEPT ![s] = "waiting"]
  /\ UNCHANGED <<rowVars, request, holder, stalls, returnvalue, workerVars, faults>>

(* 202 Accepted. *)
Accept(s) ==
  /\ request[s] = "enqueueing"
  /\ command[s] = "applied"
  /\ request' = [request EXCEPT ![s] = "accepted"]
  /\ UNCHANGED <<rowVars, command, queueVars, workerVars, faults>>

(* Promise.race is won by the timer; the add itself is not withdrawn. *)
EnqueueTimeout(s) ==
  /\ request[s] = "enqueueing"
  /\ Strike("timeout")
  /\ request' = [request EXCEPT ![s] = "catch"]
  /\ UNCHANGED <<rowVars, command, queueVars, workerVars>>

AddRejected(s) ==
  /\ command[s] = "pending"
  /\ Strike("redis")
  /\ command' = [command EXCEPT ![s] = "void"]
  /\ request' = [request EXCEPT ![s] = IF @ = "enqueueing" THEN "catch" ELSE @]
  /\ UNCHANGED <<rowVars, queueVars, workerVars>>

(* The catch branch: UPDATE ... 'error', its own failure swallowed, then 503. *)
Refuse(s) ==
  /\ request[s] = "catch"
  /\ request' = [request EXCEPT ![s] = "refused"]
  /\ \/ SetStatus(s, "error") /\ UNCHANGED faults
     \/ Strike("db") /\ UNCHANGED status
  /\ UNCHANGED <<result, command, queueVars, workerVars>>

(* The API dies, with its open requests and its unsent commands. *)
ApiDies ==
  /\ Strike("api")
  /\ request' = [s \in Submissions |->
                   IF request[s] \in {"enqueueing", "catch"} THEN "lost" ELSE request[s]]
  /\ command' = [s \in Submissions |->
                   IF command[s] = "pending" THEN "void" ELSE command[s]]
  /\ apiVars' # apiVars
  /\ UNCHANGED <<rowVars, queueVars, workerVars>>

(* DELETE /api/problems/:id and the like remove the row by CASCADE. *)
RowDeleted(s) ==
  /\ RowExists(s)
  /\ Strike("delete")
  /\ status' = [status EXCEPT ![s] = "absent"]
  /\ result' = [result EXCEPT ![s] = "none"]
  /\ UNCHANGED <<apiVars, queueVars, workerVars>>

-----------------------------------------------------------------------------
(***************************************************************************)
(* A worker's slot: BullMQ's processing loop around gradeSubmission.       *)
(***************************************************************************)

(* Mutant: the lock is not renewed (skipLockRenewal), so it is soon gone. *)
FetchUnrenewed(k, s) ==
  /\ proc[WorkerOf[k]] = "up"
  /\ on[k] = NoSub
  /\ job[s] = "waiting"
  /\ job' = [job EXCEPT ![s] = "active"]
  /\ on' = [on EXCEPT ![k] = s]
  /\ pc' = [pc EXCEPT ![k] = IF stalls[s] > MaxStalls THEN "threw" ELSE "marking"]
  /\ UNCHANGED <<rowVars, apiVars, holder, stalls, returnvalue, out, proc, pendingError,
                 faults>>

(* BullMQ hands a waiting job, locked, to an idle slot.  A job that has    *)
(* stalled too often is handed over only to be failed.                     *)
Fetch(k, s) ==
  /\ proc[WorkerOf[k]] = "up"
  /\ on[k] = NoSub
  /\ job[s] = "waiting"
  /\ job' = [job EXCEPT ![s] = "active"]
  /\ holder' = [holder EXCEPT ![s] = k]
  /\ on' = [on EXCEPT ![k] = s]
  /\ pc' = [pc EXCEPT ![k] = IF stalls[s] > MaxStalls THEN "threw" ELSE "marking"]
  /\ UNCHANGED <<rowVars, apiVars, stalls, returnvalue, out, proc, pendingError, faults>>

Step(k, from, to) ==
  /\ pc[k] = from
  /\ pc' = [pc EXCEPT ![k] = to]

(* UPDATE ... SET status = 'running', whatever the status was. *)
MarkRunning(k) ==
  /\ Step(k, "marking", "reading")
  /\ SetStatus(on[k], "running")
  /\ UNCHANGED <<result, apiVars, queueVars, on, out, proc, pendingError, faults>>

(* SELECT the row, its test cases and its problem; a missing row throws. *)
ReadRow(k) ==
  /\ Step(k, "reading", IF RowExists(on[k]) THEN "grading" ELSE "threw")
  /\ UNCHANGED <<rowVars, apiVars, queueVars, on, out, proc, pendingError, faults>>

(* runTestCases. *)
Grade(k) ==
  /\ Step(k, "grading", "saving")
  /\ \E o \in Outcomes : out' = [out EXCEPT ![k] = o]
  /\ UNCHANGED <<rowVars, apiVars, queueVars, on, proc, pendingError, faults>>

(* Mutant: a compile error is stored as 'completed'. *)
SaveCompleted(k) ==
  /\ Step(k, "saving", "reporting")
  /\ SetStatus(on[k], "completed")
  /\ result' = IF RowExists(on[k]) THEN [result EXCEPT ![on[k]] = out[k]] ELSE result
  /\ UNCHANGED <<apiVars, queueVars, on, out, proc, pendingError, faults>>

(* The final UPDATE: status, counts, results_json, verdict and weights. *)
Save(k) ==
  /\ Step(k, "saving", "reporting")
  /\ SetStatus(on[k], StatusOf(out[k]))
  /\ result' = IF RowExists(on[k]) THEN [result EXCEPT ![on[k]] = out[k]] ELSE result
  /\ UNCHANGED <<apiVars, queueVars, on, out, proc, pendingError, faults>>

FreeSlot(k) ==
  /\ on' = [on EXCEPT ![k] = NoSub]
  /\ pc' = [pc EXCEPT ![k] = "idle"]
  /\ out' = [out EXCEPT ![k] = "none"]

(* moveToCompleted with the return value, refused unless the slot still    *)
(* holds the lock; the refusal is an 'error' event that changes nothing.   *)
Complete(k) ==
  /\ pc[k] = "reporting"
  /\ IF holder[on[k]] = k
     THEN /\ job' = [job EXCEPT ![on[k]] = "completed"]
          /\ holder' = [holder EXCEPT ![on[k]] = NoSlot]
          /\ returnvalue' = [returnvalue EXCEPT ![on[k]] = out[k]]
     ELSE UNCHANGED <<job, holder, returnvalue>>
  /\ FreeSlot(k)
  /\ UNCHANGED <<rowVars, apiVars, stalls, proc, pendingError, faults>>

(* Mutant: the code after the final UPDATE can throw as well. *)
ThrowLate(k) ==
  /\ pc[k] \in {"marking", "reading", "grading", "saving", "reporting"}
  /\ Strike("throw")
  /\ pc' = [pc EXCEPT ![k] = "threw"]
  /\ UNCHANGED <<rowVars, apiVars, queueVars, on, out, proc, pendingError>>

(* A rejected query or a failing sandbox, anywhere before the final UPDATE. *)
Throw(k) ==
  /\ pc[k] \in {"marking", "reading", "grading", "saving"}
  /\ Strike("throw")
  /\ pc' = [pc EXCEPT ![k] = "threw"]
  /\ UNCHANGED <<rowVars, apiVars, queueVars, on, out, proc, pendingError>>

(* Mutant: the job is retried (attempts > 1), 'failed' firing each time. *)
ReportFailureRetried(k) ==
  /\ pc[k] = "threw"
  /\ IF holder[on[k]] = k
     THEN /\ job' = [job EXCEPT ![on[k]] = "waiting"]
          /\ holder' = [holder EXCEPT ![on[k]] = NoSlot]
          /\ pendingError' = pendingError \cup {<<WorkerOf[k], on[k]>>}
     ELSE UNCHANGED <<job, holder, pendingError>>
  /\ FreeSlot(k)
  /\ UNCHANGED <<rowVars, apiVars, stalls, returnvalue, proc, faults>>

(* Mutant: no 'failed' handler. *)
ReportFailureSilently(k) ==
  /\ pc[k] = "threw"
  /\ IF holder[on[k]] = k
     THEN /\ job' = [job EXCEPT ![on[k]] = "failed"]
          /\ holder' = [holder EXCEPT ![on[k]] = NoSlot]
     ELSE UNCHANGED <<job, holder>>
  /\ FreeSlot(k)
  /\ UNCHANGED <<rowVars, apiVars, stalls, returnvalue, proc, pendingError, faults>>

(* moveToFailed (attempts = 1, so no retry) and the 'failed' event, both    *)
(* only for the lock holder; the handler's UPDATE is on its way.           *)
ReportFailure(k) ==
  /\ pc[k] = "threw"
  /\ IF holder[on[k]] = k
     THEN /\ job' = [job EXCEPT ![on[k]] = "failed"]
          /\ holder' = [holder EXCEPT ![on[k]] = NoSlot]
          /\ pendingError' = pendingError \cup {<<WorkerOf[k], on[k]>>}
     ELSE UNCHANGED <<job, holder, pendingError>>
  /\ FreeSlot(k)
  /\ UNCHANGED <<rowVars, apiVars, stalls, returnvalue, proc, faults>>

(* worker.on('failed'): mark the row, swallowing a failure to do so. *)
FailedHandler(w, s) ==
  /\ <<w, s>> \in pendingError
  /\ pendingError' = pendingError \ {<<w, s>>}
  /\ \/ SetStatus(s, "error") /\ UNCHANGED faults
     \/ Strike("db") /\ UNCHANGED status
  /\ UNCHANGED <<result, apiVars, queueVars, slotVars, proc>>

-----------------------------------------------------------------------------
(***************************************************************************)
(* BullMQ's lock and stalled-job check.                                    *)
(***************************************************************************)

(* The lock is renewed while its slot works on the job; it runs out once   *)
(* that slot is gone, or when a live worker fails to renew it in time.     *)
LockLapses(s) ==
  /\ holder[s] # NoSlot
  /\ \/ on[holder[s]] # s /\ UNCHANGED faults
     \/ on[holder[s]] = s /\ Strike("lock")
  /\ holder' = [holder EXCEPT ![s] = NoSlot]
  /\ UNCHANGED <<rowVars, apiVars, job, stalls, returnvalue, workerVars>>

(* Any live worker's check returns an active job without a lock to the     *)
(* queue, counting how often; over the limit it is failed by its next slot. *)
StalledCheck(s) ==
  /\ \E w \in Workers : proc[w] = "up"
  /\ job[s] = "active"
  /\ holder[s] = NoSlot
  /\ job' = [job EXCEPT ![s] = "waiting"]
  /\ stalls' = [stalls EXCEPT ![s] = IF @ > MaxStalls THEN @ ELSE @ + 1]
  /\ UNCHANGED <<rowVars, apiVars, holder, returnvalue, workerVars, faults>>

-----------------------------------------------------------------------------
(***************************************************************************)
(* Worker processes: shutdown, death and restart.                          *)
(***************************************************************************)

SlotsOf(w) == {k \in Slots : WorkerOf[k] = w}

(* SIGTERM: worker.close() takes no new job and waits for the ones in hand. *)
Sigterm(w) ==
  /\ proc[w] = "up"
  /\ Strike("sigterm")
  /\ proc' = [proc EXCEPT ![w] = "closing"]
  /\ UNCHANGED <<rowVars, apiVars, queueVars, slotVars, pendingError>>

(* Mutant: shutdown exits without waiting for pool.end(). *)
ExitUndrained(w) ==
  /\ proc[w] = "closing"
  /\ \A k \in SlotsOf(w) : on[k] = NoSub
  /\ proc' = [proc EXCEPT ![w] = "down"]
  /\ pendingError' = {e \in pendingError : e[1] # w}
  /\ UNCHANGED <<rowVars, apiVars, queueVars, slotVars, faults>>

(* worker.close() and pool.end() have resolved. *)
Exit(w) ==
  /\ proc[w] = "closing"
  /\ \A k \in SlotsOf(w) : on[k] = NoSub
  /\ \A s \in Submissions : <<w, s>> \notin pendingError
  /\ proc' = [proc EXCEPT ![w] = "down"]
  /\ UNCHANGED <<rowVars, apiVars, queueVars, slotVars, pendingError, faults>>

(* The 30 s timer of shutdown(), or a sudden death: gradings and pending   *)
(* handlers are gone, their locks are left behind in Redis.                *)
Die(w) ==
  /\ \/ proc[w] = "closing" /\ Strike("force")
     \/ proc[w] # "down" /\ Strike("kill")
  /\ proc' = [proc EXCEPT ![w] = "down"]
  /\ on' = [k \in Slots |-> IF WorkerOf[k] = w THEN NoSub ELSE on[k]]
  /\ pc' = [k \in Slots |-> IF WorkerOf[k] = w THEN "idle" ELSE pc[k]]
  /\ out' = [k \in Slots |-> IF WorkerOf[k] = w THEN "none" ELSE out[k]]
  /\ pendingError' = {e \in pendingError : e[1] # w}
  /\ UNCHANGED <<rowVars, apiVars, queueVars>>

(* The pool, or the service manager, starts the process again. *)
Restart(w) ==
  /\ proc[w] = "down"
  /\ proc' = [proc EXCEPT ![w] = "up"]
  /\ UNCHANGED <<rowVars, apiVars, queueVars, slotVars, pendingError, faults>>

-----------------------------------------------------------------------------
Request(s) == Insert(s) \/ AddApplied(s) \/ Accept(s) \/ EnqueueTimeout(s)
                \/ AddRejected(s) \/ Refuse(s) \/ RowDeleted(s)

GradeStep(k) == MarkRunning(k) \/ ReadRow(k) \/ Grade(k) \/ Save(k) \/ Complete(k)
                  \/ Throw(k) \/ ReportFailure(k)

Queue(s) == LockLapses(s) \/ StalledCheck(s)

Process(w) == Sigterm(w) \/ Exit(w) \/ Die(w) \/ Restart(w)

Next ==
  \/ \E s \in Submissions : Request(s) \/ Queue(s)
  \/ ApiDies
  \/ \E k \in Slots, s \in Submissions : Fetch(k, s)
  \/ \E k \in Slots : GradeStep(k)
  \/ \E w \in Workers, s \in Submissions : FailedHandler(w, s)
  \/ \E w \in Workers : Process(w)

Spec == Init /\ [][Next]_vars

(* What the processes, Redis and the service manager keep doing: every      *)
(* await resolves, Redis comes back, an abandoned lock expires (30 s), the  *)
(* stalled check recurs (30 s), a stopped worker is started again.          *)
Fairness ==
  /\ \A s \in Submissions :
       /\ WF_vars(AddApplied(s))
       /\ WF_vars(Accept(s))
       /\ WF_vars(Refuse(s))
       /\ WF_vars(\E k \in Slots : Fetch(k, s))
       /\ WF_vars(LockLapses(s) /\ UNCHANGED faults)
       /\ WF_vars(StalledCheck(s))
  /\ \A k \in Slots : WF_vars(GradeStep(k) /\ UNCHANGED faults)
  /\ \A w \in Workers, s \in Submissions : WF_vars(FailedHandler(w, s))
  /\ \A w \in Workers : WF_vars(Exit(w)) /\ WF_vars(Restart(w))

FairSpec == Spec /\ Fairness

-----------------------------------------------------------------------------
(***************************************************************************)
(* Properties.  Each names the kinds of fault, if any, that end what it    *)
(* promises; all others may strike at any step.                            *)
(***************************************************************************)

KeepsResult(s) ==
  status[s] = "completed" /\ status'[s] # "completed" =>
    status'[s] = "absent" \/ request[s] = "catch" \/ stalls[s] > 0

(* Every kind of fault.  gradeSubmission and the handlers write the status *)
(* without looking at it (worker.js:64, :120, :177, submissions.routes     *)
(* :129), yet a 'completed' row loses that status only by deletion, by the *)
(* catch branch of a timed-out enqueue, or once the queue has delivered    *)
(* its job a second time.                                                  *)
ResultIsFinal == [][\A s \in Submissions : KeepsResult(s)]_vars

(* A slot works on a submission exactly while it is between two awaits of   *)
(* gradeSubmission: nothing is left in hand by an exit or a killed process. *)
SlotInv == \A k \in Slots : on[k] = NoSub <=> pc[k] = "idle"

(* A lock left by any exit, death or report belongs to a job still active.  *)
LockInv == \A s \in Submissions : holder[s] # NoSlot => job[s] = "active"

(* Why ResultIsFinal holds.  A job exists only if its add() was applied,    *)
(* and until it has stalled it has had one delivery: at most one slot is    *)
(* on it, the job is still active while that slot is, nobody but that slot, *)
(* having saved, has made the row 'completed', and the 'failed' handler     *)
(* runs only for a row that is not.                                        *)
SubmittedOnce(s) ==
  /\ request[s] = "idle" => command[s] = "none"
  /\ command[s] # "applied" => job[s] = "none"

FirstDelivery(s) ==
  /\ job[s] \in {"none", "waiting"} => status[s] # "completed"
  /\ \A k \in Slots : on[k] = s =>
       /\ job[s] = "active"
       /\ pc[k] # "reporting" => status[s] # "completed"
  /\ \A k1, k2 \in Slots : on[k1] = s /\ on[k2] = s => k1 = k2
  /\ \A w \in Workers : <<w, s>> \in pendingError =>
       job[s] = "failed" /\ status[s] # "completed"

DeliveryInv ==
  /\ SlotInv
  /\ LockInv
  /\ \A s \in Submissions : SubmittedOnce(s) /\ (stalls[s] = 0 => FirstDelivery(s))

(* Until a live worker loses a lock: processes may be killed at any step   *)
(* and the job redelivered, but two slots never grade one submission at a  *)
(* time, since a lock is renewed as long as its slot lives.                *)
SoleGrader ==
  ~Struck("lock") =>
    \A k1, k2 \in Slots : on[k1] = on[k2] /\ on[k1] # NoSub => k1 = k2

(* Until a lock is lost or an enqueue times out: what a finished job's      *)
(* event announces over the WebSocket (the return value, worker.js:148-160) *)
(* is what the row holds from then on, for the poll of GET /:id to find.   *)
AnnouncedIsStored ==
  ~Struck("lock") /\ ~Struck("timeout") =>
    \A s \in Submissions : job[s] = "completed" /\ RowExists(s) =>
      result[s] = returnvalue[s] /\ status[s] = StatusOf(returnvalue[s])

(* Until an UPDATE is lost, a lock is, or a process does not live to send   *)
(* it: a failed job's row says 'error', or the handler that will say so is *)
(* still to run, through any number of graceful stops of the workers.      *)
FailureIsRecorded ==
  (\A kind \in {"db", "force", "kill", "lock"} : ~Struck(kind)) =>
    \A s \in Submissions : job[s] = "failed" /\ RowExists(s) =>
      \/ status[s] = "error"
      \/ \E w \in Workers : <<w, s>> \in pendingError /\ proc[w] # "down"

(* Until a process is cut short, a lock is lost or an enqueue times out,   *)
(* the row follows the promise of SubmissionLifecycle.                     *)
Lifecycle == INSTANCE SubmissionLifecycle
  WITH disturbed <- \E kind \in {"force", "kill", "lock", "timeout"} : Struck(kind)
FollowsLifecycle == Lifecycle!Spec

(* Processes cut short, by any number of restarts and deaths.              *)
Cut == {n \in 1 .. Len(faults) : faults[n] \in {"force", "kill"}}

(* The UPDATE that would settle a row can be lost for good: its failure is *)
(* swallowed, or its process dies between the 'failed' event and the        *)
(* UPDATE, which takes a failure first, thrown or for stalling too often.  *)
(* A slot that has lost its lock may mark a settled row 'running' again.   *)
Unrecorded ==
  \/ Struck("db") \/ Struck("lock")
  \/ Struck("throw") /\ Cut # {}
  \/ Cardinality(Cut) > MaxStalls + 1

(* Liveness, under FairSpec: a submission answered with 202 ends up, and   *)
(* stays, graded or marked as failed, whatever strikes short of that.      *)
AcceptedSettles ==
  \A s \in Submissions :
    request[s] = "accepted" ~> [](status[s] \in Settled \cup {"absent"}) \/ Unrecorded

(* backend/README.md:107: "a restart never strands a submission in the     *)
(* `running` state".                                                       *)
RestartNeverStrands ==
  \A s \in Submissions : status[s] = "running" ~> status[s] # "running"
=============================================================================
