------------------------ MODULE SubmissionLifecycle ------------------------
(***************************************************************************)
(* What a student watching a submission is promised until the system is    *)
(* disturbed, by a process that dies, a lock that is lost or an enqueue    *)
(* that times out: the row moves forward only, from 'queued' through       *)
(* 'running' to one final status, and a grading is recorded once, by the   *)
(* step that makes the status final.                                       *)
(***************************************************************************)
CONSTANT Submissions

VARIABLES
  status,  \* what GET /api/submissions/:id answers
  result,  \* the grading shown with it
  disturbed

Outcomes    == {"graded", "compile_error"}
StatusOf(o) == IF o = "compile_error" THEN "error" ELSE "completed"

Init ==
  /\ status = [s \in Submissions |-> "absent"]
  /\ result = [s \in Submissions |-> "none"]
  /\ disturbed = FALSE

Move(s, from, to) ==
  /\ status[s] \in from
  /\ status' = [status EXCEPT ![s] = to]

Submit(s) == Move(s, {"absent"}, "queued") /\ UNCHANGED result
Begin(s)  == Move(s, {"queued"}, "running") /\ UNCHANGED result
GiveUp(s) == Move(s, {"queued", "running"}, "error") /\ UNCHANGED result

Record(s, o) ==
  /\ Move(s, {"running"}, StatusOf(o))
  /\ result[s] = "none"
  /\ result' = [result EXCEPT ![s] = o]

Delete(s) ==
  /\ Move(s, {"queued", "running", "completed", "error"}, "absent")
  /\ result' = [result EXCEPT ![s] = "none"]

Advance == \E s \in Submissions :
  \/ Submit(s) \/ Begin(s) \/ GiveUp(s) \/ Delete(s)
  \/ \E o \in Outcomes : Record(s, o)

Next ==
  \/ Advance /\ ~disturbed /\ UNCHANGED disturbed
  \/ disturbed'

Spec == Init /\ [][Next]_<<status, result, disturbed>>
=============================================================================
