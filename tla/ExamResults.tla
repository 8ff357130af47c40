---------------------------- MODULE ExamResults ----------------------------
(***************************************************************************)
(* The mark of one student on one problem of one exam: which submissions   *)
(* are taken in time, taken late at a price, or refused (isWindowOpen and  *)
(* POST /submissions), what the worker's verdicts on them earn, and what   *)
(* the results table makes of them (GET /exams/:id/results), while the     *)
(* teacher reschedules the exam, grants extra time, changes the test cases *)
(* and overrides the mark.  Every query is a step of its own; who may see  *)
(* the exam and which problems were dealt is ExamSession's.                *)
(***************************************************************************)
EXTENDS Integers, Sequences, FiniteSets, FiniteSetsExt

CONSTANTS
  Requests,    \* the student's submissions
  Horizon,     \* bound: minutes on the clock
  Schedules,   \* the schedules the teacher saves
  Extras,      \* the minutes of extra time the teacher grants; 0 takes it away
  Cases,       \* test cases the problem has at one time or another
  Weight,      \* what each of them is worth
  Overrides,   \* the marks the teacher enters by hand
  MaxEdits,    \* bound: the teacher's edits, of all kinds
  DoublesAbove \* see Penalised

ASSUME ResultsAssumption ==
  /\ Horizon \in Nat /\ MaxEdits \in Nat /\ Extras \subseteq Nat
  /\ Schedules # {}
  /\ \A x \in Schedules :
       /\ x.start \in Nat /\ x.end \in Nat /\ x.window \in Nat
       /\ x.start < x.end /\ x.penalty \in 0 .. 100
  /\ IsFiniteSet(Cases) /\ Weight \in [Cases -> Nat]
  /\ \A m \in Overrides : m.score \in Nat /\ m.max \in Nat \ {0}
  /\ \A d \in DoublesAbove : d[1] > 0 /\ d[2] > 0 /\ (d[1] * (100 - d[2])) % 100 = 0

VARIABLES
  now,       \* the clock, in minutes
  exam,      \* the exam's row
  extra,     \* exam_accommodations.extra_minutes, 0 without a row
  cases,     \* the problem's test cases
  pc,        \* where the handler of each submission is
  at,        \* the `now` it took
  seen,      \* the exam's row and extra time as its first query found them;
             \* the code keeps start, window and penalty, the rest is history
  verdict,   \* what the handler has learnt for the row: late, penalty, test cases
  attempts,  \* the student's rows of submissions, by submitted_at
  override,  \* the exam_grade_overrides row, or None
  edits,     \* edits made
  met        \* history: requests an edit fell into between their two queries

handling == <<pc, at, seen, verdict>>
vars == <<now, exam, extra, cases, pc, at, seen, verdict, attempts, override, edits, met>>

None == [score |-> 0, max |-> 0]

(***************************************************************************)
(* The results table                                                       *)
(***************************************************************************)

Total(S) == MapThenSumSet(LAMBDA c : Weight[c], S)

(* ORDER BY passed_count DESC, submitted_at ASC: the first of the attempts *)
(* that pass the most test cases.                                          *)
Best(as) ==
  CHOOSE i \in DOMAIN as : \A j \in DOMAIN as :
    \/ as[i].passed > as[j].passed
    \/ as[i].passed = as[j].passed /\ i <= j

(* A total weight of NULL, of a row not graded, is 0 here: both are told   *)
(* apart from a weighted mark by the same comparison.                      *)
AutoScore(as) ==
  LET best == as[Best(as)] IN
    IF best.total > 0
      THEN [score |-> best.earned, max |-> best.total]
      ELSE [score |-> Max({as[i].passed : i \in DOMAIN as}), max |-> Max({as[i].count : i \in DOMAIN as})]

(* Mutant: Math.floor. *)
PenalisedDown(score, penalty) == (score * (100 - penalty)) \div 100

(* Math.ceil(score * (1 - penalty / 100)) in doubles: where the product    *)
(* should be a whole number it may come out just above it (never below,    *)
(* for the scores there can be), as 10 * (1 - 70 / 100) does: the pairs    *)
(* for which it does are in DoublesAbove.                                  *)
Penalised(score, penalty) ==
  (score * (100 - penalty) + 99) \div 100 + (IF <<score, penalty>> \in DoublesAbove THEN 1 ELSE 0)

(* Mutant: the exam's penalty looked up when the table is read. *)
PenaltyNow(attempt) == IF attempt.late THEN exam.penalty ELSE 0

(* The penalty of the row, if it is late *)
PenaltyOf(attempt) == IF attempt.late THEN attempt.penalty ELSE 0

(* final_score and final_max of the student's row *)
Final(as) ==
  IF override # None
    THEN override
    ELSE [score |-> Penalised(AutoScore(as).score, PenaltyOf(as[Best(as)])), max |-> AutoScore(as).max]

(***************************************************************************)
(* A submission's request                                                  *)
(***************************************************************************)

(* isWindowOpen's first query, and what it makes of the answer *)
ReadWindow(r) ==
  /\ pc[r] = "idle"
  /\ at' = [at EXCEPT ![r] = now]
  /\ seen' = [seen EXCEPT ![r] = [exam |-> exam, extra |-> extra]]
  /\ pc' = [pc EXCEPT ![r] = IF now < exam.start THEN "refused" ELSE "window"]
  /\ UNCHANGED <<now, exam, extra, cases, verdict, attempts, override, edits, met>>

OnTime == [late |-> FALSE, penalty |-> 0, count |-> 0]

(* Mutant: the late window measured from the exam's nominal end. *)
GraceEndsNominal(end, window) == exam.end + window

(* How long after `end` a submission is taken, and at what price *)
GraceEnds(end, window) == end + window

(* effectiveEndTime's query, and the rest of isWindowOpen *)
ReadDeadline(r) ==
  /\ pc[r] = "window"
  /\ LET end    == exam.end + extra
         window == seen[r].exam.window
         late   == at[r] > end
         taken  == ~late \/ (window > 0 /\ at[r] <= GraceEnds(end, window)) IN
       /\ pc' = [pc EXCEPT ![r] = IF taken THEN "open" ELSE "refused"]
       /\ verdict' = IF taken /\ late
            THEN [verdict EXCEPT ![r] = [late |-> TRUE, penalty |-> seen[r].exam.penalty, count |-> 0]]
            ELSE verdict
  /\ UNCHANGED <<now, exam, extra, cases, at, seen, attempts, override, edits, met>>

(* The query for the test cases, without which nothing is taken *)
CountCases(r) ==
  /\ pc[r] = "open"
  /\ pc' = [pc EXCEPT ![r] = IF cases = {} THEN "untested" ELSE "counted"]
  /\ verdict' = [verdict EXCEPT ![r].count = Cardinality(cases)]
  /\ UNCHANGED <<now, exam, extra, cases, at, seen, attempts, override, edits, met>>

(* The row as it is inserted *)
Queued(r) ==
  [of |-> r, stage |-> "queued", tests |-> {}, late |-> verdict[r].late, penalty |-> verdict[r].penalty,
   passed |-> 0, count |-> verdict[r].count, earned |-> 0, total |-> 0]

(* Mutant: an INSERT whose answer was lost is tried again. *)
StoreAgain(r) ==
  /\ pc[r] \in {"counted", "stored"} /\ Len(attempts) < 2
  /\ pc' = [pc EXCEPT ![r] = "stored"] /\ attempts' = Append(attempts, Queued(r))
  /\ UNCHANGED <<now, exam, extra, cases, at, seen, verdict, override, edits, met>>

(* The INSERT *)
Store(r) ==
  /\ pc[r] = "counted"
  /\ pc' = [pc EXCEPT ![r] = "stored"] /\ attempts' = Append(attempts, Queued(r))
  /\ UNCHANGED <<now, exam, extra, cases, at, seen, verdict, override, edits, met>>

(* The worker reads the test cases it is going to run. *)
Load(i) ==
  /\ attempts[i].stage = "queued"
  /\ attempts' = [attempts EXCEPT ![i] = [@ EXCEPT !.stage = "grading", !.tests = cases]]
  /\ UNCHANGED <<now, exam, extra, cases, handling, override, edits, met>>

(* Its UPDATE: which of them pass, none if the code does not compile.  A   *)
(* grading that fails leaves the row's counts as they were inserted, as    *)
(* does one that never comes to an end.                                    *)
Save(i) ==
  /\ attempts[i].stage = "grading"
  /\ \E right \in SUBSET attempts[i].tests :
       attempts' = [attempts EXCEPT ![i] = [@ EXCEPT
         !.stage = "graded",
         !.passed = Cardinality(right), !.count = Cardinality(attempts[i].tests),
         !.earned = Total(right), !.total = Total(attempts[i].tests)]]
  /\ UNCHANGED <<now, exam, extra, cases, handling, override, edits, met>>

(***************************************************************************)
(* The teacher, and time                                                   *)
(***************************************************************************)

Edit == edits < MaxEdits /\ edits' = edits + 1
Meet == met' = met \cup {r \in Requests : pc[r] = "window"}

(* PUT /exams/:id *)
PutExam(x) ==
  /\ Edit /\ Meet /\ exam' = x
  /\ UNCHANGED <<now, extra, cases, handling, attempts, override>>

(* PUT /exams/:id/accommodations/:userId *)
Accommodate(minutes) ==
  /\ Edit /\ Meet /\ extra' = minutes
  /\ UNCHANGED <<now, exam, cases, handling, attempts, override>>

(* POST and DELETE of a test case *)
AddCase(c) ==
  /\ Edit /\ c \notin cases /\ cases' = cases \cup {c}
  /\ UNCHANGED <<now, exam, extra, handling, attempts, override, met>>

DeleteCase(c) ==
  /\ Edit /\ c \in cases /\ cases' = cases \ {c}
  /\ UNCHANGED <<now, exam, extra, handling, attempts, override, met>>

(* PUT and DELETE /exams/:id/grades/:userId/:problemId *)
PutGrade(m) ==
  /\ Edit /\ m.score <= m.max /\ override' = m
  /\ UNCHANGED <<now, exam, extra, cases, handling, attempts, met>>

DeleteGrade ==
  /\ Edit /\ override # None /\ override' = None
  /\ UNCHANGED <<now, exam, extra, cases, handling, attempts, met>>

Tick ==
  /\ now < Horizon /\ now' = now + 1
  /\ UNCHANGED <<exam, extra, cases, handling, attempts, override, edits, met>>

(***************************************************************************)
(* The specification                                                       *)
(***************************************************************************)

Init ==
  /\ now = 0 /\ exam \in Schedules /\ extra = 0
  /\ cases \in SUBSET Cases \ {{}}
  /\ pc = [r \in Requests |-> "idle"]
  /\ at = [r \in Requests |-> 0]
  /\ seen = [r \in Requests |-> [exam |-> exam, extra |-> 0]]
  /\ verdict = [r \in Requests |-> OnTime]
  /\ attempts = <<>> /\ override = None
  /\ edits = 0 /\ met = {}

Next ==
  \/ \E r \in Requests : ReadWindow(r) \/ ReadDeadline(r) \/ CountCases(r) \/ Store(r)
  \/ \E i \in DOMAIN attempts : Load(i) \/ Save(i)
  \/ \E x \in Schedules : PutExam(x)
  \/ \E minutes \in Extras : Accommodate(minutes)
  \/ \E c \in Cases : AddCase(c) \/ DeleteCase(c)
  \/ \E m \in Overrides : PutGrade(m)
  \/ DeleteGrade
  \/ Tick

Spec == Init /\ [][Next]_vars

(***************************************************************************)
(* Properties                                                              *)
(***************************************************************************)

AttemptType ==
  [of : Requests, stage : {"queued", "grading", "graded"}, tests : SUBSET Cases,
   late : BOOLEAN, penalty : 0 .. 100, passed : Nat, count : Nat, earned : Nat, total : Nat]

(* Every variable has its type; one row at most for each request.          *)
ResultsTypeOK ==
  /\ now \in 0 .. Horizon /\ exam \in Schedules /\ extra \in Extras \cup {0}
  /\ cases \subseteq Cases
  /\ pc \in [Requests -> {"idle", "window", "open", "refused", "untested", "counted", "stored"}]
  /\ at \in [Requests -> 0 .. Horizon]
  /\ seen \in [Requests -> [exam : Schedules, extra : Extras \cup {0}]]
  /\ verdict \in [Requests -> [late : BOOLEAN, penalty : 0 .. 100, count : Nat]]
  /\ attempts \in Seq(AttemptType)
  /\ \A r \in Requests :
       Cardinality({i \in DOMAIN attempts : attempts[i].of = r}) = IF pc[r] = "stored" THEN 1 ELSE 0
  /\ override \in Overrides \cup {None}
  /\ edits \in 0 .. MaxEdits /\ met \subseteq Requests

(* A submission is refused exactly if it came before the start or after    *)
(* the student's own deadline and the late window that follows it, and is  *)
(* stored as late, at the exam's price, exactly if it came in that window; *)
(* unless the teacher's edit fell between isWindowOpen's two queries, when *)
(* the window and price of the one schedule meet the end of the other.     *)
HeldToDeadline ==
  \A r \in Requests \ met :
    LET x        == seen[r].exam
        deadline == x.end + seen[r].extra IN
      /\ pc[r] = "refused" => at[r] \notin x.start .. deadline + x.window
      /\ \A i \in DOMAIN attempts : attempts[i].of = r =>
           /\ at[r] \in x.start .. deadline + x.window
           /\ attempts[i].late <=> at[r] > deadline
           /\ PenaltyOf(attempts[i]) = IF at[r] > deadline THEN x.penalty ELSE 0

(* The mark in the results table, where the student has a row *)
FinalScore == Final(attempts).score

(* schema.sql:225-229: "a grade cannot move because someone edited an      *)
(* accommodation or lowered the penalty": a score that is there moves only *)
(* when a submission is graded or the teacher overrides it or stops doing  *)
(* so, not with the exam, the extra time, the test cases, the clock or the *)
(* next submission.                                                        *)
GradesDoNotMove ==
  [][attempts # <<>> /\ FinalScore' # FinalScore =>
       \/ override' # override
       \/ \E i \in DOMAIN attempts : Save(i)]_vars

(* exams.routes.js:462: "a penalty never costs more than it says it does", *)
(* nor a mark less than that; and no mark is above its maximum.            *)
MarkIsFair ==
  attempts # <<>> =>
    LET mark == Final(attempts)
        auto == AutoScore(attempts).score
        kept == auto * (100 - PenaltyOf(attempts[Best(attempts)])) IN
      /\ mark.score <= mark.max
      /\ override = None =>
           mark.score <= auto /\ mark.score * 100 \in kept .. kept + 100

(* exams.routes.js:437-439: "a late resubmission does not retroactively    *)
(* dock an on-time answer": with the late submissions set aside, the       *)
(* student would not have had a better mark.                               *)
LateNeverDocks ==
  LET onTime == SelectSeq(attempts, LAMBDA a : ~a.late) IN
    onTime # <<>> => Final(attempts).score >= Final(onTime).score
=============================================================================
