---------------------------- MODULE CourseAccess ----------------------------
(* Who may do what in one course: routes/courses.routes.js, problems.routes.js,
   the writing half of exams.routes.js and the checks of POST /submissions, all
   of them through services/courseAccess.service.js.

   Every handler reads before it writes, each query is a statement of its own
   and nothing is locked in between: a request is a record in "req" that has
   passed some of its checks and waits for the next query.  "open" says whether
   the course was open at any moment since the request arrived.  A request that
   fails its first check changes nothing and is not a step.

   The course has one exam.  Roles do not change: no route of src/ updates
   users.role. *)
EXTENDS Naturals, FiniteSets

CONSTANTS
  Owner, Assistants,   \* accounts with role 'teacher'; Owner is created_by
  Students,            \* accounts with role 'student'
  Problems,            \* the problems the course may come to have
  Idle,                \* a request slot that is free
  Slots,               \* requests the API serves at the same time
  MaxRequests,         \* bound: requests served in a behaviour
  MaxCodes,            \* bound: join codes the course has in a behaviour
  MaxCases             \* bound: test cases of a problem

Teachers == {Owner} \cup Assistants
Users    == Teachers \cup Students

(* An account has one role. *)
ASSUME RolesAssumption == Teachers \cap Students = {}

(* The first join code and a problem's first test case are within bounds. *)
ASSUME BoundsAssumption == MaxRequests \in Nat /\ MaxCodes \in Nat \ {0} /\ MaxCases \in Nat \ {0}

VARIABLES
  archived, staff, enrolled,  \* courses.archived, course_staff, enrollments
  code,                       \* courses.join_code, numbered in order of issue
  problems, gone,             \* problems, and the ids of deleted ones
  testCases,                  \* how many test cases each problem has
  sitting,                    \* the exam: "none", "scheduled" or "started"
  paper, roster,              \* exam_problems, exam_roster
  work,                       \* submissions, as <<user, problem>>
  req, served,                \* requests under way, and how many there were
  \* What the properties remember; no handler reads it.
  via,                        \* how each user was ever put in the course
  opened,                     \* the <<user, problem>> that could ever be read
  told,                       \* who has seen the current code
  barred                      \* out of the course when the code was replaced,
                              \* and neither told the new one nor imported since

tables     == <<archived, staff, enrolled, code, problems, gone, testCases, sitting, paper, roster, work>>
courseVars == <<tables, req, served, via, opened, told, barred>>

-----------------------------------------------------------------------------
(* The questions of courseAccess.service.js. *)

ownsCourse(u)    == u = Owner
teachesCourse(u) == u = Owner \/ (u \in Teachers /\ u \in staff)
courseScope(u)   == IF u \in Teachers THEN teachesCourse(u) ELSE u \in enrolled
examRoster(u)    == roster = {} \/ u \in roster
examGate(u, p)   == p \notin paper \/ (sitting = "started" /\ examRoster(u))
canAccessProblem(u, p) ==
  p \in problems /\ courseScope(u) /\ (u \in Teachers \/ examGate(u, p))
canAccessExam(u) ==
  sitting # "none" /\ courseScope(u) /\ (u \in Teachers \/ examRoster(u))

(* Mutant: enrolment not asked. *)
RosterNamesStudents(us) == us \subseteq Students

rosterNamesEnrolledStudents(us) == us \subseteq enrolled \cap Students

-----------------------------------------------------------------------------
(* Requests: a slot takes one that has passed its first check, moves it past
   the next, and is free again once it has written or been refused. *)

Opens(r, op, who, arg) ==
  /\ req[r] = Idle
  /\ served < MaxRequests
  /\ served' = served + 1
  /\ req' = [req EXCEPT ![r] = [op |-> op, who |-> who, arg |-> arg,
                                at |-> "checked", open |-> ~archived]]
  /\ UNCHANGED <<tables, via, told, barred>>

Waits(r, op, at) == req[r] # Idle /\ req[r].op = op /\ req[r].at = at

Advances(r, at) ==
  /\ req' = [req EXCEPT ![r].at = at]
  /\ UNCHANGED <<tables, served, via, told, barred>>

Answers(r) == req' = [req EXCEPT ![r] = Idle] /\ UNCHANGED served

Refused(r) == Answers(r) /\ UNCHANGED <<tables, via, told, barred>>

(* Mutant: not asked. *)
NeverAsksArchived(r, op, at) == Waits(r, op, "checked") /\ Advances(r, at)

(* courseIsArchived, the second query of the writes that ask it. *)
FindsOpen(r, op, at) ==
  /\ Waits(r, op, "checked")
  /\ IF archived THEN Refused(r) ELSE Advances(r, at)

Enrols(us, how) ==
  /\ enrolled' = enrolled \cup us
  /\ via' = [u \in Users |-> IF u \in us \ enrolled THEN via[u] \cup {how} ELSE via[u]]

-----------------------------------------------------------------------------
(* The course: PUT /courses/:id, its staff, its students and its code. *)

PutCourse(r) ==
  \/ \E a \in BOOLEAN : ownsCourse(Owner) /\ Opens(r, "course", Owner, a)
  \/ /\ Waits(r, "course", "checked")
     /\ archived' = req[r].arg
     /\ req' = [s \in Slots |->
                  IF s = r \/ req[s] = Idle THEN Idle
                  ELSE [req[s] EXCEPT !.open = @ \/ ~req[r].arg]]
     /\ UNCHANGED <<served, staff, enrolled, code, problems, gone, testCases, sitting, paper, roster, work, via, told, barred>>

(* POST /staff.  The address is looked up and its role, the enrolment and the
   owner are asked before the INSERT ... ON CONFLICT DO NOTHING. *)
AppointAsks(r) ==
  \E who \in Teachers, u \in Users : ownsCourse(who) /\ Opens(r, "appoint", who, u)

(* Mutant: the role not asked. *)
MayAssistUnlessEnrolled(u) == u \notin enrolled /\ u # Owner

MayAssist(u) == u \in Teachers /\ u \notin enrolled /\ u # Owner

AppointChecks(r) ==
  /\ Waits(r, "appoint", "checked")
  /\ IF MayAssist(req[r].arg) THEN Advances(r, "write") ELSE Refused(r)

AppointWrites(r) ==
  /\ Waits(r, "appoint", "write")
  /\ staff' = staff \cup {req[r].arg}
  /\ Answers(r)
  /\ UNCHANGED <<archived, enrolled, code, problems, gone, testCases, sitting, paper, roster, work, via, told, barred>>

StandDown(r) ==
  \/ \E u \in staff : ownsCourse(Owner) /\ Opens(r, "standdown", Owner, u)
  \/ /\ Waits(r, "standdown", "checked")
     /\ staff' = staff \ {req[r].arg}
     /\ Answers(r)
     /\ UNCHANGED <<archived, enrolled, code, problems, gone, testCases, sitting, paper, roster, work, via, told, barred>>

(* POST /roster/import: one INSERT per address whose account is a student's;
   a failure half-way leaves the rows written so far. *)
ImportAsks(r) ==
  \E who \in Teachers, us \in SUBSET Users \ {{}} :
    teachesCourse(who) /\ Opens(r, "import", who, us)

ImportChecks(r) == FindsOpen(r, "import", "write")

NotStudents(us) == us \ Students

ImportWrites(r) ==
  /\ Waits(r, "import", "write")
  /\ LET us == req[r].arg \ NotStudents(req[r].arg)
     IN  IF us = {}
         THEN Refused(r)
         ELSE \E u \in us :
                /\ Enrols({u}, "import")
                /\ barred' = barred \ {u}
                /\ req' = [req EXCEPT ![r].arg = us \ {u}]
                /\ UNCHANGED <<archived, staff, code, problems, gone, testCases, sitting, paper, roster, work, served, told>>

ImportFails(r) == Waits(r, "import", "write") /\ Refused(r)

(* POST /join: one SELECT finds the course by the code that was typed, archived
   and created_by with it; the INSERT comes after. *)
Typed(u) == {c \in 1..code : c < code \/ u \in told}

(* Mutant: any code the course has had. *)
JoinTakesOldCodes(r) ==
  \E u \in Users, c \in 1..MaxCodes :
    c \in Typed(u) /\ ~archived /\ u # Owner /\ Opens(r, "join", u, c)

JoinLooksUp(r) ==
  \E u \in Users, c \in 1..MaxCodes :
    /\ c \in Typed(u)
    /\ c = code /\ ~archived /\ u # Owner
    /\ Opens(r, "join", u, c)

JoinWrites(r) ==
  /\ Waits(r, "join", "checked")
  /\ Enrols({req[r].who}, "join")
  /\ Answers(r)
  /\ UNCHANGED <<archived, staff, code, problems, gone, testCases, sitting, paper, roster, work, told, barred>>

Unenrol(r) ==
  \/ \E who \in Teachers, u \in enrolled : teachesCourse(who) /\ Opens(r, "unenrol", who, u)
  \/ /\ Waits(r, "unenrol", "checked")
     /\ enrolled' = enrolled \ {req[r].arg}
     /\ Answers(r)
     /\ UNCHANGED <<archived, staff, code, problems, gone, testCases, sitting, paper, roster, work, via, told, barred>>

(* POST /regenerate-code: allocateJoinCode draws a code no course has, and one
   drawn at random from 31^8 is taken never to have been one before. *)
ComesIn(r, u) == \/ Waits(r, "join", "checked") /\ req[r].who = u
                 \/ Waits(r, "import", "write") /\ u \in req[r].arg

Regenerate(r) ==
  \/ ownsCourse(Owner) /\ code < MaxCodes /\ Opens(r, "code", Owner, "")
  \/ /\ Waits(r, "code", "checked")
     /\ code < MaxCodes
     /\ code' = code + 1
     /\ told' = {Owner}
     /\ barred' = {u \in Users \ enrolled : \A s \in Slots : ~ComesIn(s, u)}
     /\ Answers(r)
     /\ UNCHANGED <<archived, staff, enrolled, problems, gone, testCases, sitting, paper, roster, work, via>>

(* GET /courses returns every column to whoever teaches the course, so an
   assistant reads the code as the owner does; the owner may also give it to
   anybody. *)
LearnsCode(u) ==
  /\ u \notin told
  /\ told' = told \cup {u}
  /\ barred' = barred \ {u}
  /\ UNCHANGED <<tables, req, served, via>>

ListCourses == \E u \in Teachers : teachesCourse(u) /\ LearnsCode(u)
GivesCode   == \E u \in Users : LearnsCode(u)

-----------------------------------------------------------------------------
(* The content: problems and their test cases. *)

PostProblemAsks(r) ==
  \E who \in Teachers : teachesCourse(who) /\ Opens(r, "problem", who, "")

PostProblemChecks(r) == FindsOpen(r, "problem", "write")

PostProblemWrites(r) ==
  /\ Waits(r, "problem", "write")
  /\ \E p \in Problems \ (problems \cup gone) :
       /\ problems' = problems \cup {p}
       /\ testCases' = [testCases EXCEPT ![p] = 1]
  /\ Answers(r)
  /\ UNCHANGED <<archived, staff, enrolled, code, gone, sitting, paper, roster, work, via, told, barred>>

(* ownsProblem, then one statement: DELETE cascades to the paper, the test
   cases and the submissions. *)
EditAsks(r) ==
  \E who \in Teachers, p \in problems, op \in {"delete", "addcase", "dropcase"} :
    teachesCourse(who) /\ Opens(r, op, who, p)

(* Mutant: no cascade to the paper. *)
DeleteLeavesPaper(r) ==
  /\ Waits(r, "delete", "checked")
  /\ problems' = problems \ {req[r].arg} /\ gone' = gone \cup {req[r].arg}
  /\ Answers(r)
  /\ UNCHANGED <<archived, staff, enrolled, code, testCases, sitting, paper, roster, work, via, told, barred>>

DeleteProblem(r) ==
  /\ Waits(r, "delete", "checked")
  /\ LET p == req[r].arg
     IN  /\ problems' = problems \ {p}
         /\ gone' = gone \cup {p}
         /\ testCases' = [testCases EXCEPT ![p] = 0]
         /\ paper' = paper \ {p}
         /\ work' = {w \in work : w[2] # p}
  /\ Answers(r)
  /\ UNCHANGED <<archived, staff, enrolled, code, sitting, roster, via, told, barred>>

(* An INSERT for a problem that is gone violates its foreign key. *)
AddTestCase(r) ==
  /\ Waits(r, "addcase", "checked")
  /\ LET p == req[r].arg
     IN  testCases' = IF p \in problems /\ testCases[p] < MaxCases
                  THEN [testCases EXCEPT ![p] = @ + 1] ELSE testCases
  /\ Answers(r)
  /\ UNCHANGED <<archived, staff, enrolled, code, problems, gone, sitting, paper, roster, work, via, told, barred>>

DropTestCase(r) ==
  /\ Waits(r, "dropcase", "checked")
  /\ LET p == req[r].arg
     IN  testCases' = IF testCases[p] > 0 THEN [testCases EXCEPT ![p] = @ - 1] ELSE testCases
  /\ Answers(r)
  /\ UNCHANGED <<archived, staff, enrolled, code, problems, gone, sitting, paper, roster, work, via, told, barred>>

-----------------------------------------------------------------------------
(* The exam: its paper and roster are asked about, then written in one
   transaction.  A problem deleted in between violates the foreign key and
   rolls everything back. *)

Papers == SUBSET problems \ {{}}

PostExamAsks(r) ==
  \E who \in Teachers, ps \in Papers, us \in SUBSET Students :
    /\ sitting = "none"
    /\ teachesCourse(who)
    /\ Opens(r, "exam", who, [paper |-> ps, roster |-> us])

PostExamFindsOpen(r) == FindsOpen(r, "exam", "open")

problemsBelongToCourse(ps) == ps \subseteq problems

PostExamChecks(r) ==
  /\ Waits(r, "exam", "open")
  /\ IF /\ problemsBelongToCourse(req[r].arg.paper)
        /\ rosterNamesEnrolledStudents(req[r].arg.roster)
     THEN Advances(r, "write") ELSE Refused(r)

PostExamWrites(r) ==
  /\ Waits(r, "exam", "write")
  /\ IF sitting = "none" /\ req[r].arg.paper \subseteq problems
     THEN /\ sitting' = "scheduled"
          /\ paper' = req[r].arg.paper
          /\ roster' = req[r].arg.roster
     ELSE UNCHANGED <<sitting, paper, roster>>
  /\ Answers(r)
  /\ UNCHANGED <<archived, staff, enrolled, code, problems, gone, testCases, work, via, told, barred>>

PutPaper(r) ==
  \/ \E who \in Teachers, ps \in Papers :
       sitting # "none" /\ teachesCourse(who) /\ Opens(r, "paper", who, ps)
  \/ /\ Waits(r, "paper", "checked")
     /\ IF problemsBelongToCourse(req[r].arg) THEN Advances(r, "write") ELSE Refused(r)
  \/ /\ Waits(r, "paper", "write")
     /\ paper' = IF req[r].arg \subseteq problems THEN req[r].arg ELSE paper
     /\ Answers(r)
     /\ UNCHANGED <<archived, staff, enrolled, code, problems, gone, testCases, sitting, roster, work, via, told, barred>>

PutRosterAsks(r) ==
  \E who \in Teachers, us \in SUBSET Students :
    sitting # "none" /\ teachesCourse(who) /\ Opens(r, "roster", who, us)

PutRosterChecks(r) ==
  /\ Waits(r, "roster", "checked")
  /\ IF rosterNamesEnrolledStudents(req[r].arg) THEN Advances(r, "write") ELSE Refused(r)

PutRosterWrites(r) ==
  /\ Waits(r, "roster", "write")
  /\ roster' = req[r].arg
  /\ Answers(r)
  /\ UNCHANGED <<archived, staff, enrolled, code, problems, gone, testCases, sitting, paper, work, via, told, barred>>

ExamStarts ==
  /\ sitting = "scheduled"
  /\ sitting' = "started"
  /\ UNCHANGED <<archived, staff, enrolled, code, problems, gone, testCases, paper, roster, work, req, served, via, told, barred>>

-----------------------------------------------------------------------------
(* POST /submissions up to the INSERT: scope and gate in one query, archived in
   the next, then the exam (when one is named) and the test cases.  Window and
   deal are in ExamResults and ExamSession. *)

SubmitAsks(r) ==
  \E u \in Users, p \in Problems, exam \in BOOLEAN :
    canAccessProblem(u, p) /\ Opens(r, "submit", u, [problem |-> p, exam |-> exam])

SubmitFindsOpen(r) == FindsOpen(r, "submit", "exam")

SubmitFindsExam(r) ==
  /\ Waits(r, "submit", "exam")
  /\ IF req[r].arg.exam => /\ canAccessExam(req[r].who)
                           /\ sitting = "started"
                           /\ req[r].arg.problem \in paper
     THEN Advances(r, "cases") ELSE Refused(r)

SubmitFindsCases(r) ==
  /\ Waits(r, "submit", "cases")
  /\ LET p == req[r].arg.problem
     IN  IF p \in problems /\ testCases[p] > 0 THEN Advances(r, "write") ELSE Refused(r)

SubmitWrites(r) ==
  /\ Waits(r, "submit", "write")
  /\ LET p == req[r].arg.problem
     IN  work' = IF p \in problems THEN work \cup {<<req[r].who, p>>} ELSE work
  /\ Answers(r)
  /\ UNCHANGED <<archived, staff, enrolled, code, problems, gone, testCases, sitting, paper, roster, via, told, barred>>

-----------------------------------------------------------------------------
Readable == {up \in Users \X Problems : canAccessProblem(up[1], up[2])}

(* POST /courses: a course with a fresh code and nobody in it. *)
CourseInit ==
  /\ archived = FALSE /\ staff = {} /\ enrolled = {} /\ code = 1
  /\ problems = {} /\ gone = {} /\ testCases = [p \in Problems |-> 0]
  /\ sitting = "none" /\ paper = {} /\ roster = {} /\ work = {}
  /\ req = [r \in Slots |-> Idle] /\ served = 0
  /\ via = [u \in Users |-> {}] /\ opened = {} /\ told = {Owner} /\ barred = {}

CourseRequest(r) ==
  \/ PutCourse(r) \/ AppointAsks(r) \/ AppointChecks(r) \/ AppointWrites(r) \/ StandDown(r)
  \/ ImportAsks(r) \/ ImportChecks(r) \/ ImportWrites(r) \/ ImportFails(r)
  \/ JoinLooksUp(r) \/ JoinWrites(r) \/ Unenrol(r) \/ Regenerate(r)

ContentRequest(r) ==
  \/ PostProblemAsks(r) \/ PostProblemChecks(r) \/ PostProblemWrites(r)
  \/ EditAsks(r) \/ DeleteProblem(r) \/ AddTestCase(r) \/ DropTestCase(r)

ExamRequest(r) ==
  \/ PostExamAsks(r) \/ PostExamFindsOpen(r) \/ PostExamChecks(r) \/ PostExamWrites(r)
  \/ PutPaper(r) \/ PutRosterAsks(r) \/ PutRosterChecks(r) \/ PutRosterWrites(r)

SubmitRequest(r) ==
  \/ SubmitAsks(r) \/ SubmitFindsOpen(r) \/ SubmitFindsExam(r)
  \/ SubmitFindsCases(r) \/ SubmitWrites(r)

CourseNext ==
  /\ \/ \E r \in Slots : \/ CourseRequest(r) \/ ContentRequest(r)
                         \/ ExamRequest(r) \/ SubmitRequest(r)
     \/ ListCourses \/ GivesCode \/ ExamStarts
  /\ opened' = opened \cup Readable'

CourseSpec == CourseInit /\ [][CourseNext]_courseVars

-----------------------------------------------------------------------------
(* Every table row names accounts, problems and codes there are, and the paper
   and the work name only problems that still exist. *)
Ops == {"course", "appoint", "standdown", "import", "join", "unenrol", "code", "problem",
        "delete", "addcase", "dropcase", "exam", "paper", "roster", "submit"}

CourseTypeOK ==
  /\ archived \in BOOLEAN /\ code \in 1..MaxCodes /\ served \in 0..MaxRequests
  /\ staff \subseteq Teachers /\ enrolled \subseteq Users \ {Owner}
  /\ problems \subseteq Problems \ gone /\ testCases \in [Problems -> 0..MaxCases]
  /\ sitting \in {"none", "scheduled", "started"}
  /\ paper \subseteq problems /\ roster \subseteq Users
  /\ work \subseteq Users \X problems
  /\ \A r \in Slots : req[r] # Idle => req[r].op \in Ops /\ req[r].who \in Users

(* A roster is not a second way into the course (exams.routes.js:46-52): whoever
   is on one was enrolled at some time, and every answer that was accepted is to
   a problem its author could open at some time, seal and roster included. *)
NoQuietEnrolment ==
  /\ \A u \in roster : via[u] # {}
  /\ work \subseteq opened

(* Replacing the join code keeps out whoever was out (courses.routes.js:387): not
   one of them is enrolled again unless told the new code or imported, however
   the requests with the old one interleave. *)
KeptOut == barred \cap enrolled = {}

(* There is no way into the course but the ones that are guarded: not by a
   roster, not by a submission, not by a code that was replaced. *)
NoSecondWayIn == NoQuietEnrolment /\ KeptOut

(* Staff never sit the course's exam, and an account that both teaches and is
   enrolled came in by the join code: POST /join asks neither role nor staff, the
   other ways in do (courses.routes.js:177-188, 272-278). *)
StaffAreNotStudents ==
  /\ (staff \cup {Owner}) \cap roster = {}
  /\ \A u \in staff \cap enrolled : via[u] = {"join"}

(* A closed course takes no new student, problem, exam or submission, except
   from a request under way since it was open (courseAccess.service.js:199). *)
SawItOpen(r) == req[r] # Idle /\ req[r].open
ClosedTakesNothing ==
  [][archived /\ (\A r \in Slots : ~SawItOpen(r)) =>
       /\ enrolled' \subseteq enrolled
       /\ problems' \subseteq problems
       /\ work' \subseteq work
       /\ sitting = "none" => sitting' = "none"]_courseVars
=============================================================================
