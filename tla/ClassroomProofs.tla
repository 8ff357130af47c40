--------------------------- MODULE ClassroomProofs ---------------------------
(***************************************************************************)
(* Proofs about the parts that MCClassroom puts side by side, each for     *)
(* every value of its constants: CourseAccess and GradeDesk; ExamResults   *)
(* has them in ExamResultsProofs.                                          *)
(***************************************************************************)
EXTENDS MCClassroom, ExamResultsProofs

-----------------------------------------------------------------------------
(***************************************************************************)
(* CourseAccess, for any accounts, problems, requests at once and bounds.  *)
(***************************************************************************)

(* What a request is known to carry: the checks it has passed, and the     *)
(* validation of its body.                                                 *)
Carries(j) ==
  /\ j = [op |-> j.op, who |-> j.who, arg |-> j.arg, at |-> j.at, open |-> j.open]
  /\ j.op = "appoint" /\ j.at = "write" => j.arg \in Teachers
  /\ j.op = "join" => j.who \in Users
  /\ j.op = "exam" => j.arg.roster \subseteq Students
  /\ j.op = "roster" => j.arg \subseteq Students

ReqInv ==
  /\ req = [r \in Slots |-> req[r]]
  /\ \A r \in Slots : req[r] # Idle => Carries(req[r])

(* Staff are teachers, only students sit the exam, and a teacher who is    *)
(* enrolled never came in but by the code.                                 *)
PeopleInv ==
  /\ staff \subseteq Teachers /\ enrolled \subseteq Users /\ roster \subseteq Students
  /\ via = [u \in Users |-> via[u]]
  /\ \A u \in Teachers : via[u] \subseteq {"join"}
  /\ \A u \in enrolled : via[u] # {}

AccessInv == ReqInv /\ PeopleInv

LEMMA AccessInitialInv == CourseInit => AccessInv
  BY DEF CourseInit, AccessInv, ReqInv, PeopleInv, Teachers, Users

-----------------------------------------------------------------------------
(* How a step may move its request. *)

LEMMA OpensKeeps ==
  ASSUME AccessInv, NEW r \in Slots, NEW op, NEW who, NEW arg, Opens(r, op, who, arg),
         op = "join" => who \in Users,
         op = "exam" => arg.roster \subseteq Students,
         op = "roster" => arg \subseteq Students
  PROVE  AccessInv'
  <1> DEFINE j == [op |-> op, who |-> who, arg |-> arg, at |-> "checked", open |-> ~archived]
  <1>1. req' = [req EXCEPT ![r] = j] /\ UNCHANGED <<staff, enrolled, roster, via>>
    BY DEF Opens, tables
  <1>2. Carries(j)
    BY DEF Carries
  <1>3. ReqInv'
    BY <1>1, <1>2 DEF ReqInv, AccessInv
  <1> QED
    BY <1>1, <1>3 DEF AccessInv, PeopleInv

LEMMA AdvancesReq ==
  ASSUME ReqInv, NEW r \in Slots, NEW stage, req[r] # Idle,
         req' = [req EXCEPT ![r].at = stage],
         req[r].op = "appoint" => req[r].arg \in Teachers
  PROVE  ReqInv'
  <1> DEFINE j == [req[r] EXCEPT !.at = stage]
  <1>1. Carries(req[r])
    BY DEF ReqInv
  <1>2. /\ j.op = req[r].op /\ j.who = req[r].who /\ j.arg = req[r].arg
        /\ j.at = stage /\ j.open = req[r].open
        /\ j = [op |-> j.op, who |-> j.who, arg |-> j.arg, at |-> j.at, open |-> j.open]
    BY <1>1 DEF Carries
  <1>3. Carries(j)
    BY <1>1, <1>2 DEF Carries
  <1>4. req' = [req EXCEPT ![r] = j]
    OBVIOUS
  <1> QED
    BY <1>3, <1>4 DEF ReqInv

LEMMA AdvancesKeeps ==
  ASSUME AccessInv, NEW r \in Slots, NEW stage, Advances(r, stage), req[r] # Idle,
         req[r].op = "appoint" => req[r].arg \in Teachers
  PROVE  AccessInv'
  BY AdvancesReq DEF Advances, AccessInv, PeopleInv, tables

LEMMA AnswersReq ==
  ASSUME ReqInv, NEW r \in Slots, Answers(r)
  PROVE  ReqInv'
  BY DEF ReqInv, Answers

LEMMA RefusedKeeps ==
  ASSUME AccessInv, NEW r \in Slots, Refused(r)
  PROVE  AccessInv'
  BY AnswersReq DEF Refused, AccessInv, PeopleInv, tables

LEMMA AnswersKeeps ==
  ASSUME AccessInv, NEW r \in Slots, Answers(r), UNCHANGED <<staff, enrolled, roster, via>>
  PROVE  AccessInv'
  BY AnswersReq DEF AccessInv, PeopleInv

LEMMA FindsOpenKeeps ==
  ASSUME AccessInv, NEW r \in Slots, NEW op, NEW stage, op # "appoint", FindsOpen(r, op, stage)
  PROVE  AccessInv'
  BY AdvancesKeeps, RefusedKeeps DEF FindsOpen, Waits

(* Whoever is enrolled has come in somehow; a teacher only by the code.    *)
LEMMA EnrolsPeople ==
  ASSUME PeopleInv, NEW us, NEW how, us \subseteq Users, Enrols(us, how),
         how = "join" \/ us \subseteq Students,
         UNCHANGED <<staff, roster>>
  PROVE  PeopleInv'
  BY RolesAssumption DEF PeopleInv, Enrols, Users

-----------------------------------------------------------------------------
LEMMA CourseStep ==
  ASSUME AccessInv, NEW r \in Slots,
         PutCourse(r) \/ StandDown(r) \/ Unenrol(r) \/ Regenerate(r)
  PROVE  AccessInv'
  <1>1. CASE PutCourse(r)
    <2>1. CASE \E a \in BOOLEAN : ownsCourse(Owner) /\ Opens(r, "course", Owner, a)
      BY <2>1, OpensKeeps
    <2>2. CASE Waits(r, "course", "checked")
               /\ req' = [s \in Slots |->
                            IF s = r \/ req[s] = Idle THEN Idle
                            ELSE [req[s] EXCEPT !.open = @ \/ ~req[r].arg]]
               /\ UNCHANGED <<staff, enrolled, roster, via>>
      <3>1. ASSUME NEW s \in Slots, req'[s] # Idle PROVE Carries(req'[s])
        <4>1. req[s] # Idle /\ req'[s] = [req[s] EXCEPT !.open = @ \/ ~req[r].arg]
          BY <2>2, <3>1
        <4>2. Carries(req[s])
          BY <4>1 DEF AccessInv, ReqInv
        <4> QED
          BY <4>1, <4>2 DEF Carries
      <3> QED
        BY <2>2, <3>1 DEF AccessInv, ReqInv, PeopleInv
    <2> QED
      BY <1>1, <2>1, <2>2 DEF PutCourse
  <1>2. CASE StandDown(r)
    <2>1. CASE \E u \in staff : ownsCourse(Owner) /\ Opens(r, "standdown", Owner, u)
      BY <2>1, OpensKeeps
    <2>2. CASE Answers(r) /\ staff' = staff \ {req[r].arg} /\ UNCHANGED <<enrolled, roster, via>>
      BY <2>2, AnswersReq DEF AccessInv, PeopleInv
    <2> QED
      BY <1>2, <2>1, <2>2 DEF StandDown
  <1>3. CASE Unenrol(r)
    <2>1. CASE \E who \in Teachers, u \in enrolled : teachesCourse(who) /\ Opens(r, "unenrol", who, u)
      BY <2>1, OpensKeeps
    <2>2. CASE Answers(r) /\ enrolled' = enrolled \ {req[r].arg} /\ UNCHANGED <<staff, roster, via>>
      BY <2>2, AnswersReq DEF AccessInv, PeopleInv
    <2> QED
      BY <1>3, <2>1, <2>2 DEF Unenrol
  <1>4. CASE Regenerate(r)
    BY <1>4, OpensKeeps, AnswersKeeps DEF Regenerate
  <1> QED
    BY <1>1, <1>2, <1>3, <1>4

LEMMA AppointStep ==
  ASSUME AccessInv, NEW r \in Slots, AppointAsks(r) \/ AppointChecks(r) \/ AppointWrites(r)
  PROVE  AccessInv'
  <1>1. CASE AppointAsks(r)
    BY <1>1, OpensKeeps DEF AppointAsks
  <1>2. CASE AppointChecks(r)
    BY <1>2, AdvancesKeeps, RefusedKeeps DEF AppointChecks, MayAssist, Waits
  <1>3. CASE AppointWrites(r)
    <2>1. req[r].arg \in Teachers
      BY <1>3 DEF AppointWrites, Waits, AccessInv, ReqInv, Carries
    <2> QED
      BY <1>3, <2>1, AnswersReq DEF AppointWrites, AccessInv, PeopleInv
  <1> QED
    BY <1>1, <1>2, <1>3

LEMMA ImportStep ==
  ASSUME AccessInv, NEW r \in Slots,
         ImportAsks(r) \/ ImportChecks(r) \/ ImportWrites(r) \/ ImportFails(r)
  PROVE  AccessInv'
  <1>1. CASE ImportAsks(r)
    BY <1>1, OpensKeeps DEF ImportAsks
  <1>2. CASE ImportChecks(r)
    BY <1>2, FindsOpenKeeps DEF ImportChecks
  <1>3. CASE ImportWrites(r)
    <2> DEFINE us == req[r].arg \ NotStudents(req[r].arg)
    <2>1. CASE us = {}
      BY <1>3, <2>1, RefusedKeeps DEF ImportWrites
    <2>2. CASE us # {}
      <3>1. PICK u \in us : /\ Enrols({u}, "import")
                            /\ req' = [req EXCEPT ![r].arg = us \ {u}]
                            /\ UNCHANGED <<staff, roster>>
        BY <1>3, <2>2 DEF ImportWrites
      <3>2. {u} \subseteq Students /\ {u} \subseteq Users
        BY DEF NotStudents, Users
      <3>3. PeopleInv'
        BY <3>1, <3>2, EnrolsPeople DEF AccessInv
      <3> DEFINE j == [req[r] EXCEPT !.arg = us \ {u}]
      <3>4. Carries(req[r]) /\ req[r].op = "import"
        BY <1>3 DEF ImportWrites, Waits, AccessInv, ReqInv
      <3>5. Carries(j)
        BY <3>4 DEF Carries
      <3>6. req' = [req EXCEPT ![r] = j]
        BY <3>1
      <3>7. ReqInv'
        BY <3>5, <3>6 DEF AccessInv, ReqInv
      <3> QED
        BY <3>3, <3>7 DEF AccessInv
    <2> QED
      BY <2>1, <2>2
  <1>4. CASE ImportFails(r)
    BY <1>4, RefusedKeeps DEF ImportFails
  <1> QED
    BY <1>1, <1>2, <1>3, <1>4

LEMMA JoinStep ==
  ASSUME AccessInv, NEW r \in Slots, JoinLooksUp(r) \/ JoinWrites(r)
  PROVE  AccessInv'
  <1>1. CASE JoinLooksUp(r)
    BY <1>1, OpensKeeps DEF JoinLooksUp
  <1>2. CASE JoinWrites(r)
    <2>1. {req[r].who} \subseteq Users
      BY <1>2 DEF JoinWrites, Waits, AccessInv, ReqInv, Carries
    <2>2. PeopleInv'
      BY <1>2, <2>1, EnrolsPeople DEF JoinWrites, AccessInv
    <2> QED
      BY <1>2, <2>2, AnswersReq DEF JoinWrites, AccessInv
  <1> QED
    BY <1>1, <1>2

LEMMA ContentStep ==
  ASSUME AccessInv, NEW r \in Slots, ContentRequest(r)
  PROVE  AccessInv'
  <1>1. CASE PostProblemAsks(r) \/ EditAsks(r)
    BY <1>1, OpensKeeps DEF PostProblemAsks, EditAsks
  <1>2. CASE PostProblemChecks(r)
    BY <1>2, FindsOpenKeeps DEF PostProblemChecks
  <1>3. CASE PostProblemWrites(r) \/ DeleteProblem(r) \/ AddTestCase(r) \/ DropTestCase(r)
    BY <1>3, AnswersKeeps DEF PostProblemWrites, DeleteProblem, AddTestCase, DropTestCase
  <1> QED
    BY <1>1, <1>2, <1>3 DEF ContentRequest

LEMMA ExamStep ==
  ASSUME AccessInv, NEW r \in Slots, ExamRequest(r)
  PROVE  AccessInv'
  <1>1. CASE PostExamAsks(r)
    BY <1>1, OpensKeeps DEF PostExamAsks
  <1>2. CASE PostExamFindsOpen(r)
    BY <1>2, FindsOpenKeeps DEF PostExamFindsOpen
  <1>3. CASE PostExamChecks(r) \/ PutRosterChecks(r)
    BY <1>3, AdvancesKeeps, RefusedKeeps DEF PostExamChecks, PutRosterChecks, Waits
  <1>4. CASE PostExamWrites(r)
    <2>1. req[r].arg.roster \subseteq Students
      BY <1>4 DEF PostExamWrites, Waits, AccessInv, ReqInv, Carries
    <2>2. PeopleInv'
      BY <1>4, <2>1 DEF PostExamWrites, AccessInv, PeopleInv
    <2> QED
      BY <1>4, <2>2, AnswersReq DEF PostExamWrites, AccessInv
  <1>5. CASE PutPaper(r)
    BY <1>5, OpensKeeps, AdvancesKeeps, RefusedKeeps, AnswersKeeps DEF PutPaper, Waits
  <1>6. CASE PutRosterAsks(r)
    BY <1>6, OpensKeeps DEF PutRosterAsks
  <1>7. CASE PutRosterWrites(r)
    <2>1. req[r].arg \subseteq Students
      BY <1>7 DEF PutRosterWrites, Waits, AccessInv, ReqInv, Carries
    <2> QED
      BY <1>7, <2>1, AnswersReq DEF PutRosterWrites, AccessInv, PeopleInv
  <1> QED
    BY <1>1, <1>2, <1>3, <1>4, <1>5, <1>6, <1>7 DEF ExamRequest

LEMMA SubmitStep ==
  ASSUME AccessInv, NEW r \in Slots, SubmitRequest(r)
  PROVE  AccessInv'
  <1>1. CASE SubmitAsks(r)
    BY <1>1, OpensKeeps DEF SubmitAsks
  <1>2. CASE SubmitFindsOpen(r)
    BY <1>2, FindsOpenKeeps DEF SubmitFindsOpen
  <1>3. CASE SubmitFindsExam(r) \/ SubmitFindsCases(r)
    BY <1>3, AdvancesKeeps, RefusedKeeps DEF SubmitFindsExam, SubmitFindsCases, Waits
  <1>4. CASE SubmitWrites(r)
    BY <1>4, AnswersKeeps DEF SubmitWrites
  <1> QED
    BY <1>1, <1>2, <1>3, <1>4 DEF SubmitRequest

LEMMA AccessInvStep ==
  ASSUME AccessInv, [CourseNext]_courseVars
  PROVE  AccessInv'
  <1>1. CASE ListCourses \/ GivesCode \/ ExamStarts \/ UNCHANGED courseVars
    <2>1. UNCHANGED <<req, staff, enrolled, roster, via>>
      BY <1>1 DEF ListCourses, GivesCode, LearnsCode, ExamStarts, courseVars, tables
    <2> QED
      BY <2>1 DEF AccessInv, ReqInv, PeopleInv
  <1>2. ASSUME NEW r \in Slots, CourseRequest(r) PROVE AccessInv'
    BY <1>2, CourseStep, AppointStep, ImportStep, JoinStep DEF CourseRequest
  <1> QED
    BY <1>1, <1>2, ContentStep, ExamStep, SubmitStep DEF CourseNext

LEMMA AccessInvSuffices == AccessInv => StaffAreNotStudents
  BY RolesAssumption DEF AccessInv, PeopleInv, StaffAreNotStudents, Teachers

(* However the requests of teachers and students interleave between their  *)
(* queries, staff are never on the exam's roster, and whoever both teaches *)
(* and is enrolled joined with the code (courses.routes.js:177-188).       *)
THEOREM RolesApart == CourseSpec => []StaffAreNotStudents
  <1> QED
    BY AccessInitialInv, AccessInvStep, AccessInvSuffices, PTL DEF CourseSpec

-----------------------------------------------------------------------------
(* The ways in.  What a request has been let through with, as the tables    *)
(* and the histories v (via), o (opened) and b (barred) were or have come   *)
(* to be since: names on a roster were enrolled, the problem of a           *)
(* submission could be opened, and whoever joins was told the current code. *)
Vetted(j, v, o, b) ==
  /\ j.op = "exam" /\ j.at = "write" => \A u \in j.arg.roster : v[u] # {}
  /\ j.op = "roster" /\ j.at = "write" => \A u \in j.arg : v[u] # {}
  /\ j.op = "submit" => <<j.who, j.arg.problem>> \in o
  /\ j.op = "join" /\ j.at = "checked" => j.who # Owner /\ j.who \notin b

EntryInv ==
  /\ \A r \in Slots : req[r] # Idle => Vetted(req[r], via, opened, barred)
  /\ \A u \in roster : via[u] # {}
  /\ work \subseteq opened /\ Readable \subseteq opened
  /\ barred \cap enrolled = {} /\ told \cap barred \subseteq {Owner}

LEMMA EntryInit == CourseInit => EntryInv
  BY DEF CourseInit, EntryInv, Readable, canAccessProblem

(* What was vetted stays so: enrolments are remembered, what could be       *)
(* opened is remembered, and a bar is only lifted.                          *)
LEMMA VettedStays ==
  ASSUME NEW j, NEW v, NEW w, NEW o, NEW p, NEW b, NEW c,
         Carries(j), Vetted(j, v, o, b),
         \A u \in Users : v[u] \subseteq w[u], o \subseteq p, c \subseteq b
  PROVE  Vetted(j, w, p, c)
  BY DEF Vetted, Carries, Users

Grows == /\ opened' = opened \cup Readable'
         /\ \A u \in Users : via[u] \subseteq via'[u]
         /\ barred' \subseteq barred

LEMMA EntryKeeps ==
  ASSUME AccessInv, EntryInv, NEW r \in Slots, NEW j,
         req' = [req EXCEPT ![r] = j],
         j = Idle \/ Vetted(j, via', opened', barred'),
         Grows,
         \A u \in roster' : via'[u] # {},
         work' \subseteq opened',
         barred' \cap enrolled' = {}, told' \cap barred' \subseteq {Owner}
  PROVE  EntryInv'
  <1>1. ASSUME NEW s \in Slots, req'[s] # Idle
        PROVE  Vetted(req'[s], via', opened', barred')
    <2>1. CASE s = r
      BY <1>1, <2>1 DEF AccessInv, ReqInv
    <2>2. CASE s # r
      <3>1. req'[s] = req[s]
        BY <2>2 DEF AccessInv, ReqInv
      <3>2. Carries(req[s]) /\ Vetted(req[s], via, opened, barred)
        BY <1>1, <3>1 DEF AccessInv, ReqInv, EntryInv
      <3>3. Vetted(req[s], via', opened', barred')
        BY <3>2, VettedStays DEF Grows
      <3> QED
        BY <3>1, <3>3
    <2> QED
      BY <2>1, <2>2
  <1> QED
    BY <1>1 DEF EntryInv, Grows

(* The tables and histories that EntryInv is about, but for opened.         *)
Rest == <<enrolled, roster, work, via, told, barred>>

LEMMA RestKeeps ==
  ASSUME AccessInv, EntryInv, NEW r \in Slots, NEW j,
         req' = [req EXCEPT ![r] = j],
         j = Idle \/ Vetted(j, via, opened, barred),
         opened' = opened \cup Readable',
         UNCHANGED Rest
  PROVE  EntryInv'
  <1>1. j = Idle \/ Vetted(j, via', opened', barred')
    BY DEF Vetted, Rest
  <1>2. /\ Grows /\ \A u \in roster' : via'[u] # {}
        /\ work' \subseteq opened' /\ barred' \cap enrolled' = {}
        /\ told' \cap barred' \subseteq {Owner}
    BY DEF Grows, Rest, EntryInv
  <1> QED
    BY <1>1, <1>2, EntryKeeps

LEMMA OpensEntry ==
  ASSUME AccessInv, EntryInv, NEW r \in Slots, NEW op, NEW who, NEW arg,
         Opens(r, op, who, arg), opened' = opened \cup Readable',
         op = "submit" => <<who, arg.problem>> \in opened,
         op = "join" => who # Owner /\ who \notin barred
  PROVE  EntryInv'
  <1> DEFINE j == [op |-> op, who |-> who, arg |-> arg, at |-> "checked", open |-> ~archived]
  <1>1. Vetted(j, via, opened, barred)
    BY DEF Vetted
  <1>2. req' = [req EXCEPT ![r] = j] /\ UNCHANGED Rest
    BY DEF Opens, tables, Rest
  <1> QED
    BY <1>1, <1>2, RestKeeps

LEMMA AdvancesEntry ==
  ASSUME AccessInv, EntryInv, NEW r \in Slots, NEW op, NEW from, NEW stage,
         Waits(r, op, from), Advances(r, stage), opened' = opened \cup Readable',
         op # "join",
         op = "exam" /\ stage = "write" => \A u \in req[r].arg.roster : via[u] # {},
         op = "roster" /\ stage = "write" => \A u \in req[r].arg : via[u] # {}
  PROVE  EntryInv'
  <1> DEFINE j == [req[r] EXCEPT !.at = stage]
  <1>1. Carries(req[r]) /\ Vetted(req[r], via, opened, barred) /\ req[r].op = op
    BY DEF Waits, AccessInv, ReqInv, EntryInv
  <1>2. /\ j.op = op /\ j.who = req[r].who /\ j.arg = req[r].arg /\ j.at = stage
    BY <1>1 DEF Carries
  <1>3. Vetted(j, via, opened, barred)
    BY <1>1, <1>2 DEF Vetted
  <1>4. req' = [req EXCEPT ![r] = j] /\ UNCHANGED Rest
    BY DEF Advances, tables, Rest
  <1> QED
    BY <1>3, <1>4, RestKeeps

LEMMA AnswersEntry ==
  ASSUME AccessInv, EntryInv, NEW r \in Slots, Answers(r),
         opened' = opened \cup Readable', UNCHANGED Rest
  PROVE  EntryInv'
  BY RestKeeps DEF Answers

LEMMA RefusedEntry ==
  ASSUME AccessInv, EntryInv, NEW r \in Slots, Refused(r), opened' = opened \cup Readable'
  PROVE  EntryInv'
  BY AnswersEntry DEF Refused, tables, Rest

LEMMA FindsOpenEntry ==
  ASSUME AccessInv, EntryInv, NEW r \in Slots, NEW op, NEW stage, FindsOpen(r, op, stage),
         opened' = opened \cup Readable', op # "join", stage # "write" \/ op \notin {"exam", "roster"}
  PROVE  EntryInv'
  BY AdvancesEntry, RefusedEntry DEF FindsOpen

-----------------------------------------------------------------------------
LEMMA CourseEntry ==
  ASSUME AccessInv, EntryInv, NEW r \in Slots, opened' = opened \cup Readable',
         PutCourse(r) \/ StandDown(r) \/ Unenrol(r) \/ Regenerate(r)
  PROVE  EntryInv'
  <1>1. CASE PutCourse(r)
    <2>1. CASE \E a \in BOOLEAN : ownsCourse(Owner) /\ Opens(r, "course", Owner, a)
      BY <2>1, OpensEntry
    <2>2. CASE /\ Waits(r, "course", "checked")
               /\ req' = [s \in Slots |->
                            IF s = r \/ req[s] = Idle THEN Idle
                            ELSE [req[s] EXCEPT !.open = @ \/ ~req[r].arg]]
               /\ UNCHANGED Rest
      <3>1. ASSUME NEW s \in Slots, req'[s] # Idle
            PROVE  Vetted(req'[s], via', opened', barred')
        <4>1. req[s] # Idle /\ req'[s] = [req[s] EXCEPT !.open = @ \/ ~req[r].arg]
          BY <2>2, <3>1
        <4>2. Carries(req[s]) /\ Vetted(req[s], via, opened, barred)
          BY <4>1 DEF AccessInv, ReqInv, EntryInv
        <4>3. /\ req'[s].op = req[s].op /\ req'[s].who = req[s].who
              /\ req'[s].arg = req[s].arg /\ req'[s].at = req[s].at
          BY <4>1, <4>2 DEF Carries
        <4> QED
          BY <2>2, <4>2, <4>3 DEF Vetted, Rest
      <3> QED
        BY <2>2, <3>1 DEF EntryInv, Rest
    <2> QED
      BY <1>1, <2>1, <2>2 DEF PutCourse, Rest
  <1>2. CASE StandDown(r)
    <2>1. CASE \E u \in staff : ownsCourse(Owner) /\ Opens(r, "standdown", Owner, u)
      BY <2>1, OpensEntry
    <2>2. CASE Answers(r) /\ UNCHANGED Rest
      BY <2>2, AnswersEntry
    <2> QED
      BY <1>2, <2>1, <2>2 DEF StandDown, Rest
  <1>3. CASE Unenrol(r)
    <2>1. CASE \E who \in Teachers, u \in enrolled : teachesCourse(who) /\ Opens(r, "unenrol", who, u)
      BY <2>1, OpensEntry
    <2>2. CASE /\ req' = [req EXCEPT ![r] = Idle] /\ enrolled' \subseteq enrolled
               /\ UNCHANGED <<roster, work, via, told, barred>>
      <3>1. /\ Grows /\ \A u \in roster' : via'[u] # {}
            /\ work' \subseteq opened' /\ barred' \cap enrolled' = {}
            /\ told' \cap barred' \subseteq {Owner}
        BY <2>2 DEF Grows, EntryInv
      <3> QED
        BY <2>2, <3>1, EntryKeeps
    <2> QED
      BY <1>3, <2>1, <2>2 DEF Unenrol, Answers
  <1>4. CASE Regenerate(r)
    <2>1. CASE ownsCourse(Owner) /\ code < MaxCodes /\ Opens(r, "code", Owner, "")
      BY <2>1, OpensEntry
    <2>2. CASE /\ req' = [req EXCEPT ![r] = Idle]
               /\ told' = {Owner}
               /\ barred' = {u \in Users \ enrolled : \A s \in Slots : ~ComesIn(s, u)}
               /\ UNCHANGED <<enrolled, roster, work, via>>
      <3>1. ASSUME NEW s \in Slots, req'[s] # Idle
            PROVE  Vetted(req'[s], via', opened', barred')
        <4>1. req'[s] = req[s]
          BY <2>2, <3>1 DEF AccessInv, ReqInv
        <4>2. Vetted(req[s], via, opened, barred)
          BY <3>1, <4>1 DEF EntryInv
        <4>3. req[s].op = "join" /\ req[s].at = "checked" => req[s].who \notin barred'
          BY <2>2, <3>1, <4>1 DEF ComesIn, Waits
        <4> QED
          BY <2>2, <4>1, <4>2, <4>3 DEF Vetted
      <3> QED
        BY <2>2, <3>1 DEF EntryInv
    <2> QED
      BY <1>4, <2>1, <2>2 DEF Regenerate, Answers
  <1> QED
    BY <1>1, <1>2, <1>3, <1>4

LEMMA AppointEntry ==
  ASSUME AccessInv, EntryInv, NEW r \in Slots, opened' = opened \cup Readable',
         AppointAsks(r) \/ AppointChecks(r) \/ AppointWrites(r)
  PROVE  EntryInv'
  <1>1. CASE AppointAsks(r)
    BY <1>1, OpensEntry DEF AppointAsks
  <1>2. CASE AppointChecks(r)
    BY <1>2, AdvancesEntry, RefusedEntry DEF AppointChecks
  <1>3. CASE AppointWrites(r)
    BY <1>3, AnswersEntry DEF AppointWrites, Rest
  <1> QED
    BY <1>1, <1>2, <1>3

(* An import lifts the bar of whom it puts in; a join needs none.           *)
LEMMA ImportEntry ==
  ASSUME AccessInv, EntryInv, NEW r \in Slots, opened' = opened \cup Readable',
         ImportAsks(r) \/ ImportChecks(r) \/ ImportWrites(r) \/ ImportFails(r)
  PROVE  EntryInv'
  <1>1. CASE ImportAsks(r)
    BY <1>1, OpensEntry DEF ImportAsks
  <1>2. CASE ImportChecks(r)
    BY <1>2, FindsOpenEntry DEF ImportChecks
  <1>3. CASE ImportWrites(r)
    <2> DEFINE us == req[r].arg \ NotStudents(req[r].arg)
    <2>1. CASE us = {}
      BY <1>3, <2>1, RefusedEntry DEF ImportWrites
    <2>2. CASE us # {}
      <3>1. PICK u \in us : /\ Enrols({u}, "import")
                            /\ barred' = barred \ {u}
                            /\ req' = [req EXCEPT ![r].arg = us \ {u}]
                            /\ UNCHANGED <<roster, work, told>>
        BY <1>3, <2>2 DEF ImportWrites
      <3>2. Grows /\ \A x \in roster' : via'[x] # {}
        BY <3>1 DEF Grows, Enrols, EntryInv, AccessInv, PeopleInv, Users
      <3>3. /\ work' \subseteq opened' /\ barred' \cap enrolled' = {}
            /\ told' \cap barred' \subseteq {Owner}
        BY <3>1 DEF Enrols, EntryInv
      <3> DEFINE j == [req[r] EXCEPT !.arg = us \ {u}]
      <3>4. j.op = "import"
        BY <1>3 DEF ImportWrites, Waits, AccessInv, ReqInv, Carries
      <3>5. Vetted(j, via', opened', barred')
        BY <3>4 DEF Vetted
      <3>6. req' = [req EXCEPT ![r] = j]
        BY <3>1
      <3> QED
        BY <3>2, <3>3, <3>5, <3>6, EntryKeeps
    <2> QED
      BY <2>1, <2>2
  <1>4. CASE ImportFails(r)
    BY <1>4, RefusedEntry DEF ImportFails
  <1> QED
    BY <1>1, <1>2, <1>3, <1>4

LEMMA JoinEntry ==
  ASSUME AccessInv, EntryInv, NEW r \in Slots, opened' = opened \cup Readable',
         JoinLooksUp(r) \/ JoinWrites(r)
  PROVE  EntryInv'
  <1>1. CASE JoinLooksUp(r)
    <2>1. PICK u \in Users : u \in told /\ u # Owner /\ Opens(r, "join", u, code)
      BY <1>1 DEF JoinLooksUp, Typed
    <2>2. u \notin barred
      BY <2>1 DEF EntryInv
    <2> QED
      BY <2>1, <2>2, OpensEntry
  <1>2. CASE JoinWrites(r)
    <2>1. /\ req[r].who \notin barred
          /\ Enrols({req[r].who}, "join") /\ req' = [req EXCEPT ![r] = Idle]
          /\ UNCHANGED <<roster, work, told, barred>>
      BY <1>2 DEF JoinWrites, Waits, Answers, EntryInv, Vetted
    <2>2. Grows /\ \A x \in roster' : via'[x] # {}
      BY <2>1 DEF Grows, Enrols, EntryInv, AccessInv, PeopleInv, Users
    <2>3. /\ work' \subseteq opened' /\ barred' \cap enrolled' = {}
          /\ told' \cap barred' \subseteq {Owner}
      BY <2>1 DEF Enrols, EntryInv
    <2> QED
      BY <2>1, <2>2, <2>3, EntryKeeps
  <1> QED
    BY <1>1, <1>2

(* Deleting a problem deletes its submissions with it.                      *)
LEMMA ContentEntry ==
  ASSUME AccessInv, EntryInv, NEW r \in Slots, opened' = opened \cup Readable',
         ContentRequest(r)
  PROVE  EntryInv'
  <1>1. CASE PostProblemAsks(r) \/ EditAsks(r)
    BY <1>1, OpensEntry DEF PostProblemAsks, EditAsks
  <1>2. CASE PostProblemChecks(r)
    BY <1>2, FindsOpenEntry DEF PostProblemChecks
  <1>3. CASE PostProblemWrites(r) \/ AddTestCase(r) \/ DropTestCase(r)
    BY <1>3, AnswersEntry DEF PostProblemWrites, AddTestCase, DropTestCase, Rest
  <1>4. CASE DeleteProblem(r)
    <2>1. /\ req' = [req EXCEPT ![r] = Idle] /\ work' \subseteq work
          /\ UNCHANGED <<enrolled, roster, via, told, barred>>
      BY <1>4 DEF DeleteProblem, Answers
    <2>2. /\ Grows /\ \A u \in roster' : via'[u] # {}
          /\ work' \subseteq opened' /\ barred' \cap enrolled' = {}
          /\ told' \cap barred' \subseteq {Owner}
      BY <2>1 DEF Grows, EntryInv
    <2> QED
      BY <2>1, <2>2, EntryKeeps
  <1> QED
    BY <1>1, <1>2, <1>3, <1>4 DEF ContentRequest

LEMMA ExamEntry ==
  ASSUME AccessInv, EntryInv, NEW r \in Slots, opened' = opened \cup Readable',
         ExamRequest(r)
  PROVE  EntryInv'
  <1>0. \A u \in enrolled : via[u] # {}
    BY DEF AccessInv, PeopleInv
  <1>1. CASE PostExamAsks(r) \/ PutRosterAsks(r)
    BY <1>1, OpensEntry DEF PostExamAsks, PutRosterAsks
  <1>2. CASE PostExamFindsOpen(r)
    BY <1>2, FindsOpenEntry DEF PostExamFindsOpen
  <1>3. CASE PostExamChecks(r)
    BY <1>0, <1>3, AdvancesEntry, RefusedEntry DEF PostExamChecks, rosterNamesEnrolledStudents
  <1>4. CASE PutRosterChecks(r)
    BY <1>0, <1>4, AdvancesEntry, RefusedEntry DEF PutRosterChecks, rosterNamesEnrolledStudents
  <1>5. CASE PutPaper(r)
    BY <1>5, OpensEntry, AdvancesEntry, RefusedEntry, AnswersEntry DEF PutPaper, Rest
  <1>6. CASE PostExamWrites(r) \/ PutRosterWrites(r)
    <2>1. /\ req' = [req EXCEPT ![r] = Idle]
          /\ UNCHANGED <<enrolled, work, via, told, barred>>
      BY <1>6 DEF PostExamWrites, PutRosterWrites, Answers
    <2>2. \A u \in roster' : via'[u] # {}
      BY <1>6 DEF PostExamWrites, PutRosterWrites, Waits, EntryInv, Vetted
    <2>3. /\ Grows /\ work' \subseteq opened' /\ barred' \cap enrolled' = {}
          /\ told' \cap barred' \subseteq {Owner}
      BY <2>1 DEF Grows, EntryInv
    <2> QED
      BY <2>1, <2>2, <2>3, EntryKeeps
  <1> QED
    BY <1>1, <1>2, <1>3, <1>4, <1>5, <1>6 DEF ExamRequest

LEMMA SubmitEntry ==
  ASSUME AccessInv, EntryInv, NEW r \in Slots, opened' = opened \cup Readable',
         SubmitRequest(r)
  PROVE  EntryInv'
  <1>1. CASE SubmitAsks(r)
    <2>1. PICK u \in Users, p \in Problems, named \in BOOLEAN :
            canAccessProblem(u, p) /\ Opens(r, "submit", u, [problem |-> p, exam |-> named])
      BY <1>1 DEF SubmitAsks
    <2>2. <<u, p>> \in opened
      BY <2>1 DEF EntryInv, Readable
    <2> QED
      BY <2>1, <2>2, OpensEntry
  <1>2. CASE SubmitFindsOpen(r)
    BY <1>2, FindsOpenEntry DEF SubmitFindsOpen
  <1>3. CASE SubmitFindsExam(r) \/ SubmitFindsCases(r)
    BY <1>3, AdvancesEntry, RefusedEntry DEF SubmitFindsExam, SubmitFindsCases
  <1>4. CASE SubmitWrites(r)
    <2>1. /\ req' = [req EXCEPT ![r] = Idle]
          /\ work' \subseteq work \cup {<<req[r].who, req[r].arg.problem>>}
          /\ UNCHANGED <<enrolled, roster, via, told, barred>>
      BY <1>4 DEF SubmitWrites, Answers
    <2>2. <<req[r].who, req[r].arg.problem>> \in opened
      BY <1>4 DEF SubmitWrites, Waits, EntryInv, Vetted
    <2>3. /\ Grows /\ \A u \in roster' : via'[u] # {}
          /\ work' \subseteq opened' /\ barred' \cap enrolled' = {}
          /\ told' \cap barred' \subseteq {Owner}
      BY <2>1, <2>2 DEF Grows, EntryInv
    <2> QED
      BY <2>1, <2>3, EntryKeeps
  <1> QED
    BY <1>1, <1>2, <1>3, <1>4 DEF SubmitRequest

LEMMA EntryStep ==
  ASSUME AccessInv, EntryInv, [CourseNext]_courseVars
  PROVE  EntryInv'
  <1>1. CASE UNCHANGED courseVars
    BY <1>1 DEF courseVars, tables, EntryInv, Vetted, Readable, canAccessProblem, courseScope,
       teachesCourse, examGate, examRoster
  <1>2. CASE opened' = opened \cup Readable' /\ (ListCourses \/ GivesCode \/ ExamStarts)
    <2>1. PICK u : /\ told' \subseteq told \cup {u} /\ barred' \subseteq barred
                   /\ u \in told' \ told => u \notin barred'
                   /\ UNCHANGED <<req, enrolled, roster, work, via>>
      BY <1>2 DEF ListCourses, GivesCode, LearnsCode, ExamStarts, tables
    <2>2. \A r \in Slots : req'[r] # Idle => Vetted(req'[r], via', opened', barred')
      BY <1>2, <2>1 DEF EntryInv, Vetted
    <2> QED
      BY <1>2, <2>1, <2>2 DEF EntryInv
  <1>3. ASSUME NEW r \in Slots, CourseRequest(r), opened' = opened \cup Readable'
        PROVE  EntryInv'
    BY <1>3, CourseEntry, AppointEntry, ImportEntry, JoinEntry DEF CourseRequest
  <1> QED
    BY <1>1, <1>2, <1>3, ContentEntry, ExamEntry, SubmitEntry DEF CourseNext

LEMMA EntrySuffices == EntryInv => NoSecondWayIn
  BY DEF EntryInv, NoSecondWayIn, NoQuietEnrolment, KeptOut

(* The guarded ways into a course are the only ones, however requests       *)
(* interleave: whoever is on a roster was enrolled, every submission is to  *)
(* a problem its author could open (exams.routes.js:46-52), and a replaced  *)
(* join code lets nobody in (courses.routes.js:387).                        *)
THEOREM OnlyWaysIn == CourseSpec => []NoSecondWayIn
  <1>1. CourseSpec => []AccessInv
    BY AccessInitialInv, AccessInvStep, PTL DEF CourseSpec
  <1>2. CourseSpec => []EntryInv
    BY <1>1, EntryInit, EntryStep, PTL DEF CourseSpec
  <1> QED
    BY <1>2, EntrySuffices, PTL

-----------------------------------------------------------------------------
(* A closed course.  Whoever asks whether the course is archived, and was    *)
(* let past the question, has seen it open.                                  *)
Asking == {"import", "problem", "exam", "submit"}

Entitled(j, a) ==
  /\ j.open \in BOOLEAN /\ (j.op = "course" => j.arg \in BOOLEAN)
  /\ ~a => j.open
  /\ j.op = "join" => j.open
  /\ j.op \in Asking /\ j.at # "checked" => j.open

OpenInv ==
  /\ archived \in BOOLEAN
  /\ \A r \in Slots : req[r] # Idle => Entitled(req[r], archived)

LEMMA OpenInit == CourseInit => OpenInv
  BY DEF CourseInit, OpenInv

LEMMA OpenKeeps ==
  ASSUME AccessInv, OpenInv, NEW r \in Slots, NEW j, req' = [req EXCEPT ![r] = j],
         j = Idle \/ Entitled(j, archived), archived' = archived
  PROVE  OpenInv'
  BY DEF AccessInv, ReqInv, OpenInv

LEMMA OpensOpen ==
  ASSUME AccessInv, OpenInv, NEW r \in Slots, NEW op, NEW who, NEW arg,
         Opens(r, op, who, arg),
         op = "course" => arg \in BOOLEAN, op = "join" => ~archived
  PROVE  OpenInv'
  <1> DEFINE j == [op |-> op, who |-> who, arg |-> arg, at |-> "checked", open |-> ~archived]
  <1>1. Entitled(j, archived)
    BY DEF Entitled
  <1>2. req' = [req EXCEPT ![r] = j] /\ archived' = archived
    BY DEF Opens, tables
  <1> QED
    BY <1>1, <1>2, OpenKeeps

LEMMA AdvancesOpen ==
  ASSUME AccessInv, OpenInv, NEW r \in Slots, NEW op, NEW from, NEW stage,
         Waits(r, op, from), Advances(r, stage),
         op \in Asking /\ from = "checked" => ~archived
  PROVE  OpenInv'
  <1> DEFINE j == [req[r] EXCEPT !.at = stage]
  <1>1. /\ Carries(req[r]) /\ Entitled(req[r], archived)
        /\ req[r].op = op /\ req[r].at = from
    BY DEF Waits, AccessInv, ReqInv, OpenInv
  <1>2. /\ j.op = op /\ j.arg = req[r].arg /\ j.at = stage /\ j.open = req[r].open
    BY <1>1 DEF Carries
  <1>3. Entitled(j, archived)
    BY <1>1, <1>2 DEF Entitled
  <1>4. req' = [req EXCEPT ![r] = j] /\ archived' = archived
    BY DEF Advances, tables
  <1> QED
    BY <1>3, <1>4, OpenKeeps

LEMMA AnswersOpen ==
  ASSUME AccessInv, OpenInv, NEW r \in Slots, Answers(r), archived' = archived
  PROVE  OpenInv'
  BY OpenKeeps DEF Answers

LEMMA RefusedOpen ==
  ASSUME AccessInv, OpenInv, NEW r \in Slots, Refused(r)
  PROVE  OpenInv'
  BY AnswersOpen DEF Refused, tables

LEMMA FindsOpenOpen ==
  ASSUME AccessInv, OpenInv, NEW r \in Slots, NEW op, NEW stage, FindsOpen(r, op, stage)
  PROVE  OpenInv'
  BY AdvancesOpen, RefusedOpen DEF FindsOpen

(* Opening the course again is seen by every request under way.             *)
LEMMA PutCourseOpen ==
  ASSUME AccessInv, OpenInv, NEW r \in Slots, PutCourse(r)
  PROVE  OpenInv'
  <1>1. CASE \E a \in BOOLEAN : ownsCourse(Owner) /\ Opens(r, "course", Owner, a)
    BY <1>1, OpensOpen
  <1>2. CASE /\ Waits(r, "course", "checked")
             /\ archived' = req[r].arg
             /\ req' = [s \in Slots |->
                          IF s = r \/ req[s] = Idle THEN Idle
                          ELSE [req[s] EXCEPT !.open = @ \/ ~req[r].arg]]
    <2>1. req[r].arg \in BOOLEAN
      BY <1>2 DEF Waits, OpenInv, Entitled
    <2>2. ASSUME NEW s \in Slots, req'[s] # Idle PROVE Entitled(req'[s], archived')
      <3>1. req[s] # Idle /\ req'[s] = [req[s] EXCEPT !.open = @ \/ ~req[r].arg]
        BY <1>2, <2>2
      <3>2. Carries(req[s]) /\ Entitled(req[s], archived)
        BY <3>1 DEF AccessInv, ReqInv, OpenInv
      <3>3. /\ req'[s].op = req[s].op /\ req'[s].arg = req[s].arg /\ req'[s].at = req[s].at
            /\ req'[s].open = (req[s].open \/ ~req[r].arg)
        BY <3>1, <3>2 DEF Carries
      <3> QED
        BY <1>2, <2>1, <3>2, <3>3 DEF Entitled
    <2> QED
      BY <1>2, <2>1, <2>2 DEF OpenInv
  <1> QED
    BY <1>1, <1>2 DEF PutCourse

LEMMA ImportWritesOpen ==
  ASSUME AccessInv, OpenInv, NEW r \in Slots, ImportWrites(r)
  PROVE  OpenInv'
  <1> DEFINE us == req[r].arg \ NotStudents(req[r].arg)
  <1>1. CASE us = {}
    BY <1>1, RefusedOpen DEF ImportWrites
  <1>2. CASE us # {}
    <2>1. PICK u \in us : req' = [req EXCEPT ![r].arg = us \ {u}] /\ archived' = archived
      BY <1>2 DEF ImportWrites
    <2> DEFINE j == [req[r] EXCEPT !.arg = us \ {u}]
    <2>2. Carries(req[r]) /\ Entitled(req[r], archived) /\ req[r].op = "import"
      BY DEF ImportWrites, Waits, AccessInv, ReqInv, OpenInv
    <2>3. j.op = "import" /\ j.at = req[r].at /\ j.open = req[r].open
      BY <2>2 DEF Carries
    <2>4. Entitled(j, archived)
      BY <2>2, <2>3 DEF Entitled
    <2>5. req' = [req EXCEPT ![r] = j]
      BY <2>1
    <2> QED
      BY <2>1, <2>4, <2>5, OpenKeeps
  <1> QED
    BY <1>1, <1>2

LEMMA OpenStep ==
  ASSUME AccessInv, OpenInv, [CourseNext]_courseVars
  PROVE  OpenInv'
  <1>1. CASE ListCourses \/ GivesCode \/ ExamStarts \/ UNCHANGED courseVars
    BY <1>1 DEF ListCourses, GivesCode, LearnsCode, ExamStarts, courseVars, tables, OpenInv
  <1>2. ASSUME NEW r \in Slots, CourseRequest(r) PROVE OpenInv'
    <2>1. CASE AppointAsks(r) \/ ImportAsks(r) \/ JoinLooksUp(r)
      BY <2>1, OpensOpen DEF AppointAsks, ImportAsks, JoinLooksUp
    <2>2. CASE AppointChecks(r)
      BY <2>2, AdvancesOpen, RefusedOpen DEF AppointChecks, Asking
    <2>3. CASE ImportChecks(r) \/ ImportFails(r)
      BY <2>3, FindsOpenOpen, RefusedOpen DEF ImportChecks, ImportFails
    <2>4. CASE AppointWrites(r) \/ JoinWrites(r)
      BY <2>4, AnswersOpen DEF AppointWrites, JoinWrites
    <2>5. CASE StandDown(r)
      BY <2>5, OpensOpen, AnswersOpen DEF StandDown
    <2>6. CASE Unenrol(r)
      BY <2>6, OpensOpen, AnswersOpen DEF Unenrol
    <2>7. CASE Regenerate(r)
      BY <2>7, OpensOpen, AnswersOpen DEF Regenerate
    <2> QED
      BY <1>2, <2>1, <2>2, <2>3, <2>4, <2>5, <2>6, <2>7, PutCourseOpen, ImportWritesOpen
      DEF CourseRequest
  <1>3. ASSUME NEW r \in Slots, ContentRequest(r) PROVE OpenInv'
    <2>1. CASE PostProblemAsks(r) \/ EditAsks(r)
      BY <2>1, OpensOpen DEF PostProblemAsks, EditAsks
    <2>2. CASE PostProblemChecks(r)
      BY <2>2, FindsOpenOpen DEF PostProblemChecks
    <2>3. CASE PostProblemWrites(r) \/ DeleteProblem(r) \/ AddTestCase(r) \/ DropTestCase(r)
      BY <2>3, AnswersOpen DEF PostProblemWrites, DeleteProblem, AddTestCase, DropTestCase
    <2> QED
      BY <1>3, <2>1, <2>2, <2>3 DEF ContentRequest
  <1>4. ASSUME NEW r \in Slots, ExamRequest(r) PROVE OpenInv'
    <2>1. CASE PostExamAsks(r)
      BY <2>1, OpensOpen DEF PostExamAsks
    <2>2. CASE PostExamFindsOpen(r)
      BY <2>2, FindsOpenOpen DEF PostExamFindsOpen
    <2>3. CASE PostExamChecks(r) \/ PutRosterChecks(r)
      BY <2>3, AdvancesOpen, RefusedOpen DEF PostExamChecks, PutRosterChecks, Asking
    <2>4. CASE PostExamWrites(r) \/ PutRosterWrites(r)
      BY <2>4, AnswersOpen DEF PostExamWrites, PutRosterWrites
    <2>5. CASE PutPaper(r)
      BY <2>5, OpensOpen, AdvancesOpen, RefusedOpen, AnswersOpen DEF PutPaper, Asking
    <2>6. CASE PutRosterAsks(r)
      BY <2>6, OpensOpen DEF PutRosterAsks
    <2> QED
      BY <1>4, <2>1, <2>2, <2>3, <2>4, <2>5, <2>6 DEF ExamRequest
  <1>5. ASSUME NEW r \in Slots, SubmitRequest(r) PROVE OpenInv'
    <2>1. CASE SubmitAsks(r)
      BY <2>1, OpensOpen DEF SubmitAsks
    <2>2. CASE SubmitFindsOpen(r)
      BY <2>2, FindsOpenOpen DEF SubmitFindsOpen
    <2>3. CASE SubmitFindsExam(r) \/ SubmitFindsCases(r)
      BY <2>3, AdvancesOpen, RefusedOpen DEF SubmitFindsExam, SubmitFindsCases
    <2>4. CASE SubmitWrites(r)
      BY <2>4, AnswersOpen DEF SubmitWrites
    <2> QED
      BY <1>5, <2>1, <2>2, <2>3, <2>4 DEF SubmitRequest
  <1> QED
    BY <1>1, <1>2, <1>3, <1>4, <1>5 DEF CourseNext

-----------------------------------------------------------------------------
(* Nobody and nothing is taken in. *)
TakesNothing ==
  /\ enrolled' \subseteq enrolled /\ problems' \subseteq problems /\ work' \subseteq work
  /\ sitting = "none" => sitting' = "none"

LEMMA QuietTakesNothing ==
  ASSUME NEW r \in Slots, Refused(r) \/ \E stage \in {"write", "open", "exam", "cases"} : Advances(r, stage)
  PROVE  TakesNothing
  BY DEF Refused, Advances, tables, TakesNothing

LEMMA OpensTakesNothing ==
  ASSUME NEW r \in Slots, NEW op, NEW who, NEW arg, Opens(r, op, who, arg)
  PROVE  TakesNothing
  BY DEF Opens, tables, TakesNothing

(* A request that may add something has seen the course open.               *)
LEMMA WritersSawItOpen ==
  ASSUME OpenInv, NEW r \in Slots,
         \/ \E op \in Asking : Waits(r, op, "write")
         \/ Waits(r, "join", "checked")
  PROVE  SawItOpen(r)
  BY DEF OpenInv, Entitled, Waits, SawItOpen

LEMMA ClosedStep ==
  ASSUME AccessInv, OpenInv, [CourseNext]_courseVars, \A r \in Slots : ~SawItOpen(r)
  PROVE  TakesNothing
  <1>1. CASE ListCourses \/ GivesCode \/ ExamStarts \/ UNCHANGED courseVars
    BY <1>1 DEF ListCourses, GivesCode, LearnsCode, ExamStarts, courseVars, tables, TakesNothing
  <1>2. ASSUME NEW r \in Slots, CourseRequest(r) PROVE TakesNothing
    <2>1. CASE AppointAsks(r) \/ ImportAsks(r) \/ JoinLooksUp(r)
      BY <2>1, OpensTakesNothing DEF AppointAsks, ImportAsks, JoinLooksUp
    <2>2. CASE AppointChecks(r) \/ ImportChecks(r) \/ ImportFails(r)
      BY <2>2, QuietTakesNothing DEF AppointChecks, ImportChecks, ImportFails, FindsOpen
    <2>3. CASE ImportWrites(r) \/ JoinWrites(r)
      BY <2>3, WritersSawItOpen DEF ImportWrites, JoinWrites, Asking
    <2>4. CASE PutCourse(r) \/ AppointWrites(r) \/ StandDown(r)
      BY <2>4, OpensTakesNothing DEF PutCourse, AppointWrites, StandDown, TakesNothing
    <2>5. CASE Unenrol(r) \/ Regenerate(r)
      BY <2>5, OpensTakesNothing DEF Unenrol, Regenerate, TakesNothing
    <2> QED
      BY <1>2, <2>1, <2>2, <2>3, <2>4, <2>5 DEF CourseRequest
  <1>3. ASSUME NEW r \in Slots, ContentRequest(r) PROVE TakesNothing
    <2>1. CASE PostProblemAsks(r) \/ EditAsks(r)
      BY <2>1, OpensTakesNothing DEF PostProblemAsks, EditAsks
    <2>2. CASE PostProblemChecks(r)
      BY <2>2, QuietTakesNothing DEF PostProblemChecks, FindsOpen
    <2>3. CASE PostProblemWrites(r)
      BY <2>3, WritersSawItOpen DEF PostProblemWrites, Asking
    <2>4. CASE DeleteProblem(r) \/ AddTestCase(r) \/ DropTestCase(r)
      BY <2>4 DEF DeleteProblem, AddTestCase, DropTestCase, TakesNothing
    <2> QED
      BY <1>3, <2>1, <2>2, <2>3, <2>4 DEF ContentRequest
  <1>4. ASSUME NEW r \in Slots, ExamRequest(r) PROVE TakesNothing
    <2>1. CASE PostExamAsks(r) \/ PutRosterAsks(r)
      BY <2>1, OpensTakesNothing DEF PostExamAsks, PutRosterAsks
    <2>2. CASE PostExamFindsOpen(r) \/ PostExamChecks(r) \/ PutRosterChecks(r)
      BY <2>2, QuietTakesNothing DEF PostExamFindsOpen, PostExamChecks, PutRosterChecks, FindsOpen
    <2>3. CASE PostExamWrites(r)
      BY <2>3, WritersSawItOpen DEF PostExamWrites, Asking
    <2>4. CASE PutRosterWrites(r)
      BY <2>4 DEF PutRosterWrites, TakesNothing
    <2>5. CASE PutPaper(r)
      BY <2>5, OpensTakesNothing, QuietTakesNothing DEF PutPaper, TakesNothing
    <2> QED
      BY <1>4, <2>1, <2>2, <2>3, <2>4, <2>5 DEF ExamRequest
  <1>5. ASSUME NEW r \in Slots, SubmitRequest(r) PROVE TakesNothing
    <2>1. CASE SubmitAsks(r)
      BY <2>1, OpensTakesNothing DEF SubmitAsks
    <2>2. CASE SubmitFindsOpen(r) \/ SubmitFindsExam(r) \/ SubmitFindsCases(r)
      BY <2>2, QuietTakesNothing DEF SubmitFindsOpen, SubmitFindsExam, SubmitFindsCases, FindsOpen
    <2>3. CASE SubmitWrites(r)
      BY <2>3, WritersSawItOpen DEF SubmitWrites, Asking
    <2> QED
      BY <1>5, <2>1, <2>2, <2>3 DEF SubmitRequest
  <1> QED
    BY <1>1, <1>2, <1>3, <1>4, <1>5 DEF CourseNext

(* An archived course takes no student, problem, exam or submission, but    *)
(* from a request that was under way while it was open                      *)
(* (courseAccess.service.js:199).                                           *)
THEOREM ClosedIsClosed == CourseSpec => ClosedTakesNothing
  <1>1. CourseSpec => []AccessInv
    BY AccessInitialInv, AccessInvStep, PTL DEF CourseSpec
  <1>2. CourseSpec => []OpenInv
    BY <1>1, OpenInit, OpenStep, PTL DEF CourseSpec
  <1>3. ASSUME AccessInv, OpenInv, [CourseNext]_courseVars
        PROVE  [archived /\ (\A r \in Slots : ~SawItOpen(r)) =>
                  /\ enrolled' \subseteq enrolled
                  /\ problems' \subseteq problems
                  /\ work' \subseteq work
                  /\ sitting = "none" => sitting' = "none"]_courseVars
    BY <1>3, ClosedStep DEF TakesNothing
  <1> QED
    BY <1>1, <1>2, <1>3, PTL DEF CourseSpec, ClosedTakesNothing

-----------------------------------------------------------------------------
(***************************************************************************)
(* The types: what a request may name, and what the tables may hold.       *)
(***************************************************************************)

Names(j) ==
  /\ j.op \in Ops /\ j.who \in Users
  /\ j.op = "course" => j.arg \in BOOLEAN
  /\ j.op = "join" => j.who # Owner
  /\ j.op \in {"delete", "addcase", "dropcase"} => j.arg \in Problems

NamesInv == \A r \in Slots : req[r] # Idle => Names(req[r])

TablesInv ==
  /\ archived \in BOOLEAN /\ code \in 1 .. MaxCodes /\ served \in 0 .. MaxRequests
  /\ staff \subseteq Teachers /\ enrolled \subseteq Users \ {Owner}
  /\ problems \subseteq Problems \ gone /\ testCases \in [Problems -> 0 .. MaxCases]
  /\ sitting \in {"none", "scheduled", "started"}
  /\ paper \subseteq problems /\ roster \subseteq Users
  /\ work \subseteq Users \X problems

LEMMA OpensNames ==
  ASSUME NamesInv, AccessInv, NEW r \in Slots, NEW op, NEW who, NEW arg, Opens(r, op, who, arg),
         op \in Ops, who \in Users,
         op = "course" => arg \in BOOLEAN,
         op = "join" => who # Owner,
         op \in {"delete", "addcase", "dropcase"} => arg \in Problems
  PROVE  NamesInv'
  <1> DEFINE j == [op |-> op, who |-> who, arg |-> arg, at |-> "checked", open |-> ~archived]
  <1>1. req' = [req EXCEPT ![r] = j]
    BY DEF Opens
  <1>2. Names(j)
    BY DEF Names
  <1> HIDE DEF j
  <1> QED
    BY <1>1, <1>2 DEF NamesInv, AccessInv, ReqInv

LEMMA AdvancesNames ==
  ASSUME NamesInv, AccessInv, NEW r \in Slots, NEW stage, req[r] # Idle, Advances(r, stage)
  PROVE  NamesInv'
  <1> DEFINE j == [req[r] EXCEPT !.at = stage]
  <1>1. Carries(req[r]) /\ Names(req[r])
    BY DEF AccessInv, ReqInv, NamesInv
  <1>2. j.op = req[r].op /\ j.who = req[r].who /\ j.arg = req[r].arg
    BY <1>1 DEF Carries
  <1>3. Names(j)
    BY <1>1, <1>2 DEF Names
  <1>4. req' = [req EXCEPT ![r] = j]
    BY DEF Advances
  <1> HIDE DEF j
  <1> QED
    BY <1>3, <1>4 DEF NamesInv, AccessInv, ReqInv

LEMMA AnswersNames ==
  ASSUME NamesInv, AccessInv, NEW r \in Slots, Answers(r)
  PROVE  NamesInv'
  BY DEF NamesInv, Answers, AccessInv, ReqInv

LEMMA RefusedNames ==
  ASSUME NamesInv, AccessInv, NEW r \in Slots, Refused(r)
  PROVE  NamesInv'
  BY AnswersNames DEF Refused

LEMMA FindsOpenNames ==
  ASSUME NamesInv, AccessInv, NEW r \in Slots, NEW op, NEW stage, FindsOpen(r, op, stage)
  PROVE  NamesInv'
  BY AdvancesNames, RefusedNames DEF FindsOpen, Waits

LEMMA CourseNames ==
  ASSUME NamesInv, AccessInv, TablesInv, NEW r \in Slots, CourseRequest(r)
  PROVE  NamesInv'
  <1> USE DEF Ops
  <1>0. Owner \in Users /\ Teachers \subseteq Users
    BY DEF Users, Teachers
  <1>1. CASE PutCourse(r)
    <2>1. CASE \E a \in BOOLEAN : ownsCourse(Owner) /\ Opens(r, "course", Owner, a)
      BY <1>0, <2>1, OpensNames
    <2>2. CASE req' = [s \in Slots |->
                         IF s = r \/ req[s] = Idle THEN Idle
                         ELSE [req[s] EXCEPT !.open = @ \/ ~req[r].arg]]
      <3>1. ASSUME NEW s \in Slots, req'[s] # Idle PROVE Names(req'[s])
        <4>1. req[s] # Idle /\ req'[s] = [req[s] EXCEPT !.open = @ \/ ~req[r].arg]
          BY <2>2, <3>1
        <4>2. Carries(req[s]) /\ Names(req[s])
          BY <4>1 DEF AccessInv, ReqInv, NamesInv
        <4>3. /\ req'[s].op = req[s].op /\ req'[s].who = req[s].who
              /\ req'[s].arg = req[s].arg
          BY <4>1, <4>2 DEF Carries
        <4> QED
          BY <4>2, <4>3 DEF Names
      <3> QED
        BY <3>1 DEF NamesInv
    <2> QED
      BY <1>1, <2>1, <2>2 DEF PutCourse
  <1>2. CASE AppointAsks(r)
    BY <1>0, <1>2, OpensNames DEF AppointAsks
  <1>3. CASE AppointChecks(r)
    BY <1>3, AdvancesNames, RefusedNames DEF AppointChecks, Waits
  <1>4. CASE AppointWrites(r) \/ JoinWrites(r)
    BY <1>4, AnswersNames DEF AppointWrites, JoinWrites
  <1>5. CASE StandDown(r) \/ Unenrol(r) \/ Regenerate(r)
    <2>1. CASE StandDown(r)
      BY <1>0, <2>1, OpensNames, AnswersNames DEF StandDown
    <2>2. CASE Unenrol(r)
      BY <1>0, <2>2, OpensNames, AnswersNames DEF Unenrol
    <2>3. CASE Regenerate(r)
      BY <1>0, <2>3, OpensNames, AnswersNames DEF Regenerate
    <2> QED
      BY <1>5, <2>1, <2>2, <2>3
  <1>6. CASE ImportAsks(r)
    BY <1>0, <1>6, OpensNames DEF ImportAsks
  <1>7. CASE ImportChecks(r)
    BY <1>7, FindsOpenNames DEF ImportChecks
  <1>8. CASE ImportWrites(r)
    <2> DEFINE us == req[r].arg \ NotStudents(req[r].arg)
    <2>1. CASE us = {}
      BY <1>8, <2>1, RefusedNames DEF ImportWrites
    <2>2. CASE us # {}
      <3>1. PICK u \in us : req' = [req EXCEPT ![r].arg = us \ {u}]
        BY <1>8, <2>2 DEF ImportWrites
      <3> DEFINE j == [req[r] EXCEPT !.arg = us \ {u}]
      <3>2. Carries(req[r]) /\ Names(req[r]) /\ req[r].op = "import"
        BY <1>8 DEF ImportWrites, Waits, AccessInv, ReqInv, NamesInv
      <3>3. Names(j)
        BY <3>2 DEF Carries, Names
      <3>4. req' = [req EXCEPT ![r] = j]
        BY <3>1
      <3> HIDE DEF j
      <3> QED
        BY <3>3, <3>4 DEF NamesInv, AccessInv, ReqInv
    <2> QED
      BY <2>1, <2>2
  <1>9. CASE ImportFails(r)
    BY <1>9, RefusedNames DEF ImportFails
  <1>10. CASE JoinLooksUp(r)
    BY <1>10, OpensNames DEF JoinLooksUp
  <1> QED
    BY <1>1, <1>2, <1>3, <1>4, <1>5, <1>6, <1>7, <1>8, <1>9, <1>10 DEF CourseRequest

LEMMA OtherNames ==
  ASSUME NamesInv, AccessInv, TablesInv, NEW r \in Slots,
         ContentRequest(r) \/ ExamRequest(r) \/ SubmitRequest(r)
  PROVE  NamesInv'
  <1> USE DEF Ops
  <1>0. Teachers \subseteq Users /\ problems \subseteq Problems
    BY DEF Users, TablesInv
  <1>1. CASE PostProblemAsks(r)
    BY <1>0, <1>1, OpensNames DEF PostProblemAsks
  <1>2. CASE EditAsks(r)
    <2>1. PICK who \in Teachers, p \in problems, op \in {"delete", "addcase", "dropcase"} :
            Opens(r, op, who, p)
      BY <1>2 DEF EditAsks
    <2> QED
      BY <1>0, <2>1, OpensNames
  <1>3. CASE PostProblemChecks(r) \/ PostExamFindsOpen(r) \/ SubmitFindsOpen(r)
    BY <1>3, FindsOpenNames DEF PostProblemChecks, PostExamFindsOpen, SubmitFindsOpen
  <1>4. CASE \/ PostProblemWrites(r) \/ DeleteProblem(r) \/ AddTestCase(r) \/ DropTestCase(r)
             \/ PostExamWrites(r) \/ PutRosterWrites(r) \/ SubmitWrites(r)
    BY <1>4, AnswersNames DEF PostProblemWrites, DeleteProblem, AddTestCase, DropTestCase,
       PostExamWrites, PutRosterWrites, SubmitWrites
  <1>5. CASE PostExamAsks(r)
    BY <1>0, <1>5, OpensNames DEF PostExamAsks
  <1>6. CASE PutRosterAsks(r)
    BY <1>0, <1>6, OpensNames DEF PutRosterAsks
  <1>7. CASE PostExamChecks(r) \/ PutRosterChecks(r) \/ SubmitFindsExam(r) \/ SubmitFindsCases(r)
    BY <1>7, AdvancesNames, RefusedNames DEF PostExamChecks, PutRosterChecks, SubmitFindsExam,
       SubmitFindsCases, Waits
  <1>8. CASE PutPaper(r)
    BY <1>0, <1>8, OpensNames, AdvancesNames, RefusedNames, AnswersNames DEF PutPaper, Waits
  <1>9. CASE SubmitAsks(r)
    <2>1. \E u \in Users : \E arg : Opens(r, "submit", u, arg)
      BY <1>9 DEF SubmitAsks
    <2> QED
      BY <2>1, OpensNames
  <1> QED
    BY <1>1, <1>2, <1>3, <1>4, <1>5, <1>6, <1>7, <1>8, <1>9
       DEF ContentRequest, ExamRequest, SubmitRequest

LEMMA NamesStep ==
  ASSUME NamesInv, AccessInv, TablesInv, [CourseNext]_courseVars
  PROVE  NamesInv'
  <1>1. CASE ListCourses \/ GivesCode \/ ExamStarts \/ UNCHANGED courseVars
    <2>1. req' = req
      BY <1>1 DEF ListCourses, GivesCode, LearnsCode, ExamStarts, courseVars
    <2> QED
      BY <2>1 DEF NamesInv
  <1> QED
    BY <1>1, CourseNames, OtherNames DEF CourseNext

(* The steps that only ask change no table. *)
LEMMA AsksTables ==
  ASSUME TablesInv,
         \/ UNCHANGED <<tables, served>>
         \/ UNCHANGED tables /\ served < MaxRequests /\ served' = served + 1
  PROVE  TablesInv'
  <1>1. UNCHANGED tables /\ served' \in 0 .. MaxRequests
    BY BoundsAssumption DEF TablesInv
  <1> QED
    BY <1>1 DEF TablesInv, tables

LEMMA OpensTables ==
  ASSUME TablesInv, NEW r, NEW op, NEW who, NEW arg, Opens(r, op, who, arg)
  PROVE  TablesInv'
  BY AsksTables DEF Opens

LEMMA MovesTables ==
  ASSUME TablesInv, NEW r, Refused(r) \/ \E stage : Advances(r, stage)
  PROVE  TablesInv'
  BY AsksTables DEF Refused, Answers, Advances

LEMMA CourseTables ==
  ASSUME NamesInv, AccessInv, TablesInv, NEW r \in Slots, CourseRequest(r)
  PROVE  TablesInv'
  <1>1. CASE PutCourse(r)
    <2>1. CASE \E a \in BOOLEAN : ownsCourse(Owner) /\ Opens(r, "course", Owner, a)
      BY <2>1, OpensTables
    <2>2. CASE /\ Waits(r, "course", "checked") /\ archived' = req[r].arg
               /\ UNCHANGED <<served, staff, enrolled, code, problems, gone, testCases, sitting,
                              paper, roster, work>>
      <3>1. archived' \in BOOLEAN
        BY <2>2 DEF Waits, NamesInv, Names
      <3> QED
        BY <2>2, <3>1 DEF TablesInv
    <2> QED
      BY <1>1, <2>1, <2>2 DEF PutCourse
  <1>2. CASE AppointAsks(r) \/ ImportAsks(r) \/ JoinLooksUp(r)
    BY <1>2, OpensTables DEF AppointAsks, ImportAsks, JoinLooksUp
  <1>3. CASE AppointChecks(r) \/ ImportChecks(r) \/ ImportFails(r)
    BY <1>3, MovesTables DEF AppointChecks, ImportChecks, ImportFails, FindsOpen
  <1>4. CASE AppointWrites(r)
    <2>1. req[r].arg \in Teachers
      BY <1>4 DEF AppointWrites, Waits, AccessInv, ReqInv, Carries
    <2> QED
      BY <1>4, <2>1 DEF AppointWrites, Answers, TablesInv
  <1>5. CASE StandDown(r)
    <2>1. CASE \E u \in staff : Opens(r, "standdown", Owner, u)
      BY <2>1, OpensTables
    <2>2. CASE /\ staff' = staff \ {req[r].arg} /\ Answers(r)
               /\ UNCHANGED <<archived, enrolled, code, problems, gone, testCases, sitting, paper,
                              roster, work>>
      BY <2>2 DEF Answers, TablesInv
    <2> QED
      BY <1>5, <2>1, <2>2 DEF StandDown
  <1>6. CASE ImportWrites(r)
    <2> DEFINE us == req[r].arg \ NotStudents(req[r].arg)
    <2>1. CASE us = {}
      BY <1>6, <2>1, MovesTables DEF ImportWrites
    <2>2. CASE us # {}
      <3>1. PICK u \in us : /\ Enrols({u}, "import")
                            /\ UNCHANGED <<archived, staff, code, problems, gone, testCases, sitting,
                                           paper, roster, work, served>>
        BY <1>6, <2>2 DEF ImportWrites
      <3>2. u \in Users \ {Owner}
        BY RolesAssumption DEF NotStudents, Users, Teachers
      <3>3. enrolled' \subseteq Users \ {Owner}
        BY <3>1, <3>2 DEF Enrols, TablesInv
      <3> QED
        BY <3>1, <3>3 DEF TablesInv
    <2> QED
      BY <2>1, <2>2
  <1>7. CASE JoinWrites(r)
    <2>1. req[r].who \in Users \ {Owner}
      BY <1>7 DEF JoinWrites, Waits, NamesInv, Names
    <2>2. enrolled' \subseteq Users \ {Owner}
      BY <1>7, <2>1 DEF JoinWrites, Enrols, TablesInv
    <2> QED
      BY <1>7, <2>2 DEF JoinWrites, Answers, TablesInv
  <1>8. CASE Unenrol(r)
    <2>1. CASE \E who \in Teachers, u \in enrolled : Opens(r, "unenrol", who, u)
      BY <2>1, OpensTables
    <2>2. CASE /\ enrolled' = enrolled \ {req[r].arg} /\ Answers(r)
               /\ UNCHANGED <<archived, staff, code, problems, gone, testCases, sitting, paper,
                              roster, work>>
      BY <2>2 DEF Answers, TablesInv
    <2> QED
      BY <1>8, <2>1, <2>2 DEF Unenrol
  <1>9. CASE Regenerate(r)
    <2>1. CASE Opens(r, "code", Owner, "")
      BY <2>1, OpensTables
    <2>2. CASE /\ code < MaxCodes /\ code' = code + 1 /\ Answers(r)
               /\ UNCHANGED <<archived, staff, enrolled, problems, gone, testCases, sitting, paper,
                              roster, work>>
      <3>1. code' \in 1 .. MaxCodes
        BY <2>2, BoundsAssumption DEF TablesInv
      <3> QED
        BY <2>2, <3>1 DEF Answers, TablesInv
    <2> QED
      BY <1>9, <2>1, <2>2 DEF Regenerate
  <1> QED
    BY <1>1, <1>2, <1>3, <1>4, <1>5, <1>6, <1>7, <1>8, <1>9 DEF CourseRequest

LEMMA ContentTables ==
  ASSUME NamesInv, AccessInv, TablesInv, NEW r \in Slots, ContentRequest(r)
  PROVE  TablesInv'
  <1>1. CASE PostProblemAsks(r) \/ EditAsks(r)
    BY <1>1, OpensTables DEF PostProblemAsks, EditAsks
  <1>2. CASE PostProblemChecks(r)
    BY <1>2, MovesTables DEF PostProblemChecks, FindsOpen
  <1>3. CASE PostProblemWrites(r)
    <2>1. PICK p \in Problems \ (problems \cup gone) :
            problems' = problems \cup {p} /\ testCases' = [testCases EXCEPT ![p] = 1]
      BY <1>3 DEF PostProblemWrites
    <2>2. testCases' \in [Problems -> 0 .. MaxCases]
      BY <2>1, BoundsAssumption DEF TablesInv
    <2>3. /\ served' = served
          /\ UNCHANGED <<archived, staff, enrolled, code, gone, sitting, paper, roster, work>>
      BY <1>3 DEF PostProblemWrites, Answers
    <2> QED
      BY <2>1, <2>2, <2>3 DEF TablesInv
  <1>4. CASE DeleteProblem(r)
    <2> DEFINE p == req[r].arg
    <2>1. /\ problems' = problems \ {p} /\ gone' = gone \cup {p}
          /\ testCases' = [testCases EXCEPT ![p] = 0]
          /\ paper' = paper \ {p} /\ work' = {w \in work : w[2] # p}
          /\ served' = served
          /\ UNCHANGED <<archived, staff, enrolled, code, sitting, roster>>
      BY <1>4 DEF DeleteProblem, Answers
    <2> HIDE DEF p
    <2>2. testCases' \in [Problems -> 0 .. MaxCases]
      <3>1. testCases \in [Problems -> 0 .. MaxCases] /\ 0 \in 0 .. MaxCases
        BY BoundsAssumption DEF TablesInv
      <3>2. testCases' = [testCases EXCEPT ![p] = 0]
        BY <2>1
      <3> QED
        BY ONLY <3>1, <3>2
    <2>3. work' \subseteq Users \X problems'
      BY <2>1 DEF TablesInv
    <2> QED
      BY <2>1, <2>2, <2>3 DEF TablesInv
  <1>5. CASE AddTestCase(r) \/ DropTestCase(r)
    <2> DEFINE p == req[r].arg
    <2>1. p \in Problems
      BY <1>5 DEF AddTestCase, DropTestCase, Waits, NamesInv, Names
    <2>2. /\ \/ testCases' = testCases
             \/ testCases[p] < MaxCases /\ testCases' = [testCases EXCEPT ![p] = testCases[p] + 1]
             \/ testCases[p] > 0 /\ testCases' = [testCases EXCEPT ![p] = testCases[p] - 1]
          /\ served' = served
          /\ UNCHANGED <<archived, staff, enrolled, code, problems, gone, sitting, paper, roster, work>>
      BY <1>5 DEF AddTestCase, DropTestCase, Answers
    <2> HIDE DEF p
    <2> DEFINE n == testCases[p]
    <2>a. n \in 0 .. MaxCases /\ MaxCases \in Nat /\ testCases \in [Problems -> 0 .. MaxCases]
      BY <2>1, BoundsAssumption DEF TablesInv
    <2>b. \/ testCases' = testCases
          \/ n < MaxCases /\ testCases' = [testCases EXCEPT ![p] = n + 1]
          \/ n > 0 /\ testCases' = [testCases EXCEPT ![p] = n - 1]
      BY <2>2
    <2> HIDE DEF n
    <2>c. (n < MaxCases => n + 1 \in 0 .. MaxCases) /\ (n > 0 => n - 1 \in 0 .. MaxCases)
      BY ONLY <2>a
    <2>3. testCases' \in [Problems -> 0 .. MaxCases]
      BY <2>a, <2>b, <2>c
    <2> QED
      BY <2>2, <2>3 DEF TablesInv
  <1> QED
    BY <1>1, <1>2, <1>3, <1>4, <1>5 DEF ContentRequest

LEMMA ExamTables ==
  ASSUME NamesInv, AccessInv, TablesInv, NEW r \in Slots, ExamRequest(r) \/ SubmitRequest(r)
  PROVE  TablesInv'
  <1>1. CASE PostExamAsks(r) \/ PutRosterAsks(r) \/ SubmitAsks(r)
    BY <1>1, OpensTables DEF PostExamAsks, PutRosterAsks, SubmitAsks
  <1>2. CASE PostExamFindsOpen(r) \/ SubmitFindsOpen(r)
    BY <1>2, MovesTables DEF PostExamFindsOpen, SubmitFindsOpen, FindsOpen
  <1>3. CASE PostExamChecks(r) \/ PutRosterChecks(r) \/ SubmitFindsExam(r) \/ SubmitFindsCases(r)
    BY <1>3, MovesTables DEF PostExamChecks, PutRosterChecks, SubmitFindsExam, SubmitFindsCases
  <1>4. CASE PostExamWrites(r)
    <2>1. req[r].arg.roster \subseteq Users
      BY <1>4 DEF PostExamWrites, Waits, AccessInv, ReqInv, Carries, Users
    <2>2. /\ sitting' \in {"none", "scheduled", "started"}
          /\ paper' \subseteq problems /\ roster' \subseteq Users
      BY <1>4, <2>1 DEF PostExamWrites, TablesInv
    <2>3. /\ served' = served
          /\ UNCHANGED <<archived, staff, enrolled, code, problems, gone, testCases, work>>
      BY <1>4 DEF PostExamWrites, Answers
    <2> QED
      BY <2>2, <2>3 DEF TablesInv
  <1>5. CASE PutPaper(r)
    <2>1. CASE \E who \in Teachers, ps \in Papers : Opens(r, "paper", who, ps)
      BY <2>1, OpensTables
    <2>2. CASE Advances(r, "write") \/ Refused(r)
      BY <2>2, MovesTables
    <2>3. CASE /\ paper' = IF req[r].arg \subseteq problems THEN req[r].arg ELSE paper
               /\ Answers(r)
               /\ UNCHANGED <<archived, staff, enrolled, code, problems, gone, testCases, sitting,
                              roster, work>>
      <3>1. paper' \subseteq problems
        BY <2>3 DEF TablesInv
      <3> QED
        BY <2>3, <3>1 DEF Answers, TablesInv
    <2> QED
      BY <1>5, <2>1, <2>2, <2>3 DEF PutPaper
  <1>6. CASE PutRosterWrites(r)
    <2>1. req[r].arg \subseteq Users
      BY <1>6 DEF PutRosterWrites, Waits, AccessInv, ReqInv, Carries, Users
    <2> QED
      BY <1>6, <2>1 DEF PutRosterWrites, Answers, TablesInv
  <1>7. CASE SubmitWrites(r)
    <2> DEFINE p == req[r].arg.problem
    <2>1. req[r].who \in Users
      BY <1>7 DEF SubmitWrites, Waits, NamesInv, Names
    <2>2. work' = IF p \in problems THEN work \cup {<<req[r].who, p>>} ELSE work
      BY <1>7 DEF SubmitWrites
    <2> HIDE DEF p
    <2>3. work' \subseteq Users \X problems
      BY <2>1, <2>2 DEF TablesInv
    <2> QED
      BY <1>7, <2>3 DEF SubmitWrites, Answers, TablesInv
  <1> QED
    BY <1>1, <1>2, <1>3, <1>4, <1>5, <1>6, <1>7 DEF ExamRequest, SubmitRequest

LEMMA TablesStep ==
  ASSUME NamesInv, AccessInv, TablesInv, [CourseNext]_courseVars
  PROVE  TablesInv'
  <1>1. CASE ListCourses \/ GivesCode \/ UNCHANGED courseVars
    <2>1. UNCHANGED <<tables, served>>
      BY <1>1 DEF ListCourses, GivesCode, LearnsCode, courseVars
    <2> QED
      BY <2>1, AsksTables
  <1>2. CASE ExamStarts
    BY <1>2 DEF ExamStarts, TablesInv
  <1> QED
    BY <1>1, <1>2, CourseTables, ContentTables, ExamTables DEF CourseNext

(* Every row of the course's tables names accounts, problems and codes     *)
(* there are, and its paper and its work only problems that still exist.   *)
THEOREM CourseTyping == CourseSpec => []CourseTypeOK
  <1>1. CourseInit => NamesInv /\ TablesInv
    <2>1. CourseInit => NamesInv
      BY DEF CourseInit, NamesInv
    <2>a. 1 \in 1 .. MaxCodes /\ 0 \in 0 .. MaxRequests /\ 0 \in 0 .. MaxCases
      BY BoundsAssumption
    <2>b. ASSUME CourseInit PROVE TablesInv
      <3>1. testCases \in [Problems -> 0 .. MaxCases] /\ code \in 1 .. MaxCodes /\ served \in 0 .. MaxRequests
        BY <2>a, <2>b DEF CourseInit
      <3>2. archived = FALSE /\ sitting = "none" /\ staff = {} /\ enrolled = {} /\ problems = {}
            /\ paper = {} /\ roster = {} /\ work = {}
        BY <2>b DEF CourseInit
      <3> QED
        BY <3>1, <3>2 DEF TablesInv
    <2>2. CourseInit => TablesInv
      BY <2>b
    <2> QED
      BY <2>1, <2>2
  <1>2. AccessInv /\ NamesInv /\ TablesInv /\ [CourseNext]_courseVars => AccessInv' /\ NamesInv' /\ TablesInv'
    BY AccessInvStep, NamesStep, TablesStep
  <1>3. NamesInv /\ TablesInv => CourseTypeOK
    BY DEF NamesInv, Names, TablesInv, CourseTypeOK
  <1> QED
    BY <1>1, <1>2, <1>3, AccessInitialInv, PTL DEF CourseSpec

-----------------------------------------------------------------------------
(***************************************************************************)
(* GradeDesk, for any number of visits, cells, rows of extra time, clicks, *)
(* gradings and failures.                                                  *)
(***************************************************************************)

(***************************************************************************)
(* The inductive invariant.                                                *)
(***************************************************************************)

Tasks == Changes \cup {"done", "failed"}

RowRecords == [mark : NoMark .. Full, overridden : BOOLEAN]
BoxRecords == [on : BOOLEAN, open : BOOLEAN, input : NoMark .. Full + 1, busy : BOOLEAN,
               typed : BOOLEAN, moved : BOOLEAN]
DeskRecords ==
  [phase : {"away", "loading", "shown", "error"}, table : [Cells -> RowRecords],
   extra : [ExtraRows -> NoMark .. Full + 1], box : [Boxes -> BoxRecords], hasRows : BOOLEAN,
   read : Nat, newest : Nat, missed : BOOLEAN]

AskMessages    == [desk : Desks, op : {"results", "accommodations", "no answer"}]
RowsMessages   == [desk : Desks, op : {"rows"}, rows : [Cells -> RowRecords], read : Nat]
ExtraMessages  == [desk : Desks, op : {"extra"}, extra : [ExtraRows -> NoMark .. Full + 1]]
ChangeMessages == [desk : Desks, op : Changes, box : Boxes, value : NoMark .. Full + 1, typed : BOOLEAN]
EndMessages    == [desk : Desks, op : {"done", "failed"}, box : Boxes]
Messages == AskMessages \cup RowsMessages \cup ExtraMessages \cup ChangeMessages \cup EndMessages

DeskTypes ==
  /\ auto \in [Cells -> NoMark .. Full] /\ stored \in [Boxes -> NoMark .. Full + 1]
  /\ \A c \in Cells : stored[c] <= Full
  /\ desk \in [Desks -> DeskRecords] /\ wire \subseteq Messages
  /\ reads \in Nat /\ last \in [Boxes -> [to : NoMark .. Full + 1, calm : BOOLEAN]]
  /\ mover \in [Boxes -> SUBSET Desks]

(* A box has its row, and a row its grading. *)
Backed ==
  /\ \A d \in Desks, c \in Cells :
       /\ desk[d].table[c] # NoRow => desk[d].hasRows /\ auto[c] # NoMark
       /\ desk[d].box[c].on => desk[d].hasRows /\ auto[c] # NoMark
  /\ \A m \in wire : m.op = "rows" => \A c \in Cells : m.rows[c] # NoRow => auto[c] # NoMark

(* A busy box is one with a change under way, or its answer. *)
OneTask ==
  /\ \A d \in Desks, b \in Boxes : desk[d].box[b].busy => desk[d].box[b].on
  /\ \A m \in wire : m.op \in Tasks => desk[m.desk].box[m.box].busy
  /\ \A m, n \in wire : m.op \in Tasks /\ n.op \in Tasks /\ m.desk = n.desk /\ m.box = n.box => m = n

Target(m) == IF m.op = "delete" \/ (m.box \in ExtraRows /\ m.value = 0) THEN NoMark ELSE m.value

(* While a box is calm, a change of it under way is the last click's. *)
Standing ==
  \A b \in Boxes : last[b].calm =>
    /\ \A m \in wire : m.op \in Changes /\ m.box = b => Target(m) = last[b].to
    /\ (\A m \in wire : m.op \in Changes => m.box # b) => stored[b] = last[b].to

(* Answers are numbered in the order they were read. *)
Numbered ==
  /\ \A d \in Desks : desk[d].read <= reads /\ desk[d].newest <= reads
  /\ \A m \in wire : m.op = "rows" => m.read <= reads

(* From the n-th read on, visit d is shown cell c as it is. *)
FreshFrom(n, d, c) ==
  /\ \A m \in wire : m.op = "rows" /\ m.desk = d /\ m.read >= n => m.rows[c] = Row(c)
  /\ desk[d].read >= n => desk[d].table[c] = Row(c)
  /\ desk[d].newest >= n \/ \E m \in wire : m.op = "rows" /\ m.desk = d /\ m.read >= n

(* The table is about to be loaded anew, or a load has failed. *)
WillLoad(d, c) ==
  \/ desk[d].missed
  \/ \E m \in wire : /\ m.desk = d
                     /\ \/ m.op \in {"results", "no answer"}
                        \/ m.op = "done" /\ m.box = c

Loading == \A d \in Desks, c \in Cells :
  mover[c] = {d} => WillLoad(d, c) \/ \E n \in Nat : FreshFrom(n, d, c)

(* An input nobody has typed into is what its box is worth, until the box has moved. *)
Harmless ==
  /\ ~slipped
  /\ \A d \in Desks, b \in Boxes :
       LET x == desk[d].box[b] IN x.on /\ ~x.typed /\ ~x.moved => x.input = Worth(b)
  /\ \A m \in wire : m.op = "put" /\ ~m.typed /\ ~desk[m.desk].box[m.box].moved =>
       m.value = Worth(m.box)

DeskInv == DeskTypes /\ Backed /\ OneTask /\ Standing /\ Numbered /\ Loading /\ Harmless

-----------------------------------------------------------------------------
(***************************************************************************)
(* What a step does to one box of one visit.                               *)
(***************************************************************************)

(* The box b of visit d becomes y, and nothing else of the visits changes. *)
BoxBecomes(k, d, b, y) ==
  /\ k \in [Desks -> DeskRecords]
  /\ \A e \in Desks : /\ k[e].table = desk[e].table /\ k[e].hasRows = desk[e].hasRows
                      /\ k[e].read = desk[e].read /\ k[e].newest = desk[e].newest
                      /\ k[e].missed = desk[e].missed
  /\ \A e \in Desks, a \in Boxes : e # d \/ a # b => k[e].box[a] = desk[e].box[a]
  /\ k[d].box[b] = y

LEMMA WithBox ==
  ASSUME desk \in [Desks -> DeskRecords], NEW d \in Desks, NEW b \in Boxes, NEW y \in BoxRecords
  PROVE  BoxBecomes([desk EXCEPT ![d].box[b] = y], d, b, y)
  <1> DEFINE k == [desk EXCEPT ![d].box[b] = y]
             q == [desk[d].box EXCEPT ![b] = y]
  <1>0. desk[d] \in DeskRecords /\ desk[d].box \in [Boxes -> BoxRecords]
    BY DEF DeskRecords
  <1>1. /\ DOMAIN k = Desks /\ k[d] = [desk[d] EXCEPT !.box = q]
        /\ \A e \in Desks : e # d => k[e] = desk[e]
    OBVIOUS
  <1>2. k = [e \in Desks |-> k[e]]
    OBVIOUS
  <1>3. q \in [Boxes -> BoxRecords] /\ q[b] = y /\ \A a \in Boxes : a # b => q[a] = desk[d].box[a]
    BY <1>0
  <1> HIDE DEF k, q
  <1>4. /\ k[d] \in DeskRecords /\ k[d].box = q
        /\ k[d].table = desk[d].table /\ k[d].hasRows = desk[d].hasRows
        /\ k[d].read = desk[d].read /\ k[d].newest = desk[d].newest
        /\ k[d].missed = desk[d].missed
    BY <1>0, <1>1, <1>3 DEF DeskRecords
  <1>5. k \in [Desks -> DeskRecords]
    BY <1>1, <1>2, <1>4
  <1>6. BoxBecomes(k, d, b, y)
    BY <1>1, <1>3, <1>4, <1>5 DEF BoxBecomes
  <1> QED
    BY <1>6 DEF k

LEMMA TypeMarkIs ==
  ASSUME DeskTypes, NEW d \in Desks, NEW b \in Boxes, NEW v \in 0 .. Full + 1
  PROVE  BoxBecomes([desk EXCEPT ![d].box[b].input = v, ![d].box[b].typed = TRUE], d, b,
                    [desk[d].box[b] EXCEPT !.input = v, !.typed = TRUE])
  <1> DEFINE x == desk[d].box[b]
             y == [x EXCEPT !.input = v, !.typed = TRUE]
  <1>1. x \in BoxRecords
    BY DEF DeskTypes, DeskRecords
  <1>2. [desk EXCEPT ![d].box[b].input = v, ![d].box[b].typed = TRUE] = [desk EXCEPT ![d].box[b] = y]
    BY ZenonT(60) DEF DeskTypes, DeskRecords
  <1> HIDE DEF x
  <1>3. v \in NoMark .. Full + 1
    BY DeskAssumption DEF NoMark
  <1>4. y \in BoxRecords
    BY <1>1, <1>3 DEF BoxRecords
  <1> HIDE DEF y
  <1>5. BoxBecomes([desk EXCEPT ![d].box[b] = y], d, b, y)
    BY <1>4, WithBox DEF DeskTypes
  <1> QED
    BY <1>2, <1>5 DEF x, y

LEMMA ToggleIs ==
  ASSUME DeskTypes, NEW d \in Desks, NEW b \in Boxes
  PROVE  BoxBecomes([desk EXCEPT ![d].box[b].open = ~@], d, b,
                    [desk[d].box[b] EXCEPT !.open = ~@])
  <1> DEFINE x == desk[d].box[b]
             y == [x EXCEPT !.open = ~@]
  <1>1. x \in BoxRecords
    BY DEF DeskTypes, DeskRecords
  <1>2. [desk EXCEPT ![d].box[b].open = ~@] = [desk EXCEPT ![d].box[b] = y]
    BY DEF DeskTypes, DeskRecords
  <1> HIDE DEF x
  <1>4. y \in BoxRecords
    BY <1>1 DEF BoxRecords
  <1> HIDE DEF y
  <1>5. BoxBecomes([desk EXCEPT ![d].box[b] = y], d, b, y)
    BY <1>4, WithBox DEF DeskTypes
  <1> QED
    BY <1>2, <1>5 DEF x, y

LEMMA ClickIs ==
  ASSUME DeskTypes, NEW d \in Desks, NEW b \in Boxes
  PROVE  BoxBecomes([desk EXCEPT ![d].box[b].busy = TRUE], d, b,
                    [desk[d].box[b] EXCEPT !.busy = TRUE])
  <1> DEFINE x == desk[d].box[b]
             y == [x EXCEPT !.busy = TRUE]
  <1>1. x \in BoxRecords
    BY DEF DeskTypes, DeskRecords
  <1>2. [desk EXCEPT ![d].box[b].busy = TRUE] = [desk EXCEPT ![d].box[b] = y]
    BY DEF DeskTypes, DeskRecords
  <1> HIDE DEF x
  <1>4. y \in BoxRecords
    BY <1>1 DEF BoxRecords
  <1> HIDE DEF y
  <1>5. BoxBecomes([desk EXCEPT ![d].box[b] = y], d, b, y)
    BY <1>4, WithBox DEF DeskTypes
  <1> QED
    BY <1>2, <1>5 DEF x, y

LEMMA EndIs ==
  ASSUME DeskTypes, NEW d \in Desks, NEW b \in Boxes, NEW stays \in BOOLEAN
  PROVE  BoxBecomes([desk EXCEPT ![d].box[b] = Ended(@, stays)], d, b,
                    Ended(desk[d].box[b], stays))
  <1> DEFINE x == desk[d].box[b]
             y == Ended(x, stays)
  <1>1. x \in BoxRecords
    BY DEF DeskTypes, DeskRecords
  <1>2. [desk EXCEPT ![d].box[b] = Ended(@, stays)] = [desk EXCEPT ![d].box[b] = y]
    OBVIOUS
  <1> HIDE DEF x
  <1>4. y \in BoxRecords
    BY <1>1 DEF BoxRecords, Ended
  <1> HIDE DEF y
  <1>5. BoxBecomes([desk EXCEPT ![d].box[b] = y], d, b, y)
    BY <1>4, WithBox DEF DeskTypes
  <1> QED
    BY <1>2, <1>5 DEF x, y

(* A mark moves. *)
Moves(b) == [d \in Desks |-> IF desk[d].box[b].on THEN [desk[d] EXCEPT !.box[b].moved = TRUE] ELSE desk[d]]

LEMMA MovesIs ==
  ASSUME DeskTypes, NEW b \in Boxes
  PROVE  /\ Moves(b) \in [Desks -> DeskRecords]
         /\ \A e \in Desks : /\ Moves(b)[e].table = desk[e].table /\ Moves(b)[e].hasRows = desk[e].hasRows
                             /\ Moves(b)[e].read = desk[e].read /\ Moves(b)[e].newest = desk[e].newest
                             /\ Moves(b)[e].missed = desk[e].missed
         /\ \A e \in Desks, a \in Boxes : a # b => Moves(b)[e].box[a] = desk[e].box[a]
         /\ \A e \in Desks : /\ Moves(b)[e].box[b].on = desk[e].box[b].on
                             /\ Moves(b)[e].box[b].busy = desk[e].box[b].busy
                             /\ Moves(b)[e].box[b].typed = desk[e].box[b].typed
                             /\ Moves(b)[e].box[b].input = desk[e].box[b].input
                             /\ desk[e].box[b].on => Moves(b)[e].box[b].moved
  <1> DEFINE k == Moves(b)
  <1>1. ASSUME NEW e \in Desks
        PROVE  /\ k[e] \in DeskRecords
               /\ k[e].table = desk[e].table /\ k[e].hasRows = desk[e].hasRows
               /\ k[e].read = desk[e].read /\ k[e].newest = desk[e].newest
               /\ k[e].missed = desk[e].missed
               /\ \A a \in Boxes : a # b => k[e].box[a] = desk[e].box[a]
               /\ k[e].box[b].on = desk[e].box[b].on /\ k[e].box[b].busy = desk[e].box[b].busy
               /\ k[e].box[b].typed = desk[e].box[b].typed /\ k[e].box[b].input = desk[e].box[b].input
               /\ desk[e].box[b].on => k[e].box[b].moved
    <2> DEFINE r == desk[e]
               x == r.box[b]
               y == [x EXCEPT !.moved = TRUE]
               q == [r.box EXCEPT ![b] = y]
    <2>1. r \in DeskRecords
      BY DEF DeskTypes
    <2>2. k[e] = IF x.on THEN [r EXCEPT !.box = q] ELSE r
      BY DEF Moves
    <2> HIDE DEF r, k
    <2>3. r.box \in [Boxes -> BoxRecords] /\ x \in BoxRecords
      BY <2>1 DEF DeskRecords
    <2> HIDE DEF x
    <2>4. /\ y \in BoxRecords /\ y.on = x.on /\ y.busy = x.busy /\ y.typed = x.typed
          /\ y.input = x.input /\ y.moved
      BY <2>3 DEF BoxRecords
    <2> HIDE DEF y
    <2>5. q \in [Boxes -> BoxRecords] /\ q[b] = y /\ \A a \in Boxes : a # b => q[a] = r.box[a]
      BY <2>3, <2>4
    <2> HIDE DEF q
    <2>6. CASE x.on
      <3>1. /\ k[e] \in DeskRecords /\ k[e].box = q
            /\ k[e].table = r.table /\ k[e].hasRows = r.hasRows
            /\ k[e].read = r.read /\ k[e].newest = r.newest /\ k[e].missed = r.missed
        BY <2>1, <2>2, <2>5, <2>6 DEF DeskRecords
      <3> QED
        BY <2>4, <2>5, <3>1 DEF r, x
    <2>7. CASE ~x.on
      BY <2>1, <2>2, <2>7 DEF r, x
    <2> QED
      BY <2>6, <2>7
  <1>2. k = [e \in Desks |-> k[e]]
    BY DEF Moves
  <1> HIDE DEF k
  <1>3. k \in [Desks -> DeskRecords]
    BY <1>1, <1>2
  <1> QED
    BY <1>1, <1>3 DEF k

-----------------------------------------------------------------------------
(***************************************************************************)
(* What messages say, and what their arrival shows.                        *)
(***************************************************************************)

LEMMA MessageIs ==
  ASSUME DeskTypes, NEW m \in wire
  PROVE  /\ m \in Messages /\ m.desk \in Desks
         /\ m.op = "rows" => m.rows \in [Cells -> RowRecords] /\ m.read \in Nat
         /\ m.op = "extra" => m.extra \in [ExtraRows -> NoMark .. Full + 1]
         /\ m.op \in Tasks => m.box \in Boxes
         /\ m.op \in Changes => m.value \in NoMark .. Full + 1 /\ m.typed \in BOOLEAN
  <1>1. m \in Messages
    BY DEF DeskTypes
  <1>2. CASE m \in AskMessages
    BY <1>1, <1>2 DEF AskMessages, Tasks, Changes
  <1>3. CASE m \in RowsMessages
    BY <1>1, <1>3 DEF RowsMessages, Tasks, Changes
  <1>4. CASE m \in ExtraMessages
    BY <1>1, <1>4 DEF ExtraMessages, Tasks, Changes
  <1>5. CASE m \in ChangeMessages
    BY <1>1, <1>5 DEF ChangeMessages, Tasks, Changes
  <1>6. CASE m \in EndMessages
    BY <1>1, <1>6 DEF EndMessages, Tasks, Changes
  <1> QED
    BY <1>1, <1>2, <1>3, <1>4, <1>5, <1>6 DEF Messages

LEMMA RowIs ==
  ASSUME DeskTypes, NEW c \in Cells
  PROVE  /\ Row(c) \in RowRecords
         /\ Row(c) # NoRow <=> auto[c] # NoMark
  <1>1. auto[c] \in NoMark .. Full /\ stored[c] \in NoMark .. Full
    BY DEF DeskTypes, Boxes
  <1>2. NoRow \in RowRecords /\ NoRow.mark = NoMark
    BY DeskAssumption DEF NoRow, RowRecords, NoMark
  <1>3. CASE auto[c] = NoMark
    BY <1>2, <1>3 DEF Row
  <1>4. CASE auto[c] # NoMark
    <2> DEFINE v == IF stored[c] # NoMark THEN stored[c] ELSE auto[c]
    <2>1. v \in NoMark .. Full /\ v # NoMark
      BY <1>1, <1>4
    <2> HIDE DEF v
    <2>2. Row(c) = [mark |-> v, overridden |-> stored[c] # NoMark]
      BY <1>4 DEF Row, v
    <2>3. Row(c) \in RowRecords /\ Row(c).mark = v
      BY <2>1, <2>2 DEF RowRecords
    <2> QED
      BY <1>2, <1>4, <2>1, <2>3
  <1> QED
    BY <1>3, <1>4

LEMMA WorthIs ==
  ASSUME DeskTypes, NEW b \in Boxes
  PROVE  /\ Worth(b) \in NoMark .. Full + 1
         /\ b \in Cells => Worth(b) = IF auto[b] = NoMark THEN NoMark
                                      ELSE IF stored[b] # NoMark THEN stored[b] ELSE auto[b]
         /\ b \notin Cells => Worth(b) = IF stored[b] = NoMark THEN 0 ELSE stored[b]
  <1>1. stored[b] \in NoMark .. Full + 1 /\ (b \in Cells => auto[b] \in NoMark .. Full)
    BY DEF DeskTypes
  <1>2. b \in Cells => Worth(b) = IF auto[b] = NoMark THEN NoMark
                                  ELSE IF stored[b] # NoMark THEN stored[b] ELSE auto[b]
    BY DEF Worth, Row, NoRow
  <1>3. b \notin Cells => Worth(b) = IF stored[b] = NoMark THEN 0 ELSE stored[b]
    BY DEF Worth, Minutes
  <1> QED
    BY <1>1, <1>2, <1>3, DeskAssumption DEF NoMark

(* A box that is on stays; one that comes on is worth its input, or has moved. *)
BoxGoesOn(x, y, b, row) ==
  \/ y = x
  \/ /\ ~x.on /\ y.on /\ ~y.busy /\ ~y.typed
     /\ b \in Cells => row # NoRow
     /\ ~y.moved => y.input = Worth(b)

LEMMA ShowingIs ==
  ASSUME DeskTypes, NEW k \in DeskRecords
  PROVE  /\ Showing(k) \in DeskRecords
         /\ Showing(k).table = k.table /\ Showing(k).hasRows = k.hasRows
         /\ Showing(k).read = k.read /\ Showing(k).newest = k.newest /\ Showing(k).missed = k.missed
         /\ \A b \in Boxes : BoxGoesOn(k.box[b], Showing(k).box[b], b, k.table[b])
  <1> DEFINE q == Mounted(k.box, k.table, k.extra)
  <1>0. /\ k.table \in [Cells -> RowRecords] /\ k.extra \in [ExtraRows -> NoMark .. Full + 1]
        /\ k.box \in [Boxes -> BoxRecords]
    BY DEF DeskRecords
  <1>1. ASSUME NEW b \in Boxes
        PROVE  q[b] \in BoxRecords /\ BoxGoesOn(k.box[b], q[b], b, k.table[b])
    <2> DEFINE s == ShownIn(b, k.table, k.extra)
    <2>1. s \in NoMark .. Full + 1
      <3>1. CASE b \in Cells
        <4>1. k.table[b] \in RowRecords
          BY <1>0, <3>1
        <4>2. k.table[b].mark \in NoMark .. Full
          BY <4>1 DEF RowRecords
        <4> QED
          BY <3>1, <4>2, DeskAssumption DEF ShownIn, NoMark
      <3>2. CASE b \notin Cells
        BY <1>0, <3>2 DEF ShownIn, Boxes
      <3> QED
        BY <3>1, <3>2
    <2>2. q[b] = IF k.box[b].on \/ (b \in Cells /\ k.table[b] = NoRow) THEN k.box[b]
                 ELSE [NoBox EXCEPT !.on = TRUE, !.open = b \in ExtraRows, !.input = s,
                                    !.moved = s # Worth(b)]
      BY DEF Mounted, FirstInput
    <2> HIDE DEF s, q
    <2>3. CASE k.box[b].on \/ (b \in Cells /\ k.table[b] = NoRow)
      BY <1>0, <2>2, <2>3 DEF BoxGoesOn
    <2>4. CASE ~(k.box[b].on \/ (b \in Cells /\ k.table[b] = NoRow))
      <3>1. /\ q[b] = [on |-> TRUE, open |-> b \in ExtraRows, input |-> s, busy |-> FALSE,
                       typed |-> FALSE, moved |-> s # Worth(b)]
        BY <2>2, <2>4 DEF NoBox
      <3>2. q[b] \in BoxRecords
        BY <2>1, <3>1 DEF BoxRecords
      <3>3. /\ q[b].on /\ ~q[b].busy /\ ~q[b].typed /\ q[b].input = s
            /\ ~q[b].moved => s = Worth(b)
        <4> DEFINE o == b \in ExtraRows
                   w == s # Worth(b)
        <4>1. q[b] = [on |-> TRUE, open |-> o, input |-> s, busy |-> FALSE, typed |-> FALSE,
                      moved |-> w]
          BY <3>1
        <4>2. w \/ s = Worth(b)
          OBVIOUS
        <4> HIDE DEF o, w
        <4>3. q[b].on /\ ~q[b].busy /\ ~q[b].typed /\ q[b].input = s
          BY <4>1
        <4>4. q[b].moved = w
          BY <4>1
        <4> QED
          BY <4>2, <4>3, <4>4
      <3> QED
        BY <2>4, <3>2, <3>3 DEF BoxGoesOn
    <2> QED
      BY <2>3, <2>4
  <1>2. q = [b \in Boxes |-> q[b]]
    BY DEF Mounted
  <1> HIDE DEF q
  <1>3. q \in [Boxes -> BoxRecords]
    BY <1>1, <1>2
  <1>4. Showing(k) = [k EXCEPT !.phase = "shown", !.box = q] \/ Showing(k) = k
    BY DEF Showing, q
  <1>5. CASE Showing(k) = [k EXCEPT !.phase = "shown", !.box = q]
    <2>1. /\ Showing(k) \in DeskRecords /\ Showing(k).box = q
          /\ Showing(k).table = k.table /\ Showing(k).hasRows = k.hasRows
          /\ Showing(k).read = k.read /\ Showing(k).newest = k.newest
          /\ Showing(k).missed = k.missed
      BY <1>3, <1>5 DEF DeskRecords
    <2> QED
      BY <1>1, <2>1
  <1>6. CASE Showing(k) = k
    BY <1>6 DEF BoxGoesOn
  <1> QED
    BY <1>4, <1>5, <1>6

LEMMA ArrivedIs ==
  ASSUME DeskTypes, NEW m \in wire, m.op \in {"rows", "extra", "no answer"}
  PROVE  LET k == desk[m.desk]
             n == Arrived(k, m)
         IN  /\ n \in DeskRecords
             /\ m.op = "rows" => /\ n.table = m.rows /\ n.hasRows /\ n.read = m.read
                                 /\ n.newest = (IF m.read > k.newest THEN m.read ELSE k.newest)
             /\ m.op # "rows" => /\ n.table = k.table /\ n.hasRows = k.hasRows
                                 /\ n.read = k.read /\ n.newest = k.newest
             /\ k.missed => n.missed
             /\ m.op = "no answer" => n.missed
             /\ \A b \in Boxes : BoxGoesOn(k.box[b], n.box[b], b, n.table[b])
  <1> DEFINE k == desk[m.desk]
             n == Arrived(k, m)
  <1>1. k \in DeskRecords
    BY MessageIs DEF DeskTypes
  <1> HIDE DEF k
  <1>2. CASE m.op = "rows"
    <2> DEFINE z == IF m.read > k.newest THEN m.read ELSE k.newest
               r == [k EXCEPT !.table = m.rows, !.hasRows = TRUE, !.read = m.read, !.newest = z]
    <2>1. z \in Nat /\ m.rows \in [Cells -> RowRecords] /\ m.read \in Nat
      BY <1>1, <1>2, MessageIs DEF DeskRecords
    <2>2. n = Showing(r)
      BY <1>2 DEF Arrived
    <2> HIDE DEF z
    <2>3. /\ r \in DeskRecords /\ r.table = m.rows /\ r.hasRows /\ r.read = m.read /\ r.newest = z
          /\ r.missed = k.missed /\ r.box = k.box
      BY <1>1, <2>1 DEF DeskRecords
    <2> HIDE DEF r, n
    <2>4. /\ n \in DeskRecords /\ n.table = m.rows /\ n.hasRows /\ n.read = m.read /\ n.newest = z
          /\ n.missed = k.missed
          /\ \A b \in Boxes : BoxGoesOn(k.box[b], n.box[b], b, n.table[b])
      BY <2>2, <2>3, ShowingIs
    <2> QED
      BY <1>2, <2>4 DEF k, n, z
  <1>3. CASE m.op = "extra"
    <2> DEFINE r == [k EXCEPT !.extra = m.extra]
    <2>1. m.extra \in [ExtraRows -> NoMark .. Full + 1]
      BY <1>3, MessageIs
    <2>2. n = Showing(r)
      BY <1>3 DEF Arrived
    <2>3. /\ r \in DeskRecords /\ r.table = k.table /\ r.hasRows = k.hasRows /\ r.read = k.read
          /\ r.newest = k.newest /\ r.missed = k.missed /\ r.box = k.box
      BY <1>1, <2>1 DEF DeskRecords
    <2> HIDE DEF r, n
    <2>4. /\ n \in DeskRecords /\ n.table = k.table /\ n.hasRows = k.hasRows /\ n.read = k.read
          /\ n.newest = k.newest /\ n.missed = k.missed
          /\ \A b \in Boxes : BoxGoesOn(k.box[b], n.box[b], b, n.table[b])
      BY <2>2, <2>3, ShowingIs
    <2> QED
      BY <1>3, <2>4 DEF k, n
  <1>4. CASE m.op = "no answer"
    <2> DEFINE p == IF k.phase = "loading" THEN "error" ELSE k.phase
    <2>1. p \in {"away", "loading", "shown", "error"}
      BY <1>1 DEF DeskRecords
    <2>2. n = [k EXCEPT !.phase = p, !.missed = TRUE]
      BY <1>4 DEF Arrived
    <2> HIDE DEF p, n
    <2>3. /\ n \in DeskRecords /\ n.table = k.table /\ n.hasRows = k.hasRows /\ n.read = k.read
          /\ n.newest = k.newest /\ n.missed /\ n.box = k.box
      BY <1>1, <2>1, <2>2 DEF DeskRecords
    <2> QED
      BY <1>4, <2>3 DEF k, n, BoxGoesOn
  <1> QED
    BY <1>2, <1>3, <1>4

-----------------------------------------------------------------------------
(***************************************************************************)
(* What steps that leave something alone keep.                             *)
(***************************************************************************)

(* The same requests for changes are under way, or fewer. *)
SameTasks == \A m : (m \in wire /\ m.op \in Tasks) <=> (m \in wire' /\ m.op \in Tasks)

LEMMA StandingKept ==
  ASSUME Standing, SameTasks, UNCHANGED <<stored, last>>
  PROVE  Standing'
  BY DEF Standing, SameTasks, Tasks, Target

LEMMA OneTaskKept ==
  ASSUME DeskTypes, OneTask, SameTasks,
         \A d \in Desks, b \in Boxes :
           /\ desk'[d].box[b].busy <=> desk[d].box[b].busy
           /\ desk[d].box[b].on => desk'[d].box[b].on
  PROVE  OneTask'
  <1>1. \A d \in Desks, b \in Boxes : desk'[d].box[b].busy => desk'[d].box[b].on
    BY DEF OneTask
  <1>2. \A m \in wire' : m.op \in Tasks => desk'[m.desk].box[m.box].busy
    <2> SUFFICES ASSUME NEW m \in wire', m.op \in Tasks PROVE desk'[m.desk].box[m.box].busy
      OBVIOUS
    <2>1. m \in wire
      BY DEF SameTasks
    <2>2. m.desk \in Desks /\ m.box \in Boxes /\ desk[m.desk].box[m.box].busy
      BY <2>1, MessageIs DEF OneTask
    <2> QED
      BY <2>2
  <1>3. \A m, n \in wire' : m.op \in Tasks /\ n.op \in Tasks /\ m.desk = n.desk /\ m.box = n.box => m = n
    BY DEF SameTasks, OneTask
  <1> QED
    BY <1>1, <1>2, <1>3 DEF OneTask

(* Cell c of visit d is shown as it is, or will be. *)
Fed(d, c) == WillLoad(d, c) \/ \E n \in Nat : FreshFrom(n, d, c)

LEMMA FedKept ==
  ASSUME NEW d \in Desks, NEW c \in Cells, Fed(d, c), Row(c)' = Row(c),
         desk'[d].table = desk[d].table, desk'[d].read = desk[d].read,
         desk'[d].newest = desk[d].newest, desk[d].missed => desk'[d].missed,
         \A m : m.op = "rows" /\ m.desk = d => (m \in wire <=> m \in wire'),
         \A m \in wire : /\ m.desk = d
                        /\ \/ m.op \in {"results", "no answer"}
                           \/ m.op = "done" /\ m.box = c
                        => m \in wire' \/ WillLoad(d, c)'
  PROVE  Fed(d, c)'
  <1>1. CASE WillLoad(d, c)
    <2>1. WillLoad(d, c)'
      <3>1. CASE desk[d].missed
        BY <3>1 DEF WillLoad
      <3>2. ASSUME NEW m \in wire, m.desk = d,
                   m.op \in {"results", "no answer"} \/ (m.op = "done" /\ m.box = c)
            PROVE  WillLoad(d, c)'
        <4>1. m \in wire' \/ WillLoad(d, c)'
          BY <3>2
        <4>2. m \in wire' => WillLoad(d, c)'
          BY <3>2 DEF WillLoad
        <4> QED
          BY <4>1, <4>2
      <3> QED
        BY <1>1, <3>1, <3>2 DEF WillLoad
    <2> QED
      BY <2>1 DEF Fed
  <1>2. ASSUME NEW n \in Nat, FreshFrom(n, d, c)
        PROVE  FreshFrom(n, d, c)'
    <2>1. \A m \in wire' : m.op = "rows" /\ m.desk = d /\ m.read >= n => m.rows[c] = Row(c)'
      BY <1>2 DEF FreshFrom
    <2>2. desk'[d].read >= n => desk'[d].table[c] = Row(c)'
      BY <1>2 DEF FreshFrom
    <2>3. desk'[d].newest >= n \/ \E m \in wire' : m.op = "rows" /\ m.desk = d /\ m.read >= n
      BY <1>2 DEF FreshFrom
    <2> QED
      BY <2>1, <2>2, <2>3 DEF FreshFrom
  <1> QED
    BY <1>1, <1>2 DEF Fed

LEMMA LoadingKept ==
  ASSUME DeskTypes, Loading, UNCHANGED mover,
         \A c \in Cells : Row(c)' = Row(c),
         \A d \in Desks : /\ desk'[d].table = desk[d].table /\ desk'[d].read = desk[d].read
                          /\ desk'[d].newest = desk[d].newest
                          /\ (desk[d].missed => desk'[d].missed),
         \A m : m.op = "rows" => (m \in wire <=> m \in wire'),
         \A m \in wire : m.op \in {"results", "no answer", "done"} => m \in wire'
  PROVE  Loading'
  <1> SUFFICES ASSUME NEW d \in Desks, NEW c \in Cells, mover[c] = {d}
               PROVE  Fed(d, c)'
    BY DEF Loading, Fed
  <1>1. Fed(d, c)
    BY DEF Loading, Fed
  <1> QED
    BY <1>1, FedKept

(* Boxes and what is asked for them may be typed into, or come on. *)
LEMMA HarmlessKept ==
  ASSUME DeskTypes, OneTask, Harmless, SameTasks, UNCHANGED slipped,
         \A b \in Boxes : Worth(b)' = Worth(b),
         \A d \in Desks, b \in Boxes :
           \/ /\ desk'[d].box[b].on = desk[d].box[b].on /\ desk'[d].box[b].input = desk[d].box[b].input
              /\ desk'[d].box[b].typed = desk[d].box[b].typed
              /\ desk'[d].box[b].moved = desk[d].box[b].moved
           \/ desk'[d].box[b].typed /\ desk'[d].box[b].moved = desk[d].box[b].moved
           \/ BoxGoesOn(desk[d].box[b], desk'[d].box[b], b, NoRow)
           \/ \E row : BoxGoesOn(desk[d].box[b], desk'[d].box[b], b, row)
  PROVE  Harmless'
  <1>1. \A d \in Desks, b \in Boxes :
          LET x == desk'[d].box[b] IN x.on /\ ~x.typed /\ ~x.moved => x.input = Worth(b)
    BY DEF Harmless, BoxGoesOn
  <1>2. ASSUME NEW m \in wire', m.op = "put", ~m.typed, ~desk'[m.desk].box[m.box].moved
        PROVE  m.value = Worth(m.box)
    <2>1. m \in wire /\ m.op \in Tasks
      BY <1>2 DEF SameTasks, Tasks, Changes
    <2>2. m.desk \in Desks /\ m.box \in Boxes /\ desk[m.desk].box[m.box].on
      BY <2>1, MessageIs DEF OneTask
    <2>3. ~desk[m.desk].box[m.box].moved
      BY <1>2, <2>2 DEF BoxGoesOn
    <2> QED
      BY <1>2, <2>1, <2>3 DEF Harmless
  <1>3. \A m \in wire' : m.op = "put" => m.box \in Boxes
    BY MessageIs DEF SameTasks, Tasks, Changes
  <1> QED
    BY <1>1, <1>2, <1>3 DEF Harmless

LEMMA RowsStay ==
  ASSUME UNCHANGED <<auto, stored>>
  PROVE  /\ \A c \in Cells : Row(c)' = Row(c)
         /\ \A b \in Boxes : Worth(b)' = Worth(b)
  BY DEF Row, Worth, Minutes

-----------------------------------------------------------------------------
(***************************************************************************)
(* Every step keeps the invariant.                                         *)
(***************************************************************************)

LEMMA DeskInitHolds == DeskInit => DeskInv
  <1> SUFFICES ASSUME DeskInit PROVE DeskInv
    OBVIOUS
  <1> USE DEF DeskInit
  <1>1. NoRow \in RowRecords /\ NoBox \in BoxRecords
    BY DeskAssumption DEF NoRow, RowRecords, NoBox, BoxRecords, NoMark
  <1>2. Away \in DeskRecords
    BY <1>1, DeskAssumption DEF Away, DeskRecords, NoMark
  <1>3. DeskTypes
    <2>1. auto \in [Cells -> NoMark .. Full] /\ stored \in [Boxes -> NoMark .. Full + 1]
      BY DeskAssumption DEF NoMark
    <2>2. \A c \in Cells : stored[c] <= Full
      BY DeskAssumption DEF Boxes, NoMark
    <2>3. desk \in [Desks -> DeskRecords] /\ wire \subseteq Messages /\ reads \in Nat
      BY <1>2
    <2>4. NoMark \in NoMark .. Full + 1
      BY DeskAssumption DEF NoMark
    <2>5. last \in [Boxes -> [to : NoMark .. Full + 1, calm : BOOLEAN]]
      BY <2>4
    <2>6. mover \in [Boxes -> SUBSET Desks]
      OBVIOUS
    <2> QED
      BY <2>1, <2>2, <2>3, <2>5, <2>6 DEF DeskTypes
  <1>4. \A d \in Desks : /\ \A c \in Cells : desk[d].table[c] = NoRow
                         /\ \A b \in Boxes : ~desk[d].box[b].on /\ ~desk[d].box[b].busy
                         /\ desk[d].read = 0 /\ desk[d].newest = 0
    BY DEF Away, NoBox
  <1>5. Backed /\ OneTask /\ Numbered /\ Loading /\ Harmless
    BY <1>4 DEF Backed, OneTask, Numbered, Loading, Harmless, Boxes
  <1>6. Standing
    BY DEF Standing
  <1> QED
    BY <1>3, <1>5, <1>6 DEF DeskInv

LEMMA AskIs ==
  ASSUME NEW d \in Desks, NEW op \in {"results", "accommodations", "no answer"}
  PROVE  Ask(d, op) \in AskMessages /\ Ask(d, op).desk = d /\ Ask(d, op).op = op
  BY DEF Ask, AskMessages

LEMMA OpenPageKeeps ==
  ASSUME DeskInv, NEW d \in Desks, OpenPage(d)
  PROVE  DeskInv'
  <1> DEFINE k == [desk EXCEPT ![d].phase = "loading"]
             new == {Ask(d, "results"), Ask(d, "accommodations")}
  <1>1. desk' = k /\ wire' = wire \cup new /\ UNCHANGED <<auto, stored, reads, last, mover, slipped>>
    BY DEF OpenPage
  <1>2. /\ k \in [Desks -> DeskRecords]
        /\ \A e \in Desks : /\ k[e].table = desk[e].table /\ k[e].hasRows = desk[e].hasRows
                            /\ k[e].read = desk[e].read /\ k[e].newest = desk[e].newest
                            /\ k[e].missed = desk[e].missed /\ k[e].box = desk[e].box
    <2>1. desk[d] \in DeskRecords /\ desk \in [Desks -> DeskRecords]
      BY DEF DeskInv, DeskTypes
    <2>2. /\ k[d] = [desk[d] EXCEPT !.phase = "loading"] /\ \A e \in Desks : e # d => k[e] = desk[e]
          /\ k = [e \in Desks |-> k[e]]
      BY <2>1
    <2> HIDE DEF k
    <2>3. /\ k[d] \in DeskRecords
          /\ k[d].table = desk[d].table /\ k[d].hasRows = desk[d].hasRows
          /\ k[d].read = desk[d].read /\ k[d].newest = desk[d].newest
          /\ k[d].missed = desk[d].missed /\ k[d].box = desk[d].box
      BY <2>1, <2>2 DEF DeskRecords
    <2> QED
      BY <2>1, <2>2, <2>3
  <1>3. \A m \in new : m \in AskMessages /\ m.op \in {"results", "accommodations"}
    <2>1. /\ Ask(d, "results") \in AskMessages /\ Ask(d, "results").op = "results"
          /\ Ask(d, "accommodations") \in AskMessages /\ Ask(d, "accommodations").op = "accommodations"
      BY AskIs
    <2> QED
      BY <2>1
  <1> HIDE DEF k, new
  <1>4. DeskTypes'
    BY <1>1, <1>2, <1>3 DEF DeskInv, DeskTypes, Messages
  <1>5. SameTasks
    BY <1>1, <1>3 DEF SameTasks, Tasks, Changes
  <1>6. Backed'
    BY <1>1, <1>2, <1>3 DEF DeskInv, Backed, Boxes
  <1>7. OneTask'
    BY <1>1, <1>2, <1>5, OneTaskKept DEF DeskInv
  <1>8. Standing'
    BY <1>1, <1>5, StandingKept DEF DeskInv
  <1>9. Numbered'
    BY <1>1, <1>2, <1>3 DEF DeskInv, Numbered
  <1>10. Loading'
    BY <1>1, <1>2, <1>3, RowsStay, LoadingKept DEF DeskInv
  <1>11. Harmless'
    BY <1>1, <1>2, <1>5, RowsStay, HarmlessKept DEF DeskInv
  <1> QED
    BY <1>4, <1>6, <1>7, <1>8, <1>9, <1>10, <1>11 DEF DeskInv

(* One box is typed into, opened or closed. *)
LEMMA BoxStepKeeps ==
  ASSUME DeskInv, NEW d \in Desks, NEW b \in Boxes, NEW y,
         BoxBecomes(desk', d, b, y), y.on = desk[d].box[b].on, y.busy = desk[d].box[b].busy,
         y.moved = desk[d].box[b].moved,
         (y.typed = desk[d].box[b].typed /\ y.input = desk[d].box[b].input) \/ y.typed,
         UNCHANGED <<auto, stored, wire, reads, last, mover, slipped>>
  PROVE  DeskInv'
  <1>1. DeskTypes'
    BY DEF DeskInv, DeskTypes, BoxBecomes
  <1>2. SameTasks
    BY DEF SameTasks
  <1>3. \A e \in Desks, a \in Boxes :
          /\ desk'[e].box[a].on = desk[e].box[a].on /\ desk'[e].box[a].busy = desk[e].box[a].busy
          /\ desk'[e].box[a].moved = desk[e].box[a].moved
          /\ \/ /\ desk'[e].box[a].typed = desk[e].box[a].typed
                /\ desk'[e].box[a].input = desk[e].box[a].input
             \/ desk'[e].box[a].typed
    BY DEF BoxBecomes
  <1>4. Backed'
    BY <1>3 DEF DeskInv, Backed, Boxes, BoxBecomes
  <1>5. OneTask'
    BY <1>2, <1>3, OneTaskKept DEF DeskInv
  <1>6. Standing'
    BY <1>2, StandingKept DEF DeskInv
  <1>7. Numbered'
    BY DEF DeskInv, Numbered, BoxBecomes
  <1>8. Loading'
    BY RowsStay, LoadingKept DEF DeskInv, BoxBecomes
  <1>9. Harmless'
    BY <1>2, <1>3, RowsStay, HarmlessKept DEF DeskInv
  <1> QED
    BY <1>1, <1>4, <1>5, <1>6, <1>7, <1>8, <1>9 DEF DeskInv

LEMMA TypeMarkKeeps ==
  ASSUME DeskInv, NEW d \in Desks, NEW b \in Boxes, TypeMark(d, b)
  PROVE  DeskInv'
  <1>1. PICK v \in 0 .. Full + 1 :
          desk' = [desk EXCEPT ![d].box[b].input = v, ![d].box[b].typed = TRUE]
    BY DEF TypeMark
  <1> DEFINE x == desk[d].box[b]
             y == [x EXCEPT !.input = v, !.typed = TRUE]
  <1>2. BoxBecomes(desk', d, b, y)
    BY <1>1, TypeMarkIs DEF DeskInv
  <1>3. x \in BoxRecords
    BY DEF DeskInv, DeskTypes, DeskRecords
  <1> HIDE DEF x
  <1>4. y.on = x.on /\ y.busy = x.busy /\ y.moved = x.moved /\ y.typed
    BY <1>3 DEF BoxRecords
  <1> HIDE DEF y
  <1>5. UNCHANGED <<auto, stored, wire, reads, last, mover, slipped>>
    BY DEF TypeMark
  <1> QED
    BY <1>2, <1>4, <1>5, BoxStepKeeps DEF x

LEMMA ToggleCellKeeps ==
  ASSUME DeskInv, NEW d \in Desks, NEW c \in Cells, ToggleCell(d, c)
  PROVE  DeskInv'
  <1> DEFINE x == desk[d].box[c]
             y == [x EXCEPT !.open = ~@]
  <1>1. c \in Boxes
    BY DEF Boxes
  <1>2. BoxBecomes(desk', d, c, y)
    BY <1>1, ToggleIs DEF DeskInv, ToggleCell
  <1>3. x \in BoxRecords
    BY <1>1 DEF DeskInv, DeskTypes, DeskRecords
  <1> HIDE DEF x
  <1>4. y.on = x.on /\ y.busy = x.busy /\ y.moved = x.moved /\ y.typed = x.typed /\ y.input = x.input
    BY <1>3 DEF BoxRecords
  <1> HIDE DEF y
  <1>5. UNCHANGED <<auto, stored, wire, reads, last, mover, slipped>>
    BY DEF ToggleCell
  <1> QED
    BY <1>1, <1>2, <1>4, <1>5, BoxStepKeeps DEF x

LEMMA Climbs ==
  /\ \A i, j, k \in Nat : i <= j /\ j <= k => i <= k
  /\ \A i, j, k \in Nat : i <= j /\ j < k => ~(i >= k)
  OBVIOUS

(* A load m is answered with r. *)
LEMMA AnswerKeeps ==
  ASSUME NEW m \in wire, NEW r \in Messages, DeskInv, m.op \in {"results", "accommodations"},
         wire' = (wire \ {m}) \cup {r}, r.desk = m.desk, r.op \in {"rows", "extra", "no answer"},
         r.op = "extra" => m.op = "accommodations",
         reads' \in Nat, reads' >= reads,
         r.op = "rows" => /\ r.read = reads' /\ reads' > reads
                          /\ \A c \in Cells : r.rows[c] = Row(c),
         UNCHANGED <<auto, stored, desk, last, mover, slipped>>
  PROVE  DeskInv'
  <1>1. DeskTypes'
    BY DEF DeskInv, DeskTypes
  <1>2. SameTasks
    BY DEF SameTasks, Tasks, Changes
  <1>3. Backed'
    <2>1. ASSUME NEW c \in Cells, r.op = "rows", r.rows[c] # NoRow
          PROVE  auto[c] # NoMark
      BY <2>1, RowIs DEF DeskInv
    <2> QED
      BY <2>1 DEF DeskInv, Backed
  <1>4. OneTask'
    BY <1>2, OneTaskKept DEF DeskInv
  <1>5. Standing'
    BY <1>2, StandingKept DEF DeskInv
  <1>6. Numbered'
    <2>0. desk' = desk /\ reads \in Nat /\ reads' \in Nat /\ reads <= reads'
      BY DEF DeskInv, DeskTypes
    <2>1. ASSUME NEW e \in Desks
          PROVE  desk'[e].read <= reads' /\ desk'[e].newest <= reads'
      <3>1. desk[e].read \in Nat /\ desk[e].newest \in Nat
        BY DEF DeskInv, DeskTypes, DeskRecords
      <3>2. desk[e].read <= reads /\ desk[e].newest <= reads
        BY DEF DeskInv, Numbered
      <3> QED
        BY ONLY <2>0, <3>1, <3>2, Climbs
    <2>2. ASSUME NEW w \in wire', w.op = "rows"
          PROVE  w.read <= reads'
      <3>1. CASE w = r
        <4>1. w.read = reads'
          BY <2>2, <3>1
        <4> QED
          BY ONLY <2>0, <4>1
      <3>2. CASE w \in wire
        <4>1. w.read \in Nat /\ w.read <= reads
          BY <2>2, <3>2, MessageIs DEF DeskInv, Numbered
        <4> QED
          BY ONLY <2>0, <4>1, Climbs
      <3> QED
        BY <3>1, <3>2
    <2> QED
      BY <2>1, <2>2 DEF Numbered
  <1>7. Loading'
    <2> SUFFICES ASSUME NEW d \in Desks, NEW c \in Cells, mover[c] = {d}
                 PROVE  Fed(d, c)'
      BY DEF Loading, Fed
    <2>1. Fed(d, c)
      BY DEF DeskInv, Loading, Fed
    <2>2. Row(c)' = Row(c)
      BY RowsStay
    <2>3. CASE r.desk = d /\ r.op = "rows"
      <3>0. PICK n \in Nat : n = reads'
        OBVIOUS
      <3>1. reads \in Nat /\ reads < n /\ r.read = n /\ n \in Nat
        BY <2>3, <3>0 DEF DeskInv, DeskTypes
      <3>2. ASSUME NEW w \in wire', w.op = "rows", w.desk = d, w.read >= n
            PROVE  w.rows[c] = Row(c)'
        <4>1. CASE w = r
          BY <2>2, <2>3, <4>1
        <4>2. CASE w \in wire
          <5>1. w.read \in Nat /\ w.read <= reads
            BY <3>2, <4>2, MessageIs DEF DeskInv, Numbered
          <5>2. ~(w.read >= n)
            BY ONLY <3>1, <5>1, Climbs
          <5> QED
            BY <3>2, <5>2
        <4> QED
          BY <4>1, <4>2
      <3>3. ~(desk'[d].read >= n)
        <4>1. desk[d].read \in Nat /\ desk[d].read <= reads
          BY DEF DeskInv, DeskTypes, DeskRecords, Numbered
        <4>2. ~(desk[d].read >= n)
          BY ONLY <3>1, <4>1, Climbs
        <4> QED
          BY <4>2
      <3>4. n >= n
        BY ONLY <3>1
      <3>5. \E w \in wire' : w.op = "rows" /\ w.desk = d /\ w.read >= n
        BY <2>3, <3>1, <3>4
      <3>6. FreshFrom(n, d, c)'
        BY <3>2, <3>3, <3>5 DEF FreshFrom
      <3> QED
        BY <3>1, <3>6 DEF Fed
    <2>4. CASE r.desk = d /\ r.op = "no answer"
      BY <2>4 DEF Fed, WillLoad
    <2>5. CASE r.desk # d \/ r.op = "extra"
      BY <2>1, <2>2, <2>5, FedKept
    <2> QED
      BY <2>3, <2>4, <2>5
  <1>8. Harmless'
    BY <1>2, RowsStay, HarmlessKept DEF DeskInv
  <1> QED
    BY <1>1, <1>3, <1>4, <1>5, <1>6, <1>7, <1>8 DEF DeskInv

LEMMA ServeLoadKeeps ==
  ASSUME NEW m \in wire, DeskInv, ServeLoad(m)
  PROVE  DeskInv'
  <1>1. m.op \in {"results", "accommodations"} /\ UNCHANGED <<auto, stored, desk, last, mover, slipped>>
    BY DEF ServeLoad
  <1>2. m.desk \in Desks /\ reads \in Nat
    BY MessageIs DEF DeskInv, DeskTypes
  <1>3. reads' \in Nat /\ reads' >= reads /\ (m.op = "results" => reads' > reads)
    <2>1. reads' = reads + (IF m.op = "results" THEN 1 ELSE 0)
      BY DEF ServeLoad
    <2> QED
      BY ONLY <1>2, <2>1
  <1>4. CASE /\ m.op = "results"
             /\ wire' = (wire \ {m}) \cup
                  {[desk |-> m.desk, op |-> "rows", rows |-> [c \in Cells |-> Row(c)], read |-> reads']}
    <2> DEFINE t == [c \in Cells |-> Row(c)]
               r == [desk |-> m.desk, op |-> "rows", rows |-> t, read |-> reads']
    <2>1. t \in [Cells -> RowRecords] /\ \A c \in Cells : t[c] = Row(c)
      BY RowIs DEF DeskInv
    <2>2. wire' = (wire \ {m}) \cup {r}
      BY <1>4
    <2> HIDE DEF t
    <2>3. r \in RowsMessages /\ r.desk = m.desk /\ r.op = "rows" /\ r.read = reads' /\ r.rows = t
      BY ONLY <1>2, <1>3, <2>1 DEF RowsMessages
    <2> HIDE DEF r
    <2>4. r \in Messages
      BY <2>3 DEF Messages
    <2> QED
      BY <1>1, <1>3, <1>4, <2>1, <2>2, <2>3, <2>4, AnswerKeeps
  <1>5. CASE /\ m.op = "accommodations"
             /\ wire' = (wire \ {m}) \cup
                  {[desk |-> m.desk, op |-> "extra", extra |-> [e \in ExtraRows |-> Minutes(e)]]}
    <2> DEFINE t == [e \in ExtraRows |-> Minutes(e)]
               r == [desk |-> m.desk, op |-> "extra", extra |-> t]
    <2>1. t \in [ExtraRows -> NoMark .. Full + 1]
      <3>1. ASSUME NEW e \in ExtraRows PROVE Minutes(e) \in NoMark .. Full + 1
        <4>1. stored[e] \in NoMark .. Full + 1
          BY DEF DeskInv, DeskTypes, Boxes
        <4> QED
          BY <4>1, DeskAssumption DEF Minutes, NoMark
      <3> QED
        BY <3>1
    <2>2. wire' = (wire \ {m}) \cup {r}
      BY <1>5
    <2> HIDE DEF t
    <2>3. r \in ExtraMessages /\ r.desk = m.desk /\ r.op = "extra"
      BY ONLY <1>2, <2>1 DEF ExtraMessages
    <2> HIDE DEF r
    <2>4. r \in Messages
      BY <2>3 DEF Messages
    <2> QED
      BY <1>1, <1>3, <1>5, <2>2, <2>3, <2>4, AnswerKeeps
  <1>6. CASE wire' = (wire \ {m}) \cup {Ask(m.desk, "no answer")}
    <2> DEFINE r == Ask(m.desk, "no answer")
    <2>1. r \in AskMessages /\ r.desk = m.desk /\ r.op = "no answer"
      BY <1>2, AskIs
    <2>2. wire' = (wire \ {m}) \cup {r}
      BY <1>6
    <2> HIDE DEF r
    <2>3. r \in Messages
      BY <2>1 DEF Messages
    <2> QED
      BY <1>1, <1>3, <2>1, <2>2, <2>3, AnswerKeeps
  <1> QED
    BY <1>1, <1>4, <1>5, <1>6 DEF ServeLoad

LEMMA LoadArrivesKeeps ==
  ASSUME NEW m \in wire, DeskInv, LoadArrives(m)
  PROVE  DeskInv'
  <1> DEFINE e == m.desk
             k == desk[e]
             n == Arrived(k, m)
  <1>1. /\ m.op \in {"rows", "extra", "no answer"} /\ wire' = wire \ {m}
        /\ desk' = [desk EXCEPT ![e] = n]
        /\ UNCHANGED <<auto, stored, reads, last, mover, slipped>>
    BY DEF LoadArrives
  <1>2. e \in Desks /\ k \in DeskRecords
    BY MessageIs DEF DeskInv, DeskTypes
  <1>3. /\ n \in DeskRecords
        /\ m.op = "rows" => /\ n.table = m.rows /\ n.hasRows /\ n.read = m.read
                            /\ n.newest = (IF m.read > k.newest THEN m.read ELSE k.newest)
        /\ m.op # "rows" => /\ n.table = k.table /\ n.hasRows = k.hasRows
                            /\ n.read = k.read /\ n.newest = k.newest
        /\ k.missed => n.missed
        /\ m.op = "no answer" => n.missed
        /\ \A b \in Boxes : BoxGoesOn(k.box[b], n.box[b], b, n.table[b])
    BY <1>1, ArrivedIs DEF DeskInv
  <1> HIDE DEF n
  <1>4. /\ desk' \in [Desks -> DeskRecords] /\ desk'[e] = n
        /\ \A d \in Desks : d # e => desk'[d] = desk[d]
    BY <1>1, <1>2, <1>3 DEF DeskInv, DeskTypes
  <1>5. DeskTypes'
    BY <1>1, <1>4 DEF DeskInv, DeskTypes
  <1>6. SameTasks
    BY <1>1 DEF SameTasks, Tasks, Changes
  <1>7. \A d \in Desks, b \in Boxes :
          \E row : BoxGoesOn(desk[d].box[b], desk'[d].box[b], b, row)
    BY <1>3, <1>4, ZenonT(60) DEF BoxGoesOn
  <1>8. Backed'
    <2>1. ASSUME NEW c \in Cells
          PROVE  /\ n.table[c] # NoRow => n.hasRows /\ auto[c] # NoMark
                 /\ n.box[c].on => n.hasRows /\ auto[c] # NoMark
      <3>1. n.table[c] # NoRow => n.hasRows /\ auto[c] # NoMark
        BY <1>1, <1>2, <1>3 DEF DeskInv, Backed
      <3>2. k.hasRows => n.hasRows
        BY <1>1, <1>3
      <3>3. k.box[c].on => k.hasRows /\ auto[c] # NoMark
        BY <1>2 DEF DeskInv, Backed
      <3>4. BoxGoesOn(k.box[c], n.box[c], c, n.table[c])
        BY <1>3 DEF Boxes
      <3> QED
        BY <3>1, <3>2, <3>3, <3>4 DEF BoxGoesOn
    <2>2. ASSUME NEW d \in Desks, NEW c \in Cells
          PROVE  /\ desk'[d].table[c] # NoRow => desk'[d].hasRows /\ auto[c] # NoMark
                 /\ desk'[d].box[c].on => desk'[d].hasRows /\ auto[c] # NoMark
      BY <1>4, <2>1 DEF DeskInv, Backed
    <2> QED
      BY <1>1, <2>2 DEF DeskInv, Backed
  <1>9. OneTask'
    <2>1. ASSUME NEW d \in Desks, NEW b \in Boxes
          PROVE  /\ desk'[d].box[b].busy <=> desk[d].box[b].busy
                 /\ desk[d].box[b].on => desk'[d].box[b].on
      <3> DEFINE x == desk[d].box[b]
                 y == desk'[d].box[b]
      <3>1. PICK row : BoxGoesOn(x, y, b, row)
        BY <1>7
      <3>2. x.busy => x.on
        BY DEF DeskInv, OneTask
      <3> HIDE DEF x, y
      <3>3. (y.busy <=> x.busy) /\ (x.on => y.on)
        BY <3>1, <3>2 DEF BoxGoesOn
      <3> QED
        BY <3>3 DEF x, y
    <2> QED
      BY <1>6, <2>1, OneTaskKept DEF DeskInv
  <1>10. Standing'
    BY <1>1, <1>6, StandingKept DEF DeskInv
  <1>11. Numbered'
    <2>1. m.op = "rows" => m.read <= reads /\ m.read \in Nat
      BY MessageIs DEF DeskInv, Numbered
    <2>2. k.read <= reads /\ k.newest <= reads
      BY <1>2 DEF DeskInv, Numbered
    <2>3. n.read <= reads /\ n.newest <= reads
      <3>1. CASE m.op = "rows"
        BY <1>3, <2>1, <2>2, <3>1
      <3>2. CASE m.op # "rows"
        BY <1>3, <2>2, <3>2
      <3> QED
        BY <3>1, <3>2
    <2> QED
      BY <1>1, <1>4, <2>3 DEF DeskInv, Numbered
  <1>12. Loading'
    <2> SUFFICES ASSUME NEW d \in Desks, NEW c \in Cells, mover[c] = {d}
                 PROVE  Fed(d, c)'
      BY <1>1 DEF Loading, Fed
    <2>1. Fed(d, c)
      BY DEF DeskInv, Loading, Fed
    <2>2. Row(c)' = Row(c)
      BY <1>1, RowsStay
    <2>3. CASE d = e /\ m.op = "no answer"
      BY <1>3, <1>4, <2>3 DEF Fed, WillLoad
    <2>4. CASE d # e \/ m.op = "extra"
      <3>1. /\ desk'[d].table = desk[d].table /\ desk'[d].read = desk[d].read
            /\ desk'[d].newest = desk[d].newest /\ (desk[d].missed => desk'[d].missed)
        BY <1>3, <1>4, <2>4
      <3>2. \A w : w.op = "rows" /\ w.desk = d => (w \in wire <=> w \in wire')
        BY <1>1, <2>4
      <3>3. \A w \in wire : /\ w.desk = d
                           /\ \/ w.op \in {"results", "no answer"}
                              \/ w.op = "done" /\ w.box = c
                           => w \in wire' \/ WillLoad(d, c)'
        BY <1>1, <2>4
      <3> QED
        BY <2>1, <2>2, <3>1, <3>2, <3>3, FedKept
    <2>5. CASE d = e /\ m.op = "rows"
      <3>1. CASE WillLoad(d, c)
        <4>1. desk[d].missed => desk'[d].missed
          BY <1>3, <1>4, <2>5
        <4>2. \A w \in wire : w.op # "rows" => w \in wire'
          BY <1>1, <2>5
        <4> QED
          BY <3>1, <4>1, <4>2 DEF Fed, WillLoad
      <3>2. ASSUME NEW i \in Nat, FreshFrom(i, d, c)
            PROVE  FreshFrom(i, d, c)'
        <4>1. \A w \in wire' : w.op = "rows" /\ w.desk = d /\ w.read >= i => w.rows[c] = Row(c)'
          BY <1>1, <2>2, <3>2 DEF FreshFrom
        <4>2. desk'[d].read >= i => desk'[d].table[c] = Row(c)'
          BY <1>3, <1>4, <2>2, <2>5, <3>2 DEF FreshFrom
        <4>3. m.read \in Nat /\ k.newest \in Nat
          BY <1>2, <2>5, MessageIs DEF DeskInv, DeskRecords
        <4>4. /\ m.read >= i => n.newest >= i
              /\ k.newest >= i => n.newest >= i
          BY <1>3, <2>5, <4>3
        <4>5. desk'[d].newest >= i \/ \E w \in wire' : w.op = "rows" /\ w.desk = d /\ w.read >= i
          BY <1>1, <1>4, <2>5, <3>2, <4>4 DEF FreshFrom
        <4> QED
          BY <4>1, <4>2, <4>5 DEF FreshFrom
      <3> QED
        BY <2>1, <3>1, <3>2 DEF Fed
    <2> QED
      BY <1>1, <2>3, <2>4, <2>5
  <1>13. Harmless'
    BY <1>1, <1>6, <1>7, RowsStay, HarmlessKept DEF DeskInv
  <1> QED
    BY <1>5, <1>8, <1>9, <1>10, <1>11, <1>12, <1>13 DEF DeskInv

(* A click on Save or Reset sends a change, which the box waits for. *)
LEMMA ClickedKeeps ==
  ASSUME NEW d \in Desks, NEW b \in Boxes, NEW op \in Changes, NEW value \in NoMark .. Full + 1,
         DeskInv, desk[d].box[b].on, ~desk[d].box[b].busy,
         op = "put" => value = desk[d].box[b].input,
         Clicked(d, b, op, value)
  PROVE  DeskInv'
  <1> DEFINE x == desk[d].box[b]
             y == [x EXCEPT !.busy = TRUE]
             t == x.typed
             m == [desk |-> d, op |-> op, box |-> b, value |-> value, typed |-> t]
             calm == \A o \in wire : o.op \in Changes /\ o.box = b => o.desk = d
  <1>1. /\ wire' = wire \cup {m} /\ UNCHANGED <<auto, stored, reads, mover, slipped>>
        /\ desk' = [desk EXCEPT ![d].box[b].busy = TRUE]
        /\ last' = [last EXCEPT ![b] =
             [to   |-> IF op = "delete" \/ (b \in ExtraRows /\ value = 0) THEN NoMark ELSE value,
              calm |-> calm]]
    BY DEF Clicked
  <1>2. x \in BoxRecords
    BY DEF DeskInv, DeskTypes, DeskRecords
  <1>3. BoxBecomes(desk', d, b, y)
    BY <1>1, ClickIs DEF DeskInv
  <1>4. m \in ChangeMessages /\ m.desk = d /\ m.op = op /\ m.box = b /\ m.value = value /\ m.typed = t
    <2>1. t \in BOOLEAN
      BY <1>2 DEF BoxRecords
    <2> HIDE DEF t
    <2> QED
      BY <2>1 DEF ChangeMessages
  <1>5. last' = [last EXCEPT ![b] = [to |-> Target(m), calm |-> calm]]
    BY <1>1, <1>4 DEF Target
  <1>6. Target(m) \in NoMark .. Full + 1
    <2> HIDE DEF m
    <2>1. NoMark \in NoMark .. Full + 1
      BY DeskAssumption DEF NoMark
    <2>2. m.value \in NoMark .. Full + 1
      BY <1>4
    <2> QED
      BY ONLY <2>1, <2>2 DEF Target
  <1> HIDE DEF m, t
  <1>7. /\ y.on = x.on /\ y.busy /\ y.typed = x.typed /\ y.input = x.input /\ y.moved = x.moved
    BY <1>2 DEF BoxRecords
  <1>8. /\ last' \in [Boxes -> [to : NoMark .. Full + 1, calm : BOOLEAN]]
        /\ last'[b].to = Target(m) /\ (last'[b].calm => calm)
        /\ \A a \in Boxes : a # b => last'[a] = last[a]
    <2> DEFINE l == [to |-> Target(m), calm |-> calm]
    <2>1. calm \in BOOLEAN
      BY DEF calm
    <2> HIDE DEF calm
    <2>2. l \in [to : NoMark .. Full + 1, calm : BOOLEAN] /\ l.to = Target(m) /\ l.calm = calm
      BY <1>6, <2>1
    <2>3. last \in [Boxes -> [to : NoMark .. Full + 1, calm : BOOLEAN]] /\ last' = [last EXCEPT ![b] = l]
      BY <1>5 DEF DeskInv, DeskTypes
    <2> HIDE DEF l
    <2> QED
      BY <2>2, <2>3
  <1> HIDE DEF x, y
  <1>9. \A e \in Desks, a \in Boxes :
          /\ desk'[e].box[a].on = desk[e].box[a].on
          /\ desk'[e].box[a].typed = desk[e].box[a].typed
          /\ desk'[e].box[a].input = desk[e].box[a].input
          /\ desk'[e].box[a].moved = desk[e].box[a].moved
          /\ desk[e].box[a].busy => desk'[e].box[a].busy
          /\ desk'[e].box[a].busy => desk[e].box[a].busy \/ (e = d /\ a = b)
    BY <1>3, <1>7 DEF BoxBecomes, x
  <1>10. desk'[d].box[b].busy /\ desk[d].box[b].on
    BY <1>3, <1>7 DEF BoxBecomes
  <1>11. \A w \in wire : w.op \in Tasks => ~(w.desk = d /\ w.box = b)
    BY DEF DeskInv, OneTask
  <1>12. DeskTypes'
    BY <1>1, <1>3, <1>4, <1>8 DEF DeskInv, DeskTypes, BoxBecomes, Messages
  <1>13. Backed'
    BY <1>1, <1>3, <1>4, <1>9 DEF DeskInv, Backed, BoxBecomes, Boxes, Changes
  <1>14. OneTask'
    <2>1. \A e \in Desks, a \in Boxes : desk'[e].box[a].busy => desk'[e].box[a].on
      BY <1>9, <1>10 DEF DeskInv, OneTask
    <2>2. ASSUME NEW w \in wire', w.op \in Tasks
          PROVE  desk'[w.desk].box[w.box].busy
      <3>1. CASE w = m
        BY <1>4, <1>10, <3>1
      <3>2. CASE w \in wire
        <4>1. w.desk \in Desks /\ w.box \in Boxes /\ desk[w.desk].box[w.box].busy
          BY <2>2, <3>2, MessageIs DEF DeskInv, OneTask
        <4> QED
          BY <1>9, <4>1
      <3> QED
        BY <1>1, <3>1, <3>2
    <2>3. \A v, w \in wire' : v.op \in Tasks /\ w.op \in Tasks /\ v.desk = w.desk /\ v.box = w.box => v = w
      BY <1>1, <1>4, <1>11 DEF DeskInv, OneTask
    <2> QED
      BY <2>1, <2>2, <2>3 DEF OneTask
  <1>15. Standing'
    <2> SUFFICES ASSUME NEW a \in Boxes, last'[a].calm
                 PROVE  /\ \A w \in wire' : w.op \in Changes /\ w.box = a => Target(w) = last'[a].to
                        /\ (\A w \in wire' : w.op \in Changes => w.box # a) => stored'[a] = last'[a].to
      BY DEF Standing, Target
    <2>1. CASE a = b
      <3>1. \A w \in wire : w.op \in Changes => w.box # b
        BY <1>8, <1>11, <2>1 DEF Tasks
      <3> QED
        BY <1>1, <1>4, <1>8, <2>1, <3>1
    <2>2. CASE a # b
      <3>1. last'[a] = last[a] /\ stored'[a] = stored[a]
        BY <1>1, <1>8, <2>2
      <3>2. \A w \in wire' : w.box = a => w \in wire
        BY <1>1, <1>4, <2>2
      <3>3. wire \subseteq wire'
        BY <1>1
      <3> QED
        BY <3>1, <3>2, <3>3 DEF DeskInv, Standing
    <2> QED
      BY <2>1, <2>2
  <1>16. Numbered'
    BY <1>1, <1>3, <1>4 DEF DeskInv, Numbered, BoxBecomes, Changes
  <1>17. Loading'
    <2>1. \A c \in Cells : Row(c)' = Row(c)
      BY <1>1, RowsStay
    <2>2. \A w : w.op = "rows" => (w \in wire <=> w \in wire')
      BY <1>1, <1>4 DEF Changes
    <2> QED
      BY <1>1, <1>3, <2>1, <2>2, LoadingKept DEF DeskInv, BoxBecomes
  <1>18. Harmless'
    <2>1. \A a \in Boxes : Worth(a)' = Worth(a)
      BY <1>1, RowsStay
    <2>2. \A e \in Desks, a \in Boxes :
            LET z == desk'[e].box[a] IN z.on /\ ~z.typed /\ ~z.moved => z.input = Worth(a)
      BY <1>9 DEF DeskInv, Harmless
    <2>3. ASSUME NEW w \in wire', w.op = "put", ~w.typed, ~desk'[w.desk].box[w.box].moved
          PROVE  w.value = Worth(w.box) /\ w.box \in Boxes
      <3>1. CASE w = m
        <4>1. x.on /\ ~x.typed /\ ~x.moved
          BY <1>4, <1>9, <1>10, <2>3, <3>1 DEF x, t
        <4>2. value = x.input
          BY <1>4, <2>3, <3>1 DEF x
        <4> QED
          BY <1>4, <3>1, <4>1, <4>2 DEF DeskInv, Harmless, x
      <3>2. CASE w \in wire
        <4>1. w.desk \in Desks /\ w.box \in Boxes
          BY <2>3, <3>2, MessageIs DEF DeskInv, Tasks, Changes
        <4>2. ~desk[w.desk].box[w.box].moved
          BY <1>9, <2>3, <4>1
        <4> QED
          BY <2>3, <3>2, <4>1, <4>2 DEF DeskInv, Harmless
      <3> QED
        BY <1>1, <3>1, <3>2
    <2> QED
      BY <1>1, <2>1, <2>2, <2>3 DEF DeskInv, Harmless
  <1> QED
    BY <1>12, <1>13, <1>14, <1>15, <1>16, <1>17, <1>18 DEF DeskInv

LEMMA SaveBoxKeeps ==
  ASSUME NEW d \in Desks, NEW b \in Boxes, DeskInv, SaveBox(d, b)
  PROVE  DeskInv'
  <1>1. /\ desk[d].box[b].on /\ ~desk[d].box[b].busy
        /\ Clicked(d, b, "put", desk[d].box[b].input)
    BY DEF SaveBox, Open, MayClick, NotBusy
  <1>2. desk[d].box[b].input \in NoMark .. Full + 1
    BY DEF DeskInv, DeskTypes, DeskRecords, BoxRecords
  <1>3. "put" \in Changes
    BY DEF Changes
  <1> QED
    BY <1>1, <1>2, <1>3, ClickedKeeps

LEMMA ResetCellKeeps ==
  ASSUME NEW d \in Desks, NEW c \in Cells, DeskInv, ResetCell(d, c)
  PROVE  DeskInv'
  <1>1. /\ desk[d].box[c].on /\ ~desk[d].box[c].busy
        /\ Clicked(d, c, "delete", NoMark) /\ c \in Boxes
    BY DEF ResetCell, Open, MayClick, NotBusy, Boxes
  <1>2. NoMark \in NoMark .. Full + 1
    BY DeskAssumption DEF NoMark
  <1>3. "delete" \in Changes /\ "delete" # "put"
    BY DEF Changes
  <1> QED
    BY <1>1, <1>2, <1>3, ClickedKeeps

-----------------------------------------------------------------------------
(***************************************************************************)
(* A mark moves.                                                           *)
(***************************************************************************)

MayMove(b) == IF Worth(b)' # Worth(b) THEN NoteMoves(b) ELSE UNCHANGED desk

LEMMA BoxesMove ==
  ASSUME NEW b \in Boxes, DeskTypes, MayMove(b)
  PROVE  /\ desk' \in [Desks -> DeskRecords]
         /\ \A e \in Desks : /\ desk'[e].table = desk[e].table /\ desk'[e].hasRows = desk[e].hasRows
                             /\ desk'[e].read = desk[e].read /\ desk'[e].newest = desk[e].newest
                             /\ desk'[e].missed = desk[e].missed
         /\ \A e \in Desks, a \in Boxes :
              /\ desk'[e].box[a].on = desk[e].box[a].on /\ desk'[e].box[a].busy = desk[e].box[a].busy
              /\ desk'[e].box[a].typed = desk[e].box[a].typed
              /\ desk'[e].box[a].input = desk[e].box[a].input
         /\ \A e \in Desks, a \in Boxes :
              desk[e].box[a].on /\ ~desk'[e].box[a].moved =>
                ~desk[e].box[a].moved /\ (a = b => Worth(b)' = Worth(b))
  <1>1. CASE Worth(b)' # Worth(b)
    <2>1. desk' = Moves(b)
      BY <1>1 DEF MayMove, NoteMoves, Moves
    <2> QED
      BY <2>1, MovesIs
  <1>2. CASE Worth(b)' = Worth(b)
    <2>1. desk' = desk
      BY <1>2 DEF MayMove
    <2> QED
      BY <1>2, <2>1 DEF DeskTypes
  <1> QED
    BY <1>1, <1>2

LEMMA HarmlessMoved ==
  ASSUME NEW b \in Boxes, DeskTypes, OneTask, Harmless, MayMove(b), ~slipped',
         \A a \in Boxes : a # b => Worth(a)' = Worth(a),
         \A w \in wire' : w.op = "put" => w \in wire
  PROVE  Harmless'
  <1>1. ASSUME NEW e \in Desks, NEW a \in Boxes, desk[e].box[a].on, ~desk'[e].box[a].moved
        PROVE  ~desk[e].box[a].moved /\ Worth(a)' = Worth(a)
    BY <1>1, BoxesMove
  <1>2. ASSUME NEW e \in Desks, NEW a \in Boxes, desk'[e].box[a].on, ~desk'[e].box[a].typed,
               ~desk'[e].box[a].moved
        PROVE  desk'[e].box[a].input = Worth(a)'
    <2>1. /\ desk[e].box[a].on /\ ~desk[e].box[a].typed
          /\ desk'[e].box[a].input = desk[e].box[a].input
      BY <1>2, BoxesMove
    <2> QED
      BY <1>1, <1>2, <2>1 DEF Harmless
  <1>3. ASSUME NEW w \in wire', w.op = "put", ~w.typed, ~desk'[w.desk].box[w.box].moved
        PROVE  w.value = Worth(w.box)'
    <2>1. w \in wire /\ w.op \in Tasks
      BY <1>3 DEF Tasks, Changes
    <2>2. w.desk \in Desks /\ w.box \in Boxes /\ desk[w.desk].box[w.box].on
      BY <2>1, MessageIs DEF OneTask
    <2> QED
      BY <1>1, <1>3, <2>1, <2>2 DEF Harmless
  <1> QED
    BY <1>2, <1>3 DEF Harmless

LEMMA OthersStay ==
  ASSUME NEW b \in Boxes,
         \A a \in Cells : a # b => auto'[a] = auto[a], \A a \in Boxes : a # b => stored'[a] = stored[a]
  PROVE  /\ \A c \in Cells : c # b => Row(c)' = Row(c)
         /\ \A a \in Boxes : a # b => Worth(a)' = Worth(a)
  <1>1. ASSUME NEW c \in Cells, c # b PROVE Row(c)' = Row(c)
    <2>1. auto'[c] = auto[c] /\ stored'[c] = stored[c]
      BY <1>1 DEF Boxes
    <2> QED
      BY <2>1 DEF Row
  <1>2. ASSUME NEW a \in Boxes, a # b PROVE Worth(a)' = Worth(a)
    <2>1. stored'[a] = stored[a]
      BY <1>2
    <2> QED
      BY <1>1, <1>2, <2>1 DEF Worth, Minutes
  <1> QED
    BY <1>1, <1>2

(* The row of c may change, and who moved it. *)
LEMMA LoadingMoved ==
  ASSUME NEW b \in Boxes, Loading, \A c \in Cells : c # b => Row(c)' = Row(c) /\ mover'[c] = mover[c],
         \A d \in Desks : /\ desk'[d].table = desk[d].table /\ desk'[d].read = desk[d].read
                          /\ desk'[d].newest = desk[d].newest
                          /\ desk'[d].missed = desk[d].missed,
         \A m : m.op = "rows" => (m \in wire <=> m \in wire'),
         \A m \in wire : m.op \in {"results", "no answer", "done"} => m \in wire',
         \A d \in Desks : b \in Cells /\ mover'[b] = {d} => WillLoad(d, b)'
  PROVE  Loading'
  <1> SUFFICES ASSUME NEW d \in Desks, NEW c \in Cells, mover'[c] = {d}
               PROVE  Fed(d, c)'
    BY DEF Loading, Fed
  <1>1. CASE c = b
    BY <1>1 DEF Fed
  <1>2. CASE c # b
    <2>1. Fed(d, c)
      BY <1>2 DEF Loading, Fed
    <2> QED
      BY <1>2, <2>1, FedKept
  <1> QED
    BY <1>1, <1>2

(* The change m is carried out, and answered. *)
LEMMA StoresKeeps ==
  ASSUME NEW m \in wire, NEW op \in {"done", "failed"}, DeskInv, m.op \in Changes,
         Stores(m, Target(m)), Replies(m, op),
         mover' = [mover EXCEPT ![m.box] = IF op = "done" THEN {m.desk} ELSE {}],
         UNCHANGED <<auto, reads>>
  PROVE  DeskInv'
  <1> DEFINE b == m.box
             to == Target(m)
             r == [desk |-> m.desk, op |-> op, box |-> b]
  <1>1. /\ m.desk \in Desks /\ b \in Boxes /\ m.value \in NoMark .. Full + 1 /\ m.op \in Tasks
    BY MessageIs DEF DeskInv, Tasks
  <1>2. /\ stored' = [stored EXCEPT ![b] = to] /\ MayMove(b) /\ UNCHANGED last
        /\ wire' = (wire \ {m}) \cup {r}
        /\ slipped' = (slipped \/ (/\ m.op = "put" /\ ~m.typed
                                   /\ ~desk[m.desk].box[b].moved /\ Worth(b)' # Worth(b)))
        /\ ~(m.op = "put" /\ b \in Cells /\ m.value > Full)
    BY DEF Stores, Replies, MayMove, Refusable
  <1>3. r \in EndMessages /\ r.desk = m.desk /\ r.op = op /\ r.box = b
    BY <1>1 DEF EndMessages
  <1> HIDE DEF r
  <1>4. to \in NoMark .. Full + 1 /\ (b \in Cells => to <= Full)
    BY <1>1, <1>2, DeskAssumption DEF Target, Changes, NoMark
  <1>5. stored'[b] = to /\ \A a \in Boxes : a # b => stored'[a] = stored[a]
    BY <1>1, <1>2 DEF DeskInv, DeskTypes
  <1>6. /\ \A c \in Cells : c # b => Row(c)' = Row(c)
        /\ \A a \in Boxes : a # b => Worth(a)' = Worth(a)
    BY <1>1, <1>5, OthersStay
  <1>7. /\ desk' \in [Desks -> DeskRecords]
        /\ \A e \in Desks : /\ desk'[e].table = desk[e].table /\ desk'[e].hasRows = desk[e].hasRows
                            /\ desk'[e].read = desk[e].read /\ desk'[e].newest = desk[e].newest
                            /\ desk'[e].missed = desk[e].missed
        /\ \A e \in Desks, a \in Boxes :
              /\ desk'[e].box[a].on = desk[e].box[a].on /\ desk'[e].box[a].busy = desk[e].box[a].busy
    BY <1>1, <1>2, BoxesMove DEF DeskInv
  <1>8. DeskTypes'
    <2>1. stored' \in [Boxes -> NoMark .. Full + 1] /\ \A c \in Cells : stored'[c] <= Full
      <3>1. stored' \in [Boxes -> NoMark .. Full + 1]
        BY <1>2, <1>4 DEF DeskInv, DeskTypes
      <3>2. \A c \in Cells : stored'[c] <= Full
        BY <1>4, <1>5 DEF DeskInv, DeskTypes, Boxes
      <3> QED
        BY <3>1, <3>2
    <2>2. wire' \subseteq Messages
      BY <1>2, <1>3 DEF DeskInv, DeskTypes, Messages
    <2>3. mover' \in [Boxes -> SUBSET Desks]
      BY <1>1 DEF DeskInv, DeskTypes
    <2> QED
      BY <1>2, <1>7, <2>1, <2>2, <2>3 DEF DeskInv, DeskTypes
  <1>9. Backed'
    BY <1>2, <1>3, <1>7 DEF DeskInv, Backed, Boxes
  <1>10. OneTask'
    <2>1. \A w \in wire : w.op \in Tasks /\ w.desk = m.desk /\ w.box = b => w = m
      BY <1>1 DEF DeskInv, OneTask
    <2>2. \A e \in Desks, a \in Boxes : desk'[e].box[a].busy => desk'[e].box[a].on
      BY <1>7 DEF DeskInv, OneTask
    <2>3. ASSUME NEW w \in wire', w.op \in Tasks
          PROVE  desk'[w.desk].box[w.box].busy
      <3>1. PICK v \in wire : v.op \in Tasks /\ v.desk = w.desk /\ v.box = w.box
        BY <1>1, <1>2, <1>3, <2>3
      <3>2. v.desk \in Desks /\ v.box \in Boxes /\ desk[v.desk].box[v.box].busy
        BY <3>1, MessageIs DEF DeskInv, OneTask
      <3> QED
        BY <1>7, <3>1, <3>2
    <2>4. \A v, w \in wire' : v.op \in Tasks /\ w.op \in Tasks /\ v.desk = w.desk /\ v.box = w.box => v = w
      BY <1>2, <1>3, <2>1 DEF DeskInv, OneTask
    <2> QED
      BY <2>2, <2>3, <2>4 DEF OneTask
  <1>11. Standing'
    <2> SUFFICES ASSUME NEW a \in Boxes, last[a].calm
                 PROVE  /\ \A w \in wire' : w.op \in Changes /\ w.box = a => Target(w) = last[a].to
                        /\ (\A w \in wire' : w.op \in Changes => w.box # a) => stored'[a] = last[a].to
      BY <1>2 DEF Standing, Target
    <2>1. \A w \in wire' : w.op \in Changes => w \in wire
      BY <1>2, <1>3 DEF Changes
    <2>2. \A w \in wire' : w.op \in Changes /\ w.box = a => Target(w) = last[a].to
      BY <2>1 DEF DeskInv, Standing
    <2>3. CASE a = b
      <3>1. to = last[a].to
        BY <2>3 DEF DeskInv, Standing
      <3> QED
        BY <1>5, <2>2, <2>3, <3>1
    <2>4. CASE a # b
      <3>1. \A w \in wire : w.box = a => w \in wire'
        BY <1>2, <2>4
      <3>2. stored'[a] = stored[a]
        BY <1>5, <2>4
      <3> QED
        BY <2>2, <3>1, <3>2 DEF DeskInv, Standing
    <2> QED
      BY <2>3, <2>4
  <1>12. Numbered'
    BY <1>2, <1>3, <1>7 DEF DeskInv, Numbered
  <1>13. Loading'
    <2>1. \A c \in Cells : c # b => Row(c)' = Row(c) /\ mover'[c] = mover[c]
      BY <1>1, <1>6 DEF DeskInv, DeskTypes
    <2>2. /\ \A w : w.op = "rows" => (w \in wire <=> w \in wire')
          /\ \A w \in wire : w.op \in {"results", "no answer", "done"} => w \in wire'
      BY <1>2, <1>3 DEF Changes
    <2>3. ASSUME NEW d \in Desks, b \in Cells, mover'[b] = {d}
          PROVE  WillLoad(d, b)'
      <3>1. mover'[b] = IF op = "done" THEN {m.desk} ELSE {}
        BY <1>1 DEF DeskInv, DeskTypes
      <3>2. op = "done" /\ d = m.desk
        BY <2>3, <3>1
      <3> QED
        BY <1>2, <1>3, <3>2 DEF WillLoad
    <2> QED
      BY <1>1, <1>7, <2>1, <2>2, <2>3, LoadingMoved DEF DeskInv
  <1>14. m.op = "put" /\ ~m.typed /\ ~desk[m.desk].box[b].moved => Worth(b)' = Worth(b)
    <2> SUFFICES ASSUME m.op = "put", ~m.typed, ~desk[m.desk].box[b].moved
                 PROVE  Worth(b)' = Worth(b)
      OBVIOUS
    <2>1. m.value = Worth(b)
      BY DEF DeskInv, Harmless
    <2>2. desk[m.desk].box[b].on
      BY <1>1 DEF DeskInv, OneTask
    <2>3. to = IF b \in ExtraRows /\ m.value = 0 THEN NoMark ELSE m.value
      BY DEF Target
    <2>4. stored[b] \in NoMark .. Full + 1
      BY <1>1 DEF DeskInv, DeskTypes
    <2>5. CASE b \in Cells
      <3>1. auto[b] # NoMark /\ auto[b] \in NoMark .. Full
        BY <1>1, <2>2, <2>5 DEF DeskInv, Backed, DeskTypes
      <3>2. b \notin ExtraRows
        BY <2>5, DeskAssumption
      <3>3. m.value # NoMark
        BY <1>1, <2>1, <2>5, <3>1, WorthIs DEF DeskInv
      <3>4. Worth(b)' = IF stored'[b] # NoMark THEN stored'[b] ELSE auto[b]
        BY <2>5, <3>1 DEF Worth, Row
      <3> QED
        BY <1>5, <2>1, <2>3, <3>2, <3>3, <3>4
    <2>6. CASE b \notin Cells
      <3>1. b \in ExtraRows
        BY <1>1, <2>6 DEF Boxes
      <3>2. Worth(b) = IF stored[b] = NoMark THEN 0 ELSE stored[b]
        BY <2>6 DEF Worth, Minutes
      <3>3. Worth(b)' = IF stored'[b] = NoMark THEN 0 ELSE stored'[b]
        BY <2>6 DEF Worth, Minutes
      <3> QED
        BY <1>5, <2>1, <2>3, <2>4, <3>1, <3>2, <3>3 DEF NoMark
    <2> QED
      BY <2>5, <2>6
  <1>15. ~slipped'
    BY <1>2, <1>14 DEF DeskInv, Harmless
  <1>16. \A w \in wire' : w.op = "put" => w \in wire
    BY <1>2, <1>3
  <1>17. Harmless'
    BY <1>1, <1>2, <1>6, <1>15, <1>16, HarmlessMoved DEF DeskInv
  <1> QED
    BY <1>8, <1>9, <1>10, <1>11, <1>12, <1>13, <1>17 DEF DeskInv

(* The change m is refused or lost. *)
LEMMA StoresNothingKeeps ==
  ASSUME NEW m \in wire, DeskInv, m.op \in Changes, StoresNothing(m), Replies(m, "failed"),
         UNCHANGED <<auto, reads>>
  PROVE  DeskInv'
  <1> DEFINE b == m.box
             r == [desk |-> m.desk, op |-> "failed", box |-> b]
  <1>1. m.desk \in Desks /\ b \in Boxes /\ m.op \in Tasks
    BY MessageIs DEF DeskInv, Tasks
  <1>2. /\ wire' = (wire \ {m}) \cup {r} /\ UNCHANGED <<stored, desk, mover, slipped>>
        /\ last' = [last EXCEPT ![b].calm = FALSE]
    BY DEF StoresNothing, Replies
  <1>3. r \in EndMessages /\ r.desk = m.desk /\ r.op = "failed" /\ r.box = b
    BY <1>1 DEF EndMessages
  <1> HIDE DEF r
  <1>4. /\ last' \in [Boxes -> [to : NoMark .. Full + 1, calm : BOOLEAN]]
        /\ ~last'[b].calm /\ \A a \in Boxes : a # b => last'[a] = last[a]
    BY <1>1, <1>2 DEF DeskInv, DeskTypes
  <1>5. DeskTypes'
    BY <1>2, <1>3, <1>4 DEF DeskInv, DeskTypes, Messages
  <1>6. Backed'
    BY <1>2, <1>3 DEF DeskInv, Backed
  <1>7. OneTask'
    <2>1. \A w \in wire : w.op \in Tasks /\ w.desk = m.desk /\ w.box = b => w = m
      BY <1>1 DEF DeskInv, OneTask
    <2>2. ASSUME NEW w \in wire', w.op \in Tasks
          PROVE  desk'[w.desk].box[w.box].busy
      <3>1. PICK v \in wire : v.op \in Tasks /\ v.desk = w.desk /\ v.box = w.box
        BY <1>1, <1>2, <1>3, <2>2
      <3> QED
        BY <1>2, <3>1 DEF DeskInv, OneTask
    <2>3. \A v, w \in wire' : v.op \in Tasks /\ w.op \in Tasks /\ v.desk = w.desk /\ v.box = w.box => v = w
      BY <1>2, <1>3, <2>1 DEF DeskInv, OneTask
    <2> QED
      BY <1>2, <2>2, <2>3 DEF DeskInv, OneTask
  <1>8. Standing'
    <2> SUFFICES ASSUME NEW a \in Boxes, last'[a].calm
                 PROVE  /\ \A w \in wire' : w.op \in Changes /\ w.box = a => Target(w) = last'[a].to
                        /\ (\A w \in wire' : w.op \in Changes => w.box # a) => stored'[a] = last'[a].to
      BY DEF Standing, Target
    <2>1. a # b /\ last'[a] = last[a] /\ stored'[a] = stored[a]
      BY <1>2, <1>4
    <2>2. /\ \A w \in wire' : w.op \in Changes => w \in wire
          /\ \A w \in wire : w.box = a => w \in wire'
      BY <1>2, <1>3, <2>1 DEF Changes
    <2> QED
      BY <2>1, <2>2 DEF DeskInv, Standing
  <1>9. Numbered'
    BY <1>2, <1>3 DEF DeskInv, Numbered
  <1>10. Loading'
    <2>1. /\ \A w : w.op = "rows" => (w \in wire <=> w \in wire')
          /\ \A w \in wire : w.op \in {"results", "no answer", "done"} => w \in wire'
      BY <1>2, <1>3 DEF Changes
    <2> QED
      BY <1>2, <2>1, RowsStay, LoadingKept DEF DeskInv
  <1>11. Harmless'
    <2>1. \A a \in Boxes : Worth(a)' = Worth(a)
      BY <1>2, RowsStay
    <2>2. \A w \in wire' : w.op = "put" => w \in wire
      BY <1>2, <1>3
    <2>3. MayMove(b)
      BY <1>1, <1>2, <2>1 DEF MayMove
    <2> QED
      BY <1>1, <1>2, <2>1, <2>2, <2>3, HarmlessMoved DEF DeskInv, Harmless
  <1> QED
    BY <1>5, <1>6, <1>7, <1>8, <1>9, <1>10, <1>11 DEF DeskInv

LEMMA ServeChangeKeeps ==
  ASSUME NEW m \in wire, DeskInv, ServeChange(m)
  PROVE  DeskInv'
  <1>1. m.op \in Changes /\ UNCHANGED <<auto, reads>>
    BY DEF ServeChange
  <1>2. CASE Stores(m, Target(m)) /\ Replies(m, "done") /\ mover' = [mover EXCEPT ![m.box] = {m.desk}]
    BY <1>1, <1>2, StoresKeeps
  <1>3. CASE Stores(m, Target(m)) /\ Replies(m, "failed") /\ mover' = [mover EXCEPT ![m.box] = {}]
    BY <1>1, <1>3, StoresKeeps
  <1>4. CASE StoresNothing(m) /\ Replies(m, "failed")
    BY <1>1, <1>4, StoresNothingKeeps
  <1> QED
    BY <1>2, <1>3, <1>4 DEF ServeChange, Target

LEMMA ChangeEndsKeeps ==
  ASSUME NEW m \in wire, DeskInv, ChangeEnds(m)
  PROVE  DeskInv'
  <1> DEFINE d == m.desk
             b == m.box
             stays == m.op = "failed" \/ b \in ExtraRows
             x == desk[d].box[b]
             y == Ended(x, stays)
             new == IF m.op = "done" THEN LoadResults(d, b) ELSE {}
  <1>1. /\ m.op \in {"done", "failed"} /\ wire' = (wire \ {m}) \cup new
        /\ desk' = [desk EXCEPT ![d].box[b] = Ended(@, stays)]
        /\ UNCHANGED <<auto, stored, reads, last, mover, slipped>>
    BY DEF ChangeEnds, Reload
  <1>2. d \in Desks /\ b \in Boxes /\ m.op \in Tasks
    BY <1>1, MessageIs DEF DeskInv, Tasks
  <1>3. BoxBecomes(desk', d, b, y)
    <2>1. stays \in BOOLEAN
      OBVIOUS
    <2> HIDE DEF stays
    <2> QED
      BY <1>1, <1>2, <2>1, EndIs DEF DeskInv
  <1> HIDE DEF stays
  <1>4. y.on = x.on /\ ~y.busy /\ y.typed = x.typed /\ y.input = x.input /\ y.moved = x.moved
    <2>1. x \in BoxRecords
      BY <1>2 DEF DeskInv, DeskTypes, DeskRecords
    <2> HIDE DEF x
    <2> QED
      BY <2>1 DEF Ended, BoxRecords
  <1>5. \A w \in new : w \in AskMessages /\ w.op = "results" /\ w.desk = d
    <2>1. /\ Ask(d, "results") \in AskMessages /\ Ask(d, "results").op = "results"
          /\ Ask(d, "results").desk = d
      BY <1>2, AskIs
    <2> QED
      BY <2>1 DEF LoadResults
  <1>6. m.op = "done" /\ b \in Cells => \E w \in new : w.op = "results" /\ w.desk = d
    <2>1. Ask(d, "results").op = "results" /\ Ask(d, "results").desk = d
      BY <1>2, AskIs
    <2> QED
      BY <2>1 DEF LoadResults
  <1> HIDE DEF x, y, new
  <1>7. \A e \in Desks, a \in Boxes :
          /\ desk'[e].box[a].on = desk[e].box[a].on
          /\ desk'[e].box[a].typed = desk[e].box[a].typed
          /\ desk'[e].box[a].input = desk[e].box[a].input
          /\ desk'[e].box[a].moved = desk[e].box[a].moved
          /\ desk'[e].box[a].busy => desk[e].box[a].busy
          /\ desk[e].box[a].busy => desk'[e].box[a].busy \/ (e = d /\ a = b)
    BY <1>3, <1>4 DEF BoxBecomes, x
  <1>8. \A w \in wire' : w.op \in Tasks => w \in wire /\ w # m
    BY <1>1, <1>5 DEF Tasks, Changes
  <1>9. DeskTypes'
    BY <1>1, <1>3, <1>5 DEF DeskInv, DeskTypes, BoxBecomes, Messages
  <1>10. Backed'
    <2>1. \A e \in Desks : desk'[e].table = desk[e].table /\ desk'[e].hasRows = desk[e].hasRows
      BY <1>3 DEF BoxBecomes
    <2>2. \A e \in Desks, c \in Cells : desk'[e].box[c].on = desk[e].box[c].on
      BY <1>7 DEF Boxes
    <2>3. auto' = auto /\ \A w \in wire' : w.op = "rows" => w \in wire
      BY <1>1, <1>5
    <2>4. Backed
      BY DEF DeskInv
    <2>5. \A e \in Desks, c \in Cells :
            /\ desk'[e].table[c] # NoRow => desk'[e].hasRows /\ auto'[c] # NoMark
            /\ desk'[e].box[c].on => desk'[e].hasRows /\ auto'[c] # NoMark
      BY <2>1, <2>2, <2>3, <2>4 DEF Backed
    <2>6. \A w \in wire' : w.op = "rows" => \A c \in Cells : w.rows[c] # NoRow => auto'[c] # NoMark
      BY <2>3, <2>4 DEF Backed
    <2> QED
      BY <2>5, <2>6 DEF Backed
  <1>11. OneTask'
    <2>1. \A e \in Desks, a \in Boxes : desk'[e].box[a].busy => desk'[e].box[a].on
      BY <1>7 DEF DeskInv, OneTask
    <2>2. ASSUME NEW w \in wire', w.op \in Tasks
          PROVE  desk'[w.desk].box[w.box].busy
      <3>1. w \in wire /\ w # m
        BY <1>8, <2>2
      <3>2. w.desk \in Desks /\ w.box \in Boxes /\ desk[w.desk].box[w.box].busy
        BY <2>2, <3>1, MessageIs DEF DeskInv, OneTask
      <3>3. ~(w.desk = d /\ w.box = b)
        BY <1>2, <2>2, <3>1 DEF DeskInv, OneTask
      <3> QED
        BY <1>7, <3>2, <3>3
    <2>3. \A v, w \in wire' : v.op \in Tasks /\ w.op \in Tasks /\ v.desk = w.desk /\ v.box = w.box => v = w
      BY <1>8 DEF DeskInv, OneTask
    <2> QED
      BY <2>1, <2>2, <2>3 DEF OneTask
  <1>12. Standing'
    <2>1. \A w : w.op \in Changes => (w \in wire <=> w \in wire')
      BY <1>1, <1>5 DEF Changes
    <2> QED
      BY <1>1, <2>1 DEF DeskInv, Standing, Target
  <1>13. Numbered'
    BY <1>1, <1>3, <1>5 DEF DeskInv, Numbered, BoxBecomes
  <1>14. Loading'
    <2> SUFFICES ASSUME NEW e \in Desks, NEW c \in Cells, mover[c] = {e}
                 PROVE  Fed(e, c)'
      BY <1>1 DEF Loading, Fed
    <2>1. Fed(e, c)
      BY DEF DeskInv, Loading, Fed
    <2>2. Row(c)' = Row(c)
      BY <1>1, RowsStay
    <2>3. /\ desk'[e].table = desk[e].table /\ desk'[e].read = desk[e].read
          /\ desk'[e].newest = desk[e].newest /\ desk'[e].missed = desk[e].missed
      BY <1>3 DEF BoxBecomes
    <2>4. \A w : w.op = "rows" /\ w.desk = e => (w \in wire <=> w \in wire')
      BY <1>1, <1>5
    <2>5. ASSUME NEW w \in wire, w.desk = e,
                 w.op \in {"results", "no answer"} \/ (w.op = "done" /\ w.box = c)
          PROVE  w \in wire' \/ WillLoad(e, c)'
      <3>1. CASE w = m
        <4>1. m.op = "done" /\ b = c /\ d = e
          BY <1>1, <2>5, <3>1
        <4>2. PICK v \in new : v.op = "results" /\ v.desk = d
          BY <1>6, <4>1
        <4> QED
          BY <1>1, <4>1, <4>2 DEF WillLoad
      <3>2. CASE w # m
        BY <1>1, <3>2
      <3> QED
        BY <3>1, <3>2
    <2> QED
      BY <2>1, <2>2, <2>3, <2>4, <2>5, FedKept
  <1>15. Harmless'
    <2>1. \A a \in Boxes : Worth(a)' = Worth(a)
      BY <1>1, RowsStay
    <2>2. \A e \in Desks, a \in Boxes :
            LET z == desk'[e].box[a] IN z.on /\ ~z.typed /\ ~z.moved => z.input = Worth(a)
      BY <1>7 DEF DeskInv, Harmless
    <2>3. ASSUME NEW w \in wire', w.op = "put", ~w.typed, ~desk'[w.desk].box[w.box].moved
          PROVE  w.value = Worth(w.box) /\ w.box \in Boxes
      <3>1. w \in wire /\ w.op \in Tasks
        BY <1>8, <2>3 DEF Tasks, Changes
      <3>2. w.desk \in Desks /\ w.box \in Boxes
        BY <3>1, MessageIs DEF DeskInv
      <3>3. ~desk[w.desk].box[w.box].moved
        BY <1>7, <2>3, <3>2
      <3> QED
        BY <2>3, <3>1, <3>2, <3>3 DEF DeskInv, Harmless
    <2> QED
      BY <1>1, <2>1, <2>2, <2>3 DEF DeskInv, Harmless
  <1> QED
    BY <1>9, <1>10, <1>11, <1>12, <1>13, <1>14, <1>15 DEF DeskInv

LEMMA GradedKeeps ==
  ASSUME NEW c \in Cells, DeskInv, Graded(c)
  PROVE  DeskInv'
  <1>1. PICK v \in 0 .. Full : auto' = [auto EXCEPT ![c] = v]
    BY DEF Graded
  <1>2. /\ UNCHANGED <<stored, wire, reads, last, slipped>> /\ MayMove(c)
        /\ mover' = [mover EXCEPT ![c] = {}]
    BY DEF Graded, MayMove
  <1>3. c \in Boxes
    BY DEF Boxes
  <1>4. /\ auto' \in [Cells -> NoMark .. Full] /\ auto'[c] # NoMark
        /\ \A a \in Cells : a # c => auto'[a] = auto[a]
    BY <1>1, DeskAssumption DEF DeskInv, DeskTypes, NoMark
  <1>5. /\ \A a \in Cells : a # c => Row(a)' = Row(a)
        /\ \A a \in Boxes : a # c => Worth(a)' = Worth(a)
    BY <1>2, <1>3, <1>4, OthersStay
  <1>6. /\ desk' \in [Desks -> DeskRecords]
        /\ \A e \in Desks : /\ desk'[e].table = desk[e].table /\ desk'[e].hasRows = desk[e].hasRows
                            /\ desk'[e].read = desk[e].read /\ desk'[e].newest = desk[e].newest
                            /\ desk'[e].missed = desk[e].missed
        /\ \A e \in Desks, a \in Boxes :
              /\ desk'[e].box[a].on = desk[e].box[a].on /\ desk'[e].box[a].busy = desk[e].box[a].busy
    BY <1>2, <1>3, BoxesMove DEF DeskInv
  <1>7. SameTasks
    BY <1>2 DEF SameTasks
  <1>8. DeskTypes'
    BY <1>2, <1>3, <1>4, <1>6 DEF DeskInv, DeskTypes
  <1>9. Backed'
    <2>1. \A a \in Cells : auto[a] # NoMark => auto'[a] # NoMark
      BY <1>4
    <2> QED
      BY <1>2, <1>6, <2>1 DEF DeskInv, Backed, Boxes
  <1>10. OneTask'
    BY <1>6, <1>7, OneTaskKept DEF DeskInv
  <1>11. Standing'
    BY <1>2, <1>7, StandingKept DEF DeskInv
  <1>12. Numbered'
    BY <1>2, <1>6 DEF DeskInv, Numbered
  <1>13. Loading'
    <2>1. mover'[c] = {} /\ \A a \in Cells : a # c => mover'[a] = mover[a]
      BY <1>2, <1>3 DEF DeskInv, DeskTypes, Boxes
    <2> QED
      BY <1>2, <1>3, <1>5, <1>6, <2>1, LoadingMoved DEF DeskInv
  <1>14. Harmless'
    BY <1>2, <1>3, <1>5, HarmlessMoved DEF DeskInv, Harmless
  <1> QED
    BY <1>8, <1>9, <1>10, <1>11, <1>12, <1>13, <1>14 DEF DeskInv

LEMMA DeskStepKeeps == DeskInv /\ [DeskNext]_deskVars => DeskInv'
  <1> SUFFICES ASSUME DeskInv, [DeskNext]_deskVars PROVE DeskInv'
    OBVIOUS
  <1>1. ASSUME NEW d \in Desks, OpenPage(d) PROVE DeskInv'
    BY <1>1, OpenPageKeeps
  <1>2. ASSUME NEW d \in Desks, NEW b \in Boxes, TypeMark(d, b) \/ SaveBox(d, b) PROVE DeskInv'
    BY <1>2, TypeMarkKeeps, SaveBoxKeeps
  <1>3. ASSUME NEW d \in Desks, NEW c \in Cells, ToggleCell(d, c) \/ ResetCell(d, c) PROVE DeskInv'
    BY <1>3, ToggleCellKeeps, ResetCellKeeps
  <1>4. ASSUME NEW m \in wire, ServeLoad(m) \/ LoadArrives(m) PROVE DeskInv'
    BY <1>4, ServeLoadKeeps, LoadArrivesKeeps
  <1>5. ASSUME NEW m \in wire, ServeChange(m) \/ ChangeEnds(m) PROVE DeskInv'
    BY <1>5, ServeChangeKeeps, ChangeEndsKeeps
  <1>6. ASSUME NEW c \in Cells, Graded(c) PROVE DeskInv'
    BY <1>6, GradedKeeps
  <1>7. CASE UNCHANGED deskVars
    <2>1. UNCHANGED <<auto, stored, desk, wire, reads, last, mover, slipped>>
      BY <1>7 DEF deskVars
    <2>2. SameTasks
      BY <2>1 DEF SameTasks
    <2>3. DeskTypes' /\ Backed' /\ OneTask' /\ Numbered'
      BY <2>1 DEF DeskInv, DeskTypes, Backed, OneTask, Numbered
    <2>4. Standing'
      BY <2>1, <2>2, StandingKept DEF DeskInv
    <2>5. Loading'
      BY <2>1, RowsStay, LoadingKept DEF DeskInv
    <2>6. Harmless'
      BY <2>1, <2>2, RowsStay, HarmlessKept DEF DeskInv
    <2> QED
      BY <2>3, <2>4, <2>5, <2>6 DEF DeskInv
  <1> QED
    BY <1>1, <1>2, <1>3, <1>4, <1>5, <1>6, <1>7 DEF DeskNext

LEMMA DeskInvHolds == DeskSpec => []DeskInv
  BY DeskInitHolds, DeskStepKeeps, PTL DEF DeskSpec

-----------------------------------------------------------------------------
(***************************************************************************)
(* What the invariant says.                                                *)
(***************************************************************************)

LEMMA StandingSays == Standing => LastClickStands
  BY DEF Standing, LastClickStands

LEMMA LoadingSays == DeskTypes /\ Numbered /\ Loading => TableIsFresh
  <1> SUFFICES ASSUME DeskTypes, Loading, NEW d \in Desks, NEW c \in Cells,
                      ~desk[d].missed, desk[d].read = desk[d].newest,
                      \A m \in wire : m.desk # d, mover[c] = {d}
               PROVE  desk[d].table[c] = Row(c)
    BY DEF TableIsFresh
  <1>1. ~WillLoad(d, c)
    BY DEF WillLoad
  <1>2. PICK n \in Nat : FreshFrom(n, d, c)
    BY <1>1 DEF Loading
  <1>3. desk[d].newest >= n
    BY <1>2 DEF FreshFrom
  <1> QED
    BY <1>2, <1>3 DEF FreshFrom

(* ExamAdmin.jsx:97, 208 and 217: whatever the visits of a teacher's page do and
   however requests are served and answered, the last click on a box that was not
   refused, lost or raced by another visit is what the server keeps; a table with
   all its answers is the server's; and an untouched Save changes no mark that
   has not moved. *)
THEOREM MarksAlwaysStand == DeskSpec => []MarksStand
  <1>1. DeskInv => MarksStand
    BY StandingSays, LoadingSays DEF DeskInv, Harmless, MarksStand, UntouchedIsHarmless
  <1> QED
    BY <1>1, DeskInvHolds, PTL

(* Marks, overrides and extra times keep their ranges, a box comes with its row,
   and a visit has at most one change of a box under way (ExamAdmin.jsx:208). *)
THEOREM DeskTyping == DeskSpec => []DeskTypeOK
  <1>1. DeskInv => DeskTypeOK
    <2> SUFFICES ASSUME DeskInv PROVE DeskTypeOK
      OBVIOUS
    <2>1. ASSUME NEW d \in Desks, NEW b \in Boxes
          PROVE  Cardinality({m \in wire : m.desk = d /\ m.op \in Changes \cup {"done", "failed"} /\ m.box = b}) <= 1
      <3> DEFINE S == {m \in wire : m.desk = d /\ m.op \in Changes \cup {"done", "failed"} /\ m.box = b}
      <3>1. \A m, n \in S : m = n
        BY DEF DeskInv, OneTask, Tasks
      <3> HIDE DEF S
      <3>2. Cardinality(S) <= 1
        <4>1. CASE S = {}
          BY <4>1, FS_EmptySet
        <4>2. ASSUME NEW m \in S PROVE Cardinality(S) <= 1
          <5>1. S = {m}
            BY <3>1
          <5>2. Cardinality(S) = 1
            BY <5>1, FS_Singleton
          <5> QED
            BY ONLY <5>2
        <4> QED
          BY <4>1, <4>2
      <3> QED
        BY <3>2 DEF S
    <2>2. /\ auto \in [Cells -> NoMark .. Full] /\ stored \in [Boxes -> NoMark .. Full + 1]
          /\ \A c \in Cells : stored[c] <= Full
      BY DEF DeskInv, DeskTypes
    <2>3. \A d \in Desks, c \in Cells : desk[d].box[c].on => desk[d].hasRows
      BY DEF DeskInv, Backed
    <2> QED
      BY <2>1, <2>2, <2>3 DEF DeskTypeOK
  <1> QED
    BY <1>1, DeskInvHolds, PTL

-----------------------------------------------------------------------------
(***************************************************************************)
(* The three parts side by side                                            *)
(***************************************************************************)

(* Each behaves as it does alone. *)
LEMMA ClassroomParts == ClassroomSpec => Spec /\ CourseSpec /\ DeskSpec
  <1>1. ClassroomInit => Init /\ CourseInit /\ DeskInit
    BY DEF ClassroomInit
  <1>2. [ClassroomNext]_<<part, vars, courseVars, deskVars>> =>
          [Next]_vars /\ [CourseNext]_courseVars /\ [DeskNext]_deskVars
    BY DEF ClassroomNext
  <1> QED
    BY <1>1, <1>2, PTL DEF ClassroomSpec, Spec, CourseSpec, DeskSpec

(* The results, the course and the grade desk keep the types of all their  *)
(* variables.                                                              *)
THEOREM ClassroomTyping == ClassroomSpec => []ClassroomTypeOK
  BY ClassroomParts, ResultsTyping, CourseTyping, DeskTyping, PTL DEF ClassroomTypeOK
=============================================================================
