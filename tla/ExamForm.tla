------------------------------- MODULE ExamForm -------------------------------
(* Setting an exam: components/teacher/ExamForm.jsx over POST /exams and
   GET /courses/:id/roster.

   Choosing a course empties the paper and loads the students, but keeps the
   marks and the students that were chosen; the answers to two such loads arrive
   in any order, and the form does not ask whose they are.  Times, the late
   window and the random pool are other modules'. *)
EXTENDS Integers, Sequences, SequencesExt, FiniteSetsExt

CONSTANTS
  CoursesOf, Candidates, Questions, \* courses, students, problems
  NoCourse,                         \* the empty choice
  HandMarks,                        \* marks that are set by hand
  MaxTouches                        \* bound: what the teacher does to the form

ASSUME FormAssumption == NoCourse \notin CoursesOf

VARIABLES
  belongs,   \* the course of each problem
  enrolledIn,\* the students of each course
  form,      \* what the form holds
  enrolled,  \* the students it shows
  loads,     \* courses whose roster has been asked for, or answered
  post,      \* the request under way, with what the form showed when it was sent
  exams,     \* the exams that were created, with the same
  touches    \* bound

formVars == <<belongs, enrolledIn, form, enrolled, loads, post, exams, touches>>

NoPost == [sent |-> FALSE]

EmptyForm ==
  [course |-> NoCourse, picked |-> <<>>, custom |-> FALSE,
   marks |-> [q \in {} |-> 0], whole |-> TRUE, sitters |-> {}]

(* Mutant: what is left over is lost. *)
floorPoints(n) == [i \in 1..n |-> 100 \div n]

(* The even split of 100, as writePaper makes it: what is left over goes to the
   first problems, one point each. *)
evenPoints(n) ==
  LET base      == 100 \div n
      remainder == 100 - base * n
  IN  [i \in 1..n |-> base + (IF i =< remainder THEN 1 ELSE 0)]

(* ... and as the form shows it, which "mirrors the server". *)
evenMarks(n) ==
  [i \in 1..n |-> (100 \div n) + (IF i - 1 < 100 - (100 \div n) * n THEN 1 ELSE 0)]

markFor(i) ==
  LET q == form.picked[i]
  IN  IF form.custom /\ q \in DOMAIN form.marks THEN form.marks[q]
      ELSE evenMarks(Len(form.picked))[i]

Touch == touches < MaxTouches /\ touches' = touches + 1

Others == UNCHANGED <<belongs, enrolledIn, post, exams>>
Edits  == Touch /\ Others /\ UNCHANGED <<enrolled, loads>>

-----------------------------------------------------------------------------
(* CourseSelect's onChange, and the effect that loads the students. *)
PickCourse ==
  /\ Touch /\ Others
  /\ \E c \in CoursesOf \ {form.course} :
       /\ form' = [form EXCEPT !.course = c, !.picked = <<>>]
       /\ loads' = loads \cup {[course |-> c, answered |-> FALSE]}
  /\ UNCHANGED enrolled

(* A problem that is on the paper stands there once. *)
toggleProblem ==
  /\ Edits
  /\ \/ \E q \in Questions \ ToSet(form.picked) :
          /\ belongs[q] = form.course
          /\ form' = [form EXCEPT !.picked = Append(@, q)]
     \/ \E i \in DOMAIN form.picked : form' = [form EXCEPT !.picked = RemoveAt(@, i)]

moveProblem ==
  /\ Edits
  /\ \E i \in 1 .. (Len(form.picked) - 1) :
       form' = [form EXCEPT !.picked[i] = form.picked[i + 1], !.picked[i + 1] = form.picked[i]]

setMarks ==
  /\ Edits
  /\ \/ form' = [form EXCEPT !.custom = ~@]
     \/ /\ form.custom
        /\ \E q \in ToSet(form.picked), m \in HandMarks :
             form' = [form EXCEPT !.marks = [x \in DOMAIN @ \cup {q} |-> IF x = q THEN m ELSE @[x]]]

chooseSitters ==
  /\ Edits /\ form.course # NoCourse
  /\ \/ form' = [form EXCEPT !.whole = ~@]
     \/ /\ ~form.whole
        /\ \E s \in enrolled :
             form' = [form EXCEPT !.sitters = IF s \in @ THEN @ \ {s} ELSE @ \cup {s}]

(* GET /courses/:id/roster; a failure shows no one.  Every answer is shown. *)
RosterServed(l) ==
  /\ l \in loads /\ ~l.answered
  /\ \E shown \in {enrolledIn[l.course], {}} :
       loads' = (loads \ {l}) \cup {[course |-> l.course, answered |-> TRUE, students |-> shown]}
  /\ Others /\ UNCHANGED <<form, enrolled, touches>>

RosterShown(l) ==
  /\ l \in loads /\ l.answered
  /\ enrolled' = l.students
  /\ loads' = loads \ {l}
  /\ Others /\ UNCHANGED <<form, touches>>

(* What the teacher sees at the click; "settled" when the students shown are the
   course's. *)
OnScreen ==
  [course |-> form.course, paper |-> form.picked, marks |-> [i \in DOMAIN form.picked |-> markFor(i)],
   custom |-> form.custom, whole |-> form.whole, pressed |-> form.sitters \cap enrolled,
   settled |-> enrolled = enrolledIn[form.course]]

handleSubmit ==
  /\ ~post.sent /\ form.course # NoCourse /\ form.picked # <<>>
  /\ post' = [sent |-> TRUE, shown |-> OnScreen, course |-> form.course, problem_ids |-> form.picked,
              points |-> IF form.custom THEN OnScreen.marks ELSE <<>>,
              user_ids |-> IF form.whole THEN {} ELSE form.sitters]
  /\ UNCHANGED <<belongs, enrolledIn, form, enrolled, loads, exams, touches>>

-----------------------------------------------------------------------------
problemsBelongToCourse == \A q \in ToSet(post.problem_ids) : belongs[q] = post.course

(* Mutant: enrolment not asked. *)
rosterNamesAnyone == post.user_ids \subseteq Candidates

rosterNamesEnrolled == post.user_ids \subseteq enrolledIn[post.course]

(* POST /exams, up to the COMMIT; 201 empties the form, of what has been entered
   meanwhile, too.  An answer that is lost leaves the form, to be sent again. *)
Created ==
  /\ post.sent
  /\ problemsBelongToCourse /\ rosterNamesEnrolled
  /\ exams' = exams \cup
       {[shown |-> post.shown, course |-> post.course, paper |-> post.problem_ids,
         points |-> IF post.points # <<>> THEN post.points ELSE evenPoints(Len(post.problem_ids)),
         roster |-> post.user_ids]}
  /\ \/ form' = EmptyForm /\ enrolled' = {}
     \/ UNCHANGED <<form, enrolled>>
  /\ post' = NoPost
  /\ UNCHANGED <<belongs, enrolledIn, loads, touches>>

(* 400, or 500: the form stays as it is. *)
Refused ==
  /\ post.sent
  /\ post' = NoPost
  /\ UNCHANGED <<belongs, enrolledIn, form, enrolled, loads, exams, touches>>

FormInit ==
  /\ belongs \in [Questions -> CoursesOf]
  /\ enrolledIn \in [CoursesOf -> SUBSET Candidates]
  /\ form = EmptyForm /\ enrolled = {} /\ loads = {} /\ post = NoPost
  /\ exams = {} /\ touches = 0

FormNext ==
  \/ PickCourse \/ toggleProblem \/ moveProblem \/ setMarks \/ chooseSitters
  \/ \E l \in loads : RosterServed(l) \/ RosterShown(l)
  \/ handleSubmit \/ Created \/ Refused

FormSpec == FormInit /\ [][FormNext]_formVars

-----------------------------------------------------------------------------
(* A paper is in the form only for its course, and names a problem once. *)
FormTypeOK ==
  /\ form.course \in CoursesOf \cup {NoCourse}
  /\ \A i, j \in DOMAIN form.picked : form.picked[i] = form.picked[j] => i = j
  /\ \A q \in ToSet(form.picked) : belongs[q] = form.course
  /\ form.sitters \subseteq Candidates /\ enrolled \subseteq Candidates

InAll(points) == MapThenSumSet(LAMBDA i : points[i], DOMAIN points)

Sitting(exam) == IF exam.roster = {} THEN enrolledIn[exam.course] ELSE exam.roster

(* An exam that was created is what the teacher saw: the problems in the order
   and with the marks that were shown, 100 in all and within a point of each
   other if they were not set by hand (exams.routes.js:15-18); it is sat by
   students of its course only (:47-52) and by the ones whose buttons were
   pressed, or by everyone if that was chosen or no one was pressed, wherever
   the students shown were the course's: one chosen for another course and
   hidden since is refused. *)
ExamIsAsShown ==
  \A e \in exams :
    /\ e.paper = e.shown.paper /\ e.points = e.shown.marks
    /\ \A q \in ToSet(e.paper) : belongs[q] = e.course
    /\ ~e.shown.custom =>
         /\ InAll(e.points) = 100
         /\ \A i, j \in DOMAIN e.points : e.points[i] - e.points[j] \in -1..1
    /\ Sitting(e) \subseteq enrolledIn[e.course]
    /\ e.shown.settled =>
         Sitting(e) = IF e.shown.whole \/ e.shown.pressed = {} THEN enrolledIn[e.course]
                      ELSE e.shown.pressed
=============================================================================
