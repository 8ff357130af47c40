----------------------------- MODULE MCTeaching -----------------------------
(* ExamSession as MCExamSession has it, and small instances of the pages on which
   teachers prepare a course and its exams, ExamForm, ProblemEditor and
   CoursePages, side by side: a behaviour is one of the four modules', the others
   stay as they start. *)
EXTENDS MCExamSession, ExamForm, ProblemEditor, CoursePages

VARIABLE part

(* Two courses that share a student; one of the problems is the second's. *)
TwoCourses ==
  /\ belongs = [q \in Questions |-> IF q = "q4" THEN "c2" ELSE "c1"]
  /\ enrolledIn = [c \in CoursesOf |-> IF c = "c2" THEN {"s2"} ELSE {"s1", "s2"}]

AsCreated == paper = Problems /\ perStudent = 0

TeachingInit ==
  /\ part \in {"session", "form", "problem", "courses"}
  /\ TwoCourses /\ FormInit /\ EditorInit /\ CoursePagesInit
  /\ Init /\ (part # "session" => AsCreated)

TeachingNext ==
  /\ UNCHANGED part
  /\ \/ part = "session" /\ Next /\ UNCHANGED <<formVars, editorVars, courseVars>>
     \/ part = "form" /\ FormNext /\ UNCHANGED <<vars, editorVars, courseVars>>
     \/ part = "problem" /\ EditorNext /\ UNCHANGED <<vars, formVars, courseVars>>
     \/ part = "courses" /\ CoursePagesNext /\ UNCHANGED <<vars, formVars, editorVars>>

TeachingSpec ==
  TeachingInit /\ [][TeachingNext]_<<part, vars, formVars, editorVars, courseVars>>

-----------------------------------------------------------------------------
(* What ExamForm sends is what it shows, and its choices are of their types. *)
FormStands == FormTypeOK /\ ExamIsAsShown

(* The other pages stand up to clicks, reloads and answers in any order: no
   text typed into a problem is lost but in the five ways TypedIsKept names, nor
   is a problem emptied but as EmptiedOnlyUnseen says (TeacherPanel, ProblemForm,
   TestCaseEditor); and the pages of a course show what is stored and keep what
   is typed but in the ways CoursesStand names (Courses, CourseRoster). *)
TeachersEditsStand ==
  /\ EditorTypeOK /\ CoursePagesTypeOK
  /\ EditsAreKept /\ CoursesStand
=============================================================================
