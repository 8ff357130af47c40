---------------------------- MODULE MCClassroom ----------------------------
(* Small instances of ExamResults, CourseAccess and GradeDesk, side by side: a
   behaviour is one of the three modules', the others stay as they start. *)
EXTENDS MCExamResults, CourseAccess, GradeDesk

VARIABLE part

ClassroomInit ==
  /\ part \in {"results", "course", "desk"}
  /\ Init /\ CourseInit /\ DeskInit
  /\ part # "results" => cases = Cases /\ exam.window = 0
  /\ part # "desk" => \A c \in Cells : auto[c] = 0

ClassroomNext ==
  /\ UNCHANGED part
  /\ \/ part = "results" /\ Next /\ UNCHANGED <<courseVars, deskVars>>
     \/ part = "course" /\ CourseNext /\ UNCHANGED <<vars, deskVars>>
     \/ part = "desk" /\ DeskNext /\ UNCHANGED <<vars, courseVars>>

ClassroomSpec == ClassroomInit /\ [][ClassroomNext]_<<part, vars, courseVars, deskVars>>

(* Every variable of the three has its type. *)
ClassroomTypeOK == ResultsTypeOK /\ CourseTypeOK /\ DeskTypeOK
=============================================================================
