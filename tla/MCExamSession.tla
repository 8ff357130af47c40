--------------------------- MODULE MCExamSession ---------------------------
(* Small instances of ExamSession for TLC. *)
EXTENDS ExamSession, TLC

CONSTANTS s1, s2, r1, r2 \* s2 only ever stands on rosters

Interchangeable == Permutations(Requests)
=============================================================================
