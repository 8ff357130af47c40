--------------------------- MODULE MCExamResults ---------------------------
(* Small instances of ExamResults for TLC. *)
EXTENDS ExamResults, TLC

CONSTANTS r1, r2, light, heavy

(* One without a late window and one with, which differ in everything. *)
Timetables ==
  {[start |-> 1, end |-> 2, window |-> 0, penalty |-> 0],
   [start |-> 0, end |-> 1, window |-> 1, penalty |-> 70]}
OneTimetable == {[start |-> 0, end |-> 1, window |-> 1, penalty |-> 50]}

Unequal == light :> 3 @@ heavy :> 7
Equal   == light :> 1 @@ heavy :> 1
Above   == {<<10, 70>>}

Marks == {[score |-> 5, max |-> 10], [score |-> 5, max |-> 4]}

Interchangeable == Permutations(Requests)
=============================================================================
