------------------------- MODULE ExamResultsProofs -------------------------
(***************************************************************************)
(* Proofs about ExamResults for every set of schedules and extra times,    *)
(* every number of submissions and every number of edits.                  *)
(***************************************************************************)
EXTENDS ExamResults, SequenceTheorems, FiniteInduction

Taken == {"open", "counted", "stored"}
PCs   == {"idle", "window", "refused", "untested"} \cup Taken

(* What the arithmetic on deadlines needs of the types. *)
ClockInv ==
  /\ now \in Nat /\ exam \in Schedules /\ extra \in Nat /\ cases \subseteq Cases
  /\ pc \in [Requests -> PCs]
  /\ at \in [Requests -> Nat]
  /\ seen \in [Requests -> [exam : Schedules, extra : Nat]]
  /\ verdict \in [Requests -> [late : BOOLEAN, penalty : Nat, count : Nat]]

(* Rows of submissions of whatever content, in a sequence. *)
RowsInv == \E S : attempts \in Seq(S)

(* The last minute a request is taken in, by the schedule it has seen *)
Deadline(r)  == seen[r].exam.end + seen[r].extra
LastMinute(r) == Deadline(r) + seen[r].exam.window

(* Where a request is, without an edit between its two queries, says what  *)
(* the schedule it saw makes of the minute it came in.                     *)
Judged(r) ==
  /\ pc[r] \in {"idle", "window"} => ~verdict[r].late
  /\ pc[r] = "window" =>
       seen[r].exam = exam /\ seen[r].extra = extra /\ at[r] >= exam.start
  /\ pc[r] = "refused" => at[r] < seen[r].exam.start \/ at[r] > LastMinute(r)
  /\ pc[r] \in Taken =>
       /\ at[r] >= seen[r].exam.start /\ at[r] <= LastMinute(r)
       /\ verdict[r].late <=> at[r] > Deadline(r)
       /\ verdict[r].late => verdict[r].penalty = seen[r].exam.penalty

JudgedInv == \A r \in Requests \ met : Judged(r)

(* A row carries the verdict of its request, which is over. *)
StampInv ==
  \A i \in DOMAIN attempts :
    LET r == attempts[i].of IN
      /\ {"of", "late", "penalty"} \subseteq DOMAIN attempts[i]
      /\ r \in Requests /\ pc[r] = "stored"
      /\ attempts[i].late = verdict[r].late /\ attempts[i].penalty = verdict[r].penalty

(* The teacher's steps that touch the schedule, and those that do not *)
OtherStep ==
  \/ \E c \in Cases : AddCase(c) \/ DeleteCase(c)
  \/ \E m \in Overrides : PutGrade(m)
  \/ DeleteGrade \/ Tick

LEMMA NextCases ==
  ASSUME Next
  PROVE  \/ \E r \in Requests : ReadWindow(r) \/ ReadDeadline(r) \/ CountCases(r) \/ Store(r)
         \/ \E i \in DOMAIN attempts : Load(i) \/ Save(i)
         \/ \E x \in Schedules : PutExam(x)
         \/ \E minutes \in Extras : Accommodate(minutes)
         \/ OtherStep
  BY DEF Next, OtherStep

LEMMA ScheduleType ==
  ASSUME NEW x \in Schedules
  PROVE  x.start \in Nat /\ x.end \in Nat /\ x.window \in Nat /\ x.penalty \in Nat
  BY ResultsAssumption

LEMMA ClockStep == ASSUME ClockInv, [Next]_vars PROVE ClockInv'
  <1> USE DEF ClockInv, handling
  <1> DEFINE Verdicts == [late : BOOLEAN, penalty : Nat, count : Nat]
  <1>1. ASSUME NEW r \in Requests, ReadWindow(r) PROVE ClockInv'
    BY <1>1 DEF ReadWindow, PCs, Taken
  <1>2. ASSUME NEW r \in Requests, ReadDeadline(r) PROVE ClockInv'
    <2>0. seen[r].exam \in Schedules
      OBVIOUS
    <2>1. [late |-> TRUE, penalty |-> seen[r].exam.penalty, count |-> 0] \in Verdicts
      BY <2>0, ScheduleType
    <2>2. verdict' \in [Requests -> Verdicts]
      BY <1>2, <2>1 DEF ReadDeadline
    <2>3. pc' \in [Requests -> PCs]
      BY <1>2 DEF ReadDeadline, PCs, Taken
    <2> QED BY <1>2, <2>2, <2>3 DEF ReadDeadline
  <1>3. ASSUME NEW r \in Requests, CountCases(r) PROVE ClockInv'
    <2>1. Cardinality(cases) \in Nat
      BY ResultsAssumption, FS_Subset, FS_CardinalityType
    <2>2. verdict' \in [Requests -> Verdicts] /\ pc' \in [Requests -> PCs]
      BY <1>3, <2>1 DEF CountCases, PCs, Taken
    <2> QED BY <1>3, <2>2 DEF CountCases
  <1>4. ASSUME NEW r \in Requests, Store(r) PROVE ClockInv'
    BY <1>4 DEF Store, PCs, Taken
  <1>5. ASSUME NEW i \in DOMAIN attempts, Load(i) \/ Save(i) PROVE ClockInv'
    BY <1>5 DEF Load, Save
  <1>6. ASSUME NEW x \in Schedules, PutExam(x) PROVE ClockInv'
    BY <1>6 DEF PutExam
  <1>7. ASSUME NEW minutes \in Extras, Accommodate(minutes) PROVE ClockInv'
    BY <1>7, ResultsAssumption DEF Accommodate
  <1>8. CASE OtherStep
    BY <1>8 DEF OtherStep, AddCase, DeleteCase, PutGrade, DeleteGrade, Tick
  <1>9. CASE UNCHANGED vars
    BY <1>9 DEF vars
  <1> QED BY <1>1, <1>2, <1>3, <1>4, <1>5, <1>6, <1>7, <1>8, <1>9, NextCases

(* The judgement of a request, at the two queries and between them.        *)
LEMMA JudgedStep == ASSUME ClockInv, JudgedInv, [Next]_vars PROVE JudgedInv'
  <1> SUFFICES ASSUME NEW q \in Requests, q \notin met' PROVE Judged(q)'
    BY DEF JudgedInv
  <1> USE DEF handling, Judged, Deadline, LastMinute
  <1>0. met \subseteq met' /\ Judged(q)
    <2>1. met \subseteq met'
      BY NextCases DEF vars, ReadWindow, ReadDeadline, CountCases, Store, Load, Save,
         PutExam, Accommodate, Meet, OtherStep, AddCase, DeleteCase, PutGrade, DeleteGrade, Tick
    <2> QED BY <2>1 DEF JudgedInv
  <1>1. ASSUME NEW r \in Requests, ReadWindow(r) PROVE Judged(q)'
    <2>1. CASE q = r
      BY <1>0, <1>1, <2>1, ScheduleType DEF ReadWindow, ClockInv, Taken
    <2>2. CASE q # r
      BY <1>0, <1>1, <2>2 DEF ReadWindow, ClockInv
    <2> QED BY <2>1, <2>2
  <1>2. ASSUME NEW r \in Requests, ReadDeadline(r) PROVE Judged(q)'
    <2>1. CASE q = r
      <3> DEFINE x == seen[q].exam
      <3>1. /\ x = exam /\ seen[q].extra = extra /\ at[q] >= exam.start /\ at[q] \in Nat
            /\ x.start \in Nat /\ x.end \in Nat /\ x.window \in Nat /\ extra \in Nat
            /\ seen' = seen /\ at' = at /\ ~verdict[q].late
        BY <1>0, <1>2, <2>1, ScheduleType DEF ReadDeadline, ClockInv
      <3>2. CASE at[q] <= exam.end + extra
        BY <1>2, <2>1, <3>1, <3>2 DEF ReadDeadline, ClockInv, Taken
      <3>3. CASE at[q] > exam.end + extra /\ at[q] <= exam.end + extra + x.window
        BY <1>2, <2>1, <3>1, <3>3 DEF ReadDeadline, ClockInv, GraceEnds, Taken
      <3>4. CASE at[q] > exam.end + extra + x.window
        BY <1>2, <2>1, <3>1, <3>4 DEF ReadDeadline, ClockInv, GraceEnds, Taken
      <3> QED BY <3>1, <3>2, <3>3, <3>4
    <2>2. CASE q # r
      BY <1>0, <1>2, <2>2 DEF ReadDeadline, ClockInv
    <2> QED BY <2>1, <2>2
  <1>3. ASSUME NEW r \in Requests, CountCases(r) PROVE Judged(q)'
    BY <1>0, <1>3 DEF CountCases, ClockInv, Taken
  <1>4. ASSUME NEW r \in Requests, Store(r) PROVE Judged(q)'
    BY <1>0, <1>4 DEF Store, ClockInv, Taken
  <1>5. ASSUME NEW i \in DOMAIN attempts, Load(i) \/ Save(i) PROVE Judged(q)'
    BY <1>0, <1>5 DEF Load, Save
  <1>6. ASSUME NEW x \in Schedules, PutExam(x) PROVE Judged(q)'
    BY <1>0, <1>6 DEF PutExam, Meet
  <1>7. ASSUME NEW minutes \in Extras, Accommodate(minutes) PROVE Judged(q)'
    BY <1>0, <1>7 DEF Accommodate, Meet
  <1>8. CASE OtherStep
    BY <1>0, <1>8 DEF OtherStep, AddCase, DeleteCase, PutGrade, DeleteGrade, Tick
  <1>9. CASE UNCHANGED vars
    BY <1>0, <1>9 DEF vars
  <1> QED BY <1>1, <1>2, <1>3, <1>4, <1>5, <1>6, <1>7, <1>8, <1>9, NextCases

(* Appending and rewriting keep a sequence a sequence. *)
LEMMA RowsStep == ASSUME RowsInv, [Next]_vars PROVE RowsInv'
  <1> PICK S : attempts \in Seq(S)
    BY DEF RowsInv
  <1>1. ASSUME NEW r \in Requests, Store(r) PROVE RowsInv'
    <2>1. attempts' \in Seq(S \cup {Queued(r)})
      BY <1>1 DEF Store
    <2> QED BY <2>1 DEF RowsInv
  <1>2. ASSUME NEW i \in DOMAIN attempts, NEW row, attempts' = [attempts EXCEPT ![i] = row]
        PROVE RowsInv'
    <2>1. attempts' \in Seq(S \cup {row})
      BY <1>2
    <2> QED BY <2>1 DEF RowsInv
  <1>3. ASSUME NEW i \in DOMAIN attempts, Load(i) \/ Save(i) PROVE RowsInv'
    <2>1. \E row : attempts' = [attempts EXCEPT ![i] = row]
      BY <1>3 DEF Load, Save
    <2> QED BY <1>2, <2>1
  <1>4. UNCHANGED attempts => RowsInv'
    BY DEF RowsInv
  <1> QED
    BY <1>1, <1>3, <1>4, NextCases DEF vars, ReadWindow, ReadDeadline, CountCases,
       PutExam, Accommodate, OtherStep, AddCase, DeleteCase, PutGrade, DeleteGrade, Tick

(* Only a request that is over has a row, and nothing changes its verdict. *)
LEMMA StampStep == ASSUME ClockInv, RowsInv, StampInv, [Next]_vars PROVE StampInv'
  <1> USE DEF StampInv, handling
  <1>1. ASSUME NEW r \in Requests, ReadWindow(r) \/ ReadDeadline(r) \/ CountCases(r) PROVE StampInv'
    <2>1. \A q \in Requests : pc[q] = "stored" => pc'[q] = "stored" /\ verdict'[q] = verdict[q]
      BY <1>1 DEF ReadWindow, ReadDeadline, CountCases, ClockInv
    <2>2. UNCHANGED attempts
      BY <1>1 DEF ReadWindow, ReadDeadline, CountCases
    <2> QED BY <2>1, <2>2
  <1>2. ASSUME NEW r \in Requests, Store(r) PROVE StampInv'
    <2>1. PICK S : attempts \in Seq(S)
      BY DEF RowsInv
    <2>2. /\ pc'[r] = "stored" /\ verdict' = verdict
          /\ \A q \in Requests : pc[q] = "stored" => pc'[q] = "stored"
      BY <1>2 DEF Store, ClockInv
    <2>3. ASSUME NEW i \in DOMAIN attempts'
          PROVE  \/ attempts'[i] = Queued(r)
                 \/ i \in DOMAIN attempts /\ attempts'[i] = attempts[i]
      BY <1>2, <2>1, <2>3 DEF Store
    <2>4. /\ {"of", "late", "penalty"} \subseteq DOMAIN Queued(r)
          /\ Queued(r).of = r /\ Queued(r).late = verdict[r].late /\ Queued(r).penalty = verdict[r].penalty
      BY DEF Queued
    <2> QED BY <2>2, <2>3, <2>4
  <1>3. ASSUME NEW i \in DOMAIN attempts, Load(i) \/ Save(i) PROVE StampInv'
    <2> DEFINE Keeps(row) ==
          /\ DOMAIN row = DOMAIN attempts[i]
          /\ row.of = attempts[i].of /\ row.late = attempts[i].late /\ row.penalty = attempts[i].penalty
    <2>1. PICK S : attempts \in Seq(S)
      BY DEF RowsInv
    <2>2. {"of", "late", "penalty"} \subseteq DOMAIN attempts[i]
      OBVIOUS
    <2>3. CASE Load(i)
      <3> DEFINE row == [attempts[i] EXCEPT !.stage = "grading", !.tests = cases]
      <3>1. Keeps(row)
        BY <2>2
      <3>2. attempts' = [attempts EXCEPT ![i] = row] /\ pc' = pc /\ verdict' = verdict
        BY <2>3 DEF Load
      <3> QED BY <2>1, <3>1, <3>2
    <2>4. CASE Save(i)
      <3>1. PICK right : attempts' = [attempts EXCEPT ![i] = [attempts[i] EXCEPT
              !.stage = "graded",
              !.passed = Cardinality(right), !.count = Cardinality(attempts[i].tests),
              !.earned = Total(right), !.total = Total(attempts[i].tests)]]
        BY <2>4 DEF Save
      <3> DEFINE row == [attempts[i] EXCEPT
              !.stage = "graded",
              !.passed = Cardinality(right), !.count = Cardinality(attempts[i].tests),
              !.earned = Total(right), !.total = Total(attempts[i].tests)]
      <3>2. Keeps(row)
        BY <2>2
      <3>3. attempts' = [attempts EXCEPT ![i] = row] /\ pc' = pc /\ verdict' = verdict
        BY <2>4, <3>1 DEF Save
      <3> QED BY <2>1, <3>2, <3>3
    <2> QED BY <1>3, <2>3, <2>4
  <1>4. UNCHANGED <<pc, verdict, attempts>> => StampInv'
    OBVIOUS
  <1> QED
    BY <1>1, <1>2, <1>3, <1>4, NextCases DEF vars, PutExam, Accommodate, OtherStep,
       AddCase, DeleteCase, PutGrade, DeleteGrade, Tick

DeadlineInv == ClockInv /\ RowsInv /\ JudgedInv /\ StampInv

LEMMA DeadlineInit == Init => DeadlineInv
  <1> SUFFICES ASSUME Init PROVE DeadlineInv
    OBVIOUS
  <1>1. ClockInv
    BY DEF Init, ClockInv, OnTime, PCs, Taken
  <1>2. RowsInv
    <2>1. attempts \in Seq({})
      BY DEF Init
    <2> QED BY <2>1 DEF RowsInv
  <1>3. JudgedInv /\ StampInv
    BY DEF Init, JudgedInv, Judged, StampInv, OnTime, Taken
  <1> QED BY <1>1, <1>2, <1>3 DEF DeadlineInv

(* What the invariant says of the requests that are over is the property.  *)
LEMMA DeadlineImplies == DeadlineInv => HeldToDeadline
  <1> SUFFICES ASSUME DeadlineInv, NEW r \in Requests, r \notin met
               PROVE  LET x        == seen[r].exam
                          deadline == x.end + seen[r].extra IN
                        /\ pc[r] = "refused" => at[r] \notin x.start .. deadline + x.window
                        /\ \A i \in DOMAIN attempts : attempts[i].of = r =>
                             /\ at[r] \in x.start .. deadline + x.window
                             /\ attempts[i].late <=> at[r] > deadline
                             /\ PenaltyOf(attempts[i]) = IF at[r] > deadline THEN x.penalty ELSE 0
    BY DEF HeldToDeadline
  <1> DEFINE x == seen[r].exam
  <1>1. seen[r].exam \in Schedules
    BY DEF DeadlineInv, ClockInv
  <1>2. /\ x.start \in Nat /\ x.end \in Nat /\ x.window \in Nat
        /\ at[r] \in Nat /\ seen[r].extra \in Nat
    BY <1>1, ScheduleType DEF DeadlineInv, ClockInv
  <1>3. Judged(r)
    BY DEF DeadlineInv, JudgedInv
  <1>4. pc[r] = "refused" => at[r] \notin x.start .. x.end + seen[r].extra + x.window
    BY <1>2, <1>3 DEF Judged, Deadline, LastMinute
  <1>5. ASSUME NEW i \in DOMAIN attempts, attempts[i].of = r
        PROVE  /\ at[r] \in x.start .. x.end + seen[r].extra + x.window
               /\ attempts[i].late <=> at[r] > x.end + seen[r].extra
               /\ PenaltyOf(attempts[i]) = IF at[r] > x.end + seen[r].extra THEN x.penalty ELSE 0
    <2>1. /\ pc[r] = "stored" /\ attempts[i].late = verdict[r].late
          /\ attempts[i].penalty = verdict[r].penalty
      BY <1>5 DEF DeadlineInv, StampInv
    <2>2. at[r] \in x.start .. x.end + seen[r].extra + x.window
      BY <1>2, <1>3, <2>1 DEF Judged, Deadline, LastMinute, Taken
    <2>3. attempts[i].late <=> at[r] > x.end + seen[r].extra
      BY <1>3, <2>1 DEF Judged, Deadline, Taken
    <2>4. attempts[i].late => attempts[i].penalty = x.penalty
      BY <1>3, <2>1 DEF Judged, Taken
    <2> QED BY <2>2, <2>3, <2>4 DEF PenaltyOf
  <1> QED BY <1>4, <1>5

(* A submission no reschedule fell into is taken, refused and priced by    *)
(* the student's own deadline, for all schedules and any number of them.   *)
THEOREM DeadlineHonoured == Spec => []HeldToDeadline
  <1>1. DeadlineInv /\ [Next]_vars => DeadlineInv'
    BY ClockStep, RowsStep, JudgedStep, StampStep DEF DeadlineInv
  <1> QED BY <1>1, DeadlineInit, DeadlineImplies, PTL DEF Spec

-----------------------------------------------------------------------------
(***************************************************************************)
(* The results table: what Total, Max, Best and Penalised are.             *)
(***************************************************************************)

(* What test cases are worth: a part of them no more than the whole. *)
LEMMA TotalGrows ==
  ASSUME NEW S \in SUBSET Cases
  PROVE  Total(S) \in Nat /\ \A T \in SUBSET S : Total(T) \in Nat /\ Total(T) <= Total(S)
  <1>1. IsFiniteSet(Cases) /\ \A x \in Cases : Weight[x] \in Nat
    BY ResultsAssumption
  <1>2. PICK f : /\ Additive(Weight, f, Cases)
                 /\ \A T \in SUBSET Cases : f[T] = (CHOOSE g : SumsUp(Weight, g, T))[T]
    BY <1>1, SumIs
  <1>3. ASSUME NEW T \in SUBSET Cases PROVE f[T] = Total(T)
    <2>1. Total(T) = (CHOOSE g : g = [s \in SUBSET T |-> IF s = {} THEN 0
                                       ELSE Weight[AnyOf(s)] + g[s \ {AnyOf(s)}]])[T]
      BY DEF Total, MapThenSumSet, MapThenFoldSet, AnyOf
    <2>2. Total(T) = (CHOOSE g : SumsUp(Weight, g, T))[T]
      BY <2>1 DEF SumsUp, SumStep
    <2> QED
      BY <1>2, <2>2
  <1>4. ASSUME NEW T \in SUBSET S PROVE f[T] <= f[S]
    BY <1>1, <1>2, SumGrows
  <1> QED
    BY <1>2, <1>3, <1>4 DEF Additive

LEMMA MaxIs ==
  ASSUME NEW S \in SUBSET Nat, IsFiniteSet(S), S # {}
  PROVE  Max(S) \in S /\ \A y \in S : y <= Max(S)
  <1>1. PICK x \in S : \A y \in S : x >= y
    BY GreatestNumber
  <1>2. Max(S) \in S /\ \A y \in S : Max(S) >= y
    BY <1>1 DEF Max
  <1> QED
    BY <1>2

(* A sequence of rows, and the numbers in one of their columns *)
Rows(as) == as \in Seq(AttemptType) /\ as # <<>>

LEMMA RowsHave ==
  ASSUME NEW as, Rows(as)
  PROVE  /\ DOMAIN as = 1 .. Len(as) /\ Len(as) \in Nat \ {0}
         /\ IsFiniteSet(DOMAIN as) /\ DOMAIN as \in SUBSET Nat /\ 1 \in DOMAIN as
  <1>1. DOMAIN as = 1 .. Len(as) /\ Len(as) \in Nat \ {0}
    BY EmptySeq, LenProperties DEF Rows
  <1>2. 1 \in Int /\ Len(as) \in Int
    BY <1>1
  <1>3. IsFiniteSet(1 .. Len(as))
    BY <1>2, FS_Interval
  <1>4. DOMAIN as \in SUBSET Nat /\ 1 \in DOMAIN as
    <2> DEFINE n == Len(as)
               D == DOMAIN as
    <2>1. D = 1 .. n /\ n \in Nat \ {0}
      BY <1>1
    <2> HIDE DEF n, D
    <2>2. 1 \in 1 .. n /\ \A x \in 1 .. n : x \in Nat
      BY ONLY <2>1
    <2> QED
      BY <2>1, <2>2 DEF D
  <1>5. IsFiniteSet(DOMAIN as)
    BY ONLY <1>1, <1>3
  <1> QED
    BY <1>1, <1>4, <1>5

LEMMA RowHas ==
  ASSUME NEW as, Rows(as), NEW i \in DOMAIN as
  PROVE  /\ as[i] \in AttemptType /\ as[i].late \in BOOLEAN
         /\ as[i].penalty \in 0 .. 100 /\ as[i].passed \in Nat
         /\ as[i].count \in Nat /\ as[i].earned \in Nat /\ as[i].total \in Nat
  <1>1. as[i] \in AttemptType
    <2>1. as \in Seq(AttemptType) /\ i \in 1 .. Len(as)
      BY RowsHave DEF Rows
    <2> QED
      BY ONLY <2>1, ElementOfSeq
  <1> QED
    BY <1>1 DEF AttemptType

LEMMA ColumnHas ==
  ASSUME NEW as, Rows(as), NEW f, f = [i \in DOMAIN as |-> f[i]], \A i \in DOMAIN as : f[i] \in Nat
  PROVE  LET S == {f[i] : i \in DOMAIN as}
         IN  S \in SUBSET Nat /\ IsFiniteSet(S) /\ S # {}
  <1> DEFINE S == {f[i] : i \in DOMAIN as}
  <1>1. f \in Surjection(DOMAIN as, S)
    BY DEF Surjection
  <1>2. IsFiniteSet(S)
    BY <1>1, RowsHave, FS_Surjection
  <1> QED
    BY <1>2, RowsHave

LEMMA MostIs ==
  ASSUME NEW as, Rows(as)
  PROVE  LET P == {as[i].passed : i \in DOMAIN as}
             C == {as[i].count : i \in DOMAIN as}
         IN  /\ Max(P) \in P /\ Max(P) \in Nat /\ \A y \in P : y <= Max(P)
             /\ Max(C) \in C /\ Max(C) \in Nat /\ \A y \in C : y <= Max(C)
  <1> DEFINE f == [i \in DOMAIN as |-> as[i].passed]
             g == [i \in DOMAIN as |-> as[i].count]
             P == {f[i] : i \in DOMAIN as}
             C == {g[i] : i \in DOMAIN as}
  <1>1. f = [i \in DOMAIN as |-> f[i]] /\ \A i \in DOMAIN as : f[i] \in Nat
    BY RowHas
  <1>2. g = [i \in DOMAIN as |-> g[i]] /\ \A i \in DOMAIN as : g[i] \in Nat
    BY RowHas
  <1>3. P = {as[i].passed : i \in DOMAIN as} /\ C = {as[i].count : i \in DOMAIN as}
    OBVIOUS
  <1> HIDE DEF f, g
  <1>4. P \in SUBSET Nat /\ IsFiniteSet(P) /\ P # {}
    BY <1>1, ColumnHas
  <1>5. C \in SUBSET Nat /\ IsFiniteSet(C) /\ C # {}
    BY <1>2, ColumnHas
  <1> HIDE DEF P, C
  <1>6. Max(P) \in P /\ Max(P) \in Nat /\ \A y \in P : y <= Max(P)
    BY <1>4, MaxIs
  <1>7. Max(C) \in C /\ Max(C) \in Nat /\ \A y \in C : y <= Max(C)
    BY <1>5, MaxIs
  <1> QED
    BY <1>3, <1>6, <1>7

(* The first of the rows that pass the most test cases *)
IsBest(as, i) ==
  /\ i \in DOMAIN as
  /\ \A j \in DOMAIN as : \/ as[i].passed > as[j].passed
                          \/ as[i].passed = as[j].passed /\ i <= j

LEMMA BestIs ==
  ASSUME NEW as, Rows(as)
  PROVE  IsBest(as, Best(as)) /\ \A i : IsBest(as, i) => i = Best(as)
  <1>1. PICK m \in Nat : /\ \E i \in DOMAIN as : as[i].passed = m
                         /\ \A i \in DOMAIN as : as[i].passed <= m
    BY MostIs
  <1> DEFINE T == {i \in DOMAIN as : as[i].passed = m}
  <1>2. T \in SUBSET Nat /\ T # {}
    BY <1>1, RowsHave
  <1>3. PICK b \in T : \A y \in T : b <= y
    BY <1>2, LeastNumber
  <1>4. b \in DOMAIN as /\ as[b].passed = m
    BY <1>3
  <1>5. ASSUME NEW j \in DOMAIN as
        PROVE  as[b].passed > as[j].passed \/ (as[b].passed = as[j].passed /\ b <= j)
    <2>1. as[j].passed <= m /\ as[j].passed \in Nat /\ m \in Nat
      BY <1>1, RowHas
    <2>2. as[j].passed = m => b <= j
      BY <1>3
    <2>3. as[j].passed = m \/ m > as[j].passed
      <3> DEFINE y == as[j].passed
      <3>1. y <= m /\ y \in Nat /\ m \in Nat
        BY <2>1
      <3> HIDE DEF y
      <3>2. y = m \/ m > y
        BY ONLY <3>1
      <3> QED
        BY <3>2 DEF y
    <2> QED
      BY <1>4, <2>2, <2>3
  <1>6. IsBest(as, b)
    BY <1>4, <1>5 DEF IsBest
  <1>7. IsBest(as, Best(as))
    BY <1>6 DEF IsBest, Best
  <1>8. ASSUME NEW i, NEW j, IsBest(as, i), IsBest(as, j) PROVE i = j
    <2> DEFINE x == as[i].passed
               y == as[j].passed
    <2>1. /\ i \in DOMAIN as /\ j \in DOMAIN as /\ i \in Nat /\ j \in Nat
          /\ x \in Nat /\ y \in Nat
      BY <1>8, RowsHave, RowHas DEF IsBest
    <2>2. /\ x > y \/ (x = y /\ i <= j)
          /\ y > x \/ (y = x /\ j <= i)
      BY <1>8, <2>1 DEF IsBest
    <2> HIDE DEF x, y
    <2> QED
      BY ONLY <2>1, <2>2
  <1> QED
    BY <1>7, <1>8

LEMMA Products ==
  ASSUME NEW s \in Nat, NEW q \in 0 .. 100
  PROVE  /\ s * q \in Nat /\ s * q <= s * 100
         /\ s > 0 /\ q < 100 => s * q < s * 100
  OBVIOUS

(* ceil(n / 100) is between n / 100 and one more than that. *)
LEMMA CeilingIs ==
  ASSUME NEW n \in Nat
  PROVE  LET c == (n + 99) \div 100 IN
           /\ c \in Nat /\ c * 100 >= n /\ c * 100 <= n + 99
           /\ n % 100 = 0 => c * 100 = n
  OBVIOUS

LEMMA PenalisedIs ==
  ASSUME NEW s \in Nat, NEW p \in 0 .. 100
  PROVE  LET f == Penalised(s, p)
             kept == s * (100 - p)
         IN  /\ f \in Nat /\ f <= s /\ kept \in Nat
             /\ f * 100 >= kept /\ f * 100 <= kept + 100
  <1> DEFINE q == 100 - p
             n == s * q
             c == (n + 99) \div 100
             odd == <<s, p>> \in DoublesAbove
             extraOne == IF odd THEN 1 ELSE 0
  <1>1. q \in 0 .. 100
    OBVIOUS
  <1> HIDE DEF q
  <1>2. n \in Nat /\ n <= s * 100 /\ (s > 0 /\ q < 100 => n < s * 100)
    BY <1>1, Products
  <1> HIDE DEF n
  <1>3. c \in Nat /\ c * 100 >= n /\ c * 100 <= n + 99 /\ (n % 100 = 0 => c * 100 = n)
    BY <1>2, CeilingIs
  <1> HIDE DEF c
  <1>4. c <= s
    BY <1>2, <1>3
  <1>5. Penalised(s, p) = c + extraOne
    BY DEF Penalised, n, c, q
  <1>a. (odd => extraOne = 1) /\ (~odd => extraOne = 0)
    OBVIOUS
  <1> HIDE DEF extraOne
  <1>6. CASE odd
    <2>1. s > 0 /\ p > 0 /\ (s * (100 - p)) % 100 = 0
      BY <1>6, ResultsAssumption
    <2>2. n % 100 = 0 /\ q < 100
      BY <2>1 DEF n, q
    <2>3. c * 100 = n /\ n < s * 100
      BY <1>2, <1>3, <2>1, <2>2
    <2>4. Penalised(s, p) = c + 1
      BY <1>5, <1>6, <1>a
    <2>5. c + 1 \in Nat /\ c + 1 <= s /\ (c + 1) * 100 >= n /\ (c + 1) * 100 <= n + 100
      BY <1>2, <1>3, <2>3
    <2> QED
      BY <1>2, <2>4, <2>5 DEF n, q
  <1>7. CASE ~odd
    <2>1. Penalised(s, p) = c
      <3>1. extraOne = 0
        BY <1>7, <1>a
      <3> QED
        BY <1>3, <1>5, <3>1
    <2>2. c * 100 <= n + 100
      BY <1>2, <1>3
    <2> QED
      BY <1>2, <1>3, <1>4, <2>1, <2>2 DEF n, q
  <1> QED
    BY <1>6, <1>7

-----------------------------------------------------------------------------
(***************************************************************************)
(* What the variables are, and what the rows are at every stage            *)
(***************************************************************************)

Verdicts == [late : BOOLEAN, penalty : 0 .. 100, count : Nat]

KindInv ==
  /\ now \in 0 .. Horizon /\ exam \in Schedules /\ extra \in Extras \cup {0}
  /\ cases \subseteq Cases
  /\ pc \in [Requests -> PCs]
  /\ at \in [Requests -> 0 .. Horizon]
  /\ seen \in [Requests -> [exam : Schedules, extra : Extras \cup {0}]]
  /\ verdict \in [Requests -> Verdicts]
  /\ edits \in 0 .. MaxEdits /\ met \subseteq Requests

(* A row counts no more than there is, and nothing before it is graded. *)
Sound(a) ==
  /\ a \in AttemptType
  /\ a.passed <= a.count /\ a.earned <= a.total
  /\ a.stage # "graded" => a.passed = 0 /\ a.earned = 0 /\ a.total = 0

RowsAreSound ==
  /\ attempts \in Seq(AttemptType)
  /\ \A i \in DOMAIN attempts : Sound(attempts[i])
  /\ override \in Overrides \cup {None} /\ override.score <= override.max

(* A request that is over has a row, and one only. *)
OneRowEach ==
  /\ \A i, j \in DOMAIN attempts : attempts[i].of = attempts[j].of => i = j
  /\ \A r \in Requests : pc[r] = "stored" <=> \E i \in DOMAIN attempts : attempts[i].of = r

MarksInv == KindInv /\ RowsAreSound /\ OneRowEach

(* The steps that leave the rows alone *)
NoRowStep ==
  \/ \E r \in Requests : ReadWindow(r) \/ ReadDeadline(r) \/ CountCases(r)
  \/ \E x \in Schedules : PutExam(x)
  \/ \E minutes \in Extras : Accommodate(minutes)
  \/ OtherStep

LEMMA RowCases ==
  ASSUME [Next]_vars
  PROVE  \/ NoRowStep \/ UNCHANGED vars
         \/ \E r \in Requests : Store(r)
         \/ \E i \in DOMAIN attempts : Load(i) \/ Save(i)
  BY NextCases DEF NoRowStep

LEMMA NoRowChanges == ASSUME NoRowStep \/ UNCHANGED vars PROVE attempts' = attempts
  BY DEF NoRowStep, ReadWindow, ReadDeadline, CountCases, PutExam, Accommodate, OtherStep,
         AddCase, DeleteCase, PutGrade, DeleteGrade, Tick, vars

LEMMA KindStep == ASSUME KindInv, [Next]_vars PROVE KindInv'
  <1> USE DEF KindInv, handling
  <1>0. /\ Horizon \in Nat /\ MaxEdits \in Nat
        /\ \A x \in Schedules : x.penalty \in 0 .. 100
    BY ResultsAssumption
  <1>1. ASSUME NEW r \in Requests, ReadWindow(r) PROVE KindInv'
    BY <1>1 DEF ReadWindow, PCs, Taken
  <1>2. ASSUME NEW r \in Requests, ReadDeadline(r) PROVE KindInv'
    <2>1. seen[r].exam.penalty \in 0 .. 100
      BY <1>0
    <2>2. [late |-> TRUE, penalty |-> seen[r].exam.penalty, count |-> 0] \in Verdicts
      BY <2>1 DEF Verdicts
    <2>3. verdict' \in [Requests -> Verdicts]
      BY <1>2, <2>2 DEF ReadDeadline
    <2>4. pc' \in [Requests -> PCs]
      BY <1>2 DEF ReadDeadline, PCs, Taken
    <2> QED BY <1>2, <2>3, <2>4 DEF ReadDeadline
  <1>3. ASSUME NEW r \in Requests, CountCases(r) PROVE KindInv'
    <2>1. Cardinality(cases) \in Nat
      BY ResultsAssumption, FS_Subset, FS_CardinalityType
    <2>2. verdict' \in [Requests -> Verdicts] /\ pc' \in [Requests -> PCs]
      BY <1>3, <2>1, SMTT(40) DEF CountCases, PCs, Taken, Verdicts
    <2> QED BY <1>3, <2>2 DEF CountCases
  <1>4. ASSUME NEW r \in Requests, Store(r) PROVE KindInv'
    BY <1>4 DEF Store, PCs, Taken
  <1>5. ASSUME NEW i \in DOMAIN attempts, Load(i) \/ Save(i) PROVE KindInv'
    BY <1>5 DEF Load, Save
  <1>6. ASSUME Edit PROVE edits' \in 0 .. MaxEdits
    BY <1>0, <1>6 DEF Edit
  <1>7. ASSUME NEW x \in Schedules, PutExam(x) PROVE KindInv'
    BY <1>6, <1>7 DEF PutExam, Meet
  <1>8. ASSUME NEW minutes \in Extras, Accommodate(minutes) PROVE KindInv'
    BY <1>6, <1>8 DEF Accommodate, Meet
  <1>9. CASE OtherStep
    <2>1. ASSUME NEW c \in Cases, AddCase(c) \/ DeleteCase(c) PROVE KindInv'
      BY <1>6, <2>1 DEF AddCase, DeleteCase
    <2>2. ASSUME NEW m \in Overrides, PutGrade(m) PROVE KindInv'
      BY <1>6, <2>2 DEF PutGrade
    <2>3. CASE DeleteGrade
      BY <1>6, <2>3 DEF DeleteGrade
    <2>4. CASE Tick
      BY <1>0, <2>4 DEF Tick
    <2> QED BY <1>9, <2>1, <2>2, <2>3, <2>4 DEF OtherStep
  <1>10. CASE UNCHANGED vars
    BY <1>10 DEF vars
  <1> QED BY <1>1, <1>2, <1>3, <1>4, <1>5, <1>7, <1>8, <1>9, <1>10, NextCases

(* The row the INSERT makes *)
LEMMA QueuedIs ==
  ASSUME KindInv, NEW r \in Requests
  PROVE  /\ Sound(Queued(r)) /\ Queued(r).of = r
         /\ Queued(r).passed = 0 /\ Queued(r).earned = 0 /\ Queued(r).total = 0
  <1>1. verdict[r] \in Verdicts
    BY DEF KindInv
  <1>2. /\ verdict[r].late \in BOOLEAN /\ verdict[r].penalty \in 0 .. 100
        /\ verdict[r].count \in Nat
    BY <1>1 DEF Verdicts
  <1>3. Queued(r) \in AttemptType
    BY <1>2 DEF AttemptType, Queued
  <1>4. /\ Queued(r).of = r
        /\ Queued(r).passed = 0 /\ Queued(r).earned = 0 /\ Queued(r).total = 0
        /\ Queued(r).count \in Nat
    BY <1>2 DEF Queued
  <1> QED BY <1>3, <1>4 DEF Sound

LEMMA Appended ==
  ASSUME KindInv, RowsAreSound, NEW r \in Requests, Store(r)
  PROVE  /\ attempts' \in Seq(AttemptType) /\ Len(attempts) \in Nat
         /\ DOMAIN attempts = 1 .. Len(attempts)
         /\ DOMAIN attempts' = 1 .. Len(attempts) + 1
         /\ \A i \in DOMAIN attempts : attempts'[i] = attempts[i]
         /\ attempts'[Len(attempts) + 1] = Queued(r)
  <1>1. Queued(r) \in AttemptType /\ attempts \in Seq(AttemptType)
    BY QueuedIs DEF Sound, RowsAreSound
  <1>2. attempts' = Append(attempts, Queued(r))
    BY DEF Store
  <1> QED BY <1>1, <1>2, AppendProperties, LenProperties

(* What the worker's reading and saving make of a row *)
LEMMA Rewritten ==
  ASSUME KindInv, RowsAreSound, NEW i \in DOMAIN attempts, Load(i) \/ Save(i)
  PROVE  /\ attempts' \in Seq(AttemptType) /\ DOMAIN attempts' = DOMAIN attempts
         /\ Sound(attempts'[i]) /\ attempts'[i].of = attempts[i].of
         /\ \A j \in DOMAIN attempts \ {i} : attempts'[j] = attempts[j]
  <1> DEFINE a == attempts[i]
  <1>1. attempts \in Seq(AttemptType) /\ Sound(a) /\ a \in AttemptType
    BY DEF RowsAreSound, Sound
  <1>2. \E b : attempts' = [attempts EXCEPT ![i] = b] /\ Sound(b) /\ b.of = a.of
    <2>1. CASE Load(i)
      <3> DEFINE b == [a EXCEPT !.stage = "grading", !.tests = cases]
      <3>1. attempts' = [attempts EXCEPT ![i] = b] /\ a.stage = "queued" /\ cases \subseteq Cases
        BY <2>1 DEF Load, KindInv
      <3> HIDE DEF a
      <3>2. /\ b \in AttemptType /\ b.of = a.of /\ b.passed = a.passed /\ b.count = a.count
            /\ b.earned = a.earned /\ b.total = a.total /\ b.stage = "grading"
        BY <1>1, <3>1 DEF AttemptType
      <3> HIDE DEF b
      <3>3. Sound(b)
        <4>1. /\ a.passed = 0 /\ a.earned = 0 /\ a.total = 0
              /\ a.passed <= a.count
          BY <1>1, <3>1 DEF Sound
        <4> QED BY <3>2, <4>1 DEF Sound
      <3> QED BY <3>1, <3>2, <3>3
    <2>2. CASE Save(i)
      <3>1. PICK right \in SUBSET a.tests : attempts' = [attempts EXCEPT ![i] = [a EXCEPT
              !.stage = "graded",
              !.passed = Cardinality(right), !.count = Cardinality(a.tests),
              !.earned = Total(right), !.total = Total(a.tests)]]
        BY <2>2 DEF Save
      <3> DEFINE p == Cardinality(right)
                 n == Cardinality(a.tests)
                 e == Total(right)
                 t == Total(a.tests)
                 b == [a EXCEPT !.stage = "graded", !.passed = p, !.count = n, !.earned = e, !.total = t]
      <3>2. a.tests \in SUBSET Cases /\ IsFiniteSet(a.tests)
        BY <1>1, ResultsAssumption, FS_Subset DEF AttemptType
      <3>3. p \in Nat /\ n \in Nat /\ p <= n
        BY <3>2, FS_Subset, FS_CardinalityType
      <3>4. e \in Nat /\ t \in Nat /\ e <= t
        BY <3>2, TotalGrows
      <3>5. attempts' = [attempts EXCEPT ![i] = b]
        BY <3>1
      <3> HIDE DEF a, p, n, e, t
      <3>6. /\ b \in AttemptType /\ b.of = a.of /\ b.passed = p /\ b.count = n
            /\ b.earned = e /\ b.total = t /\ b.stage = "graded"
        BY <1>1, <3>3, <3>4 DEF AttemptType
      <3> HIDE DEF b
      <3>7. Sound(b)
        BY <3>3, <3>4, <3>6 DEF Sound
      <3> QED BY <3>5, <3>6, <3>7
    <2> QED BY <2>1, <2>2
  <1>3. PICK b : attempts' = [attempts EXCEPT ![i] = b] /\ Sound(b) /\ b.of = a.of
    BY <1>2
  <1>4. b \in AttemptType
    BY <1>3 DEF Sound
  <1> HIDE DEF a
  <1>5. /\ attempts' \in Seq(AttemptType) /\ DOMAIN attempts' = DOMAIN attempts
        /\ attempts'[i] = b /\ \A j \in DOMAIN attempts \ {i} : attempts'[j] = attempts[j]
    BY <1>1, <1>3, <1>4
  <1> QED BY <1>3, <1>5 DEF a

LEMMA RowsAreSoundStep == ASSUME KindInv, RowsAreSound, [Next]_vars PROVE RowsAreSound'
  <1> DEFINE Marked == override \in Overrides \cup {None} /\ override.score <= override.max
             Told   == attempts \in Seq(AttemptType) /\ \A i \in DOMAIN attempts : Sound(attempts[i])
  <1>1. Told'
    <2>1. CASE NoRowStep \/ UNCHANGED vars
      <3>1. attempts' = attempts
        BY <2>1, NoRowChanges
      <3> QED BY <3>1 DEF RowsAreSound
    <2>2. ASSUME NEW r \in Requests, Store(r) PROVE Told'
      <3>1. Sound(Queued(r))
        BY QueuedIs
      <3>2. ASSUME NEW i \in DOMAIN attempts' PROVE Sound(attempts'[i])
        <4>1. i \in DOMAIN attempts \/ i = Len(attempts) + 1
          BY <2>2, Appended
        <4> QED BY <2>2, <3>1, <4>1, Appended DEF RowsAreSound
      <3> QED BY <2>2, <3>2, Appended
    <2>3. ASSUME NEW i \in DOMAIN attempts, Load(i) \/ Save(i) PROVE Told'
      <3>1. ASSUME NEW j \in DOMAIN attempts' PROVE Sound(attempts'[j])
        BY <2>3, Rewritten DEF RowsAreSound
      <3> QED BY <2>3, <3>1, Rewritten
    <2> QED BY <2>1, <2>2, <2>3, RowCases
  <1>2. Marked'
    <2>1. ASSUME NEW m \in Overrides, PutGrade(m) PROVE Marked'
      BY <2>1 DEF PutGrade
    <2>2. CASE DeleteGrade
      BY <2>2 DEF DeleteGrade, None
    <2>3. CASE override' = override
      BY <2>3 DEF RowsAreSound
    <2> QED
      BY <2>1, <2>2, <2>3, NextCases DEF vars, ReadWindow, ReadDeadline, CountCases, Store, Load,
         Save, PutExam, Accommodate, OtherStep, AddCase, DeleteCase, Tick
  <1> QED BY <1>1, <1>2 DEF RowsAreSound

LEMMA OneRowStep == ASSUME KindInv, RowsAreSound, OneRowEach, [Next]_vars PROVE OneRowEach'
  <1>1. CASE NoRowStep \/ UNCHANGED vars
    <2>1. attempts' = attempts
      BY <1>1, NoRowChanges
    <2>2. \A r \in Requests : pc'[r] = "stored" <=> pc[r] = "stored"
      <3>1. ASSUME NEW q \in Requests, ReadWindow(q) \/ ReadDeadline(q) \/ CountCases(q)
            PROVE  \A r \in Requests : pc'[r] = "stored" <=> pc[r] = "stored"
        BY <3>1 DEF ReadWindow, ReadDeadline, CountCases, KindInv
      <3>2. CASE pc' = pc
        BY <3>2
      <3> QED
        BY <1>1, <3>1, <3>2 DEF NoRowStep, vars, handling, PutExam, Accommodate, OtherStep,
           AddCase, DeleteCase, PutGrade, DeleteGrade, Tick
    <2> QED BY <2>1, <2>2 DEF OneRowEach
  <1>2. ASSUME NEW r \in Requests, Store(r) PROVE OneRowEach'
    <2> DEFINE n == Len(attempts) + 1
    <2>1. /\ DOMAIN attempts' = DOMAIN attempts \cup {n} /\ n \notin DOMAIN attempts
          /\ \A i \in DOMAIN attempts : attempts'[i] = attempts[i]
          /\ attempts'[n].of = r
      <3> DEFINE k == Len(attempts)
      <3>1. /\ k \in Nat /\ DOMAIN attempts = 1 .. k /\ DOMAIN attempts' = 1 .. k + 1
            /\ n = k + 1
        BY <1>2, Appended
      <3>2. /\ \A i \in DOMAIN attempts : attempts'[i] = attempts[i]
            /\ attempts'[n] = Queued(r) /\ Queued(r).of = r
        BY <1>2, Appended, QueuedIs
      <3> HIDE DEF k, n
      <3>3. 1 .. k + 1 = (1 .. k) \cup {k + 1} /\ k + 1 \notin 1 .. k
        BY ONLY <3>1
      <3> QED BY <3>1, <3>2, <3>3
    <2> HIDE DEF n
    <2>2. /\ pc[r] = "counted" /\ pc'[r] = "stored"
          /\ \A q \in Requests : q # r => pc'[q] = pc[q]
      BY <1>2 DEF Store, KindInv
    <2>3. \A i \in DOMAIN attempts : attempts[i].of # r
      BY <2>2 DEF OneRowEach
    <2>4. \A i, j \in DOMAIN attempts' : attempts'[i].of = attempts'[j].of => i = j
      BY <2>1, <2>3 DEF OneRowEach
    <2>5. ASSUME NEW q \in Requests
          PROVE  pc'[q] = "stored" <=> \E i \in DOMAIN attempts' : attempts'[i].of = q
      <3>1. CASE q = r
        BY <2>1, <2>2, <3>1
      <3>2. CASE q # r
        BY <2>1, <2>2, <3>2 DEF OneRowEach
      <3> QED BY <3>1, <3>2
    <2> QED BY <2>4, <2>5 DEF OneRowEach
  <1>3. ASSUME NEW i \in DOMAIN attempts, Load(i) \/ Save(i) PROVE OneRowEach'
    <2>1. /\ DOMAIN attempts' = DOMAIN attempts /\ pc' = pc
          /\ \A j \in DOMAIN attempts : attempts'[j].of = attempts[j].of
      BY <1>3, Rewritten DEF Load, Save, handling
    <2> QED BY <2>1 DEF OneRowEach
  <1> QED BY <1>1, <1>2, <1>3, RowCases

LEMMA MarksInit == Init => MarksInv
  <1> SUFFICES ASSUME Init PROVE MarksInv
    OBVIOUS
  <1>1. KindInv
    <2>1. Horizon \in Nat /\ MaxEdits \in Nat
      BY ResultsAssumption
    <2> QED BY <2>1 DEF Init, KindInv, OnTime, Verdicts, PCs, Taken
  <1>2. attempts = <<>> /\ DOMAIN attempts = {} /\ attempts \in Seq(AttemptType)
    BY EmptySeq DEF Init
  <1>3. RowsAreSound
    BY <1>2 DEF Init, RowsAreSound, None
  <1>4. OneRowEach
    BY <1>2 DEF Init, OneRowEach
  <1> QED BY <1>1, <1>3, <1>4 DEF MarksInv

LEMMA MarksStep == MarksInv /\ [Next]_vars => MarksInv'
  BY KindStep, RowsAreSoundStep, OneRowStep DEF MarksInv

(* Every variable has its type, and a request its one row, however many    *)
(* schedules, requests and edits there are.                                *)
THEOREM ResultsTyping == Spec => []ResultsTypeOK
  <1>1. MarksInv => ResultsTypeOK
    <2> SUFFICES ASSUME MarksInv PROVE ResultsTypeOK
      OBVIOUS
    <2>1. PCs = {"idle", "window", "open", "refused", "untested", "counted", "stored"}
      BY DEF PCs, Taken
    <2>2. ASSUME NEW r \in Requests
          PROVE  Cardinality({i \in DOMAIN attempts : attempts[i].of = r})
                   = IF pc[r] = "stored" THEN 1 ELSE 0
      <3> DEFINE S == {i \in DOMAIN attempts : attempts[i].of = r}
      <3>1. CASE pc[r] = "stored"
        <4>1. PICK i \in DOMAIN attempts : attempts[i].of = r
          BY <3>1 DEF MarksInv, OneRowEach
        <4>2. S = {i}
          BY <4>1 DEF MarksInv, OneRowEach
        <4>3. Cardinality(S) = 1
          BY <4>2, FS_Singleton
        <4> QED BY <3>1, <4>3
      <3>2. CASE pc[r] # "stored"
        <4>1. S = {}
          BY <3>2 DEF MarksInv, OneRowEach
        <4>2. Cardinality(S) = 0
          BY <4>1, FS_EmptySet
        <4> QED BY <3>2, <4>2
      <3> QED BY <3>1, <3>2
    <2>3. attempts \in Seq(AttemptType) /\ override \in Overrides \cup {None}
      BY DEF MarksInv, RowsAreSound
    <2> QED BY <2>1, <2>2, <2>3 DEF MarksInv, KindInv, Verdicts, ResultsTypeOK
  <1> QED BY <1>1, MarksInit, MarksStep, PTL DEF Spec

-----------------------------------------------------------------------------
(***************************************************************************)
(* The mark                                                                *)
(***************************************************************************)

(* The mark of the tests alone: of some row, no more than the maximum. *)
LEMMA ScoreIs ==
  ASSUME NEW as, Rows(as), \A i \in DOMAIN as : Sound(as[i])
  PROVE  LET s == AutoScore(as) IN s.score \in Nat /\ s.max \in Nat /\ s.score <= s.max
  <1> DEFINE b == Best(as)
             P == {as[i].passed : i \in DOMAIN as}
             C == {as[i].count : i \in DOMAIN as}
  <1>1. b \in DOMAIN as /\ as[b].earned \in Nat /\ as[b].total \in Nat /\ as[b].earned <= as[b].total
    BY BestIs, RowHas DEF IsBest, Sound
  <1>2. CASE as[b].total > 0
    <2>1. AutoScore(as).score = as[b].earned /\ AutoScore(as).max = as[b].total
      BY <1>2 DEF AutoScore
    <2> QED BY <1>1, <2>1
  <1>3. CASE ~(as[b].total > 0)
    <2>1. AutoScore(as).score = Max(P) /\ AutoScore(as).max = Max(C)
      BY <1>3 DEF AutoScore
    <2>2. /\ Max(P) \in P /\ Max(P) \in Nat /\ Max(C) \in Nat
          /\ \A y \in C : y <= Max(C)
      BY MostIs
    <2>3. PICK i \in DOMAIN as : Max(P) = as[i].passed
      BY <2>2
    <2>4. Max(P) <= as[i].count /\ as[i].count \in Nat /\ as[i].count <= Max(C)
      BY <2>2, <2>3, RowHas DEF Sound
    <2> DEFINE m == Max(P)
               n == as[i].count
               t == Max(C)
    <2>a. m \in Nat /\ n \in Nat /\ t \in Nat /\ m <= n /\ n <= t
      BY <2>2, <2>4
    <2> HIDE DEF m, n, t
    <2>b. m <= t
      BY ONLY <2>a
    <2>5. Max(P) <= Max(C)
      BY <2>b DEF m, t
    <2> HIDE DEF P, C
    <2> QED BY <2>1, <2>2, <2>5
  <1> QED BY <1>2, <1>3

LEMMA PenaltyIs ==
  ASSUME NEW as, Rows(as)
  PROVE  PenaltyOf(as[Best(as)]) \in 0 .. 100
  <1>1. Best(as) \in DOMAIN as
    BY BestIs DEF IsBest
  <1> DEFINE a == as[Best(as)]
  <1>2. a.penalty \in 0 .. 100 /\ PenaltyOf(a) = IF a.late THEN a.penalty ELSE 0
    BY <1>1, RowHas DEF PenaltyOf
  <1> HIDE DEF a
  <1>3. PenaltyOf(a) \in 0 .. 100
    <2>1. CASE a.late
      BY <1>2, <2>1
    <2>2. CASE ~a.late
      <3>1. PenaltyOf(a) = 0
        BY <1>2, <2>2
      <3> QED BY <3>1
    <2> QED BY <2>1, <2>2
  <1> QED BY <1>3 DEF a

(* No mark is above its maximum, and a penalty takes what it says and not  *)
(* a point more, for all marks, penalties and weights of the test cases.   *)
THEOREM MarksAreFair == Spec => []MarkIsFair
  <1>1. MarksInv => MarkIsFair
    <2> SUFFICES ASSUME MarksInv, attempts # <<>>
                 PROVE  LET mark == Final(attempts)
                            auto == AutoScore(attempts).score
                            kept == auto * (100 - PenaltyOf(attempts[Best(attempts)])) IN
                          /\ mark.score <= mark.max
                          /\ override = None =>
                               mark.score <= auto /\ mark.score * 100 \in kept .. kept + 100
      BY DEF MarkIsFair
    <2> DEFINE mark == Final(attempts)
               auto == AutoScore(attempts).score
               top  == AutoScore(attempts).max
               p    == PenaltyOf(attempts[Best(attempts)])
               f    == Penalised(auto, p)
               kept == auto * (100 - p)
    <2>1. Rows(attempts) /\ \A i \in DOMAIN attempts : Sound(attempts[i])
      BY DEF MarksInv, RowsAreSound, Rows
    <2>2. auto \in Nat /\ top \in Nat /\ auto <= top
      BY <2>1, ScoreIs
    <2>3. p \in 0 .. 100
      BY <2>1, PenaltyIs
    <2>4. CASE override # None
      <3>1. mark = override
        BY <2>4 DEF Final
      <3> QED BY <2>4, <3>1 DEF MarksInv, RowsAreSound
    <2>5. CASE override = None
      <3>1. mark = [score |-> f, max |-> top]
        BY <2>5 DEF Final
      <3>a. mark.score = f /\ mark.max = top
        BY <3>1
      <3> HIDE DEF auto, top, p
      <3>2. f \in Nat /\ f <= auto /\ kept \in Nat /\ f * 100 >= kept /\ f * 100 <= kept + 100
        BY <2>2, <2>3, PenalisedIs
      <3> HIDE DEF f, kept, mark
      <3>3. f <= top /\ f * 100 \in kept .. kept + 100
        BY ONLY <2>2, <3>2
      <3>4. mark.score <= mark.max /\ mark.score <= auto /\ mark.score * 100 \in kept .. kept + 100
        BY <3>2, <3>3, <3>a
      <3> QED BY <3>4 DEF mark, auto, p, kept
    <2> QED BY <2>4, <2>5
  <1> QED BY <1>1, MarksInit, MarksStep, PTL DEF Spec

(* The score depends on the best row, where it is, and on the best count.  *)
SameScores(as, bs) ==
  /\ Best(as) = Best(bs)
  /\ LET a == as[Best(as)]
         b == bs[Best(bs)]
     IN  /\ a.earned = b.earned /\ (a.total > 0 <=> b.total > 0)
         /\ a.late = b.late /\ a.penalty = b.penalty
  /\ Max({as[i].passed : i \in DOMAIN as}) = Max({bs[i].passed : i \in DOMAIN bs})

LEMMA SameScore ==
  ASSUME NEW as, NEW bs, SameScores(as, bs)
  PROVE  /\ AutoScore(as).score = AutoScore(bs).score
         /\ PenaltyOf(as[Best(as)]) = PenaltyOf(bs[Best(bs)])
  <1>1. PenaltyOf(as[Best(as)]) = PenaltyOf(bs[Best(bs)])
    BY DEF PenaltyOf, SameScores
  <1> DEFINE a == as[Best(as)]
             b == bs[Best(bs)]
             P == {as[i].passed : i \in DOMAIN as}
             R == {bs[i].passed : i \in DOMAIN bs}
  <1>2. a.earned = b.earned /\ (a.total > 0 <=> b.total > 0) /\ Max(P) = Max(R)
    BY DEF SameScores
  <1>3. /\ AutoScore(as).score = IF a.total > 0 THEN a.earned ELSE Max(P)
        /\ AutoScore(bs).score = IF b.total > 0 THEN b.earned ELSE Max(R)
    BY DEF AutoScore
  <1> HIDE DEF a, b, P, R
  <1>4. AutoScore(as).score = AutoScore(bs).score
    BY <1>2, <1>3
  <1> QED BY <1>1, <1>4

(* A row just inserted is the best only if there was none, and a row taken *)
(* up by the worker has still passed nothing.                              *)
LEMMA StoreScores ==
  ASSUME MarksInv, attempts # <<>>, NEW r \in Requests, Store(r)
  PROVE  SameScores(attempts, attempts')
  <1> DEFINE k == Len(attempts)
             n == k + 1
             b == Best(attempts)
             P == {attempts[i].passed : i \in DOMAIN attempts}
             R == {attempts'[i].passed : i \in DOMAIN attempts'}
  <1>1. KindInv /\ RowsAreSound /\ Rows(attempts)
    BY DEF MarksInv, RowsAreSound, Rows
  <1>2. /\ attempts' \in Seq(AttemptType) /\ k \in Nat
        /\ DOMAIN attempts = 1 .. k /\ DOMAIN attempts' = 1 .. n
        /\ \A i \in DOMAIN attempts : attempts'[i] = attempts[i]
        /\ attempts'[n] = Queued(r) /\ attempts'[n].passed = 0
    BY <1>1, Appended, QueuedIs
  <1> HIDE DEF k
  <1>3. 1 .. n = (1 .. k) \cup {n} /\ \A i \in 1 .. k : i <= n
    BY <1>2
  <1>4. Rows(attempts')
    <2>1. n \in DOMAIN attempts'
      BY <1>2, <1>3
    <2> QED BY <1>2, <2>1, EmptySeq DEF Rows
  <1> HIDE DEF n
  <1>5. IsBest(attempts, b)
    BY <1>1, BestIs
  <1>6. IsBest(attempts', b)
    <2>1. b \in 1 .. k /\ b \in DOMAIN attempts' /\ b <= n
      BY <1>2, <1>3, <1>5 DEF IsBest
    <2>2. attempts[b].passed \in Nat /\ attempts'[b] = attempts[b]
      BY <1>1, <1>2, <1>5, RowHas DEF IsBest
    <2>3. attempts'[b].passed > attempts'[n].passed
            \/ (attempts'[b].passed = attempts'[n].passed /\ b <= n)
      <3> DEFINE x == attempts[b].passed
      <3>1. x \in Nat
        BY <2>2
      <3> HIDE DEF x
      <3>2. x > 0 \/ x = 0
        BY ONLY <3>1
      <3> QED BY <1>2, <2>1, <2>2, <3>2 DEF x
    <2>4. ASSUME NEW j \in DOMAIN attempts
          PROVE  attempts'[b].passed > attempts'[j].passed
                   \/ (attempts'[b].passed = attempts'[j].passed /\ b <= j)
      BY <1>2, <1>5, <2>2 DEF IsBest
    <2> QED BY <1>2, <1>3, <2>1, <2>3, <2>4 DEF IsBest
  <1>7. Best(attempts') = b
    BY <1>4, <1>6, BestIs
  <1>8. attempts'[b] = attempts[b]
    BY <1>2, <1>5 DEF IsBest
  <1>9. Max(P) = Max(R)
    <2>1. Max(P) \in P /\ Max(P) \in Nat /\ \A y \in P : y <= Max(P)
      BY <1>1, MostIs
    <2>2. Max(R) \in R /\ Max(R) \in Nat /\ \A y \in R : y <= Max(R)
      BY <1>4, MostIs
    <2>3. P \subseteq R /\ R \subseteq P \cup {0}
      BY <1>2, <1>3
    <2> HIDE DEF P, R
    <2> QED BY <2>1, <2>2, <2>3
  <1> HIDE DEF b
  <1>10. attempts'[Best(attempts')] = attempts[Best(attempts)] /\ Best(attempts) = Best(attempts')
    BY <1>7, <1>8 DEF b
  <1> QED BY <1>9, <1>10 DEF SameScores

LEMMA LoadScores ==
  ASSUME MarksInv, attempts # <<>>, NEW i \in DOMAIN attempts, Load(i)
  PROVE  SameScores(attempts, attempts')
  <1> DEFINE P(as) == {as[j].passed : j \in DOMAIN as}
             b == Best(attempts)
             Keeps(old, new) ==
               /\ new.passed = old.passed /\ new.earned = old.earned /\ new.total = old.total
               /\ new.late = old.late /\ new.penalty = old.penalty
  <1>1. KindInv /\ RowsAreSound /\ Rows(attempts)
    BY DEF MarksInv, RowsAreSound, Rows
  <1>2. Keeps(attempts[i], attempts'[i])
    <2> DEFINE a == attempts[i]
    <2>1. attempts' = [attempts EXCEPT ![i] = [a EXCEPT !.stage = "grading", !.tests = cases]]
      BY DEF Load
    <2>2. attempts'[i] = [a EXCEPT !.stage = "grading", !.tests = cases]
      BY <2>1
    <2>3. a \in AttemptType
      BY <1>1, RowHas
    <2> HIDE DEF a
    <2>4. Keeps(a, [a EXCEPT !.stage = "grading", !.tests = cases])
      BY <2>3 DEF AttemptType
    <2> HIDE DEF Keeps
    <2> QED BY <2>2, <2>4 DEF a
  <1>3. /\ DOMAIN attempts' = DOMAIN attempts /\ attempts' \in Seq(AttemptType)
        /\ \A j \in DOMAIN attempts : Keeps(attempts[j], attempts'[j])
    <2>1. /\ attempts' \in Seq(AttemptType) /\ DOMAIN attempts' = DOMAIN attempts
          /\ \A j \in DOMAIN attempts \ {i} : attempts'[j] = attempts[j]
      BY <1>1, Rewritten
    <2> QED BY <1>2, <2>1
  <1>4. Rows(attempts')
    BY <1>1, <1>3, RowsHave DEF Rows
  <1>5. IsBest(attempts, b)
    BY <1>1, BestIs
  <1>6. IsBest(attempts', b)
    <2>1. b \in DOMAIN attempts /\ \A j \in DOMAIN attempts : attempts'[j].passed = attempts[j].passed
      BY <1>3, <1>5 DEF IsBest
    <2> QED BY <1>3, <1>5, <2>1 DEF IsBest
  <1>7. Best(attempts') = b /\ b \in DOMAIN attempts
    BY <1>4, <1>5, <1>6, BestIs DEF IsBest
  <1>8. P(attempts) = P(attempts')
    BY <1>3
  <1>9. Keeps(attempts[b], attempts'[b])
    BY <1>3, <1>7
  <1>10. Max(P(attempts)) = Max(P(attempts'))
    BY <1>8
  <1> QED
    BY <1>7, <1>9, <1>10 DEF SameScores

(* A score that is there stays until a submission is graded or the teacher *)
(* overrides it or stops doing so, whatever else changes and however often. *)
THEOREM GradesStay == Spec => GradesDoNotMove
  <1>1. ASSUME MarksInv, [Next]_vars, attempts # <<>>, override' = override,
               ~ \E i \in DOMAIN attempts : Save(i)
        PROVE  FinalScore' = FinalScore
    <2>1. CASE override # None
      BY <1>1, <2>1 DEF FinalScore, Final
    <2>2. CASE override = None
      <3>1. \/ attempts' = attempts
            \/ SameScores(attempts, attempts')
        BY <1>1, RowCases, NoRowChanges, StoreScores, LoadScores
      <3>2. /\ AutoScore(attempts').score = AutoScore(attempts).score
            /\ PenaltyOf(attempts'[Best(attempts')]) = PenaltyOf(attempts[Best(attempts)])
        BY <3>1, SameScore
      <3>3. /\ FinalScore = Penalised(AutoScore(attempts).score, PenaltyOf(attempts[Best(attempts)]))
            /\ FinalScore' = Penalised(AutoScore(attempts').score, PenaltyOf(attempts'[Best(attempts')]))
        BY <1>1, <2>2 DEF FinalScore, Final
      <3> QED BY <3>2, <3>3
    <2> QED BY <2>1, <2>2
  <1>2. MarksInv /\ [Next]_vars =>
          [attempts # <<>> /\ FinalScore' # FinalScore =>
             \/ override' # override
             \/ \E i \in DOMAIN attempts : Save(i)]_vars
    BY <1>1
  <1> QED BY <1>2, MarksInit, MarksStep, PTL DEF Spec, GradesDoNotMove
=============================================================================
