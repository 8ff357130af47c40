---------------------------- MODULE TeachingProofs ---------------------------
(***************************************************************************)
(* Proofs about the four parts that MCTeaching puts side by side, each for *)
(* every value of its constants.                                           *)
(***************************************************************************)
EXTENDS MCTeaching, SequenceTheorems, FiniteInduction

-----------------------------------------------------------------------------
(***************************************************************************)
(* ExamSession, for every set of students, problems and requests, every    *)
(* paper, size and phase, and any number of edits and failures.            *)
(***************************************************************************)

(* A saved paper has problems, finitely many of them. *)
LEMMA PaperIsFinite ==
  ASSUME NEW P \in Papers
  PROVE  /\ P \subseteq Problems
         /\ Cardinality(P) \in Nat /\ Cardinality(P) > 0
  <1>1. P \subseteq Problems /\ IsFiniteSet(P) /\ P # {}
    BY SessionAssumption, FS_Subset
  <1>2. Cardinality(P) \in Nat /\ Cardinality(P) # 0
    BY <1>1, FS_CardinalityType, FS_EmptySet
  <1>3. QED BY <1>1, <1>2

(* problems_per_student is stored only where it narrows the pool. *)
LEMMA NarrowingType ==
  ASSUME NEW P \in Papers, NEW n \in Sizes
  PROVE  Narrowing(n, P) \in Nat /\ Narrowing(n, P) < Cardinality(P)
  BY PaperIsFinite, SessionAssumption DEF Narrowing

LEMMA TypeInit == Init => TypeOK
  <1> SUFFICES ASSUME Init PROVE TypeOK
    OBVIOUS
  <1>1. paper \subseteq Problems /\ perStudent \in Nat /\ perStudent < Cardinality(paper)
    BY PaperIsFinite, NarrowingType DEF Init
  <1>2. accepted \subseteq Students \X Problems /\ seen \in [Students -> SUBSET SUBSET Problems]
    BY DEF Init
  <1>3. who \in [Requests -> Students] /\ what \in [Requests -> Problems \cup {Viewing}]
    BY DEF Init
  <1>4. /\ deals \in [Students -> SUBSET Problems]
        /\ pc \in [Requests -> Steps]
        /\ size \in [Requests -> Nat]
        /\ todo \in [Requests -> SUBSET Problems]
    BY DEF Init, Steps
  <1>5. alone \in [Requests -> BOOLEAN] /\ current \in [Requests -> BOOLEAN]
    BY DEF Init
  <1>6. edits \in 0 .. MaxEdits /\ failures \in 0 .. MaxFailures
    BY SessionAssumption DEF Init
  <1>7. QED BY <1>1, <1>2, <1>3, <1>4, <1>5, <1>6 DEF Init, TypeOK

(* What a new request records is of the right type. *)
LEMMA OpensType ==
  ASSUME TypeOK, NEW r \in Requests, NEW s \in Students,
         NEW w \in Problems \cup {Viewing}, Opens(r, s, w),
         NEW step \in Steps, Goto(r, step)
  PROVE  TypeOK'
  <1>1. alone' \in [Requests -> BOOLEAN]
    <2>1. \A q \in Requests : (IF q = r THEN InFlight(s) = {}
                              ELSE alone[q] /\ q \notin InFlight(s)) \in BOOLEAN
      OBVIOUS
    <2>2. QED BY <2>1 DEF Opens
  <1>2. who' \in [Requests -> Students] /\ what' \in [Requests -> Problems \cup {Viewing}]
    BY DEF Opens, TypeOK
  <1>3. pc' \in [Requests -> Steps]
    BY DEF Goto, TypeOK
  <1>4. QED BY <1>1, <1>2, <1>3 DEF Opens, TypeOK, examVars

(* The end of a request leaves the types of everything it touches. *)
LEMMA RepliesType ==
  ASSUME TypeOK, NEW r \in Requests, Replies(r), UNCHANGED <<accepted, seen>>
  PROVE  TypeOK'
  BY DEF TypeOK, Steps, Replies, Ends, Goto, examVars

(* No step of a request or of the teacher leaves the types. *)
LEMMA TypeStep ==
  ASSUME TypeOK, [Next]_vars
  PROVE  TypeOK'
  <1> USE SessionAssumption DEF TypeOK, Steps, examVars, requestVars, Goto
  <1>1. ASSUME NEW r \in Requests, NEW s \in Students, View(r, s) PROVE TypeOK'
    <2>1. "gate" \in Steps /\ Viewing \in Problems \cup {Viewing}
      OBVIOUS
    <2>2. Opens(r, s, Viewing) /\ Goto(r, "gate")
      BY <1>1 DEF View
    <2>3. QED BY <2>1, <2>2, OpensType
  <1>2. ASSUME NEW r \in Requests, NEW s \in Students, NEW p \in Problems, Post(r, s, p)
        PROVE TypeOK'
    <2>1. "access" \in Steps /\ p \in Problems \cup {Viewing}
      OBVIOUS
    <2>2. Opens(r, s, p) /\ Goto(r, "access")
      BY <1>2 DEF Post
    <2>3. QED BY <2>1, <2>2, OpensType
  <1>3. ASSUME NEW r \in Requests, Access(r) PROVE TypeOK'
    <2>1. CASE Sits(who[r])
      BY <1>3, <2>1, ZenonT(60) DEF Access
    <2>2. CASE ~Sits(who[r])
      BY <1>3, <2>2, RepliesType DEF Access
    <2>3. QED BY <2>1, <2>2
  <1>4. ASSUME NEW r \in Requests, Gate(r) PROVE TypeOK'
    <2>1. CASE Allowed(r)
      BY <1>4, <2>1, ZenonT(60) DEF Gate
    <2>2. CASE ~Allowed(r)
      BY <1>4, <2>2, RepliesType DEF Gate
    <2>3. QED BY <2>1, <2>2
  <1>5. ASSUME NEW r \in Requests, ReadSize(r) PROVE TypeOK'
    BY <1>5 DEF ReadSize
  <1>6. ASSUME NEW r \in Requests, ReadPool(r) PROVE TypeOK'
    BY <1>6 DEF ReadPool
  <1>7. ASSUME NEW r \in Requests, ReadDeal(r) PROVE TypeOK'
    <2>1. \E chosen \in SUBSET Problems : todo' = [todo EXCEPT ![r] = chosen]
      <3>1. deals[who[r]] \in SUBSET Problems /\ todo[r] \in SUBSET Problems
        OBVIOUS
      <3>2. \/ todo' = [todo EXCEPT ![r] = deals[who[r]]]
            \/ \E chosen \in SUBSET todo[r] : todo' = [todo EXCEPT ![r] = chosen]
        BY <1>7 DEF ReadDeal
      <3>3. QED BY <3>1, <3>2
    <2>2. todo' \in [Requests -> SUBSET Problems]
      BY <2>1
    <2>3. pc' \in [Requests -> Steps]
      BY <1>7 DEF ReadDeal
    <2>4. QED BY <1>7, <2>2, <2>3 DEF ReadDeal
  <1>8. ASSUME NEW r \in Requests, InsertDealt(r) PROVE TypeOK'
    BY <1>8 DEF InsertDealt, First
  <1>9. ASSUME NEW r \in Requests, ReadBack(r) PROVE TypeOK'
    BY <1>9 DEF ReadBack
  <1>10. ASSUME NEW r \in Requests, Show(r) PROVE TypeOK'
    <2>1. seen' \in [Students -> SUBSET SUBSET Problems]
      BY <1>10 DEF Show
    <2>2. QED BY <1>10, <2>1 DEF Show, Replies, Ends
  <1>11. ASSUME NEW r \in Requests, Accept(r) PROVE TypeOK'
    <2>1. accepted' \subseteq Students \X Problems
      BY <1>11 DEF Accept
    <2>2. QED BY <1>11, <2>1 DEF Accept, Replies, Ends
  <1>12. ASSUME NEW r \in Requests, Fail(r) PROVE TypeOK'
    BY <1>12 DEF Fail, Ends
  <1>13. CASE Clock
    BY <1>13 DEF Clock
  <1>14. ASSUME NEW P \in Papers, NEW n \in Sizes, NEW ph \in Phases, PutExam(P, n, ph)
         PROVE TypeOK'
    <2>1. /\ P \subseteq Problems
          /\ Narrowing(n, P) \in Nat /\ Narrowing(n, P) < Cardinality(P)
      BY PaperIsFinite, NarrowingType
    <2>2. QED BY <1>14, <2>1 DEF PutExam, Edit
  <1>15. ASSUME NEW R \in Rosters, PutRoster(R) PROVE TypeOK'
    BY <1>15 DEF PutRoster, Edit
  <1>16. CASE UNCHANGED vars
    BY <1>16 DEF vars
  <1>17. QED
    BY <1>1, <1>2, <1>3, <1>4, <1>5, <1>6, <1>7, <1>8, <1>9, <1>10, <1>11, <1>12, <1>13,
       <1>14, <1>15, <1>16 DEF Next, Teacher, Request

(* The types of the exam's tables and of every request's local variables,   *)
(* and a problems_per_student that narrows the paper, in every state.       *)
THEOREM SessionTyping == Spec => []TypeOK
  BY TypeInit, TypeStep, PTL DEF Spec

LEMMA DealStep ==
  ASSUME TypeOK, DealInv, [Next]_vars
  PROVE  DealInv'
  <1> USE DEF TypeOK, DealInv, NothingDealtEarly, OpenInv, DealsFollowEdits, CurrentInv,
          PastGate, Sits, examVars, requestVars, Goto
  <1>1. ASSUME NEW r \in Requests, NEW s \in Students, View(r, s) PROVE DealInv'
    BY <1>1 DEF View, Opens
  <1>2. ASSUME NEW r \in Requests, NEW s \in Students, NEW p \in Problems, Post(r, s, p)
        PROVE DealInv'
    BY <1>2 DEF Post, Opens
  <1>3. ASSUME NEW r \in Requests, Access(r) PROVE DealInv'
    BY <1>3 DEF Access, Replies, Ends
  <1>4. ASSUME NEW r \in Requests, Gate(r) PROVE DealInv'
    BY <1>4 DEF Gate, Allowed, Replies, Ends
  <1>5. ASSUME NEW r \in Requests, ReadSize(r) PROVE DealInv'
    BY <1>5 DEF ReadSize
  <1>6. ASSUME NEW r \in Requests, ReadPool(r) PROVE DealInv'
    BY <1>6 DEF ReadPool
  <1>7. ASSUME NEW r \in Requests, ReadDeal(r) PROVE DealInv'
    <2>1. CASE pc' = [pc EXCEPT ![r] = "answer"]
      BY <1>7, <2>1 DEF ReadDeal
    <2>2. CASE pc' = [pc EXCEPT ![r] = "dealing"]
      <3>1. PICK chosen \in SUBSET todo[r] : todo' = [todo EXCEPT ![r] = chosen]
        BY <1>7, <2>2 DEF ReadDeal
      <3>2. QED BY <1>7, <2>2, <3>1 DEF ReadDeal
    <2>3. QED BY <1>7, <2>1, <2>2 DEF ReadDeal
  (* The one step that adds to a deal. *)
  <1>8. ASSUME NEW r \in Requests, InsertDealt(r) PROVE DealInv'
    <2>1. First(todo[r]) \subseteq todo[r]
      BY DEF First
    <2>2. (NothingDealtEarly /\ OpenInv)'
      BY <1>8 DEF InsertDealt
    <2>3. CurrentInv'
      BY <1>8 DEF InsertDealt
    <2>4. DealsFollowEdits'
      <3>1. CASE current[r]
        <4>1. todo[r] \subseteq paper /\ Sits(who[r])
          BY <1>8, <3>1 DEF InsertDealt
        <4>2. QED BY <1>8, <2>1, <3>1, <4>1 DEF InsertDealt
      <3>2. CASE ~current[r]
        BY <1>8, <3>2 DEF InsertDealt
      <3>3. QED BY <3>1, <3>2
    <2>5. QED BY <2>2, <2>3, <2>4
  <1>9. ASSUME NEW r \in Requests, ReadBack(r) PROVE DealInv'
    BY <1>9 DEF ReadBack
  <1>10. ASSUME NEW r \in Requests, Show(r) PROVE DealInv'
    BY <1>10 DEF Show, Replies, Ends
  <1>11. ASSUME NEW r \in Requests, Accept(r) PROVE DealInv'
    BY <1>11 DEF Accept, Replies, Ends
  <1>12. ASSUME NEW r \in Requests, Fail(r) PROVE DealInv'
    BY <1>12 DEF Fail, Ends
  <1>13. CASE Clock
    BY <1>13 DEF Clock
  <1>14. ASSUME NEW P \in Papers, NEW n \in Sizes, NEW ph \in Phases, PutExam(P, n, ph)
         PROVE DealInv'
    BY <1>14 DEF PutExam, Edit
  <1>15. ASSUME NEW R \in Rosters, PutRoster(R) PROVE DealInv'
    BY <1>15 DEF PutRoster, Edit
  <1>16. CASE UNCHANGED vars
    BY <1>16 DEF vars
  <1>17. QED
    BY <1>1, <1>2, <1>3, <1>4, <1>5, <1>6, <1>7, <1>8, <1>9, <1>10, <1>11, <1>12, <1>13,
       <1>14, <1>15, <1>16 DEF Next, Teacher, Request

LEMMA DealInvariance == Spec => []DealInv
  <1>1. Init => DealInv
    BY DEF Init, DealInv, NothingDealtEarly, OpenInv, DealsFollowEdits, CurrentInv, PastGate
  <1>2. TypeOK /\ DealInv /\ [Next]_vars => DealInv'
    BY DealStep
  <1>3. QED BY <1>1, <1>2, SessionTyping, PTL DEF Spec

(* No deal is stored before the exam has been open, whatever students ask   *)
(* for and however the teacher moves its start.                            *)
THEOREM DealtOnceOpen == Spec => []NothingDealtEarly
  BY DealInvariance, PTL DEF DealInv

(* Deals stay within the paper and the roster, however edits and requests   *)
(* interleave, except where a request that met an edit has stored one.      *)
THEOREM EditsGovernDeals == Spec => []DealsFollowEdits
  BY DealInvariance, PTL DEF DealInv

-----------------------------------------------------------------------------
(***************************************************************************)
(* One paper shown, and only dealt problems accepted.                      *)
(***************************************************************************)

(* What every calm view of s since the last edit was shown, if any.         *)
Offered(s) == IF perStudent = 0 THEN paper ELSE deals[s] \cap paper

(* A request no edit has met knows the size the exam has; once it has its   *)
(* answer, that is the paper, or what is dealt, all of it if it was alone.  *)
Informed(r) ==
  /\ pc[r] \in {"pool", "existing", "dealing", "answer"} => size[r] = perStudent
  /\ pc[r] \in {"existing", "dealing"} => perStudent # 0
  /\ pc[r] = "dealing" => todo[r] # {} \/ deals[who[r]] # {}
  /\ pc[r] = "answer" /\ perStudent = 0 => todo[r] = paper
  /\ pc[r] = "answer" /\ perStudent # 0 =>
       /\ todo[r] # {} /\ todo[r] \subseteq deals[who[r]]
       /\ alone[r] => todo[r] = deals[who[r]]

AloneInv ==
  \A r, q \in Requests :
    alone[r] /\ pc[r] # "idle" /\ q # r /\ who[q] = who[r] => pc[q] = "idle"

(* Once a calm view was shown a deal, nobody deals to its student again.    *)
SeenInv ==
  \A s \in Students :
    /\ seen[s] \subseteq {Offered(s)}
    /\ seen[s] # {} /\ perStudent # 0 =>
         /\ deals[s] # {}
         /\ \A q \in Requests : who[q] = s => pc[q] # "dealing"

ShownInv ==
  /\ \A r \in Requests : current[r] => Informed(r)
  /\ AloneInv /\ SeenInv /\ AcceptedWasDealt

LEMMA ShownInit == Init => ShownInv
  <1> SUFFICES ASSUME Init PROVE ShownInv
    OBVIOUS
  <1>1. /\ \A r \in Requests : pc[r] = "idle"
        /\ \A s \in Students : seen[s] = {}
        /\ accepted = {}
    BY DEF Init
  <1>2. \A r \in Requests : Informed(r)
    BY <1>1 DEF Informed
  <1>3. AloneInv
    BY <1>1 DEF AloneInv
  <1>4. SeenInv /\ AcceptedWasDealt
    BY <1>1 DEF SeenInv, AcceptedWasDealt
  <1> QED
    BY <1>2, <1>3, <1>4 DEF ShownInv

(* The tables stay, and so does every request but r, which moves to a step  *)
(* that is neither "dealing" nor an answer it does not know.                *)
Tables == <<paper, perStudent, deals, accepted, seen>>

LEMMA OpensShown ==
  ASSUME TypeOK, ShownInv, NEW r \in Requests, NEW s \in Students, NEW w, Opens(r, s, w),
         NEW step \in {"access", "gate"}, Goto(r, step)
  PROVE  ShownInv'
  <1>1. /\ pc' = [pc EXCEPT ![r] = step] /\ who' = [who EXCEPT ![r] = s]
        /\ alone' = [q \in Requests |->
                       IF q = r THEN InFlight(s) = {}
                       ELSE alone[q] /\ q \notin InFlight(s)]
        /\ UNCHANGED <<Tables, size, todo, current>>
        /\ pc[r] = "idle"
    BY DEF Opens, Goto, examVars, Tables
  <1>2. ASSUME NEW q \in Requests, current'[q] PROVE Informed(q)'
    <2>1. CASE q = r
      BY <1>1, <2>1 DEF Informed, TypeOK
    <2>2. CASE q # r
      <3>1. Informed(q) /\ pc'[q] = pc[q] /\ who'[q] = who[q] /\ (alone'[q] => alone[q])
        BY <1>1, <1>2, <2>2 DEF ShownInv, TypeOK
      <3> QED
        BY <1>1, <3>1 DEF Informed, Tables
    <2> QED
      BY <2>1, <2>2
  <1>3. AloneInv'
    BY <1>1 DEF AloneInv, ShownInv, TypeOK, InFlight
  <1>4. SeenInv' /\ AcceptedWasDealt'
    BY <1>1 DEF ShownInv, SeenInv, AcceptedWasDealt, Offered, Tables, TypeOK
  <1> QED
    BY <1>2, <1>3, <1>4 DEF ShownInv

(* A step of r alone that changes no table.                                 *)
LEMMA MovesShown ==
  ASSUME TypeOK, ShownInv, NEW r \in Requests, NEW step \in Steps, Goto(r, step),
         pc[r] # "idle",
         UNCHANGED <<Tables, who>>,
         \A q \in Requests \ {r} :
           size'[q] = size[q] /\ todo'[q] = todo[q] /\ alone'[q] = alone[q]
           /\ current'[q] = current[q],
         step # "idle" => alone'[r] = alone[r],
         current'[r] => Informed(r)',
         step = "dealing" => deals[who[r]] = {} \/ pc[r] = "dealing"
  PROVE  ShownInv'
  <1>1. pc' = [pc EXCEPT ![r] = step]
    BY DEF Goto
  <1>2. ASSUME NEW q \in Requests, current'[q] PROVE Informed(q)'
    <2>1. CASE q # r
      BY <1>1, <1>2, <2>1 DEF Informed, ShownInv, Tables, TypeOK
    <2> QED
      BY <1>2, <2>1
  <1>3. AloneInv'
    BY <1>1 DEF AloneInv, ShownInv, TypeOK
  <1>4. SeenInv' /\ AcceptedWasDealt'
    BY <1>1 DEF ShownInv, SeenInv, AcceptedWasDealt, Offered, Tables, TypeOK
  <1> QED
    BY <1>2, <1>3, <1>4 DEF ShownInv

LEMMA EndsShown ==
  ASSUME TypeOK, ShownInv, NEW r \in Requests, pc[r] # "idle", Ends(r),
         UNCHANGED <<accepted, seen>>
  PROVE  ShownInv'
  <1>1. Goto(r, "idle") /\ UNCHANGED <<Tables, who>>
    BY DEF Ends, examVars, Tables
  <1>2. \A q \in Requests \ {r} :
           size'[q] = size[q] /\ todo'[q] = todo[q] /\ alone'[q] = alone[q]
           /\ current'[q] = current[q]
    BY DEF Ends, TypeOK
  <1>3. Informed(r)'
    BY <1>1 DEF Goto, Informed, TypeOK
  <1> QED
    BY <1>1, <1>2, <1>3, MovesShown DEF Steps

LEMMA ReadsShown ==
  ASSUME TypeOK, ShownInv, NEW r \in Requests,
         Access(r) \/ Gate(r) \/ ReadSize(r) \/ ReadPool(r) \/ ReadDeal(r) \/ ReadBack(r)
  PROVE  ShownInv'
  <1> USE DEF Steps
  <1>1. CASE Access(r)
    <2>1. CASE Goto(r, "gate") /\ UNCHANGED <<Tables, who, size, todo, alone, current>>
      BY <1>1, <2>1, MovesShown DEF Access, Informed, Goto, TypeOK
    <2>2. CASE Replies(r) /\ UNCHANGED <<accepted, seen>>
      BY <1>1, <2>2, EndsShown DEF Access, Replies
    <2> QED
      BY <1>1, <2>1, <2>2 DEF Access, examVars, Tables
  <1>2. CASE Gate(r)
    <2>1. CASE Goto(r, "size") /\ UNCHANGED <<Tables, who, size, todo, alone, current>>
      BY <1>2, <2>1, MovesShown DEF Gate, Informed, Goto, TypeOK
    <2>2. CASE Replies(r) /\ UNCHANGED <<accepted, seen>>
      BY <1>2, <2>2, EndsShown DEF Gate, Replies
    <2> QED
      BY <1>2, <2>1, <2>2 DEF Gate, examVars, Tables
  <1>3. CASE ReadSize(r)
    <2>1. /\ pc[r] = "size" /\ Goto(r, "pool") /\ size' = [size EXCEPT ![r] = perStudent]
          /\ UNCHANGED <<Tables, who, todo, alone, current>>
      BY <1>3 DEF ReadSize, examVars, Tables
    <2>2. Informed(r)'
      BY <2>1 DEF Informed, Goto, TypeOK, Tables
    <2> QED
      BY <2>1, <2>2, MovesShown DEF TypeOK
  <1>4. CASE ReadPool(r)
    <2> DEFINE step == IF size[r] = 0 \/ size[r] >= Cardinality(paper) THEN "answer" ELSE "existing"
    <2>1. /\ pc[r] = "pool" /\ Goto(r, step) /\ todo' = [todo EXCEPT ![r] = paper]
          /\ UNCHANGED <<Tables, who, size, alone, current>>
      BY <1>4 DEF ReadPool, examVars, Tables
    <2>2. current[r] => (step = "answer" <=> perStudent = 0)
      <3>1. current[r] => size[r] = perStudent
        BY <2>1 DEF ShownInv, Informed
      <3>2. perStudent \in Nat /\ perStudent < Cardinality(paper)
        BY DEF TypeOK
      <3>3. Cardinality(paper) \in Nat
        BY SessionAssumption, FS_Subset, FS_CardinalityType DEF TypeOK
      <3>4. ~(perStudent >= Cardinality(paper))
        BY <3>2, <3>3
      <3> QED
        BY <3>1, <3>4
    <2>3. current[r] => Informed(r)'
      BY <2>1, <2>2 DEF Informed, ShownInv, Goto, TypeOK, Tables
    <2> QED
      BY <2>1, <2>3, MovesShown DEF TypeOK
  <1>5. CASE ReadDeal(r)
    <2>1. CASE deals[who[r]] # {}
      <3>1. /\ pc[r] = "existing" /\ Goto(r, "answer")
            /\ todo' = [todo EXCEPT ![r] = deals[who[r]]]
            /\ UNCHANGED <<Tables, who, size, alone, current>>
        BY <1>5, <2>1 DEF ReadDeal, examVars, Tables
      <3>2. current[r] => Informed(r)'
        BY <2>1, <3>1 DEF Informed, ShownInv, Goto, TypeOK, Tables
      <3> QED
        BY <3>1, <3>2, MovesShown DEF TypeOK
    <2>2. CASE deals[who[r]] = {}
      <3>1. /\ pc[r] = "existing" /\ Goto(r, "dealing")
            /\ UNCHANGED <<Tables, who, size, alone, current>>
        BY <1>5, <2>2 DEF ReadDeal, examVars, Tables
      <3>2. PICK chosen \in SUBSET todo[r] :
              Cardinality(chosen) = size[r] /\ todo' = [todo EXCEPT ![r] = chosen]
        BY <1>5, <2>2 DEF ReadDeal
      <3>3. current[r] => perStudent # 0 /\ size[r] = perStudent
        BY <3>1 DEF ShownInv, Informed
      <3>4. current[r] => chosen # {}
        BY <3>2, <3>3, FS_EmptySet
      <3>5. current[r] => Informed(r)'
        BY <3>1, <3>2, <3>3, <3>4 DEF Informed, Goto, TypeOK, Tables
      <3> QED
        BY <2>2, <3>1, <3>2, <3>5, MovesShown DEF TypeOK
    <2> QED
      BY <2>1, <2>2
  <1>6. CASE ReadBack(r)
    <2>1. /\ pc[r] = "dealing" /\ todo[r] = {} /\ Goto(r, "answer")
          /\ todo' = [todo EXCEPT ![r] = deals[who[r]]]
          /\ UNCHANGED <<Tables, who, size, alone, current>>
      BY <1>6 DEF ReadBack, examVars, Tables
    <2>2. current[r] => Informed(r)'
      BY <2>1 DEF Informed, ShownInv, Goto, TypeOK, Tables
    <2> QED
      BY <2>1, <2>2, MovesShown DEF TypeOK
  <1> QED
    BY <1>1, <1>2, <1>3, <1>4, <1>5, <1>6

(* Whoever else has an answer is not alone; whoever was shown one had it.   *)
LEMMA InsertShown ==
  ASSUME TypeOK, ShownInv, NEW r \in Requests, InsertDealt(r)
  PROVE  ShownInv'
  <1> DEFINE s == who[r]
  <1>1. /\ pc[r] = "dealing" /\ todo[r] # {} /\ s \in Students
        /\ deals' = [deals EXCEPT ![s] = @ \cup First(todo[r])]
        /\ todo' = [todo EXCEPT ![r] = @ \ First(@)]
        /\ UNCHANGED <<paper, perStudent, accepted, seen, pc, who, size, alone, current>>
    BY DEF InsertDealt, examVars, TypeOK
  <1>2. /\ deals'[s] = deals[s] \cup First(todo[r])
        /\ \A u \in Students \ {s} : deals'[u] = deals[u]
        /\ todo'[r] = todo[r] \ First(todo[r])
        /\ \A q \in Requests \ {r} : todo'[q] = todo[q]
    BY <1>1 DEF TypeOK
  <1>3. ASSUME NEW q \in Requests, current'[q] PROVE Informed(q)'
    <2>1. CASE q = r
      BY <1>1, <1>2, <1>3, <2>1 DEF Informed, ShownInv
    <2>2. CASE q # r /\ who[q] = s
      <3>1. Informed(q) /\ (alone[q] => pc[q] = "idle")
        BY <1>1, <1>3, <2>2 DEF ShownInv, AloneInv
      <3> QED
        BY <1>1, <1>2, <2>2, <3>1 DEF Informed
    <2>3. CASE q # r /\ who[q] # s
      <3>1. Informed(q) /\ who[q] \in Students
        BY <1>1, <1>3 DEF ShownInv, TypeOK
      <3> QED
        BY <1>1, <1>2, <2>3, <3>1 DEF Informed
    <2> QED
      BY <2>1, <2>2, <2>3
  <1>4. AloneInv'
    BY <1>1 DEF AloneInv, ShownInv
  <1>5. SeenInv'
    <2>1. seen[s] = {} \/ perStudent = 0
      BY <1>1 DEF ShownInv, SeenInv
    <2> QED
      BY <1>1, <1>2, <2>1 DEF ShownInv, SeenInv, Offered
  <1>6. AcceptedWasDealt'
    <2>1. ASSUME NEW a \in accepted, perStudent # 0 PROVE a[2] \in deals'[a[1]]
      <3>1. a[2] \in deals[a[1]] /\ a[1] \in Students
        BY <2>1 DEF ShownInv, AcceptedWasDealt, TypeOK
      <3> QED
        BY <1>2, <3>1
    <2> QED
      BY <1>1, <2>1 DEF ShownInv, AcceptedWasDealt
  <1> QED
    BY <1>3, <1>4, <1>5, <1>6 DEF ShownInv

LEMMA ShowShown ==
  ASSUME TypeOK, ShownInv, NEW r \in Requests, Show(r)
  PROVE  ShownInv'
  <1> DEFINE s == who[r]
  <1>1. CASE ~(alone[r] /\ current[r])
    BY <1>1, EndsShown DEF Show, Replies
  <1>2. CASE alone[r] /\ current[r]
    <2>1. /\ pc[r] = "answer" /\ s \in Students
          /\ pc' = [pc EXCEPT ![r] = "idle"]
          /\ seen' = [seen EXCEPT ![s] = @ \cup {todo[r] \cap paper}]
          /\ \A q \in Requests \ {r} :
               size'[q] = size[q] /\ todo'[q] = todo[q] /\ alone'[q] = alone[q]
               /\ current'[q] = current[q] /\ pc'[q] = pc[q]
          /\ pc'[r] = "idle"
          /\ UNCHANGED <<paper, perStudent, deals, accepted, who>>
      BY <1>2 DEF Show, Replies, Ends, Goto, examVars, TypeOK
    <2>2. todo[r] \cap paper = Offered(s) /\ (perStudent # 0 => deals[s] # {})
      BY <1>2, <2>1 DEF ShownInv, Informed, Offered
    <2>3. ASSUME NEW q \in Requests, current'[q] PROVE Informed(q)'
      <3>1. CASE q = r
        BY <2>1, <3>1 DEF Informed
      <3>2. CASE q # r
        BY <2>1, <2>3, <3>2 DEF ShownInv, Informed
      <3> QED
        BY <3>1, <3>2
    <2>4. AloneInv'
      BY <2>1 DEF ShownInv, AloneInv
    <2>5. SeenInv'
      <3>1. \A q \in Requests : who[q] = s => pc'[q] # "dealing"
        BY <1>2, <2>1 DEF ShownInv, AloneInv
      <3>2. seen'[s] = seen[s] \cup {Offered(s)} /\ \A u \in Students \ {s} : seen'[u] = seen[u]
        BY <2>1, <2>2 DEF TypeOK
      <3>3. \A u \in Students : Offered(u)' = Offered(u)
        BY <2>1 DEF Offered
      <3>4. \A q \in Requests : pc'[q] = "dealing" => pc[q] = "dealing"
        BY <2>1
      <3> QED
        <4> SUFFICES ASSUME NEW u \in Students
                     PROVE  /\ seen'[u] \subseteq {Offered(u)}
                            /\ seen'[u] # {} /\ perStudent # 0 =>
                                 deals[u] # {} /\ \A q \in Requests : who[q] = u => pc'[q] # "dealing"
          BY <2>1, <3>3 DEF SeenInv
        <4>1. CASE u = s
          BY <2>1, <2>2, <3>1, <3>2, <4>1 DEF ShownInv, SeenInv
        <4>2. CASE u # s
          BY <3>2, <3>4, <4>2 DEF ShownInv, SeenInv
        <4> QED
          BY <4>1, <4>2
    <2>6. AcceptedWasDealt'
      BY <2>1 DEF ShownInv, AcceptedWasDealt
    <2> QED
      BY <2>3, <2>4, <2>5, <2>6 DEF ShownInv
  <1> QED
    BY <1>1, <1>2

LEMMA AcceptShown ==
  ASSUME TypeOK, ShownInv, NEW r \in Requests, Accept(r)
  PROVE  ShownInv'
  <1>1. CASE accepted' = accepted
    BY <1>1, EndsShown DEF Accept, Replies
  <1>2. CASE accepted' # accepted
    <2>1. /\ current[r] /\ pc[r] = "answer" /\ what[r] \in todo[r]
          /\ accepted' = accepted \cup {<<who[r], what[r]>>}
          /\ pc' = [pc EXCEPT ![r] = "idle"]
          /\ \A q \in Requests \ {r} :
               size'[q] = size[q] /\ todo'[q] = todo[q] /\ alone'[q] = alone[q]
               /\ current'[q] = current[q] /\ pc'[q] = pc[q]
          /\ pc'[r] = "idle"
          /\ UNCHANGED <<paper, perStudent, deals, seen, who>>
      BY <1>2 DEF Accept, Replies, Ends, Goto, examVars, TypeOK
    <2>2. what[r] \in IF perStudent = 0 THEN paper ELSE deals[who[r]]
      BY <2>1 DEF ShownInv, Informed
    <2>3. AcceptedWasDealt'
      BY <2>1, <2>2 DEF ShownInv, AcceptedWasDealt
    <2>4. ASSUME NEW q \in Requests, current'[q] PROVE Informed(q)'
      <3>1. CASE q = r
        BY <2>1, <3>1 DEF Informed
      <3>2. CASE q # r
        BY <2>1, <2>4, <3>2 DEF ShownInv, Informed
      <3> QED
        BY <3>1, <3>2
    <2>5. AloneInv' /\ SeenInv'
      BY <2>1 DEF ShownInv, AloneInv, SeenInv, Offered
    <2> QED
      BY <2>3, <2>4, <2>5 DEF ShownInv
  <1> QED
    BY <1>1, <1>2

(* An edit leaves nothing seen, nothing accepted, and no request current    *)
(* but those that have not begun.                                          *)
LEMMA EditShown ==
  ASSUME TypeOK, ShownInv, Edit
  PROVE  ShownInv'
  <1>1. ASSUME NEW q \in Requests, current'[q] PROVE Informed(q)'
    BY <1>1 DEF Edit, Informed
  <1>2. AloneInv' /\ SeenInv' /\ AcceptedWasDealt'
    BY DEF Edit, ShownInv, AloneInv, SeenInv, AcceptedWasDealt
  <1> QED
    BY <1>1, <1>2 DEF ShownInv

LEMMA ShownStep ==
  ASSUME TypeOK, ShownInv, [Next]_vars
  PROVE  ShownInv'
  <1>1. ASSUME NEW r \in Requests, NEW s \in Students, View(r, s) PROVE ShownInv'
    BY <1>1, OpensShown DEF View
  <1>2. ASSUME NEW r \in Requests, NEW s \in Students, NEW p \in Problems, Post(r, s, p)
        PROVE  ShownInv'
    BY <1>2, OpensShown DEF Post
  <1>3. ASSUME NEW r \in Requests, Fail(r) PROVE ShownInv'
    BY <1>3, EndsShown DEF Fail
  <1>4. CASE Clock \/ UNCHANGED vars
    BY <1>4 DEF Clock, vars, examVars, requestVars, ShownInv, Informed, AloneInv, SeenInv, Offered,
       AcceptedWasDealt
  <1>5. CASE Teacher
    BY <1>5, EditShown DEF Teacher, PutExam, PutRoster
  <1> QED
    BY <1>1, <1>2, <1>3, <1>4, <1>5, ReadsShown, InsertShown, ShowShown, AcceptShown
    DEF Next, Request

LEMMA ShownSuffices == TypeOK /\ ShownInv => ShownAndHandedIn
  <1> SUFFICES ASSUME TypeOK, ShownInv PROVE ShownAndHandedIn
    OBVIOUS
  <1>1. ASSUME NEW s \in Students PROVE Cardinality(seen[s]) <= 1
    <2>1. seen[s] = {} \/ seen[s] = {Offered(s)}
      BY DEF ShownInv, SeenInv
    <2>2. Cardinality({}) = 0
      BY FS_EmptySet
    <2>3. Cardinality({Offered(s)}) = 1
      BY FS_Singleton
    <2>4. Cardinality(seen[s]) = 0 \/ Cardinality(seen[s]) = 1
      BY <2>1, <2>2, <2>3
    <2> QED
      BY <2>4
  <1> QED
    BY <1>1 DEF ShownAndHandedIn, OnePaper, ShownInv

(* Between two edits, every view of a student that no other request of hers *)
(* overlaps is shown the same problems, and an answer is accepted only to a *)
(* problem dealt to her (assignedProblemIds), however requests interleave  *)
(* and wherever they fail.                                                 *)
THEOREM OnePaperEach == Spec => []ShownAndHandedIn
  <1>1. Spec => []ShownInv
    BY SessionTyping, ShownInit, ShownStep, PTL DEF Spec
  <1> QED
    BY <1>1, SessionTyping, ShownSuffices, PTL

-----------------------------------------------------------------------------
(***************************************************************************)
(* ExamForm, for any courses, questions, paper and bound on clicks.        *)
(***************************************************************************)

(* How an even split of 100 marks divides.                                 *)
LEMMA EvenShares ==
  ASSUME NEW n \in Nat \ {0}
  PROVE  /\ 100 \div n \in Nat /\ 100 - (100 \div n) * n \in 0 .. (n - 1)
  <1> DEFINE b == 100 \div n
  <1>1. b \in Nat /\ b * n =< 100 /\ 100 < b * n + n
    OBVIOUS
  <1> QED
    BY <1>1

(* The form shows the split that the server makes.                         *)
LEMMA FormMirrorsServer ==
  ASSUME NEW n \in Nat \ {0}
  PROVE  /\ evenPoints(n) = evenMarks(n) /\ evenPoints(n) \in [1 .. n -> Nat]
         /\ \A j, k \in 1 .. n : evenPoints(n)[j] - evenPoints(n)[k] \in -1 .. 1
  <1> DEFINE b == 100 \div n
             r == 100 - b * n
  <1>1. b \in Nat /\ r \in Nat
    BY EvenShares
  <1>2. evenPoints(n) = [k \in 1 .. n |-> b + (IF k =< r THEN 1 ELSE 0)]
    BY DEF evenPoints
  <1>3. evenMarks(n) = [k \in 1 .. n |-> b + (IF k - 1 < r THEN 1 ELSE 0)]
    BY DEF evenMarks
  <1> HIDE DEF b, r
  <1>4. \A k \in 1 .. n : k =< r <=> k - 1 < r
    BY <1>1
  <1>5. evenPoints(n) = evenMarks(n)
    BY <1>2, <1>3, <1>4
  <1>6. evenPoints(n) \in [1 .. n -> Nat]
    BY <1>1, <1>2
  <1>7. \A k \in 1 .. n : evenPoints(n)[k] = b \/ evenPoints(n)[k] = b + 1
    BY <1>1, <1>2
  <1> QED
    BY <1>1, <1>5, <1>6, <1>7, SMTT(40)

(* It gives 100 in all.                                                    *)
LEMMA EvenSplitIsWhole ==
  ASSUME NEW n \in Nat \ {0}
  PROVE  InAll(evenPoints(n)) = 100
  <1> DEFINE w == evenPoints(n)
             S == 1 .. n
             b == 100 \div n
             r == 100 - b * n
  <1>1. w \in [S -> Nat]
    BY FormMirrorsServer
  <1>2. IsFiniteSet(S)
    BY FS_Interval
  <1>3. \A k \in S : w[k] \in Nat
    BY <1>1
  <1> HIDE DEF w
  <1>4. PICK f : Additive(w, f, S) /\ \A T \in SUBSET S : f[T] = (CHOOSE g : SumsUp(w, g, T))[T]
    <2> HIDE DEF S
    <2> QED
      BY <1>2, <1>3, SumIs
  <1> DEFINE Summed == MapThenSumSet(LAMBDA k : w[k], S)
  <1>5. Summed = f[S]
    <2>1. Summed =
            (CHOOSE g : g = [s \in SUBSET S |-> IF s = {} THEN 0
                                               ELSE w[AnyOf(s)] + g[s \ {AnyOf(s)}]])[S]
      BY DEF MapThenSumSet, MapThenFoldSet, AnyOf
    <2>2. Summed = (CHOOSE g : SumsUp(w, g, S))[S]
      BY <2>1 DEF SumsUp, SumStep
    <2> QED
      BY <1>4, <2>2
  <1>6. b \in Nat /\ r \in Nat /\ r < n /\ b * n + r = 100
    BY EvenShares
  <1>7. \A k \in S : w[k] = b + (IF k =< r THEN 1 ELSE 0)
    BY DEF evenPoints, w
  <1> HIDE DEF b, r
  <1> DEFINE given(m) == b * m + (IF m =< r THEN m ELSE r)
             Wrong == {m \in 0 .. n : f[1 .. m] # given(m)}
  <1>8. Wrong = {}
    <2> SUFFICES ASSUME Wrong # {} PROVE FALSE
      OBVIOUS
    <2>1. Wrong \in SUBSET Nat
      OBVIOUS
    <2>2. PICK m \in Wrong : \A k \in Wrong : m <= k
      BY <2>1, LeastNumber
    <2>3. m \in 0 .. n /\ m \in Nat /\ f[1 .. m] # given(m)
      BY <2>2
    <2>4. CASE m = 0
      <3>1. 1 .. m = {} /\ f[{}] = 0
        BY <1>4, <2>4 DEF Additive
      <3>2. given(m) = 0
        BY <1>6, <2>4
      <3> QED
        BY <2>3, <3>1, <3>2
    <2>5. CASE m # 0
      <3>1. m \in S /\ m - 1 \in 0 .. n /\ m - 1 \in Nat /\ ~(m <= m - 1)
        BY <2>3, <2>5
      <3>2. f[1 .. (m - 1)] = given(m - 1)
        BY <2>2, <3>1
      <3>3. 1 .. m \in SUBSET S /\ m \in 1 .. m /\ (1 .. m) \ {m} = 1 .. (m - 1)
        BY <2>3, <3>1
      <3>4. f[1 .. m] = w[m] + f[1 .. (m - 1)]
        BY <1>4, <3>3, SMTT(40) DEF Additive
      <3>5. w[m] = b + (IF m =< r THEN 1 ELSE 0)
        BY <1>7, <3>1
      <3>6. b * m = b * (m - 1) + b
        BY <1>6, <2>3
      <3>7. given(m) = w[m] + given(m - 1)
        <4>1. b * m \in Nat /\ b * (m - 1) \in Nat
          BY <1>6, <3>1
        <4> DEFINE x == b * m
                   y == b * (m - 1)
        <4>2. x = y + b /\ x \in Nat /\ y \in Nat
          BY <3>6, <4>1
        <4> HIDE DEF x, y
        <4>3. x + (IF m =< r THEN m ELSE r) = b + (IF m =< r THEN 1 ELSE 0) + (y + (IF m - 1 =< r THEN m - 1 ELSE r))
          BY <4>2, <1>6, <2>3
        <4> QED
          BY <4>3, <3>5 DEF x, y
      <3> QED
        BY <2>3, <3>2, <3>4, <3>7
    <2> QED
      BY <2>4, <2>5
  <1>9. f[S] = given(n)
    BY <1>8
  <1>10. given(n) = 100
    BY <1>6
  <1>11. DOMAIN w = S
    BY <1>1
  <1> QED
    BY <1>5, <1>9, <1>10, <1>11 DEF w, InAll

-----------------------------------------------------------------------------
(* The paper in the form *)
Picks(P, c) ==
  /\ P \in Seq(Questions)
  /\ \A k \in DOMAIN P : belongs[P[k]] = c
  /\ \A j, k \in DOMAIN P : P[j] = P[k] => j = k

Marks == UNION {[Q -> HandMarks] : Q \in SUBSET Questions}

FormShape ==
  /\ form \in [course : CoursesOf \cup {NoCourse}, picked : Seq(Questions), custom : BOOLEAN,
               marks : Marks, whole : BOOLEAN, sitters : SUBSET Candidates]
  /\ Picks(form.picked, form.course)

WorldShape ==
  /\ belongs \in [Questions -> CoursesOf] /\ enrolledIn \in [CoursesOf -> SUBSET Candidates]
  /\ enrolled \subseteq Candidates
  /\ \A l \in loads : l.course \in CoursesOf /\ (l.answered => l.students \subseteq Candidates)

(* What is sent is what was seen. *)
SentAsShown ==
  post.sent =>
    LET s == post.shown IN
    /\ post.course \in CoursesOf
    /\ Picks(post.problem_ids, post.course) /\ post.problem_ids # <<>>
    /\ s.paper = post.problem_ids
    /\ s.custom \in BOOLEAN /\ s.whole \in BOOLEAN /\ s.settled \in BOOLEAN
    /\ DOMAIN s.marks = DOMAIN s.paper
    /\ s.custom => post.points = s.marks
    /\ ~s.custom => post.points = <<>> /\ s.marks = evenMarks(Len(s.paper))
    /\ s.whole => post.user_ids = {}
    /\ ~s.whole /\ s.settled => s.pressed = post.user_ids \cap enrolledIn[post.course]

FormInv == WorldShape /\ FormShape /\ SentAsShown /\ ExamIsAsShown

LEMMA PicksHave ==
  ASSUME NEW P, NEW c, Picks(P, c)
  PROVE  DOMAIN P = 1 .. Len(P) /\ Len(P) \in Nat /\ \A k \in DOMAIN P : P[k] \in Questions
  <1>1. P \in Seq(Questions)
    BY DEF Picks
  <1>2. DOMAIN P = 1 .. Len(P) /\ Len(P) \in Nat
    BY <1>1, LenProperties
  <1>3. \A k \in DOMAIN P : P[k] \in Questions
    BY <1>1, ElementOfSeq
  <1> QED
    BY <1>2, <1>3

(* A problem that is added to the paper, is taken out of it, or changes    *)
(* places with the next                                                    *)
LEMMA PickAdded ==
  ASSUME NEW P, NEW c, Picks(P, c), NEW q \in Questions \ ToSet(P), belongs[q] = c
  PROVE  Picks(Append(P, q), c)
  <1> DEFINE A == Append(P, q)
             n == Len(P)
  <1>1. P \in Seq(Questions) /\ n \in Nat /\ DOMAIN P = 1 .. n
    BY PicksHave DEF Picks
  <1>2. /\ A \in Seq(Questions) /\ Len(A) = n + 1
        /\ \A k \in 1 .. n : A[k] = P[k]
        /\ A[n + 1] = q
    BY <1>1, AppendProperties
  <1>3. DOMAIN A = 1 .. (n + 1)
    BY <1>2, LenProperties
  <1>4. \A k \in 1 .. n : P[k] # q
    BY <1>1 DEF ToSet
  <1> HIDE DEF A, n
  <1>5. \A k \in DOMAIN A : k = n + 1 \/ (k # n + 1 /\ k \in 1 .. n)
    BY <1>1, <1>3
  <1>6. \A k \in DOMAIN A : belongs[A[k]] = c
    BY <1>1, <1>2, <1>5 DEF Picks
  <1>7. ASSUME NEW j \in DOMAIN A, NEW k \in DOMAIN A, A[j] = A[k] PROVE j = k
    <2>1. CASE j = n + 1 \/ k = n + 1
      BY <2>1, <1>2, <1>4, <1>5, <1>7
    <2>2. CASE j \in 1 .. n /\ k \in 1 .. n
      BY <2>2, <1>1, <1>2, <1>7 DEF Picks
    <2> QED
      BY <2>1, <2>2, <1>5
  <1> QED
    BY <1>2, <1>6, <1>7 DEF Picks, A

LEMMA PickRemoved ==
  ASSUME NEW P, NEW c, Picks(P, c), NEW i \in DOMAIN P
  PROVE  Picks(RemoveAt(P, i), c)
  <1> DEFINE n == Len(P)
             a == SubSeq(P, 1, i - 1)
             b == SubSeq(P, i + 1, n)
             R == a \o b
  <1>1. P \in Seq(Questions) /\ n \in Nat /\ DOMAIN P = 1 .. n /\ i \in 1 .. n
    BY PicksHave DEF Picks
  <1>2. a \in Seq(Questions) /\ Len(a) = i - 1 /\ \A k \in 1 .. (i - 1) : a[k] = P[k]
    <2>1. i - 1 \in 0 .. n /\ (1 .. (i - 1)) \subseteq 1 .. n
      BY <1>1
    <2>2. a \in Seq(Questions) /\ Len(a) = i - 1 /\ \A k \in 1 .. (i - 1) : a[k] = P[1 + k - 1]
      BY <1>1, <2>1, SubSeqProperties
    <2>3. \A k \in 1 .. (i - 1) : 1 + k - 1 = k
      OBVIOUS
    <2> HIDE DEF a
    <2> QED
      BY <2>2, <2>3
  <1>3. b \in Seq(Questions) /\ Len(b) = n - i /\ \A k \in 1 .. (n - i) : b[k] = P[i + k]
    <2>1. i + 1 \in 1 .. n + 1 /\ (i + 1) .. n \subseteq 1 .. n
      BY <1>1
    <2>2. /\ b \in Seq(Questions) /\ Len(b) = IF i + 1 <= n THEN n - (i + 1) + 1 ELSE 0
          /\ \A k \in 1 .. (n - (i + 1) + 1) : b[k] = P[(i + 1) + k - 1]
      BY <1>1, <2>1, SubSeqProperties
    <2>3. n - (i + 1) + 1 = n - i /\ (IF i + 1 <= n THEN n - (i + 1) + 1 ELSE 0) = n - i
      BY <1>1
    <2>4. \A k \in 1 .. (n - i) : (i + 1) + k - 1 = i + k
      BY <1>1
    <2> HIDE DEF b
    <2> QED
      BY <2>2, <2>3, <2>4
  <1> DEFINE from(k) == IF k =< i - 1 THEN k ELSE k + 1
  <1>4. R \in Seq(Questions) /\ DOMAIN R = 1 .. (n - 1) /\ \A k \in 1 .. (n - 1) : R[k] = P[from(k)]
    <2> HIDE DEF a, b
    <2>1. /\ R \in Seq(Questions) /\ Len(R) = Len(a) + Len(b)
          /\ \A k \in 1 .. (Len(a) + Len(b)) : R[k] = IF k <= Len(a) THEN a[k] ELSE b[k - Len(a)]
      BY <1>2, <1>3, ConcatProperties
    <2>2. Len(a) + Len(b) = n - 1
      BY <1>1, <1>2, <1>3
    <2>3. DOMAIN R = 1 .. (n - 1)
      BY <2>1, <2>2, LenProperties
    <2> HIDE DEF R
    <2>4. ASSUME NEW k \in 1 .. (n - 1) PROVE R[k] = P[from(k)]
      <3>1. R[k] = IF k <= i - 1 THEN a[k] ELSE b[k - (i - 1)]
        BY <2>1, <2>2, <1>2
      <3>2. CASE k <= i - 1
        BY <3>1, <3>2, <1>2, <1>1
      <3>3. CASE ~(k <= i - 1)
        <4>1. k - (i - 1) \in 1 .. (n - i) /\ i + (k - (i - 1)) = k + 1
          BY <3>3, <1>1
        <4>2. b[k - (i - 1)] = P[i + (k - (i - 1))]
          BY <4>1, <1>3
        <4> QED
          BY <3>1, <3>3, <4>1, <4>2
      <3> QED
        BY <3>2, <3>3
    <2> QED
      BY <2>1, <2>3, <2>4
  <1> HIDE DEF a, b, R
  <1>5. /\ \A k \in 1 .. (n - 1) : from(k) \in 1 .. n
        /\ \A j, k \in 1 .. (n - 1) : from(j) = from(k) => j = k
    BY <1>1
  <1> HIDE DEF from, n
  <1>6. \A k \in DOMAIN R : belongs[R[k]] = c
    BY <1>1, <1>4, <1>5 DEF Picks
  <1>7. \A j, k \in DOMAIN R : R[j] = R[k] => j = k
    BY <1>1, <1>4, <1>5 DEF Picks
  <1>8. Picks(R, c)
    BY <1>4, <1>6, <1>7 DEF Picks
  <1>9. RemoveAt(P, i) = R
    BY DEF RemoveAt, R, a, b, n
  <1> QED
    BY <1>8, <1>9

LEMMA PickMoved ==
  ASSUME NEW P, NEW c, Picks(P, c), NEW i \in 1 .. (Len(P) - 1), NEW R,
         R = [P EXCEPT ![i] = P[i + 1], ![i + 1] = P[i]]
  PROVE  Picks(R, c)
  <1> DEFINE n == Len(P)
             from(k) == IF k = i THEN i + 1 ELSE IF k = i + 1 THEN i ELSE k
  <1>1. P \in Seq(Questions) /\ n \in Nat /\ DOMAIN P = 1 .. n /\ i \in 1 .. n /\ i + 1 \in 1 .. n
    BY PicksHave DEF Picks
  <1>2. P = [k \in 1 .. n |-> P[k]]
    BY <1>1
  <1>3. DOMAIN R = 1 .. n
    BY <1>1
  <1>4. \A k \in 1 .. n : R[k] = P[from(k)]
    BY <1>1
  <1>5. /\ \A k \in 1 .. n : from(k) \in 1 .. n
        /\ \A j, k \in 1 .. n : from(j) = from(k) => j = k
    BY <1>1
  <1>6. \A k \in 1 .. n : P[k] \in Questions
    BY <1>1, PicksHave
  <1>7. R \in Seq(Questions)
    <2>1. \A k \in 1 .. n : R[k] \in Questions
      BY <1>4, <1>5, <1>6
    <2>2. R = [k \in 1 .. n |-> R[k]]
      BY <1>3
    <2> HIDE DEF n
    <2> QED
      BY <1>1, <2>1, <2>2
  <1> HIDE DEF from, n
  <1>8. \A k \in DOMAIN R : belongs[R[k]] = c
    BY <1>1, <1>3, <1>4, <1>5 DEF Picks
  <1>9. \A j, k \in DOMAIN R : R[j] = R[k] => j = k
    BY <1>1, <1>3, <1>4, <1>5 DEF Picks
  <1> QED
    BY <1>7, <1>8, <1>9 DEF Picks

LEMMA WorldStep == ASSUME WorldShape, FormShape, [FormNext]_formVars PROVE WorldShape'
  <1> USE DEF WorldShape
  <1>1. CASE PickCourse
    <2>1. PICK c \in CoursesOf \ {form.course} :
            loads' = loads \cup {[course |-> c, answered |-> FALSE]}
      BY <1>1 DEF PickCourse
    <2> QED
      BY <1>1, <2>1 DEF PickCourse, Others
  <1>2. CASE toggleProblem
    BY <1>2 DEF toggleProblem, Edits, Others
  <1>3. CASE moveProblem
    BY <1>3 DEF moveProblem, Edits, Others
  <1>4. CASE setMarks
    BY <1>4 DEF setMarks, Edits, Others
  <1>5. CASE chooseSitters
    BY <1>5 DEF chooseSitters, Edits, Others
  <1>6. ASSUME NEW l \in loads, RosterServed(l) PROVE WorldShape'
    <2>1. PICK shown \in {enrolledIn[l.course], {}} :
            loads' = (loads \ {l}) \cup {[course |-> l.course, answered |-> TRUE, students |-> shown]}
      BY <1>6 DEF RosterServed
    <2>2. l.course \in CoursesOf /\ shown \subseteq Candidates
      OBVIOUS
    <2> QED
      BY <1>6, <2>1, <2>2 DEF RosterServed, Others
  <1>7. ASSUME NEW l \in loads, RosterShown(l) PROVE WorldShape'
    BY <1>7 DEF RosterShown, Others
  <1>8. CASE handleSubmit
    BY <1>8 DEF handleSubmit
  <1>9. CASE Created
    BY <1>9 DEF Created
  <1>10. CASE Refused
    BY <1>10 DEF Refused
  <1>11. CASE UNCHANGED formVars
    BY <1>11 DEF formVars
  <1> QED
    BY <1>1, <1>2, <1>3, <1>4, <1>5, <1>6, <1>7, <1>8, <1>9, <1>10, <1>11 DEF FormNext

LEMMA EmptyShape ==
  /\ EmptyForm \in [course : CoursesOf \cup {NoCourse}, picked : Seq(Questions), custom : BOOLEAN,
                    marks : Marks, whole : BOOLEAN, sitters : SUBSET Candidates]
  /\ Picks(EmptyForm.picked, EmptyForm.course)
  <1>1. <<>> \in Seq(Questions)
    BY EmptySeq
  <1>2. [q \in {} |-> 0] \in Marks
    <2>1. [q \in {} |-> 0] \in [{} -> HandMarks] /\ {} \in SUBSET Questions
      OBVIOUS
    <2> QED
      BY <2>1 DEF Marks
  <1>3. \A k \in DOMAIN <<>> : FALSE
    OBVIOUS
  <1>4. Picks(<<>>, NoCourse)
    BY <1>1, <1>3 DEF Picks
  <1>5. EmptyForm.picked = <<>> /\ EmptyForm.course = NoCourse
    BY DEF EmptyForm
  <1>6. EmptyForm \in [course : CoursesOf \cup {NoCourse}, picked : Seq(Questions), custom : BOOLEAN,
                       marks : Marks, whole : BOOLEAN, sitters : SUBSET Candidates]
    BY <1>1, <1>2 DEF EmptyForm
  <1> QED
    BY <1>4, <1>5, <1>6

LEMMA FormShapeStep == ASSUME WorldShape, FormShape, [FormNext]_formVars PROVE FormShape'
  <1> USE DEF FormShape
  <1> DEFINE Keeps == belongs' = belongs
             Drafts == [course : CoursesOf \cup {NoCourse}, picked : Seq(Questions), custom : BOOLEAN,
                       marks : Marks, whole : BOOLEAN, sitters : SUBSET Candidates]
  <1>a. ASSUME NEW P, Picks(P, form.course), form' = [form EXCEPT !.picked = P], belongs' = belongs
        PROVE  FormShape'
    <2>1. P \in Seq(Questions)
      BY <1>a DEF Picks
    <2>2. form' \in Drafts /\ form'.picked = P /\ form'.course = form.course
      BY <1>a, <2>1
    <2> QED
      BY <1>a, <2>2 DEF Picks
  <1>1. CASE PickCourse
    <2>1. PICK c \in CoursesOf : form' = [form EXCEPT !.course = c, !.picked = <<>>]
      BY <1>1 DEF PickCourse
    <2>2. <<>> \in Seq(Questions)
      BY EmptySeq
    <2>3. form' \in Drafts /\ form'.picked = <<>>
      BY <2>1, <2>2
    <2>4. \A k \in DOMAIN <<>> : FALSE
      OBVIOUS
    <2> QED
      BY <2>2, <2>3, <2>4 DEF Picks
  <1>2. CASE toggleProblem
    <2>1. belongs' = belongs
      BY <1>2 DEF toggleProblem, Edits, Others
    <2>2. CASE \E q \in Questions \ ToSet(form.picked) :
                 belongs[q] = form.course /\ form' = [form EXCEPT !.picked = Append(@, q)]
      <3>1. PICK q \in Questions \ ToSet(form.picked) :
              belongs[q] = form.course /\ form' = [form EXCEPT !.picked = Append(@, q)]
        BY <2>2
      <3>2. Picks(Append(form.picked, q), form.course)
        BY <3>1, PickAdded
      <3>3. form' = [form EXCEPT !.picked = Append(form.picked, q)]
        BY <3>1
      <3> QED
        BY <2>1, <3>2, <3>3, <1>a
    <2>3. CASE \E i \in DOMAIN form.picked : form' = [form EXCEPT !.picked = RemoveAt(@, i)]
      <3>1. PICK i \in DOMAIN form.picked : form' = [form EXCEPT !.picked = RemoveAt(@, i)]
        BY <2>3
      <3>2. Picks(RemoveAt(form.picked, i), form.course)
        BY PickRemoved
      <3>3. form' = [form EXCEPT !.picked = RemoveAt(form.picked, i)]
        BY <3>1
      <3> QED
        BY <2>1, <3>2, <3>3, <1>a
    <2> QED
      BY <1>2, <2>2, <2>3 DEF toggleProblem
  <1>3. CASE moveProblem
    <2>1. PICK i \in 1 .. (Len(form.picked) - 1) :
            form' = [form EXCEPT !.picked[i] = form.picked[i + 1], !.picked[i + 1] = form.picked[i]]
      BY <1>3 DEF moveProblem
    <2> DEFINE R == [form.picked EXCEPT ![i] = form.picked[i + 1], ![i + 1] = form.picked[i]]
    <2>2. form' = [form EXCEPT !.picked = R]
      BY <2>1
    <2>3. Picks(R, form.course)
      BY PickMoved
    <2>4. belongs' = belongs
      BY <1>3 DEF moveProblem, Edits, Others
    <2> HIDE DEF R
    <2> QED
      BY <2>2, <2>3, <2>4, <1>a
  <1>4. CASE setMarks
    <2>1. belongs' = belongs
      BY <1>4 DEF setMarks, Edits, Others
    <2>2. CASE form' = [form EXCEPT !.custom = ~@]
      <3>1. form' \in Drafts /\ form'.picked = form.picked /\ form'.course = form.course
        BY <2>2
      <3> QED
        BY <2>1, <3>1 DEF Picks
    <2>3. CASE \E q \in ToSet(form.picked), m \in HandMarks :
                 form' = [form EXCEPT !.marks = [x \in DOMAIN @ \cup {q} |-> IF x = q THEN m ELSE @[x]]]
      <3>1. PICK q \in ToSet(form.picked), m \in HandMarks :
              form' = [form EXCEPT !.marks = [x \in DOMAIN @ \cup {q} |-> IF x = q THEN m ELSE @[x]]]
        BY <2>3
      <3> DEFINE old == form.marks
                 new == [x \in DOMAIN old \cup {q} |-> IF x = q THEN m ELSE old[x]]
      <3>2. PICK Q \in SUBSET Questions : old \in [Q -> HandMarks]
        BY DEF Marks
      <3>3. q \in Questions
        BY PicksHave DEF ToSet
      <3>4. new \in [Q \cup {q} -> HandMarks] /\ Q \cup {q} \in SUBSET Questions
        BY <3>2, <3>3
      <3>5. new \in Marks
        BY <3>4 DEF Marks
      <3>6. form' = [form EXCEPT !.marks = new]
        BY <3>1
      <3> HIDE DEF new
      <3>7. form' \in Drafts /\ form'.picked = form.picked /\ form'.course = form.course
        BY <3>5, <3>6
      <3> QED
        BY <2>1, <3>7 DEF Picks
    <2> QED
      BY <1>4, <2>2, <2>3 DEF setMarks
  <1>5. CASE chooseSitters
    <2>1. belongs' = belongs
      BY <1>5 DEF chooseSitters, Edits, Others
    <2>2. CASE form' = [form EXCEPT !.whole = ~@]
      <3>1. form' \in Drafts /\ form'.picked = form.picked /\ form'.course = form.course
        BY <2>2
      <3> QED
        BY <2>1, <3>1 DEF Picks
    <2>3. CASE \E s \in enrolled :
                 form' = [form EXCEPT !.sitters = IF s \in @ THEN @ \ {s} ELSE @ \cup {s}]
      <3>1. PICK s \in enrolled :
              form' = [form EXCEPT !.sitters = IF s \in @ THEN @ \ {s} ELSE @ \cup {s}]
        BY <2>3
      <3> DEFINE old == form.sitters
                 new == IF s \in old THEN old \ {s} ELSE old \cup {s}
      <3>2. new \in SUBSET Candidates /\ form' = [form EXCEPT !.sitters = new]
        BY <3>1 DEF WorldShape
      <3> HIDE DEF new
      <3>3. form' \in Drafts /\ form'.picked = form.picked /\ form'.course = form.course
        BY <3>2
      <3> QED
        BY <2>1, <3>3 DEF Picks
    <2> QED
      BY <1>5, <2>2, <2>3 DEF chooseSitters
  <1>6. ASSUME NEW l \in loads, RosterServed(l) \/ RosterShown(l) PROVE FormShape'
    BY <1>6 DEF RosterServed, RosterShown, Others, Picks
  <1>7. CASE handleSubmit \/ Refused
    BY <1>7 DEF handleSubmit, Refused, Picks
  <1>8. CASE Created
    <2>1. CASE form' = EmptyForm
      BY <1>8, <2>1, EmptyShape DEF Created, Picks
    <2>2. CASE UNCHANGED form
      BY <1>8, <2>2 DEF Created, Picks
    <2> QED
      BY <1>8, <2>1, <2>2 DEF Created
  <1>9. CASE UNCHANGED formVars
    BY <1>9 DEF formVars, Picks
  <1> QED
    BY <1>1, <1>2, <1>3, <1>4, <1>5, <1>6, <1>7, <1>8, <1>9 DEF FormNext

(* Only a click sends, and what it sends is what is on the screen.         *)
LEMMA FormSentStep == ASSUME WorldShape, FormShape, SentAsShown, [FormNext]_formVars PROVE SentAsShown'
  <1>1. CASE handleSubmit
    <2> DEFINE s == OnScreen
               P == form.picked
    <2>1. /\ s.course = form.course /\ s.paper = P /\ s.marks = [k \in DOMAIN P |-> markFor(k)]
          /\ s.custom = form.custom /\ s.whole = form.whole
          /\ s.pressed = form.sitters \cap enrolled
          /\ s.settled = (enrolled = enrolledIn[form.course])
      BY DEF OnScreen
    <2>2. /\ post'.shown = s /\ post'.course = form.course /\ post'.problem_ids = P
          /\ post'.points = (IF form.custom THEN s.marks ELSE <<>>)
          /\ post'.user_ids = (IF form.whole THEN {} ELSE form.sitters)
      BY <1>1 DEF handleSubmit
    <2>3. /\ form.course \in CoursesOf /\ P # <<>> /\ Picks(P, form.course)
          /\ belongs' = belongs /\ enrolledIn' = enrolledIn
          /\ form.custom \in BOOLEAN /\ form.whole \in BOOLEAN
      BY <1>1 DEF handleSubmit, FormShape
    <2>4. ~form.custom => s.marks = evenMarks(Len(P))
      <3> SUFFICES ASSUME ~form.custom PROVE s.marks = evenMarks(Len(P))
        OBVIOUS
      <3>1. DOMAIN P = 1 .. Len(P) /\ Len(P) \in Nat \ {0}
        BY <2>3, EmptySeq, LenProperties DEF Picks
      <3>2. \A k \in DOMAIN P : markFor(k) = evenMarks(Len(P))[k]
        BY DEF markFor
      <3>3. evenMarks(Len(P)) \in [1 .. Len(P) -> Nat]
        BY <3>1, FormMirrorsServer
      <3> QED
        BY <2>1, <3>1, <3>2, <3>3
    <2>5. Picks(P, form.course)'
      BY <1>1, <2>3 DEF handleSubmit, Picks
    <2>6. s.settled \in BOOLEAN
      BY <2>1
    <2>7. ~s.whole /\ s.settled => s.pressed = form.sitters \cap enrolledIn[form.course]
      BY <2>1
    <2>8. DOMAIN s.marks = DOMAIN s.paper
      BY <2>1
    <2>9. belongs' = belongs /\ Picks(post'.problem_ids, post'.course)
      BY <2>2, <2>3
    <2>10. post'.shown = s /\ post'.course \in CoursesOf /\ post'.problem_ids # <<>>
      BY <2>2, <2>3
    <2>11. Picks(post.problem_ids, post.course)'
      BY <2>9 DEF Picks
    <2>12. s.paper = post'.problem_ids /\ s.custom \in BOOLEAN /\ s.whole \in BOOLEAN
      BY <2>1, <2>2, <2>3
    <2>13. s.custom => post'.points = s.marks
      BY <2>1, <2>2
    <2>14. ~s.custom => post'.points = <<>> /\ s.marks = evenMarks(Len(s.paper))
      BY <2>1, <2>2, <2>4
    <2>15. s.whole => post'.user_ids = {}
      BY <2>1, <2>2
    <2>16. ~s.whole /\ s.settled => s.pressed = post'.user_ids \cap enrolledIn'[post'.course]
      BY <2>1, <2>2, <2>3, <2>7
    <2> HIDE DEF s, P
    <2> QED
      BY <2>6, <2>8, <2>10, <2>11, <2>12, <2>13, <2>14, <2>15, <2>16 DEF SentAsShown
  <1>2. CASE Created \/ Refused
    BY <1>2 DEF Created, Refused, NoPost, SentAsShown
  <1>3. CASE UNCHANGED <<belongs, enrolledIn, post>>
    BY <1>3 DEF SentAsShown, Picks
  <1> QED
    BY <1>1, <1>2, <1>3 DEF FormNext, PickCourse, toggleProblem, moveProblem, setMarks, chooseSitters,
       RosterServed, RosterShown, Edits, Others, formVars

LEMMA InSet == ASSUME NEW P, NEW c, Picks(P, c) PROVE \A q \in ToSet(P) : belongs[q] = c
  BY DEF Picks, ToSet

(* What ExamIsAsShown says of one exam                                     *)
Honest(b, en, x) ==
  /\ x.paper = x.shown.paper /\ x.points = x.shown.marks
  /\ \A q \in ToSet(x.paper) : b[q] = x.course
  /\ ~x.shown.custom =>
       /\ InAll(x.points) = 100
       /\ \A j, k \in DOMAIN x.points : x.points[j] - x.points[k] \in -1 .. 1
  /\ (IF x.roster = {} THEN en[x.course] ELSE x.roster) \subseteq en[x.course]
  /\ x.shown.settled =>
       (IF x.roster = {} THEN en[x.course] ELSE x.roster) =
         IF x.shown.whole \/ x.shown.pressed = {} THEN en[x.course] ELSE x.shown.pressed

LEMMA ExamsStep ==
  ASSUME FormInv, [FormNext]_formVars
  PROVE  ExamIsAsShown'
  <1>a. ExamIsAsShown <=> \A x \in exams : Honest(belongs, enrolledIn, x)
    BY DEF ExamIsAsShown, Honest, Sitting
  <1>b. ExamIsAsShown' <=> \A x \in exams' : Honest(belongs', enrolledIn', x)
    BY DEF ExamIsAsShown, Honest, Sitting
  <1>1. CASE Created
    <2> DEFINE s == post.shown
               n == Len(post.problem_ids)
               all == enrolledIn[post.course]
    <2>0. PICK e : e = [shown |-> post.shown, course |-> post.course, paper |-> post.problem_ids,
                        points |-> IF post.points # <<>> THEN post.points
                                   ELSE evenPoints(Len(post.problem_ids)),
                        roster |-> post.user_ids]
      OBVIOUS
    <2>1. post.sent /\ exams' = exams \cup {e} /\ belongs' = belongs /\ enrolledIn' = enrolledIn
          /\ post.user_ids \subseteq all
      BY <1>1, <2>0 DEF Created, rosterNamesEnrolled
    <2>2. /\ Picks(post.problem_ids, post.course) /\ post.problem_ids # <<>>
          /\ s.paper = post.problem_ids /\ DOMAIN s.marks = DOMAIN s.paper
      BY <2>1 DEF FormInv, SentAsShown
    <2>3. n \in Nat \ {0} /\ DOMAIN s.marks = 1 .. n
      BY <2>2, EmptySeq, LenProperties DEF Picks
    <2>4. e.points = s.marks
      <3>1. CASE s.custom
        <4>1. post.points = s.marks
          BY <2>1, <3>1 DEF FormInv, SentAsShown
        <4>2. 1 \in DOMAIN s.marks
          BY <2>3
        <4>3. s.marks # <<>>
          BY <4>2
        <4> QED
          BY <2>0, <4>1, <4>3
      <3>2. CASE ~s.custom
        <4>1. post.points = <<>> /\ s.marks = evenMarks(n)
          BY <2>1, <2>2, <3>2 DEF FormInv, SentAsShown
        <4> HIDE DEF n
        <4> QED
          BY <2>0, <4>1, <2>3, FormMirrorsServer DEF n
      <3> QED
        BY <3>1, <3>2
    <2>5. ~s.custom => e.points = evenPoints(n)
      <3> SUFFICES ASSUME ~s.custom PROVE e.points = evenPoints(n)
        OBVIOUS
      <3>1. post.points = <<>>
        BY <2>1 DEF FormInv, SentAsShown
      <3> QED
        BY <2>0, <3>1
    <2>6. e.shown = s /\ e.course = post.course /\ e.paper = post.problem_ids /\ e.roster = post.user_ids
      BY <2>0
    <2>7. e.paper = e.shown.paper /\ e.points = e.shown.marks
      BY <2>2, <2>4, <2>6
    <2>8. \A q \in ToSet(e.paper) : belongs[q] = e.course
      BY <2>2, <2>6, InSet
    <2>9. ~e.shown.custom =>
            /\ InAll(e.points) = 100
            /\ \A j, k \in DOMAIN e.points : e.points[j] - e.points[k] \in -1 .. 1
      <3> SUFFICES ASSUME ~s.custom
                   PROVE  /\ InAll(e.points) = 100
                          /\ \A j, k \in DOMAIN e.points : e.points[j] - e.points[k] \in -1 .. 1
        BY <2>6
      <3> HIDE DEF n
      <3>1. e.points = evenPoints(n) /\ DOMAIN evenPoints(n) = 1 .. n
        BY <2>3, <2>5, FormMirrorsServer
      <3>2. InAll(evenPoints(n)) = 100
        BY <2>3, EvenSplitIsWhole
      <3>3. \A j, k \in 1 .. n : evenPoints(n)[j] - evenPoints(n)[k] \in -1 .. 1
        BY <2>3, FormMirrorsServer
      <3>4. InAll(e.points) = 100
        BY <3>1, <3>2
      <3> QED
        BY <3>1, <3>3, <3>4
    <2> DEFINE sit == IF e.roster = {} THEN enrolledIn[e.course] ELSE e.roster
    <2>10. sit \subseteq enrolledIn[e.course]
      BY <2>1, <2>6
    <2>11. e.shown.settled =>
             sit = IF e.shown.whole \/ e.shown.pressed = {} THEN enrolledIn[e.course] ELSE e.shown.pressed
      <3> SUFFICES ASSUME s.settled
                   PROVE  sit = IF s.whole \/ s.pressed = {} THEN all ELSE s.pressed
        BY <2>6
      <3>0. sit = IF post.user_ids = {} THEN all ELSE post.user_ids
        BY <2>6
      <3>1. CASE s.whole
        <4>1. post.user_ids = {}
          BY <2>1, <3>1 DEF FormInv, SentAsShown
        <4> QED
          BY <3>0, <3>1, <4>1
      <3>2. CASE ~s.whole
        <4>1. s.pressed = post.user_ids \cap all
          BY <2>1, <3>2 DEF FormInv, SentAsShown
        <4>2. s.pressed = post.user_ids
          BY <2>1, <4>1
        <4> QED
          BY <3>0, <3>2, <4>2
      <3> QED
        BY <3>1, <3>2
    <2>12. Honest(belongs, enrolledIn, e)
      BY <2>7, <2>8, <2>9, <2>10, <2>11 DEF Honest
    <2>13. \A x \in exams : Honest(belongs, enrolledIn, x)
      BY <1>a DEF FormInv
    <2>14. \A x \in exams' : Honest(belongs', enrolledIn', x)
      BY <2>1, <2>12, <2>13
    <2> QED
      BY <1>b, <2>14
  <1>2. CASE UNCHANGED <<belongs, enrolledIn, exams>>
    BY <1>2, <1>a, <1>b DEF FormInv
  <1> QED
    BY <1>1, <1>2 DEF FormNext, PickCourse, toggleProblem, moveProblem, setMarks, chooseSitters,
       RosterServed, RosterShown, Edits, Others, formVars, handleSubmit, Refused

(* What the form sends is what it shows, and the exam that is created is   *)
(* what was sent: its problems, its marks and the students who sit it.     *)
THEOREM FormIsHonest == FormSpec => [](FormTypeOK /\ ExamIsAsShown)
  <1>1. FormInit => FormInv
    <2> SUFFICES ASSUME FormInit PROVE FormInv
      OBVIOUS
    <2>1. FormShape
      BY EmptyShape DEF FormInit, FormShape
    <2>2. WorldShape /\ SentAsShown /\ ExamIsAsShown
      BY DEF FormInit, WorldShape, SentAsShown, ExamIsAsShown, NoPost
    <2> QED
      BY <2>1, <2>2 DEF FormInv
  <1>2. FormInv /\ [FormNext]_formVars => FormInv'
    <2> SUFFICES ASSUME FormInv, [FormNext]_formVars PROVE FormInv'
      OBVIOUS
    <2> QED
      BY WorldStep, FormShapeStep, FormSentStep, ExamsStep DEF FormInv
  <1>3. FormInv => FormTypeOK /\ ExamIsAsShown
    <2> SUFFICES ASSUME FormInv PROVE FormTypeOK
      BY DEF FormInv
    <2>1. \A q \in ToSet(form.picked) : belongs[q] = form.course
      BY InSet DEF FormInv, FormShape
    <2> QED
      BY <2>1 DEF FormInv, FormShape, WorldShape, FormTypeOK, Picks
  <1> QED
    BY <1>1, <1>2, <1>3, PTL DEF FormSpec

-----------------------------------------------------------------------------
(***************************************************************************)
(* ProblemEditor, for any tabs, fields, numbers of cases and texts typed.  *)
(***************************************************************************)

Ops == {"get", "put", "post", "delete", "problem", "no problem", "saved", "refused", "changed", "unchanged"}

Message(t, n, op, data) == [tab |-> t, instance |-> n, op |-> op, data |-> data]

(* Texts that have been typed, and forms that hold them                    *)
Written(n) == [Fields -> 0 .. n]

Forms(n) ==
  [open : BOOLEAN, instance : Nat, loading : BOOLEAN, loaded : BOOLEAN, saving : BOOLEAN, busy : BOOLEAN,
   editor : Nat, form : Written(n), base : Written(n), sent : Written(n), list : SUBSET (1 .. MaxCases)]

Ways == {"no", "left", "reload", "late", "earlier", "stale"}

(* What a message carries                                                  *)
Carries(op, data, n) ==
  /\ op = "put" => /\ data.row \in Written(n)
                   /\ \A f \in Fields : f \in data.typed \/ data.row[f] = data.base[f]
  /\ op = "post" => data.case \in 1 .. MaxCases
  /\ op = "problem" => data.row \in Written(n) /\ data.cases \subseteq 1 .. MaxCases

Sound(m, n) ==
  /\ \E t \in Tabs, k \in Nat, op \in Ops : \E data : m = Message(t, k, op, data)
  /\ Carries(m.op, m.data, n)

TableInv ==
  /\ row \in Written(texts) /\ cases \subseteq 1 .. MaxCases
  /\ texts \in 1 .. MaxTyped /\ posted \in 2 .. MaxCases
  /\ owed \in [Tabs -> Written(texts)] /\ lost \in [Tabs -> [Fields -> Ways]]
  /\ blind \in BOOLEAN /\ unread \in BOOLEAN

TabsInv == tab \in [Tabs -> Forms(texts)]

WireInv == \A m \in wire : Sound(m, texts) /\ m.instance =< tab[m.tab].instance

ShapeInv == TableInv /\ TabsInv /\ WireInv

LEMMA MessageHas ==
  ASSUME NEW n, NEW m, Sound(m, n)
  PROVE  /\ m.tab \in Tabs /\ m.instance \in Nat /\ m.op \in Ops
         /\ \A op, data : Answer(m, op, data) = Message(m.tab, m.instance, op, data)
  <1>1. PICK t \in Tabs, k \in Nat, op \in Ops : \E data : m = Message(t, k, op, data)
    BY DEF Sound
  <1>2. PICK data : m = Message(t, k, op, data)
    BY <1>1
  <1>3. m.tab = t /\ m.instance = k /\ m.op = op
    BY <1>2 DEF Message
  <1>4. ASSUME NEW o, NEW d PROVE Answer(m, o, d) = Message(t, k, o, d)
    <2>1. Answer(m, o, d) = [[tab |-> t, instance |-> k, op |-> op, data |-> data] EXCEPT !.op = o, !.data = d]
      BY <1>2 DEF Message, Answer
    <2> QED
      BY <2>1 DEF Message
  <1> QED
    BY <1>3, <1>4

LEMMA FieldsOf ==
  ASSUME NEW t, NEW k, NEW op, NEW data, NEW m, m = Message(t, k, op, data)
  PROVE  m.tab = t /\ m.instance = k /\ m.op = op /\ m.data = data
  BY DEF Message

LEMMA MessageSound ==
  ASSUME NEW n, NEW t \in Tabs, NEW k \in Nat, NEW op \in Ops, NEW data, Carries(op, data, n)
  PROVE  Sound(Message(t, k, op, data), n)
  <1> DEFINE m == Message(t, k, op, data)
  <1>1. m.op = op /\ m.data = data
    BY FieldsOf
  <1>2. \E u \in Tabs, j \in Nat, o \in Ops : \E d : m = Message(u, j, o, d)
    OBVIOUS
  <1> HIDE DEF m
  <1>3. Sound(m, n)
    BY <1>1, <1>2 DEF Sound
  <1> QED
    BY <1>3 DEF m

LEMMA MoreWritten ==
  ASSUME NEW n \in Nat
  PROVE  /\ Written(n) \subseteq Written(n + 1) /\ Forms(n) \subseteq Forms(n + 1)
         /\ \A m : Sound(m, n) => Sound(m, n + 1)
  <1>1. 0 .. n \subseteq 0 .. (n + 1)
    OBVIOUS
  <1>2. Written(n) \subseteq Written(n + 1)
    BY <1>1 DEF Written
  <1>3. Forms(n) \subseteq Forms(n + 1)
    BY <1>2 DEF Forms
  <1>4. \A m : Sound(m, n) => Sound(m, n + 1)
    BY <1>2 DEF Sound, Carries
  <1> QED
    BY <1>2, <1>3, <1>4

LEMMA BlankWritten == ASSUME NEW n \in Nat PROVE Blank \in Written(n)
  BY DEF Blank, Written, NoText

LEMMA ClosedTabIs ==
  ASSUME NEW n \in Nat, NEW k \in Nat
  PROVE  ClosedTab(k) \in Forms(n)
  <1>1. Blank \in Written(n) /\ {} \in SUBSET (1 .. MaxCases)
    BY BlankWritten
  <1> QED
    BY <1>1 DEF ClosedTab, Forms

(* What each action does to the form of its tab, said field by field       *)
OneTab(t, y) == tab' = [tab EXCEPT ![t] = y]

LEMMA OneTabIs ==
  ASSUME TabsInv, NEW t \in Tabs, NEW y, OneTab(t, y)
  PROVE  tab'[t] = y /\ DOMAIN tab' = Tabs /\ \A u \in Tabs : u # t => tab'[u] = tab[u]
  BY DEF TabsInv, OneTab

LEMMA FormHas ==
  ASSUME NEW n, NEW x \in Forms(n)
  PROVE  /\ x.open \in BOOLEAN /\ x.instance \in Nat /\ x.loading \in BOOLEAN /\ x.loaded \in BOOLEAN
         /\ x.saving \in BOOLEAN /\ x.busy \in BOOLEAN /\ x.editor \in Nat /\ x.form \in Written(n)
         /\ x.base \in Written(n) /\ x.sent \in Written(n) /\ x.list \subseteq 1 .. MaxCases
  BY DEF Forms

LEMMA OpenFormDoes ==
  ASSUME ShapeInv, NEW t \in Tabs, OpenForm(t)
  PROVE  \E y \in Forms(texts) :
           /\ OneTab(t, y) /\ ~tab[t].open
           /\ y.open /\ y.instance = tab[t].instance + 1 /\ ~y.loaded /\ ~y.saving
           /\ wire' = wire \cup {Message(t, y.instance, "get", 0)}
  <1> DEFINE k == tab[t].instance
             x == ClosedTab(k + 1)
             y == [x EXCEPT !.open = TRUE, !.loading = TRUE]
  <1>1. k \in Nat /\ k + 1 \in Nat /\ texts \in Nat
    BY FormHas DEF ShapeInv, TabsInv, TableInv
  <1>2. x \in Forms(texts)
    BY <1>1, ClosedTabIs
  <1>3. x.instance = k + 1 /\ x.loaded = FALSE /\ x.saving = FALSE
    BY DEF ClosedTab
  <1>4. /\ tab' = [tab EXCEPT ![t] = y] /\ ~tab[t].open
        /\ wire' = wire \cup {Message(t, x.instance, "get", 0)}
    BY DEF OpenForm, Message
  <1> HIDE DEF x, k
  <1>5. /\ y \in Forms(texts) /\ y.open /\ y.instance = x.instance
        /\ y.loaded = x.loaded /\ y.saving = x.saving
    BY <1>2 DEF Forms
  <1> HIDE DEF y
  <1>6. y.instance = tab[t].instance + 1
    BY <1>3, <1>5 DEF k
  <1>7. wire' = wire \cup {Message(t, y.instance, "get", 0)}
    BY <1>4, <1>5
  <1>8. ~y.loaded /\ ~y.saving
    BY <1>3, <1>5
  <1> QED
    BY <1>4, <1>5, <1>6, <1>7, <1>8 DEF OneTab

LEMMA FormCloses ==
  ASSUME ShapeInv, NEW t \in Tabs, tab' = [tab EXCEPT ![t] = ClosedTab(@.instance)]
  PROVE  \E y \in Forms(texts) :
           OneTab(t, y) /\ ~y.open /\ y.instance = tab[t].instance
  <1> DEFINE k == tab[t].instance
             y == ClosedTab(k)
  <1>1. k \in Nat /\ texts \in Nat
    BY FormHas DEF ShapeInv, TabsInv, TableInv
  <1>2. y \in Forms(texts)
    BY <1>1, ClosedTabIs
  <1>3. ~y.open /\ y.instance = k
    BY DEF ClosedTab
  <1>4. OneTab(t, y)
    BY DEF ShapeInv, TabsInv, OneTab
  <1> HIDE DEF y
  <1> QED
    BY <1>2, <1>3, <1>4

LEMMA TypeTextDoes ==
  ASSUME ShapeInv, NEW t \in Tabs, NEW f \in Fields, TypeText(t, f)
  PROVE  /\ texts' = texts + 1 /\ texts' \in Nat
         /\ \E y \in Forms(texts') :
              /\ OneTab(t, y)
              /\ y.form = [tab[t].form EXCEPT ![f] = texts']
              /\ y.open = tab[t].open /\ y.instance = tab[t].instance /\ y.base = tab[t].base
              /\ y.loaded = tab[t].loaded /\ y.saving = tab[t].saving /\ y.sent = tab[t].sent
  <1> DEFINE x == tab[t]
             g == [x.form EXCEPT ![f] = texts']
             y == [x EXCEPT !.form = g]
  <1>1. texts \in Nat /\ texts' = texts + 1 /\ texts' \in Nat
    BY DEF TypeText, ShapeInv, TableInv
  <1>2. x \in Forms(texts) /\ x \in Forms(texts')
    BY <1>1, MoreWritten DEF ShapeInv, TabsInv
  <1>3. x.form \in Written(texts')
    BY <1>2, FormHas
  <1>4. g \in Written(texts')
    BY <1>1, <1>3 DEF Written
  <1>5. tab' = [tab EXCEPT ![t] = y]
    BY DEF TypeText
  <1> HIDE DEF x, g
  <1>6. /\ y \in Forms(texts') /\ y.form = g
        /\ y.open = x.open /\ y.instance = x.instance /\ y.base = x.base
        /\ y.loaded = x.loaded /\ y.saving = x.saving /\ y.sent = x.sent
    BY <1>2, <1>4 DEF Forms
  <1> HIDE DEF y
  <1>7. OneTab(t, y)
    BY <1>5 DEF OneTab
  <1> QED
    BY <1>1, <1>6, <1>7 DEF x, g

(* The form of a tab is as it was but for what no invariant is about       *)
AsBefore(x, y) ==
  /\ y.open = x.open /\ y.instance = x.instance /\ y.loaded = x.loaded
  /\ y.form = x.form /\ y.base = x.base

LEMMA SaveFormDoes ==
  ASSUME ShapeInv, NEW t \in Tabs, SaveForm(t)
  PROVE  \E y, data :
           /\ y \in Forms(texts)
           /\ OneTab(t, y) /\ AsBefore(tab[t], y)
           /\ y.open /\ y.saving /\ y.sent = tab[t].form
           /\ wire' = wire \cup {Message(t, y.instance, "put", data)}
           /\ data.row = y.sent /\ Carries("put", data, texts)
  <1> DEFINE x == tab[t]
             y == [x EXCEPT !.saving = TRUE, !.sent = x.form]
  <1>1. x \in Forms(texts)
    BY DEF ShapeInv, TabsInv
  <1>2. x.open /\ x.form \in Written(texts)
    BY <1>1, FormHas DEF SaveForm, Shown
  <1>3. PICK data : data = [row |-> x.form, base |-> x.base, typed |-> Typed(t)]
    OBVIOUS
  <1>4. tab' = [tab EXCEPT ![t] = y] /\ wire' = wire \cup {Message(t, x.instance, "put", data)}
    BY <1>3 DEF SaveForm, Payload, WholeForm, Ask, Message
  <1>5. data.row = x.form /\ \A f \in Fields : f \in data.typed \/ data.row[f] = data.base[f]
    BY <1>3 DEF Typed
  <1> HIDE DEF x
  <1>6. y \in Forms(texts) /\ AsBefore(x, y) /\ y.saving /\ y.sent = x.form
    BY <1>1, <1>2 DEF Forms, AsBefore
  <1> HIDE DEF y
  <1>7. data.row = y.sent /\ Carries("put", data, texts)
    BY <1>2, <1>5, <1>6 DEF Carries
  <1>8. wire' = wire \cup {Message(t, y.instance, "put", data)}
    BY <1>4, <1>6 DEF AsBefore
  <1>9. y.open
    BY <1>2, <1>6 DEF AsBefore
  <1>10. OneTab(t, y)
    BY <1>4 DEF OneTab
  <1> QED
    BY <1>6, <1>7, <1>8, <1>9, <1>10 DEF x

LEMMA CaseClickDoes ==
  ASSUME ShapeInv, NEW t \in Tabs, tab' = [tab EXCEPT ![t].busy = TRUE]
  PROVE  \E y \in Forms(texts) :
           OneTab(t, y) /\ AsBefore(tab[t], y) /\ y.saving = tab[t].saving /\ y.sent = tab[t].sent
  <1> DEFINE x == tab[t]
             y == [x EXCEPT !.busy = TRUE]
  <1>1. x \in Forms(texts)
    BY DEF ShapeInv, TabsInv
  <1>2. OneTab(t, y)
    BY DEF OneTab
  <1> HIDE DEF x
  <1>3. y \in Forms(texts) /\ AsBefore(x, y) /\ y.saving = x.saving /\ y.sent = x.sent
    BY <1>1 DEF Forms, AsBefore
  <1> HIDE DEF y
  <1> QED
    BY <1>2, <1>3 DEF x

LEMMA SwitchLanguageDoes ==
  ASSUME ShapeInv, NEW t \in Tabs, SwitchLanguage(t)
  PROVE  /\ wire' = wire \cup {Message(t, tab[t].instance, "get", 0)}
         /\ \E y \in Forms(texts) :
              OneTab(t, y) /\ AsBefore(tab[t], y) /\ y.saving = tab[t].saving /\ y.sent = tab[t].sent
  <1> DEFINE x == tab[t]
             y == [x EXCEPT !.loading = TRUE, !.busy = FALSE, !.editor = @ + 1]
  <1>1. x \in Forms(texts) /\ x.editor + 1 \in Nat
    BY FormHas DEF ShapeInv, TabsInv
  <1>2. OneTab(t, y)
    BY DEF SwitchLanguage, OneTab
  <1> HIDE DEF x
  <1>3. y \in Forms(texts) /\ AsBefore(x, y) /\ y.saving = x.saving /\ y.sent = x.sent
    BY <1>1 DEF Forms, AsBefore
  <1> HIDE DEF y
  <1>4. wire' = wire \cup {Message(t, tab[t].instance, "get", 0)}
    BY DEF SwitchLanguage, Ask, Message
  <1> QED
    BY <1>2, <1>3, <1>4 DEF x

LEMMA ProblemArrivesDoes ==
  ASSUME ShapeInv, NEW m \in wire, ProblemArrives(m)
  PROVE  /\ m.tab \in Tabs /\ m.op = "problem" /\ m.data.row \in Written(texts)
         /\ \E y \in Forms(texts) :
              /\ OneTab(m.tab, y)
              /\ y.open /\ y.instance = tab[m.tab].instance /\ y.loaded
              /\ y.saving = tab[m.tab].saving /\ y.form = m.data.row /\ y.sent = tab[m.tab].sent
  <1>0. m.tab \in Tabs /\ m.op = "problem" /\ m.data.row \in Written(texts)
        /\ m.data.cases \subseteq 1 .. MaxCases
    BY MessageHas DEF ShapeInv, WireInv, ProblemArrives, Sound, Carries
  <1> DEFINE x == tab[m.tab]
             y == [x EXCEPT !.form = m.data.row, !.base = m.data.row, !.list = m.data.cases,
                            !.loading = FALSE, !.loaded = TRUE]
  <1>1. x \in Forms(texts)
    BY <1>0 DEF ShapeInv, TabsInv
  <1>2. OneTab(m.tab, y) /\ x.open
    BY DEF ProblemArrives, OneTab, Own
  <1> HIDE DEF x
  <1>3. /\ y \in Forms(texts) /\ y.open = x.open /\ y.instance = x.instance /\ y.loaded
        /\ y.saving = x.saving /\ y.form = m.data.row /\ y.sent = x.sent
    BY <1>0, <1>1 DEF Forms
  <1> HIDE DEF y
  <1>4. y.open
    BY <1>2, <1>3
  <1> QED
    BY <1>0, <1>2, <1>3, <1>4 DEF x

LEMMA LoadFailsDoes ==
  ASSUME ShapeInv, NEW m \in wire, LoadFails(m)
  PROVE  /\ m.tab \in Tabs
         /\ \E y \in Forms(texts) : /\ OneTab(m.tab, y) /\ AsBefore(tab[m.tab], y)
                                  /\ y.saving = tab[m.tab].saving /\ y.sent = tab[m.tab].sent
  <1>0. m.tab \in Tabs
    BY MessageHas DEF ShapeInv, WireInv
  <1> DEFINE x == tab[m.tab]
             y == [x EXCEPT !.loading = FALSE]
  <1>1. x \in Forms(texts)
    BY <1>0 DEF ShapeInv, TabsInv
  <1>2. OneTab(m.tab, y)
    BY DEF LoadFails, OneTab
  <1> HIDE DEF x
  <1>3. y \in Forms(texts) /\ AsBefore(x, y) /\ y.saving = x.saving /\ y.sent = x.sent
    BY <1>1 DEF Forms, AsBefore
  <1> HIDE DEF y
  <1> QED
    BY <1>0, <1>2, <1>3 DEF x

LEMMA SaveEndsDoes ==
  ASSUME ShapeInv, NEW m \in wire, SaveEnds(m)
  PROVE  /\ m.tab \in Tabs
         /\ \/ UNCHANGED tab /\ ~tab[m.tab].open
            \/ \E y \in Forms(texts) : OneTab(m.tab, y) /\ ~y.open /\ y.instance = tab[m.tab].instance
  <1>0. m.tab \in Tabs
    BY MessageHas DEF ShapeInv, WireInv
  <1>1. CASE tab[m.tab].open
    <2>1. tab' = [tab EXCEPT ![m.tab] = ClosedTab(@.instance)]
      BY <1>1, <1>0 DEF SaveEnds, ShapeInv, TabsInv
    <2> QED
      BY <1>0, <2>1, FormCloses
  <1>2. CASE ~tab[m.tab].open
    <2>1. tab' = [tab EXCEPT ![m.tab] = tab[m.tab]]
      BY <1>2 DEF SaveEnds
    <2>2. tab' = tab
      BY <1>0, <2>1 DEF ShapeInv, TabsInv
    <2> QED
      BY <1>0, <1>2, <2>2
  <1> QED
    BY <1>1, <1>2

LEMMA SaveRefusedDoes ==
  ASSUME ShapeInv, NEW m \in wire, SaveRefused(m)
  PROVE  /\ m.tab \in Tabs
         /\ \E y \in Forms(texts) :
              OneTab(m.tab, y) /\ AsBefore(tab[m.tab], y) /\ ~y.saving /\ y.sent = tab[m.tab].sent
  <1>0. m.tab \in Tabs
    BY MessageHas DEF ShapeInv, WireInv
  <1> DEFINE x == tab[m.tab]
             y == [x EXCEPT !.saving = FALSE]
  <1>1. x \in Forms(texts)
    BY <1>0 DEF ShapeInv, TabsInv
  <1>2. OneTab(m.tab, y)
    BY DEF SaveRefused, AfterRefusal, StaysOpen, OneTab
  <1> HIDE DEF x
  <1>3. y \in Forms(texts) /\ AsBefore(x, y) /\ ~y.saving /\ y.sent = x.sent
    BY <1>1 DEF Forms, AsBefore
  <1> HIDE DEF y
  <1> QED
    BY <1>0, <1>2, <1>3 DEF x

LEMMA CaseEndsDoes ==
  ASSUME ShapeInv, NEW m \in wire, CaseEnds(m)
  PROVE  /\ m.tab \in Tabs
         /\ \E y \in Forms(texts) : /\ OneTab(m.tab, y) /\ AsBefore(tab[m.tab], y)
                                  /\ y.saving = tab[m.tab].saving /\ y.sent = tab[m.tab].sent
         /\ \/ wire' = wire \ {m}
            \/ wire' = (wire \ {m}) \cup {Message(m.tab, tab[m.tab].instance, "get", 0)}
  <1>0. m.tab \in Tabs
    BY MessageHas DEF ShapeInv, WireInv
  <1> DEFINE x == tab[m.tab]
             b == (x.busy /\ m.data # x.editor)
             y == [x EXCEPT !.busy = b]
  <1>1. x \in Forms(texts) /\ b \in BOOLEAN
    BY <1>0, FormHas DEF ShapeInv, TabsInv
  <1>2. OneTab(m.tab, y)
    BY DEF CaseEnds, OneTab
  <1> HIDE DEF x, b
  <1>3. y \in Forms(texts) /\ AsBefore(x, y) /\ y.saving = x.saving /\ y.sent = x.sent
    BY <1>1 DEF Forms, AsBefore
  <1> HIDE DEF y
  <1>4. \/ wire' = wire \ {m}
        \/ wire' = (wire \ {m}) \cup {Message(m.tab, tab[m.tab].instance, "get", 0)}
    BY DEF CaseEnds, Ask, Message
  <1> QED
    BY <1>0, <1>2, <1>3, <1>4 DEF x

LEMMA TableStep == ASSUME ShapeInv, [EditorNext]_editorVars PROVE TableInv'
  <1> USE DEF ShapeInv, TableInv
  <1>0. texts \in Nat /\ Blank \in Written(texts)
    BY BlankWritten
  <1>a. ASSUME NEW t, NEW F, NEW way \in Ways, Lose(t, F, way) PROVE lost' \in [Tabs -> [Fields -> Ways]]
    BY <1>a DEF Lose
  <1>1. ASSUME NEW t \in Tabs, OpenForm(t) \/ LeaveForm(t) \/ CancelForm(t) \/ SwitchLanguage(t)
        PROVE  TableInv'
    <2>1. CASE OpenForm(t) \/ SwitchLanguage(t)
      BY <2>1 DEF OpenForm, SwitchLanguage
    <2>2. CASE LeaveForm(t)
      <3>1. lost' \in [Tabs -> [Fields -> Ways]]
        BY <2>2, <1>a DEF LeaveForm, Ways
      <3> QED
        BY <2>2, <3>1 DEF LeaveForm
    <2>3. CASE CancelForm(t)
      <3>1. owed' \in [Tabs -> Written(texts)]
        BY <2>3, <1>0 DEF CancelForm, Written, NoText
      <3> QED
        BY <2>3, <3>1 DEF CancelForm
    <2> QED
      BY <1>1, <2>1, <2>2, <2>3
  <1>2. ASSUME NEW t \in Tabs, NEW f \in Fields, TypeText(t, f) PROVE TableInv'
    <2>1. texts' = texts + 1 /\ texts < MaxTyped
      BY <1>2 DEF TypeText
    <2>2. texts' \in 1 .. MaxTyped
      BY <2>1, EditorAssumption
    <2>3. Written(texts) \subseteq Written(texts')
      BY <2>1, <1>0, MoreWritten
    <2>4. owed \in [Tabs -> Written(texts')] /\ row \in Written(texts')
      BY <2>3
    <2> DEFINE g == [owed[t] EXCEPT ![f] = texts']
    <2>5. g \in Written(texts')
      BY <2>2, <2>4 DEF Written
    <2>6. owed' = [owed EXCEPT ![t] = g]
      BY <1>2 DEF TypeText
    <2> HIDE DEF g
    <2>7. owed' \in [Tabs -> Written(texts')]
      BY <2>4, <2>5, <2>6
    <2>8. lost' \in [Tabs -> [Fields -> Ways]]
      BY <1>2 DEF TypeText, Ways
    <2> QED
      BY <1>2, <2>2, <2>4, <2>7, <2>8 DEF TypeText
  <1>3. ASSUME NEW t \in Tabs, SaveForm(t) PROVE TableInv'
    BY <1>3 DEF SaveForm
  <1>4. ASSUME NEW t \in Tabs, AddCase(t) PROVE TableInv'
    <2>1. posted' \in 2 .. MaxCases
      <3>1. posted < MaxCases /\ posted' = posted + 1
        BY <1>4 DEF AddCase
      <3> QED
        BY <3>1, EditorAssumption
    <2> QED
      BY <1>4, <2>1 DEF AddCase
  <1>5. ASSUME NEW t \in Tabs, NEW c \in 1 .. MaxCases, RemoveCase(t, c) PROVE TableInv'
    <2>1. blind' \in BOOLEAN
      BY <1>5 DEF RemoveCase
    <2> QED
      BY <1>5, <2>1 DEF RemoveCase
  <1>6. ASSUME NEW m \in wire, ServeSave(m) PROVE TableInv'
    <2>1. CASE UNCHANGED <<row, owed, lost>>
      BY <1>6, <2>1 DEF ServeSave
    <2>2. CASE ~UNCHANGED <<row, owed, lost>>
      <3>1. row' = m.data.row /\ m.data.row \in Written(texts)
        BY <1>6, <2>2, MessageHas DEF WireInv, ServeSave, Sound, Carries
      <3>2. owed' \in [Tabs -> Written(texts)]
        BY <1>0, <1>6, <2>2 DEF ServeSave, Written, NoText
      <3>3. lost' \in [Tabs -> [Fields -> Ways]]
        BY <1>6, <2>2 DEF ServeSave, Ways
      <3> QED
        BY <1>6, <3>1, <3>2, <3>3 DEF ServeSave
    <2> QED
      BY <2>1, <2>2
  <1>7. ASSUME NEW m \in wire, ServeCase(m) PROVE TableInv'
    <2>1. m.op = "post" => m.data.case \in 1 .. MaxCases
      BY DEF WireInv, Sound, Carries
    <2>2. cases' \subseteq 1 .. MaxCases
      <3>1. \/ cases' = IF m.op = "post" THEN cases \cup {m.data.case} ELSE cases \ {m.data.case}
            \/ cases' = cases
        BY <1>7 DEF ServeCase
      <3> QED
        BY <2>1, <3>1
    <2> QED
      BY <1>7, <2>2 DEF ServeCase
  <1>8. ASSUME NEW m \in wire, ServeGet(m) \/ ProblemArrives(m) \/ LoadFails(m) \/ SaveEnds(m)
                               \/ SaveRefused(m) \/ CaseEnds(m) \/ Unheard(m)
        PROVE  TableInv'
    <2>1. CASE ProblemArrives(m) \/ SaveEnds(m)
      <3>1. lost' \in [Tabs -> [Fields -> Ways]]
        BY <2>1, <1>a DEF ProblemArrives, SaveEnds, Ways
      <3> QED
        BY <2>1, <3>1 DEF ProblemArrives, SaveEnds
    <2> QED
      BY <1>8, <2>1 DEF ServeGet, LoadFails, SaveRefused, CaseEnds, Unheard
  <1>9. CASE UNCHANGED editorVars
    BY <1>9 DEF editorVars
  <1> QED
    BY <1>1, <1>2, <1>3, <1>4, <1>5, <1>6, <1>7, <1>8, <1>9 DEF EditorNext

LEMMA TabsStep == ASSUME ShapeInv, [EditorNext]_editorVars PROVE TabsInv'
  <1>a. ASSUME NEW t \in Tabs, NEW y \in Forms(texts), OneTab(t, y), texts' = texts PROVE TabsInv'
    BY <1>a DEF ShapeInv, TabsInv, OneTab
  <1>1. ASSUME NEW t \in Tabs,
               OpenForm(t) \/ LeaveForm(t) \/ CancelForm(t) \/ SwitchLanguage(t) \/ SaveForm(t)
        PROVE  TabsInv'
    <2>1. CASE LeaveForm(t) \/ CancelForm(t)
      BY <2>1, <1>a, FormCloses DEF LeaveForm, CancelForm
    <2>2. CASE OpenForm(t) \/ SwitchLanguage(t) \/ SaveForm(t)
      <3>1. \E y \in Forms(texts) : OneTab(t, y)
        BY <2>2, OpenFormDoes, SwitchLanguageDoes, SaveFormDoes
      <3> QED
        BY <2>2, <3>1, <1>a DEF OpenForm, SwitchLanguage, SaveForm
    <2> QED
      BY <1>1, <2>1, <2>2
  <1>2. ASSUME NEW t \in Tabs, NEW f \in Fields, TypeText(t, f) PROVE TabsInv'
    <2>1. PICK y \in Forms(texts') : OneTab(t, y)
      BY <1>2, TypeTextDoes
    <2>2. texts \in Nat /\ texts' = texts + 1
      BY <1>2 DEF TypeText, ShapeInv, TableInv
    <2>3. tab \in [Tabs -> Forms(texts')]
      BY <2>2, MoreWritten DEF ShapeInv, TabsInv
    <2> QED
      BY <2>1, <2>3 DEF TabsInv, OneTab
  <1>3. ASSUME NEW t \in Tabs, AddCase(t) PROVE TabsInv'
    <2>1. \E y \in Forms(texts) : OneTab(t, y)
      BY <1>3, CaseClickDoes DEF AddCase
    <2> QED
      BY <1>3, <2>1, <1>a DEF AddCase
  <1>4. ASSUME NEW t \in Tabs, NEW c \in 1 .. MaxCases, RemoveCase(t, c) PROVE TabsInv'
    <2>1. \E y \in Forms(texts) : OneTab(t, y)
      BY <1>4, CaseClickDoes DEF RemoveCase
    <2> QED
      BY <1>4, <2>1, <1>a DEF RemoveCase
  <1>5. ASSUME NEW m \in wire, ProblemArrives(m) \/ LoadFails(m) \/ SaveEnds(m) \/ SaveRefused(m) \/ CaseEnds(m)
        PROVE  TabsInv'
    <2>1. m.tab \in Tabs /\ (UNCHANGED tab \/ \E y \in Forms(texts) : OneTab(m.tab, y))
      BY <1>5, ProblemArrivesDoes, LoadFailsDoes, SaveEndsDoes, SaveRefusedDoes, CaseEndsDoes
    <2>2. texts' = texts
      BY <1>5 DEF ProblemArrives, LoadFails, SaveEnds, SaveRefused, CaseEnds
    <2> QED
      BY <2>1, <2>2, <1>a DEF ShapeInv, TabsInv
  <1>6. ASSUME UNCHANGED <<tab, texts>> PROVE TabsInv'
    BY <1>6 DEF ShapeInv, TabsInv
  <1> QED
    BY <1>1, <1>2, <1>3, <1>4, <1>5, <1>6
       DEF EditorNext, ServeSave, ServeCase, ServeGet, Unheard, editorVars

LEMMA InstancesGrow ==
  ASSUME ShapeInv, [EditorNext]_editorVars, NEW t \in Tabs
  PROVE  tab[t].instance \in Nat /\ tab'[t].instance \in Nat /\ tab[t].instance =< tab'[t].instance
  <1>0. tab[t].instance \in Nat
    BY FormHas DEF ShapeInv, TabsInv
  <1>a. ASSUME NEW u \in Tabs, NEW y, OneTab(u, y),
               y.instance = tab[u].instance \/ y.instance = tab[u].instance + 1
        PROVE  tab'[t].instance = tab[t].instance \/ tab'[t].instance = tab[t].instance + 1
    BY <1>a, OneTabIs DEF ShapeInv
  <1>1. ASSUME NEW u \in Tabs,
               \/ OpenForm(u) \/ LeaveForm(u) \/ CancelForm(u)
               \/ SwitchLanguage(u) \/ SaveForm(u) \/ AddCase(u)
        PROVE  tab'[t].instance = tab[t].instance \/ tab'[t].instance = tab[t].instance + 1
    <2>1. CASE OpenForm(u)
      BY <2>1, <1>a, OpenFormDoes
    <2>2. CASE LeaveForm(u) \/ CancelForm(u)
      BY <2>2, <1>a, FormCloses DEF LeaveForm, CancelForm
    <2>3. CASE SaveForm(u)
      BY <2>3, <1>a, SaveFormDoes DEF AsBefore
    <2>4. CASE AddCase(u)
      BY <2>4, <1>a, CaseClickDoes DEF AddCase, AsBefore
    <2>5. CASE SwitchLanguage(u)
      BY <2>5, <1>a, SwitchLanguageDoes DEF AsBefore
    <2> QED
      BY <1>1, <2>1, <2>2, <2>3, <2>4, <2>5
  <1>2. ASSUME NEW u \in Tabs, NEW f \in Fields, TypeText(u, f)
        PROVE  tab'[t].instance = tab[t].instance \/ tab'[t].instance = tab[t].instance + 1
    BY <1>2, <1>a, TypeTextDoes
  <1>3. ASSUME NEW u \in Tabs, NEW c \in 1 .. MaxCases, RemoveCase(u, c)
        PROVE  tab'[t].instance = tab[t].instance \/ tab'[t].instance = tab[t].instance + 1
    BY <1>3, <1>a, CaseClickDoes DEF RemoveCase, AsBefore
  <1>4. ASSUME NEW m \in wire,
               ProblemArrives(m) \/ LoadFails(m) \/ SaveEnds(m) \/ SaveRefused(m) \/ CaseEnds(m)
        PROVE  tab'[t].instance = tab[t].instance \/ tab'[t].instance = tab[t].instance + 1
    <2>1. CASE ProblemArrives(m)
      BY <2>1, <1>a, ProblemArrivesDoes
    <2>2. CASE LoadFails(m)
      BY <2>2, <1>a, LoadFailsDoes DEF AsBefore
    <2>3. CASE SaveEnds(m)
      BY <2>3, <1>a, SaveEndsDoes
    <2>4. CASE SaveRefused(m)
      BY <2>4, <1>a, SaveRefusedDoes DEF AsBefore
    <2>5. CASE CaseEnds(m)
      BY <2>5, <1>a, CaseEndsDoes DEF AsBefore
    <2> QED
      BY <1>4, <2>1, <2>2, <2>3, <2>4, <2>5
  <1>5. ASSUME UNCHANGED tab
        PROVE  tab'[t].instance = tab[t].instance \/ tab'[t].instance = tab[t].instance + 1
    BY <1>5
  <1>6. tab'[t].instance = tab[t].instance \/ tab'[t].instance = tab[t].instance + 1
    BY <1>1, <1>2, <1>3, <1>4, <1>5 DEF EditorNext, ServeSave, ServeCase, ServeGet, Unheard, editorVars
  <1> DEFINE a == tab[t].instance
             b == tab'[t].instance
  <1>7. a \in Nat /\ (b = a \/ b = a + 1)
    BY <1>0, <1>6
  <1> HIDE DEF a, b
  <1>8. a \in Nat /\ b \in Nat /\ a =< b
    BY <1>7
  <1> QED
    BY <1>8 DEF a, b

(* What is under way after a step: nothing new, or one message more.       *)
LEMMA WireKept ==
  ASSUME ShapeInv, [EditorNext]_editorVars, wire' \subseteq wire, texts' = texts \/ texts' = texts + 1
  PROVE  WireInv'
  <1> SUFFICES ASSUME NEW m \in wire PROVE Sound(m, texts') /\ m.instance =< tab'[m.tab].instance
    BY DEF WireInv
  <1>1. Sound(m, texts) /\ m.instance =< tab[m.tab].instance /\ texts \in Nat
    BY DEF ShapeInv, WireInv, TableInv
  <1>2. m.tab \in Tabs /\ m.instance \in Nat
    BY <1>1, MessageHas
  <1>3. Sound(m, texts')
    BY <1>1, MoreWritten
  <1>4. tab[m.tab].instance \in Nat /\ tab'[m.tab].instance \in Nat
        /\ tab[m.tab].instance =< tab'[m.tab].instance
    BY <1>2, InstancesGrow
  <1> DEFINE a == tab[m.tab].instance
             b == tab'[m.tab].instance
             k == m.instance
  <1>5. k =< a /\ a =< b /\ k \in Nat /\ a \in Nat /\ b \in Nat
    BY <1>1, <1>2, <1>4
  <1> HIDE DEF a, b, k
  <1>6. k =< b
    BY <1>5
  <1> QED
    BY <1>3, <1>6 DEF b, k

LEMMA WireGains ==
  ASSUME ShapeInv, [EditorNext]_editorVars, texts' = texts,
         NEW t \in Tabs, NEW k \in Nat, NEW op \in Ops, NEW data,
         Carries(op, data, texts), k =< tab'[t].instance,
         wire' \subseteq wire \cup {Message(t, k, op, data)}
  PROVE  WireInv'
  <1> DEFINE n == Message(t, k, op, data)
  <1>1. Sound(n, texts') /\ n.tab = t /\ n.instance = k
    BY MessageSound, FieldsOf
  <1> HIDE DEF n
  <1>2. Sound(n, texts') /\ n.instance =< tab'[n.tab].instance
    BY <1>1
  <1>3. ASSUME NEW m \in wire PROVE Sound(m, texts') /\ m.instance =< tab'[m.tab].instance
    <2>1. Sound(m, texts) /\ m.instance =< tab[m.tab].instance
      BY DEF ShapeInv, WireInv
    <2>2. m.tab \in Tabs /\ m.instance \in Nat
      BY <2>1, MessageHas
    <2>4. tab[m.tab].instance \in Nat /\ tab'[m.tab].instance \in Nat
          /\ tab[m.tab].instance =< tab'[m.tab].instance
      BY <2>2, InstancesGrow
    <2> DEFINE a == tab[m.tab].instance
               b == tab'[m.tab].instance
               i == m.instance
    <2>5. i =< a /\ a =< b /\ i \in Nat /\ a \in Nat /\ b \in Nat
      BY <2>1, <2>2, <2>4
    <2> HIDE DEF a, b, i
    <2>6. i =< b
      BY <2>5
    <2> QED
      BY <2>1, <2>6 DEF b, i
  <1>4. wire' \subseteq wire \cup {n}
    BY DEF n
  <1> QED
    BY <1>2, <1>3, <1>4 DEF WireInv

LEMMA TabReplies ==
  ASSUME ShapeInv, [EditorNext]_editorVars, texts' = texts, NEW m \in wire, NEW op \in Ops, NEW data,
         Carries(op, data, texts), wire' = (wire \ {m}) \cup {Answer(m, op, data)}
  PROVE  WireInv'
  <1>1. /\ m.tab \in Tabs /\ m.instance \in Nat
        /\ Answer(m, op, data) = Message(m.tab, m.instance, op, data)
    BY MessageHas DEF ShapeInv, WireInv
  <1>2. m.instance =< tab[m.tab].instance
    BY DEF ShapeInv, WireInv
  <1>3. tab[m.tab].instance \in Nat /\ tab'[m.tab].instance \in Nat
        /\ tab[m.tab].instance =< tab'[m.tab].instance
    BY <1>1, InstancesGrow
  <1> DEFINE a == tab[m.tab].instance
             b == tab'[m.tab].instance
             i == m.instance
  <1>5. i =< a /\ a =< b /\ i \in Nat /\ a \in Nat /\ b \in Nat
    BY <1>1, <1>2, <1>3
  <1> HIDE DEF a, b, i
  <1>6. i =< b
    BY <1>5
  <1>7. m.instance =< tab'[m.tab].instance
    BY <1>6 DEF b, i
  <1>8. wire' \subseteq wire \cup {Message(m.tab, m.instance, op, data)}
    BY <1>1
  <1> QED
    BY <1>1, <1>7, <1>8, WireGains

LEMMA WireStep == ASSUME ShapeInv, [EditorNext]_editorVars PROVE WireInv'
  <1> USE DEF Ops
  <1>1. ASSUME NEW t \in Tabs, OpenForm(t) PROVE WireInv'
    <2>1. PICK y \in Forms(texts) : OneTab(t, y) /\ wire' = wire \cup {Message(t, y.instance, "get", 0)}
      BY <1>1, OpenFormDoes
    <2>2. y.instance \in Nat /\ tab'[t] = y
      BY <2>1, FormHas, OneTabIs DEF ShapeInv
    <2>3. PICK k \in Nat : k = y.instance
      BY <2>2
    <2>4. k = tab'[t].instance
      BY <2>2, <2>3
    <2>5. k =< tab'[t].instance
      <3>1. k =< k
        BY <2>3
      <3> QED
        BY <2>4, <3>1
    <2>7. texts' = texts
      BY <1>1 DEF OpenForm
    <2>6. Carries("get", 0, texts) /\ wire' \subseteq wire \cup {Message(t, k, "get", 0)}
      BY <2>1, <2>3 DEF Carries
    <2> QED
      BY <2>5, <2>6, <2>7, WireGains
  <1>2. ASSUME NEW t \in Tabs, SaveForm(t) PROVE WireInv'
    <2>1. PICK y, data :
            /\ y \in Forms(texts)
            /\ OneTab(t, y) /\ Carries("put", data, texts)
            /\ wire' = wire \cup {Message(t, y.instance, "put", data)}
      BY <1>2, SaveFormDoes
    <2>2. y.instance \in Nat /\ tab'[t] = y
      BY <2>1, FormHas, OneTabIs DEF ShapeInv
    <2>3. PICK k \in Nat : k = y.instance
      BY <2>2
    <2>4. k = tab'[t].instance
      BY <2>2, <2>3
    <2>5. k =< tab'[t].instance
      <3>1. k =< k
        BY <2>3
      <3> QED
        BY <2>4, <3>1
    <2>7. texts' = texts
      BY <1>2 DEF SaveForm
    <2>6. wire' \subseteq wire \cup {Message(t, k, "put", data)}
      BY <2>1, <2>3
    <2> QED
      BY <2>1, <2>5, <2>6, <2>7, WireGains
  <1>3. ASSUME NEW t \in Tabs, NEW op \in Ops, NEW data, Carries(op, data, texts), texts' = texts,
               wire' = wire \cup {Ask(t, op, data)}
        PROVE  WireInv'
    <2> DEFINE k == tab[t].instance
    <2>1. k \in Nat /\ k =< tab'[t].instance
      BY InstancesGrow
    <2>2. wire' = wire \cup {Message(t, k, op, data)}
      BY <1>3 DEF Ask, Message
    <2> HIDE DEF k
    <2> QED
      BY <2>1, <2>2, <1>3, WireGains
  <1>4. ASSUME NEW t \in Tabs, AddCase(t) PROVE WireInv'
    <2>1. posted' \in 1 .. MaxCases
      <3>1. TableInv'
        BY TableStep
      <3> QED
        BY <3>1, EditorAssumption DEF TableInv
    <2>2. PICK p : p = [case |-> posted', editor |-> tab[t].editor]
      OBVIOUS
    <2>3. Carries("post", p, texts)
      BY <2>1, <2>2 DEF Carries
    <2>4. texts' = texts /\ wire' = wire \cup {Ask(t, "post", p)}
      BY <1>4, <2>2 DEF AddCase
    <2> QED
      BY <2>3, <2>4, <1>3
  <1>5. ASSUME NEW t \in Tabs, NEW c \in 1 .. MaxCases, RemoveCase(t, c) PROVE WireInv'
    <2>1. PICK p : p = [case |-> c, editor |-> tab[t].editor]
      OBVIOUS
    <2>2. texts' = texts /\ wire' = wire \cup {Ask(t, "delete", p)} /\ Carries("delete", p, texts)
      BY <1>5, <2>1 DEF RemoveCase, Carries
    <2> QED
      BY <2>2, <1>3
  <1>6. ASSUME NEW m \in wire, ServeSave(m) \/ ServeCase(m) PROVE WireInv'
    <2>1. PICK op, data :
            /\ op \in {"saved", "refused", "changed", "unchanged"}
            /\ wire' = (wire \ {m}) \cup {Answer(m, op, data)}
      BY <1>6 DEF ServeSave, ServeCase
    <2>2. Carries(op, data, texts) /\ texts' = texts /\ op \in Ops
      BY <1>6, <2>1 DEF ServeSave, ServeCase, Carries
    <2> QED
      BY <2>1, <2>2, TabReplies
  <1>7. ASSUME NEW m \in wire, ServeGet(m) PROVE WireInv'
    <2>1. CASE wire' = (wire \ {m}) \cup {Answer(m, "problem", [row |-> row, cases |-> cases])}
      <3>1. Carries("problem", [row |-> row, cases |-> cases], texts) /\ texts' = texts
        BY <1>7 DEF ServeGet, Carries, ShapeInv, TableInv
      <3>2. PICK data : data = [row |-> row, cases |-> cases]
        OBVIOUS
      <3> QED
        BY <2>1, <3>1, <3>2, TabReplies
    <2>2. CASE wire' = (wire \ {m}) \cup {Answer(m, "no problem", 0)}
      <3>1. Carries("no problem", 0, texts) /\ texts' = texts
        BY <1>7 DEF ServeGet, Carries
      <3> QED
        BY <2>2, <3>1, TabReplies
    <2> QED
      BY <1>7, <2>1, <2>2 DEF ServeGet
  <1>8. ASSUME NEW m \in wire, CaseEnds(m) PROVE WireInv'
    <2>1. texts' = texts /\ m.tab \in Tabs
      BY <1>8, CaseEndsDoes DEF CaseEnds
    <2>2. CASE wire' = wire \ {m}
      BY <2>1, <2>2, WireKept
    <2>3. CASE wire' = (wire \ {m}) \cup {Message(m.tab, tab[m.tab].instance, "get", 0)}
      <3>1. PICK k : k = tab[m.tab].instance
        OBVIOUS
      <3>2. k \in Nat /\ k =< tab'[m.tab].instance
        BY <2>1, <3>1, InstancesGrow
      <3>3. Carries("get", 0, texts) /\ wire' \subseteq wire \cup {Message(m.tab, k, "get", 0)}
        BY <2>3, <3>1 DEF Carries
      <3> QED
        BY <2>1, <3>2, <3>3, WireGains
    <2> QED
      BY <1>8, <2>2, <2>3, CaseEndsDoes
  <1>9. ASSUME NEW m \in wire, ProblemArrives(m) \/ LoadFails(m) \/ SaveEnds(m) \/ SaveRefused(m) \/ Unheard(m)
        PROVE  WireInv'
    <2>1. wire' \subseteq wire /\ texts' = texts
      BY <1>9 DEF ProblemArrives, LoadFails, SaveEnds, SaveRefused, Unheard
    <2> QED
      BY <2>1, WireKept
  <1>10. ASSUME NEW t \in Tabs, NEW f \in Fields, TypeText(t, f) PROVE WireInv'
    <2>1. wire' \subseteq wire /\ texts' = texts + 1
      BY <1>10 DEF TypeText
    <2> QED
      BY <2>1, WireKept
  <1>11. ASSUME UNCHANGED <<wire, texts>> PROVE WireInv'
    BY <1>11, WireKept
  <1>12. ASSUME NEW t \in Tabs, SwitchLanguage(t) PROVE WireInv'
    <2>1. texts' = texts /\ wire' = wire \cup {Ask(t, "get", 0)} /\ Carries("get", 0, texts)
      BY <1>12 DEF SwitchLanguage, Carries
    <2> QED
      BY <2>1, <1>3
  <1> QED
    BY <1>1, <1>2, <1>4, <1>5, <1>6, <1>7, <1>8, <1>9, <1>10, <1>11, <1>12
       DEF EditorNext, LeaveForm, CancelForm, editorVars

LEMMA ShapeStep == ASSUME ShapeInv, [EditorNext]_editorVars PROVE ShapeInv'
  BY TableStep, TabsStep, WireStep DEF ShapeInv

-----------------------------------------------------------------------------
(* Requests of an instance of the form *)
Mine(x, m) == x.open /\ x.instance = m.instance
InSave(m) == m.op \in {"put", "saved", "refused"}

(* One save of an instance is under way at a time, and the form waits.     *)
Saves(W, T) ==
  /\ \A m, o \in W : InSave(m) /\ InSave(o) /\ m.tab = o.tab /\ m.instance = o.instance => m = o
  /\ \A m \in W : InSave(m) /\ Mine(T[m.tab], m) => T[m.tab].saving

LEMMA SavesFewer ==
  ASSUME NEW W, NEW V, NEW T, NEW U, Saves(W, T), \A m \in V : InSave(m) => m \in W,
         \A m \in V : InSave(m) /\ Mine(U[m.tab], m) =>
           Mine(T[m.tab], m) /\ (T[m.tab].saving => U[m.tab].saving)
  PROVE  Saves(V, U)
  BY DEF Saves

LEMMA NotOfLater ==
  ASSUME ShapeInv, NEW t \in Tabs, NEW y, y.instance = tab[t].instance + 1
  PROVE  \A m \in wire : m.tab = t => ~Mine(y, m)
  <1> SUFFICES ASSUME NEW m \in wire, m.tab = t PROVE y.instance # m.instance
    BY DEF Mine
  <1>1. Sound(m, texts) /\ m.instance =< tab[t].instance
    BY DEF ShapeInv, WireInv
  <1>2. m.instance \in Nat /\ tab[t].instance \in Nat
    BY <1>1, MessageHas, FormHas DEF ShapeInv, TabsInv
  <1> DEFINE a == tab[t].instance
             b == m.instance
  <1>3. a \in Nat /\ b \in Nat /\ b =< a /\ y.instance = a + 1
    BY <1>1, <1>2
  <1> HIDE DEF a, b
  <1>4. a + 1 # b
    BY <1>3
  <1> QED
    BY <1>3, <1>4 DEF b

LEMMA SavesStep == ASSUME ShapeInv, Saves(wire, tab), [EditorNext]_editorVars PROVE Saves(wire', tab')
  <1>a. ASSUME NEW t \in Tabs, NEW y, OneTab(t, y), \A m \in wire' : InSave(m) => m \in wire,
               \A m \in wire : InSave(m) /\ m.tab = t /\ Mine(y, m) =>
                 Mine(tab[t], m) /\ (tab[t].saving => y.saving)
        PROVE  Saves(wire', tab')
    <2>1. tab'[t] = y /\ \A u \in Tabs : u # t => tab'[u] = tab[u]
      BY <1>a, OneTabIs DEF ShapeInv
    <2>2. ASSUME NEW m \in wire', InSave(m), Mine(tab'[m.tab], m)
          PROVE  Mine(tab[m.tab], m) /\ (tab[m.tab].saving => tab'[m.tab].saving)
      <3>1. m \in wire /\ m.tab \in Tabs
        BY <1>a, <2>2, MessageHas DEF ShapeInv, WireInv
      <3>2. CASE m.tab = t
        BY <3>1, <3>2, <2>1, <2>2, <1>a
      <3>3. CASE m.tab # t
        BY <3>1, <3>3, <2>1, <2>2
      <3> QED
        BY <3>2, <3>3
    <2> QED
      BY <1>a, <2>2, SavesFewer
  <1>b. ASSUME UNCHANGED tab, \A m \in wire' : InSave(m) => m \in wire PROVE Saves(wire', tab')
    BY <1>b, SavesFewer
  <1>1. ASSUME NEW t \in Tabs, OpenForm(t) PROVE Saves(wire', tab')
    <2>1. PICK y \in Forms(texts) : /\ OneTab(t, y) /\ y.instance = tab[t].instance + 1
                                  /\ wire' = wire \cup {Message(t, y.instance, "get", 0)}
      BY <1>1, OpenFormDoes
    <2>2. \A m \in wire' : InSave(m) => m \in wire
      BY <2>1 DEF InSave, Message
    <2> QED
      BY <2>1, <2>2, <1>a, NotOfLater
  <1>2. ASSUME NEW t \in Tabs, LeaveForm(t) \/ CancelForm(t) PROVE Saves(wire', tab')
    <2>1. PICK y \in Forms(texts) : OneTab(t, y) /\ ~y.open
      BY <1>2, FormCloses DEF LeaveForm, CancelForm
    <2>2. wire' = wire
      BY <1>2 DEF LeaveForm, CancelForm
    <2> QED
      BY <2>1, <2>2, <1>a DEF Mine
  <1>3. ASSUME NEW t \in Tabs, NEW f \in Fields, TypeText(t, f) PROVE Saves(wire', tab')
    <2>1. PICK y \in Forms(texts') : /\ OneTab(t, y) /\ y.open = tab[t].open
                                   /\ y.instance = tab[t].instance /\ y.saving = tab[t].saving
      BY <1>3, TypeTextDoes
    <2>2. wire' = wire
      BY <1>3 DEF TypeText
    <2> QED
      BY <2>1, <2>2, <1>a DEF Mine
  <1>4. ASSUME NEW t \in Tabs, AddCase(t) PROVE Saves(wire', tab')
    <2>1. PICK y \in Forms(texts) : OneTab(t, y) /\ AsBefore(tab[t], y) /\ y.saving = tab[t].saving
      BY <1>4, CaseClickDoes DEF AddCase
    <2>2. \A m \in wire' : InSave(m) => m \in wire
      BY <1>4 DEF AddCase, Ask, InSave
    <2> QED
      BY <2>1, <2>2, <1>a DEF Mine, AsBefore
  <1>5. ASSUME NEW t \in Tabs, NEW c \in 1 .. MaxCases, RemoveCase(t, c) PROVE Saves(wire', tab')
    <2>1. PICK y \in Forms(texts) : OneTab(t, y) /\ AsBefore(tab[t], y) /\ y.saving = tab[t].saving
      BY <1>5, CaseClickDoes DEF RemoveCase
    <2>2. \A m \in wire' : InSave(m) => m \in wire
      BY <1>5 DEF RemoveCase, Ask, InSave
    <2> QED
      BY <2>1, <2>2, <1>a DEF Mine, AsBefore
  <1>6. ASSUME NEW t \in Tabs, SaveForm(t) PROVE Saves(wire', tab')
    <2>1. PICK y, data : /\ y \in Forms(texts)
                         /\ OneTab(t, y) /\ y.saving /\ y.instance = tab[t].instance
                         /\ wire' = wire \cup {Message(t, y.instance, "put", data)}
      BY <1>6, SaveFormDoes DEF AsBefore
    <2>2. tab'[t] = y /\ \A u \in Tabs : u # t => tab'[u] = tab[u]
      BY <2>1, OneTabIs DEF ShapeInv
    <2>3. tab[t].open /\ ~tab[t].saving
      BY <1>6 DEF SaveForm, Shown
    <2>4. PICK n : n = Message(t, y.instance, "put", data)
      OBVIOUS
    <2>5. n.tab = t /\ n.instance = tab[t].instance /\ InSave(n)
      BY <2>1, <2>4, FieldsOf DEF InSave
    <2>6. \A m \in wire : m.tab \in Tabs
      BY MessageHas DEF ShapeInv, WireInv
    <2>7. \A m \in wire : ~(InSave(m) /\ m.tab = t /\ m.instance = n.instance)
      BY <2>3, <2>5 DEF Saves, Mine
    <2>8. \A m \in wire' : m \in wire \/ m = n
      BY <2>1, <2>4
    <2>9. ASSUME NEW m \in wire', NEW o \in wire', InSave(m), InSave(o), m.tab = o.tab, m.instance = o.instance
          PROVE  m = o
      BY <2>5, <2>7, <2>8, <2>9 DEF Saves
    <2>10. ASSUME NEW m \in wire', InSave(m), Mine(tab'[m.tab], m) PROVE tab'[m.tab].saving
      <3>1. CASE m.tab = t
        BY <2>1, <2>2, <3>1
      <3>2. CASE m.tab # t
        BY <2>2, <2>5, <2>6, <2>8, <2>10, <3>2 DEF Saves
      <3> QED
        BY <3>1, <3>2
    <2> QED
      BY <2>9, <2>10 DEF Saves
  <1>7. ASSUME NEW m \in wire, ServeSave(m) PROVE Saves(wire', tab')
    <2>1. PICK op \in {"saved", "refused"} : wire' = (wire \ {m}) \cup {Answer(m, op, 0)}
      BY <1>7 DEF ServeSave
    <2>2. PICK n : n = Answer(m, op, 0)
      OBVIOUS
    <2>3. n = Message(m.tab, m.instance, op, 0)
      BY <2>2, MessageHas DEF ShapeInv, WireInv
    <2>4. n.tab = m.tab /\ n.instance = m.instance /\ InSave(n) /\ InSave(m)
      BY <1>7, <2>1, <2>3, FieldsOf DEF InSave, ServeSave
    <2>5. \A o \in wire' : (o \in wire /\ o # m) \/ o = n
      BY <2>1, <2>2
    <2>6. tab' = tab
      BY <1>7 DEF ServeSave
    <2>7. \A o, p \in wire' : InSave(o) /\ InSave(p) /\ o.tab = p.tab /\ o.instance = p.instance => o = p
      BY <2>4, <2>5 DEF Saves
    <2>8. \A o \in wire' : InSave(o) /\ Mine(tab[o.tab], o) => tab[o.tab].saving
      BY <2>4, <2>5 DEF Saves, Mine
    <2> QED
      BY <2>6, <2>7, <2>8 DEF Saves
  <1>8. ASSUME NEW m \in wire, ServeCase(m) \/ ServeGet(m) \/ Unheard(m) PROVE Saves(wire', tab')
    <2>1. \/ wire' = wire \ {m}
          \/ \E op \in {"changed", "unchanged", "problem", "no problem"} : \E data :
               wire' = (wire \ {m}) \cup {Answer(m, op, data)}
      BY <1>8 DEF ServeCase, ServeGet, Unheard
    <2>2. \A o \in wire' : InSave(o) => o \in wire
      <3>1. CASE wire' = wire \ {m}
        BY <3>1
      <3>2. ASSUME NEW op \in {"changed", "unchanged", "problem", "no problem"}, NEW data,
                   wire' = (wire \ {m}) \cup {Answer(m, op, data)}
            PROVE  \A o \in wire' : InSave(o) => o \in wire
        <4>1. PICK n : n = Answer(m, op, data)
          OBVIOUS
        <4>2. n = Message(m.tab, m.instance, op, data)
          BY <4>1, MessageHas DEF ShapeInv, WireInv
        <4>3. n.op = op
          BY ONLY <4>2 DEF Message
        <4> QED
          BY <3>2, <4>1, <4>3 DEF InSave
      <3> QED
        BY <2>1, <3>1, <3>2
    <2>3. UNCHANGED tab
      BY <1>8 DEF ServeCase, ServeGet, Unheard
    <2> QED
      BY <2>2, <2>3, <1>b
  <1>9. ASSUME NEW m \in wire, ProblemArrives(m) PROVE Saves(wire', tab')
    <2>1. PICK y \in Forms(texts) : /\ OneTab(m.tab, y) /\ y.open /\ y.instance = tab[m.tab].instance
                                  /\ y.saving = tab[m.tab].saving
      BY <1>9, ProblemArrivesDoes
    <2>2. wire' = wire \ {m} /\ m.tab \in Tabs /\ tab[m.tab].open
      BY <1>9, ProblemArrivesDoes DEF ProblemArrives, Own
    <2> QED
      BY <2>1, <2>2, <1>a DEF Mine
  <1>10. ASSUME NEW m \in wire, LoadFails(m) PROVE Saves(wire', tab')
    <2>1. PICK y \in Forms(texts) : /\ OneTab(m.tab, y) /\ AsBefore(tab[m.tab], y)
                                  /\ y.saving = tab[m.tab].saving
      BY <1>10, LoadFailsDoes
    <2>2. wire' = wire \ {m} /\ m.tab \in Tabs
      BY <1>10, LoadFailsDoes DEF LoadFails
    <2> QED
      BY <2>1, <2>2, <1>a DEF Mine, AsBefore
  <1>11. ASSUME NEW m \in wire, SaveEnds(m) PROVE Saves(wire', tab')
    <2>1. wire' = wire \ {m} /\ m.tab \in Tabs
      BY <1>11, SaveEndsDoes DEF SaveEnds
    <2>2. CASE UNCHANGED tab
      BY <2>1, <2>2, <1>b
    <2>3. CASE \E y \in Forms(texts) : OneTab(m.tab, y) /\ ~y.open
      BY <2>1, <2>3, <1>a DEF Mine
    <2> QED
      BY <1>11, <2>2, <2>3, SaveEndsDoes
  <1>12. ASSUME NEW m \in wire, SaveRefused(m) PROVE Saves(wire', tab')
    <2>1. PICK y \in Forms(texts) : OneTab(m.tab, y) /\ AsBefore(tab[m.tab], y)
      BY <1>12, SaveRefusedDoes
    <2>2. wire' = wire \ {m} /\ m.tab \in Tabs /\ InSave(m) /\ Mine(tab[m.tab], m)
      BY <1>12, SaveRefusedDoes DEF SaveRefused, Own, Mine, InSave
    <2>3. \A o \in wire : InSave(o) /\ o.tab = m.tab /\ Mine(tab[m.tab], o) => o = m
      BY <2>2 DEF Saves, Mine
    <2>4. tab'[m.tab] = y /\ \A u \in Tabs : u # m.tab => tab'[u] = tab[u]
      BY <2>1, <2>2, OneTabIs DEF ShapeInv
    <2>5. \A o \in wire : o.tab \in Tabs
      BY MessageHas DEF ShapeInv, WireInv
    <2>6. ASSUME NEW o \in wire', InSave(o), Mine(tab'[o.tab], o)
          PROVE  Mine(tab[o.tab], o) /\ (tab[o.tab].saving => tab'[o.tab].saving)
      <3>1. o.tab # m.tab
        BY <2>1, <2>2, <2>3, <2>4, <2>6 DEF Mine, AsBefore
      <3> QED
        BY <3>1, <2>2, <2>4, <2>5, <2>6
    <2> QED
      BY <2>2, <2>6, SavesFewer
  <1>13. ASSUME NEW m \in wire, CaseEnds(m) PROVE Saves(wire', tab')
    <2>1. PICK y \in Forms(texts) : /\ OneTab(m.tab, y) /\ AsBefore(tab[m.tab], y)
                                  /\ y.saving = tab[m.tab].saving
                                  /\ \/ wire' = wire \ {m}
                                     \/ wire' = (wire \ {m}) \cup {Message(m.tab, tab[m.tab].instance, "get", 0)}
      BY <1>13, CaseEndsDoes
    <2>2. \A o \in wire' : InSave(o) => o \in wire
      BY <2>1 DEF InSave, Message
    <2>3. m.tab \in Tabs
      BY <1>13, CaseEndsDoes
    <2> QED
      BY <2>1, <2>2, <2>3, <1>a DEF Mine, AsBefore
  <1>14. CASE UNCHANGED editorVars
    BY <1>14, <1>b DEF editorVars
  <1>15. ASSUME NEW t \in Tabs, SwitchLanguage(t) PROVE Saves(wire', tab')
    <2>1. PICK y \in Forms(texts) : OneTab(t, y) /\ AsBefore(tab[t], y) /\ y.saving = tab[t].saving
      BY <1>15, SwitchLanguageDoes
    <2>2. \A m \in wire' : InSave(m) => m \in wire
      BY <1>15, SwitchLanguageDoes DEF InSave, Message
    <2> QED
      BY <2>1, <2>2, <1>a DEF Mine, AsBefore
  <1> QED
    BY <1>1, <1>2, <1>3, <1>4, <1>5, <1>6, <1>7, <1>8, <1>9, <1>10, <1>11, <1>12, <1>13, <1>14, <1>15
       DEF EditorNext

-----------------------------------------------------------------------------
(* The last text that was typed, tab by tab and field by field             *)
Holds(x, f, o) == x.open /\ x.form[f] = o /\ x.form[f] # x.base[f]

Safe(o, r, l) == o = NoText \/ r = o \/ l # "no"

TypedInv == \A t \in Tabs, f \in Fields : Holds(tab[t], f, owed[t][f]) \/ Safe(owed[t][f], row[f], lost[t][f])

(* A save that was asked for is of what the form sent last, and one that   *)
(* has succeeded has stored it.                                            *)
MailHolds(x, o, r, l, m) ==
  /\ m.op = "put" => m.data.row = x.sent
  /\ m.op = "saved" => \A f \in Fields : o[f] = x.sent[f] => Safe(o[f], r[f], l[f])

SentInv == \A m \in wire : Mine(tab[m.tab], m) => MailHolds(tab[m.tab], owed[m.tab], row, lost[m.tab], m)

(* All but typing leaves a text that is safe so.                           *)
CalmAt(u, f) ==
  /\ owed'[u][f] = owed[u][f] \/ owed'[u][f] = NoText
  /\ Safe(owed[u][f], row[f], lost[u][f]) => Safe(owed'[u][f], row'[f], lost'[u][f])

Calm == \A u \in Tabs, f \in Fields : CalmAt(u, f)

LEMMA LoseDoes ==
  ASSUME ShapeInv, NEW t \in Tabs, NEW F, NEW way, way # "no", Lose(t, F, way), UNCHANGED <<row, owed>>
  PROVE  /\ Calm
         /\ \A f \in Fields : f \in F => Safe(owed'[t][f], row'[f], lost'[t][f])
  <1>1. ASSUME NEW u \in Tabs, NEW f \in Fields
        PROVE  lost'[u][f] = IF u = t /\ f \in F /\ owed[t][f] \notin {NoText, row[f]} THEN way ELSE lost[u][f]
    BY DEF Lose, ShapeInv, TableInv
  <1>2. ASSUME NEW u \in Tabs, NEW f \in Fields PROVE CalmAt(u, f)
    BY <1>1 DEF CalmAt, Safe
  <1>3. ASSUME NEW f \in Fields, f \in F PROVE Safe(owed'[t][f], row'[f], lost'[t][f])
    BY <1>1, <1>3 DEF Safe
  <1> QED
    BY <1>2, <1>3 DEF Calm

LEMMA CancelForgets ==
  ASSUME ShapeInv, NEW t \in Tabs, CancelForm(t)
  PROVE  /\ Calm
         /\ \A f \in Fields : f \in Typed(t) => owed'[t][f] = NoText
  <1>1. ASSUME NEW u \in Tabs, NEW f \in Fields
        PROVE  owed'[u][f] = IF u = t /\ f \in Typed(t) THEN NoText ELSE owed[u][f]
    BY DEF CancelForm, ShapeInv, TableInv
  <1>2. UNCHANGED <<row, lost>>
    BY DEF CancelForm
  <1>3. ASSUME NEW u \in Tabs, NEW f \in Fields PROVE CalmAt(u, f)
    BY <1>1, <1>2 DEF CalmAt, Safe
  <1> QED
    BY <1>1, <1>3 DEF Calm

LEMMA SavingKeeps ==
  ASSUME ShapeInv, NEW m \in wire, ServeSave(m)
  PROVE  /\ m.tab \in Tabs /\ m.op = "put" /\ tab' = tab /\ Calm
         /\ \/ wire' = (wire \ {m}) \cup {Answer(m, "refused", 0)}
            \/ wire' = (wire \ {m}) \cup {Answer(m, "saved", 0)} /\ row' = m.data.row
  <1>1. m.tab \in Tabs /\ m.op = "put" /\ tab' = tab
    BY MessageHas DEF ShapeInv, WireInv, ServeSave
  <1>2. CASE UNCHANGED <<row, owed, lost>> /\ wire' = (wire \ {m}) \cup {Answer(m, "refused", 0)}
    <2>1. ASSUME NEW u \in Tabs, NEW f \in Fields PROVE CalmAt(u, f)
      BY <1>2 DEF CalmAt
    <2> QED
      BY <1>1, <1>2, <2>1 DEF Calm
  <1>3. CASE ~(UNCHANGED <<row, owed, lost>> /\ wire' = (wire \ {m}) \cup {Answer(m, "refused", 0)})
    <2>1. row' = m.data.row /\ wire' = (wire \ {m}) \cup {Answer(m, "saved", 0)}
      BY <1>3 DEF ServeSave
    <2>2. ASSUME NEW u \in Tabs, NEW f \in Fields PROVE CalmAt(u, f)
      <3>1. owed'[u][f] = IF Overwrites(m, u, f) /\ m.data.base[f] = row[f] /\ f \in m.data.typed
                            THEN NoText ELSE owed[u][f]
        BY <1>3 DEF ServeSave
      <3>2. lost'[u][f] = IF owed[u][f] = m.data.row[f] THEN "no"
                            ELSE IF Overwrites(m, u, f) /\ m.data.base[f] # row[f] THEN "stale" ELSE lost[u][f]
        BY <1>3 DEF ServeSave
      <3>3. CASE owed[u][f] = m.data.row[f]
        BY <2>1, <3>1, <3>3 DEF CalmAt, Safe
      <3>4. CASE owed[u][f] # m.data.row[f] /\ Overwrites(m, u, f)
        <4>1. m.data.base[f] = row[f] => f \in m.data.typed
          BY <1>1, <3>4 DEF ShapeInv, WireInv, Sound, Carries, Overwrites
        <4>2. CASE m.data.base[f] = row[f]
          BY <3>1, <3>4, <4>1, <4>2 DEF CalmAt, Safe
        <4>3. CASE m.data.base[f] # row[f]
          BY <3>1, <3>2, <3>4, <4>3 DEF CalmAt, Safe
        <4> QED
          BY <4>2, <4>3
      <3>5. CASE owed[u][f] # m.data.row[f] /\ ~Overwrites(m, u, f)
        BY <2>1, <3>1, <3>2, <3>5 DEF CalmAt, Safe, Overwrites
      <3> QED
        BY <3>3, <3>4, <3>5
    <2> QED
      BY <1>1, <2>1, <2>2 DEF Calm
  <1> QED
    BY <1>2, <1>3

LEMMA CalmStep == ASSUME ShapeInv, [EditorNext]_editorVars, texts' = texts PROVE Calm
  <1>a. ASSUME UNCHANGED <<row, owed, lost>> PROVE Calm
    <2>1. ASSUME NEW u \in Tabs, NEW f \in Fields PROVE CalmAt(u, f)
      BY <1>a DEF CalmAt
    <2> QED
      BY <2>1 DEF Calm
  <1>1. ASSUME NEW t \in Tabs, LeaveForm(t) PROVE Calm
    <2>1. PICK F : F = Typed(t)
      OBVIOUS
    <2>2. Lose(t, F, "left") /\ UNCHANGED <<row, owed>>
      BY <1>1, <2>1 DEF LeaveForm
    <2> QED
      BY <2>2, LoseDoes
  <1>2. ASSUME NEW t \in Tabs, CancelForm(t) PROVE Calm
    BY <1>2, CancelForgets
  <1>3. ASSUME NEW t \in Tabs, NEW f \in Fields, TypeText(t, f) PROVE FALSE
    BY <1>3 DEF TypeText, ShapeInv, TableInv
  <1>4. ASSUME NEW m \in wire, ServeSave(m) PROVE Calm
    BY <1>4, SavingKeeps
  <1>5. ASSUME NEW m \in wire, ProblemArrives(m) \/ SaveEnds(m) PROVE Calm
    <2>1. PICK F : F = IF m.op = "saved" /\ Own(m) THEN Unsent(m.tab) ELSE Typed(m.tab)
      OBVIOUS
    <2>2. PICK way : way = IF m.op = "problem" THEN "reload" ELSE IF Own(m) THEN "late" ELSE "earlier"
      OBVIOUS
    <2>3. Lose(m.tab, F, way) /\ way # "no" /\ UNCHANGED <<row, owed>>
      BY <1>5, <2>1, <2>2 DEF ProblemArrives, SaveEnds
    <2>4. m.tab \in Tabs
      BY MessageHas DEF ShapeInv, WireInv
    <2> QED
      BY <2>3, <2>4, LoseDoes
  <1> QED
    BY <1>a, <1>1, <1>2, <1>3, <1>4, <1>5
       DEF EditorNext, OpenForm, SwitchLanguage, SaveForm, AddCase, RemoveCase, ServeCase, ServeGet, LoadFails,
           SaveRefused, CaseEnds, Unheard, editorVars

LEMMA TypingDoes ==
  ASSUME ShapeInv, NEW t \in Tabs, NEW f \in Fields, TypeText(t, f)
  PROVE  /\ owed'[t][f] = texts' /\ \A u \in Tabs, g \in Fields : u # t \/ g # f => CalmAt(u, g)
         /\ \A u \in Tabs, g \in Fields : u # t \/ g # f => owed'[u][g] = owed[u][g]
         /\ UNCHANGED <<row, wire>>
  <1>1. ASSUME NEW u \in Tabs, NEW g \in Fields
        PROVE  /\ owed'[u][g] = IF u = t /\ g = f THEN texts' ELSE owed[u][g]
               /\ lost'[u][g] = IF u = t /\ g = f THEN "no" ELSE lost[u][g]
    BY DEF TypeText, ShapeInv, TableInv, Written
  <1>2. UNCHANGED <<row, wire>>
    BY DEF TypeText
  <1>3. ASSUME NEW u \in Tabs, NEW g \in Fields, u # t \/ g # f PROVE CalmAt(u, g)
    BY <1>1, <1>2, <1>3 DEF CalmAt
  <1> QED
    BY <1>1, <1>2, <1>3

LEMMA TypedStep ==
  ASSUME ShapeInv, TypedInv, SentInv, [EditorNext]_editorVars
  PROVE  TypedInv'
  <1>0. \A m \in wire : m.tab \in Tabs
    BY MessageHas DEF ShapeInv, WireInv
  <1>a. ASSUME Calm, NEW t \in Tabs, NEW y, OneTab(t, y),
               \A f \in Fields : Holds(tab[t], f, owed[t][f]) =>
                 Holds(y, f, owed[t][f]) \/ Safe(owed'[t][f], row'[f], lost'[t][f])
        PROVE  TypedInv'
    <2>1. tab'[t] = y /\ \A u \in Tabs : u # t => tab'[u] = tab[u]
      BY <1>a, OneTabIs DEF ShapeInv
    <2>2. ASSUME NEW u \in Tabs, NEW f \in Fields
          PROVE  Holds(tab'[u], f, owed'[u][f]) \/ Safe(owed'[u][f], row'[f], lost'[u][f])
      <3>1. CalmAt(u, f)
        BY <1>a DEF Calm
      <3>2. CASE Safe(owed[u][f], row[f], lost[u][f])
        BY <3>1, <3>2 DEF CalmAt
      <3>3. CASE owed'[u][f] = NoText
        BY <3>3 DEF Safe
      <3>4. CASE Holds(tab[u], f, owed[u][f]) /\ owed'[u][f] = owed[u][f]
        BY <1>a, <2>1, <3>4
      <3> QED
        BY <3>1, <3>2, <3>3, <3>4 DEF CalmAt, TypedInv
    <2> QED
      BY <2>2 DEF TypedInv
  <1>b. ASSUME Calm, NEW t \in Tabs, NEW y, OneTab(t, y), AsBefore(tab[t], y) PROVE TypedInv'
    <2>1. \A f \in Fields : Holds(tab[t], f, owed[t][f]) => Holds(y, f, owed[t][f])
      BY <1>b DEF AsBefore, Holds
    <2> QED
      BY <1>a, <1>b, <2>1
  <1>c. ASSUME Calm, UNCHANGED tab PROVE TypedInv'
    <2>1. ASSUME NEW u \in Tabs, NEW f \in Fields
          PROVE  Holds(tab'[u], f, owed'[u][f]) \/ Safe(owed'[u][f], row'[f], lost'[u][f])
      <3>1. CalmAt(u, f) /\ (Holds(tab[u], f, owed[u][f]) \/ Safe(owed[u][f], row[f], lost[u][f]))
        BY <1>c DEF Calm, TypedInv
      <3>2. CASE owed'[u][f] = NoText
        BY <3>2 DEF Safe
      <3> QED
        BY <1>c, <3>1, <3>2 DEF CalmAt
    <2> QED
      BY <2>1 DEF TypedInv
  <1>1. ASSUME NEW t \in Tabs, NEW f \in Fields, TypeText(t, f) PROVE TypedInv'
    <2>1. PICK y \in Forms(texts') :
            /\ OneTab(t, y) /\ y.form = [tab[t].form EXCEPT ![f] = texts']
            /\ y.open = tab[t].open /\ y.base = tab[t].base
      BY <1>1, TypeTextDoes
    <2>2. tab'[t] = y /\ \A u \in Tabs : u # t => tab'[u] = tab[u]
      BY <2>1, OneTabIs DEF ShapeInv
    <2>3. tab[t].form \in Written(texts) /\ tab[t].base \in Written(texts)
      BY FormHas DEF ShapeInv, TabsInv
    <2>4. y.form[f] = texts' /\ \A g \in Fields : g # f => y.form[g] = tab[t].form[g]
      BY <2>1, <2>3 DEF Written
    <2>5. texts' = texts + 1 /\ texts \in Nat /\ tab[t].open
      BY <1>1 DEF TypeText, Shown, ShapeInv, TableInv
    <2>6. PICK old : old = tab[t].base[f]
      OBVIOUS
    <2>7. old \in 0 .. texts
      BY <2>3, <2>6 DEF Written
    <2>8. old # texts'
      BY <2>5, <2>7
    <2>9. ASSUME NEW u \in Tabs, NEW g \in Fields
          PROVE  Holds(tab'[u], g, owed'[u][g]) \/ Safe(owed'[u][g], row'[g], lost'[u][g])
      <3>1. CASE u = t /\ g = f
        <4>1. owed'[t][f] = texts'
          BY <1>1, TypingDoes
        <4>2. tab'[t].open /\ tab'[t].form[f] = texts' /\ tab'[t].base[f] = old
          BY <2>1, <2>2, <2>4, <2>5, <2>6
        <4> QED
          BY ONLY <2>8, <3>1, <4>1, <4>2 DEF Holds
      <3>2. CASE u # t \/ g # f
        <4>1. CalmAt(u, g) /\ owed'[u][g] = owed[u][g]
          BY <1>1, <3>2, TypingDoes
        <4>2. CASE Safe(owed[u][g], row[g], lost[u][g])
          BY <4>1, <4>2 DEF CalmAt
        <4>3. CASE Holds(tab[u], g, owed[u][g])
          <5>1. CASE u # t
            BY ONLY <2>2, <2>9, <4>1, <4>3, <5>1 DEF Holds
          <5>2. CASE u = t
            <6>1. g # f
              BY <3>2, <5>2
            <6>2. /\ tab'[t].open = tab[t].open /\ tab'[t].base = tab[t].base
                  /\ tab'[t].form[g] = tab[t].form[g]
              BY ONLY <2>1, <2>2, <2>4, <2>9, <6>1
            <6> QED
              BY ONLY <4>1, <4>3, <5>2, <6>2 DEF Holds
          <5> QED
            BY <5>1, <5>2
        <4> QED
          BY <4>2, <4>3 DEF TypedInv
      <3> QED
        BY <3>1, <3>2
    <2> QED
      BY <2>9 DEF TypedInv
  <1>2. ASSUME NEW t \in Tabs, OpenForm(t), Calm PROVE TypedInv'
    <2>1. PICK y \in Forms(texts) : OneTab(t, y) /\ ~tab[t].open
      BY <1>2, OpenFormDoes
    <2> QED
      BY <1>2, <2>1, <1>a DEF Holds
  <1>3. ASSUME NEW t \in Tabs, LeaveForm(t), Calm PROVE TypedInv'
    <2>1. PICK y \in Forms(texts) : OneTab(t, y)
      BY <1>3, FormCloses DEF LeaveForm
    <2>2. PICK F : F = Typed(t)
      OBVIOUS
    <2>3. Lose(t, F, "left") /\ UNCHANGED <<row, owed>>
      BY <1>3, <2>2 DEF LeaveForm
    <2>4. \A f \in Fields : f \in Typed(t) => Safe(owed'[t][f], row'[f], lost'[t][f])
      BY <2>2, <2>3, LoseDoes
    <2> QED
      BY <1>3, <2>1, <2>4, <1>a DEF Holds, Typed
  <1>4. ASSUME NEW t \in Tabs, CancelForm(t), Calm PROVE TypedInv'
    <2>1. PICK y \in Forms(texts) : OneTab(t, y)
      BY <1>4, FormCloses DEF CancelForm
    <2>2. \A f \in Fields : f \in Typed(t) => Safe(owed'[t][f], row'[f], lost'[t][f])
      BY <1>4, CancelForgets DEF Safe
    <2> QED
      BY <1>4, <2>1, <2>2, <1>a DEF Holds, Typed
  <1>5. ASSUME NEW t \in Tabs, Calm,
               \/ SwitchLanguage(t) \/ SaveForm(t) \/ AddCase(t)
               \/ \E c \in 1 .. MaxCases : RemoveCase(t, c)
        PROVE  TypedInv'
    <2>1. \E y \in Forms(texts) : OneTab(t, y) /\ AsBefore(tab[t], y)
      BY <1>5, SwitchLanguageDoes, SaveFormDoes, CaseClickDoes DEF AddCase, RemoveCase
    <2> QED
      BY <1>5, <2>1, <1>b
  <1>6. ASSUME NEW m \in wire, LoadFails(m) \/ SaveRefused(m) \/ CaseEnds(m), Calm PROVE TypedInv'
    <2>1. \E y \in Forms(texts) : OneTab(m.tab, y) /\ AsBefore(tab[m.tab], y)
      BY <1>6, LoadFailsDoes, SaveRefusedDoes, CaseEndsDoes
    <2> QED
      BY <1>0, <1>6, <2>1, <1>b
  <1>7. ASSUME NEW m \in wire, ProblemArrives(m), Calm PROVE TypedInv'
    <2>1. PICK y \in Forms(texts) : OneTab(m.tab, y)
      BY <1>7, ProblemArrivesDoes
    <2>2. PICK F : F = Typed(m.tab)
      OBVIOUS
    <2>3. Lose(m.tab, F, "reload") /\ UNCHANGED <<row, owed>>
      BY <1>7, <2>2 DEF ProblemArrives
    <2>4. \A f \in Fields : f \in Typed(m.tab) => Safe(owed'[m.tab][f], row'[f], lost'[m.tab][f])
      BY <1>0, <2>2, <2>3, LoseDoes
    <2> QED
      BY <1>0, <1>7, <2>1, <2>4, <1>a DEF Holds, Typed
  <1>8. ASSUME NEW m \in wire, SaveEnds(m), Calm PROVE TypedInv'
    <2>0. m.op = "saved" /\ UNCHANGED <<row, owed>>
      BY <1>8 DEF SaveEnds
    <2>1. CASE UNCHANGED tab
      BY <1>8, <1>c, <2>1
    <2>2. CASE \E y \in Forms(texts) : OneTab(m.tab, y)
      <3>1. ASSUME NEW f \in Fields, Holds(tab[m.tab], f, owed[m.tab][f])
            PROVE  Safe(owed'[m.tab][f], row'[f], lost'[m.tab][f])
        <4>1. f \in Typed(m.tab)
          BY <3>1 DEF Holds, Typed
        <4>2. CASE ~Own(m)
          <5>1. PICK F : F = Typed(m.tab)
            OBVIOUS
          <5>2. Lose(m.tab, F, "earlier")
            BY <1>8, <4>2, <5>1 DEF SaveEnds
          <5> QED
            BY <1>0, <2>0, <4>1, <5>1, <5>2, LoseDoes
        <4>3. CASE Own(m) /\ f \in Unsent(m.tab)
          <5>1. PICK F : F = Unsent(m.tab)
            OBVIOUS
          <5>2. Lose(m.tab, F, "late")
            BY <1>8, <4>3, <5>1 DEF SaveEnds
          <5> QED
            BY <1>0, <2>0, <4>3, <5>1, <5>2, LoseDoes
        <4>4. CASE Own(m) /\ f \notin Unsent(m.tab)
          <5>1. owed[m.tab][f] = tab[m.tab].sent[f]
            BY <3>1, <4>1, <4>4 DEF Unsent, Holds
          <5>2. Mine(tab[m.tab], m)
            BY <4>4 DEF Own, Mine
          <5>3. Safe(owed[m.tab][f], row[f], lost[m.tab][f])
            BY <2>0, <5>1, <5>2 DEF SentInv, MailHolds
          <5>4. CalmAt(m.tab, f)
            BY <1>0, <1>8 DEF Calm
          <5> QED
            BY <5>3, <5>4 DEF CalmAt
        <4> QED
          BY <4>2, <4>3, <4>4
      <3> QED
        BY <1>0, <1>8, <2>2, <3>1, <1>a
    <2> QED
      BY <1>8, <2>1, <2>2, SaveEndsDoes
  <1>9. CASE texts' = texts
    <2>1. Calm
      BY <1>9, CalmStep
    <2>2. ASSUME NEW t \in Tabs, NEW f \in Fields, TypeText(t, f) PROVE FALSE
      BY <1>9, <2>2 DEF TypeText, ShapeInv, TableInv
    <2> QED
      BY <1>c, <1>2, <1>3, <1>4, <1>5, <1>6, <1>7, <1>8, <2>1, <2>2
         DEF EditorNext, ServeSave, ServeCase, ServeGet, Unheard, editorVars
  <1>10. CASE \E t \in Tabs, f \in Fields : TypeText(t, f)
    BY <1>1, <1>10
  <1>11. texts' = texts \/ \E t \in Tabs, f \in Fields : TypeText(t, f)
    BY DEF EditorNext, OpenForm, LeaveForm, CancelForm, SwitchLanguage, SaveForm, AddCase, RemoveCase, ServeSave,
           ServeCase, ServeGet, ProblemArrives, LoadFails, SaveEnds, SaveRefused, CaseEnds, Unheard, editorVars
  <1> QED
    BY <1>9, <1>10, <1>11

LEMMA SentStep ==
  ASSUME ShapeInv, Saves(wire, tab), SentInv, [EditorNext]_editorVars
  PROVE  SentInv'
  <1>0. \A m \in wire : m.tab \in Tabs
    BY MessageHas DEF ShapeInv, WireInv
  <1>m. ASSUME Calm, NEW m \in wire, Mine(tab[m.tab], m), NEW y, y.sent = tab[m.tab].sent
        PROVE  MailHolds(y, owed'[m.tab], row', lost'[m.tab], m)
    <2>1. MailHolds(tab[m.tab], owed[m.tab], row, lost[m.tab], m) /\ m.tab \in Tabs
      BY <1>0, <1>m DEF SentInv
    <2>2. ASSUME NEW f \in Fields, m.op = "saved", owed'[m.tab][f] = y.sent[f]
          PROVE  Safe(owed'[m.tab][f], row'[f], lost'[m.tab][f])
      <3>1. CalmAt(m.tab, f)
        BY <1>m, <2>1 DEF Calm
      <3>2. CASE owed'[m.tab][f] = NoText
        BY <3>2 DEF Safe
      <3>3. CASE owed'[m.tab][f] = owed[m.tab][f]
        BY <1>m, <2>1, <2>2, <3>1, <3>3 DEF MailHolds, CalmAt
      <3> QED
        BY <3>1, <3>2, <3>3 DEF CalmAt
    <2> QED
      BY <1>m, <2>1, <2>2 DEF MailHolds
  <1>n. ASSUME NEW m, m.op \notin {"put", "saved"} PROVE MailHolds(tab'[m.tab], owed'[m.tab], row', lost'[m.tab], m)
    BY <1>n DEF MailHolds
  <1>a. ASSUME Calm, NEW t \in Tabs, NEW y, OneTab(t, y),
               \A m \in wire' : m \in wire \/ m.op \notin {"put", "saved"},
               \A m \in wire : m.tab = t /\ Mine(y, m) => Mine(tab[t], m) /\ y.sent = tab[t].sent
        PROVE  SentInv'
    <2>1. tab'[t] = y /\ \A u \in Tabs : u # t => tab'[u] = tab[u]
      BY <1>a, OneTabIs DEF ShapeInv
    <2>2. ASSUME NEW m \in wire', Mine(tab'[m.tab], m)
          PROVE  MailHolds(tab'[m.tab], owed'[m.tab], row', lost'[m.tab], m)
      <3>1. CASE m.op \notin {"put", "saved"}
        BY <3>1, <1>n
      <3>2. CASE m \in wire
        <4>1. Mine(tab[m.tab], m) /\ tab'[m.tab].sent = tab[m.tab].sent
          BY <1>0, <1>a, <2>1, <2>2, <3>2
        <4> QED
          BY <1>a, <1>m, <3>2, <4>1
      <3> QED
        BY <1>a, <3>1, <3>2
    <2> QED
      BY <2>2 DEF SentInv
  <1>b. ASSUME Calm, NEW t \in Tabs, NEW y, OneTab(t, y), AsBefore(tab[t], y), y.sent = tab[t].sent,
               \A m \in wire' : m \in wire \/ m.op \notin {"put", "saved"}
        PROVE  SentInv'
    BY <1>a, <1>b DEF AsBefore, Mine
  <1>c. ASSUME NEW t, NEW k, NEW op, NEW data, op \notin {"put", "saved"}, NEW W,
               W \subseteq wire, wire' = W \cup {Message(t, k, op, data)}
        PROVE  \A m \in wire' : m \in wire \/ m.op \notin {"put", "saved"}
    <2>1. PICK n : n = Message(t, k, op, data)
      OBVIOUS
    <2>2. n.op = op
      BY ONLY <2>1 DEF Message
    <2> QED
      BY <1>c, <2>1, <2>2
  <1>d. ASSUME Calm, UNCHANGED tab, \A m \in wire' : m \in wire \/ m.op \notin {"put", "saved"} PROVE SentInv'
    <2>1. ASSUME NEW m \in wire', Mine(tab'[m.tab], m)
          PROVE  MailHolds(tab'[m.tab], owed'[m.tab], row', lost'[m.tab], m)
      <3>1. CASE m.op \notin {"put", "saved"}
        BY <3>1, <1>n
      <3>2. CASE m \in wire
        BY <1>d, <1>m, <2>1, <3>2
      <3> QED
        BY <1>d, <3>1, <3>2
    <2> QED
      BY <2>1 DEF SentInv
  <1>1. ASSUME NEW t \in Tabs, OpenForm(t), Calm PROVE SentInv'
    <2>1. PICK y \in Forms(texts) : /\ OneTab(t, y) /\ y.instance = tab[t].instance + 1
                                  /\ wire' = wire \cup {Message(t, y.instance, "get", 0)}
      BY <1>1, OpenFormDoes
    <2>2. \A m \in wire' : m \in wire \/ m.op \notin {"put", "saved"}
      BY <2>1, <1>c
    <2>3. \A m \in wire : m.tab = t => ~Mine(y, m)
      BY <2>1, NotOfLater
    <2> QED
      BY <1>1, <1>a, <2>1, <2>2, <2>3
  <1>2. ASSUME NEW t \in Tabs, LeaveForm(t) \/ CancelForm(t), Calm PROVE SentInv'
    <2>1. PICK y \in Forms(texts) : OneTab(t, y) /\ ~y.open
      BY <1>2, FormCloses DEF LeaveForm, CancelForm
    <2>2. wire' = wire
      BY <1>2 DEF LeaveForm, CancelForm
    <2> QED
      BY <1>2, <1>a, <2>1, <2>2 DEF Mine
  <1>3. ASSUME NEW t \in Tabs, NEW f \in Fields, TypeText(t, f) PROVE SentInv'
    <2>1. PICK y \in Forms(texts') : /\ OneTab(t, y) /\ y.open = tab[t].open
                                   /\ y.instance = tab[t].instance /\ y.sent = tab[t].sent
      BY <1>3, TypeTextDoes
    <2>2. tab'[t] = y /\ \A u \in Tabs : u # t => tab'[u] = tab[u]
      BY <2>1, OneTabIs DEF ShapeInv
    <2>3. /\ owed'[t][f] = texts' /\ wire' = wire
          /\ \A u \in Tabs, g \in Fields : u # t \/ g # f => CalmAt(u, g) /\ owed'[u][g] = owed[u][g]
      BY <1>3, TypingDoes
    <2>4. texts' = texts + 1 /\ texts \in Nat
      BY <1>3 DEF TypeText, ShapeInv, TableInv
    <2>5. tab[t].sent \in Written(texts)
      BY FormHas DEF ShapeInv, TabsInv
    <2>6. PICK old : old = tab[t].sent[f]
      OBVIOUS
    <2>7. old \in 0 .. texts
      BY <2>5, <2>6 DEF Written
    <2>8. old # texts'
      BY <2>4, <2>7
    <2>9. ASSUME NEW m \in wire', Mine(tab'[m.tab], m)
          PROVE  MailHolds(tab'[m.tab], owed'[m.tab], row', lost'[m.tab], m)
      <3>1. m \in wire /\ m.tab \in Tabs
        BY <1>0, <2>3
      <3>2. Mine(tab[m.tab], m) /\ tab'[m.tab].sent = tab[m.tab].sent
        BY <2>1, <2>2, <2>9, <3>1 DEF Mine
      <3>3. MailHolds(tab[m.tab], owed[m.tab], row, lost[m.tab], m)
        BY <3>1, <3>2 DEF SentInv
      <3>4. ASSUME NEW g \in Fields, m.op = "saved", owed'[m.tab][g] = tab'[m.tab].sent[g]
            PROVE  Safe(owed'[m.tab][g], row'[g], lost'[m.tab][g])
        <4>1. m.tab # t \/ g # f
          BY <2>1, <2>2, <2>3, <2>6, <2>8, <3>4
        <4>2. CalmAt(m.tab, g) /\ owed'[m.tab][g] = owed[m.tab][g]
          BY <2>3, <3>1, <4>1
        <4> QED
          BY <3>2, <3>3, <3>4, <4>2 DEF MailHolds, CalmAt
      <3> QED
        BY <3>2, <3>3, <3>4 DEF MailHolds
    <2> QED
      BY <2>9 DEF SentInv
  <1>4. ASSUME NEW t \in Tabs, Calm,
               AddCase(t) \/ SwitchLanguage(t) \/ \E c \in 1 .. MaxCases : RemoveCase(t, c)
        PROVE  SentInv'
    <2>1. PICK y \in Forms(texts) : OneTab(t, y) /\ AsBefore(tab[t], y) /\ y.sent = tab[t].sent
      BY <1>4, CaseClickDoes, SwitchLanguageDoes DEF AddCase, RemoveCase
    <2>2. PICK op, data :
            /\ op \in {"post", "delete", "get"}
            /\ wire' = wire \cup {Message(t, tab[t].instance, op, data)}
      <3>1. CASE AddCase(t)
        <4>1. wire' = wire \cup {Message(t, tab[t].instance, "post",
                                        [case |-> posted', editor |-> tab[t].editor])}
          BY <3>1 DEF AddCase, Ask, Message
        <4> QED
          BY <4>1
      <3>2. CASE SwitchLanguage(t)
        <4>1. wire' = wire \cup {Message(t, tab[t].instance, "get", 0)}
          BY <3>2, SwitchLanguageDoes
        <4> QED
          BY <4>1
      <3>3. ASSUME NEW c \in 1 .. MaxCases, RemoveCase(t, c)
            PROVE  \E op, data :
                     /\ op \in {"post", "delete", "get"}
                     /\ wire' = wire \cup {Message(t, tab[t].instance, op, data)}
        <4>1. wire' = wire \cup {Message(t, tab[t].instance, "delete",
                                        [case |-> c, editor |-> tab[t].editor])}
          BY <3>3 DEF RemoveCase, Ask, Message
        <4> QED
          BY <4>1
      <3> QED
        BY <1>4, <3>1, <3>2, <3>3
    <2>3. \A m \in wire' : m \in wire \/ m.op \notin {"put", "saved"}
      BY <2>2, <1>c
    <2> QED
      BY <1>4, <2>1, <2>3, <1>b
  <1>6. ASSUME NEW t \in Tabs, SaveForm(t), Calm PROVE SentInv'
    <2>1. PICK y, data :
            /\ y \in Forms(texts)
            /\ OneTab(t, y) /\ y.instance = tab[t].instance /\ data.row = y.sent
            /\ wire' = wire \cup {Message(t, y.instance, "put", data)}
      BY <1>6, SaveFormDoes DEF AsBefore
    <2>2. tab'[t] = y /\ \A u \in Tabs : u # t => tab'[u] = tab[u]
      BY <2>1, OneTabIs DEF ShapeInv
    <2>3. PICK n : n = Message(t, y.instance, "put", data)
      OBVIOUS
    <2>4. n.tab = t /\ n.op = "put" /\ n.data = data
      BY ONLY <2>3 DEF Message
    <2>5. tab[t].open /\ ~tab[t].saving
      BY <1>6 DEF SaveForm, Shown
    <2>6. ASSUME NEW m \in wire', Mine(tab'[m.tab], m)
          PROVE  MailHolds(tab'[m.tab], owed'[m.tab], row', lost'[m.tab], m)
      <3>1. CASE m = n
        BY <2>1, <2>2, <2>4, <3>1 DEF MailHolds
      <3>2. CASE m \in wire /\ m.tab = t
        <4>1. Mine(tab[t], m)
          BY <2>1, <2>2, <2>5, <2>6, <3>2 DEF Mine
        <4>2. ~InSave(m)
          BY <2>5, <3>2, <4>1 DEF Saves
        <4> QED
          BY <4>2 DEF InSave, MailHolds
      <3>3. CASE m \in wire /\ m.tab # t
        <4>1. tab'[m.tab] = tab[m.tab]
          BY <1>0, <2>2, <3>3
        <4> QED
          BY <1>6, <1>m, <2>6, <3>3, <4>1
      <3> QED
        BY <2>1, <2>3, <3>1, <3>2, <3>3
    <2> QED
      BY <2>6 DEF SentInv
  <1>7. ASSUME NEW m \in wire, ServeSave(m) PROVE SentInv'
    <2>1. m.tab \in Tabs /\ m.op = "put" /\ tab' = tab /\ Calm
      BY <1>7, SavingKeeps
    <2>2. PICK op \in {"saved", "refused"} :
            wire' = (wire \ {m}) \cup {Answer(m, op, 0)} /\ (op = "saved" => row' = m.data.row)
      BY <1>7, SavingKeeps
    <2>3. PICK n : n = Answer(m, op, 0)
      OBVIOUS
    <2>4. n = Message(m.tab, m.instance, op, 0)
      BY <2>3, MessageHas DEF ShapeInv, WireInv
    <2>5. n.tab = m.tab /\ n.instance = m.instance /\ n.op = op
      BY ONLY <2>4 DEF Message
    <2>6. ASSUME NEW o \in wire', Mine(tab'[o.tab], o)
          PROVE  MailHolds(tab'[o.tab], owed'[o.tab], row', lost'[o.tab], o)
      <3>1. CASE o \in wire
        BY <1>m, <2>1, <2>6, <3>1
      <3>2. CASE o = n
        <4>1. Mine(tab[m.tab], m)
          BY <2>1, <2>5, <2>6, <3>2 DEF Mine
        <4>2. m.data.row = tab[m.tab].sent
          BY <2>1, <4>1 DEF SentInv, MailHolds
        <4>3. op = "saved" => row' = tab[m.tab].sent
          BY <2>2, <4>2
        <4> QED
          BY <2>1, <2>5, <3>2, <4>3 DEF MailHolds, Safe
      <3> QED
        BY <2>2, <2>3, <3>1, <3>2
    <2> QED
      BY <2>6 DEF SentInv
  <1>8. ASSUME NEW m \in wire, ServeCase(m) \/ ServeGet(m) \/ Unheard(m), Calm PROVE SentInv'
    <2>1. UNCHANGED tab
      BY <1>8 DEF ServeCase, ServeGet, Unheard
    <2>2. \/ wire' = wire \ {m}
          \/ \E op \in {"changed", "unchanged", "problem", "no problem"} :
               \E data : wire' = (wire \ {m}) \cup {Answer(m, op, data)}
      BY <1>8 DEF ServeCase, ServeGet, Unheard
    <2>3. \A o \in wire' : o \in wire \/ o.op \notin {"put", "saved"}
      <3>1. CASE wire' = wire \ {m}
        BY <3>1
      <3>2. ASSUME NEW op \in {"changed", "unchanged", "problem", "no problem"}, NEW data,
                   wire' = (wire \ {m}) \cup {Answer(m, op, data)}
            PROVE  \A o \in wire' : o \in wire \/ o.op \notin {"put", "saved"}
        <4>1. Answer(m, op, data) = Message(m.tab, m.instance, op, data)
          BY MessageHas DEF ShapeInv, WireInv
        <4>2. wire' = (wire \ {m}) \cup {Message(m.tab, m.instance, op, data)} /\ wire \ {m} \subseteq wire
          BY <3>2, <4>1
        <4> QED
          BY <4>2, <1>c
      <3> QED
        BY <2>2, <3>1, <3>2
    <2> QED
      BY <1>8, <1>d, <2>1, <2>3
  <1>9. ASSUME NEW m \in wire, ProblemArrives(m), Calm PROVE SentInv'
    <2>1. PICK y : OneTab(m.tab, y) /\ y.instance = tab[m.tab].instance /\ y.sent = tab[m.tab].sent
      BY <1>9, ProblemArrivesDoes
    <2>2. wire' = wire \ {m} /\ tab[m.tab].open
      BY <1>9 DEF ProblemArrives, Own
    <2> QED
      BY <1>0, <1>9, <2>1, <2>2, <1>a DEF Mine
  <1>10. ASSUME NEW m \in wire, SaveEnds(m), Calm PROVE SentInv'
    <2>1. wire' = wire \ {m}
      BY <1>10 DEF SaveEnds
    <2>2. CASE UNCHANGED tab
      BY <1>10, <2>1, <2>2, <1>d
    <2>3. CASE \E y \in Forms(texts) : OneTab(m.tab, y) /\ ~y.open
      BY <1>0, <1>10, <2>1, <2>3, <1>a DEF Mine
    <2> QED
      BY <1>10, <2>2, <2>3, SaveEndsDoes
  <1>11. ASSUME NEW m \in wire, LoadFails(m) \/ SaveRefused(m) \/ CaseEnds(m), Calm PROVE SentInv'
    <2>1. \E y \in Forms(texts) : OneTab(m.tab, y) /\ AsBefore(tab[m.tab], y) /\ y.sent = tab[m.tab].sent
      BY <1>11, LoadFailsDoes, SaveRefusedDoes, CaseEndsDoes
    <2>2. \/ wire' = wire \ {m}
          \/ wire' = (wire \ {m}) \cup {Message(m.tab, tab[m.tab].instance, "get", 0)}
      BY <1>11, CaseEndsDoes DEF LoadFails, SaveRefused
    <2>3. wire \ {m} \subseteq wire
      OBVIOUS
    <2>4. \A o \in wire' : o \in wire \/ o.op \notin {"put", "saved"}
      BY <2>2, <2>3, <1>c
    <2> QED
      BY <1>0, <1>11, <2>1, <2>4, <1>b
  <1>12. CASE texts' = texts
    <2>1. Calm
      BY <1>12, CalmStep
    <2>2. CASE UNCHANGED editorVars
      BY <1>d, <2>1, <2>2 DEF editorVars
    <2>3. ASSUME NEW t \in Tabs, NEW f \in Fields, TypeText(t, f) PROVE FALSE
      BY <1>12, <2>3 DEF TypeText, ShapeInv, TableInv
    <2> QED
      BY <1>1, <1>2, <1>4, <1>6, <1>7, <1>8, <1>9, <1>10, <1>11, <2>1, <2>2, <2>3 DEF EditorNext
  <1>13. CASE \E t \in Tabs, f \in Fields : TypeText(t, f)
    BY <1>3, <1>13
  <1>14. texts' = texts \/ \E t \in Tabs, f \in Fields : TypeText(t, f)
    BY DEF EditorNext, OpenForm, LeaveForm, CancelForm, SwitchLanguage, SaveForm, AddCase, RemoveCase, ServeSave,
           ServeCase, ServeGet, ProblemArrives, LoadFails, SaveEnds, SaveRefused, CaseEnds, Unheard, editorVars
  <1> QED
    BY <1>12, <1>13, <1>14

-----------------------------------------------------------------------------
(* The last test case, and the columns of a form that was never loaded     *)
CasesStay ==
  /\ cases # {}
  /\ \A m, o \in wire : m.op = "delete" /\ o.op = "delete" => m = o
  /\ \A m \in wire : m.op = "delete" => \E a, b \in cases : a # b

CasesInv == blind \/ CasesStay

Full(g) == \A f \in Fields : g[f] # NoText

RowsStay ==
  /\ Full(row)
  /\ \A m \in wire : /\ m.op = "put" => Full(m.data.row)
                     /\ m.op = "problem" => Full(m.data.row)
  /\ \A t \in Tabs : tab[t].open /\ tab[t].loaded => Full(tab[t].form)

RowsInv == unread \/ RowsStay

(* The messages that these are about come from one action each             *)
Told == {"delete", "put", "problem"}

LEMMA OnePut ==
  ASSUME NEW W, W \subseteq wire, NEW t, NEW k, NEW op, NEW data, wire' = W \cup {Message(t, k, op, data)}
  PROVE  \A m \in wire' : m \in wire \/ (m.op = op /\ m.data = data)
  <1>1. PICK n : n = Message(t, k, op, data)
    OBVIOUS
  <1>2. n.op = op /\ n.data = data
    BY ONLY <1>1 DEF Message
  <1> QED
    BY <1>1, <1>2

LEMMA OneAnswer ==
  ASSUME ShapeInv, NEW m \in wire, NEW op, NEW data, wire' = (wire \ {m}) \cup {Answer(m, op, data)}
  PROVE  \A o \in wire' : o \in wire \/ (o.op = op /\ o.data = data)
  <1>1. PICK n : n = Message(m.tab, m.instance, op, data)
    OBVIOUS
  <1>2. n.op = op /\ n.data = data
    BY ONLY <1>1 DEF Message
  <1>3. Answer(m, op, data) = n
    BY <1>1, MessageHas DEF ShapeInv, WireInv
  <1> QED
    BY <1>2, <1>3

LEMMA Untold ==
  ASSUME ShapeInv, [EditorNext]_editorVars,
         \A t \in Tabs : ~SaveForm(t) /\ \A c \in 1 .. MaxCases : ~RemoveCase(t, c),
         \A m \in wire : ~ServeGet(m)
  PROVE  \A m \in wire' : m \in wire \/ m.op \notin Told
  <1>a. ASSUME NEW W, W \subseteq wire, NEW t, NEW k, NEW op, NEW data, op \notin Told,
               wire' = W \cup {Message(t, k, op, data)}
        PROVE  \A m \in wire' : m \in wire \/ m.op \notin Told
    BY <1>a, OnePut
  <1>1. ASSUME NEW t \in Tabs, OpenForm(t) PROVE \A m \in wire' : m \in wire \/ m.op \notin Told
    <2>1. PICK k : wire' = wire \cup {Message(t, k, "get", 0)}
      BY <1>1, OpenFormDoes
    <2>2. "get" \notin Told
      BY DEF Told
    <2> QED
      BY <2>1, <2>2, <1>a
  <1>2. ASSUME NEW t \in Tabs, AddCase(t) PROVE \A m \in wire' : m \in wire \/ m.op \notin Told
    <2>1. PICK p : p = [case |-> posted', editor |-> tab[t].editor]
      OBVIOUS
    <2>2. wire' = wire \cup {Message(t, tab[t].instance, "post", p)}
      BY <1>2, <2>1 DEF AddCase, Ask, Message
    <2>3. "post" \notin Told
      BY DEF Told
    <2> QED
      BY <2>2, <2>3, <1>a
  <1>3. ASSUME NEW m \in wire, ServeSave(m) \/ ServeCase(m)
        PROVE  \A o \in wire' : o \in wire \/ o.op \notin Told
    <2>1. PICK op, data :
            /\ op \in {"saved", "refused", "changed", "unchanged"}
            /\ wire' = (wire \ {m}) \cup {Answer(m, op, data)}
      BY <1>3 DEF ServeSave, ServeCase
    <2>2. wire' = (wire \ {m}) \cup {Message(m.tab, m.instance, op, data)} /\ wire \ {m} \subseteq wire
      BY <2>1, MessageHas DEF ShapeInv, WireInv
    <2>3. op \notin Told
      BY <2>1 DEF Told
    <2> QED
      BY <2>2, <2>3, <1>a
  <1>4. ASSUME NEW m \in wire, CaseEnds(m) PROVE \A o \in wire' : o \in wire \/ o.op \notin Told
    <2>1. CASE wire' = (wire \ {m}) \cup {Message(m.tab, tab[m.tab].instance, "get", 0)}
      <3>1. "get" \notin Told /\ wire \ {m} \subseteq wire
        BY DEF Told
      <3> QED
        BY <2>1, <3>1, <1>a
    <2>2. CASE wire' = wire \ {m}
      BY <2>2
    <2> QED
      BY <1>4, <2>1, <2>2, CaseEndsDoes
  <1>5. ASSUME wire' \subseteq wire PROVE \A o \in wire' : o \in wire \/ o.op \notin Told
    BY <1>5
  <1>6. ASSUME NEW m \in wire, ProblemArrives(m) \/ LoadFails(m) \/ SaveEnds(m) \/ SaveRefused(m) \/ Unheard(m)
        PROVE  wire' \subseteq wire
    BY <1>6 DEF ProblemArrives, LoadFails, SaveEnds, SaveRefused, Unheard
  <1>7. ASSUME NEW t \in Tabs, NEW f \in Fields, TypeText(t, f) PROVE wire' \subseteq wire
    BY <1>7 DEF TypeText
  <1>8. ASSUME NEW t \in Tabs, LeaveForm(t) \/ CancelForm(t) PROVE wire' \subseteq wire
    BY <1>8 DEF LeaveForm, CancelForm
  <1>9. CASE UNCHANGED editorVars
    BY <1>9 DEF editorVars
  <1>10. ASSUME NEW t \in Tabs, SwitchLanguage(t) PROVE \A m \in wire' : m \in wire \/ m.op \notin Told
    <2>1. wire' = wire \cup {Message(t, tab[t].instance, "get", 0)} /\ "get" \notin Told
      BY <1>10, SwitchLanguageDoes DEF Told
    <2> QED
      BY <2>1, <1>a
  <1> QED
    BY <1>1, <1>2, <1>3, <1>4, <1>5, <1>6, <1>7, <1>8, <1>9, <1>10 DEF EditorNext

LEMMA CasesStep == ASSUME ShapeInv, CasesInv, [EditorNext]_editorVars PROVE CasesInv'
  <1>a. ASSUME UNCHANGED <<cases, blind>>, \A m \in wire' : m \in wire \/ m.op # "delete"
        PROVE  CasesInv'
    <2>1. CASE blind
      BY <1>a, <2>1 DEF CasesInv
    <2>2. CASE CasesStay
      <3>1. CasesStay'
        BY <1>a, <2>2 DEF CasesStay
      <3> QED
        BY <3>1 DEF CasesInv
    <2> QED
      BY <2>1, <2>2 DEF CasesInv
  <1>1. ASSUME NEW t \in Tabs, NEW c \in 1 .. MaxCases, RemoveCase(t, c), ~blind' PROVE CasesStay'
    <2>1. /\ ~blind /\ tab[t].list = cases /\ c \in tab[t].list /\ Cardinality(tab[t].list) > 1
          /\ \A m \in wire : m.op # "delete"
      BY <1>1 DEF RemoveCase, Removable, MayRemove
    <2>2. PICK L : L = tab[t].list
      OBVIOUS
    <2>3. L = cases /\ c \in L /\ Cardinality(L) > 1
      BY <2>1, <2>2
    <2>4. L # {c}
      <3>1. Cardinality({c}) = 1
        BY FS_Singleton
      <3> QED
        BY <2>3, <3>1
    <2>5. \E a, b \in cases : a # b
      BY <2>3, <2>4
    <2>6. PICK n : n = Message(t, tab[t].instance, "delete", [case |-> c, editor |-> tab[t].editor])
      OBVIOUS
    <2>7. wire' = wire \cup {n} /\ cases' = cases
      BY <1>1, <2>6 DEF RemoveCase, Ask, Message
    <2>8. \A m, o \in wire' : m.op = "delete" /\ o.op = "delete" => m = o
      BY <2>1, <2>7
    <2>9. cases # {}
      BY <2>5
    <2> QED
      BY <2>5, <2>7, <2>8, <2>9 DEF CasesStay
  <1>2. ASSUME NEW m \in wire, ServeCase(m), CasesStay PROVE CasesStay'
    <2>1. /\ \A o \in wire' : (o \in wire /\ o # m) \/ o.op # "delete"
          /\ m.op \in {"post", "delete"}
      <3>1. PICK op, data :
                  /\ op \in {"changed", "unchanged"}
                  /\ wire' = (wire \ {m}) \cup {Answer(m, op, data)}
        BY <1>2 DEF ServeCase
      <3>2. Answer(m, op, data) = Message(m.tab, m.instance, op, data)
        BY MessageHas DEF ShapeInv, WireInv
      <3>3. PICK n : n = Message(m.tab, m.instance, op, data)
        OBVIOUS
      <3>4. n.op = op
        BY ONLY <3>3 DEF Message
      <3> QED
        BY <1>2, <3>1, <3>2, <3>3, <3>4 DEF ServeCase
    <2>2. \A p, o \in wire' : p.op = "delete" /\ o.op = "delete" => p = o
      BY <1>2, <2>1 DEF CasesStay
    <2>3. CASE m.op = "delete"
      <3>1. PICK a, b \in cases : a # b
        BY <1>2, <2>3 DEF CasesStay
      <3>2. cases' = cases \/ cases' = cases \ {m.data.case}
        BY <1>2, <2>3 DEF ServeCase
      <3>3. cases' # {}
        BY <3>1, <3>2
      <3>4. \A o \in wire' : o.op # "delete"
        BY <1>2, <2>1, <2>3 DEF CasesStay
      <3> QED
        BY <2>2, <3>3, <3>4 DEF CasesStay
    <2>4. CASE m.op = "post"
      <3>1. cases \subseteq cases'
        BY <1>2, <2>4 DEF ServeCase
      <3>2. \A o \in wire' : o.op = "delete" => o \in wire
        BY <2>1
      <3> QED
        BY <1>2, <2>2, <3>1, <3>2 DEF CasesStay
    <2> QED
      BY <2>1, <2>3, <2>4
  <1>3. ASSUME NEW t \in Tabs, SaveForm(t) PROVE CasesInv'
    <2>1. PICK y, data :
                /\ y \in Forms(texts)
                /\ wire' = wire \cup {Message(t, y.instance, "put", data)}
      BY <1>3, SaveFormDoes
    <2>2. \A m \in wire' : m \in wire \/ m.op # "delete"
      BY <2>1, OnePut
    <2> QED
      BY <1>3, <2>2, <1>a DEF SaveForm
  <1>4. ASSUME NEW m \in wire, ServeGet(m) PROVE CasesInv'
    <2>1. PICK op \in {"problem", "no problem"} : \E data : wire' = (wire \ {m}) \cup {Answer(m, op, data)}
      BY <1>4 DEF ServeGet
    <2>2. PICK data : wire' = (wire \ {m}) \cup {Answer(m, op, data)}
      BY <2>1
    <2>5. \A o \in wire' : o \in wire \/ (o.op = op /\ o.data = data)
      BY <2>2, OneAnswer
    <2>6. \A o \in wire' : o \in wire \/ o.op # "delete"
      BY <2>1, <2>5
    <2> QED
      BY <1>4, <2>6, <1>a DEF ServeGet
  <1>5. ASSUME NEW t \in Tabs, NEW c \in 1 .. MaxCases, RemoveCase(t, c) PROVE CasesInv'
    BY <1>1, <1>5 DEF CasesInv
  <1>6. ASSUME NEW m \in wire, ServeCase(m) PROVE CasesInv'
    <2>1. blind' = blind
      BY <1>6 DEF ServeCase
    <2> QED
      BY <1>2, <1>6, <2>1 DEF CasesInv
  <1>7. ASSUME \A t \in Tabs : ~SaveForm(t) /\ \A c \in 1 .. MaxCases : ~RemoveCase(t, c),
               \A m \in wire : ~ServeGet(m) /\ ~ServeCase(m)
        PROVE  CasesInv'
    <2>1. \A m \in wire' : m \in wire \/ m.op # "delete"
      BY <1>7, Untold DEF Told
    <2>2. UNCHANGED <<cases, blind>>
      BY <1>7 DEF EditorNext, OpenForm, LeaveForm, CancelForm, SwitchLanguage, AddCase, TypeText, ServeSave, ProblemArrives, LoadFails,
                  SaveEnds, SaveRefused, CaseEnds, Unheard, editorVars
    <2> QED
      BY <2>1, <2>2, <1>a
  <1> QED
    BY <1>3, <1>4, <1>5, <1>6, <1>7

LEMMA RowsStep == ASSUME ShapeInv, RowsInv, [EditorNext]_editorVars PROVE RowsInv'
  <1>0. \A m \in wire : m.tab \in Tabs
    BY MessageHas DEF ShapeInv, WireInv
  <1>a. ASSUME RowsStay, UNCHANGED row,
               \A m \in wire' : m \in wire \/ m.op \notin Told,
               NEW t \in Tabs, NEW y, OneTab(t, y), y.open /\ y.loaded => Full(y.form)
        PROVE  RowsStay'
    <2>1. tab'[t] = y /\ \A u \in Tabs : u # t => tab'[u] = tab[u]
      BY <1>a, OneTabIs DEF ShapeInv
    <2>2. \A m \in wire' : /\ m.op = "put" => Full(m.data.row)
                           /\ m.op = "problem" => Full(m.data.row)
      BY <1>a DEF RowsStay, Told
    <2>3. \A u \in Tabs : tab'[u].open /\ tab'[u].loaded => Full(tab'[u].form)
      BY <1>a, <2>1 DEF RowsStay
    <2> QED
      BY <1>a, <2>2, <2>3 DEF RowsStay, Full
  <1>b. ASSUME RowsStay, UNCHANGED <<row, tab>>, \A m \in wire' : m \in wire \/ m.op \notin Told
        PROVE  RowsStay'
    <2>2. \A m \in wire' : /\ m.op = "put" => Full(m.data.row)
                           /\ m.op = "problem" => Full(m.data.row)
      BY <1>b DEF RowsStay, Told
    <2> QED
      BY <1>b, <2>2 DEF RowsStay, Full
  <1>c. ASSUME RowsStay, NEW t \in Tabs PROVE tab[t].open /\ tab[t].loaded => Full(tab[t].form)
    BY <1>c DEF RowsStay
  <1>1. ASSUME NEW t \in Tabs, SaveForm(t), RowsStay, ~unread' PROVE RowsStay'
    <2>1. PICK y, data :
            /\ y \in Forms(texts)
            /\ OneTab(t, y) /\ y.form = tab[t].form /\ data.row = tab[t].form
            /\ wire' = wire \cup {Message(t, y.instance, "put", data)}
      BY <1>1, SaveFormDoes DEF AsBefore
    <2>2. tab'[t] = y /\ \A u \in Tabs : u # t => tab'[u] = tab[u]
      BY <2>1, OneTabIs DEF ShapeInv
    <2>3. Full(tab[t].form) /\ row' = row
      BY <1>1, <1>c DEF SaveForm, Shown
    <2>4. \A m \in wire' : m \in wire \/ (m.op = "put" /\ m.data = data)
      BY <2>1, OnePut
    <2>5. \A m \in wire' : /\ m.op = "put" => Full(m.data.row)
                           /\ m.op = "problem" => Full(m.data.row)
      BY <1>1, <2>1, <2>3, <2>4 DEF RowsStay
    <2>6. \A u \in Tabs : tab'[u].open /\ tab'[u].loaded => Full(tab'[u].form)
      BY <1>1, <2>1, <2>2, <2>3 DEF RowsStay
    <2> QED
      BY <1>1, <2>3, <2>5, <2>6 DEF RowsStay, Full
  <1>2. ASSUME NEW t \in Tabs, NEW f \in Fields, TypeText(t, f), RowsStay PROVE RowsStay'
    <2>1. texts' = texts + 1 /\ texts \in Nat
      BY <1>2 DEF TypeText, ShapeInv, TableInv
    <2>2. PICK y \in Forms(texts') : /\ OneTab(t, y) /\ y.form = [tab[t].form EXCEPT ![f] = texts']
                                   /\ y.open = tab[t].open /\ y.loaded = tab[t].loaded
      BY <1>2, TypeTextDoes
    <2>3. tab[t].form \in Written(texts)
      BY FormHas DEF ShapeInv, TabsInv
    <2>4. y.form[f] = texts' /\ \A g \in Fields : g # f => y.form[g] = tab[t].form[g]
      BY <2>2, <2>3 DEF Written
    <2>5. texts' # NoText
      BY <2>1 DEF NoText
    <2>6. ASSUME y.open, y.loaded PROVE Full(y.form)
      <3>1. Full(tab[t].form)
        BY <1>2, <1>c, <2>2, <2>6
      <3> QED
        BY <2>4, <2>5, <3>1 DEF Full
    <2>7. \A m \in wire' : m \in wire \/ m.op \notin Told
      BY <1>2 DEF TypeText
    <2> QED
      BY <1>2, <1>a, <2>2, <2>6, <2>7 DEF TypeText
  <1>3. ASSUME NEW m \in wire, ServeSave(m), RowsStay,
               \A o \in wire' : o \in wire \/ o.op \notin Told
        PROVE  RowsStay'
    <2>1. tab' = tab /\ m.op = "put" /\ (row' = row \/ row' = m.data.row)
      BY <1>3 DEF ServeSave
    <2>2. Full(row')
      BY <1>3, <2>1 DEF RowsStay
    <2>3. \A o \in wire' : /\ o.op = "put" => Full(o.data.row)
                           /\ o.op = "problem" => Full(o.data.row)
      BY <1>3 DEF RowsStay, Told
    <2> QED
      BY <1>3, <2>1, <2>2, <2>3 DEF RowsStay, Full
  <1>4. ASSUME NEW m \in wire, ServeGet(m), RowsStay PROVE RowsStay'
    <2>0. UNCHANGED <<row, tab>>
      BY <1>4 DEF ServeGet
    <2>1. CASE wire' = (wire \ {m}) \cup {Answer(m, "problem", [row |-> row, cases |-> cases])}
      <3>1. PICK data : data = [row |-> row, cases |-> cases]
        OBVIOUS
      <3>2. data.row = row
        BY <3>1
      <3>3. wire' = (wire \ {m}) \cup {Answer(m, "problem", data)}
        BY <2>1, <3>1
      <3>4. \A o \in wire' : o \in wire \/ (o.op = "problem" /\ o.data = data)
        BY <3>3, OneAnswer
      <3>5. \A o \in wire' : /\ o.op = "put" => Full(o.data.row)
                             /\ o.op = "problem" => Full(o.data.row)
        BY <1>4, <3>2, <3>4 DEF RowsStay
      <3> QED
        BY <1>4, <2>0, <3>5 DEF RowsStay, Full
    <2>2. CASE wire' = (wire \ {m}) \cup {Answer(m, "no problem", 0)}
      <3>4. \A o \in wire' : o \in wire \/ (o.op = "no problem" /\ o.data = 0)
        BY <2>2, OneAnswer
      <3>2. \A o \in wire' : o \in wire \/ o.op \notin Told
        BY <3>4 DEF Told
      <3> QED
        BY <1>4, <1>b, <2>0, <3>2
    <2> QED
      BY <1>4, <2>1, <2>2 DEF ServeGet
  <1>5. ASSUME NEW t \in Tabs, NEW c \in 1 .. MaxCases, RemoveCase(t, c), RowsStay PROVE RowsStay'
    <2>1. PICK y \in Forms(texts) : OneTab(t, y) /\ AsBefore(tab[t], y)
      BY <1>5, CaseClickDoes DEF RemoveCase
    <2>2. row' = row /\ \E p : wire' = wire \cup {Message(t, tab[t].instance, "delete", p)}
      BY <1>5 DEF RemoveCase, Ask, Message
    <2>3. \A m \in wire' : m \in wire \/ m.op = "delete"
      BY <2>2, OnePut
    <2>4. tab'[t] = y /\ \A u \in Tabs : u # t => tab'[u] = tab[u]
      BY <2>1, OneTabIs DEF ShapeInv
    <2>5. \A o \in wire' : /\ o.op = "put" => Full(o.data.row)
                           /\ o.op = "problem" => Full(o.data.row)
      BY <1>5, <2>3 DEF RowsStay
    <2>6. \A u \in Tabs : tab'[u].open /\ tab'[u].loaded => Full(tab'[u].form)
      BY <1>5, <2>1, <2>4 DEF RowsStay, AsBefore
    <2> QED
      BY <1>5, <2>2, <2>5, <2>6 DEF RowsStay, Full
  <1>6. ASSUME NEW t \in Tabs, RowsStay,
               OpenForm(t) \/ LeaveForm(t) \/ CancelForm(t) \/ SwitchLanguage(t) \/ AddCase(t),
               \A o \in wire' : o \in wire \/ o.op \notin Told
        PROVE  RowsStay'
    <2>1. PICK y \in Forms(texts) : OneTab(t, y) /\ (~y.open \/ ~y.loaded \/ AsBefore(tab[t], y))
      BY <1>6, OpenFormDoes, FormCloses, SwitchLanguageDoes, CaseClickDoes DEF LeaveForm, CancelForm, AddCase
    <2>2. y.open /\ y.loaded => Full(y.form)
      BY <1>6, <1>c, <2>1 DEF AsBefore
    <2>3. row' = row
      BY <1>6 DEF OpenForm, LeaveForm, CancelForm, SwitchLanguage, AddCase
    <2> QED
      BY <1>6, <1>a, <2>1, <2>2, <2>3
  <1>7. ASSUME NEW m \in wire, ProblemArrives(m), RowsStay,
               \A o \in wire' : o \in wire \/ o.op \notin Told
        PROVE  RowsStay'
    <2>1. PICK y \in Forms(texts) : OneTab(m.tab, y) /\ y.form = m.data.row
      BY <1>7, ProblemArrivesDoes
    <2>2. m.op = "problem" /\ row' = row
      BY <1>7 DEF ProblemArrives
    <2>3. Full(y.form)
      BY <1>7, <2>1, <2>2 DEF RowsStay
    <2> QED
      BY <1>0, <1>7, <1>a, <2>1, <2>2, <2>3
  <1>8. ASSUME NEW m \in wire, LoadFails(m) \/ SaveEnds(m) \/ SaveRefused(m) \/ CaseEnds(m), RowsStay,
               \A o \in wire' : o \in wire \/ o.op \notin Told
        PROVE  RowsStay'
    <2>1. row' = row
      BY <1>8 DEF LoadFails, SaveEnds, SaveRefused, CaseEnds
    <2>2. CASE UNCHANGED tab
      BY <1>8, <1>b, <2>1, <2>2
    <2>3. CASE \E y \in Forms(texts) : /\ OneTab(m.tab, y)
                                     /\ \/ ~y.open
                                        \/ /\ y.open = tab[m.tab].open /\ y.loaded = tab[m.tab].loaded
                                           /\ y.form = tab[m.tab].form
      <3>1. PICK y \in Forms(texts) : /\ OneTab(m.tab, y)
                                    /\ \/ ~y.open
                                       \/ /\ y.open = tab[m.tab].open /\ y.loaded = tab[m.tab].loaded
                                          /\ y.form = tab[m.tab].form
        BY <2>3
      <3>2. y.open /\ y.loaded => Full(y.form)
        BY <1>0, <1>8, <1>c, <3>1
      <3> QED
        BY <1>0, <1>8, <1>a, <2>1, <3>1, <3>2
    <2>4. CASE LoadFails(m)
      BY <2>3, <2>4, LoadFailsDoes DEF AsBefore
    <2>5. CASE SaveEnds(m)
      BY <2>2, <2>3, <2>5, SaveEndsDoes
    <2>6. CASE SaveRefused(m)
      BY <2>3, <2>6, SaveRefusedDoes DEF AsBefore
    <2>7. CASE CaseEnds(m)
      BY <2>3, <2>7, CaseEndsDoes DEF AsBefore
    <2> QED
      BY <1>8, <2>4, <2>5, <2>6, <2>7
  <1>9. CASE unread /\ ~unread'
    BY <1>9 DEF EditorNext, OpenForm, LeaveForm, CancelForm, SwitchLanguage, AddCase, RemoveCase, SaveForm,
               TypeText, ServeSave, ServeCase, ServeGet, ProblemArrives, LoadFails, SaveEnds, SaveRefused, CaseEnds, Unheard, editorVars
  <1>10. ASSUME RowsStay, ~unread' PROVE RowsStay'
    <2>1. CASE \E t \in Tabs : SaveForm(t) \/ \E c \in 1 .. MaxCases : RemoveCase(t, c)
      BY <1>1, <1>5, <1>10, <2>1
    <2>2. CASE \E m \in wire : ServeGet(m)
      BY <1>4, <1>10, <2>2
    <2>3. ASSUME \A t \in Tabs : ~SaveForm(t) /\ \A c \in 1 .. MaxCases : ~RemoveCase(t, c),
                 \A m \in wire : ~ServeGet(m)
          PROVE  RowsStay'
      <3>1. \A o \in wire' : o \in wire \/ o.op \notin Told
        BY <2>3, Untold
      <3>2. ASSUME NEW m \in wire, ServeCase(m) \/ Unheard(m) PROVE RowsStay'
        BY <1>10, <1>b, <3>1, <3>2 DEF ServeCase, Unheard
      <3>3. CASE UNCHANGED editorVars
        BY <1>10, <1>b, <3>1, <3>3 DEF editorVars
      <3> QED
        BY <1>2, <1>3, <1>6, <1>7, <1>8, <1>10, <2>3, <3>1, <3>2, <3>3 DEF EditorNext
    <2> QED
      BY <2>1, <2>2, <2>3
  <1> QED
    BY <1>9, <1>10 DEF RowsInv

-----------------------------------------------------------------------------
EditorInv ==
  ShapeInv /\ Saves(wire, tab) /\ TypedInv /\ SentInv /\ CasesInv /\ RowsInv

LEMMA EditorStarts == EditorInit => EditorInv
  <1> SUFFICES ASSUME EditorInit PROVE EditorInv
    OBVIOUS
  <1> USE DEF EditorInit
  <1>1. TableInv
    <2>1. row \in Written(texts)
      BY DEF Written
    <2>2. owed \in [Tabs -> Written(texts)]
      BY BlankWritten
    <2>3. 1 \in 1 .. MaxTyped /\ 2 \in 2 .. MaxCases /\ {1, 2} \subseteq 1 .. MaxCases
      BY EditorAssumption
    <2>4. lost \in [Tabs -> [Fields -> Ways]]
      BY DEF Ways
    <2> QED
      BY <2>1, <2>2, <2>3, <2>4 DEF TableInv
  <1>2. TabsInv
    BY ClosedTabIs DEF TabsInv
  <1>3. \A t \in Tabs : ~tab[t].open
    BY DEF ClosedTab
  <1>4. TypedInv
    BY DEF TypedInv, Safe, Blank
  <1>5. CasesInv
    BY DEF CasesInv, CasesStay
  <1>6. RowsInv
    BY <1>3 DEF RowsInv, RowsStay, Full, NoText
  <1> QED
    BY <1>1, <1>2, <1>4, <1>5, <1>6 DEF EditorInv, ShapeInv, WireInv, Saves, SentInv

LEMMA EditorSteps == EditorInv /\ [EditorNext]_editorVars => EditorInv'
  <1> SUFFICES ASSUME EditorInv, [EditorNext]_editorVars PROVE EditorInv'
    OBVIOUS
  <1> USE DEF EditorInv
  <1>1. ShapeInv' /\ TypedInv' /\ SentInv' /\ CasesInv' /\ RowsInv'
    BY ShapeStep, TypedStep, SentStep, CasesStep, RowsStep
  <1>2. Saves(wire', tab')
    BY SavesStep
  <1> QED
    BY <1>1, <1>2

LEMMA EditorTyped == EditorInv => EditorTypeOK
  <1> SUFFICES ASSUME EditorInv PROVE EditorTypeOK
    OBVIOUS
  <1> USE DEF EditorInv, ShapeInv
  <1>1. texts \in 1 .. MaxTyped /\ texts \in Nat
    BY EditorAssumption DEF TableInv
  <1>2. Written(texts) \subseteq [Fields -> 0 .. MaxTyped]
    <2>1. 0 .. texts \subseteq 0 .. MaxTyped
      BY <1>1, EditorAssumption
    <2> QED
      BY <2>1 DEF Written
  <1>3. ASSUME NEW t \in Tabs
        PROVE  Cardinality({m \in wire : m.tab = t /\ m.instance = tab[t].instance /\
                                         m.op \in {"put", "saved", "refused"}}) =< 1
    <2> DEFINE S == {m \in wire : m.tab = t /\ m.instance = tab[t].instance /\
                                  m.op \in {"put", "saved", "refused"}}
    <2>1. \A m, o \in S : m = o
      BY DEF Saves, InSave
    <2> HIDE DEF S
    <2>2. CASE S = {}
      BY <2>2, FS_EmptySet DEF S
    <2>3. CASE \E m : S = {m}
      <3>1. PICK m : S = {m}
        BY <2>3
      <3>2. Cardinality(S) = 1
        BY <3>1, FS_Singleton
      <3> QED
        BY <3>2 DEF S
    <2>4. S = {} \/ \E m : S = {m}
      <3>1. CASE S # {}
        <4>1. PICK m : m \in S
          BY <3>1
        <4>2. S = {m}
          BY <2>1, <4>1
        <4> QED
          BY <4>2
      <3> QED
        BY <3>1
    <2> QED
      BY <2>2, <2>3, <2>4
  <1>4. \A t \in Tabs : tab[t].form \in [Fields -> 0 .. MaxTyped] /\ tab[t].list \subseteq 1 .. MaxCases
    BY <1>2, FormHas DEF TabsInv
  <1>5. row \in [Fields -> 0 .. MaxTyped] /\ owed \in [Tabs -> [Fields -> 0 .. MaxTyped]]
    BY <1>2 DEF TableInv
  <1>6. lost \in [Tabs -> [Fields -> {"no", "left", "reload", "late", "earlier", "stale"}]]
    BY DEF TableInv, Ways
  <1> QED
    BY <1>3, <1>4, <1>5, <1>6 DEF EditorTypeOK, TableInv

LEMMA EditorKeeps == EditorInv => EditsAreKept
  <1> SUFFICES ASSUME EditorInv PROVE EditsAreKept
    OBVIOUS
  <1> USE DEF EditorInv
  <1>1. TypedIsKept
    BY DEF TypedInv, Holds, Safe, Typed, TypedIsKept
  <1>2. cases = {} => blind
    BY DEF CasesInv, CasesStay
  <1>3. \A f \in Fields : row[f] = NoText => unread
    BY DEF RowsInv, RowsStay, Full
  <1> QED
    BY <1>1, <1>2, <1>3 DEF EditsAreKept, EmptiedOnlyUnseen

(* Editing a problem in any number of tabs that know nothing of one        *)
(* another: whatever is typed, saved, loaded, left and removed, over       *)
(* answers in any order, the last text typed in a tab and field is in that *)
(* tab's form or in the database, given up, or lost in one of the five     *)
(* ways that TypedIsKept names, the stale PUT of another tab among them;   *)
(* and columns and cases are emptied only unseen (ProblemForm.jsx,         *)
(* TestCaseEditor.jsx, TeacherPanel.jsx).                                  *)
THEOREM EditorKeepsEdits == EditorSpec => [](EditorTypeOK /\ EditsAreKept)
  <1>1. EditorInv => EditorTypeOK /\ EditsAreKept
    BY EditorTyped, EditorKeeps
  <1> QED
    BY EditorStarts, EditorSteps, <1>1, PTL DEF EditorSpec

-----------------------------------------------------------------------------
(***************************************************************************)
(* CoursePages, for any visits, pupils and helpers, and any number of clicks. *)
(***************************************************************************)

(* What the database, a page and an answer hold of the course, as far as   *)
(* it has been read                                                        *)
Cards(n) == [title : 1 .. n, archived : BOOLEAN, code : Nat]

ValuesOf(p, n) ==
  IF p = "card" THEN Cards(n) ELSE IF p = "students" THEN SUBSET Pupils ELSE SUBSET Helpers

Entries(p, n) == [value : ValuesOf(p, n), age : Nat]

Reads(D, n) == {g \in [D -> UNION {Entries(p, n) : p \in Parts}] : \A p \in D : g[p] \in Entries(p, n)}

Editors(n) == [on : BOOLEAN, title : 0 .. n, archived : BOOLEAN, saving : BOOLEAN, copy : Nat]

Pages(n) ==
  [visited : BOOLEAN, loading : BOOLEAN, loaded : BOOLEAN, shown : Reads(Parts, n),
   newest : [Parts -> Nat], missed : BOOLEAN, busy : BOOLEAN, editing : BOOLEAN, editor : Editors(n)]

(* The two kinds of message                                                *)
LoadOf(v, g) == [visit |-> v, op |-> "load", got |-> g]
ActOf(v, op, data, copy) == [visit |-> v, op |-> op, data |-> data, copy |-> copy]

ActOps == Acts \cup {"done", "failed"}

Fits(op, d, n) ==
  /\ op = "edit" => d.title \in 1 .. n /\ d.archived \in BOOLEAN
  /\ op = "enrol" => d \in Pupils
  /\ op = "appoint" => d \in Helpers

LoadSound(m, n) == \E v \in Visits : \E D \in SUBSET PartsOf(v) : \E g \in Reads(D, n) : m = LoadOf(v, g)

ActSound(m, n) ==
  \E v \in Visits, op \in ActOps : \E d, c : m = ActOf(v, op, d, c) /\ Fits(op, d, n)

MailSound(m, n) == LoadSound(m, n) \/ ActSound(m, n)

BaseInv ==
  /\ titles \in 1 .. MaxTitles
  /\ course \in Reads(Parts, titles)
  /\ author \in [Parts -> SUBSET Visits]
  /\ owing \in [Visits -> Nat] /\ removed \in [Visits -> BOOLEAN]

PagesInv == view \in [Visits -> Pages(titles)]

MailInv == \A m \in mail : MailSound(m, titles) /\ view[m.visit].visited

CoursesShape == BaseInv /\ PagesInv /\ MailInv

(* An editor is on a card that is shown, of a visit to the list            *)
CoursesOpen ==
  \A v \in Visits :
    /\ view[v].editing => v \in ListPages
    /\ view[v].editor.on => /\ view[v].editing /\ view[v].visited /\ ~view[v].loading /\ view[v].loaded
                            /\ view[v].editor.title \in 1 .. titles

-----------------------------------------------------------------------------
LEMMA PartsAre == ASSUME NEW v PROVE PartsOf(v) \subseteq Parts
  BY DEF PartsOf, Parts

LEMMA ReadIs ==
  ASSUME NEW D, NEW n, NEW g \in Reads(D, n)
  PROVE  /\ DOMAIN g = D /\ g = [p \in D |-> g[p]]
         /\ \A p \in D : g[p] \in Entries(p, n) /\ g[p].age \in Nat /\ g[p].value \in ValuesOf(p, n)
  BY DEF Reads, Entries

LEMMA IsRead ==
  ASSUME NEW n, NEW D, D \subseteq Parts, NEW g, g = [p \in D |-> g[p]], \A p \in D : g[p] \in Entries(p, n)
  PROVE  g \in Reads(D, n)
  BY DEF Reads

LEMMA LoadIs ==
  ASSUME NEW n, NEW m, MailSound(m, n), m.op = "load"
  PROVE  /\ m.visit \in Visits /\ DOMAIN m.got \subseteq PartsOf(m.visit)
         /\ m.got \in Reads(DOMAIN m.got, n)
         /\ m = LoadOf(m.visit, m.got)
  <1>1. ~ActSound(m, n)
    <2> SUFFICES ASSUME NEW v \in Visits, NEW op \in ActOps, NEW d, NEW c, m = ActOf(v, op, d, c)
                 PROVE  FALSE
      BY DEF ActSound
    <2>1. m.op = op
      BY DEF ActOf
    <2> QED
      BY <2>1 DEF ActOps, Acts
  <1>2. PICK v \in Visits : \E D \in SUBSET PartsOf(v) : \E g \in Reads(D, n) : m = LoadOf(v, g)
    BY <1>1 DEF MailSound, LoadSound
  <1>3. PICK D \in SUBSET PartsOf(v) : \E g \in Reads(D, n) : m = LoadOf(v, g)
    BY <1>2
  <1>4. PICK g \in Reads(D, n) : m = LoadOf(v, g)
    BY <1>3
  <1>5. m.visit = v /\ m.got = g
    BY <1>4 DEF LoadOf
  <1>6. DOMAIN g = D
    BY ReadIs
  <1> QED
    BY <1>4, <1>5, <1>6

LEMMA ActIs ==
  ASSUME NEW n, NEW m, MailSound(m, n), m.op # "load"
  PROVE  /\ m.visit \in Visits /\ m.op \in ActOps /\ Fits(m.op, m.data, n)
         /\ m = ActOf(m.visit, m.op, m.data, m.copy)
  <1>1. ~LoadSound(m, n)
    <2> SUFFICES ASSUME NEW v, NEW g, m = LoadOf(v, g) PROVE FALSE
      BY DEF LoadSound
    <2>1. m.op = "load"
      BY DEF LoadOf
    <2> QED
      BY <2>1
  <1>2. PICK v \in Visits, op \in ActOps : \E d, c : m = ActOf(v, op, d, c) /\ Fits(op, d, n)
    BY <1>1 DEF MailSound, ActSound
  <1>3. PICK d, c : m = ActOf(v, op, d, c) /\ Fits(op, d, n)
    BY <1>2
  <1>4. m.visit = v /\ m.op = op /\ m.data = d /\ m.copy = c
    BY <1>3 DEF ActOf
  <1> QED
    BY <1>3, <1>4

LEMMA VisitOf == ASSUME NEW n, NEW m, MailSound(m, n) PROVE m.visit \in Visits
  BY LoadIs, ActIs

LEMMA PageHas ==
  ASSUME NEW n, NEW k \in Pages(n)
  PROVE  /\ k.visited \in BOOLEAN /\ k.loading \in BOOLEAN /\ k.loaded \in BOOLEAN
         /\ k.shown \in Reads(Parts, n) /\ k.newest \in [Parts -> Nat] /\ k.missed \in BOOLEAN
         /\ k.busy \in BOOLEAN /\ k.editing \in BOOLEAN /\ k.editor \in Editors(n)
  BY DEF Pages

LEMMA EditorHas ==
  ASSUME NEW n, NEW e \in Editors(n)
  PROVE  /\ e.on \in BOOLEAN /\ e.title \in 0 .. n /\ e.archived \in BOOLEAN /\ e.saving \in BOOLEAN
         /\ e.copy \in Nat
  BY DEF Editors

LEMMA MoreTitles ==
  ASSUME NEW n \in Nat
  PROVE  /\ \A p : Entries(p, n) \subseteq Entries(p, n + 1)
         /\ \A D : D \subseteq Parts => Reads(D, n) \subseteq Reads(D, n + 1)
         /\ Editors(n) \subseteq Editors(n + 1) /\ Pages(n) \subseteq Pages(n + 1)
         /\ \A m : MailSound(m, n) => MailSound(m, n + 1)
  <1>1. 1 .. n \subseteq 1 .. (n + 1) /\ 0 .. n \subseteq 0 .. (n + 1)
    OBVIOUS
  <1>2. Cards(n) \subseteq Cards(n + 1)
    BY <1>1 DEF Cards
  <1>3. \A p : ValuesOf(p, n) \subseteq ValuesOf(p, n + 1)
    BY <1>2 DEF ValuesOf
  <1>4. \A p : Entries(p, n) \subseteq Entries(p, n + 1)
    BY <1>3 DEF Entries
  <1>5. ASSUME NEW D, D \subseteq Parts PROVE Reads(D, n) \subseteq Reads(D, n + 1)
    <2> SUFFICES ASSUME NEW g \in Reads(D, n) PROVE g \in Reads(D, n + 1)
      OBVIOUS
    <2>1. g = [p \in D |-> g[p]] /\ \A p \in D : g[p] \in Entries(p, n + 1)
      BY <1>4, ReadIs
    <2> QED
      BY <1>5, <2>1, IsRead
  <1>6. Editors(n) \subseteq Editors(n + 1)
    BY <1>1 DEF Editors
  <1>7. Pages(n) \subseteq Pages(n + 1)
    BY <1>5, <1>6 DEF Pages
  <1>8. ASSUME NEW m, LoadSound(m, n) PROVE LoadSound(m, n + 1)
    <2>1. PICK v \in Visits : \E D \in SUBSET PartsOf(v) : \E g \in Reads(D, n) : m = LoadOf(v, g)
      BY <1>8 DEF LoadSound
    <2>2. PICK D \in SUBSET PartsOf(v) : \E g \in Reads(D, n) : m = LoadOf(v, g)
      BY <2>1
    <2>3. D \subseteq Parts
      BY PartsAre
    <2> QED
      BY <1>5, <2>2, <2>3 DEF LoadSound
  <1>9. ASSUME NEW m, ActSound(m, n) PROVE ActSound(m, n + 1)
    <2>1. \A op, d : Fits(op, d, n) => Fits(op, d, n + 1)
      BY <1>1 DEF Fits
    <2> QED
      BY <1>9, <2>1 DEF ActSound
  <1> QED
    BY <1>4, <1>5, <1>6, <1>7, <1>8, <1>9 DEF MailSound

-----------------------------------------------------------------------------
(* What the handlers make of a page                                        *)
SamePage(k, y) ==
  y.visited = k.visited /\ y.loaded = k.loaded /\ y.shown = k.shown /\ y.newest = k.newest /\ y.missed = k.missed

SameEditor(k, y) ==
  y.loading = k.loading /\ y.editing = k.editing /\ y.editor.on = k.editor.on /\ y.editor.title = k.editor.title

LEMMA ClosedIs ==
  ASSUME NEW n \in Nat, NEW e \in Editors(n)
  PROVE  ClosedEditor(e) \in Editors(n) /\ ~ClosedEditor(e).on
  <1>1. NoEditor \in Editors(n) /\ NoEditor.on = FALSE
    BY DEF NoEditor, Editors
  <1>2. e.copy \in Nat
    BY EditorHas
  <1> HIDE DEF NoEditor
  <1> DEFINE c == e.copy
             z == [NoEditor EXCEPT !.copy = c]
  <1> HIDE DEF c
  <1>3. c \in Nat
    BY <1>2 DEF c
  <1>4. z \in Editors(n) /\ ~z.on
    BY <1>1, <1>3 DEF Editors
  <1> QED
    BY <1>4 DEF ClosedEditor, c

LEMMA HiddenIs ==
  ASSUME NEW n \in Nat, NEW k \in Pages(n)
  PROVE  /\ Hidden(k) \in Pages(n) /\ SamePage(k, Hidden(k))
         /\ Hidden(k).loading /\ Hidden(k).editing = k.editing /\ ~Hidden(k).editor.on
  <1> DEFINE e == ClosedEditor(k.editor)
             y == [k EXCEPT !.loading = TRUE, !.editor = e]
  <1>1. e \in Editors(n) /\ ~e.on
    BY PageHas, ClosedIs
  <1>2. Hidden(k) = y
    BY DEF Hidden
  <1> HIDE DEF e
  <1>3. y \in Pages(n) /\ SamePage(k, y) /\ y.loading /\ y.editing = k.editing /\ y.editor = e
    BY <1>1 DEF Pages, SamePage
  <1> HIDE DEF y
  <1> QED
    BY <1>1, <1>2, <1>3

LEMMA RenderedIs ==
  ASSUME NEW n \in Nat, NEW k \in Pages(n)
  PROVE  /\ Rendered(k) \in Pages(n) /\ SamePage(k, Rendered(k))
         /\ ~Rendered(k).loading /\ Rendered(k).editing = k.editing
         /\ k.editor.on => Rendered(k).editor = k.editor
         /\ Rendered(k).editor.on => \/ k.editor.on
                                     \/ /\ k.editing /\ k.loaded
                                        /\ Rendered(k).editor.title \in 1 .. n
  <1> DEFINE card == k.shown["card"].value
             fresh == [on |-> TRUE, title |-> card.title, archived |-> card.archived,
                       saving |-> FALSE, copy |-> k.editor.copy + 1]
             e == IF k.editing /\ k.loaded /\ ~k.editor.on THEN fresh ELSE k.editor
             y == [k EXCEPT !.loading = FALSE, !.editor = e]
  <1>1. card \in Cards(n)
    <2>1. k.shown \in Reads(Parts, n) /\ "card" \in Parts
      BY PageHas DEF Parts
    <2> QED
      BY <2>1, ReadIs DEF ValuesOf
  <1>2. card.title \in 1 .. n /\ card.archived \in BOOLEAN
    BY <1>1 DEF Cards
  <1>3. k.editor \in Editors(n) /\ k.editor.copy \in Nat
    BY PageHas, EditorHas
  <1>4. Rendered(k) = y
    BY DEF Rendered
  <1> HIDE DEF card
  <1>5. fresh \in Editors(n) /\ fresh.on /\ fresh.title = card.title
    <2>1. k.editor.copy + 1 \in Nat /\ card.title \in 0 .. n
      BY <1>2, <1>3
    <2> QED
      BY <1>2, <2>1 DEF Editors
  <1> HIDE DEF fresh
  <1>6. e \in Editors(n) /\ (k.editor.on => e = k.editor)
        /\ (e.on => k.editor.on \/ (k.editing /\ k.loaded /\ e.title \in 1 .. n))
    BY <1>2, <1>3, <1>5
  <1> HIDE DEF e
  <1>7. y \in Pages(n) /\ SamePage(k, y) /\ ~y.loading /\ y.editing = k.editing /\ y.editor = e
    BY <1>6 DEF Pages, SamePage
  <1> HIDE DEF y
  <1> QED
    BY <1>4, <1>6, <1>7

LEMMA ShowsIs ==
  ASSUME NEW n \in Nat, NEW k \in Pages(n), NEW g, g \in Reads(DOMAIN g, n), DOMAIN g \subseteq Parts
  PROVE  /\ Shows(k, g) \in Pages(n) /\ SameEditor(k, Shows(k, g))
         /\ Shows(k, g).visited = k.visited /\ Shows(k, g).missed = k.missed /\ Shows(k, g).loaded
         /\ \A p \in Parts :
              /\ Shows(k, g).shown[p] = IF p \in DOMAIN g THEN g[p] ELSE k.shown[p]
              /\ Shows(k, g).newest[p] = IF p \in DOMAIN g /\ g[p].age > k.newest[p] THEN g[p].age ELSE k.newest[p]
  <1> DEFINE s == [p \in Parts |-> IF p \in DOMAIN g THEN g[p] ELSE k.shown[p]]
             w == [p \in Parts |-> IF p \in DOMAIN g /\ g[p].age > k.newest[p] THEN g[p].age ELSE k.newest[p]]
             y == [k EXCEPT !.loaded = TRUE, !.shown = s, !.newest = w]
  <1>1. Shows(k, g) = y
    BY DEF Shows
  <1>2. k.shown \in Reads(Parts, n) /\ k.newest \in [Parts -> Nat]
    BY PageHas
  <1>3. \A p \in DOMAIN g : g[p] \in Entries(p, n) /\ g[p].age \in Nat
    BY ReadIs
  <1>4. s \in Reads(Parts, n)
    <2>1. \A p \in Parts : k.shown[p] \in Entries(p, n)
      BY <1>2, ReadIs
    <2>2. \A p \in Parts : s[p] \in Entries(p, n)
      BY <1>3, <2>1
    <2>3. s = [p \in Parts |-> s[p]]
      OBVIOUS
    <2> HIDE DEF s
    <2> QED
      BY <2>2, <2>3, IsRead
  <1>5. w \in [Parts -> Nat]
    BY <1>2, <1>3
  <1>6. \A p \in Parts : /\ s[p] = IF p \in DOMAIN g THEN g[p] ELSE k.shown[p]
                         /\ w[p] = IF p \in DOMAIN g /\ g[p].age > k.newest[p] THEN g[p].age ELSE k.newest[p]
    OBVIOUS
  <1> HIDE DEF s, w
  <1>7. /\ y \in Pages(n) /\ y.visited = k.visited /\ y.missed = k.missed /\ y.loaded
        /\ y.shown = s /\ y.newest = w
        /\ y.loading = k.loading /\ y.editing = k.editing /\ y.editor = k.editor
    BY <1>4, <1>5 DEF Pages
  <1> HIDE DEF y
  <1>8. SameEditor(k, y)
    BY <1>7 DEF SameEditor
  <1> QED
    BY <1>1, <1>6, <1>7, <1>8

LEMMA ReleasedIs ==
  ASSUME NEW n \in Nat, NEW k \in Pages(n), NEW m
  PROVE  /\ Released(k, m) \in Pages(n) /\ SamePage(k, Released(k, m)) /\ SameEditor(k, Released(k, m))
         /\ Released(k, m).editor = k.editor
  <1> DEFINE b == (k.busy /\ m.data \notin Guarded)
             y == [k EXCEPT !.busy = b]
  <1>1. b \in BOOLEAN
    OBVIOUS
  <1>2. Released(k, m) = y
    BY DEF Released
  <1> HIDE DEF b
  <1>3. /\ y \in Pages(n) /\ SamePage(k, y)
        /\ y.loading = k.loading /\ y.editing = k.editing /\ y.editor = k.editor
    BY <1>1 DEF Pages, SamePage
  <1> HIDE DEF y
  <1> QED
    BY <1>2, <1>3 DEF SameEditor

LEMMA KeptOpenIs ==
  ASSUME NEW n \in Nat, NEW k \in Pages(n), NEW m
  PROVE  KeptOpen(k, m) \in Pages(n) /\ SamePage(k, KeptOpen(k, m)) /\ SameEditor(k, KeptOpen(k, m))
  <1> DEFINE b == (k.editor.saving /\ m.copy # k.editor.copy)
             e == [k.editor EXCEPT !.saving = b]
             y == [k EXCEPT !.editor = e]
  <1>1. b \in BOOLEAN
    OBVIOUS
  <1>2. KeptOpen(k, m) = y
    BY DEF KeptOpen
  <1> HIDE DEF b
  <1>3. k.editor \in Editors(n)
    BY PageHas
  <1>4. e \in Editors(n) /\ e.on = k.editor.on /\ e.title = k.editor.title
    BY <1>1, <1>3 DEF Editors
  <1> HIDE DEF e
  <1>5. /\ y \in Pages(n) /\ SamePage(k, y)
        /\ y.loading = k.loading /\ y.editing = k.editing /\ y.editor = e
    BY <1>4 DEF Pages, SamePage
  <1> HIDE DEF y
  <1> QED
    BY <1>2, <1>4, <1>5 DEF SameEditor

-----------------------------------------------------------------------------
(* What each action does to the page it is about                           *)
OneView(v, y) == view' = [view EXCEPT ![v] = y]

LEMMA OneViewIs ==
  ASSUME PagesInv, NEW v \in Visits, NEW y, OneView(v, y)
  PROVE  view'[v] = y /\ \A u \in Visits : u # v => view'[u] = view[u]
  BY DEF PagesInv, OneView

LEMMA ViewHas ==
  ASSUME CoursesShape, NEW v \in Visits
  PROVE  view[v] \in Pages(titles) /\ titles \in Nat
  BY TitlesAssumption DEF CoursesShape, BaseInv, PagesInv

LEMMA VisitDoes ==
  ASSUME CoursesShape, NEW v \in Visits, Visit(v)
  PROVE  \E y \in Pages(titles) :
           /\ OneView(v, y) /\ y.visited
           /\ y.loaded = view[v].loaded /\ y.shown = view[v].shown /\ y.newest = view[v].newest
           /\ y.missed = view[v].missed /\ y.editing = view[v].editing /\ ~y.editor.on
  <1> DEFINE k == Hidden(view[v])
             y == [k EXCEPT !.visited = TRUE]
  <1>1. k \in Pages(titles) /\ SamePage(view[v], k) /\ k.editing = view[v].editing /\ ~k.editor.on
    BY ViewHas, HiddenIs
  <1>2. OneView(v, y)
    BY DEF Visit, OneView
  <1> HIDE DEF k
  <1>3. /\ y \in Pages(titles) /\ y.visited /\ y.loaded = k.loaded /\ y.shown = k.shown /\ y.newest = k.newest
        /\ y.missed = k.missed /\ y.editing = k.editing /\ y.editor = k.editor
    BY <1>1 DEF Pages
  <1> HIDE DEF y
  <1> QED
    BY <1>1, <1>2, <1>3 DEF SamePage

(* Messages about the course that a page receives                          *)
LEMMA Received ==
  ASSUME CoursesShape, NEW m \in mail
  PROVE  /\ MailSound(m, titles) /\ m.visit \in Visits /\ view[m.visit].visited
         /\ view[m.visit] \in Pages(titles) /\ titles \in Nat
  BY VisitOf, ViewHas DEF CoursesShape, MailInv

LEMMA LoadArrivesDoes ==
  ASSUME CoursesShape, NEW m \in mail, LoadArrives(m)
  PROVE  \E y \in Pages(titles) :
           /\ OneView(m.visit, y) /\ y.visited /\ ~y.loading /\ y.loaded
           /\ y.missed = view[m.visit].missed /\ y.editing = view[m.visit].editing
           /\ \A p \in Parts :
                /\ y.shown[p] = IF p \in DOMAIN m.got THEN m.got[p] ELSE view[m.visit].shown[p]
                /\ y.newest[p] = IF p \in DOMAIN m.got /\ m.got[p].age > view[m.visit].newest[p]
                                 THEN m.got[p].age ELSE view[m.visit].newest[p]
           /\ view[m.visit].editor.on => y.editor = view[m.visit].editor
           /\ y.editor.on => \/ view[m.visit].editor.on
                             \/ view[m.visit].editing /\ y.editor.title \in 1 .. titles
  <1> DEFINE k == view[m.visit]
             g == m.got
             s == Shows(k, g)
             y == Rendered(s)
  <1>1. m.op = "load" /\ OneView(m.visit, y)
    BY DEF LoadArrives, OneView
  <1>2. k \in Pages(titles) /\ k.visited /\ titles \in Nat /\ m.visit \in Visits
    BY Received
  <1>3. g \in Reads(DOMAIN g, titles) /\ DOMAIN g \subseteq Parts
    BY <1>1, Received, LoadIs, PartsAre
  <1> HIDE DEF k, g
  <1>4. /\ s \in Pages(titles) /\ SameEditor(k, s) /\ s.visited = k.visited /\ s.missed = k.missed /\ s.loaded
        /\ \A p \in Parts :
              /\ s.shown[p] = IF p \in DOMAIN g THEN g[p] ELSE k.shown[p]
              /\ s.newest[p] = IF p \in DOMAIN g /\ g[p].age > k.newest[p] THEN g[p].age ELSE k.newest[p]
    BY <1>2, <1>3, ShowsIs, ZenonT(60)
  <1>5. s.editor = k.editor
    BY DEF Shows
  <1> HIDE DEF s
  <1>6. /\ y \in Pages(titles) /\ SamePage(s, y) /\ ~y.loading /\ y.editing = s.editing
        /\ s.editor.on => y.editor = s.editor
        /\ y.editor.on => s.editor.on \/ (s.editing /\ s.loaded /\ y.editor.title \in 1 .. titles)
    BY <1>2, <1>4, RenderedIs
  <1> HIDE DEF y
  <1>7. /\ y.visited /\ y.loaded /\ y.missed = k.missed /\ y.editing = k.editing
        /\ y.shown = s.shown /\ y.newest = s.newest
    BY <1>2, <1>4, <1>6 DEF SamePage, SameEditor
  <1>8. /\ k.editor.on => y.editor = k.editor
        /\ y.editor.on => k.editor.on \/ (k.editing /\ y.editor.title \in 1 .. titles)
    BY <1>4, <1>5, <1>6 DEF SameEditor
  <1>9. \A p \in Parts :
          /\ y.shown[p] = IF p \in DOMAIN g THEN g[p] ELSE k.shown[p]
          /\ y.newest[p] = IF p \in DOMAIN g /\ g[p].age > k.newest[p] THEN g[p].age ELSE k.newest[p]
    BY <1>4, <1>7
  <1> QED
    BY <1>1, <1>6, <1>7, <1>8, <1>9 DEF k, g

LEMMA ReloadFailsDoes ==
  ASSUME CoursesShape, NEW m \in mail, ReloadFails(m)
  PROVE  \E y \in Pages(titles) :
           /\ OneView(m.visit, y) /\ y.visited /\ ~y.loading /\ y.loaded = view[m.visit].loaded /\ y.missed
           /\ y.shown = view[m.visit].shown /\ y.newest = view[m.visit].newest
           /\ y.editing = view[m.visit].editing
           /\ view[m.visit].editor.on => y.editor = view[m.visit].editor
           /\ y.editor.on => \/ view[m.visit].editor.on
                             \/ /\ view[m.visit].editing /\ view[m.visit].loaded
                                /\ y.editor.title \in 1 .. titles
  <1> DEFINE k == view[m.visit]
             s == Rendered(k)
             y == [s EXCEPT !.missed = TRUE]
  <1>1. OneView(m.visit, y)
    BY DEF ReloadFails, OneView
  <1>2. k \in Pages(titles) /\ k.visited /\ titles \in Nat
    BY Received
  <1> HIDE DEF k
  <1>3. /\ s \in Pages(titles) /\ SamePage(k, s) /\ ~s.loading /\ s.editing = k.editing
        /\ k.editor.on => s.editor = k.editor
        /\ s.editor.on => k.editor.on \/ (k.editing /\ k.loaded /\ s.editor.title \in 1 .. titles)
    BY <1>2, RenderedIs
  <1> HIDE DEF s
  <1>4. /\ y \in Pages(titles) /\ y.visited = s.visited /\ y.loading = s.loading /\ y.loaded = s.loaded /\ y.missed
        /\ y.shown = s.shown /\ y.newest = s.newest /\ y.editing = s.editing /\ y.editor = s.editor
    BY <1>3 DEF Pages
  <1> HIDE DEF y
  <1>5. /\ y.visited /\ ~y.loading /\ y.loaded = k.loaded /\ y.shown = k.shown /\ y.newest = k.newest
        /\ y.editing = k.editing
    BY <1>2, <1>3, <1>4 DEF SamePage
  <1> QED
    BY <1>1, <1>3, <1>4, <1>5 DEF k

LEMMA ToggleEditorDoes ==
  ASSUME CoursesShape, NEW v \in Visits, ToggleEditor(v)
  PROVE  /\ v \in ListPages /\ Displayed(v)
         /\ \E y \in Pages(titles) :
              /\ OneView(v, y) /\ SamePage(view[v], y) /\ ~y.loading
              /\ ~view[v].editing => y.editing
              /\ view[v].editing => ~y.editor.on
              /\ y.editor.on => \/ view[v].editor.on /\ y.editor.title = view[v].editor.title
                                \/ y.editor.title \in 1 .. titles
  <1> DEFINE k == view[v]
  <1>1. v \in ListPages /\ Displayed(v)
    BY DEF ToggleEditor
  <1>2. k \in Pages(titles) /\ titles \in Nat /\ ~k.loading /\ k.loaded
    BY <1>1, ViewHas DEF Displayed, IsUp
  <1>3. CASE k.editing
    <2> DEFINE e == ClosedEditor(k.editor)
               y == [k EXCEPT !.editing = FALSE, !.editor = e]
    <2>1. OneView(v, y)
      BY <1>3 DEF ToggleEditor, OneView, Dismissed
    <2> HIDE DEF k
    <2>2. e \in Editors(titles) /\ ~e.on
      BY <1>2, PageHas, ClosedIs
    <2> HIDE DEF e
    <2>3. y \in Pages(titles) /\ SamePage(k, y) /\ y.loading = k.loading /\ y.editor = e
      BY <1>2, <2>2 DEF Pages, SamePage
    <2> HIDE DEF y
    <2>4. OneView(v, y) /\ SamePage(k, y) /\ ~y.loading /\ ~y.editor.on
      BY <1>2, <2>1, <2>2, <2>3
    <2> QED
      BY <1>1, <1>3, <2>3, <2>4 DEF k
  <1>4. CASE ~k.editing
    <2> DEFINE s == [k EXCEPT !.editing = TRUE]
               y == Rendered(s)
    <2>1. OneView(v, y)
      BY <1>4 DEF ToggleEditor, OneView
    <2> HIDE DEF k
    <2>2. s \in Pages(titles) /\ SamePage(k, s) /\ s.editing /\ s.editor = k.editor
      BY <1>2 DEF Pages, SamePage
    <2> HIDE DEF s
    <2>3. /\ y \in Pages(titles) /\ SamePage(s, y) /\ ~y.loading /\ y.editing = s.editing
          /\ s.editor.on => y.editor = s.editor
          /\ y.editor.on => s.editor.on \/ (s.editing /\ s.loaded /\ y.editor.title \in 1 .. titles)
      BY <1>2, <2>2, RenderedIs
    <2> HIDE DEF y
    <2>4. SamePage(k, y) /\ y.editing
      BY <2>2, <2>3 DEF SamePage
    <2>5. y.editor.on => \/ k.editor.on /\ y.editor.title = k.editor.title
                         \/ y.editor.title \in 1 .. titles
      BY <2>2, <2>3
    <2> QED
      BY <1>1, <1>4, <2>1, <2>3, <2>4, <2>5 DEF k
  <1> QED
    BY <1>3, <1>4

LEMMA TypeTitleDoes ==
  ASSUME CoursesShape, NEW v \in Visits, TypeTitle(v)
  PROVE  /\ titles' = titles + 1 /\ view[v].editor.on
         /\ \E y \in Pages(titles') :
              /\ OneView(v, y) /\ SamePage(view[v], y)
              /\ y.loading = view[v].loading /\ y.editing = view[v].editing
              /\ y.editor.on /\ y.editor.title = titles'
  <1> DEFINE k == view[v]
             e == [k.editor EXCEPT !.title = titles']
             y == [k EXCEPT !.editor = e]
  <1>1. titles' = titles + 1 /\ view[v].editor.on /\ OneView(v, y)
    BY DEF TypeTitle, OneView
  <1>2. titles \in Nat /\ titles' \in Nat /\ k \in Pages(titles')
    BY <1>1, ViewHas, MoreTitles
  <1>3. k.editor \in Editors(titles') /\ k.editor.on
    BY <1>1, <1>2, PageHas
  <1> HIDE DEF k
  <1>4. e \in Editors(titles') /\ e.on /\ e.title = titles'
    BY <1>2, <1>3 DEF Editors
  <1> HIDE DEF e
  <1>5. y \in Pages(titles') /\ SamePage(k, y) /\ y.loading = k.loading /\ y.editing = k.editing /\ y.editor = e
    BY <1>2, <1>4 DEF Pages, SamePage
  <1> HIDE DEF y
  <1> QED
    BY <1>1, <1>4, <1>5 DEF k

(* A click that changes nothing of what is said of pages and editors       *)
TouchesPage(v) == \E y \in Pages(titles) : OneView(v, y) /\ SamePage(view[v], y) /\ SameEditor(view[v], y)

LEMMA FlipArchivedDoes == ASSUME CoursesShape, NEW v \in Visits, FlipArchived(v) PROVE TouchesPage(v)
  <1> DEFINE k == view[v]
             b == ~k.editor.archived
             e == [k.editor EXCEPT !.archived = b]
             y == [k EXCEPT !.editor = e]
  <1>1. OneView(v, y)
    BY DEF FlipArchived, OneView
  <1>2. k \in Pages(titles) /\ b \in BOOLEAN
    BY ViewHas
  <1>3. k.editor \in Editors(titles)
    BY <1>2, PageHas
  <1> HIDE DEF k, b
  <1>4. e \in Editors(titles) /\ e.on = k.editor.on /\ e.title = k.editor.title
    BY <1>2, <1>3 DEF Editors
  <1> HIDE DEF e
  <1>5. y \in Pages(titles) /\ SamePage(k, y) /\ y.loading = k.loading /\ y.editing = k.editing /\ y.editor = e
    BY <1>2, <1>4 DEF Pages, SamePage
  <1> HIDE DEF y
  <1>6. SameEditor(k, y)
    BY <1>4, <1>5 DEF SameEditor
  <1> QED
    BY <1>1, <1>5, <1>6 DEF k, TouchesPage

LEMMA SaveCourseDoes == ASSUME CoursesShape, NEW v \in Visits, SaveCourse(v) PROVE TouchesPage(v)
  <1> DEFINE k == view[v]
             e == [k.editor EXCEPT !.saving = TRUE]
             y == [k EXCEPT !.editor = e]
  <1>1. OneView(v, y)
    BY DEF SaveCourse, OneView
  <1>2. k \in Pages(titles)
    BY ViewHas
  <1>3. k.editor \in Editors(titles)
    BY <1>2, PageHas
  <1> HIDE DEF k
  <1>4. e \in Editors(titles) /\ e.on = k.editor.on /\ e.title = k.editor.title
    BY <1>3 DEF Editors
  <1> HIDE DEF e
  <1>5. y \in Pages(titles) /\ SamePage(k, y) /\ y.loading = k.loading /\ y.editing = k.editing /\ y.editor = e
    BY <1>2, <1>4 DEF Pages, SamePage
  <1> HIDE DEF y
  <1>6. SameEditor(k, y)
    BY <1>4, <1>5 DEF SameEditor
  <1> QED
    BY <1>1, <1>5, <1>6 DEF k, TouchesPage

LEMMA BusyDoes ==
  ASSUME CoursesShape, NEW v \in Visits, view' = [view EXCEPT ![v].busy = TRUE]
  PROVE  TouchesPage(v)
  <1> DEFINE k == view[v]
             y == [k EXCEPT !.busy = TRUE]
  <1>1. OneView(v, y)
    BY DEF OneView
  <1>2. k \in Pages(titles)
    BY ViewHas
  <1> HIDE DEF k
  <1>5. /\ y \in Pages(titles) /\ SamePage(k, y)
        /\ y.loading = k.loading /\ y.editing = k.editing /\ y.editor = k.editor
    BY <1>2 DEF Pages, SamePage
  <1> HIDE DEF y
  <1>6. SameEditor(k, y)
    BY <1>5 DEF SameEditor
  <1> QED
    BY <1>1, <1>5, <1>6 DEF k, TouchesPage

LEMMA ActDoneDoes ==
  ASSUME CoursesShape, NEW m \in mail, ActDone(m)
  PROVE  \E y \in Pages(titles) :
           /\ OneView(m.visit, y) /\ SamePage(view[m.visit], y) /\ y.loading /\ ~y.editor.on
           /\ y.editing => view[m.visit].editing
  <1> DEFINE k == view[m.visit]
             r == Released(k, m)
             b == (k.editing /\ m.data # "edit")
             s == [r EXCEPT !.editing = b]
             y == Hidden(s)
  <1>1. k \in Pages(titles) /\ titles \in Nat
    BY Received
  <1>2. r.editing = k.editing
    BY DEF Released
  <1>3. OneView(m.visit, y)
    <2>1. view' = [view EXCEPT ![m.visit] = Hidden(Answered(view[m.visit], m))]
      BY DEF ActDone
    <2>2. Answered(k, m) = [r EXCEPT !.editing = r.editing /\ m.data # "edit"]
      BY DEF Answered
    <2> QED
      BY <1>2, <2>1, <2>2 DEF OneView
  <1>4. r \in Pages(titles) /\ SamePage(k, r)
    BY <1>1, ReleasedIs
  <1>5. b \in BOOLEAN /\ (b => k.editing)
    OBVIOUS
  <1> HIDE DEF k, r, b
  <1>6. s \in Pages(titles) /\ SamePage(r, s) /\ s.editing = b
    BY <1>4, <1>5 DEF Pages, SamePage
  <1> HIDE DEF s
  <1>7. y \in Pages(titles) /\ SamePage(s, y) /\ y.loading /\ ~y.editor.on /\ y.editing = s.editing
    BY <1>1, <1>6, HiddenIs
  <1> HIDE DEF y
  <1>8. SamePage(k, y)
    BY <1>4, <1>6, <1>7 DEF SamePage
  <1>9. y.editing => k.editing
    BY <1>5, <1>6, <1>7
  <1> QED
    BY <1>3, <1>7, <1>8, <1>9 DEF k

LEMMA ActFailsDoes == ASSUME CoursesShape, NEW m \in mail, ActFails(m) PROVE TouchesPage(m.visit)
  <1> DEFINE k == view[m.visit]
             y == IF m.data = "edit" THEN KeptOpen(k, m) ELSE Released(k, m)
  <1>1. k \in Pages(titles) /\ titles \in Nat
    BY Received
  <1>2. OneView(m.visit, y)
    BY DEF ActFails, AfterFailure, OneView
  <1> HIDE DEF k
  <1>3. y \in Pages(titles) /\ SamePage(k, y) /\ SameEditor(k, y)
    BY <1>1, KeptOpenIs, ReleasedIs
  <1> HIDE DEF y
  <1> QED
    BY <1>2, <1>3 DEF k, TouchesPage

(* Most of what happens leaves the pages as they are                       *)
LEMMA ViewStays ==
  ASSUME NEW v \in Visits, Regenerate(v) \/ Unenrol(v) PROVE view' = view
  BY DEF Regenerate, Unenrol

LEMMA ServingStays ==
  ASSUME NEW m \in mail, ServeAct(m) \/ \E p \in Parts : ServeLoad(m, p) PROVE view' = view
  BY DEF ServeAct, ServeLoad

LEMMA ClicksTouch ==
  ASSUME CoursesShape, NEW v \in Visits,
         FlipArchived(v) \/ SaveCourse(v) \/ CreateOther(v) \/ ChangeRoster(v)
  PROVE  TouchesPage(v)
  BY FlipArchivedDoes, SaveCourseDoes, BusyDoes DEF CreateOther, ChangeRoster

-----------------------------------------------------------------------------
(* What the server makes of the course                                     *)
LEMMA ServeActDoes ==
  ASSUME CoursesShape, NEW m \in mail, ServeAct(m)
  PROVE  /\ m.op \in Acts /\ view' = view /\ titles' = titles /\ removed' = removed
         /\ \/ Stored(m, {m.visit}) /\ Replied(m, "done")
            \/ Stored(m, {}) /\ Replied(m, "failed")
            \/ UNCHANGED <<course, author, owing>> /\ Replied(m, "failed")
  BY DEF ServeAct

LEMMA StoredDoes ==
  ASSUME CoursesShape, NEW m \in mail, m.op \in Acts, NEW told, Stored(m, told)
  PROVE  /\ \/ UNCHANGED <<course, author>>
            \/ \E p \in Parts : \E e :
                 /\ course' = [course EXCEPT ![p] = e] /\ author' = [author EXCEPT ![p] = told]
                 /\ e \in Entries(p, titles) /\ e.age = course[p].age + 1
         /\ owing' = owing \/ owing' = [owing EXCEPT ![m.visit] = 0]
  <1>1. owing' = owing \/ owing' = [owing EXCEPT ![m.visit] = 0]
    BY DEF Stored
  <1>2. CASE m.op = "create"
    BY <1>1, <1>2 DEF Stored
  <1>3. CASE m.op # "create"
    <2> DEFINE p == Touched(m)
               c == course[p]
               w == Result(m, c.value)
               e == [value |-> w, age |-> c.age + 1]
    <2>1. course' = [course EXCEPT ![p] = e] /\ author' = [author EXCEPT ![p] = told]
      BY <1>3 DEF Stored
    <2>2. Fits(m.op, m.data, titles)
      <3>1. m.op # "load"
        BY DEF Acts
      <3> QED
        BY <3>1, Received, ActIs
    <2>3. p \in Parts
      BY <1>3 DEF Touched, Acts, Parts
    <2>4. c.value \in ValuesOf(p, titles) /\ c.age \in Nat
      BY <2>3, ReadIs DEF CoursesShape, BaseInv
    <2>5. w \in ValuesOf(p, titles)
      <3>1. CASE m.op \in {"edit", "code"}
        <4> DEFINE x == c.value
        <4>1. p = "card" /\ ValuesOf(p, titles) = Cards(titles)
          BY <3>1 DEF Touched, ValuesOf
        <4>5. x \in Cards(titles)
          BY <2>4, <4>1
        <4>2. x \in Cards(titles) /\ x.code \in Nat
          BY ONLY <4>5 DEF Cards
        <4>3. CASE m.op = "edit"
          <5>1. m.data.title \in 1 .. titles /\ m.data.archived \in BOOLEAN
            BY <2>2, <4>3 DEF Fits
          <5>2. w = [x EXCEPT !.title = m.data.title, !.archived = m.data.archived]
            BY <4>3 DEF Result
          <5> HIDE DEF x, w
          <5>3. w \in Cards(titles)
            BY <4>2, <5>1, <5>2 DEF Cards
          <5> QED
            BY <4>1, <5>3
        <4>4. CASE m.op = "code"
          <5>1. w = [x EXCEPT !.code = x.code + 1]
            BY <4>4 DEF Result
          <5> DEFINE i == x.code + 1
          <5>2. i \in Nat
            BY <4>2
          <5> HIDE DEF x, w, i
          <5>3. w \in Cards(titles)
            BY <4>2, <5>1, <5>2 DEF Cards, i
          <5> QED
            BY <4>1, <5>3
        <4> QED
          BY <3>1, <4>3, <4>4
      <3>2. CASE m.op \in {"enrol", "unenrol"}
        <4>1. ValuesOf(p, titles) = SUBSET Pupils
          BY <3>2 DEF Touched, ValuesOf
        <4>2. m.op = "enrol" => m.data \in Pupils
          BY <2>2 DEF Fits
        <4>3. w = IF m.op = "enrol" THEN c.value \cup {m.data} ELSE c.value \ {m.data}
          BY <3>2 DEF Result
        <4> QED
          BY <2>4, <4>1, <4>2, <4>3
      <3>3. CASE m.op \in {"appoint", "dismiss"}
        <4>1. ValuesOf(p, titles) = SUBSET Helpers
          BY <3>3 DEF Touched, ValuesOf
        <4>2. m.op = "appoint" => m.data \in Helpers
          BY <2>2 DEF Fits
        <4>3. w = IF m.op = "appoint" THEN c.value \cup {m.data} ELSE c.value \ {m.data}
          BY <3>3 DEF Result
        <4> QED
          BY <2>4, <4>1, <4>2, <4>3
      <3> QED
        BY <1>3, <3>1, <3>2, <3>3 DEF Acts
    <2> HIDE DEF p, c, w
    <2>6. e \in Entries(p, titles) /\ e.age = course[p].age + 1
      <3>1. e \in Entries(p, titles) /\ e.age = c.age + 1
        BY <2>4, <2>5 DEF Entries
      <3> QED
        BY <3>1 DEF c
    <2> HIDE DEF e
    <2> QED
      BY <1>1, <2>1, <2>3, <2>6
  <1> QED
    BY <1>2, <1>3

-----------------------------------------------------------------------------
(* Every step but those that type a title or are the server's, said once    *)
LEMMA TitlesStay ==
  ASSUME [CoursePagesNext]_courseVars, \A v \in Visits : ~TypeTitle(v)
  PROVE  titles' = titles
  BY DEF CoursePagesNext, Visit, ToggleEditor, FlipArchived, SaveCourse, Regenerate, CreateOther, ChangeRoster,
         Unenrol, Sends, LoadArrives, ReloadFails, ServeAct, ActDone, ActFails, ServeLoad, courseVars

LEMMA CourseStays ==
  ASSUME [CoursePagesNext]_courseVars, \A m \in mail : ~ServeAct(m)
  PROVE  UNCHANGED <<course, author>>
  BY DEF CoursePagesNext, Visit, ToggleEditor, TypeTitle, FlipArchived, SaveCourse, Regenerate, CreateOther,
         ChangeRoster, Unenrol, Sends, LoadArrives, ReloadFails, ActDone, ActFails, ServeLoad, courseVars

LEMMA BaseStep == ASSUME CoursesShape, [CoursePagesNext]_courseVars PROVE BaseInv'
  <1> USE DEF CoursesShape, BaseInv
  <1>1. ASSUME NEW v \in Visits, TypeTitle(v) PROVE BaseInv'
    <2>1. titles' = titles + 1 /\ titles < MaxTitles /\ titles \in Nat
      BY <1>1, TitlesAssumption DEF TypeTitle
    <2>2. titles' \in 1 .. MaxTitles /\ titles' \in Nat
      BY <2>1, TitlesAssumption
    <2>3. course' \in Reads(Parts, titles')
      BY <1>1, <2>1, MoreTitles DEF TypeTitle
    <2>4. owing' \in [Visits -> Nat] /\ removed' \in [Visits -> BOOLEAN]
      BY <1>1, <2>2 DEF TypeTitle
    <2> QED
      BY <1>1, <2>2, <2>3, <2>4 DEF TypeTitle
  <1>2. ASSUME NEW m \in mail, ServeAct(m) PROVE BaseInv'
    <2>1. m.op \in Acts /\ titles' = titles /\ removed' = removed
      BY <1>2, ServeActDoes
    <2>2. ASSUME NEW told \in SUBSET Visits, Stored(m, told) PROVE BaseInv'
      <3>1. owing' \in [Visits -> Nat]
        BY <2>1, <2>2, StoredDoes
      <3>2. course' \in Reads(Parts, titles) /\ author' \in [Parts -> SUBSET Visits]
        <4>1. CASE UNCHANGED <<course, author>>
          BY <4>1
        <4>2. ASSUME NEW p \in Parts, NEW e \in Entries(p, titles), course' = [course EXCEPT ![p] = e],
                     author' = [author EXCEPT ![p] = told]
              PROVE  course' \in Reads(Parts, titles) /\ author' \in [Parts -> SUBSET Visits]
          <5>1. /\ course = [q \in Parts |-> course[q]]
                /\ \A q \in Parts : course[q] \in Entries(q, titles)
            BY ReadIs
          <5>2. /\ course' = [q \in Parts |-> course'[q]]
                /\ \A q \in Parts : course'[q] = IF q = p THEN e ELSE course[q]
            BY <4>2, <5>1
          <5>3. \A q \in Parts : course'[q] \in Entries(q, titles)
            BY <4>2, <5>1, <5>2
          <5>4. course' \in Reads(Parts, titles)
            BY <5>2, <5>3, IsRead
          <5> QED
            BY <4>2, <5>4
        <4> QED
          BY <2>1, <2>2, <4>1, <4>2, StoredDoes
      <3> QED
        BY <2>1, <3>1, <3>2
    <2>3. {m.visit} \in SUBSET Visits /\ {} \in SUBSET Visits
      BY Received
    <2>4. ASSUME UNCHANGED <<course, author, owing>> PROVE BaseInv'
      BY <2>1, <2>4
    <2> QED
      BY <1>2, <2>2, <2>3, <2>4, ServeActDoes
  <1>3. ASSUME \A v \in Visits : ~TypeTitle(v), \A m \in mail : ~ServeAct(m) PROVE BaseInv'
    <2>1. UNCHANGED <<titles, course, author>>
      BY <1>3, TitlesStay, CourseStays
    <2>2. owing' \in [Visits -> Nat]
      <3>1. ASSUME NEW v \in Visits, ToggleEditor(v) PROVE owing' \in [Visits -> Nat]
        BY <3>1 DEF ToggleEditor
      <3>2. ASSUME \A v \in Visits : ~ToggleEditor(v) PROVE owing' = owing
        BY <1>3, <3>2 DEF CoursePagesNext, Visit, FlipArchived, SaveCourse, Regenerate, CreateOther,
           ChangeRoster, Unenrol, Sends, LoadArrives, ReloadFails, ActDone, ActFails, ServeLoad, courseVars
      <3> QED
        BY <3>1, <3>2
    <2>3. removed' \in [Visits -> BOOLEAN]
      <3>1. ASSUME NEW m \in mail, ActDone(m) PROVE removed' \in [Visits -> BOOLEAN]
        <4>1. removed' = removed \/ removed' = [removed EXCEPT ![m.visit] = TRUE]
          BY <3>1 DEF ActDone, Cut
        <4> QED
          BY <4>1
      <3>2. ASSUME NEW v \in Visits, ToggleEditor(v) PROVE removed' \in [Visits -> BOOLEAN]
        BY <3>2 DEF ToggleEditor
      <3>3. ASSUME \A m \in mail : ~ActDone(m), \A v \in Visits : ~ToggleEditor(v) PROVE removed' = removed
        BY <1>3, <3>3 DEF CoursePagesNext, Visit, FlipArchived, SaveCourse, Regenerate, CreateOther,
           ChangeRoster, Unenrol, Sends, LoadArrives, ReloadFails, ActFails, ServeLoad, courseVars
      <3> QED
        BY <3>1, <3>2, <3>3
    <2> QED
      BY <2>1, <2>2, <2>3
  <1> QED
    BY <1>1, <1>2, <1>3

LEMMA PagesStep == ASSUME CoursesShape, [CoursePagesNext]_courseVars PROVE PagesInv'
  <1>a. ASSUME NEW v \in Visits, NEW y \in Pages(titles), OneView(v, y), titles' = titles PROVE PagesInv'
    BY <1>a DEF CoursesShape, PagesInv, OneView
  <1>b. ASSUME UNCHANGED <<view, titles>> PROVE PagesInv'
    BY <1>b DEF CoursesShape, PagesInv
  <1>1. ASSUME NEW v \in Visits, TypeTitle(v) PROVE PagesInv'
    <2>1. PICK y \in Pages(titles') : OneView(v, y)
      BY <1>1, TypeTitleDoes
    <2>2. titles' = titles + 1 /\ titles \in Nat
      BY <1>1, TypeTitleDoes, ViewHas
    <2>3. view \in [Visits -> Pages(titles')]
      BY <2>2, MoreTitles DEF CoursesShape, PagesInv
    <2> QED
      BY <2>1, <2>3 DEF PagesInv, OneView
  <1>2. ASSUME \A v \in Visits : ~TypeTitle(v) PROVE PagesInv'
    <2>1. titles' = titles
      BY <1>2, TitlesStay
    <2>2. ASSUME NEW v \in Visits, Visit(v) \/ ToggleEditor(v) PROVE PagesInv'
      BY <2>1, <2>2, <1>a, VisitDoes, ToggleEditorDoes
    <2>3. ASSUME NEW v \in Visits, FlipArchived(v) \/ SaveCourse(v) \/ CreateOther(v) \/ ChangeRoster(v)
          PROVE  PagesInv'
      BY <2>1, <2>3, <1>a, ClicksTouch DEF TouchesPage
    <2>4. ASSUME NEW v \in Visits, Regenerate(v) \/ Unenrol(v) PROVE PagesInv'
      BY <2>1, <2>4, <1>b, ViewStays
    <2>5. ASSUME NEW m \in mail, LoadArrives(m) \/ ReloadFails(m) \/ ActDone(m) PROVE PagesInv'
      <3>1. \E y \in Pages(titles) : OneView(m.visit, y)
        BY <2>5, LoadArrivesDoes, ReloadFailsDoes, ActDoneDoes
      <3>2. m.visit \in Visits
        BY Received
      <3> QED
        BY <2>1, <3>1, <3>2, <1>a
    <2>6. ASSUME NEW m \in mail, ActFails(m) PROVE PagesInv'
      <3>2. m.visit \in Visits
        BY Received
      <3> QED
        BY <2>1, <2>6, <3>2, <1>a, ActFailsDoes DEF TouchesPage
    <2>7. ASSUME NEW m \in mail, ServeAct(m) \/ \E p \in Parts : ServeLoad(m, p) PROVE PagesInv'
      BY <2>1, <2>7, <1>b, ServingStays
    <2>8. CASE UNCHANGED courseVars
      BY <2>8, <1>b DEF courseVars
    <2> QED
      BY <1>2, <2>2, <2>3, <2>4, <2>5, <2>6, <2>7, <2>8 DEF CoursePagesNext
  <1> QED
    BY <1>1, <1>2

(* Who has come is there                                                   *)
LEMMA VisitedStays ==
  ASSUME CoursesShape, [CoursePagesNext]_courseVars, NEW u \in Visits, view[u].visited
  PROVE  view'[u].visited
  <1>a. ASSUME NEW v \in Visits, NEW y, OneView(v, y), y.visited \/ y.visited = view[v].visited
        PROVE  view'[u].visited
    BY <1>a, OneViewIs DEF CoursesShape
  <1>1. ASSUME NEW v \in Visits, Visit(v) \/ ToggleEditor(v) \/ TypeTitle(v) PROVE view'[u].visited
    BY <1>1, <1>a, VisitDoes, ToggleEditorDoes, TypeTitleDoes DEF SamePage
  <1>2. ASSUME NEW v \in Visits, FlipArchived(v) \/ SaveCourse(v) \/ CreateOther(v) \/ ChangeRoster(v)
        PROVE  view'[u].visited
    BY <1>2, <1>a, ClicksTouch DEF TouchesPage, SamePage
  <1>3. ASSUME view' = view PROVE view'[u].visited
    BY <1>3
  <1>4. ASSUME NEW m \in mail, LoadArrives(m) \/ ReloadFails(m) \/ ActDone(m) \/ ActFails(m) PROVE view'[u].visited
    <2>1. m.visit \in Visits
      BY Received
    <2>2. CASE LoadArrives(m) \/ ReloadFails(m)
      BY <2>1, <2>2, <1>a, LoadArrivesDoes, ReloadFailsDoes
    <2>3. CASE ActDone(m) \/ ActFails(m)
      BY <2>1, <2>3, <1>a, ActDoneDoes, ActFailsDoes DEF TouchesPage, SamePage
    <2> QED
      BY <1>4, <2>2, <2>3
  <1>5. CASE UNCHANGED courseVars
    BY <1>5 DEF courseVars
  <1> QED
    BY <1>1, <1>2, <1>3, <1>4, <1>5, ViewStays, ServingStays DEF CoursePagesNext

-----------------------------------------------------------------------------
(* The mail                                                                *)
LEMMA EmptyLoad == ASSUME NEW v \in Visits, NEW n PROVE
  /\ Load(v) = LoadOf(v, [p \in {} |-> 0]) /\ LoadSound(Load(v), n)
  /\ Load(v).visit = v /\ Load(v).op = "load" /\ DOMAIN Load(v).got = {}
  <1>1. Load(v) = LoadOf(v, [p \in {} |-> 0])
    BY DEF Load, LoadOf
  <1>2. PICK g : g = [p \in {} |-> 0]
    OBVIOUS
  <1>3. g \in Reads({}, n) /\ DOMAIN g = {}
    BY <1>2 DEF Reads
  <1>4. {} \in SUBSET PartsOf(v) /\ Load(v) = LoadOf(v, g)
    BY <1>1, <1>2
  <1>5. LoadSound(Load(v), n)
    BY <1>3, <1>4 DEF LoadSound
  <1>6. Load(v).visit = v /\ Load(v).op = "load" /\ Load(v).got = g
    BY <1>4 DEF LoadOf
  <1> QED
    BY <1>1, <1>3, <1>5, <1>6

LEMMA ServeLoadDoes ==
  ASSUME CoursesShape, NEW m \in mail, NEW p \in Parts, ServeLoad(m, p)
  PROVE  /\ m.op = "load" /\ p \in PartsOf(m.visit) /\ p \notin DOMAIN m.got
         /\ \E o : /\ mail' = (mail \ {m}) \cup {o} /\ LoadSound(o, titles)
                   /\ o.visit = m.visit /\ o.op = "load" /\ DOMAIN o.got = DOMAIN m.got \cup {p}
                   /\ o.got[p] = course[p] /\ \A q \in DOMAIN m.got : o.got[q] = m.got[q]
  <1>1. m.op = "load" /\ p \in PartsOf(m.visit) /\ p \notin DOMAIN m.got
    BY DEF ServeLoad
  <1> DEFINE D == DOMAIN m.got \cup {p}
             g == [q \in D |-> IF q = p THEN course[p] ELSE m.got[q]]
             o == LoadOf(m.visit, g)
  <1>2. /\ m.visit \in Visits /\ DOMAIN m.got \subseteq PartsOf(m.visit)
        /\ m.got \in Reads(DOMAIN m.got, titles) /\ m = LoadOf(m.visit, m.got)
    BY <1>1, Received, LoadIs
  <1>3. /\ \A q \in DOMAIN m.got : m.got[q] \in Entries(q, titles)
        /\ course[p] \in Entries(p, titles)
    BY <1>2, ReadIs DEF CoursesShape, BaseInv
  <1>4. g = [q \in D |-> g[q]] /\ DOMAIN g = D /\ \A q \in D : g[q] \in Entries(q, titles)
    BY <1>3
  <1>5. D \in SUBSET PartsOf(m.visit) /\ D \subseteq Parts
    BY <1>1, <1>2, PartsAre
  <1>6. g[p] = course[p] /\ \A q \in DOMAIN m.got : g[q] = m.got[q]
    BY <1>1
  <1>7. [m EXCEPT !.got = g] = o
    <2>1. m = [visit |-> m.visit, op |-> "load", got |-> m.got]
      BY <1>2 DEF LoadOf
    <2> HIDE DEF g
    <2> QED
      BY <2>1 DEF LoadOf
  <1>8. mail' = (mail \ {m}) \cup {o}
    BY <1>7 DEF ServeLoad
  <1> HIDE DEF g, D
  <1>9. g \in Reads(D, titles)
    BY <1>4, <1>5, IsRead
  <1>10. o.visit = m.visit /\ o.op = "load" /\ o.got = g
    BY DEF LoadOf
  <1>11. LoadSound(o, titles)
    BY <1>2, <1>5, <1>9 DEF LoadSound
  <1> HIDE DEF o
  <1> QED
    BY <1>1, <1>4, <1>6, <1>8, <1>10, <1>11 DEF D

LEMMA RepliedDoes ==
  ASSUME CoursesShape, NEW m \in mail, m.op \in Acts, NEW op \in {"done", "failed"}, Replied(m, op)
  PROVE  \E o : /\ mail' = (mail \ {m}) \cup {o} /\ ActSound(o, titles)
                /\ o.visit = m.visit /\ o.op = op
  <1> DEFINE o == ActOf(m.visit, op, m.op, m.copy)
  <1>1. m.op # "load"
    BY DEF Acts
  <1>2. m.visit \in Visits /\ m = ActOf(m.visit, m.op, m.data, m.copy)
    BY <1>1, Received, ActIs
  <1>3. [m EXCEPT !.op = op, !.data = m.op] = o
    <2>1. PICK v, a, d, c : v = m.visit /\ a = m.op /\ d = m.data /\ c = m.copy
      OBVIOUS
    <2>2. m = [visit |-> v, op |-> a, data |-> d, copy |-> c]
      BY <1>2, <2>1 DEF ActOf
    <2>3. [m EXCEPT !.op = op, !.data = a]
            = [[visit |-> v, op |-> a, data |-> d, copy |-> c] EXCEPT !.op = op, !.data = a]
      BY <2>2
    <2>4. PICK z : z = [m EXCEPT !.op = op, !.data = a]
      OBVIOUS
    <2>5. z = [[visit |-> v, op |-> a, data |-> d, copy |-> c] EXCEPT !.op = op, !.data = a]
      BY <2>3, <2>4
    <2>6. z = [visit |-> v, op |-> op, data |-> a, copy |-> c]
      BY ONLY <2>5
    <2> QED
      BY <2>1, <2>4, <2>6 DEF ActOf
  <1>4. mail' = (mail \ {m}) \cup {o}
    BY <1>3 DEF Replied
  <1>5. o.visit = m.visit /\ o.op = op
    BY DEF ActOf
  <1>6. Fits(op, m.op, titles) /\ op \in ActOps
    BY DEF Fits, ActOps
  <1>7. ActSound(o, titles)
    BY <1>2, <1>6 DEF ActSound
  <1> HIDE DEF o
  <1> QED
    BY <1>4, <1>5, <1>7

LEMMA SendsDoes ==
  ASSUME NEW v \in Visits, NEW op \in Acts, NEW data, Sends(v, op, data), Fits(op, data, titles)
  PROVE  \E o : /\ mail' = mail \cup {o} /\ ActSound(o, titles) /\ o.visit = v /\ o.op = op
  <1> DEFINE o == ActOf(v, op, data, view[v].editor.copy)
  <1>1. mail' = mail \cup {o}
    BY DEF Sends, ActOf
  <1>2. o.visit = v /\ o.op = op
    BY DEF ActOf
  <1>3. ActSound(o, titles)
    BY DEF ActSound, ActOps
  <1> HIDE DEF o
  <1> QED
    BY <1>1, <1>2, <1>3

LEMMA ClicksSend ==
  ASSUME CoursesShape, CoursesOpen, NEW v \in Visits,
         SaveCourse(v) \/ Regenerate(v) \/ CreateOther(v) \/ ChangeRoster(v) \/ Unenrol(v)
  PROVE  \E o : mail' = mail \cup {o} /\ ActSound(o, titles) /\ o.visit = v /\ o.op \in Acts
  <1>0. ASSUME NEW op \in Acts, NEW data, Sends(v, op, data), Fits(op, data, titles)
        PROVE  \E o : mail' = mail \cup {o} /\ ActSound(o, titles) /\ o.visit = v /\ o.op \in Acts
    BY <1>0, SendsDoes
  <1>1. CASE SaveCourse(v)
    <2> DEFINE d == [title |-> view[v].editor.title, archived |-> view[v].editor.archived]
    <2>1. Sends(v, "edit", d) /\ view[v].editor.on
      BY <1>1 DEF SaveCourse
    <2>2. view[v].editor.title \in 1 .. titles /\ view[v].editor.archived \in BOOLEAN
      BY <2>1, ViewHas, PageHas, EditorHas DEF CoursesOpen
    <2>3. d.title \in 1 .. titles /\ d.archived \in BOOLEAN
      BY <2>2
    <2> HIDE DEF d
    <2>4. Fits("edit", d, titles) /\ "edit" \in Acts
      BY <2>3 DEF Fits, Acts
    <2> QED
      BY <2>1, <2>4, <1>0
  <1>2. CASE Regenerate(v)
    <2>1. Fits("code", 0, titles) /\ "code" \in Acts
      BY DEF Fits, Acts
    <2> QED
      BY <1>2, <2>1, <1>0 DEF Regenerate
  <1>3. CASE CreateOther(v)
    <2>1. Fits("create", 0, titles) /\ "create" \in Acts
      BY DEF Fits, Acts
    <2> QED
      BY <1>3, <2>1, <1>0 DEF CreateOther
  <1>4. CASE ChangeRoster(v)
    <2>1. PICK op \in {"enrol", "appoint", "dismiss"} : \E d :
            Sends(v, op, d) /\ (op = "enrol" => d \in Pupils) /\ (op = "appoint" => d \in Helpers)
      BY <1>4 DEF ChangeRoster
    <2>2. PICK d : Sends(v, op, d) /\ (op = "enrol" => d \in Pupils) /\ (op = "appoint" => d \in Helpers)
      BY <2>1
    <2>3. Fits(op, d, titles) /\ op \in Acts
      BY <2>1, <2>2 DEF Fits, Acts
    <2> QED
      BY <2>2, <2>3, <1>0
  <1>5. CASE Unenrol(v)
    <2>1. PICK s : Sends(v, "unenrol", s)
      BY <1>5 DEF Unenrol
    <2>2. Fits("unenrol", s, titles) /\ "unenrol" \in Acts
      BY DEF Fits, Acts
    <2> QED
      BY <2>1, <2>2, <1>0
  <1> QED
    BY <1>1, <1>2, <1>3, <1>4, <1>5

(* Every step leaves in the mail what was there, but for one message, and  *)
(* adds one at most.                                                       *)
Adds(o) ==
  /\ MailSound(o, titles) /\ o.visit \in Visits /\ view'[o.visit].visited
  /\ o.op = "load" => \A p \in DOMAIN o.got :
       \/ o.got[p] = course[p]
       \/ \E m \in mail : m.op = "load" /\ p \in DOMAIN m.got /\ o.got[p] = m.got[p]

LEMMA MailGets ==
  ASSUME CoursesShape, CoursesOpen, [CoursePagesNext]_courseVars
  PROVE  mail' \subseteq mail \/ \E o : mail' \subseteq mail \cup {o} /\ Adds(o) /\ titles' = titles
  <1>a. ASSUME NEW v \in Visits, Visit(v) PROVE \E o : mail' \subseteq mail \cup {o} /\ Adds(o) /\ titles' = titles
    <2>1. PICK o : o = Load(v)
      OBVIOUS
    <2>2. LoadSound(o, titles) /\ o.visit = v /\ DOMAIN o.got = {}
      BY <2>1, EmptyLoad
    <2>3. view'[v].visited
      BY <1>a, VisitDoes, OneViewIs DEF CoursesShape
    <2>4. Adds(o)
      BY <2>2, <2>3 DEF Adds, MailSound
    <2> QED
      BY <1>a, <2>1, <2>4 DEF Visit
  <1>b. ASSUME NEW v \in Visits, SaveCourse(v) \/ Regenerate(v) \/ CreateOther(v) \/ ChangeRoster(v) \/ Unenrol(v)
        PROVE  \E o : mail' \subseteq mail \cup {o} /\ Adds(o) /\ titles' = titles
    <2>1. PICK o : mail' = mail \cup {o} /\ ActSound(o, titles) /\ o.visit = v /\ o.op \in Acts
      BY <1>b, ClicksSend
    <2>2. view[v].visited /\ titles' = titles
      BY <1>b DEF SaveCourse, Regenerate, CreateOther, ChangeRoster, Unenrol, Displayed, IsUp, CoursesOpen, Sends
    <2>3. view'[v].visited
      BY <2>2, VisitedStays
    <2>4. Adds(o)
      BY <2>1, <2>3 DEF Adds, MailSound, Acts
    <2> QED
      BY <2>1, <2>2, <2>4
  <1>c. ASSUME NEW m \in mail, NEW p \in Parts, ServeLoad(m, p)
        PROVE  \E o : mail' \subseteq mail \cup {o} /\ Adds(o) /\ titles' = titles
    <2>1. PICK o : /\ mail' = (mail \ {m}) \cup {o} /\ LoadSound(o, titles)
                   /\ o.visit = m.visit /\ o.op = "load" /\ DOMAIN o.got = DOMAIN m.got \cup {p}
                   /\ o.got[p] = course[p] /\ \A q \in DOMAIN m.got : o.got[q] = m.got[q]
      BY <1>c, ServeLoadDoes
    <2>2. m.op = "load"
      BY <1>c, ServeLoadDoes
    <2>3. view'[m.visit].visited /\ m.visit \in Visits
      BY Received, VisitedStays
    <2>4. Adds(o)
      BY <2>1, <2>2, <2>3 DEF Adds, MailSound
    <2> QED
      BY <1>c, <2>1, <2>4 DEF ServeLoad
  <1>d. ASSUME NEW m \in mail, ServeAct(m)
        PROVE  \E o : mail' \subseteq mail \cup {o} /\ Adds(o) /\ titles' = titles
    <2>1. m.op \in Acts /\ titles' = titles /\ (Replied(m, "done") \/ Replied(m, "failed"))
      BY <1>d, ServeActDoes
    <2>2. PICK o : /\ mail' = (mail \ {m}) \cup {o} /\ ActSound(o, titles)
                   /\ o.visit = m.visit /\ o.op \in {"done", "failed"}
      BY <2>1, RepliedDoes
    <2>3. view'[m.visit].visited /\ m.visit \in Visits
      BY Received, VisitedStays
    <2>4. Adds(o)
      BY <2>2, <2>3 DEF Adds, MailSound
    <2> QED
      BY <2>1, <2>2, <2>4
  <1>e. ASSUME NEW m \in mail, ActDone(m)
        PROVE  \E o : mail' \subseteq mail \cup {o} /\ Adds(o) /\ titles' = titles
    <2>1. PICK o : o = Load(m.visit)
      OBVIOUS
    <2>2. view'[m.visit].visited /\ m.visit \in Visits
      BY Received, VisitedStays
    <2>3. LoadSound(o, titles) /\ o.visit = m.visit /\ DOMAIN o.got = {}
      BY <2>1, <2>2, EmptyLoad
    <2>4. Adds(o)
      BY <2>2, <2>3 DEF Adds, MailSound
    <2> QED
      BY <1>e, <2>1, <2>4 DEF ActDone, Reloading, Reloads
  <1>f. ASSUME NEW m \in mail, LoadArrives(m) \/ ReloadFails(m) \/ ActFails(m) PROVE mail' \subseteq mail
    BY <1>f DEF LoadArrives, ReloadFails, ActFails
  <1>g. ASSUME NEW v \in Visits, ToggleEditor(v) \/ TypeTitle(v) \/ FlipArchived(v) PROVE mail' \subseteq mail
    BY <1>g DEF ToggleEditor, TypeTitle, FlipArchived
  <1>h. CASE UNCHANGED courseVars
    BY <1>h DEF courseVars
  <1> QED
    BY <1>a, <1>b, <1>c, <1>d, <1>e, <1>f, <1>g, <1>h DEF CoursePagesNext

LEMMA TitlesGrow ==
  ASSUME CoursesShape, [CoursePagesNext]_courseVars
  PROVE  titles \in Nat /\ (titles' = titles \/ titles' = titles + 1)
  <1>1. titles \in Nat
    BY TitlesAssumption DEF CoursesShape, BaseInv
  <1>2. ASSUME NEW v \in Visits, TypeTitle(v) PROVE titles' = titles + 1
    BY <1>2 DEF TypeTitle
  <1> QED
    BY <1>1, <1>2, TitlesStay

LEMMA MailStep == ASSUME CoursesShape, CoursesOpen, [CoursePagesNext]_courseVars PROVE MailInv'
  <1>1. ASSUME NEW m \in mail PROVE MailSound(m, titles') /\ view'[m.visit].visited
    <2>1. MailSound(m, titles) /\ m.visit \in Visits /\ view[m.visit].visited
      BY Received
    <2> QED
      BY <2>1, TitlesGrow, MoreTitles, VisitedStays
  <1>2. ASSUME NEW o, mail' \subseteq mail \cup {o}, Adds(o), titles' = titles PROVE MailInv'
    <2>1. MailSound(o, titles') /\ view'[o.visit].visited
      BY <1>2 DEF Adds
    <2> QED
      BY <1>1, <1>2, <2>1 DEF MailInv
  <1>3. ASSUME mail' \subseteq mail PROVE MailInv'
    BY <1>1, <1>3 DEF MailInv
  <1> QED
    BY <1>2, <1>3, MailGets

-----------------------------------------------------------------------------
OpenOn(v, k, n) ==
  /\ k.editing => v \in ListPages
  /\ k.editor.on => k.editing /\ k.visited /\ ~k.loading /\ k.loaded /\ k.editor.title \in 1 .. n

LEMMA OpenStep == ASSUME CoursesShape, CoursesOpen, [CoursePagesNext]_courseVars PROVE CoursesOpen'
  <1>0. ASSUME NEW u \in Visits PROVE OpenOn(u, view[u], titles) /\ OpenOn(u, view[u], titles')
    <2>1. OpenOn(u, view[u], titles)
      BY DEF CoursesOpen, OpenOn
    <2>2. 1 .. titles \subseteq 1 .. titles'
      BY TitlesGrow
    <2> QED
      BY <2>1, <2>2 DEF OpenOn
  <1>a. ASSUME NEW v \in Visits, NEW y, OneView(v, y), OpenOn(v, y, titles') PROVE CoursesOpen'
    <2>1. view'[v] = y /\ \A u \in Visits : u # v => view'[u] = view[u]
      BY <1>a, OneViewIs DEF CoursesShape
    <2>2. \A u \in Visits : OpenOn(u, view'[u], titles')
      BY <1>0, <1>a, <2>1
    <2> QED
      BY <2>2 DEF CoursesOpen, OpenOn
  <1>b. ASSUME view' = view PROVE CoursesOpen'
    <2>1. \A u \in Visits : OpenOn(u, view'[u], titles')
      BY <1>0, <1>b
    <2> QED
      BY <2>1 DEF CoursesOpen, OpenOn
  <1>c. ASSUME NEW v \in Visits, TouchesPage(v) PROVE CoursesOpen'
    <2>1. PICK y : OneView(v, y) /\ SamePage(view[v], y) /\ SameEditor(view[v], y)
      BY <1>c DEF TouchesPage
    <2>2. OpenOn(v, y, titles')
      BY <1>0, <2>1 DEF SamePage, SameEditor, OpenOn
    <2> QED
      BY <1>a, <2>1, <2>2
  <1>1. ASSUME NEW v \in Visits, Visit(v) PROVE CoursesOpen'
    <2>1. PICK y : OneView(v, y) /\ y.editing = view[v].editing /\ ~y.editor.on
      BY <1>1, VisitDoes
    <2>2. OpenOn(v, y, titles')
      BY <1>0, <2>1 DEF OpenOn
    <2> QED
      BY <1>a, <2>1, <2>2
  <1>2. ASSUME NEW v \in Visits, ToggleEditor(v) PROVE CoursesOpen'
    <2>1. PICK y \in Pages(titles) :
            /\ OneView(v, y) /\ SamePage(view[v], y) /\ ~y.loading
            /\ ~view[v].editing => y.editing
            /\ view[v].editing => ~y.editor.on
            /\ y.editor.on => \/ view[v].editor.on /\ y.editor.title = view[v].editor.title
                              \/ y.editor.title \in 1 .. titles
      BY <1>2, ToggleEditorDoes
    <2>2. v \in ListPages /\ view[v].visited /\ view[v].loaded /\ titles' = titles
      BY <1>2 DEF ToggleEditor, Displayed, IsUp
    <2>3. OpenOn(v, y, titles')
      BY <1>0, <2>1, <2>2 DEF SamePage, OpenOn
    <2> QED
      BY <1>a, <2>1, <2>3
  <1>3. ASSUME NEW v \in Visits, TypeTitle(v) PROVE CoursesOpen'
    <2>1. PICK y \in Pages(titles') :
              /\ OneView(v, y) /\ SamePage(view[v], y)
              /\ y.loading = view[v].loading /\ y.editing = view[v].editing
              /\ y.editor.on /\ y.editor.title = titles'
      BY <1>3, TypeTitleDoes
    <2>2. view[v].editor.on
      BY <1>3, TypeTitleDoes
    <2>3. titles' \in 1 .. titles'
      BY <1>3, TitlesGrow, TypeTitleDoes
    <2>4. OpenOn(v, y, titles')
      BY <1>0, <2>1, <2>2, <2>3 DEF SamePage, OpenOn
    <2> QED
      BY <1>a, <2>1, <2>4
  <1>4. ASSUME NEW m \in mail, LoadArrives(m) PROVE CoursesOpen'
    <2>1. PICK y \in Pages(titles) :
           /\ OneView(m.visit, y) /\ y.visited /\ ~y.loading /\ y.loaded /\ y.editing = view[m.visit].editing
           /\ view[m.visit].editor.on => y.editor = view[m.visit].editor
           /\ y.editor.on => \/ view[m.visit].editor.on
                             \/ view[m.visit].editing /\ y.editor.title \in 1 .. titles
      BY <1>4, LoadArrivesDoes
    <2>2. titles' = titles /\ m.visit \in Visits
      BY <1>4, Received DEF LoadArrives
    <2>3. OpenOn(m.visit, y, titles')
      BY <1>0, <2>1, <2>2 DEF OpenOn
    <2> QED
      BY <1>a, <2>1, <2>2, <2>3
  <1>5. ASSUME NEW m \in mail, ReloadFails(m) PROVE CoursesOpen'
    <2>1. PICK y \in Pages(titles) :
           /\ OneView(m.visit, y) /\ y.visited /\ ~y.loading /\ y.loaded = view[m.visit].loaded
           /\ y.editing = view[m.visit].editing
           /\ view[m.visit].editor.on => y.editor = view[m.visit].editor
           /\ y.editor.on => \/ view[m.visit].editor.on
                             \/ /\ view[m.visit].editing /\ view[m.visit].loaded
                                /\ y.editor.title \in 1 .. titles
      BY <1>5, ReloadFailsDoes
    <2>2. titles' = titles /\ m.visit \in Visits
      BY <1>5, Received DEF ReloadFails
    <2>3. OpenOn(m.visit, y, titles')
      BY <1>0, <2>1, <2>2 DEF OpenOn
    <2> QED
      BY <1>a, <2>1, <2>2, <2>3
  <1>6. ASSUME NEW m \in mail, ActDone(m) PROVE CoursesOpen'
    <2>1. PICK y : OneView(m.visit, y) /\ ~y.editor.on /\ (y.editing => view[m.visit].editing)
      BY <1>6, ActDoneDoes
    <2>2. m.visit \in Visits
      BY Received
    <2>3. OpenOn(m.visit, y, titles')
      BY <1>0, <2>1, <2>2 DEF OpenOn
    <2> QED
      BY <1>a, <2>1, <2>2, <2>3
  <1>7. ASSUME NEW m \in mail, ActFails(m) PROVE CoursesOpen'
    BY <1>7, <1>c, Received, ActFailsDoes
  <1>8. ASSUME NEW v \in Visits, FlipArchived(v) \/ SaveCourse(v) \/ CreateOther(v) \/ ChangeRoster(v)
        PROVE  CoursesOpen'
    BY <1>8, <1>c, ClicksTouch
  <1>9. CASE UNCHANGED courseVars
    BY <1>9, <1>b DEF courseVars
  <1> QED
    BY <1>1, <1>2, <1>3, <1>4, <1>5, <1>6, <1>7, <1>8, <1>9, <1>b, ViewStays, ServingStays DEF CoursePagesNext

-----------------------------------------------------------------------------
(* The title that a visit owes is in its editor, unless it was closed       *)
KeepsTitle(k, o, r) == o # 0 => r \/ (k.editor.on /\ k.editor.title = o)

LEMMA TitleStep ==
  ASSUME CoursesShape, CoursesOpen, TitleIsKept, [CoursePagesNext]_courseVars
  PROVE  TitleIsKept'
  <1>0. \A u \in Visits : KeepsTitle(view[u], owing[u], removed[u])
    BY DEF TitleIsKept, KeepsTitle
  <1>a. ASSUME NEW v \in Visits, NEW y, OneView(v, y), KeepsTitle(y, owing'[v], removed'[v]),
               \A u \in Visits : u # v => owing'[u] = owing[u] /\ removed'[u] = removed[u]
        PROVE  TitleIsKept'
    <2>1. view'[v] = y /\ \A u \in Visits : u # v => view'[u] = view[u]
      BY <1>a, OneViewIs DEF CoursesShape
    <2>2. \A u \in Visits : KeepsTitle(view'[u], owing'[u], removed'[u])
      BY <1>0, <1>a, <2>1
    <2> QED
      BY <2>2 DEF TitleIsKept, KeepsTitle
  <1>b. ASSUME UNCHANGED view, \A u \in Visits : (owing'[u] = owing[u] \/ owing'[u] = 0) /\ removed'[u] = removed[u]
        PROVE  TitleIsKept'
    <2>1. \A u \in Visits : KeepsTitle(view'[u], owing'[u], removed'[u])
      BY <1>0, <1>b DEF KeepsTitle
    <2> QED
      BY <2>1 DEF TitleIsKept, KeepsTitle
  <1>c. ASSUME NEW v \in Visits, TouchesPage(v), UNCHANGED <<owing, removed>> PROVE TitleIsKept'
    <2>1. PICK y : OneView(v, y) /\ SameEditor(view[v], y)
      BY <1>c DEF TouchesPage
    <2>2. KeepsTitle(y, owing[v], removed[v])
      BY <1>0, <2>1 DEF SameEditor, KeepsTitle
    <2> QED
      BY <1>a, <1>c, <2>1, <2>2
  <1>d. owing \in [Visits -> Nat] /\ removed \in [Visits -> BOOLEAN]
    BY DEF CoursesShape, BaseInv
  <1>1. ASSUME NEW v \in Visits, Visit(v) PROVE TitleIsKept'
    <2>1. PICK y : OneView(v, y)
      BY <1>1, VisitDoes
    <2>2. UNCHANGED <<owing, removed>> /\ ~view[v].editor.on
      BY <1>1 DEF Visit, CoursesOpen
    <2>3. KeepsTitle(y, owing[v], removed[v])
      BY <1>0, <2>2 DEF KeepsTitle
    <2> QED
      BY <1>a, <2>1, <2>2, <2>3
  <1>2. ASSUME NEW v \in Visits, ToggleEditor(v) PROVE TitleIsKept'
    <2>1. PICK y : OneView(v, y)
      BY <1>2, ToggleEditorDoes
    <2>2. owing' = [owing EXCEPT ![v] = 0] /\ removed' = [removed EXCEPT ![v] = FALSE]
      BY <1>2 DEF ToggleEditor
    <2>3. owing'[v] = 0 /\ \A u \in Visits : u # v => owing'[u] = owing[u] /\ removed'[u] = removed[u]
      BY <1>d, <2>2
    <2>4. KeepsTitle(y, owing'[v], removed'[v])
      BY <2>3 DEF KeepsTitle
    <2> QED
      BY <1>a, <2>1, <2>3, <2>4
  <1>3. ASSUME NEW v \in Visits, TypeTitle(v) PROVE TitleIsKept'
    <2>1. PICK y \in Pages(titles') : OneView(v, y) /\ y.editor.on /\ y.editor.title = titles'
      BY <1>3, TypeTitleDoes
    <2>2. owing' = [owing EXCEPT ![v] = titles'] /\ removed' = [removed EXCEPT ![v] = FALSE]
      BY <1>3 DEF TypeTitle
    <2>3. owing'[v] = titles' /\ \A u \in Visits : u # v => owing'[u] = owing[u] /\ removed'[u] = removed[u]
      BY <1>d, <2>2
    <2>4. KeepsTitle(y, owing'[v], removed'[v])
      BY <2>1, <2>3 DEF KeepsTitle
    <2> QED
      BY <1>a, <2>1, <2>3, <2>4
  <1>4. ASSUME NEW m \in mail, LoadArrives(m) \/ ReloadFails(m) PROVE TitleIsKept'
    <2>1. PICK y \in Pages(titles) :
            OneView(m.visit, y) /\ (view[m.visit].editor.on => y.editor = view[m.visit].editor)
      BY <1>4, LoadArrivesDoes, ReloadFailsDoes
    <2>2. UNCHANGED <<owing, removed>> /\ m.visit \in Visits
      BY <1>4, Received DEF LoadArrives, ReloadFails
    <2>3. KeepsTitle(y, owing[m.visit], removed[m.visit])
      BY <1>0, <2>1, <2>2 DEF KeepsTitle
    <2> QED
      BY <1>a, <2>1, <2>2, <2>3
  <1>5. ASSUME NEW m \in mail, ActDone(m) PROVE TitleIsKept'
    <2>1. PICK y : OneView(m.visit, y)
      BY <1>5, ActDoneDoes
    <2>2. owing' = owing /\ removed' = Cut(m.visit) /\ m.visit \in Visits
      BY <1>5, Received DEF ActDone
    <2>3. CASE view[m.visit].editor.on /\ owing[m.visit] # 0
      <3>1. removed' = [removed EXCEPT ![m.visit] = TRUE]
        BY <2>2, <2>3 DEF Cut
      <3>2. removed'[m.visit] /\ \A u \in Visits : u # m.visit => removed'[u] = removed[u]
        BY <1>d, <2>2, <3>1
      <3>3. KeepsTitle(y, owing'[m.visit], removed'[m.visit])
        BY <3>2 DEF KeepsTitle
      <3> QED
        BY <1>a, <2>1, <2>2, <3>2, <3>3
    <2>4. CASE ~(view[m.visit].editor.on /\ owing[m.visit] # 0)
      <3>1. removed' = removed
        BY <2>2, <2>4 DEF Cut
      <3>3. KeepsTitle(y, owing'[m.visit], removed'[m.visit])
        BY <1>0, <2>2, <2>4, <3>1 DEF KeepsTitle
      <3> QED
        BY <1>a, <2>1, <2>2, <3>1, <3>3
    <2> QED
      BY <2>3, <2>4
  <1>6. ASSUME NEW m \in mail, ActFails(m) PROVE TitleIsKept'
    BY <1>6, <1>c, Received, ActFailsDoes DEF ActFails
  <1>7. ASSUME NEW v \in Visits, FlipArchived(v) \/ SaveCourse(v) \/ CreateOther(v) \/ ChangeRoster(v)
        PROVE  TitleIsKept'
    <2>1. UNCHANGED <<owing, removed>>
      BY <1>7 DEF FlipArchived, SaveCourse, CreateOther, ChangeRoster, Sends
    <2> QED
      BY <1>7, <2>1, <1>c, ClicksTouch
  <1>8. ASSUME NEW v \in Visits, Regenerate(v) \/ Unenrol(v) PROVE TitleIsKept'
    <2>1. UNCHANGED <<owing, removed>>
      BY <1>8 DEF Regenerate, Unenrol, Sends
    <2> QED
      BY <1>8, <2>1, <1>b, ViewStays
  <1>9. ASSUME NEW m \in mail, NEW p \in Parts, ServeLoad(m, p) PROVE TitleIsKept'
    BY <1>9, <1>b DEF ServeLoad
  <1>10. ASSUME NEW m \in mail, ServeAct(m) PROVE TitleIsKept'
    <2>1. view' = view /\ removed' = removed /\ m.op \in Acts
      BY <1>10, ServeActDoes
    <2>2. owing' = owing \/ owing' = [owing EXCEPT ![m.visit] = 0]
      BY <1>10, <2>1, ServeActDoes, StoredDoes
    <2>3. \A u \in Visits : owing'[u] = owing[u] \/ owing'[u] = 0
      BY <1>d, <2>2
    <2> QED
      BY <1>b, <2>1, <2>3
  <1>11. CASE UNCHANGED courseVars
    BY <1>11, <1>b DEF courseVars
  <1> QED
    BY <1>1, <1>2, <1>3, <1>4, <1>5, <1>6, <1>7, <1>8, <1>9, <1>10, <1>11 DEF CoursePagesNext

-----------------------------------------------------------------------------
(* What is shown or on its way is the course's, as it is or as it was       *)
Behind(e, c) == e.age =< c.age /\ (e.age = c.age => e = c)

PageBehind(k) == \A p \in Parts : Behind(k.shown[p], course[p]) /\ k.newest[p] =< course[p].age

MailBehind == \A m \in mail : m.op = "load" => \A p \in DOMAIN m.got : Behind(m.got[p], course[p])

BehindInv == MailBehind /\ \A v \in Visits : PageBehind(view[v])

LEMMA BehindMore ==
  ASSUME NEW e, NEW c, NEW d, e.age \in Nat, c.age \in Nat, Behind(e, c), d.age = c.age + 1
  PROVE  Behind(e, d)
  <1> DEFINE a == e.age
             b == c.age
             x == d.age
  <1>1. a \in Nat /\ b \in Nat /\ a =< b /\ x = b + 1
    BY DEF Behind
  <1> HIDE DEF a, b, x
  <1>2. a =< x /\ a # x
    BY <1>1
  <1> QED
    BY <1>2 DEF Behind, a, x

LEMMA OneMore ==
  ASSUME NEW i \in Nat, NEW j \in Nat, i =< j PROVE i =< j + 1
  OBVIOUS

LEMMA BehindSelf == ASSUME NEW c, c.age \in Nat PROVE Behind(c, c)
  BY DEF Behind

LEMMA Ages ==
  ASSUME CoursesShape
  PROVE  /\ \A p \in Parts : course[p].age \in Nat
         /\ \A v \in Visits, p \in Parts : view[v].shown[p].age \in Nat /\ view[v].newest[p] \in Nat
         /\ \A m \in mail : m.op = "load" =>
              /\ DOMAIN m.got \subseteq PartsOf(m.visit) /\ DOMAIN m.got \subseteq Parts
              /\ \A p \in DOMAIN m.got : m.got[p].age \in Nat
  <1>1. \A p \in Parts : course[p].age \in Nat
    BY ReadIs DEF CoursesShape, BaseInv
  <1>2. ASSUME NEW v \in Visits, NEW p \in Parts PROVE view[v].shown[p].age \in Nat /\ view[v].newest[p] \in Nat
    <2>1. view[v].shown \in Reads(Parts, titles) /\ view[v].newest \in [Parts -> Nat]
      BY ViewHas, PageHas
    <2> QED
      BY <2>1, ReadIs
  <1>3. ASSUME NEW m \in mail, m.op = "load"
        PROVE  /\ DOMAIN m.got \subseteq PartsOf(m.visit) /\ DOMAIN m.got \subseteq Parts
               /\ \A p \in DOMAIN m.got : m.got[p].age \in Nat
    <2>1. DOMAIN m.got \subseteq PartsOf(m.visit) /\ m.got \in Reads(DOMAIN m.got, titles)
      BY <1>3, Received, LoadIs
    <2> QED
      BY <2>1, ReadIs, PartsAre
  <1> QED
    BY <1>1, <1>2, <1>3

LEMMA CourseGrows ==
  ASSUME CoursesShape, NEW m \in mail, ServeAct(m), NEW p \in Parts
  PROVE  course'[p] = course[p] \/ course'[p].age = course[p].age + 1
  <1>1. m.op \in Acts
    BY ServeActDoes
  <1>2. CASE course' = course
    BY <1>2
  <1>3. ASSUME NEW q \in Parts, NEW e, course' = [course EXCEPT ![q] = e], e.age = course[q].age + 1
        PROVE  course'[p] = course[p] \/ course'[p].age = course[p].age + 1
    <2>1. DOMAIN course = Parts
      BY ReadIs DEF CoursesShape, BaseInv
    <2>2. course'[p] = IF p = q THEN e ELSE course[p]
      BY <1>3, <2>1
    <2> QED
      BY <1>3, <2>2
  <1>4. course' = course \/ \E told : Stored(m, told)
    BY ServeActDoes
  <1>5. ASSUME NEW told, Stored(m, told) PROVE course'[p] = course[p] \/ course'[p].age = course[p].age + 1
    BY <1>1, <1>2, <1>3, <1>5, StoredDoes
  <1> QED
    BY <1>2, <1>4, <1>5

LEMMA BehindKept ==
  ASSUME CoursesShape, NEW m \in mail, ServeAct(m), NEW p \in Parts, NEW e, e.age \in Nat, Behind(e, course[p])
  PROVE  Behind(e, course'[p])
  <1>1. CASE course'[p] = course[p]
    BY <1>1
  <1>2. CASE course'[p].age = course[p].age + 1
    <2>1. PICK c, d : c = course[p] /\ d = course'[p]
      OBVIOUS
    <2>2. c.age \in Nat /\ d.age = c.age + 1 /\ Behind(e, c)
      BY <1>2, <2>1, Ages
    <2> QED
      BY <2>1, <2>2, BehindMore
  <1> QED
    BY <1>1, <1>2, CourseGrows

(* Only an answer to a load changes what a page shows of the course         *)
LEMMA PagesShow ==
  ASSUME CoursesShape, [CoursePagesNext]_courseVars, \A m \in mail : ~LoadArrives(m) /\ ~ReloadFails(m),
         NEW u \in Visits
  PROVE  view'[u].shown = view[u].shown /\ view'[u].newest = view[u].newest /\ view'[u].missed = view[u].missed
  <1> DEFINE Goal == /\ view'[u].shown = view[u].shown /\ view'[u].newest = view[u].newest
                     /\ view'[u].missed = view[u].missed
  <1>a. ASSUME NEW v \in Visits, NEW y, OneView(v, y), y.shown = view[v].shown, y.newest = view[v].newest,
               y.missed = view[v].missed
        PROVE  Goal
    BY <1>a, OneViewIs DEF CoursesShape
  <1>b. ASSUME NEW v \in Visits, NEW y, OneView(v, y), SamePage(view[v], y) PROVE Goal
    BY <1>a, <1>b DEF SamePage
  <1>c. ASSUME NEW v \in Visits, TouchesPage(v) PROVE Goal
    BY <1>b, <1>c DEF TouchesPage
  <1>d. ASSUME view' = view PROVE Goal
    BY <1>d
  <1> HIDE DEF Goal
  <1>1. ASSUME NEW v \in Visits, Visit(v) PROVE Goal
    BY <1>1, <1>a, VisitDoes
  <1>2. ASSUME NEW v \in Visits, ToggleEditor(v) PROVE Goal
    BY <1>2, <1>b, ToggleEditorDoes
  <1>3. ASSUME NEW v \in Visits, TypeTitle(v) PROVE Goal
    BY <1>3, <1>b, TypeTitleDoes
  <1>4. ASSUME NEW v \in Visits, FlipArchived(v) \/ SaveCourse(v) \/ CreateOther(v) \/ ChangeRoster(v) PROVE Goal
    BY <1>4, <1>c, ClicksTouch
  <1>5. ASSUME NEW m \in mail, ActDone(m) PROVE Goal
    BY <1>5, <1>b, Received, ActDoneDoes
  <1>6. ASSUME NEW m \in mail, ActFails(m) PROVE Goal
    BY <1>6, <1>c, Received, ActFailsDoes
  <1>7. ASSUME UNCHANGED courseVars PROVE Goal
    BY <1>7, <1>d DEF courseVars
  <1>9. ASSUME NEW v \in Visits, Regenerate(v) \/ Unenrol(v) PROVE Goal
    BY <1>9, <1>d, ViewStays
  <1>10. ASSUME NEW m \in mail, ServeAct(m) \/ \E p \in Parts : ServeLoad(m, p) PROVE Goal
    BY <1>10, <1>d, ServingStays
  <1>8. Goal
    BY <1>1, <1>2, <1>3, <1>4, <1>5, <1>6, <1>7, <1>9, <1>10 DEF CoursePagesNext
  <1> QED
    BY <1>8 DEF Goal

LEMMA BehindStep ==
  ASSUME CoursesShape, CoursesOpen, BehindInv, [CoursePagesNext]_courseVars
  PROVE  BehindInv'
  <1>1. ASSUME NEW m \in mail, ServeAct(m) PROVE BehindInv'
    <2>1. view' = view /\ m.op \in Acts /\ (Replied(m, "done") \/ Replied(m, "failed"))
      BY <1>1, ServeActDoes
    <2>2. PICK o : mail' = (mail \ {m}) \cup {o} /\ o.op \in {"done", "failed"}
      BY <2>1, RepliedDoes
    <2>3. \A n \in mail' : n.op = "load" => n \in mail
      BY <2>2
    <2>4. ASSUME NEW n \in mail', n.op = "load", NEW p \in DOMAIN n.got PROVE Behind(n.got[p], course'[p])
      <3>1. n \in mail
        BY <2>3, <2>4
      <3>2. p \in Parts /\ n.got[p].age \in Nat /\ Behind(n.got[p], course[p])
        BY <2>4, <3>1, Ages DEF BehindInv, MailBehind
      <3>3. PICK e : e = n.got[p]
        OBVIOUS
      <3> QED
        BY <1>1, <3>2, <3>3, BehindKept
    <2>5. ASSUME NEW v \in Visits, NEW p \in Parts
          PROVE  Behind(view'[v].shown[p], course'[p]) /\ view'[v].newest[p] =< course'[p].age
      <3>1. /\ Behind(view[v].shown[p], course[p]) /\ view[v].newest[p] =< course[p].age
            /\ view[v].shown[p].age \in Nat /\ view[v].newest[p] \in Nat /\ course[p].age \in Nat
        BY Ages DEF BehindInv, PageBehind
      <3>2. PICK e, i : e = view[v].shown[p] /\ i = view[v].newest[p]
        OBVIOUS
      <3>3. Behind(e, course'[p])
        BY <1>1, <3>1, <3>2, BehindKept
      <3>4. PICK j : j = course[p].age
        OBVIOUS
      <3>5. i =< j /\ i =< j + 1
        BY <3>1, <3>2, <3>4, OneMore
      <3>6. course'[p].age = j \/ course'[p].age = j + 1
        BY <1>1, <3>4, CourseGrows
      <3>7. i =< course'[p].age
        BY <3>5, <3>6
      <3> QED
        BY <2>1, <3>2, <3>3, <3>7
    <2> QED
      BY <2>4, <2>5 DEF BehindInv, MailBehind, PageBehind
  <1>2. ASSUME \A m \in mail : ~ServeAct(m) PROVE BehindInv'
    <2>1. course' = course
      BY <1>2, CourseStays
    <2>2. ASSUME NEW n \in mail', n.op = "load", NEW p \in DOMAIN n.got PROVE Behind(n.got[p], course[p])
      <3>1. CASE n \in mail
        BY <2>2, <3>1 DEF BehindInv, MailBehind
      <3>2. CASE Adds(n)
        <4>1. CASE n.got[p] = course[p]
          <5>1. p \in Parts
            BY <2>2, <3>2, LoadIs, PartsAre DEF Adds
          <5>2. PICK c : c = course[p]
            OBVIOUS
          <5> QED
            BY <4>1, <5>1, <5>2, Ages, BehindSelf
        <4>2. CASE \E m \in mail : m.op = "load" /\ p \in DOMAIN m.got /\ n.got[p] = m.got[p]
          BY <4>2 DEF BehindInv, MailBehind
        <4> QED
          BY <2>2, <3>2, <4>1, <4>2 DEF Adds
      <3> QED
        BY <2>2, <3>1, <3>2, MailGets
    <2>3. ASSUME NEW u \in Visits PROVE PageBehind(view'[u])
      <3>1. ASSUME NEW m \in mail, LoadArrives(m) PROVE PageBehind(view'[u])
        <4>1. PICK y \in Pages(titles) :
                /\ OneView(m.visit, y)
                /\ \A p \in Parts :
                     /\ y.shown[p] = IF p \in DOMAIN m.got THEN m.got[p] ELSE view[m.visit].shown[p]
                     /\ y.newest[p] = IF p \in DOMAIN m.got /\ m.got[p].age > view[m.visit].newest[p]
                                      THEN m.got[p].age ELSE view[m.visit].newest[p]
          BY <3>1, LoadArrivesDoes
        <4>2. m.visit \in Visits /\ m.op = "load"
          BY <3>1, Received DEF LoadArrives
        <4>3. PageBehind(view[m.visit]) /\ \A p \in DOMAIN m.got : Behind(m.got[p], course[p])
          BY <4>2 DEF BehindInv, MailBehind
        <4>4. PageBehind(y)
          BY <4>1, <4>3 DEF PageBehind, Behind
        <4> QED
          BY <4>1, <4>2, <4>4, OneViewIs DEF CoursesShape, BehindInv
      <3>2. ASSUME NEW m \in mail, ReloadFails(m) PROVE PageBehind(view'[u])
        <4>1. PICK y \in Pages(titles) :
                OneView(m.visit, y) /\ y.shown = view[m.visit].shown /\ y.newest = view[m.visit].newest
          BY <3>2, ReloadFailsDoes
        <4>2. m.visit \in Visits
          BY Received
        <4>3. PageBehind(y)
          BY <4>1, <4>2 DEF BehindInv, PageBehind
        <4> QED
          BY <4>1, <4>2, <4>3, OneViewIs DEF CoursesShape, BehindInv
      <3>3. ASSUME \A m \in mail : ~LoadArrives(m) /\ ~ReloadFails(m) PROVE PageBehind(view'[u])
        <4>1. view'[u].shown = view[u].shown /\ view'[u].newest = view[u].newest
          BY <3>3, PagesShow
        <4> QED
          BY <4>1 DEF BehindInv, PageBehind
      <3> QED
        BY <3>1, <3>2, <3>3
    <2>4. ASSUME NEW u \in Visits, NEW p \in Parts
          PROVE  Behind(view'[u].shown[p], course'[p]) /\ view'[u].newest[p] =< course'[p].age
      BY <2>1, <2>3 DEF PageBehind
    <2> QED
      BY <2>1, <2>2, <2>4 DEF BehindInv, MailBehind, PageBehind
  <1> QED
    BY <1>1, <1>2

-----------------------------------------------------------------------------
(* A change of which the page was told will be seen: the answer that told   *)
(* of it is to come, or a load is under way that reads what was changed, or *)
(* the page has had it.                                                     *)
WillTell(m, v, p, c) ==
  /\ m.visit = v
  /\ \/ m.op = "done"
     \/ m.op = "load" /\ (p \in DOMAIN m.got => m.got[p].age = c.age)

Seen(k, p, c) == k.newest[p] = c.age

ToldInv ==
  \A v \in Visits : \A p \in PartsOf(v) :
    author[p] = {v} /\ ~view[v].missed =>
      (\E m \in mail : WillTell(m, v, p, course[p])) \/ Seen(view[v], p, course[p])

LEMMA ToldStep ==
  ASSUME CoursesShape, CoursesOpen, BehindInv, ToldInv, [CoursePagesNext]_courseVars
  PROVE  ToldInv'
  <1>a. ASSUME UNCHANGED <<course, author>>,
               \A v \in Visits : view'[v].newest = view[v].newest /\ view'[v].missed = view[v].missed,
               \A v \in Visits : \A p \in PartsOf(v) : \A m \in mail : WillTell(m, v, p, course[p]) =>
                 \E o \in mail' : WillTell(o, v, p, course[p])
        PROVE  ToldInv'
    BY <1>a DEF ToldInv, Seen
  <1>b. ASSUME \A m \in mail : ~LoadArrives(m) /\ ~ReloadFails(m), \A m \in mail : ~ServeAct(m),
               \A v \in Visits : \A p \in PartsOf(v) : \A m \in mail : WillTell(m, v, p, course[p]) =>
                 \E o \in mail' : WillTell(o, v, p, course[p])
        PROVE  ToldInv'
    BY <1>a, <1>b, CourseStays, PagesShow
  <1>1. ASSUME NEW m \in mail, NEW p \in Parts, ServeLoad(m, p) PROVE ToldInv'
    <2>1. PICK o : /\ mail' = (mail \ {m}) \cup {o}
                   /\ o.visit = m.visit /\ o.op = "load" /\ DOMAIN o.got = DOMAIN m.got \cup {p}
                   /\ o.got[p] = course[p] /\ \A q \in DOMAIN m.got : o.got[q] = m.got[q]
      BY <1>1, ServeLoadDoes
    <2>2. m.op = "load" /\ p \notin DOMAIN m.got /\ view' = view /\ UNCHANGED <<course, author>>
      BY <1>1, ServeLoadDoes DEF ServeLoad
    <2>3. ASSUME NEW v \in Visits, NEW q \in PartsOf(v), NEW n \in mail, WillTell(n, v, q, course[q])
          PROVE  \E x \in mail' : WillTell(x, v, q, course[q])
      <3>1. CASE n # m
        BY <2>1, <2>3, <3>1
      <3>2. CASE n = m
        <4>1. o.visit = v /\ o.op = "load"
          BY <2>1, <2>3, <3>2 DEF WillTell
        <4>2. q \in DOMAIN o.got => o.got[q].age = course[q].age
          <5>1. CASE q = p
            BY <2>1, <5>1
          <5>2. CASE q # p
            BY <2>1, <2>2, <2>3, <3>2, <5>2 DEF WillTell
          <5> QED
            BY <5>1, <5>2
        <4> QED
          BY <2>1, <4>1, <4>2 DEF WillTell
      <3> QED
        BY <3>1, <3>2
    <2> QED
      BY <1>a, <2>2, <2>3
  <1>2. ASSUME NEW m \in mail, LoadArrives(m) PROVE ToldInv'
    <2>1. PICK y \in Pages(titles) :
            /\ OneView(m.visit, y) /\ y.missed = view[m.visit].missed
            /\ \A p \in Parts :
                 y.newest[p] = IF p \in DOMAIN m.got /\ m.got[p].age > view[m.visit].newest[p]
                               THEN m.got[p].age ELSE view[m.visit].newest[p]
      BY <1>2, LoadArrivesDoes
    <2>2. /\ m.visit \in Visits /\ m.op = "load" /\ DOMAIN m.got = PartsOf(m.visit) /\ mail' = mail \ {m}
          /\ UNCHANGED <<course, author>>
      BY <1>2, Received DEF LoadArrives
    <2>3. view'[m.visit] = y /\ \A u \in Visits : u # m.visit => view'[u] = view[u]
      BY <2>1, <2>2, OneViewIs DEF CoursesShape
    <2>4. ASSUME NEW p \in PartsOf(m.visit), author[p] = {m.visit}, ~y.missed
          PROVE  (\E o \in mail' : WillTell(o, m.visit, p, course[p])) \/ Seen(y, p, course[p])
      <3>1. p \in Parts /\ p \in DOMAIN m.got
        BY <2>2, <2>4, PartsAre
      <3> DEFINE i == m.got[p].age
                 j == view[m.visit].newest[p]
                 c == course[p].age
      <3>2. i \in Nat /\ j \in Nat /\ c \in Nat
        BY <2>2, <3>1, Ages
      <3>3. i =< c /\ j =< c
        BY <2>2, <3>1 DEF BehindInv, MailBehind, PageBehind, Behind
      <3>4. y.newest[p] = IF i > j THEN i ELSE j
        BY <2>1, <3>1
      <3>5. CASE i = c \/ j = c
        <4> HIDE DEF i, j, c
        <4>1. y.newest[p] = c
          BY <3>2, <3>3, <3>4, <3>5
        <4> QED
          BY <4>1 DEF Seen, c
      <3>6. CASE i # c /\ j # c
        <4>1. PICK o \in mail : WillTell(o, m.visit, p, course[p])
          BY <2>1, <2>2, <2>4, <3>6 DEF ToldInv, Seen
        <4>2. o # m
          BY <2>2, <3>1, <3>6, <4>1 DEF WillTell
        <4> QED
          BY <2>2, <4>1, <4>2
      <3> QED
        BY <3>5, <3>6
    <2>5. ASSUME NEW v \in Visits, v # m.visit, NEW p \in PartsOf(v), author[p] = {v}, ~view[v].missed
          PROVE  (\E o \in mail' : WillTell(o, v, p, course[p])) \/ Seen(view[v], p, course[p])
      <3>1. CASE Seen(view[v], p, course[p])
        BY <3>1
      <3>2. CASE \E o \in mail : WillTell(o, v, p, course[p])
        BY <2>2, <2>5, <3>2 DEF WillTell
      <3> QED
        BY <2>5, <3>1, <3>2 DEF ToldInv
    <2> QED
      BY <2>2, <2>3, <2>4, <2>5 DEF ToldInv
  <1>3. ASSUME NEW m \in mail, ReloadFails(m) PROVE ToldInv'
    <2>1. PICK y \in Pages(titles) : OneView(m.visit, y) /\ y.missed
      BY <1>3, ReloadFailsDoes
    <2>2. m.visit \in Visits /\ mail' = mail \ {m} /\ UNCHANGED <<course, author>>
      BY <1>3, Received DEF ReloadFails
    <2>3. view'[m.visit] = y /\ \A u \in Visits : u # m.visit => view'[u] = view[u]
      BY <2>1, <2>2, OneViewIs DEF CoursesShape
    <2>5. ASSUME NEW v \in Visits, v # m.visit, NEW p \in PartsOf(v), author[p] = {v}, ~view[v].missed
          PROVE  (\E o \in mail' : WillTell(o, v, p, course[p])) \/ Seen(view[v], p, course[p])
      <3>1. CASE Seen(view[v], p, course[p])
        BY <3>1
      <3>2. CASE \E o \in mail : WillTell(o, v, p, course[p])
        BY <2>2, <2>5, <3>2 DEF WillTell
      <3> QED
        BY <2>5, <3>1, <3>2 DEF ToldInv
    <2> QED
      BY <2>1, <2>2, <2>3, <2>5 DEF ToldInv
  <1>4. ASSUME NEW m \in mail, ServeAct(m) PROVE ToldInv'
    <2>1. view' = view /\ m.op \in Acts
      BY <1>4, ServeActDoes
    <2>2. \A v, p, c : ~WillTell(m, v, p, c)
      BY <2>1 DEF WillTell, Acts
    <2>3. ASSUME NEW o, mail' = (mail \ {m}) \cup {o}, o.visit = m.visit,
                 \A v \in Visits : \A p \in PartsOf(v) : author'[p] = {v} =>
                   \/ author[p] = {v} /\ course'[p] = course[p]
                   \/ v = m.visit /\ o.op = "done"
          PROVE  ToldInv'
      <3>1. ASSUME NEW v \in Visits, NEW p \in PartsOf(v), author'[p] = {v}, ~view[v].missed
            PROVE  (\E x \in mail' : WillTell(x, v, p, course'[p])) \/ Seen(view[v], p, course'[p])
        <4>1. CASE v = m.visit /\ o.op = "done"
          BY <2>3, <4>1 DEF WillTell
        <4>2. CASE author[p] = {v} /\ course'[p] = course[p]
          BY <2>2, <2>3, <3>1, <4>2 DEF ToldInv
        <4> QED
          BY <2>3, <3>1, <4>1, <4>2
      <3> QED
        BY <2>1, <3>1 DEF ToldInv
    <2>4. PICK o : /\ mail' = (mail \ {m}) \cup {o} /\ o.visit = m.visit
                   /\ \/ Stored(m, {m.visit}) /\ o.op = "done"
                      \/ Stored(m, {})
                      \/ UNCHANGED <<course, author>>
      <3>1. ASSUME Replied(m, "done")
            PROVE  \E o : mail' = (mail \ {m}) \cup {o} /\ o.visit = m.visit /\ o.op = "done"
        BY <2>1, <3>1, RepliedDoes
      <3>2. ASSUME Replied(m, "failed")
            PROVE  \E o : mail' = (mail \ {m}) \cup {o} /\ o.visit = m.visit
        BY <2>1, <3>2, RepliedDoes
      <3> QED
        BY <1>4, <3>1, <3>2, ServeActDoes
    <2>5. CASE UNCHANGED <<course, author>>
      BY <2>3, <2>4, <2>5
    <2>6. ASSUME NEW told, told = {} \/ (told = {m.visit} /\ o.op = "done"), Stored(m, told) PROVE ToldInv'
      <3>1. CASE UNCHANGED <<course, author>>
        BY <2>5, <3>1
      <3>2. ASSUME NEW q \in Parts, NEW e, course' = [course EXCEPT ![q] = e], author' = [author EXCEPT ![q] = told]
            PROVE  ToldInv'
        <4>1. DOMAIN course = Parts /\ DOMAIN author = Parts
          BY ReadIs DEF CoursesShape, BaseInv
        <4>2. ASSUME NEW v \in Visits, NEW p \in PartsOf(v), author'[p] = {v}
              PROVE  \/ author[p] = {v} /\ course'[p] = course[p]
                     \/ v = m.visit /\ o.op = "done"
          <5>1. p \in Parts
            BY PartsAre
          <5>2. CASE p # q
            <6>1. author'[p] = author[p]
              BY <3>2, <5>2
            <6>2. course'[p] = course[p]
              BY <3>2, <4>1, <5>1, <5>2
            <6> QED
              BY <4>2, <6>1, <6>2
          <5>3. CASE p = q
            <6>1. told = {v}
              BY <3>2, <4>1, <4>2, <5>3
            <6> QED
              BY <2>6, <6>1
          <5> QED
            BY <5>2, <5>3
        <4> QED
          BY <2>3, <2>4, <4>2
      <3> QED
        BY <2>1, <2>6, <3>1, <3>2, StoredDoes
    <2> QED
      BY <2>4, <2>5, <2>6
  <1>5. ASSUME NEW m \in mail, ActDone(m) PROVE ToldInv'
    <2>1. PICK o : o = Load(m.visit)
      OBVIOUS
    <2>2. /\ mail' = (mail \ {m}) \cup {o} /\ UNCHANGED <<course, author>>
          /\ o.visit = m.visit /\ o.op = "load" /\ DOMAIN o.got = {}
      BY <1>5, <2>1, Received, EmptyLoad DEF ActDone, Reloading, Reloads
    <2>3. ASSUME NEW v \in Visits, NEW p \in PartsOf(v), NEW n \in mail, WillTell(n, v, p, course[p])
          PROVE  \E x \in mail' : WillTell(x, v, p, course[p])
      <3>1. CASE n # m
        BY <2>2, <2>3, <3>1
      <3>2. CASE n = m
        <4>1. WillTell(o, v, p, course[p])
          BY <2>2, <2>3, <3>2 DEF WillTell
        <4> QED
          BY <2>2, <4>1
      <3> QED
        BY <3>1, <3>2
    <2>4. m.op = "done"
      BY <1>5 DEF ActDone
    <2>5. \A n \in mail : ~LoadArrives(n) /\ ~ReloadFails(n)
      <3> SUFFICES ASSUME NEW n \in mail, LoadArrives(n) \/ ReloadFails(n) PROVE FALSE
        OBVIOUS
      <3>1. mail' = mail \ {n}
        BY DEF LoadArrives, ReloadFails
      <3>2. o \in mail /\ o # n
        BY <2>2, <3>1
      <3>3. m \notin mail'
        BY <2>2, <2>4
      <3>4. n = m
        BY <3>1, <3>3
      <3>5. n.op = "load"
        BY DEF LoadArrives, ReloadFails
      <3> QED
        BY <2>4, <3>4, <3>5
    <2>6. \A v \in Visits : view'[v].newest = view[v].newest /\ view'[v].missed = view[v].missed
      BY <2>5, PagesShow
    <2> QED
      BY <1>a, <2>2, <2>3, <2>6
  <1>6. ASSUME NEW m \in mail, ActFails(m), \A n \in mail : ~LoadArrives(n) /\ ~ReloadFails(n) /\ ~ServeAct(n)
        PROVE  ToldInv'
    <2>1. mail' = mail \ {m} /\ \A v, p, c : ~WillTell(m, v, p, c)
      BY <1>6 DEF ActFails, WillTell
    <2> QED
      BY <1>b, <1>6, <2>1
  <1>7. ASSUME mail \subseteq mail', \A n \in mail : ~LoadArrives(n) /\ ~ReloadFails(n) /\ ~ServeAct(n)
        PROVE  ToldInv'
    BY <1>b, <1>7
  <1>8. ASSUME NEW v \in Visits,
               \/ Visit(v) \/ ToggleEditor(v) \/ TypeTitle(v) \/ FlipArchived(v) \/ SaveCourse(v)
               \/ Regenerate(v) \/ CreateOther(v) \/ ChangeRoster(v) \/ Unenrol(v)
        PROVE  mail \subseteq mail'
    BY <1>8 DEF Visit, ToggleEditor, TypeTitle, FlipArchived, SaveCourse, Regenerate, CreateOther,
                ChangeRoster, Unenrol, Sends
  <1>9. CASE UNCHANGED courseVars
    <2>1. mail \subseteq mail'
      BY <1>9 DEF courseVars
    <2> QED
      BY <1>1, <1>2, <1>3, <1>4, <1>7, <2>1
  <1> QED
    BY <1>1, <1>2, <1>3, <1>4, <1>5, <1>6, <1>7, <1>8, <1>9 DEF CoursePagesNext

-----------------------------------------------------------------------------
CoursesInv == CoursesShape /\ CoursesOpen /\ TitleIsKept /\ BehindInv /\ ToldInv

LEMMA UnseenIs ==
  ASSUME CoursePagesInit
  PROVE  course \in Reads(Parts, 1) /\ Unseen \in Pages(1)
  <1>1. course = [p \in Parts |-> course[p]]
    BY DEF CoursePagesInit
  <1>2. ASSUME NEW p \in Parts PROVE course[p] \in Entries(p, 1)
    <2>1. course[p] = [value |-> IF p = "card" THEN [title |-> 1, archived |-> FALSE, code |-> 1]
                                 ELSE IF p = "students" THEN Pupils ELSE {},
                       age   |-> 0]
      BY DEF CoursePagesInit
    <2>2. [title |-> 1, archived |-> FALSE, code |-> 1] \in Cards(1)
      BY DEF Cards
    <2>3. (IF p = "card" THEN [title |-> 1, archived |-> FALSE, code |-> 1]
           ELSE IF p = "students" THEN Pupils ELSE {}) \in ValuesOf(p, 1)
      BY <2>2 DEF ValuesOf
    <2> QED
      BY <2>1, <2>3 DEF Entries
  <1>3. course \in Reads(Parts, 1)
    BY <1>1, <1>2, IsRead
  <1>4. NoEditor \in Editors(1)
    BY DEF NoEditor, Editors
  <1>5. Unseen \in Pages(1)
    <2> HIDE DEF NoEditor
    <2> QED
      BY <1>3, <1>4 DEF Unseen, Pages
  <1> QED
    BY <1>3, <1>5

LEMMA CoursesInit == CoursePagesInit => CoursesInv
  <1> SUFFICES ASSUME CoursePagesInit PROVE CoursesInv
    OBVIOUS
  <1>0. /\ view = [v \in Visits |-> Unseen] /\ mail = {} /\ titles = 1
        /\ author = [p \in Parts |-> {}] /\ owing = [v \in Visits |-> 0] /\ removed = [v \in Visits |-> FALSE]
        /\ \A p \in Parts : course[p].age = 0
    BY DEF CoursePagesInit
  <1>1. CoursesShape
    <2>1. 1 \in 1 .. MaxTitles
      BY TitlesAssumption
    <2> QED
      BY <1>0, <2>1, UnseenIs DEF CoursesShape, BaseInv, PagesInv, MailInv
  <1>2. ~Unseen.editing /\ ~Unseen.editor.on /\ Unseen.shown = course /\ \A p \in Parts : Unseen.newest[p] = 0
    BY DEF Unseen, NoEditor
  <1> HIDE DEF Unseen
  <1>3. CoursesOpen /\ TitleIsKept
    BY <1>0, <1>2 DEF CoursesOpen, TitleIsKept
  <1>4. BehindInv
    <2>1. PageBehind(Unseen)
      BY <1>0, <1>2 DEF PageBehind, Behind
    <2> QED
      BY <1>0, <2>1 DEF BehindInv, MailBehind
  <1>5. ToldInv
    BY <1>0, PartsAre DEF ToldInv
  <1> QED
    BY <1>1, <1>3, <1>4, <1>5 DEF CoursesInv

LEMMA CoursesStep == CoursesInv /\ [CoursePagesNext]_courseVars => CoursesInv'
  <1> SUFFICES ASSUME CoursesInv, [CoursePagesNext]_courseVars PROVE CoursesInv'
    OBVIOUS
  <1> USE DEF CoursesInv
  <1>1. CoursesShape'
    BY BaseStep, PagesStep, MailStep DEF CoursesShape
  <1>2. CoursesOpen'
    BY OpenStep
  <1>3. TitleIsKept'
    BY TitleStep
  <1>4. BehindInv'
    BY BehindStep
  <1>5. ToldInv'
    BY ToldStep
  <1> QED
    BY <1>1, <1>2, <1>3, <1>4, <1>5

LEMMA CoursesAreTyped == ASSUME CoursesInv PROVE CoursePagesTypeOK
  <1> USE DEF CoursesInv
  <1>1. \A p \in Parts : course[p].value \in ValuesOf(p, titles)
    BY ReadIs DEF CoursesShape, BaseInv
  <1>2. course["card"].value.title \in 1 .. titles /\ titles \in 1 .. MaxTitles
    <2>1. course["card"].value \in Cards(titles)
      BY <1>1 DEF ValuesOf, Parts
    <2> QED
      BY <2>1 DEF Cards, CoursesShape, BaseInv
  <1>3. course["card"].value.title \in 1 .. MaxTitles
    BY <1>2, TitlesAssumption
  <1>4. course["students"].value \subseteq Pupils /\ course["staff"].value \subseteq Helpers
    BY <1>1 DEF ValuesOf, Parts
  <1>5. \A v \in Visits : view[v].editor.on => v \in ListPages /\ Displayed(v) /\ view[v].editing
    BY DEF CoursesOpen, Displayed, IsUp
  <1>6. \A v \in Visits : \A p \in Parts : view[v].shown[p].age =< course[p].age
    BY DEF BehindInv, PageBehind, Behind
  <1> QED
    BY <1>3, <1>4, <1>5, <1>6 DEF CoursePagesTypeOK

LEMMA CoursesAreFresh == ASSUME CoursesInv PROVE PageIsFresh
  <1> SUFFICES ASSUME NEW v \in Visits, NEW p \in PartsOf(v), ~view[v].missed, \A m \in mail : m.visit # v,
                      author[p] = {v}, view[v].shown[p].age = view[v].newest[p]
               PROVE  view[v].shown[p] = course[p]
    BY DEF PageIsFresh
  <1>1. Seen(view[v], p, course[p])
    BY DEF CoursesInv, ToldInv, WillTell
  <1>2. Behind(view[v].shown[p], course[p])
    BY PartsAre DEF CoursesInv, BehindInv, PageBehind
  <1> QED
    BY <1>1, <1>2 DEF Seen, Behind

(* The owner's pages are typed, an editor is only ever on a card that is     *)
(* shown, a page that has had its answers shows the course as it is, and a   *)
(* title that was typed is not lost: Courses.jsx:91-268, CourseEditor.jsx,   *)
(* CourseRoster.jsx over courses.routes.js                                   *)
THEOREM CoursePagesStand == CoursePagesSpec => [](CoursePagesTypeOK /\ CoursesStand)
  <1>1. CoursesInv => CoursePagesTypeOK /\ CoursesStand
    BY CoursesAreTyped, CoursesAreFresh DEF CoursesStand, CoursesInv
  <1> QED
    BY <1>1, CoursesInit, CoursesStep, PTL DEF CoursePagesSpec

-----------------------------------------------------------------------------
(***************************************************************************)
(* The four parts side by side                                             *)
(***************************************************************************)

LEMMA TeachingParts == TeachingSpec => Spec /\ FormSpec /\ EditorSpec /\ CoursePagesSpec
  <1>1. TeachingInit => Init /\ FormInit /\ EditorInit /\ CoursePagesInit
    BY DEF TeachingInit
  <1>2. [TeachingNext]_<<part, vars, formVars, editorVars, courseVars>> =>
          [Next]_vars /\ [FormNext]_formVars /\ [EditorNext]_editorVars /\ [CoursePagesNext]_courseVars
    BY DEF TeachingNext
  <1> QED
    BY <1>1, <1>2, PTL DEF TeachingSpec, Spec, FormSpec, EditorSpec, CoursePagesSpec

(* What the exam form sends is what it shows, whatever else happens:         *)
(* ExamForm.jsx                                                              *)
THEOREM FormsStand == TeachingSpec => []FormStands
  BY TeachingParts, FormIsHonest, PTL DEF FormStands

(* What teachers typed about problems and courses is kept, and the pages of  *)
(* a course show what is stored, but in the ways named: ProblemForm.jsx,     *)
(* TestCaseEditor.jsx, Courses.jsx, CourseEditor.jsx, CourseRoster.jsx       *)
THEOREM EditsStand == TeachingSpec => []TeachersEditsStand
  BY TeachingParts, EditorKeepsEdits, CoursePagesStand, PTL DEF TeachersEditsStand
=============================================================================
