---------------------------- MODULE ExamSession ----------------------------
(***************************************************************************)
(* One exam with a pool of problems: the students who open it and submit   *)
(* to it (GET /exams/:id and POST /submissions, both of which may deal     *)
(* the student's problems through assignedProblemIds), and the teacher who *)
(* edits its paper and its roster while they do.  Every query is a step of *)
(* its own, as none of these handlers but the teacher's runs in a          *)
(* transaction; the teacher's transactions are one step, at their COMMIT.  *)
(***************************************************************************)
EXTENDS Integers, FiniteSets

CONSTANTS
  Students,    \* the students whose requests are considered
  Problems,    \* the course's problems, by id
  Requests,    \* HTTP requests in flight at the same time (tabs, devices)
  Papers,      \* the problem lists the teacher saves
  Rosters,     \* the rosters the teacher saves, of these students and others
  Sizes,       \* the values of problems_per_student; 0 is NULL
  Phases,      \* the phases a saved start and end time put the exam in
  MaxEdits,    \* bound: saved edits of the paper or the roster
  MaxFailures, \* bound: requests that die half-way
  Viewing      \* what a GET is for, where a POST names a problem

ASSUME SessionAssumption ==
  /\ Problems \subseteq Nat /\ IsFiniteSet(Problems)
  /\ Papers \subseteq SUBSET Problems /\ {} \notin Papers
  /\ Sizes \subseteq Nat
  /\ Phases \subseteq {"before", "open", "over"}
  /\ MaxEdits \in Nat /\ MaxFailures \in Nat
  /\ Viewing \notin Problems

VARIABLES
  phase,      \* where NOW() lies in start_time, end_time
  paper,      \* exam_problems
  perStudent, \* exams.problems_per_student
  roster,     \* exam_roster; empty: the whole course sits
  deals,      \* exam_assignments, by student
  accepted,   \* answers accepted, <<student, problem>>, by requests that have
              \* met no edit, since the last one
  pc,         \* the next step of each request
  who,        \* its student
  what,       \* its problem, or Viewing
  size,       \* problems_per_student as it read it
  todo,       \* the problems it read, dealt or has still to insert
  alone,      \* no other request of its student has met it
  current,    \* no edit has met it
  seen,       \* papers shown since the last edit to requests both alone and current
  tainted,    \* students for whom a request that met an edit has inserted
  opened,     \* the exam has been open at some time
  edits, failures

examVars    == <<phase, paper, perStudent, roster, opened>>
requestVars == <<pc, who, what, size, todo, alone, current>>
vars == <<examVars, deals, accepted, requestVars, seen, tainted, edits, failures>>

Steps == {"idle", "access", "gate", "size", "pool", "existing", "dealing",
          "answer"}

TypeOK ==
  /\ phase \in {"before", "open", "over"} /\ opened \in BOOLEAN
  /\ paper \subseteq Problems
  /\ perStudent \in Nat /\ perStudent < Cardinality(paper)
  /\ roster \in Rosters \cup {{}}
  /\ deals \in [Students -> SUBSET Problems]
  /\ accepted \subseteq Students \X Problems
  /\ pc \in [Requests -> Steps]
  /\ who \in [Requests -> Students]
  /\ what \in [Requests -> Problems \cup {Viewing}]
  /\ size \in [Requests -> Nat]
  /\ todo \in [Requests -> SUBSET Problems]
  /\ alone \in [Requests -> BOOLEAN] /\ current \in [Requests -> BOOLEAN]
  /\ seen \in [Students -> SUBSET SUBSET Problems]
  /\ tainted \subseteq Students
  /\ edits \in 0 .. MaxEdits /\ failures \in 0 .. MaxFailures

(* examRosterSql: an empty roster is everybody. *)
Sits(s) == roster = {} \/ s \in roster

(* examGateSql, with this exam the only one that could hold p. *)
Visible(s, p) == p \notin paper \/ (phase # "before" /\ Sits(s))

(* Mutant: the number is stored as it was sent. *)
AsSent(n, P) == n

(* POST and PUT keep problems_per_student only if it narrows the pool. *)
Narrowing(n, P) == IF n < Cardinality(P) THEN n ELSE 0

Init ==
  /\ phase = "before" /\ opened = FALSE
  /\ paper \in Papers
  /\ \E n \in Sizes : perStudent = Narrowing(n, paper)
  /\ roster = {}
  /\ deals = [s \in Students |-> {}]
  /\ accepted = {}
  /\ pc = [r \in Requests |-> "idle"]
  /\ who \in {[r \in Requests |-> s] : s \in Students}
  /\ what = [r \in Requests |-> Viewing]
  /\ size = [r \in Requests |-> 0]
  /\ todo = [r \in Requests |-> {}]
  /\ alone = [r \in Requests |-> TRUE] /\ current = [r \in Requests |-> TRUE]
  /\ seen = [s \in Students |-> {}]
  /\ tainted = {}
  /\ edits = 0 /\ failures = 0

-----------------------------------------------------------------------------
(***************************************************************************)
(* A student's request.                                                    *)
(***************************************************************************)

InFlight(s) == {r \in Requests : pc[r] # "idle" /\ who[r] = s}

Goto(r, step) == pc' = [pc EXCEPT ![r] = step]

Opens(r, s, w) ==
  /\ pc[r] = "idle"
  /\ who' = [who EXCEPT ![r] = s]
  /\ what' = [what EXCEPT ![r] = w]
  /\ alone' = [q \in Requests |->
                 IF q = r THEN InFlight(s) = {}
                 ELSE alone[q] /\ q \notin InFlight(s)]
  /\ UNCHANGED <<examVars, deals, accepted, current, size, todo, seen, tainted, edits,
                 failures>>

(* GET: the exam is found only by a student who sits it. *)
View(r, s) == Sits(s) /\ Opens(r, s, Viewing) /\ Goto(r, "gate")

(* POST: first the problem must be visible, then the exam accessible. *)
Post(r, s, p) == Visible(s, p) /\ Opens(r, s, p) /\ Goto(r, "access")

(* The handler is done, and what it has read is forgotten. *)
Ends(r) ==
  /\ Goto(r, "idle")
  /\ what' = [what EXCEPT ![r] = Viewing]
  /\ size' = [size EXCEPT ![r] = 0]
  /\ todo' = [todo EXCEPT ![r] = {}]
  /\ alone' = [alone EXCEPT ![r] = TRUE]
  /\ current' = [current EXCEPT ![r] = TRUE]
  /\ UNCHANGED <<examVars, deals, who, tainted, edits>>

Replies(r) == Ends(r) /\ UNCHANGED failures

(* canAccessExam: else 404. *)
Access(r) ==
  /\ pc[r] = "access"
  /\ IF Sits(who[r])
     THEN Goto(r, "gate") /\ UNCHANGED <<examVars, deals, who, what, size, todo, alone,
                                         current, tainted, edits, failures>>
     ELSE Replies(r)
  /\ UNCHANGED <<accepted, seen>>

(* Mutant: a GET deals before the start. *)
AllowedEarly(r) == what[r] = Viewing \/ phase = "open"

(* hasStarted for a GET, isWindowOpen for a POST: else nothing is dealt. *)
Allowed(r) == IF what[r] = Viewing THEN phase # "before" ELSE phase = "open"

Gate(r) ==
  /\ pc[r] = "gate"
  /\ IF Allowed(r)
     THEN Goto(r, "size") /\ UNCHANGED <<examVars, deals, who, what, size, todo, alone,
                                         current, tainted, edits, failures>>
     ELSE Replies(r)
  /\ UNCHANGED <<accepted, seen>>

(* assignedProblemIds: problems_per_student ... *)
ReadSize(r) ==
  /\ pc[r] = "size"
  /\ size' = [size EXCEPT ![r] = perStudent]
  /\ Goto(r, "pool")
  /\ UNCHANGED <<examVars, deals, accepted, who, what, todo, alone, current, seen, tainted,
                 edits, failures>>

(* ... the pool, which is the answer unless the size narrows it ... *)
ReadPool(r) ==
  /\ pc[r] = "pool"
  /\ todo' = [todo EXCEPT ![r] = paper]
  /\ Goto(r, IF size[r] = 0 \/ size[r] >= Cardinality(paper) THEN "answer" ELSE "existing")
  /\ UNCHANGED <<examVars, deals, accepted, who, what, size, alone, current, seen, tainted,
                 edits, failures>>

(* Mutant: a stored deal is not looked for. *)
ReadDealAfresh(r) ==
  /\ pc[r] = "existing"
  /\ \E chosen \in SUBSET todo[r] :
       Cardinality(chosen) = size[r] /\ todo' = [todo EXCEPT ![r] = chosen]
  /\ Goto(r, "dealing")
  /\ UNCHANGED <<examVars, deals, accepted, who, what, size, alone, current, seen, tainted,
                 edits, failures>>

(* ... the deal, if there is one; if not, a random choice is to be stored. *)
ReadDeal(r) ==
  /\ pc[r] = "existing"
  /\ \/ /\ deals[who[r]] # {}
        /\ todo' = [todo EXCEPT ![r] = deals[who[r]]]
        /\ Goto(r, "answer")
     \/ /\ deals[who[r]] = {}
        /\ \E chosen \in SUBSET todo[r] :
             Cardinality(chosen) = size[r] /\ todo' = [todo EXCEPT ![r] = chosen]
        /\ Goto(r, "dealing")
  /\ UNCHANGED <<examVars, deals, accepted, who, what, size, alone, current, seen, tainted,
                 edits, failures>>

First(S) == {p \in S : \A q \in S : p <= q}

(* INSERT ... ON CONFLICT DO NOTHING, one problem at a time, in id order. *)
InsertDealt(r) ==
  /\ pc[r] = "dealing"
  /\ todo[r] # {}
  /\ deals' = [deals EXCEPT ![who[r]] = @ \cup First(todo[r])]
  /\ todo' = [todo EXCEPT ![r] = @ \ First(@)]
  /\ tainted' = IF current[r] THEN tainted ELSE tainted \cup {who[r]}
  /\ UNCHANGED <<examVars, accepted, pc, who, what, size, alone, current, seen, edits, failures>>

(* The deal is read back: whatever requests have stored of it by now. *)
ReadBack(r) ==
  /\ pc[r] = "dealing"
  /\ todo[r] = {}
  /\ todo' = [todo EXCEPT ![r] = deals[who[r]]]
  /\ Goto(r, "answer")
  /\ UNCHANGED <<examVars, deals, accepted, who, what, size, alone, current, seen, tainted,
                 edits, failures>>

(* GET: the assigned problems that are still on the paper are shown. *)
Show(r) ==
  /\ pc[r] = "answer"
  /\ what[r] = Viewing
  /\ seen' = IF alone[r] /\ current[r]
             THEN [seen EXCEPT ![who[r]] = @ \cup {todo[r] \cap paper}]
             ELSE seen
  /\ Replies(r)
  /\ UNCHANGED accepted

(* Mutant: the problem need only be visible. *)
AcceptVisible(r) ==
  /\ pc[r] = "answer"
  /\ what[r] # Viewing
  /\ accepted' = IF current[r]
                 THEN accepted \cup {<<who[r], what[r]>>} ELSE accepted
  /\ Replies(r)
  /\ UNCHANGED seen

(* POST: stored if the problem was dealt, refused if not. *)
Accept(r) ==
  /\ pc[r] = "answer"
  /\ what[r] # Viewing
  /\ accepted' = IF what[r] \in todo[r] /\ current[r]
                 THEN accepted \cup {<<who[r], what[r]>>} ELSE accepted
  /\ Replies(r)
  /\ UNCHANGED seen

(* A query is rejected, or the process dies: what was inserted stays. *)
Fail(r) ==
  /\ pc[r] # "idle"
  /\ failures < MaxFailures
  /\ failures' = failures + 1
  /\ Ends(r)
  /\ UNCHANGED <<accepted, seen>>

Request(r) ==
  \/ \E s \in Students : View(r, s) \/ \E p \in Problems : Post(r, s, p)
  \/ Access(r) \/ Gate(r) \/ ReadSize(r) \/ ReadPool(r) \/ ReadDeal(r)
  \/ InsertDealt(r) \/ ReadBack(r) \/ Show(r) \/ Accept(r) \/ Fail(r)

-----------------------------------------------------------------------------
(***************************************************************************)
(* The teacher and the clock.                                              *)
(***************************************************************************)

Clock ==
  /\ \/ phase = "before" /\ phase' = "open"
     \/ phase = "open" /\ phase' = "over"
  /\ opened' = TRUE
  /\ UNCHANGED <<paper, perStudent, roster, deals, accepted, requestVars, seen,
                 tainted, edits, failures>>

(* Bookkeeping of an edit: what was seen and accepted before it, and the    *)
(* requests it has met.                                                    *)
Edit ==
  /\ edits < MaxEdits
  /\ edits' = edits + 1
  /\ seen' = [s \in Students |-> {}]
  /\ accepted' = {}
  /\ current' = [r \in Requests |-> pc[r] = "idle"]
  /\ UNCHANGED <<pc, who, what, size, todo, alone, failures>>

(* Mutant: deals keep naming problems that are no longer on the paper. *)
PutExamKeepsDeals(P, n, ph) ==
  /\ Edit
  /\ paper' = P
  /\ perStudent' = Narrowing(n, P)
  /\ phase' = ph /\ opened' = (opened \/ ph # "before")
  /\ UNCHANGED <<roster, tainted, deals>>

(* PUT /exams/:id: times, size and paper are replaced, and deals lose the   *)
(* problems dropped from the paper.                                        *)
PutExam(P, n, ph) ==
  /\ Edit
  /\ paper' = P
  /\ perStudent' = Narrowing(n, P)
  /\ phase' = ph /\ opened' = (opened \/ ph # "before")
  /\ deals' = [s \in Students |-> deals[s] \cap P]
  /\ UNCHANGED <<roster, tainted>>

(* PUT /exams/:id/roster: the deals of everyone not on the list are         *)
(* deleted; by an empty list, all of them.                                 *)
PutRoster(R) ==
  /\ Edit
  /\ roster' = R
  /\ deals' = [s \in Students |-> IF s \in R THEN deals[s] ELSE {}]
  /\ tainted' = tainted \cap R
  /\ UNCHANGED <<phase, paper, perStudent, opened>>

Teacher ==
  \/ \E P \in Papers, n \in Sizes, ph \in Phases : PutExam(P, n, ph)
  \/ \E R \in Rosters : PutRoster(R)

Next == Clock \/ Teacher \/ \E r \in Requests : Request(r)

Spec == Init /\ [][Next]_vars

-----------------------------------------------------------------------------
(***************************************************************************)
(* Properties.                                                             *)
(***************************************************************************)

(* "Nothing is dealt or listed before the exam opens" (exams.routes.js:209): *)
(* a student with a deal has one from an exam that has been open, although  *)
(* a teacher may have put the start back into the future since.            *)
NothingDealtEarly == \A s \in Students : deals[s] # {} => opened

(* What the two DELETEs of the teacher's transactions promise: a deal names *)
(* problems of the paper, and belongs to a student who sits the exam.  Only *)
(* a request that was already past its own checks when the edit committed   *)
(* can leave a deal of another kind.                                       *)
DealsFollowEdits ==
  \A s \in Students \ tainted :
    /\ deals[s] \subseteq paper
    /\ deals[s] # {} => Sits(s)

(* Why these two hold: a request past the gate has found the exam open, and *)
(* what a request no edit has met is about to store is on the paper, for a  *)
(* student who sits.                                                       *)
PastGate == {"size", "pool", "existing", "dealing", "answer"}

OpenInv ==
  /\ phase # "before" => opened
  /\ \A r \in Requests : pc[r] \in PastGate => opened

CurrentInv ==
  \A r \in Requests : current[r] =>
    /\ pc[r] \in PastGate \cup {"gate"} => Sits(who[r])
    /\ pc[r] \in {"existing", "dealing"} => todo[r] \subseteq paper

DealInv == NothingDealtEarly /\ OpenInv /\ DealsFollowEdits /\ CurrentInv

(* "Stable across reloads and devices" (backend/README.md:499): between two *)
(* edits, every GET that no other request of its student overlaps is shown  *)
(* the same problems, whatever requests overlapped or failed before it.    *)
OnePaper == \A s \in Students : Cardinality(seen[s]) <= 1

(* The teacher's audit (GET /exams/:id/assignments) covers what was handed  *)
(* in: between two edits an answer is accepted only to a problem of the     *)
(* student's deal, or of the paper where nothing is dealt.                 *)
AcceptedWasDealt ==
  \A a \in accepted : a[2] \in IF perStudent = 0 THEN paper ELSE deals[a[1]]

(* What is shown stays one paper, and what is handed in is from it. *)
ShownAndHandedIn == OnePaper /\ AcceptedWasDealt

(* examSession.service.js:48-50 says of two tabs that "the first deal wins  *)
(* and the second is discarded, rather than the student ending up with two *)
(* different sets": without edits no deal is larger than its size.          *)
FirstDealWins ==
  perStudent # 0 => \A s \in Students : Cardinality(deals[s]) <= perStudent
=============================================================================
