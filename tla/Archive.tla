------------------------------- MODULE Archive -------------------------------
(* The cross-semester archive: routes/integrity.routes.js and ArchivePage.jsx.

   POST /integrity/archive/course/:id reads the course's latest submissions once
   and inserts them one by one, with no transaction around them; meanwhile
   students may submit again, other requests run, and the process may die.
   Screening reads the current submissions and then the archive.  A submission
   is the code it carries; what fingerprint it has is Similarity's. *)
EXTENDS Integers, FiniteSets

CONSTANTS
  Owners,      \* teachers who keep an archive
  Courses,     \* courses of theirs, with the same title and term
  Students, Codes,
  Blank,       \* the code of Codes whose fingerprint is empty
  Connections,       \* requests in flight at once
  Quiet,       \* no request
  MaxRequests  \* bound: requests


VARIABLES
  latest,    \* the code of each course's latest submission per student
  archived,  \* archived_submissions; "by" is the request that inserted a row
  call,      \* the request of each slot
  told,      \* how many rows each archiving request has answered it archived
  matches,   \* the last screening
  requests,  \* bound, and the name of the next request
  broken     \* history: cohorts an archiving failed for, or a deletion cut through

archiveVars == <<latest, archived, call, told, matches, requests, broken>>

Labels  == {"title and term", "chosen"}
Cohorts == Owners \X Labels
Missing == "nothing"
NoAnswer == -1

(* The requests in flight: one that archives, and one that screens. *)
Work == [student : Students, code : Codes]
StoreRequests ==
  [op : {"store"}, name : 0..(MaxRequests - 1), who : Owners, label : Labels,
   course : Courses, todo : SUBSET Work, archived : Nat]
ScreenRequests == [op : {"screen"}, who : Owners, current : SUBSET Work]

ASSUME ArchiveAssumption ==
  /\ Blank \in Codes /\ MaxRequests \in Nat
  /\ Quiet \notin StoreRequests \cup ScreenRequests

Storing(who, label) ==
  {c \in Connections : /\ call[c] # Quiet /\ call[c].op = "store"
                 /\ call[c].who = who /\ call[c].label = label}

Opens(c, request) ==
  /\ call[c] = Quiet
  /\ requests < MaxRequests
  /\ requests' = requests + 1
  /\ call' = [call EXCEPT ![c] = request]

Closes(c) == call' = [call EXCEPT ![c] = Quiet]

-----------------------------------------------------------------------------
(* POST /submissions, as far as the archive is concerned. *)
Submit(course, student) ==
  /\ \E code \in Codes \ {latest[course][student]} :
       latest' = [latest EXCEPT ![course][student] = code]
  /\ requests < MaxRequests
  /\ requests' = requests + 1
  /\ UNCHANGED <<archived, call, told, matches, broken>>

(* The one SELECT: the latest submission of every student. *)
LatestOf(course) ==
  {[student |-> s, code |-> latest[course][s]] : s \in {t \in Students : latest[course][t] # Missing}}

(* POST /integrity/archive/course/:id, up to the label and the SELECT; the
   default label is the course's title and term. *)
PostArchive(c, who, course) ==
  /\ \E label \in Labels :
       Opens(c, [op |-> "store", name |-> requests, who |-> who, label |-> label, course |-> course,
                 todo |-> LatestOf(course), archived |-> 0])
  /\ UNCHANGED <<latest, archived, told, matches, broken>>

RowOf(request, row) ==
  [owner |-> request.who, label |-> request.label, by |-> request.name,
   course |-> request.course, student |-> row.student, code |-> row.code]

Kept(rows) == {row \in rows : row.code # Blank}

(* One turn of the loop: a submission without a fingerprint is passed over. *)
InsertRow(c) ==
  /\ call[c] # Quiet /\ call[c].op = "store"
  /\ \E row \in call[c].todo :
       /\ archived' = archived \cup {RowOf(call[c], r) : r \in Kept({row})}
       /\ call' = [call EXCEPT ![c].todo = @ \ {row},
                               ![c].archived = @ + Cardinality(Kept({row}))]
  /\ UNCHANGED <<latest, told, matches, requests, broken>>

(* 201, with the number of rows. *)
AnswerArchive(c) ==
  /\ call[c] # Quiet /\ call[c].op = "store" /\ call[c].todo = {}
  /\ told' = [told EXCEPT ![call[c].name] = call[c].archived]
  /\ Closes(c)
  /\ UNCHANGED <<latest, archived, matches, requests, broken>>

(* An INSERT fails, and the answer is 500; or the process dies.  What was
   inserted stays. *)
ArchiveStops(c) ==
  /\ call[c] # Quiet /\ call[c].op = "store" /\ call[c].todo # {}
  /\ broken' = broken \cup {<<call[c].who, call[c].label>>}
  /\ Closes(c)
  /\ UNCHANGED <<latest, archived, told, matches, requests>>

OwnLabel(row, who, label) == row.owner = who /\ row.label = label

(* Mutant: the owner not asked. *)
AnyonesLabel(row, who, label) == row.label = label

Filed(row, who, label) == OwnLabel(row, who, label)

(* DELETE /integrity/archive/:label: one statement, which the requests that are
   still inserting know nothing of. *)
DeleteArchive(who, label) ==
  /\ requests < MaxRequests
  /\ requests' = requests + 1
  /\ archived' = {row \in archived : ~Filed(row, who, label)}
  /\ broken' = IF Storing(who, label) # {} THEN broken \cup {<<who, label>>}
               ELSE broken \ {<<who, label>>}
  /\ UNCHANGED <<latest, call, told, matches>>

(* GET /integrity/problem/:id/archive-matches: the current submissions, *)
ReadCurrent(c, who, course) ==
  /\ Opens(c, [op |-> "screen", who |-> who, current |-> LatestOf(course)])
  /\ UNCHANGED <<latest, archived, told, matches, broken>>

(* ... and then the teacher's own archive.  A copy is found whosever it was: the
   student's own row, too, when this very course has been archived. *)
ReadArchive(c) ==
  /\ call[c] # Quiet /\ call[c].op = "screen"
  /\ matches' = {pair \in call[c].current \X archived :
                   /\ pair[2].owner = call[c].who
                   /\ pair[2].code = pair[1].code /\ pair[1].code # Blank}
  /\ Closes(c)
  /\ UNCHANGED <<latest, archived, told, requests, broken>>

-----------------------------------------------------------------------------
ArchiveInit ==
  /\ latest = [course \in Courses |-> [s \in Students |-> Missing]]
  /\ archived = {} /\ broken = {} /\ matches = {} /\ requests = 0
  /\ call = [c \in Connections |-> Quiet] /\ told = [n \in 0 .. (MaxRequests - 1) |-> NoAnswer]

ArchiveNext ==
  \/ \E course \in Courses, s \in Students : Submit(course, s)
  \/ \E who \in Owners, label \in Labels : DeleteArchive(who, label)
  \/ \E c \in Connections :
       \/ \E who \in Owners, course \in Courses : PostArchive(c, who, course) \/ ReadCurrent(c, who, course)
       \/ InsertRow(c) \/ AnswerArchive(c) \/ ArchiveStops(c) \/ ReadArchive(c)

ArchiveSpec == ArchiveInit /\ [][ArchiveNext]_archiveVars

-----------------------------------------------------------------------------
(* Rows, requests and cohorts are what their tables and slots hold. *)
ArchiveTypeOK ==
  /\ latest \in [Courses -> [Students -> Codes \cup {Missing}]]
  /\ \A row \in archived : /\ <<row.owner, row.label>> \in Cohorts /\ row.by \in 0..requests
                            /\ row.course \in Courses /\ row.student \in Students
                            /\ row.code \in Codes \ {Blank}
  /\ call \in [Connections -> StoreRequests \cup ScreenRequests \cup {Quiet}]
  /\ requests \in 0..MaxRequests /\ broken \subseteq Cohorts

(* An archived cohort is all of what the teacher was told (integrity.routes.js:216):
   the rows of one request are of different students and as many as it answered,
   unless it still runs, an archiving of that cohort stopped half-way, or the
   cohort was deleted while one ran.  Another teacher's deletion of a cohort with
   the same label does not touch it, and a match counts twice only where the
   course was archived twice. *)
CohortsAreWhole ==
  \A row \in archived :
    LET cohort == <<row.owner, row.label>>
        filed  == {r \in archived : r.by = row.by}
    IN  /\ \A r, q \in filed : r.student = q.student => r = q
        /\ \/ cohort \in broken
           \/ \E c \in Storing(row.owner, row.label) : call[c].name = row.by
           \/ Cardinality(filed) = told[row.by]
=============================================================================
