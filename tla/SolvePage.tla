------------------------------ MODULE SolvePage ------------------------------
(***************************************************************************)
(* One student solving one problem: the page ProblemSolve.jsx, the HTTP    *)
(* calls it makes without waiting for one another, and what the server     *)
(* keeps of them (drafts.routes.js, submissions.routes.js, ws/hub.js).     *)
(*                                                                         *)
(* Code is a version number: 0 is the empty editor, 1 the starter code,    *)
(* and every edit the student makes is a fresh version from 2 on, so a     *)
(* larger version is newer work.  A version stands for the pair (language, *)
(* code): both are set, saved and restored together.                       *)
(*                                                                         *)
(* Calls in flight are a sequence in the order they were sent.  The server *)
(* may serve them in any order, and any call may fail.  A page that the    *)
(* student leaves through the router keeps its closures (its calls are     *)
(* "left"); a reload destroys them (its calls are "gone": the server may   *)
(* still serve them, or the browser cancels them).                         *)
(***************************************************************************)
EXTENDS Naturals, Sequences, FiniteSets, SequencesExt

CONSTANTS
  MaxActs,       \* visits, edits, changes of language, clicks on Submit and failures together
  MaxCalls,      \* calls in flight at a time
  Waiting,       \* a call that has not been answered
  Failed         \* a call answered by an error, or by nothing

ASSUME PageAssumption ==
  /\ MaxActs \in Nat /\ MaxCalls \in Nat /\ MaxCalls > 0
  /\ Waiting # Failed
  /\ \A a \in {Waiting, Failed} : a \notin Nat /\ a \notin {"queued", "completed", "error"}

VARIABLES
  page,      \* "away", "loading", "restoring" (the draft is being fetched), "ready"
  code,      \* the editor's text
  timer,     \* the version the autosave timer will save; Empty: no timer
  phase,     \* submitPhase
  pending,   \* pendingSubmissionId; 0: null
  polling,   \* the submission pollIntervalRef asks about; 0: null
  shown,     \* submitResult
  calls,     \* calls in flight, in the order they were sent
  pushes,    \* results on their way over the WebSocket
  draft,     \* the row of submission_drafts; Empty: none
  rows,      \* the student's submissions, by id: the click that made it, its status
  typed,     \* the newest version the student has written
  work,      \* the newest version the student still counts on; Empty: none
  clicked,   \* the version that each click on Submit sent
  mishap,    \* the first thing that went wrong for the draft
  acts       \* how much of MaxActs is used up

pageVars == <<page, code, timer, phase, pending, polling, shown>>
serverVars == <<draft, rows>>
history == <<typed, work, clicked, mishap>>
vars == <<pageVars, calls, pushes, serverVars, history, acts>>

Empty   == 0
Starter == 1
Versions == 0 .. MaxActs + 1

Settled  == {"completed", "error"}
NoResult == [id |-> 0, status |-> "none"]
Mishaps  == {"none", "lost", "overtaken", "ahead", "unrestored"}

-----------------------------------------------------------------------------
(* Helpers. *)

Call(op, arg) == [op |-> op, arg |-> arg, from |-> "here", reply |-> Waiting]

Is(i, op, where) == calls[i].op = op /\ calls[i].from \in where
Unserved(i, op)  == i \in DOMAIN calls /\ calls[i].op = op /\ calls[i].reply = Waiting
Answered(i, op)  == i \in DOMAIN calls /\ Is(i, op, {"here", "left"}) /\ calls[i].reply # Waiting

Anywhere == {"here", "left", "gone"}

(* An earlier PUT or DELETE of the draft is still on its way. *)
Overtakes(i) ==
  \E j \in 1 .. i - 1 : calls[j].op \in {"put", "delete"} /\ calls[j].reply = Waiting

(* The editor is on screen and takes input: from the moment the problem is there. *)
Editing    == page \in {"restoring", "ready"}
Submitting == phase \in {"queued", "grading"}

(* The calls of a page that goes away, in their order: answers to reads are dropped. *)
Outlives(c) == c.op \in {"put", "delete", "post"}
Rank(i) == Cardinality({j \in 1 .. i : Outlives(calls[j])})
Survivor(n) == CHOOSE i \in DOMAIN calls : Outlives(calls[i]) /\ Rank(i) = n

Abandoned(where) ==
  [n \in 1 .. Rank(Len(calls)) |->
    [calls[Survivor(n)] EXCEPT !.from =
      IF where = "gone" \/ @ = "gone" THEN "gone" ELSE "left"]]

Act == acts < MaxActs /\ acts' = acts + 1

Note(what, cond) == mishap' = IF cond /\ mishap = "none" THEN what ELSE mishap

(* Mutant: the running timer kept, with the text it had captured. *)
SetCodeThrottled(v) == code' = v /\ timer' = IF timer = Empty THEN v ELSE timer

(* Mutant: code missing from the dependencies of the autosave effect. *)
SetCodeUnsaved(v) == code' = v /\ timer' = IF page = "ready" THEN timer ELSE v

(* The editor's text changes: the autosave effect clears its timer and, unless the
   editor is empty, starts another that has captured the new text. *)
SetCode(v) == code' = v /\ timer' = v

(* Mutant: the check of the id forgotten. *)
HandleAnyResult(id, status) ==
  /\ pending' = 0 /\ polling' = 0
  /\ shown' = [id |-> id, status |-> status]
  /\ phase' = "done"

(* Mutant: polling stopped before the id is checked. *)
HandleResultUnpolled(id, status) ==
  /\ polling' = 0
  /\ IF pending # 0 /\ id = pending
       THEN pending' = 0 /\ shown' = [id |-> id, status |-> status] /\ phase' = "done"
       ELSE UNCHANGED <<pending, shown, phase>>

(* Takes a result for the submission that is being waited for; ignores any other. *)
HandleGradingResult(id, status) ==
  IF pending # 0 /\ id = pending
    THEN /\ pending' = 0
         /\ polling' = 0
         /\ shown' = [id |-> id, status |-> status]
         /\ phase' = "done"
    ELSE UNCHANGED <<pending, polling, shown, phase>>

-----------------------------------------------------------------------------
(* The student. *)

Open ==
  /\ page = "away" /\ Act
  /\ page' = "loading"
  /\ UNCHANGED <<code, timer, phase, pending, polling, shown, calls, pushes,
                 serverVars, history>>

Type ==
  /\ Editing /\ Act
  /\ SetCode(typed + 1)
  /\ typed' = typed + 1 /\ work' = typed + 1
  /\ Note("unrestored", page = "restoring")
  /\ UNCHANGED <<page, phase, pending, polling, shown, calls, pushes, serverVars,
                 clicked>>

(* The chosen language's starter code, or nothing if it has none, replaces the editor. *)
HandleLanguageChange ==
  /\ Editing /\ Act
  /\ \E v \in {Empty, Starter} : SetCode(v)
  /\ work' = Empty
  /\ Note("unrestored", page = "restoring")
  /\ UNCHANGED <<page, phase, pending, polling, shown, calls, pushes, serverVars,
                 typed, clicked>>

(* "Run" and its answer, which touch nothing but the result on screen.  Both buttons are
   disabled until the answer is there, so nothing is lost by making it one step. *)
HandleRun ==
  /\ Editing /\ ~Submitting
  /\ phase' = "idle" /\ shown' = NoResult
  /\ UNCHANGED <<page, code, timer, pending, polling, calls, pushes, serverVars, history,
                 acts>>

HandleSubmit ==
  /\ Editing /\ ~Submitting /\ Len(calls) < MaxCalls /\ Act
  /\ clicked' = Append(clicked, code)
  /\ phase' = "queued" /\ shown' = NoResult
  /\ calls' = Append(calls, Call("post", Len(clicked')))
  /\ UNCHANGED <<page, code, timer, pending, polling, pushes, serverVars, typed,
                 work, mishap>>

(* The page goes away, with what it had not yet saved.  Its timer, its poll and its socket
   are cleaned up; the calls it sent are not. *)
Close(where) ==
  /\ page # "away" /\ page' = "away"
  /\ code' = Empty /\ timer' = Empty
  /\ phase' = "idle" /\ pending' = 0 /\ polling' = 0 /\ shown' = NoResult
  /\ calls' = Abandoned(where)
  /\ pushes' = {}
  /\ work' = IF timer = work /\ draft # work THEN Empty ELSE work
  /\ UNCHANGED <<serverVars, typed, clicked, mishap, acts>>

Leave  == Close("left")
Reload == Close("gone")

-----------------------------------------------------------------------------
(* The page. *)

ProblemLoads ==
  /\ page = "loading" /\ page' = "restoring" /\ Len(calls) < MaxCalls
  /\ calls' = Append(calls, Call("restore", 0))
  /\ UNCHANGED <<code, timer, phase, pending, polling, shown, pushes, serverVars,
                 history, acts>>

(* The draft if there is one, else the starter code: also when the fetch failed. *)
HandleRestore ==
  \E i \in DOMAIN calls :
    /\ Answered(i, "restore")
    /\ SetCode(IF calls[i].reply \in Versions \ {Empty} THEN calls[i].reply ELSE Starter)
    /\ page' = "ready"
    /\ calls' = RemoveAt(calls, i)
    /\ UNCHANGED <<phase, pending, polling, shown, pushes, serverVars, history,
                   acts>>

TimerFires ==
  /\ timer # Empty /\ timer' = Empty /\ Len(calls) < MaxCalls
  /\ calls' = Append(calls, Call("put", timer))
  /\ UNCHANGED <<page, code, phase, pending, polling, shown, pushes, serverVars,
                 history, acts>>

(* POST /submissions was answered.  Accepted: wait for the result, drop the draft and
   start polling (a page left through the router still does so).  The DELETE carries,
   for the record only, the click it follows. *)
HandlePost ==
  \E i \in DOMAIN calls :
    /\ Answered(i, "post")
    /\ IF calls[i].reply = Failed
         THEN /\ calls' = RemoveAt(calls, i)
              /\ phase' = IF Is(i, "post", {"here"}) THEN "idle" ELSE phase
              /\ UNCHANGED <<pending, polling>>
         ELSE /\ calls' = Append(RemoveAt(calls, i),
                                 [Call("delete", calls[i].arg) EXCEPT !.from = calls[i].from])
              /\ IF Is(i, "post", {"here"})
                   THEN /\ phase' = "grading"
                        /\ pending' = calls[i].reply
                        /\ polling' = calls[i].reply
                   ELSE UNCHANGED <<phase, pending, polling>>
    /\ UNCHANGED <<page, code, timer, shown, pushes, serverVars, history, acts>>

PollTick ==
  /\ polling # 0
  /\ Len(calls) < MaxCalls
  /\ calls' = Append(calls, Call("poll", polling))
  /\ UNCHANGED <<pageVars, pushes, serverVars, history, acts>>

HandlePoll ==
  \E i \in DOMAIN calls :
    /\ Answered(i, "poll")
    /\ IF calls[i].reply \notin {Failed, "queued"}
         THEN HandleGradingResult(calls[i].arg, calls[i].reply)
         ELSE UNCHANGED <<phase, pending, polling, shown>>
    /\ calls' = RemoveAt(calls, i)
    /\ UNCHANGED <<page, code, timer, pushes, serverVars, history, acts>>

PushArrives ==
  \E id \in pushes :
    /\ HandleGradingResult(id, "completed")
    /\ pushes' = pushes \ {id}
    /\ UNCHANGED <<page, code, timer, calls, serverVars, history, acts>>

-----------------------------------------------------------------------------
(* The server. *)

ServePut ==
  \E i \in DOMAIN calls :
    /\ Unserved(i, "put")
    /\ draft' = calls[i].arg
    /\ calls' = RemoveAt(calls, i)
    /\ Note("overtaken", Overtakes(i))
    /\ UNCHANGED <<pageVars, pushes, rows, typed, work, clicked, acts>>

ServeDelete ==
  \E i \in DOMAIN calls :
    /\ Unserved(i, "delete")
    /\ draft' = Empty
    /\ calls' = RemoveAt(calls, i)
    /\ IF Overtakes(i) THEN Note("overtaken", TRUE)
                       ELSE Note("ahead", draft > clicked[calls[i].arg])
    /\ UNCHANGED <<pageVars, pushes, rows, typed, work, clicked, acts>>

ServeRestore ==
  \E i \in DOMAIN calls :
    /\ Unserved(i, "restore")
    /\ calls' = [calls EXCEPT ![i].reply = draft]
    /\ Note("overtaken", Overtakes(i))
    /\ UNCHANGED <<pageVars, pushes, serverVars, typed, work, clicked, acts>>

(* A row, queued for grading, and its id; the schema refuses an empty program. *)
ServePost ==
  \E i \in DOMAIN calls :
    /\ Unserved(i, "post")
    /\ rows' = IF clicked[calls[i].arg] = Empty THEN rows
               ELSE Append(rows, [click |-> calls[i].arg, status |-> "queued"])
    /\ calls' = IF calls[i].from = "gone" THEN RemoveAt(calls, i)
                ELSE [calls EXCEPT ![i].reply =
                        IF clicked[calls[i].arg] = Empty THEN Failed ELSE Len(rows')]
    /\ UNCHANGED <<pageVars, pushes, draft, history, acts>>

ServePoll ==
  \E i \in DOMAIN calls :
    /\ Unserved(i, "poll")
    /\ calls' = [calls EXCEPT ![i].reply = rows[calls[i].arg].status]
    /\ UNCHANGED <<pageVars, pushes, serverVars, history, acts>>

(* A result goes to the sockets that are open at that moment, if any. *)
SendToUser(id) == page # "away" /\ pushes' = pushes \union {id}

(* The pipeline settles a row.  A completed job is pushed, unless its event or the socket
   is lost; a failed one never is. *)
Grade ==
  \E id \in DOMAIN rows, status \in Settled :
    /\ rows[id].status = "queued"
    /\ rows' = [rows EXCEPT ![id].status = status]
    /\ \/ UNCHANGED pushes
       \/ status = "completed" /\ SendToUser(id)
    /\ UNCHANGED <<pageVars, calls, draft, history, acts>>

(* The call fails before the server acts on it, or its answer is lost afterwards. *)
CallFails ==
  \E i \in DOMAIN calls :
    /\ calls[i].reply # Failed
    /\ \/ calls[i].from = "gone" /\ UNCHANGED acts
       \/ calls[i].from # "gone" /\ Act
    /\ calls' = IF calls[i].op \in {"put", "delete"} \/ calls[i].from = "gone"
                  THEN RemoveAt(calls, i)
                  ELSE [calls EXCEPT ![i].reply = Failed]
    /\ Note("lost", calls[i].op \in {"put", "restore"})
    /\ UNCHANGED <<pageVars, pushes, serverVars, typed, work, clicked>>

-----------------------------------------------------------------------------
Init ==
  /\ page = "away" /\ code = Empty /\ timer = Empty
  /\ phase = "idle" /\ pending = 0 /\ polling = 0 /\ shown = NoResult
  /\ calls = <<>> /\ pushes = {}
  /\ draft = Empty /\ rows = <<>>
  /\ typed = Starter /\ work = Empty /\ clicked = <<>> /\ mishap = "none"
  /\ acts = 0

Student == Open \/ Type \/ HandleLanguageChange \/ HandleRun \/ HandleSubmit \/ Leave \/ Reload
Handle  == HandleRestore \/ HandlePost \/ HandlePoll
Serve   == ServePut \/ ServeDelete \/ ServeRestore \/ ServePost \/ ServePoll

Next ==
  \/ Student \/ ProblemLoads \/ TimerFires \/ PollTick \/ Handle \/ PushArrives
  \/ Serve \/ Grade \/ CallFails

Spec == Init /\ [][Next]_vars

(* The server keeps serving and the page keeps handling, though not any given call in a
   bounded time; the interval keeps ticking; the pipeline settles what it accepted
   (GradingPipeline!AcceptedSettles).  Nothing makes the socket deliver or the student
   act. *)
Fairness == WF_vars(Serve) /\ WF_vars(Handle) /\ WF_vars(PollTick) /\ WF_vars(Grade)

FairSpec == Spec /\ Fairness

-----------------------------------------------------------------------------
(* Properties. *)

(* Every variable keeps its type: what each call may carry back, ids within the rows that
   exist, versions no newer than what was written. *)
TypeOK ==
  /\ page \in {"away", "loading", "restoring", "ready"}
  /\ code \in 0 .. typed /\ timer \in {Empty, code}
  /\ phase \in {"idle", "queued", "grading", "done"}
  /\ pending \in 0 .. Len(rows) /\ polling \in 0 .. Len(rows)
  /\ shown.id \in 0 .. Len(rows) /\ shown.status \in Settled \union {"none"}
  /\ \A i \in DOMAIN calls :
       /\ calls[i].from \in Anywhere
       /\ CASE calls[i].op = "put" -> calls[i].arg \in 1 .. typed
            [] calls[i].op \in {"post", "delete"} -> calls[i].arg \in DOMAIN clicked
            [] calls[i].op = "restore" -> calls[i].arg = 0
            [] calls[i].op = "poll"    -> calls[i].arg \in DOMAIN rows
  /\ pushes \subseteq DOMAIN rows
  /\ draft \in 0 .. typed
  /\ \A id \in DOMAIN rows : clicked[rows[id].click] # Empty
  /\ typed \in Versions /\ work \in 0 .. typed
  /\ mishap \in Mishaps
  /\ \A n \in DOMAIN clicked : clicked[n] \in 0 .. typed
  /\ acts \in 0 .. MaxActs

(* The result on screen is the stored result of the last click on Submit: not of an
   earlier submission whose push or poll comes late, and not one that is not final.  While a
   result is shown, nothing is still polling. *)
ShownIsStored ==
  phase = "done" =>
    /\ rows[shown.id].click = Len(clicked) /\ rows[shown.id].status = shown.status
    /\ pending = 0 /\ polling = 0

(* Where a version can be that is not lost: in the editor, saved or about to be, submitted
   or about to be. *)
Kept(v) ==
  \/ page # "away" /\ code = v
  \/ draft = v
  \/ \E i \in DOMAIN calls : \/ calls[i].op = "put" /\ calls[i].arg = v
                             \/ calls[i].op = "post" /\ clicked[calls[i].arg] = v
  \/ \E id \in DOMAIN rows : clicked[rows[id].click] = v

(* The newest work the student did not discard is always somewhere, unless a save or the
   fetch of the draft failed, a draft call overtook an earlier one, the DELETE of a submit
   met a draft newer than the submission, or the student typed before the draft was back.
   Leaving within the two seconds of the timer is the student's own loss. *)
WorkIsKept == mishap = "none" /\ work # Empty => Kept(work)

(* ProblemSolve.jsx:105-107 and backend/README.md:513: autosave, so that a refresh does not
   lose what was written since the last submit.  With no call failing or out of order, and
   nothing typed before the draft was back. *)
WrittenSinceSubmitIsKept ==
  mishap \in {"none", "ahead"} /\ work # Empty => Kept(work)

(* A click on Submit is answered: the button is released, by a result or an error, or the
   student leaves.  The poll alone is enough; the socket may never deliver. *)
SubmitIsAnswered == Submitting ~> ~Submitting

=============================================================================
