----------------------------- MODULE CoursePages -----------------------------
(* The owner's pages of a course: pages/Courses.jsx with CourseEditor.jsx on the
   course's card, and pages/CourseRoster.jsx, over the routes of courses.routes.js.

   Each change is followed by a reload that hides what it will replace, so that
   an editor on a card is unmounted with the card and comes back as loaded.
   A reload of the roster page is shown when its three answers are there, read at
   three times.  "age" counts the changes of each part of the course.  Titles are
   numbers, each typed once; 0 is none.  Requests under way are a set: two of a
   visit that ask the same and have not been served are one. *)
EXTENDS Integers, FiniteSets

CONSTANTS
  ListPages, RosterPages, \* visits of the two pages, in whatever tabs
  Pupils, Helpers,\* accounts that can be enrolled, and appointed
  MaxTitles,      \* bound: titles that are typed, the first included
  MaxDeeds        \* bound: clicks that change something, and failures

ASSUME TitlesAssumption == MaxTitles \in Nat \ {0}

Visits == ListPages \cup RosterPages
Parts  == {"card", "students", "staff"}

VARIABLES
  course,  \* what the database holds, part by part, with its age
  view,    \* what each visit shows
  mail,    \* requests and answers under way
  titles, deeds, \* bounds
  author,  \* history: the visit, if any, that last changed each part and was told so
  owing,   \* history: the title typed in a visit and neither stored nor given up
  removed  \* history: the editor was closed otherwise than by its owner

courseVars == <<course, view, mail, titles, deeds, author, owing, removed>>

NoEditor == [on |-> FALSE, title |-> 0, archived |-> FALSE, saving |-> FALSE, copy |-> 0]

Unseen ==
  [visited |-> FALSE, loading |-> FALSE, loaded |-> FALSE, shown |-> course, newest |-> [p \in Parts |-> 0],
   missed |-> FALSE, busy |-> FALSE, editing |-> FALSE, editor |-> NoEditor]

PartsOf(v) == IF v \in ListPages THEN {"card"} ELSE Parts

Deed == deeds < MaxDeeds /\ deeds' = deeds + 1

Load(v) == [visit |-> v, op |-> "load", got |-> [p \in {} |-> 0]]

ClosedEditor(e) == [NoEditor EXCEPT !.copy = e.copy]

(* setLoading(true): cards, editors and rosters are not rendered. *)
Hidden(k) == [k EXCEPT !.loading = TRUE, !.editor = ClosedEditor(@)]

(* setEditing(null) *)
Dismissed(k) == [k EXCEPT !.editing = FALSE, !.editor = ClosedEditor(@)]

Cut(v) == IF view[v].editor.on /\ owing[v] # 0 THEN [removed EXCEPT ![v] = TRUE] ELSE removed

(* setLoading(false): an editor that was open is mounted anew, with what is shown. *)
Rendered(k) ==
  LET card == k.shown["card"].value
  IN  [k EXCEPT !.loading = FALSE,
                !.editor = IF k.editing /\ k.loaded /\ ~@.on
                           THEN [on |-> TRUE, title |-> card.title, archived |-> card.archived,
                                 saving |-> FALSE, copy |-> @.copy + 1]
                           ELSE @]

Visit(v) ==
  /\ ~view[v].visited
  /\ view' = [view EXCEPT ![v] = [Hidden(@) EXCEPT !.visited = TRUE]]
  /\ mail' = mail \cup {Load(v)}
  /\ UNCHANGED <<course, titles, deeds, author, owing, removed>>

ServeLoad(m, p) ==
  /\ m \in mail /\ m.op = "load"
  /\ p \in PartsOf(m.visit) \ DOMAIN m.got
  /\ mail' = (mail \ {m}) \cup
       {[m EXCEPT !.got = [q \in DOMAIN m.got \cup {p} |-> IF q = p THEN course[p] ELSE m.got[q]]]}
  /\ UNCHANGED <<course, view, titles, deeds, author, owing, removed>>

Shows(k, got) ==
  [k EXCEPT !.loaded = TRUE,
            !.shown  = [p \in Parts |-> IF p \in DOMAIN got THEN got[p] ELSE @[p]],
            !.newest = [p \in Parts |-> IF p \in DOMAIN got /\ got[p].age > @[p] THEN got[p].age ELSE @[p]]]

LoadArrives(m) ==
  /\ m \in mail /\ m.op = "load" /\ DOMAIN m.got = PartsOf(m.visit)
  /\ view' = [view EXCEPT ![m.visit] = Rendered(Shows(@, m.got))]
  /\ mail' = mail \ {m}
  /\ UNCHANGED <<course, titles, deeds, author, owing, removed>>

(* The error is shown, and what was there stays. *)
ReloadFails(m) ==
  /\ m \in mail /\ m.op = "load" /\ Deed
  /\ view' = [view EXCEPT ![m.visit] = [Rendered(@) EXCEPT !.missed = TRUE]]
  /\ mail' = mail \ {m}
  /\ UNCHANGED <<course, titles, author, owing, removed>>

-----------------------------------------------------------------------------
IsUp(v)      == view[v].visited /\ ~view[v].loading
Displayed(v) == IsUp(v) /\ view[v].loaded

(* The Edit button of a card, and Cancel. *)
ToggleEditor(v) ==
  /\ v \in ListPages /\ Displayed(v)
  /\ view' = [view EXCEPT ![v] =
       IF @.editing THEN Dismissed(@) ELSE Rendered([@ EXCEPT !.editing = TRUE])]
  /\ owing' = [owing EXCEPT ![v] = 0] /\ removed' = [removed EXCEPT ![v] = FALSE]
  /\ Deed
  /\ UNCHANGED <<course, mail, titles, author>>

TypeTitle(v) ==
  /\ view[v].editor.on /\ titles < MaxTitles
  /\ titles' = titles + 1
  /\ view' = [view EXCEPT ![v].editor.title = titles']
  /\ owing' = [owing EXCEPT ![v] = titles'] /\ removed' = [removed EXCEPT ![v] = FALSE]
  /\ UNCHANGED <<course, mail, deeds, author>>

FlipArchived(v) ==
  /\ view[v].editor.on /\ Deed
  /\ view' = [view EXCEPT ![v].editor.archived = ~@]
  /\ UNCHANGED <<course, mail, titles, author, owing, removed>>

Sends(v, op, data) ==
  /\ Deed
  /\ mail' = mail \cup {[visit |-> v, op |-> op, data |-> data, copy |-> view[v].editor.copy]}
  /\ UNCHANGED <<course, titles, author, owing, removed>>

SaveCourse(v) ==
  /\ view[v].editor.on /\ ~view[v].editor.saving
  /\ view' = [view EXCEPT ![v].editor.saving = TRUE]
  /\ Sends(v, "edit", [title |-> view[v].editor.title, archived |-> view[v].editor.archived])

(* No button of a code waits for another. *)
Regenerate(v) ==
  /\ v \in ListPages /\ Displayed(v)
  /\ Sends(v, "code", 0) /\ UNCHANGED view

(* Another course; its form is there while the cards are hidden. *)
CreateOther(v) ==
  /\ v \in ListPages /\ view[v].visited /\ ~view[v].busy
  /\ view' = [view EXCEPT ![v].busy = TRUE]
  /\ Sends(v, "create", 0)

(* Import, appoint and dismiss wait for one another; unenrolling waits for none.
   The form for the import is there even when nothing could be loaded. *)
ChangeRoster(v) ==
  /\ v \in RosterPages /\ IsUp(v) /\ ~view[v].busy
  /\ view' = [view EXCEPT ![v].busy = TRUE]
  /\ \/ ~view[v].shown["card"].value.archived /\ \E s \in Pupils : Sends(v, "enrol", s)
     \/ /\ view[v].loaded
        /\ \/ \E h \in Helpers : Sends(v, "appoint", h)
           \/ \E h \in view[v].shown["staff"].value : Sends(v, "dismiss", h)

Unenrol(v) ==
  /\ v \in RosterPages /\ Displayed(v)
  /\ \E s \in view[v].shown["students"].value : Sends(v, "unenrol", s)
  /\ UNCHANGED view

-----------------------------------------------------------------------------
(* The server. *)
Touched(m) ==
  CASE m.op \in {"edit", "code"} -> "card"
    [] m.op \in {"enrol", "unenrol"} -> "students"
    [] m.op \in {"appoint", "dismiss"} -> "staff"

Result(m, value) ==
  CASE m.op = "edit" -> [value EXCEPT !.title = m.data.title, !.archived = m.data.archived]
    [] m.op = "code" -> [value EXCEPT !.code = @ + 1]
    [] m.op \in {"enrol", "appoint"} -> value \cup {m.data}
    [] m.op \in {"unenrol", "dismiss"} -> value \ {m.data}

MustRefuse(m) ==
  \/ m.op = "enrol" /\ course["card"].value.archived
  \/ m.op = "unenrol" /\ m.data \notin course["students"].value

Acts == {"edit", "code", "create", "enrol", "unenrol", "appoint", "dismiss"}

Replied(m, op) == mail' = (mail \ {m}) \cup {[m EXCEPT !.op = op, !.data = m.op]}

Stored(m, told) ==
  /\ ~MustRefuse(m)
  /\ IF m.op = "create" THEN UNCHANGED <<course, author>>
     ELSE /\ course' = [course EXCEPT ![Touched(m)] = [value |-> Result(m, @.value), age |-> @.age + 1]]
          /\ author' = [author EXCEPT ![Touched(m)] = told]
  /\ owing' = IF m.op = "edit" /\ m.data.title = owing[m.visit]
              THEN [owing EXCEPT ![m.visit] = 0] ELSE owing

(* Done, done but not heard of, or refused. *)
ServeAct(m) ==
  /\ m \in mail /\ m.op \in Acts
  /\ \/ Stored(m, {m.visit}) /\ Replied(m, "done") /\ UNCHANGED deeds
     \/ Stored(m, {}) /\ Replied(m, "failed") /\ Deed
     \/ /\ Replied(m, "failed") /\ UNCHANGED <<course, author, owing>>
        /\ IF MustRefuse(m) THEN UNCHANGED deeds ELSE Deed
  /\ UNCHANGED <<view, titles, removed>>

-----------------------------------------------------------------------------
Reloads(v) == {Load(v)}

(* Mutant: the page is not loaded anew. *)
ReloadsNothing(v) == {}

Reloading(v) == Reloads(v)

Guarded == {"create", "enrol", "appoint", "dismiss"}

Released(k, m) == [k EXCEPT !.busy = @ /\ m.data \notin Guarded]

(* onSaved closes the editor, whichever copy of it was saved; then load(). *)
Answered(k, m) == [Released(k, m) EXCEPT !.editing = @ /\ m.data # "edit"]

ActDone(m) ==
  /\ m \in mail /\ m.op = "done"
  /\ view' = [view EXCEPT ![m.visit] = Hidden(Answered(@, m))]
  /\ mail' = (mail \ {m}) \cup Reloading(m.visit)
  /\ removed' = Cut(m.visit)
  /\ UNCHANGED <<course, titles, deeds, author, owing>>

KeptOpen(k, m) == [k EXCEPT !.editor.saving = @ /\ m.copy # k.editor.copy]

(* Mutant: the editor closes whatever the answer. *)
ClosedAnyway(k, m) == Dismissed(k)

AfterFailure(k, m) == KeptOpen(k, m)

ActFails(m) ==
  /\ m \in mail /\ m.op = "failed"
  /\ view' = [view EXCEPT ![m.visit] =
       IF m.data = "edit" THEN AfterFailure(@, m) ELSE Released(@, m)]
  /\ mail' = mail \ {m}
  /\ UNCHANGED <<course, titles, deeds, author, owing, removed>>

CoursePagesInit ==
  /\ course = [p \in Parts |->
       [value |-> IF p = "card" THEN [title |-> 1, archived |-> FALSE, code |-> 1]
                  ELSE IF p = "students" THEN Pupils ELSE {},
        age   |-> 0]]
  /\ view = [v \in Visits |-> Unseen]
  /\ mail = {} /\ titles = 1 /\ deeds = 0
  /\ author = [p \in Parts |-> {}]
  /\ owing = [v \in Visits |-> 0] /\ removed = [v \in Visits |-> FALSE]

CoursePagesNext ==
  \/ \E v \in Visits :
       \/ Visit(v) \/ ToggleEditor(v) \/ TypeTitle(v) \/ FlipArchived(v) \/ SaveCourse(v)
       \/ Regenerate(v) \/ CreateOther(v) \/ ChangeRoster(v) \/ Unenrol(v)
  \/ \E m \in mail :
       \/ LoadArrives(m) \/ ReloadFails(m) \/ ServeAct(m) \/ ActDone(m) \/ ActFails(m)
       \/ \E p \in Parts : ServeLoad(m, p)

CoursePagesSpec == CoursePagesInit /\ [][CoursePagesNext]_courseVars

-----------------------------------------------------------------------------
(* An editor is on a card that is shown, and no page shows what is yet to be. *)
CoursePagesTypeOK ==
  /\ course["card"].value.title \in 1..MaxTitles
  /\ course["students"].value \subseteq Pupils /\ course["staff"].value \subseteq Helpers
  /\ \A v \in Visits :
       /\ view[v].editor.on => v \in ListPages /\ Displayed(v) /\ view[v].editing
       /\ \A p \in Parts : view[v].shown[p].age =< course[p].age

(* When all that a visit has asked for is answered, what it shows is the
   server's, the join code it hands out included, but for other visits, answers
   that were lost, reloads that failed, and an older reload that came in after a
   newer one: neither page tells them apart, and the code that was replaced may
   be the one that stays on the card (Courses.jsx:91-99). *)
PageIsFresh ==
  \A v \in Visits : \A p \in PartsOf(v) :
    /\ view[v].loaded /\ ~view[v].missed
    /\ \A m \in mail : m.visit # v
    /\ author[p] = {v}
    /\ view[v].shown[p].age = view[v].newest[p]
    => view[v].shown[p] = course[p]

(* A title that was typed and not given up is in the editor, or in the database,
   unless a reload or the answer to a save has closed the editor under it. *)
TitleIsKept ==
  \A v \in Visits :
    owing[v] # 0 => removed[v] \/ (view[v].editor.on /\ view[v].editor.title = owing[v])

CoursesStand == PageIsFresh /\ TitleIsKept
=============================================================================
