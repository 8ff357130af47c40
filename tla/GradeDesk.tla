------------------------------ MODULE GradeDesk ------------------------------
(* The page of a teacher who runs an exam: pages/ExamAdmin.jsx, over the routes
   for results, grade overrides and extra time.

   Each box of the page, a grade cell or a row of extra time, takes its inputs
   from the first answer it is shown with and never again, while the table of
   grades is loaded anew after each change; answers arrive in any order.  Scores
   are out of Full, which nobody changes, and stand for minutes in the rows of
   extra time.  A "desk" is one visit of the page: one that is left does nothing
   more, and what it has asked for is still served. *)
EXTENDS Integers, FiniteSets

CONSTANTS
  Desks,     \* visits of the page, in whatever tabs
  Cells,     \* grade cells: a student and a problem
  ExtraRows,    \* students, as rows of extra time
  Full,      \* the best score
  MaxTouches \* bound: clicks, texts, gradings and failures

ASSUME DeskAssumption == Cells \cap ExtraRows = {} /\ Full \in Nat /\ MaxTouches \in Nat

Boxes == Cells \cup ExtraRows

VARIABLES
  auto,    \* each cell's automatic mark, after the penalty
  stored,  \* overrides and extra times
  desk,    \* what each visit shows
  wire,    \* requests and answers under way
  touches, \* bound
  reads,   \* history: how often results have been read
  last,    \* history: what the last click on each box asked for
  mover,   \* history: whose request, if any, last changed each cell's row
  slipped  \* history: an untouched Save has changed a mark that had not moved

deskVars == <<auto, stored, desk, wire, touches, reads, last, mover, slipped>>

NoMark == -1
NoRow == [mark |-> NoMark, overridden |-> FALSE]

(* GET /exams/:id/results: one row for each cell with a submission. *)
Row(c) ==
  IF auto[c] = NoMark THEN NoRow
  ELSE [mark |-> IF stored[c] # NoMark THEN stored[c] ELSE auto[c], overridden |-> stored[c] # NoMark]

Minutes(e) == IF stored[e] = NoMark THEN 0 ELSE stored[e]

(* What a box is worth at the server. *)
Worth(b) == IF b \in Cells THEN Row(b).mark ELSE Minutes(b)

-----------------------------------------------------------------------------
(* What an answer shows of a box. *)
ShownIn(b, table, extra) == IF b \in Cells THEN table[b].mark ELSE extra[b]

(* Mutant: the automatic mark is offered even where it is overridden. *)
InputOfAuto(b, table, extra) == IF b \in Cells THEN auto[b] ELSE extra[b]

(* Inputs as useState leaves them: of the first answer. *)
FirstInput(b, table, extra) == ShownIn(b, table, extra)

NoBox == [on |-> FALSE, open |-> FALSE, input |-> 0, busy |-> FALSE, typed |-> FALSE, moved |-> FALSE]

(* The boxes that an answer brings; "moved" is history: worth something else. *)
Mounted(box, table, extra) ==
  [b \in Boxes |->
     IF box[b].on \/ (b \in Cells /\ table[b] = NoRow) THEN box[b]
     ELSE [NoBox EXCEPT !.on = TRUE, !.open = b \in ExtraRows,
                        !.input = FirstInput(b, table, extra),
                        !.moved = ShownIn(b, table, extra) # Worth(b)]]

Away ==
  [phase |-> "away", table |-> [c \in Cells |-> NoRow], extra |-> [e \in ExtraRows |-> NoMark],
   box |-> [b \in Boxes |-> NoBox], hasRows |-> FALSE, read |-> 0, newest |-> 0, missed |-> FALSE]

Ask(d, op) == [desk |-> d, op |-> op]

Touch == touches < MaxTouches /\ touches' = touches + 1

OpenPage(d) ==
  /\ desk[d].phase = "away"
  /\ desk' = [desk EXCEPT ![d].phase = "loading"]
  /\ wire' = wire \cup {Ask(d, "results"), Ask(d, "accommodations")}
  /\ UNCHANGED <<auto, stored, touches, reads, last, mover, slipped>>

(* The page is shown when both answers are there; rows that come later bring
   boxes of their own. *)
Showing(k) ==
  LET ready == k.hasRows /\ \A e \in ExtraRows : k.extra[e] # NoMark
  IN  IF k.phase = "shown" \/ (k.phase = "loading" /\ ready)
      THEN [k EXCEPT !.phase = "shown", !.box = Mounted(@, k.table, k.extra)]
      ELSE k

ServeLoad(m) ==
  /\ m \in wire /\ m.op \in {"results", "accommodations"}
  /\ reads' = reads + (IF m.op = "results" THEN 1 ELSE 0)
  /\ \/ UNCHANGED touches /\ wire' = (wire \ {m}) \cup
          {IF m.op = "results"
           THEN [desk |-> m.desk, op |-> "rows", rows |-> [c \in Cells |-> Row(c)], read |-> reads']
           ELSE [desk |-> m.desk, op |-> "extra", extra |-> [e \in ExtraRows |-> Minutes(e)]]}
     \/ Touch /\ wire' = (wire \ {m}) \cup {Ask(m.desk, "no answer")}
  /\ UNCHANGED <<auto, stored, desk, last, mover, slipped>>

(* What an answer makes of the visit k that asked for it. *)
Arrived(k, m) ==
  CASE m.op = "rows"      -> Showing([k EXCEPT !.table = m.rows, !.hasRows = TRUE, !.read = m.read,
                                               !.newest = IF m.read > @ THEN m.read ELSE @])
    [] m.op = "extra"     -> Showing([k EXCEPT !.extra = m.extra])
    [] m.op = "no answer" -> [k EXCEPT !.phase = IF @ = "loading" THEN "error" ELSE @, !.missed = TRUE]

LoadArrives(m) ==
  /\ m \in wire /\ m.op \in {"rows", "extra", "no answer"}
  /\ wire' = wire \ {m}
  /\ desk' = [desk EXCEPT ![m.desk] = Arrived(@, m)]
  /\ UNCHANGED <<auto, stored, touches, reads, last, mover, slipped>>

-----------------------------------------------------------------------------
Open(d, b) == desk[d].phase = "shown" /\ desk[d].box[b].on /\ desk[d].box[b].open

TypeMark(d, b) ==
  /\ Open(d, b) /\ Touch
  /\ \E v \in 0 .. Full + 1 :
       desk' = [desk EXCEPT ![d].box[b].input = v, ![d].box[b].typed = TRUE]
  /\ UNCHANGED <<auto, stored, wire, reads, last, mover, slipped>>

(* The mark itself, and Cancel: the inputs keep what they hold. *)
ToggleCell(d, c) ==
  /\ desk[d].phase = "shown" /\ desk[d].box[c].on
  /\ desk' = [desk EXCEPT ![d].box[c].open = ~@]
  /\ UNCHANGED <<auto, stored, wire, touches, reads, last, mover, slipped>>

Changes == {"put", "delete"}

Clicked(d, b, op, value) ==
  LET m == [desk |-> d, op |-> op, box |-> b, value |-> value, typed |-> desk[d].box[b].typed]
  IN  /\ Touch
      /\ desk' = [desk EXCEPT ![d].box[b].busy = TRUE]
      /\ wire' = wire \cup {m}
      /\ last' = [last EXCEPT ![b] =
           [to   |-> IF op = "delete" \/ (b \in ExtraRows /\ value = 0) THEN NoMark ELSE value,
            calm |-> \A o \in wire : o.op \in Changes /\ o.box = b => o.desk = d]]
      /\ UNCHANGED <<auto, stored, reads, mover, slipped>>

NotBusy(d, b) == ~desk[d].box[b].busy

(* Mutant: the buttons stay enabled. *)
Clickable(d, b) == TRUE

MayClick(d, b) == NotBusy(d, b)

SaveBox(d, b)   == Open(d, b) /\ MayClick(d, b) /\ Clicked(d, b, "put", desk[d].box[b].input)
ResetCell(d, c) == Open(d, c) /\ MayClick(d, c) /\ desk[d].table[c].overridden /\ Clicked(d, c, "delete", NoMark)

(* Every box of a mark that moves has moved, in every visit that shows it. *)
NoteMoves(b) ==
  desk' = [d \in Desks |-> IF desk[d].box[b].on THEN [desk[d] EXCEPT !.box[b].moved = TRUE] ELSE desk[d]]

(* PUT and DELETE of a grade, PUT of extra time, of which 0 is none.  A score
   above the maximum is refused; the request, or the answer, can be lost. *)
Refusable(m) == m.op = "put" /\ m.box \in Cells /\ m.value > Full

Stores(m, to) ==
  LET b == m.box
  IN  /\ ~Refusable(m)
      /\ stored' = [stored EXCEPT ![b] = to]
      /\ IF Worth(b)' # Worth(b) THEN NoteMoves(b) ELSE UNCHANGED desk
      /\ slipped' = (slipped \/ (/\ m.op = "put" /\ ~m.typed
                                 /\ ~desk[m.desk].box[b].moved /\ Worth(b)' # Worth(b)))
      /\ UNCHANGED last

StoresNothing(m) ==
  /\ last' = [last EXCEPT ![m.box].calm = FALSE]
  /\ UNCHANGED <<stored, desk, mover, slipped>>

Replies(m, op) == wire' = (wire \ {m}) \cup {[desk |-> m.desk, op |-> op, box |-> m.box]}

ServeChange(m) ==
  /\ m \in wire /\ m.op \in Changes
  /\ UNCHANGED <<auto, reads>>
  /\ LET to == IF m.op = "delete" \/ (m.box \in ExtraRows /\ m.value = 0) THEN NoMark ELSE m.value
     IN  \/ Stores(m, to) /\ Replies(m, "done") /\ mover' = [mover EXCEPT ![m.box] = {m.desk}]
            /\ UNCHANGED touches
         \/ Stores(m, to) /\ Replies(m, "failed") /\ mover' = [mover EXCEPT ![m.box] = {}]
            /\ Touch
         \/ StoresNothing(m) /\ Replies(m, "failed")
            /\ IF Refusable(m) THEN UNCHANGED touches ELSE Touch

(* onSaved: loadResults, not awaited.  The answer to loadAccommodations is read by
   no row that is there already, and is left out. *)
LoadResults(d, b) == IF b \in Cells THEN {Ask(d, "results")} ELSE {}

(* Mutant: the table is not loaded anew. *)
LoadNothing(d, b) == {}

Reload(d, b) == LoadResults(d, b)

Ended(box, stays) == [box EXCEPT !.busy = FALSE, !.open = @ /\ stays]

ChangeEnds(m) ==
  /\ m \in wire /\ m.op \in {"done", "failed"}
  /\ desk' = [desk EXCEPT ![m.desk].box[m.box] = Ended(@, m.op = "failed" \/ m.box \in ExtraRows)]
  /\ wire' = (wire \ {m}) \cup (IF m.op = "done" THEN Reload(m.desk, m.box) ELSE {})
  /\ UNCHANGED <<auto, stored, touches, reads, last, mover, slipped>>

(* A submission is graded; the first brings the row. *)
Graded(c) ==
  /\ Touch /\ UNCHANGED stored
  /\ auto' \in {[auto EXCEPT ![c] = v] : v \in 0 .. Full}
  /\ IF Worth(c)' # Worth(c) THEN NoteMoves(c) ELSE UNCHANGED desk
  /\ mover' = [mover EXCEPT ![c] = {}]
  /\ UNCHANGED <<wire, reads, last, slipped>>

DeskInit ==
  /\ auto \in [Cells -> {NoMark, 0}]
  /\ stored = [b \in Boxes |-> NoMark]
  /\ desk = [d \in Desks |-> Away]
  /\ wire = {} /\ touches = 0 /\ reads = 0
  /\ last = [b \in Boxes |-> [to |-> NoMark, calm |-> TRUE]]
  /\ mover = [b \in Boxes |-> {}] /\ slipped = FALSE

DeskNext ==
  \/ \E d \in Desks :
       \/ OpenPage(d)
       \/ \E b \in Boxes : TypeMark(d, b) \/ SaveBox(d, b)
       \/ \E c \in Cells : ToggleCell(d, c) \/ ResetCell(d, c)
  \/ \E m \in wire : ServeLoad(m) \/ LoadArrives(m) \/ ServeChange(m) \/ ChangeEnds(m)
  \/ \E c \in Cells : Graded(c)

DeskSpec == DeskInit /\ [][DeskNext]_deskVars

-----------------------------------------------------------------------------
(* A visit has one change of a box under way, and shows no box without its row. *)
DeskTypeOK ==
  /\ auto \in [Cells -> NoMark .. Full] /\ stored \in [Boxes -> NoMark .. Full + 1]
  /\ \A c \in Cells : stored[c] =< Full
  /\ \A d \in Desks, c \in Cells : desk[d].box[c].on => desk[d].hasRows
  /\ \A d \in Desks, b \in Boxes :
       Cardinality({m \in wire : m.desk = d /\ m.op \in Changes \cup {"done", "failed"} /\ m.box = b}) =< 1

(* The last click on a box decides, whatever the order in which requests are
   served, unless it was refused or lost or another visit's request for the same
   box was under way: "busy" keeps a box to one request (ExamAdmin.jsx:208, 217),
   and the boxes do not touch one another. *)
LastClickStands ==
  \A b \in Boxes :
    last[b].calm /\ ~(\E m \in wire : m.op \in Changes /\ m.box = b) => stored[b] = last[b].to

(* When everything a visit has asked for is answered, its table is the server's,
   but for gradings, other visits and requests whose answer was lost, and but for
   an older answer that was shown after a newer one or a reload that failed. *)
TableIsFresh ==
  \A d \in Desks, c \in Cells :
    /\ desk[d].phase = "shown" /\ ~desk[d].missed /\ desk[d].read = desk[d].newest
    /\ \A m \in wire : m.desk # d
    /\ mover[c] = {d}
    => desk[d].table[c] = Row(c)

(* Save without typing changes a mark only if the mark has moved since the cell
   was first shown, a revert included: the inputs still hold the override then,
   and Save brings it back (ExamAdmin.jsx:97). *)
UntouchedIsHarmless == ~slipped

MarksStand == LastClickStands /\ TableIsFresh /\ UntouchedIsHarmless
=============================================================================
