---------------------------- MODULE ProblemEditor ----------------------------
(* Editing a problem in several tabs: ProblemForm.jsx, TestCaseEditor.jsx and
   the form's place in TeacherPanel.jsx, over PUT and GET /problems/:id and the
   test case routes.

   The fields are saved together and late, each test case alone and at once.
   Answers to one tab's requests arrive in any order.  "instance" counts the
   times the panel has mounted the form: an answer to an earlier instance
   changes nothing in the present one, except that onSaved belongs to the panel
   and closes whichever form is open.  "editor" counts the times a form has
   mounted its TestCaseEditor.  Texts are numbers, each typed once; 0 is the
   empty text. *)
EXTENDS Integers, FiniteSets

CONSTANTS
  Tabs,     \* browser tabs of teachers
  Fields,   \* the problem's columns
  Required, \* those that the browser does not let be empty
  MaxTyped, \* bound: texts that are typed
  MaxCases, \* bound: test cases that are ever added, the first ones included
  MaxClicks \* bound: buttons that are clicked

ASSUME EditorAssumption ==
  Required \subseteq Fields /\ MaxTyped \in Nat \ {0} /\ MaxCases \in Nat \ {0, 1}

VARIABLES
  row, cases,    \* the problem's columns and its test cases, in the database
  tab,           \* what each tab's form holds
  wire,          \* requests and answers under way
  texts, posted, \* bounds, and the names of texts and test cases
  clicks,        \* bound
  owed,          \* history: the last text typed in a tab and field, until it is given up
  lost,          \* history: how that text was lost, if it was
  blind,         \* history: removals clicked on a list that was not the server's
  unread         \* history: a form was saved whose problem had never been loaded

editorVars == <<row, cases, tab, wire, texts, posted, clicks, owed, lost, blind, unread>>

NoText == 0
Blank == [f \in Fields |-> NoText]

ClosedTab(n) ==
  [open |-> FALSE, instance |-> n, loading |-> FALSE, loaded |-> FALSE,
   saving |-> FALSE, busy |-> FALSE, editor |-> 0, form |-> Blank, base |-> Blank,
   sent |-> Blank, list |-> {}]

Ask(t, op, data)    == [tab |-> t, instance |-> tab[t].instance, op |-> op, data |-> data]
Answer(m, op, data) == [m EXCEPT !.op = op, !.data = data]

Own(m) == tab[m.tab].open /\ tab[m.tab].instance = m.instance

(* What differs in a form from the problem as the form last read it. *)
Typed(t) == {f \in Fields : tab[t].form[f] # tab[t].base[f]}

(* History: the texts of the fields F that tab t's form no longer holds are lost,
   unless they are in the database. *)
Lose(t, F, way) ==
  lost' = [lost EXCEPT ![t] =
             [f \in Fields |-> IF f \in F /\ owed[t][f] \notin {NoText, row[f]}
                              THEN way ELSE lost[t][f]]]

-----------------------------------------------------------------------------
Click == clicks < MaxClicks /\ clicks' = clicks + 1

(* TeacherPanel mounts the form, which loads the problem: Edit is clicked, or
   the panel's tab with the problem still chosen. *)
OpenForm(t) ==
  /\ ~tab[t].open /\ Click
  /\ LET fresh == ClosedTab(tab[t].instance + 1)
     IN  /\ tab' = [tab EXCEPT ![t] = [fresh EXCEPT !.open = TRUE, !.loading = TRUE]]
         /\ wire' = wire \cup {[tab |-> t, instance |-> fresh.instance, op |-> "get", data |-> 0]}
  /\ UNCHANGED <<row, cases, texts, posted, owed, lost, blind, unread>>

(* TeacherPanel unmounts the form: the other tab of the panel, Edit of another
   problem, or "new problem"; nothing is asked. *)
LeaveForm(t) ==
  /\ tab[t].open /\ Click
  /\ tab' = [tab EXCEPT ![t] = ClosedTab(@.instance)]
  /\ Lose(t, Typed(t), "left")
  /\ UNCHANGED <<row, cases, wire, texts, posted, owed, blind, unread>>

Shown(t) == tab[t].open /\ ~tab[t].loading

(* onCancel: what the form holds is given up. *)
CancelForm(t) ==
  /\ Shown(t) /\ Click
  /\ tab' = [tab EXCEPT ![t] = ClosedTab(@.instance)]
  /\ owed' = [owed EXCEPT ![t] = [f \in Fields |-> IF f \in Typed(t) THEN NoText ELSE @[f]]]
  /\ UNCHANGED <<row, cases, wire, texts, posted, lost, blind, unread>>

(* t is among the dependencies of the form's effect: another language loads the
   problem again, and "loading" takes the TestCaseEditor away. *)
SwitchLanguage(t) ==
  /\ tab[t].open /\ Click
  /\ tab' = [tab EXCEPT ![t].loading = TRUE, ![t].busy = FALSE, ![t].editor = @ + 1]
  /\ wire' = wire \cup {Ask(t, "get", 0)}
  /\ UNCHANGED <<row, cases, texts, posted, owed, lost, blind, unread>>

(* The inputs stay enabled while a save is under way. *)
TypeText(t, f) ==
  /\ Shown(t) /\ texts < MaxTyped
  /\ texts' = texts + 1
  /\ tab' = [tab EXCEPT ![t].form[f] = texts']
  /\ owed' = [owed EXCEPT ![t][f] = texts']
  /\ lost' = [lost EXCEPT ![t][f] = "no"]
  /\ UNCHANGED <<row, cases, wire, posted, blind, unread, clicks>>

WholeForm(t) == tab[t].form

(* Mutant: a partial body, which blanks the fields it leaves out. *)
TypedFields(t) == [f \in Fields |-> IF f \in Typed(t) THEN tab[t].form[f] ELSE NoText]

Payload(t) == WholeForm(t)

(* handleSubmit: the whole problem goes up, whatever of it was typed; "base" and
   "typed" are history. *)
SaveForm(t) ==
  /\ Shown(t) /\ ~tab[t].saving /\ Click
  /\ \A f \in Required : tab[t].form[f] # NoText
  /\ tab' = [tab EXCEPT ![t].saving = TRUE, ![t].sent = tab[t].form]
  /\ wire' = wire \cup {Ask(t, "put", [row |-> Payload(t), base |-> tab[t].base,
                                      typed |-> Typed(t)])}
  /\ unread' = (unread \/ ~tab[t].loaded)
  /\ UNCHANGED <<row, cases, texts, posted, owed, lost, blind>>

AddCase(t) ==
  /\ Shown(t) /\ ~tab[t].busy /\ Click
  /\ posted < MaxCases
  /\ posted' = posted + 1
  /\ tab' = [tab EXCEPT ![t].busy = TRUE]
  /\ wire' = wire \cup {Ask(t, "post", [case |-> posted', editor |-> tab[t].editor])}
  /\ UNCHANGED <<row, cases, texts, owed, lost, blind, unread>>

MayRemove(t) == Cardinality(tab[t].list) > 1

(* Mutant: no list asked. *)
MayRemoveAny(t) == TRUE

Removable(t) == MayRemove(t)

(* remove: "the last test case cannot go", by the list that is shown; "busy" ends
   with the answer, while the reload that follows it is still under way. *)
RemoveCase(t, c) ==
  /\ Shown(t) /\ ~tab[t].busy /\ Click
  /\ c \in tab[t].list /\ Removable(t)
  /\ tab' = [tab EXCEPT ![t].busy = TRUE]
  /\ wire' = wire \cup {Ask(t, "delete", [case |-> c, editor |-> tab[t].editor])}
  /\ blind' = (blind \/ tab[t].list # cases \/ \E m \in wire : m.op = "delete")
  /\ UNCHANGED <<row, cases, texts, posted, owed, lost, unread>>

-----------------------------------------------------------------------------
(* The server; it can fail before it changes anything. *)

(* m changes, in the database, the last text that was typed in tab s. *)
Overwrites(m, s, f) ==
  owed[s][f] # NoText /\ owed[s][f] = row[f] /\ m.data.row[f] # row[f]

(* PUT replaces every column.  History: a text that is replaced is given up when
   it was typed over in a form that had read it, lost when the form had not. *)
ServeSave(m) ==
  /\ m \in wire /\ m.op = "put"
  /\ \/ /\ row' = m.data.row
        /\ owed' = [s \in Tabs |-> [f \in Fields |->
                      IF Overwrites(m, s, f) /\ m.data.base[f] = row[f] /\ f \in m.data.typed
                        THEN NoText ELSE owed[s][f]]]
        /\ lost' = [s \in Tabs |-> [f \in Fields |->
                      IF owed[s][f] = m.data.row[f] THEN "no"
                        ELSE IF Overwrites(m, s, f) /\ m.data.base[f] # row[f]
                               THEN "stale" ELSE lost[s][f]]]
        /\ wire' = (wire \ {m}) \cup {Answer(m, "saved", 0)}
     \/ /\ wire' = (wire \ {m}) \cup {Answer(m, "refused", 0)}
        /\ UNCHANGED <<row, owed, lost>>
  /\ UNCHANGED <<cases, tab, texts, posted, blind, unread, clicks>>

ServeCase(m) ==
  /\ m \in wire /\ m.op \in {"post", "delete"}
  /\ \/ /\ cases' = IF m.op = "post" THEN cases \cup {m.data.case} ELSE cases \ {m.data.case}
        /\ wire' = (wire \ {m}) \cup {Answer(m, "changed", m.data.editor)}
     \/ /\ wire' = (wire \ {m}) \cup {Answer(m, "unchanged", m.data.editor)}
        /\ UNCHANGED cases
  /\ UNCHANGED <<row, tab, texts, posted, owed, lost, blind, unread, clicks>>

ServeGet(m) ==
  /\ m \in wire /\ m.op = "get"
  /\ \/ wire' = (wire \ {m}) \cup {Answer(m, "problem", [row |-> row, cases |-> cases])}
     \/ wire' = (wire \ {m}) \cup {Answer(m, "no problem", 0)}
  /\ UNCHANGED <<row, cases, tab, texts, posted, owed, lost, blind, unread, clicks>>

-----------------------------------------------------------------------------
(* The answers arrive. *)

(* setForm and setExistingCases, whatever has been typed since. *)
ProblemArrives(m) ==
  /\ m \in wire /\ m.op = "problem" /\ Own(m)
  /\ tab' = [tab EXCEPT ![m.tab].form = m.data.row, ![m.tab].base = m.data.row,
                        ![m.tab].list = m.data.cases,
                        ![m.tab].loading = FALSE, ![m.tab].loaded = TRUE]
  /\ Lose(m.tab, Typed(m.tab), "reload")
  /\ wire' = wire \ {m}
  /\ UNCHANGED <<row, cases, texts, posted, owed, blind, unread, clicks>>

(* The error is shown above the empty form, or is not shown after a reload. *)
LoadFails(m) ==
  /\ m \in wire /\ m.op = "no problem" /\ Own(m)
  /\ tab' = [tab EXCEPT ![m.tab].loading = FALSE]
  /\ wire' = wire \ {m}
  /\ UNCHANGED <<row, cases, texts, posted, owed, lost, blind, unread, clicks>>

Unsent(t) == {f \in Typed(t) : tab[t].form[f] # tab[t].sent[f]}

(* onSaved: setProblemForm(null), for whichever form is there. *)
SaveEnds(m) ==
  /\ m \in wire /\ m.op = "saved"
  /\ tab' = [tab EXCEPT ![m.tab] = IF @.open THEN ClosedTab(@.instance) ELSE @]
  /\ IF Own(m) THEN Lose(m.tab, Unsent(m.tab), "late")
     ELSE Lose(m.tab, Typed(m.tab), "earlier")
  /\ wire' = wire \ {m}
  /\ UNCHANGED <<row, cases, texts, posted, owed, blind, unread, clicks>>

StaysOpen(t) == [tab EXCEPT ![t].saving = FALSE]

(* Mutant: the form closes whatever the answer. *)
ClosesAnyway(t) == [tab EXCEPT ![t] = ClosedTab(@.instance)]

AfterRefusal(t) == StaysOpen(t)

SaveRefused(m) ==
  /\ m \in wire /\ m.op = "refused" /\ Own(m)
  /\ tab' = AfterRefusal(m.tab)
  /\ wire' = wire \ {m}
  /\ UNCHANGED <<row, cases, texts, posted, owed, lost, blind, unread, clicks>>

(* onChanged is the form's loadProblem, and is not awaited. *)
CaseEnds(m) ==
  /\ m \in wire /\ m.op \in {"changed", "unchanged"} /\ Own(m)
  /\ tab' = [tab EXCEPT ![m.tab].busy = @ /\ m.data # tab[m.tab].editor]
  /\ wire' = (wire \ {m}) \cup
               IF m.op = "changed" THEN {Ask(m.tab, "get", 0)} ELSE {}
  /\ UNCHANGED <<row, cases, texts, posted, owed, lost, blind, unread, clicks>>

(* An answer to a form that is gone. *)
Unheard(m) ==
  /\ m \in wire /\ ~Own(m)
  /\ m.op \in {"problem", "no problem", "refused", "changed", "unchanged"}
  /\ wire' = wire \ {m}
  /\ UNCHANGED <<row, cases, tab, texts, posted, owed, lost, blind, unread, clicks>>

-----------------------------------------------------------------------------
EditorInit ==
  /\ row = [f \in Fields |-> 1] /\ cases = {1, 2}
  /\ tab = [t \in Tabs |-> ClosedTab(0)]
  /\ wire = {} /\ texts = 1 /\ posted = 2 /\ clicks = 0
  /\ owed = [t \in Tabs |-> Blank] /\ lost = [t \in Tabs |-> [f \in Fields |-> "no"]]
  /\ blind = FALSE /\ unread = FALSE

EditorNext ==
  \/ \E t \in Tabs :
       \/ OpenForm(t) \/ LeaveForm(t) \/ CancelForm(t) \/ SwitchLanguage(t)
       \/ SaveForm(t) \/ AddCase(t)
       \/ \E f \in Fields : TypeText(t, f)
       \/ \E c \in 1..MaxCases : RemoveCase(t, c)
  \/ \E m \in wire :
       \/ ServeSave(m) \/ ServeCase(m) \/ ServeGet(m)
       \/ ProblemArrives(m) \/ LoadFails(m) \/ SaveEnds(m) \/ SaveRefused(m)
       \/ CaseEnds(m) \/ Unheard(m)

EditorSpec == EditorInit /\ [][EditorNext]_editorVars

-----------------------------------------------------------------------------
(* A form is busy with one test case and one save at a time. *)
EditorTypeOK ==
  /\ row \in [Fields -> 0..MaxTyped] /\ cases \subseteq 1..MaxCases
  /\ texts \in 1..MaxTyped /\ posted \in 2..MaxCases
  /\ owed \in [Tabs -> [Fields -> 0..MaxTyped]]
  /\ lost \in [Tabs -> [Fields -> {"no", "left", "reload", "late", "earlier", "stale"}]]
  /\ \A t \in Tabs :
       /\ tab[t].form \in [Fields -> 0..MaxTyped] /\ tab[t].list \subseteq 1..MaxCases
       /\ Cardinality({m \in wire : m.tab = t /\ m.instance = tab[t].instance /\
                                    m.op \in {"put", "saved", "refused"}}) =< 1

(* The last text a teacher typed in a tab and field is in the form there or in
   the database, whatever this and the other tabs do since, unless it was given
   up: cancelled with the form, or typed over in a form that had read it.  It is
   lost in five ways, and "lost" says which:
     left     the panel unmounted the form, which asks nothing
              (TeacherPanel.jsx:62, 67 and 108);
     reload   the problem came again, after a test case was added or removed or
              the language changed (ProblemForm.jsx:62-83);
     late     it was typed while a save was under way that then closed the form;
     earlier  the answer to the save of an earlier form closed this one;
     stale    it was stored, and the PUT of a form that had not read it, whose
              whole row goes up (ProblemForm.jsx:111-113), put another text in
              its place.
   So no refusal loses a text, an accepted save has stored what it sent, and no
   save of a form changes what the form has read and its teacher left alone. *)
TypedIsKept ==
  \A t \in Tabs, f \in Fields :
    owed[t][f] # NoText =>
      \/ tab[t].open /\ f \in Typed(t) /\ tab[t].form[f] = owed[t][f]
      \/ row[f] = owed[t][f]
      \/ lost[t][f] # "no"

(* "The last test case cannot go" (TestCaseEditor.jsx:47-50), but by the list of
   the tab, so that a problem is left without any only if some removal was
   clicked while another was under way, or on a list that the server's had left
   behind (another tab's, or this one's while it reloads); and the other columns are emptied only by saving
   a form whose problem could not be loaded. *)
EmptiedOnlyUnseen ==
  /\ cases = {} => blind
  /\ \A f \in Fields : row[f] = NoText => unread

(* Nothing that was typed, and no column or case that was stored, is lost in a
   way that is not named. *)
EditsAreKept == TypedIsKept /\ EmptiedOnlyUnseen
=============================================================================
