--------------------------- MODULE BrowserSession ---------------------------
(* Who is signed in, in one browser with several tabs: context/AuthContext.jsx,
   api/axios.js, components/ProtectedRoute.jsx and the forms that call them.

   localStorage (the token and the user, always written together) is shared by
   the tabs; the user a tab shows is React state, read from it when the tab
   loads.  A call carries the token that is stored when it is sent. *)
EXTENDS Naturals, FiniteSets

CONSTANTS
  People,    \* accounts that sign in here
  Tabs,
  Nobody,    \* nothing stored, nobody shown
  MaxCalls   \* bound: calls in a behaviour

ASSUME BrowserAssumption == Nobody \notin People /\ MaxCalls \in Nat

VARIABLES
  kept,      \* localStorage: whose token and user
  shown,     \* AuthContext.user of each tab
  route,     \* "login" for the signed-out pages, "inside" for the others
  calls,     \* calls under way, with the token they carry
  made,      \* bound, and the number of a call
  elsewhere  \* history: another tab has written localStorage since the tab did
             \* or loaded

browserVars == <<kept, shown, route, calls, made, elsewhere>>

Writes(t, p) ==
  /\ kept' = p
  /\ elsewhere' = [u \in Tabs |-> u # t]
  /\ shown' = [shown EXCEPT ![t] = p]

Calls(t, kind, who) ==
  /\ made < MaxCalls
  /\ made' = made + 1
  /\ calls' = calls \cup {[id |-> made, tab |-> t, kind |-> kind, who |-> who, token |-> kept]}
  /\ UNCHANGED <<kept, shown, route, elsewhere>>

(* The sign-in and registration forms (disabled while their call is under way),
   and the requests of every other page. *)
SignsIn(t) ==
  /\ route[t] = "login"
  /\ \A c \in calls : ~(c.tab = t /\ c.kind = "login")
  /\ \E p \in People : Calls(t, "login", p)

AsksApi(t) == route[t] = "inside" /\ Calls(t, "api", shown[t])

(* Mutant: stored, and the page not told. *)
SignedInUnseen(c) ==
  /\ c.kind = "login"
  /\ kept' = c.who
  /\ elsewhere' = [u \in Tabs |-> u # c.tab]
  /\ calls' = calls \ {c}
  /\ UNCHANGED <<shown, route, made>>

(* persist, then navigate('/'). *)
SignedIn(c) ==
  /\ c.kind = "login"
  /\ Writes(c.tab, c.who)
  /\ route' = [route EXCEPT ![c.tab] = "inside"]
  /\ calls' = calls \ {c}
  /\ UNCHANGED made

(* The response interceptor: a 401, also one for a wrong password, empties the
   storage whoever's token is in it by now, and a tab that is not on /login
   loads /login anew. *)
Unauthorised(c) ==
  /\ kept' = Nobody
  /\ elsewhere' = [u \in Tabs |-> u # c.tab]
  /\ IF route[c.tab] = "login"
     THEN UNCHANGED <<shown, route>> /\ calls' = calls \ {c}
     ELSE /\ shown' = [shown EXCEPT ![c.tab] = Nobody]
          /\ route' = [route EXCEPT ![c.tab] = "login"]
          /\ calls' = {d \in calls : d.tab # c.tab}
  /\ UNCHANGED made

Answered(c) ==
  /\ c.kind = "api" /\ c.token # Nobody
  /\ calls' = calls \ {c}
  /\ UNCHANGED <<kept, shown, route, made, elsewhere>>

logout(t) ==
  /\ shown[t] # Nobody
  /\ Writes(t, Nobody)
  /\ route' = [route EXCEPT ![t] = "login"]
  /\ UNCHANGED <<calls, made>>

(* A reload, or a tab opened anew; its calls are gone. *)
Loads(t) ==
  /\ shown' = [shown EXCEPT ![t] = kept]
  /\ route' = [route EXCEPT ![t] = IF kept = Nobody THEN "login" ELSE "inside"]
  /\ elsewhere' = [elsewhere EXCEPT ![t] = FALSE]
  /\ calls' = {c \in calls : c.tab # t}
  /\ UNCHANGED <<kept, made>>

(* /login can be opened while signed in; ProtectedRoute sends a tab that shows
   nobody there. *)
GoesToLogin(t) ==
  /\ route[t] = "inside"
  /\ route' = [route EXCEPT ![t] = "login"]
  /\ UNCHANGED <<kept, shown, calls, made, elsewhere>>

ProtectedRoute(t) ==
  /\ route[t] = "login" /\ shown[t] # Nobody
  /\ route' = [route EXCEPT ![t] = "inside"]
  /\ UNCHANGED <<kept, shown, calls, made, elsewhere>>

BrowserInit ==
  /\ kept = Nobody /\ shown = [t \in Tabs |-> Nobody] /\ route = [t \in Tabs |-> "login"]
  /\ calls = {} /\ made = 0 /\ elsewhere = [t \in Tabs |-> FALSE]

BrowserNext ==
  \/ \E t \in Tabs : \/ SignsIn(t) \/ AsksApi(t) \/ logout(t) \/ Loads(t)
                     \/ GoesToLogin(t) \/ ProtectedRoute(t)
  \/ \E c \in calls : SignedIn(c) \/ Unauthorised(c) \/ Answered(c)

BrowserSpec == BrowserInit /\ [][BrowserNext]_browserVars

-----------------------------------------------------------------------------
BrowserTypeOK ==
  /\ kept \in People \cup {Nobody} /\ shown \in [Tabs -> People \cup {Nobody}]
  /\ route \in [Tabs -> {"login", "inside"}] /\ elsewhere \in [Tabs -> BOOLEAN]
  /\ made \in 0..MaxCalls
  /\ \A t \in Tabs : route[t] = "inside" => shown[t] # Nobody

(* A tab acts as the person it shows, or as nobody (axios.js:7-13 takes the token
   from the storage, the page its user from React): the two may name different
   people only after another tab has signed somebody in or out. *)
TabShowsItsUser ==
  \A t \in Tabs : kept \in {Nobody, shown[t]} \/ elsewhere[t]
=============================================================================
