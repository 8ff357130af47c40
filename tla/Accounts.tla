------------------------------ MODULE Accounts ------------------------------
(* One account and its one-use links: routes/auth.routes.js over
   services/authToken.service.js and services/roles.service.js.

   A call is a record in "request" between two of its queries (bcrypt's hashing,
   which takes a tenth of a second, lies in the gap before a password is
   stored).  Tokens are numbered in order of their INSERT.  What a hash or a
   JWT looks like is left out; a password is a value.  purgeExpired is called
   by nothing in src/ and is not an action. *)
EXTENDS Naturals, FiniteSets

CONSTANTS
  Passwords,   \* what people choose
  Handlers,    \* requests the API serves at the same time
  Free,        \* a handler with nothing to do
  TeacherCode, \* TEACHER_INVITE_CODE, or "" when it is not set
  MaxTokens    \* bound: links issued in a behaviour

ASSUME AccountsAssumption == MaxTokens \in Nat

VARIABLES
  role, password, verified,  \* the users row; role is "none" before there is one
  issued, purpose, live, expired, \* auth_tokens: how many, for what, used_at IS NULL, past expires_at
  inbox,                     \* links that were delivered
  signedIn,                  \* somebody holds a JWT of the account
  request,
  stored                     \* history: how often each link has changed the password

accountVars == <<role, password, verified, issued, purpose, live, expired,
                 inbox, signedIn, request, stored>>

Tokens   == 1..MaxTokens
Purposes == {"password_reset", "email_verification"}
usersRow == <<role, password, verified>>
tokenRows == <<issued, purpose, live, expired>>

Does(h, what, at) == request[h] # Free /\ request[h].does = what /\ request[h].at = at
Begins(h, what, at, for, pw, t) ==
  request' = [request EXCEPT ![h] = [does |-> what, at |-> at, for |-> for, pw |-> pw,
                             token |-> t, since |-> {}]]
Ends(h) == request' = [request EXCEPT ![h] = Free]

-----------------------------------------------------------------------------
(* POST /register.  resolveRole: no invite code makes a student, the server's
   makes a teacher, any other is refused. *)
resolveRole(invite) ==
  IF invite = "" THEN "student"
  ELSE IF TeacherCode # "" /\ invite = TeacherCode THEN "teacher" ELSE "refused"

RegisterChecks(h) ==
  \E pw \in Passwords, invite \in {"", TeacherCode, "guess"} :
    /\ request[h] = Free
    /\ resolveRole(invite) # "refused"
    /\ role = "none"
    /\ Begins(h, "register", "insert", resolveRole(invite), pw, 0)
    /\ UNCHANGED <<usersRow, tokenRows, inbox, signedIn, stored>>

(* users.email is unique: of two registrations that both found it free the
   second INSERT fails.  sendVerification goes on after the answer. *)
RegisterInserts(h) ==
  /\ Does(h, "register", "insert")
  /\ IF role = "none"
     THEN /\ role' = request[h].for
          /\ password' = request[h].pw
          /\ signedIn' = TRUE
          /\ Begins(h, "issue", "supersede", "email_verification", request[h].pw, 0)
          /\ UNCHANGED verified
     ELSE Ends(h) /\ UNCHANGED <<usersRow, signedIn>>
  /\ UNCHANGED <<tokenRows, inbox, stored>>

Login ==
  /\ role # "none"
  /\ signedIn' = TRUE
  /\ UNCHANGED <<usersRow, tokenRows, inbox, request, stored>>

-----------------------------------------------------------------------------
(* POST /forgot-password, POST /resend-verification and the mail of a
   registration all issue a link: supersede, insert, send. *)
ForgotPassword(h) ==
  /\ request[h] = Free /\ role # "none"
  /\ Begins(h, "issue", "supersede", "password_reset", password, 0)
  /\ UNCHANGED <<usersRow, tokenRows, inbox, signedIn, stored>>

ResendVerification(h) ==
  /\ request[h] = Free /\ signedIn /\ ~verified
  /\ Begins(h, "issue", "supersede", "email_verification", password, 0)
  /\ UNCHANGED <<usersRow, tokenRows, inbox, signedIn, stored>>

LiveFor(p) == {t \in live : purpose[t] = p}

(* Mutant: the older links stay live. *)
IssueKeepsOlder(h) ==
  /\ Does(h, "issue", "supersede")
  /\ request' = [request EXCEPT ![h].at = "insert"]
  /\ UNCHANGED <<usersRow, tokenRows, inbox, signedIn, stored>>

IssueSupersedes(h) ==
  /\ Does(h, "issue", "supersede")
  /\ live' = live \ LiveFor(request[h].for)
  /\ request' = [request EXCEPT ![h].at = "insert"]
  /\ UNCHANGED <<usersRow, issued, purpose, expired, inbox, signedIn, stored>>

(* "since" is history: the links inserted after this request had superseded. *)
IssueInserts(h) ==
  /\ Does(h, "issue", "insert")
  /\ issued < MaxTokens
  /\ issued' = issued + 1
  /\ purpose' = [purpose EXCEPT ![issued + 1] = request[h].for]
  /\ live' = live \cup {issued + 1}
  /\ request' = [g \in Handlers |->
               IF g = h THEN [request[h] EXCEPT !.at = "send", !.token = issued + 1]
               ELSE IF Does(g, "issue", "insert")
                    THEN [request[g] EXCEPT !.since = @ \cup {issued + 1}]
                    ELSE request[g]]
  /\ UNCHANGED <<usersRow, expired, inbox, signedIn, stored>>

(* The mail goes out, or it fails and the answer is the same. *)
IssueSends(h) ==
  /\ Does(h, "issue", "send")
  /\ inbox' \in {inbox, inbox \cup {request[h].token}}
  /\ Ends(h)
  /\ UNCHANGED <<usersRow, tokenRows, signedIn, stored>>

-----------------------------------------------------------------------------
(* redeem: one UPDATE ... RETURNING checks the link and uses it up. *)
Redeemable(t, p) == t \in live \ expired /\ purpose[t] = p

Redeem(h, what, p) ==
  \E t \in inbox, pw \in Passwords :
    /\ request[h] = Free
    /\ Redeemable(t, p)
    /\ live' = live \ {t}
    /\ Begins(h, what, "store", p, pw, t)
    /\ UNCHANGED <<usersRow, issued, purpose, expired, inbox, signedIn, stored>>

ResetRedeems(h)  == Redeem(h, "reset", "password_reset")
VerifyRedeems(h) == Redeem(h, "verify", "email_verification")

(* A reset also confirms the address, in a statement of its own. *)
ResetStores(h) ==
  /\ Does(h, "reset", "store")
  /\ password' = request[h].pw
  /\ stored' = [stored EXCEPT ![request[h].token] = @ + 1]
  /\ IF verified THEN Ends(h) ELSE request' = [request EXCEPT ![h].at = "confirm"]
  /\ UNCHANGED <<role, verified, tokenRows, inbox, signedIn>>

Confirms(h) ==
  /\ Does(h, "reset", "confirm") \/ Does(h, "verify", "store")
  /\ verified' = TRUE
  /\ Ends(h)
  /\ UNCHANGED <<role, password, tokenRows, inbox, signedIn, stored>>

(* Any query may throw: the request is answered 500 and what it has written
   stays, a redeemed link included. *)
Throws(h) ==
  /\ request[h] # Free
  /\ Ends(h)
  /\ UNCHANGED <<usersRow, tokenRows, inbox, signedIn, stored>>

Expires ==
  \E t \in (1..issued) \ expired :
    /\ expired' = expired \cup {t}
    /\ UNCHANGED <<usersRow, issued, purpose, live, inbox, signedIn, request, stored>>

AccountInit ==
  /\ role = "none" /\ password \in Passwords /\ verified = FALSE
  /\ issued = 0 /\ purpose = [t \in Tokens |-> "email_verification"]
  /\ live = {} /\ expired = {} /\ inbox = {} /\ signedIn = FALSE
  /\ request = [h \in Handlers |-> Free]
  /\ stored = [t \in Tokens |-> 0]

AccountNext ==
  \/ \E h \in Handlers :
       \/ RegisterChecks(h) \/ RegisterInserts(h) \/ ForgotPassword(h) \/ ResendVerification(h)
       \/ IssueSupersedes(h) \/ IssueInserts(h) \/ IssueSends(h)
       \/ ResetRedeems(h) \/ ResetStores(h) \/ VerifyRedeems(h) \/ Confirms(h) \/ Throws(h)
  \/ Login \/ Expires

AccountSpec == AccountInit /\ [][AccountNext]_accountVars

-----------------------------------------------------------------------------
Jobs == [does : {"register", "issue", "reset", "verify"},
         at : {"insert", "supersede", "send", "store", "confirm"},
         for : Purposes \cup {"student", "teacher"}, pw : Passwords,
         token : 0..MaxTokens, since : SUBSET Tokens]

(* Types, and a delivered or used link is one that was issued. *)
AccountTypeOK ==
  /\ role \in {"none", "student", "teacher"} /\ password \in Passwords
  /\ verified \in BOOLEAN /\ signedIn \in BOOLEAN
  /\ issued \in 0..MaxTokens /\ purpose \in [Tokens -> Purposes]
  /\ live \subseteq 1..issued /\ expired \subseteq 1..issued /\ inbox \subseteq 1..issued
  /\ request \in [Handlers -> Jobs \cup {Free}]
  /\ stored \in [Tokens -> Nat]

(* A link works once (authToken.service.js:13-15): whatever redeems it at the
   same time, it sets at most one password and is dead from then on. *)
LinkWorksOnce ==
  \A t \in Tokens :
    /\ stored[t] =< 1
    /\ stored[t] = 1 => t \notin live /\ purpose[t] = "password_reset"

(* Issuing a link kills the older ones (authToken.service.js:16-18) unless their
   requests overlapped: at the INSERT the only other live links of its purpose
   are those inserted since this request superseded. *)
OnlyOverlapLeavesTwo ==
  \A h \in Handlers :
    Does(h, "issue", "insert") => LiveFor(request[h].for) \subseteq request[h].since

(* A link dies when it is used and when a newer one replaces it. *)
LinksDieInTime == LinkWorksOnce /\ OnlyOverlapLeavesTwo
=============================================================================
