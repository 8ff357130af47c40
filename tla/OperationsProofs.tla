-------------------------- MODULE OperationsProofs --------------------------
(***************************************************************************)
(* Proofs about the parts that MCOperations puts side by side: WorkerPool, *)
(* Migrations, Accounts, BrowserSession and Archive, each for every value  *)
(* of its constants.                                                       *)
(***************************************************************************)
EXTENDS MCOperations, FiniteSetTheorems, TLAPS

-----------------------------------------------------------------------------
(***************************************************************************)
(* The worker pool: its bounds, for every configuration with Min <= Max.   *)
(***************************************************************************)

(* The scaling policy never asks for a size outside the bounds. *)
LEMMA DesiredWorkersRange ==
  ASSUME NEW backlog \in Nat
  PROVE  DesiredWorkers(backlog) \in Nat /\ Min <= DesiredWorkers(backlog)
           /\ DesiredWorkers(backlog) <= Max
  <1>1. Ceil(backlog, PerWorker) \in Int
    BY PoolAssumption DEF Ceil
  <1>2. QED BY <1>1, PoolAssumption DEF DesiredWorkers

(* A stopped worker leaves the map, one entry at a time. *)
LEMMA StopOneEffect ==
  ASSUME TypeOK, StopOne
  PROVE  /\ fresh' \in Nat /\ signalled' \in Nat /\ leaving' \in Nat
         /\ dead' \in Nat /\ gone' \in Nat
         /\ size' = size - 1
  BY DEF TypeOK, StopOne, size

PoolInv == TypeOK /\ WithinBounds

LEMMA PoolInvStep ==
  ASSUME PoolInv, [Next]_vars
  PROVE  PoolInv'
  <1> USE PoolAssumption DEF PoolInv, TypeOK, WithinBounds, size
  <1>1. CASE TickBegins
    BY <1>1 DEF TickBegins, procVars
  <1>2. CASE TickFails
    BY <1>2 DEF TickFails, procVars
  <1>3. ASSUME NEW b \in 0 .. MaxBacklog, TickGrows(b) PROVE PoolInv'
    BY <1>3, DesiredWorkersRange DEF TickGrows, Spawn
  <1>4. ASSUME NEW b \in 0 .. MaxBacklog, TickShrinks(b) PROVE PoolInv'
    <2>1. CASE quietTicks + 1 >= ScaleDownAfter
      BY <1>4, <2>1, DesiredWorkersRange, StopOneEffect DEF TickShrinks
    <2>2. CASE ~(quietTicks + 1 >= ScaleDownAfter)
      BY <1>4, <2>2 DEF TickShrinks, procVars
    <2>3. QED BY <2>1, <2>2
  <1>5. ASSUME NEW b \in 0 .. MaxBacklog, TickKeeps(b) PROVE PoolInv'
    BY <1>5 DEF TickKeeps, procVars
  <1>6. CASE Dies
    BY <1>6 DEF Dies
  <1>7. CASE Leaves
    BY <1>7 DEF Leaves
  <1>8. CASE ExitEvent
    BY <1>8 DEF ExitEvent, Forget, Spawn
  <1>9. CASE Stop
    BY <1>9 DEF Stop
  <1>10. CASE UNCHANGED vars
    BY <1>10 DEF vars, procVars
  <1>11. QED
    BY <1>1, <1>2, <1>3, <1>4, <1>5, <1>6, <1>7, <1>8, <1>9, <1>10 DEF Next, Tick

LEMMA PoolInvariance == Spec => []PoolInv
  <1>1. Init => PoolInv
    <2> SUFFICES ASSUME Init PROVE PoolInv
      OBVIOUS
    <2>1. stopping \in BOOLEAN
      BY Zenon DEF Init
    <2>2. QED BY <2>1, PoolAssumption DEF Init, PoolInv, TypeOK, WithinBounds, size
  <1>2. PoolInv /\ [Next]_vars => PoolInv'
    BY PoolInvStep
  <1>3. QED BY <1>1, <1>2, PTL DEF Spec

(* A pool that has not been told to stop holds between Min and Max workers, *)
(* for every Min <= Max, backlog, number of overlapping ticks and deaths.  *)
THEOREM PoolWithinBounds == Spec => []WithinBounds
  BY PoolInvariance, PTL DEF PoolInv

(* Once the pool is stopping, only a tick that was waiting for its counts   *)
(* forks: the exit handlers look at stopping again, tick() does not         *)
(* (workerPool.js:116 and :145), whatever dies or leaves in between.       *)
THEOREM LateForks == Spec => OnlyLateTicksFork
  <1>1. PoolInv /\ [Next]_vars => [ForksAfterStop]_vars
    <2> SUFFICES ASSUME PoolInv, [Next]_vars, stopping PROVE fresh' > fresh => ticks' < ticks
      BY DEF ForksAfterStop
    <2>0. fresh \in Nat /\ ticks \in Int
      BY DEF PoolInv, TypeOK
    <2>1. CASE Tick
      <3>1. ticks' = ticks - 1
        BY <2>1 DEF Tick, TickGrows, TickShrinks, TickKeeps
      <3> QED
        BY <3>1, <2>0
    <2>2. CASE TickBegins \/ TickFails \/ Dies \/ Leaves \/ Stop
      <3>1. fresh' = fresh \/ fresh' = fresh - 1 \/ fresh' = 0
        BY <2>2 DEF TickBegins, TickFails, Dies, Leaves, Stop, procVars
      <3> QED
        BY <3>1, <2>0
    <2>3. CASE ExitEvent \/ UNCHANGED vars
      <3>1. fresh' = fresh
        BY <2>3 DEF ExitEvent, vars, procVars
      <3> QED
        BY <3>1, <2>0
    <2> QED
      BY <2>1, <2>2, <2>3 DEF Next
  <1> QED
    BY <1>1, PoolInvariance, PTL DEF Spec, OnlyLateTicksFork

-----------------------------------------------------------------------------
(***************************************************************************)
(* Migrations, for any number of runners, of files and of starts.          *)
(***************************************************************************)

Stages == {"off", "look", "bootstrap", "read", "apply", "done", "failed"}

(* The schema is at some level: the files up to it, each applied once.     *)
LevelInv ==
  /\ \E k \in 0..Files : recorded = 1..k
  /\ effect = [f \in All |-> IF f \in recorded THEN 1 ELSE 0]

(* A runner that applies has in hand every file from some one on, and those *)
(* before it are recorded: the file it takes next is either there already  *)
(* or exactly one above the level.                                         *)
HasInHand(m) ==
  \E k \in 1..Files : pending[m] = k..Files /\ 1..(k - 1) \subseteq recorded

HandInv ==
  /\ stage \in [Runners -> Stages]
  /\ pending \in [Runners -> SUBSET All]
  /\ \A m \in Runners : stage[m] = "apply" => HasInHand(m)

(* Who is about to bootstrap an installed database, or is not alone in it, *)
(* is one of twins.                                                        *)
TwinInv ==
  /\ installed \in BOOLEAN /\ rows \in BOOLEAN /\ together \in BOOLEAN /\ lost \in BOOLEAN
  /\ rows => installed
  /\ \A m \in Runners : stage[m] = "bootstrap" /\ installed => together
  /\ \A m, n \in Runners :
       m # n /\ stage[m] = "bootstrap" /\ stage[n] = "bootstrap" => together
  /\ lost => together

MigrationInv == LevelInv /\ HandInv /\ TwinInv

LEMMA EarliestOfRange ==
  ASSUME NEW k \in 1..Files
  PROVE  Earliest(k..Files) = k
  BY FilesAssumption DEF Earliest

LEMMA MigrationInitialInv == MigrationInit => MigrationInv
  <1> SUFFICES ASSUME MigrationInit PROVE MigrationInv
    OBVIOUS
  <1>1. PICK k \in 0..Files :
          /\ recorded = 1..k
          /\ effect = [f \in All |-> IF f =< k THEN 1 ELSE 0]
    BY DEF MigrationInit
  <1>2. LevelInv
    BY <1>1, FilesAssumption DEF LevelInv, All
  <1>3. HandInv /\ TwinInv
    BY DEF MigrationInit, HandInv, TwinInv, Stages
  <1> QED
    BY <1>2, <1>3 DEF MigrationInv

(* A runner that moves to a stage other than these leaves the twins alone. *)
LEMMA RunnerMoves ==
  ASSUME MigrationInv, NEW m \in Runners, NEW s \in Stages,
         s \notin {"bootstrap", "apply"},
         stage' = [stage EXCEPT ![m] = s],
         UNCHANGED <<installed, recorded, effect, rows, pending, together, lost>>
  PROVE  MigrationInv'
  <1> USE DEF MigrationInv
  <1>1. LevelInv'
    BY DEF LevelInv, All
  <1>2. HandInv'
    BY DEF HandInv, HasInHand, All
  <1>3. TwinInv'
    BY DEF TwinInv, HandInv
  <1> QED
    BY <1>1, <1>2, <1>3

LEMMA LookStep ==
  ASSUME MigrationInv, NEW m \in Runners, LooksForUsers(m)
  PROVE  MigrationInv'
  <1> USE DEF MigrationInv, LooksForUsers, isEmptyDatabase
  <1>1. LevelInv'
    BY DEF LevelInv, All
  <1>2. HandInv'
    BY DEF HandInv, HasInHand, All, Stages
  <1>3. TwinInv'
    BY DEF TwinInv, HandInv
  <1> QED
    BY <1>1, <1>2, <1>3

LEMMA BootstrapStep ==
  ASSUME MigrationInv, NEW m \in Runners, bootstrapSchema(m)
  PROVE  MigrationInv'
  <1> USE DEF MigrationInv, bootstrapSchema
  <1>1. LevelInv'
    BY FilesAssumption DEF LevelInv, All
  <1>2. HandInv'
    BY FilesAssumption DEF HandInv, HasInHand, All, Stages
  <1>3. TwinInv'
    BY DEF TwinInv, HandInv
  <1> QED
    BY <1>1, <1>2, <1>3

LEMMA ReadStep ==
  ASSUME MigrationInv, NEW m \in Runners, appliedSet(m)
  PROVE  MigrationInv'
  <1> USE DEF MigrationInv, appliedSet
  <1>1. LevelInv'
    BY DEF LevelInv, All
  <1>2. PICK k \in 0..Files : recorded = 1..k
    BY DEF LevelInv
  <1>3. All \ recorded = (k + 1)..Files
    BY <1>2, FilesAssumption DEF All
  <1>4. ASSUME All \ recorded # {} PROVE k + 1 \in 1..Files
    BY <1>3, <1>4, FilesAssumption
  <1>5. HandInv'
    <2>1. stage' \in [Runners -> Stages] /\ pending' \in [Runners -> SUBSET All]
      BY DEF HandInv, Stages
    <2>2. ASSUME NEW n \in Runners, stage'[n] = "apply" PROVE HasInHand(n)'
      <3>1. CASE n = m
        <4>1. pending'[m] = (k + 1)..Files /\ All \ recorded # {}
          BY <1>3, <2>2, <3>1 DEF HandInv
        <4>2. k + 1 \in 1..Files /\ 1..((k + 1) - 1) \subseteq recorded'
          BY <1>2, <1>4, <4>1
        <4> QED
          BY <3>1, <4>1, <4>2 DEF HasInHand
      <3>2. CASE n # m
        BY <2>2, <3>2 DEF HandInv, HasInHand
      <3> QED
        BY <3>1, <3>2
    <2> QED
      BY <2>1, <2>2 DEF HandInv
  <1>6. TwinInv'
    BY DEF TwinInv, HandInv
  <1> QED
    BY <1>1, <1>5, <1>6

LEMMA ApplyStep ==
  ASSUME MigrationInv, NEW m \in Runners, Applies(m)
  PROVE  MigrationInv'
  <1> USE DEF MigrationInv
  <1>1. PICK k \in 1..Files : pending[m] = k..Files /\ 1..(k - 1) \subseteq recorded
    BY DEF Applies, HandInv, HasInHand
  <1>2. Earliest(pending[m]) = k
    BY <1>1, EarliestOfRange
  <1>3. CASE k \in recorded
    BY <1>2, <1>3, RunnerMoves DEF Applies, Stages
  <1>4. CASE k \notin recorded
    <2>1. /\ recorded' = recorded \cup {k}
          /\ effect' = [effect EXCEPT ![k] = @ + 1]
          /\ pending' = [pending EXCEPT ![m] = @ \ {k}]
          /\ stage' = [stage EXCEPT ![m] = IF pending[m] = {k} THEN "done" ELSE "apply"]
          /\ UNCHANGED <<installed, rows, runs, together, lost>>
      BY <1>2, <1>4 DEF Applies
    <2>2. recorded' = 1..k
      <3>1. PICK j \in 0..Files : recorded = 1..j
        BY DEF LevelInv
      <3>2. j = k - 1
        <4>1. Files \in Nat /\ k \in Nat /\ k >= 1 /\ j \in Nat
          BY FilesAssumption
        <4> HIDE DEF MigrationInv
        <4>2. k > j
          BY <1>4, <3>1, <4>1
        <4>3. k # 1 => k - 1 \in 1..j
          BY <1>1, <3>1, <4>1
        <4> QED
          BY <4>1, <4>2, <4>3
      <3> QED
        BY <2>1, <3>1, <3>2, FilesAssumption
    <2>3. LevelInv'
      <3>1. k \in All /\ effect = [f \in All |-> IF f \in recorded THEN 1 ELSE 0]
        BY DEF LevelInv, All
      <3>2. effect' = [f \in All |-> IF f \in recorded' THEN 1 ELSE 0]
        <4> DEFINE in(f) == IF f \in recorded THEN 1 ELSE 0
        <4>1. effect' = [f \in All |-> IF f = k THEN in(k) + 1 ELSE in(f)]
          BY <2>1, <3>1, Zenon
        <4>2. ASSUME NEW f \in All
              PROVE  (IF f = k THEN in(k) + 1 ELSE in(f)) = (IF f \in recorded' THEN 1 ELSE 0)
          BY <1>4, <2>1
        <4> QED
          BY <4>1, <4>2, Zenon
      <3> QED
        BY <2>2, <3>2, FilesAssumption DEF LevelInv, All
    <2>4. pending[m] \ {k} = (k + 1)..Files /\ (pending[m] # {k} => k + 1 \in 1..Files)
      BY <1>1, FilesAssumption
    <2>5. ASSUME NEW n \in Runners, stage'[n] = "apply" PROVE HasInHand(n)'
      <3>1. CASE n = m
        <4>1. pending'[m] = (k + 1)..Files /\ k + 1 \in 1..Files
          BY <2>1, <2>4, <2>5, <3>1 DEF HandInv
        <4>2. 1..((k + 1) - 1) \subseteq recorded'
          BY <2>2, FilesAssumption
        <4> QED
          BY <3>1, <4>1, <4>2 DEF HasInHand
      <3>2. CASE n # m
        <4>1. pending'[n] = pending[n] /\ HasInHand(n) /\ recorded \subseteq recorded'
          BY <2>1, <2>5, <3>2 DEF HandInv
        <4> QED
          BY <4>1 DEF HasInHand
      <3> QED
        BY <3>1, <3>2
    <2>6. HandInv'
      BY <2>1, <2>5 DEF HandInv, Stages, All
    <2>7. TwinInv'
      BY <2>1 DEF TwinInv, HandInv
    <2> QED
      BY <2>3, <2>6, <2>7
  <1> QED
    BY <1>3, <1>4

LEMMA MigrationInvStep ==
  ASSUME MigrationInv, [MigrationNext]_migrationVars
  PROVE  MigrationInv'
  <1>1. ASSUME NEW m \in Runners, Starts(m) \/ RunnerDies(m) PROVE MigrationInv'
    <2>1. PICK s \in {"look", "failed"} : stage' = [stage EXCEPT ![m] = s]
      BY <1>1 DEF Starts, RunnerDies
    <2>2. UNCHANGED <<installed, recorded, effect, rows, pending, together, lost>>
      BY <1>1 DEF Starts, RunnerDies
    <2> QED
      BY <2>1, <2>2, RunnerMoves DEF Stages
  <1>2. CASE Registers
    BY <1>2 DEF Registers, MigrationInv, LevelInv, HandInv, HasInHand, TwinInv, All
  <1>3. CASE UNCHANGED migrationVars
    BY <1>3 DEF migrationVars, MigrationInv, LevelInv, HandInv, HasInHand, TwinInv, All
  <1> QED
    BY <1>1, <1>2, <1>3, LookStep, BootstrapStep, ReadStep, ApplyStep DEF MigrationNext

LEMMA MigrationInvSuffices == MigrationInv => MigrationsKeepData
  BY FilesAssumption DEF MigrationInv, LevelInv, TwinInv, MigrationsKeepData,
     AppliedOnceInOrder, OnlyTwinsDropData, All

(* However many runners there are and wherever they die, each migration is *)
(* applied once and in order, and the bootstrap of scripts/migrate.js drops *)
(* accounts only where two runners had found the same database empty.      *)
THEOREM DataIsKept == MigrationSpec => []MigrationsKeepData
  <1>1. MigrationSpec => []MigrationInv
    BY MigrationInitialInv, MigrationInvStep, PTL DEF MigrationSpec
  <1> QED
    BY <1>1, MigrationInvSuffices, PTL

-----------------------------------------------------------------------------
(***************************************************************************)
(* Accounts, for any set of passwords, any number of requests at once and  *)
(* any number of links.                                                    *)
(***************************************************************************)

(* What the request field "for" may hold; that a link is always issued for *)
(* one of the two Purposes is not needed here.                             *)
Reasons == Purposes \cup {"student", "teacher"}

LinkTypeInv ==
  /\ password \in Passwords
  /\ issued \in 0..MaxTokens
  /\ purpose \in [Tokens -> Reasons]
  /\ stored \in [Tokens -> Nat]
  /\ live \subseteq 1..issued
  /\ request \in [Handlers -> Jobs \cup {Free}]

(* A reset that is about to store its password holds a link of its own:    *)
(* redeemed, and not yet used for anything.                                *)
Stores(h) == Does(h, "reset", "store")

HoldsLink(h) ==
  LET t == request[h].token
  IN  t \in 1..issued /\ t \notin live /\ stored[t] = 0 /\ purpose[t] = "password_reset"

UseInv ==
  /\ \A h \in Handlers : Stores(h) => HoldsLink(h)
  /\ \A h, g \in Handlers :
       h # g /\ Stores(h) /\ Stores(g) => request[h].token # request[g].token
  /\ \A t \in Tokens :
       stored[t] # 0 => /\ stored[t] = 1 /\ t \in 1..issued /\ t \notin live
                        /\ purpose[t] = "password_reset"

AccountInv == LinkTypeInv /\ UseInv /\ OnlyOverlapLeavesTwo

LEMMA AccountInitialInv == AccountInit => AccountInv
  BY AccountsAssumption DEF AccountInit, AccountInv, LinkTypeInv, UseInv, Stores, Does,
     OnlyOverlapLeavesTwo, Tokens, Purposes, Reasons

(* A request that goes on to something else than an INSERT of a link or a  *)
(* new password, with no link more alive than before.                      *)
Elsewhere(j) == ~(j.does = "issue" /\ j.at = "insert") /\ ~(j.does = "reset" /\ j.at = "store")

LEMMA LinksUndisturbed ==
  ASSUME AccountInv, NEW h \in Handlers, NEW j \in Jobs \cup {Free}, j = Free \/ Elsewhere(j),
         request' = [request EXCEPT ![h] = j],
         live' \subseteq live, password' \in Passwords,
         UNCHANGED <<issued, purpose, stored>>
  PROVE  AccountInv'
  <1> USE DEF AccountInv
  <1>1. LinkTypeInv'
    BY DEF LinkTypeInv, Tokens
  <1>2. ASSUME NEW g \in Handlers, Stores(g)' \/ Does(g, "issue", "insert")'
        PROVE  g # h /\ request'[g] = request[g]
    BY <1>2 DEF LinkTypeInv, Stores, Does, Elsewhere
  <1>3. UseInv'
    <2>1. ASSUME NEW g \in Handlers, Stores(g)'
          PROVE  Stores(g) /\ HoldsLink(g)' /\ request'[g] = request[g]
      BY <1>2, <2>1 DEF UseInv, Stores, Does, HoldsLink
    <2> QED
      BY <2>1 DEF UseInv
  <1>4. OnlyOverlapLeavesTwo'
    <2>1. ASSUME NEW g \in Handlers, Does(g, "issue", "insert")'
          PROVE  (LiveFor(request[g].for) \subseteq request[g].since)'
      <3>1. request'[g] = request[g] /\ LiveFor(request[g].for) \subseteq request[g].since
        BY <1>2, <2>1 DEF OnlyOverlapLeavesTwo, Does
      <3> QED
        BY <3>1 DEF LiveFor
    <2> QED
      BY <2>1 DEF OnlyOverlapLeavesTwo
  <1> QED
    BY <1>1, <1>3, <1>4

LEMMA RegisterStep ==
  ASSUME AccountInv, NEW h \in Handlers, RegisterChecks(h) \/ RegisterInserts(h)
  PROVE  AccountInv'
  <1>1. ASSUME NEW pw \in Passwords, NEW for \in Reasons,
               Begins(h, "register", "insert", for, pw, 0),
               UNCHANGED <<usersRow, tokenRows, inbox, signedIn, stored>>
        PROVE  AccountInv'
    <2> DEFINE j == [does |-> "register", at |-> "insert", for |-> for,
                     pw |-> pw, token |-> 0, since |-> {}]
    <2>1. j \in Jobs /\ Elsewhere(j)
      BY AccountsAssumption DEF Jobs, Reasons, Elsewhere
    <2> QED
      BY <1>1, <2>1, LinksUndisturbed DEF Begins, usersRow, tokenRows, AccountInv, LinkTypeInv
  <1>2. CASE RegisterInserts(h)
    <2> DEFINE j == [does |-> "issue", at |-> "supersede", for |-> "email_verification",
                     pw |-> request[h].pw, token |-> 0, since |-> {}]
    <2>1. request[h].pw \in Passwords
      BY <1>2 DEF RegisterInserts, Does, AccountInv, LinkTypeInv, Jobs
    <2>2. j \in Jobs /\ Elsewhere(j)
      BY <2>1, AccountsAssumption DEF Jobs, Purposes, Elsewhere
    <2>3. \/ request' = [request EXCEPT ![h] = j]
          \/ request' = [request EXCEPT ![h] = Free]
      BY <1>2 DEF RegisterInserts, Begins, Ends
    <2>4. password' \in Passwords /\ UNCHANGED <<issued, purpose, live, stored>>
      BY <1>2, <2>1 DEF RegisterInserts, usersRow, tokenRows, AccountInv, LinkTypeInv
    <2> QED
      BY <2>2, <2>3, <2>4, LinksUndisturbed DEF AccountInv, LinkTypeInv
  <1> QED
    BY <1>1, <1>2 DEF RegisterChecks, resolveRole, Reasons

LEMMA AskStep ==
  ASSUME AccountInv, NEW h \in Handlers, ForgotPassword(h) \/ ResendVerification(h)
  PROVE  AccountInv'
  <1>1. PICK for \in Purposes :
          request' = [request EXCEPT ![h] =
            [does |-> "issue", at |-> "supersede", for |-> for, pw |-> password,
             token |-> 0, since |-> {}]]
    BY DEF ForgotPassword, ResendVerification, Begins, Purposes
  <1> DEFINE j == [does |-> "issue", at |-> "supersede", for |-> for, pw |-> password,
                   token |-> 0, since |-> {}]
  <1>2. j \in Jobs /\ Elsewhere(j)
    BY AccountsAssumption DEF Jobs, Elsewhere, AccountInv, LinkTypeInv
  <1>3. UNCHANGED <<password, issued, purpose, live, stored>>
    BY DEF ForgotPassword, ResendVerification, usersRow, tokenRows
  <1> QED
    BY <1>1, <1>2, <1>3, LinksUndisturbed DEF AccountInv, LinkTypeInv

LEMMA SupersedeStep ==
  ASSUME AccountInv, NEW h \in Handlers, IssueSupersedes(h)
  PROVE  AccountInv'
  <1> USE DEF AccountInv
  <1>1. /\ Does(h, "issue", "supersede")
        /\ live' = live \ LiveFor(request[h].for)
        /\ request' = [request EXCEPT ![h].at = "insert"]
        /\ UNCHANGED <<password, issued, purpose, stored>>
    BY DEF IssueSupersedes, usersRow
  <1>2. request[h] \in Jobs
    BY <1>1 DEF Does, LinkTypeInv
  <1>3. request'[h] = [request[h] EXCEPT !.at = "insert"] /\ request'[h] \in Jobs
    BY <1>1, <1>2 DEF LinkTypeInv, Jobs
  <1>4. LinkTypeInv'
    BY <1>1, <1>3 DEF LinkTypeInv, Tokens
  <1>5. ASSUME NEW g \in Handlers, g # h PROVE request'[g] = request[g]
    BY <1>1, <1>5 DEF LinkTypeInv
  <1>6. ~Stores(h)'
    BY <1>1, <1>2, <1>3 DEF Stores, Does, Jobs
  <1>7. UseInv'
    <2>1. ASSUME NEW g \in Handlers, Stores(g)'
          PROVE  g # h /\ Stores(g) /\ HoldsLink(g)' /\ request'[g] = request[g]
      BY <1>1, <1>5, <1>6, <2>1 DEF UseInv, Stores, Does, HoldsLink
    <2> QED
      BY <1>1, <2>1 DEF UseInv
  <1>8. OnlyOverlapLeavesTwo'
    <2>1. ASSUME NEW g \in Handlers, g # h, Does(g, "issue", "insert")'
          PROVE  (LiveFor(request[g].for) \subseteq request[g].since)'
      <3>1. request'[g] = request[g] /\ LiveFor(request[g].for) \subseteq request[g].since
        BY <1>5, <2>1 DEF OnlyOverlapLeavesTwo, Does
      <3> QED
        BY <1>1, <3>1 DEF LiveFor
    <2>2. LiveFor(request[h].for)' = {}
      BY <1>1, <1>2, <1>3 DEF LiveFor, Jobs
    <2> QED
      BY <2>1, <2>2 DEF OnlyOverlapLeavesTwo
  <1> QED
    BY <1>4, <1>7, <1>8

(* The number of the new link is above all others: no reset holds it and   *)
(* no password was set with it.                                            *)
LEMMA InsertStep ==
  ASSUME AccountInv, NEW h \in Handlers, IssueInserts(h)
  PROVE  AccountInv'
  <1> USE DEF AccountInv
  <1> DEFINE new == issued + 1
  <1>1. /\ Does(h, "issue", "insert")
        /\ issued < MaxTokens
        /\ issued' = new
        /\ purpose' = [purpose EXCEPT ![new] = request[h].for]
        /\ live' = live \cup {new}
        /\ UNCHANGED <<password, stored>>
    BY DEF IssueInserts, usersRow
  <1>2. request' = [g \in Handlers |->
               IF g = h THEN [request[h] EXCEPT !.at = "send", !.token = new]
               ELSE IF Does(g, "issue", "insert")
                    THEN [request[g] EXCEPT !.since = @ \cup {new}]
                    ELSE request[g]]
    BY DEF IssueInserts
  <1>3. /\ new \in Tokens /\ new \notin 1..issued /\ 1..issued' = (1..issued) \cup {new}
        /\ issued' \in 0..MaxTokens /\ new \in 0..MaxTokens /\ 1..issued \subseteq Tokens
    BY <1>1, AccountsAssumption DEF LinkTypeInv, Tokens
  <1>4. request[h] \in Jobs
    BY <1>1 DEF Does, LinkTypeInv
  <1>5. ASSUME NEW g \in Handlers
        PROVE  /\ request'[g] \in Jobs \cup {Free}
               /\ Does(g, "issue", "insert")' =>
                    /\ Does(g, "issue", "insert") /\ request'[g].for = request[g].for
                    /\ request'[g].since = request[g].since \cup {new}
               /\ Stores(g)' => Stores(g) /\ request'[g] = request[g]
    <2>1. CASE g = h
      <3>1. request'[h] = [request[h] EXCEPT !.at = "send", !.token = new]
        BY <1>2
      <3>2. request'[h] \in Jobs /\ request'[h].at = "send"
        BY <1>3, <1>4, <3>1 DEF Jobs
      <3> QED
        BY <2>1, <3>2 DEF Does, Stores
    <2>2. CASE g # h /\ Does(g, "issue", "insert")
      <3>1. request'[g] = [request[g] EXCEPT !.since = @ \cup {new}]
        BY <1>2, <2>2
      <3>2. request[g] \in Jobs
        BY <2>2 DEF Does, LinkTypeInv
      <3>3. /\ request'[g] \in Jobs
            /\ request'[g].does = request[g].does /\ request'[g].at = request[g].at
            /\ request'[g].for = request[g].for
            /\ request'[g].since = request[g].since \cup {new}
        BY <1>3, <3>1, <3>2 DEF Jobs
      <3> QED
        BY <2>2, <3>3 DEF Does, Stores
    <2>3. CASE g # h /\ ~Does(g, "issue", "insert")
      <3>1. request'[g] = request[g]
        BY <1>2, <2>3
      <3> QED
        BY <2>3, <3>1 DEF Does, Stores, LinkTypeInv
    <2> QED
      BY <2>1, <2>2, <2>3
  <1>6. LinkTypeInv'
    <2>1. request' \in [Handlers -> Jobs \cup {Free}]
      BY <1>2, <1>5
    <2>2. purpose' \in [Tokens -> Reasons]
      BY <1>1, <1>4 DEF LinkTypeInv, Jobs, Reasons
    <2> QED
      BY <1>1, <1>3, <2>1, <2>2 DEF LinkTypeInv, Tokens
  <1>7. \A t \in 1..issued : purpose'[t] = purpose[t]
    BY <1>1, <1>3 DEF LinkTypeInv
  <1>8. UseInv'
    <2>1. ASSUME NEW g \in Handlers, Stores(g)'
          PROVE  Stores(g) /\ HoldsLink(g)' /\ request'[g] = request[g]
      BY <1>1, <1>3, <1>5, <1>7, <2>1 DEF UseInv, HoldsLink
    <2>2. ASSUME NEW t \in Tokens, stored'[t] # 0
          PROVE  /\ stored'[t] = 1 /\ t \in 1..issued' /\ t \notin live'
                 /\ purpose'[t] = "password_reset"
      BY <1>1, <1>3, <1>7, <2>2 DEF UseInv
    <2> QED
      BY <2>1, <2>2 DEF UseInv
  <1>9. OnlyOverlapLeavesTwo'
    <2>1. ASSUME NEW g \in Handlers, Does(g, "issue", "insert")'
          PROVE  (LiveFor(request[g].for) \subseteq request[g].since)'
      <3>1. LiveFor(request[g].for) \subseteq request[g].since
        BY <1>5, <2>1 DEF OnlyOverlapLeavesTwo
      <3>2. LiveFor(request[g].for)' \subseteq LiveFor(request[g].for) \cup {new}
        BY <1>1, <1>5, <1>7, <2>1 DEF LiveFor, LinkTypeInv
      <3> QED
        BY <1>5, <2>1, <3>1, <3>2
    <2> QED
      BY <2>1 DEF OnlyOverlapLeavesTwo
  <1> QED
    BY <1>6, <1>8, <1>9

(* Steps that end the request. *)
LEMMA EndStep ==
  ASSUME AccountInv, NEW h \in Handlers,
         IssueSends(h) \/ Confirms(h) \/ Throws(h)
  PROVE  AccountInv'
  <1>1. request' = [request EXCEPT ![h] = Free]
    BY DEF IssueSends, Confirms, Throws, Ends
  <1>2. UNCHANGED <<password, issued, purpose, live, stored>>
    BY DEF IssueSends, Confirms, Throws, usersRow, tokenRows
  <1> QED
    BY <1>1, <1>2, LinksUndisturbed DEF AccountInv, LinkTypeInv

LEMMA VerifyStep ==
  ASSUME AccountInv, NEW h \in Handlers, VerifyRedeems(h)
  PROVE  AccountInv'
  <1>1. PICK t \in inbox, pw \in Passwords :
          /\ t \in live
          /\ live' = live \ {t}
          /\ Begins(h, "verify", "store", "email_verification", pw, t)
          /\ UNCHANGED <<usersRow, issued, purpose, expired, inbox, signedIn, stored>>
    BY DEF VerifyRedeems, Redeem, Redeemable
  <1> DEFINE j == [does |-> "verify", at |-> "store", for |-> "email_verification",
                   pw |-> pw, token |-> t, since |-> {}]
  <1>2. t \in 0..MaxTokens
    BY <1>1, AccountsAssumption DEF AccountInv, LinkTypeInv
  <1>3. j \in Jobs /\ Elsewhere(j)
    BY <1>2 DEF Jobs, Purposes, Elsewhere
  <1> QED
    BY <1>1, <1>3, LinksUndisturbed DEF Begins, usersRow, AccountInv, LinkTypeInv

(* One UPDATE both finds the link live and uses it up: nobody else holds it. *)
LEMMA ResetRedeemsStep ==
  ASSUME AccountInv, NEW h \in Handlers, ResetRedeems(h)
  PROVE  AccountInv'
  <1> USE DEF AccountInv
  <1>1. PICK t \in inbox, pw \in Passwords :
          /\ t \in live /\ purpose[t] = "password_reset"
          /\ live' = live \ {t}
          /\ Begins(h, "reset", "store", "password_reset", pw, t)
          /\ UNCHANGED <<usersRow, issued, purpose, expired, inbox, signedIn, stored>>
    BY DEF ResetRedeems, Redeem, Redeemable
  <1> DEFINE j == [does |-> "reset", at |-> "store", for |-> "password_reset",
                   pw |-> pw, token |-> t, since |-> {}]
  <1>2. t \in 1..issued /\ t \in Tokens /\ t \in 0..MaxTokens
    BY <1>1, AccountsAssumption DEF LinkTypeInv, Tokens
  <1>3. j \in Jobs /\ request' = [request EXCEPT ![h] = j]
    BY <1>1, <1>2 DEF Jobs, Purposes, Begins
  <1>4. LinkTypeInv'
    BY <1>1, <1>3 DEF LinkTypeInv, Tokens, usersRow
  <1>5. request'[h] = j /\ \A g \in Handlers \ {h} : request'[g] = request[g]
    BY <1>3 DEF LinkTypeInv
  <1>6. stored[t] = 0
    BY <1>1, <1>2 DEF UseInv
  <1>7. UseInv'
    <2>1. HoldsLink(h)'
      BY <1>1, <1>2, <1>5, <1>6 DEF HoldsLink
    <2>2. ASSUME NEW g \in Handlers \ {h}, Stores(g)'
          PROVE  Stores(g) /\ HoldsLink(g)' /\ request'[g].token # t
      BY <1>1, <1>5, <2>2 DEF UseInv, Stores, Does, HoldsLink
    <2>3. request'[h].token = t
      BY <1>5
    <2> QED
      BY <1>1, <1>5, <2>1, <2>2, <2>3 DEF UseInv
  <1>8. OnlyOverlapLeavesTwo'
    <2>1. ASSUME NEW g \in Handlers, Does(g, "issue", "insert")'
          PROVE  (LiveFor(request[g].for) \subseteq request[g].since)'
      <3>1. request'[g] = request[g] /\ LiveFor(request[g].for) \subseteq request[g].since
        BY <1>5, <2>1 DEF OnlyOverlapLeavesTwo, Does
      <3> QED
        BY <1>1, <3>1 DEF LiveFor
    <2> QED
      BY <2>1 DEF OnlyOverlapLeavesTwo
  <1> QED
    BY <1>4, <1>7, <1>8

LEMMA ResetStoresStep ==
  ASSUME AccountInv, NEW h \in Handlers, ResetStores(h)
  PROVE  AccountInv'
  <1> USE DEF AccountInv
  <1> DEFINE t == request[h].token
  <1>1. /\ Stores(h)
        /\ password' = request[h].pw
        /\ stored' = [stored EXCEPT ![t] = @ + 1]
        /\ UNCHANGED <<issued, purpose, live>>
    BY DEF ResetStores, Stores, tokenRows
  <1>2. PICK j \in Jobs \cup {Free} :
          request' = [request EXCEPT ![h] = j] /\ (j = Free \/ Elsewhere(j))
    <2>1. request[h] \in Jobs
      BY <1>1 DEF Stores, Does, LinkTypeInv
    <2>2. [request[h] EXCEPT !.at = "confirm"] \in Jobs
      BY <2>1 DEF Jobs
    <2>3. Elsewhere([request[h] EXCEPT !.at = "confirm"])
      BY <2>1 DEF Jobs, Elsewhere
    <2> QED
      BY <2>2, <2>3 DEF ResetStores, Ends
  <1>3. /\ t \in 1..issued /\ t \notin live /\ stored[t] = 0
        /\ purpose[t] = "password_reset" /\ t \in Tokens
    BY <1>1, AccountsAssumption DEF UseInv, HoldsLink, LinkTypeInv, Tokens
  <1>4. stored'[t] = 1 /\ \A u \in Tokens \ {t} : stored'[u] = stored[u]
    BY <1>1, <1>3 DEF LinkTypeInv
  <1>5. request[h].pw \in Passwords
    BY <1>1 DEF Stores, Does, LinkTypeInv, Jobs
  <1>6. LinkTypeInv'
    <2>1. stored' \in [Tokens -> Nat]
      BY <1>1, <1>3 DEF LinkTypeInv
    <2>2. request' \in [Handlers -> Jobs \cup {Free}]
      BY <1>2 DEF LinkTypeInv
    <2> QED
      BY <1>1, <1>5, <2>1, <2>2 DEF LinkTypeInv, Tokens
  <1>7. ASSUME NEW g \in Handlers, Stores(g)' \/ Does(g, "issue", "insert")'
        PROVE  g # h /\ request'[g] = request[g]
    BY <1>2, <1>7 DEF LinkTypeInv, Stores, Does, Elsewhere
  <1>8. UseInv'
    <2>1. ASSUME NEW g \in Handlers, Stores(g)'
          PROVE  Stores(g) /\ request'[g] = request[g] /\ HoldsLink(g)'
      <3>1. g # h /\ request'[g] = request[g] /\ Stores(g)
        BY <1>7, <2>1 DEF Stores, Does
      <3>2. HoldsLink(g) /\ request[g].token # t
        BY <1>1, <3>1 DEF UseInv
      <3>3. request[g].token \in Tokens
        BY <3>2, AccountsAssumption DEF HoldsLink, LinkTypeInv, Tokens
      <3> QED
        BY <1>1, <1>4, <3>1, <3>2, <3>3 DEF HoldsLink
    <2>2. ASSUME NEW u \in Tokens, stored'[u] # 0
          PROVE  /\ stored'[u] = 1 /\ u \in 1..issued' /\ u \notin live'
                 /\ purpose'[u] = "password_reset"
      BY <1>1, <1>3, <1>4, <2>2 DEF UseInv
    <2> QED
      BY <2>1, <2>2 DEF UseInv
  <1>9. OnlyOverlapLeavesTwo'
    <2>1. ASSUME NEW g \in Handlers, Does(g, "issue", "insert")'
          PROVE  (LiveFor(request[g].for) \subseteq request[g].since)'
      <3>1. request'[g] = request[g] /\ LiveFor(request[g].for) \subseteq request[g].since
        BY <1>7, <2>1 DEF OnlyOverlapLeavesTwo, Does
      <3> QED
        BY <1>1, <3>1 DEF LiveFor
    <2> QED
      BY <2>1 DEF OnlyOverlapLeavesTwo
  <1> QED
    BY <1>6, <1>8, <1>9

LEMMA AccountInvStep ==
  ASSUME AccountInv, [AccountNext]_accountVars
  PROVE  AccountInv'
  <1>1. ASSUME UNCHANGED <<password, issued, purpose, live, request, stored>>
        PROVE  AccountInv'
    BY <1>1 DEF AccountInv, LinkTypeInv, UseInv, Stores, Does, HoldsLink,
       OnlyOverlapLeavesTwo, LiveFor
  <1>2. CASE Login \/ Expires \/ UNCHANGED accountVars
    BY <1>1, <1>2 DEF Login, Expires, usersRow, tokenRows, accountVars
  <1> QED
    BY <1>2, RegisterStep, AskStep, SupersedeStep, InsertStep, EndStep, VerifyStep,
       ResetRedeemsStep, ResetStoresStep DEF AccountNext

LEMMA AccountInvSuffices == AccountInv => LinksDieInTime
  BY DEF AccountInv, LinkTypeInv, UseInv, LinksDieInTime, LinkWorksOnce

(* However many requests are served at once, a link sets one password at   *)
(* most and is dead from then on, and of two live links of one purpose the *)
(* requests overlapped (services/authToken.service.js:13-18).              *)
THEOREM LinksDie == AccountSpec => []LinksDieInTime
  <1> QED
    BY AccountInitialInv, AccountInvStep, AccountInvSuffices, PTL DEF AccountSpec

-----------------------------------------------------------------------------
(***************************************************************************)
(* BrowserSession, for any number of people, tabs and calls.               *)
(***************************************************************************)

(* Every call belongs to a tab, and a tab shows what is stored, or nothing *)
(* is stored, or the storage was written from another tab.                 *)
SessionInv ==
  /\ kept \in People \cup {Nobody}
  /\ shown \in [Tabs -> People \cup {Nobody}]
  /\ elsewhere \in [Tabs -> BOOLEAN]
  /\ \A c \in calls : c.tab \in Tabs /\ c.who \in People \cup {Nobody}
  /\ TabShowsItsUser

LEMMA BrowserInitialInv == BrowserInit => SessionInv
  BY DEF BrowserInit, SessionInv, TabShowsItsUser

(* Who writes the storage shows what it wrote; every other tab remembers.  *)
LEMMA WriterShowsIt ==
  ASSUME SessionInv, NEW t \in Tabs, NEW p \in People \cup {Nobody}, Writes(t, p),
         calls' \subseteq calls
  PROVE  SessionInv'
  BY DEF SessionInv, TabShowsItsUser, Writes

LEMMA CallStep ==
  ASSUME SessionInv, NEW t \in Tabs, NEW kind, NEW p \in People \cup {Nobody},
         Calls(t, kind, p)
  PROVE  SessionInv'
  BY DEF SessionInv, TabShowsItsUser, Calls

(* A tab on /login that meets a 401 keeps its page; nothing is stored then. *)
LEMMA UnauthorisedStep ==
  ASSUME SessionInv, NEW c \in calls, Unauthorised(c)
  PROVE  SessionInv'
  BY DEF SessionInv, TabShowsItsUser, Unauthorised

LEMMA LoadStep ==
  ASSUME SessionInv, NEW t \in Tabs, Loads(t)
  PROVE  SessionInv'
  BY DEF SessionInv, TabShowsItsUser, Loads

LEMMA BrowserInvStep ==
  ASSUME SessionInv, [BrowserNext]_browserVars
  PROVE  SessionInv'
  <1>1. ASSUME NEW t \in Tabs, SignsIn(t) PROVE SessionInv'
    BY <1>1, CallStep DEF SignsIn
  <1>2. ASSUME NEW t \in Tabs, AsksApi(t) PROVE SessionInv'
    BY <1>2, CallStep DEF AsksApi, SessionInv
  <1>3. ASSUME NEW t \in Tabs, logout(t) PROVE SessionInv'
    BY <1>3, WriterShowsIt DEF logout
  <1>4. ASSUME NEW t \in Tabs, Loads(t) PROVE SessionInv'
    BY <1>4, LoadStep
  <1>5. ASSUME NEW t \in Tabs, GoesToLogin(t) \/ ProtectedRoute(t) PROVE SessionInv'
    BY <1>5 DEF GoesToLogin, ProtectedRoute, SessionInv, TabShowsItsUser
  <1>6. ASSUME NEW c \in calls, SignedIn(c) PROVE SessionInv'
    BY <1>6, WriterShowsIt DEF SignedIn, SessionInv
  <1>7. ASSUME NEW c \in calls, Answered(c) PROVE SessionInv'
    BY <1>7 DEF Answered, SessionInv, TabShowsItsUser
  <1>8. CASE UNCHANGED browserVars
    BY <1>8 DEF browserVars, SessionInv, TabShowsItsUser
  <1> QED
    BY <1>1, <1>2, <1>3, <1>4, <1>5, <1>6, <1>7, <1>8, UnauthorisedStep DEF BrowserNext

(* Tabs of one browser: the token a call of a tab carries and the person the *)
(* tab shows (AuthContext.jsx, axios.js) differ only after another tab has  *)
(* signed somebody in or out.                                              *)
THEOREM TabsAgree == BrowserSpec => []TabShowsItsUser
  <1>1. SessionInv => TabShowsItsUser
    BY DEF SessionInv
  <1> QED
    BY <1>1, BrowserInitialInv, BrowserInvStep, PTL DEF BrowserSpec

-----------------------------------------------------------------------------
(***************************************************************************)
(* Archive, for any number of teachers, courses, students, requests and    *)
(* connections.                                                            *)
(***************************************************************************)

RowType ==
  [owner : Owners, label : Labels, by : 0 .. MaxRequests - 1, course : Courses,
   student : Students, code : Codes \ {Blank}]

By(filed, n) == {r \in filed : r.by = n}

(* A connection's request that archives. *)
Archiving(q) == q # Quiet /\ q.op = "store"

ArchiveShape ==
  /\ requests \in 0 .. MaxRequests
  /\ latest \in [Courses -> [Students -> Codes \cup {Missing}]]
  /\ call \in [Connections -> StoreRequests \cup ScreenRequests \cup {Quiet}]
  /\ archived \subseteq RowType /\ IsFiniteSet(archived)
  /\ DOMAIN told = 0 .. MaxRequests - 1
  /\ broken \subseteq Cohorts

(* A request has a name of its own, older than the next one. *)
NamesAreOwn ==
  /\ \A c \in Connections : Archiving(call[c]) => call[c].name < requests
  /\ \A c, d \in Connections :
       Archiving(call[c]) /\ Archiving(call[d]) /\ call[c].name = call[d].name => c = d
  /\ \A row \in archived : row.by < requests

(* The rows of one request are of one cohort and of different students. *)
RowsAgree ==
  \A r, q \in archived : r.by = q.by =>
    /\ r.owner = q.owner /\ r.label = q.label
    /\ r.student = q.student => r = q

(* What a request has still to insert it has not inserted, and what it has  *)
(* inserted it has counted, unless its cohort was deleted under it.        *)
Counts(q, filed, cut) ==
  /\ \A w, v \in q.todo : w.student = v.student => w = v
  /\ \A row \in filed : row.by = q.name =>
       /\ row.owner = q.who /\ row.label = q.label
       /\ \A w \in q.todo : w.student # row.student
  /\ <<q.who, q.label>> \in cut \/ Cardinality(By(filed, q.name)) = q.archived

RequestsCount == \A c \in Connections : Archiving(call[c]) => Counts(call[c], archived, broken)

(* A row is of a cohort that was cut through, of a request that still runs, *)
(* or of one that has told how many rows it has inserted.                  *)
Told(row, filed, cut, slots, answers) ==
  \/ <<row.owner, row.label>> \in cut
  \/ \E c \in Connections : Archiving(slots[c]) /\ slots[c].name = row.by
  \/ Cardinality(By(filed, row.by)) = answers[row.by]

RowsAreTold == \A row \in archived : Told(row, archived, broken, call, told)

ArchiveInv == ArchiveShape /\ NamesAreOwn /\ RowsAgree /\ RequestsCount /\ RowsAreTold

LEMMA ArchiveInitialInv == ArchiveInit => ArchiveInv
  <1> SUFFICES ASSUME ArchiveInit PROVE ArchiveInv
    OBVIOUS
  <1>1. ArchiveShape
    BY ArchiveAssumption, FS_EmptySet DEF ArchiveInit, ArchiveShape, Cohorts
  <1>2. \A c \in Connections : ~Archiving(call[c])
    BY DEF ArchiveInit, Archiving
  <1> QED
    BY <1>1, <1>2 DEF ArchiveInit, ArchiveInv, NamesAreOwn, RowsAgree, RequestsCount, RowsAreTold

(* What numbers are. *)
LEMMA ArchiveNumbers ==
  ASSUME ArchiveShape
  PROVE  /\ MaxRequests \in Nat /\ requests \in Nat /\ requests <= MaxRequests
         /\ \A row \in archived : row.by \in 0 .. MaxRequests - 1
         /\ \A c \in Connections : Archiving(call[c]) => call[c] \in StoreRequests
  BY ArchiveAssumption DEF ArchiveShape, RowType, Archiving, StoreRequests, ScreenRequests

(* Where no row comes or goes and no request begins to archive, what is    *)
(* known of rows and requests stays true.                                  *)
LEMMA RowsStay ==
  ASSUME ArchiveInv, UNCHANGED archived, broken \subseteq broken',
         requests' \in Nat, requests' >= requests,
         \A d \in Connections : Archiving(call'[d]) => call'[d] = call[d]
  PROVE  NamesAreOwn' /\ RowsAgree' /\ RequestsCount'
  <1>1. NamesAreOwn'
    BY ArchiveNumbers DEF ArchiveInv, NamesAreOwn, StoreRequests
  <1>2. RowsAgree'
    BY DEF ArchiveInv, RowsAgree
  <1>3. RequestsCount'
    BY DEF ArchiveInv, RequestsCount, Counts
  <1> QED
    BY <1>1, <1>2, <1>3

LEMMA AsideStep ==
  ASSUME ArchiveInv,
         \/ \E course \in Courses, s \in Students : Submit(course, s)
         \/ \E c \in Connections :
              ReadArchive(c) \/ \E who \in Owners, course \in Courses : ReadCurrent(c, who, course)
         \/ UNCHANGED archiveVars
  PROVE  ArchiveInv'
  <1> DEFINE Goal ==
        /\ UNCHANGED <<archived, broken, told>> /\ ArchiveShape' /\ requests' >= requests
        /\ \A d \in Connections : \/ call'[d] = call[d]
                                  \/ ~Archiving(call[d]) /\ ~Archiving(call'[d])
  <1>a. requests \in Nat /\ MaxRequests \in Nat /\ requests \in 0 .. MaxRequests
    BY ArchiveNumbers DEF ArchiveInv, ArchiveShape
  <1>1. Goal
    <2> USE DEF ArchiveShape
    <2>1. ASSUME NEW course \in Courses, NEW s \in Students, Submit(course, s) PROVE Goal
      BY <1>a, <2>1 DEF ArchiveInv, Submit
    <2>2. ASSUME NEW c \in Connections, ReadArchive(c) PROVE Goal
      BY <1>a, <2>2 DEF ArchiveInv, ReadArchive, Archiving, Closes
    <2>3. ASSUME NEW c \in Connections, NEW who \in Owners, NEW course \in Courses,
                 ReadCurrent(c, who, course)
          PROVE  Goal
      <3>1. LatestOf(course) \in SUBSET Work
        BY DEF ArchiveInv, LatestOf, Work
      <3> QED
        BY <1>a, <2>3, <3>1 DEF ArchiveInv, ReadCurrent, Opens, Archiving, ScreenRequests
    <2>4. CASE UNCHANGED archiveVars
      BY <1>a, <2>4 DEF ArchiveInv, archiveVars
    <2> QED
      BY <2>1, <2>2, <2>3, <2>4
  <1> HIDE DEF ArchiveShape
  <1>2. requests' \in Nat
    BY <1>1, ArchiveAssumption DEF ArchiveShape
  <1>3. RowsAreTold'
    BY <1>1 DEF ArchiveInv, RowsAreTold, Told
  <1> QED
    BY <1>1, <1>2, <1>3, RowsStay DEF ArchiveInv

LEMMA PostArchiveStep ==
  ASSUME ArchiveInv, NEW c \in Connections, NEW who \in Owners, NEW course \in Courses,
         PostArchive(c, who, course)
  PROVE  ArchiveInv'
  <1> PICK label \in Labels :
        Opens(c, [op |-> "store", name |-> requests, who |-> who, label |-> label, course |-> course,
                  todo |-> LatestOf(course), archived |-> 0])
    BY DEF PostArchive
  <1> DEFINE new == [op |-> "store", name |-> requests, who |-> who, label |-> label,
                     course |-> course, todo |-> LatestOf(course), archived |-> 0]
  <1>a. MaxRequests \in Nat /\ requests \in Nat
    BY ArchiveNumbers DEF ArchiveInv
  <1>1. /\ UNCHANGED <<latest, archived, broken, told>> /\ requests' = requests + 1
        /\ requests < MaxRequests
        /\ call[c] = Quiet /\ call' = [call EXCEPT ![c] = new]
    BY DEF PostArchive, Opens
  <1>2. /\ LatestOf(course) \in SUBSET Work
        /\ \A w, v \in LatestOf(course) : w.student = v.student => w = v
    BY DEF ArchiveInv, ArchiveShape, LatestOf, Work
  <1>3. new \in StoreRequests
    BY <1>a, <1>1, <1>2 DEF StoreRequests
  <1>4. /\ call'[c] = new /\ ~Archiving(call[c])
        /\ \A d \in Connections : d # c => call'[d] = call[d]
    BY <1>1 DEF ArchiveInv, ArchiveShape, Archiving
  <1>5. ArchiveShape'
    <2>1. call' \in [Connections -> StoreRequests \cup ScreenRequests \cup {Quiet}]
      BY <1>1, <1>3 DEF ArchiveInv, ArchiveShape
    <2> QED
      BY <1>a, <1>1, <2>1 DEF ArchiveInv, ArchiveShape
  <1>6. new.name = requests /\ new.archived = 0 /\ new.todo = LatestOf(course)
    OBVIOUS
  <1> HIDE DEF new
  <1>7. /\ \A row \in archived : row.by \in Int /\ row.by < requests
        /\ \A d \in Connections : Archiving(call[d]) => call[d].name \in Int /\ call[d].name < requests
    BY ArchiveNumbers DEF ArchiveInv, NamesAreOwn, StoreRequests
  <1>8. NamesAreOwn'
    <2>1. ASSUME NEW d \in Connections, Archiving(call'[d]) PROVE call'[d].name < requests'
      BY <1>a, <1>1, <1>4, <1>6, <1>7, <2>1
    <2>2. ASSUME NEW d \in Connections, NEW e \in Connections, Archiving(call'[d]),
                 Archiving(call'[e]), call'[d].name = call'[e].name
          PROVE  d = e
      BY <1>a, <1>4, <1>6, <1>7, <2>2 DEF ArchiveInv, NamesAreOwn
    <2>3. \A row \in archived' : row.by < requests'
      BY <1>a, <1>1, <1>7
    <2> QED
      BY <2>1, <2>2, <2>3 DEF NamesAreOwn
  <1>9. RowsAgree'
    BY <1>1 DEF ArchiveInv, RowsAgree
  <1>10. RequestsCount'
    <2>1. By(archived, requests) = {} /\ \A row \in archived : row.by # requests
      BY <1>a, <1>7 DEF By
    <2>2. Counts(new, archived, broken)
      BY <1>2, <1>6, <2>1, FS_EmptySet DEF Counts
    <2> QED
      BY <1>1, <1>4, <2>2 DEF ArchiveInv, RequestsCount
  <1>11. RowsAreTold'
    BY <1>1, <1>4, ZenonT(60) DEF ArchiveInv, RowsAreTold, Told
  <1> QED
    BY <1>5, <1>8, <1>9, <1>10, <1>11 DEF ArchiveInv

LEMMA AnswerArchiveStep ==
  ASSUME ArchiveInv, NEW c \in Connections, AnswerArchive(c)
  PROVE  ArchiveInv'
  <1>1. /\ Archiving(call[c]) /\ UNCHANGED <<latest, archived, requests, broken>>
        /\ told' = [told EXCEPT ![call[c].name] = call[c].archived]
        /\ call' = [call EXCEPT ![c] = Quiet]
    BY DEF AnswerArchive, Archiving, Closes
  <1>2. /\ ~Archiving(call'[c])
        /\ \A d \in Connections : d # c => call'[d] = call[d]
    BY <1>1 DEF ArchiveInv, ArchiveShape, Archiving
  <1>3. ArchiveShape'
    BY <1>1 DEF ArchiveInv, ArchiveShape
  <1>4. call[c].name \in DOMAIN told /\ Counts(call[c], archived, broken)
    BY <1>1, ArchiveNumbers DEF ArchiveInv, ArchiveShape, StoreRequests, RequestsCount
  <1>5. RowsAreTold'
    <2> SUFFICES ASSUME NEW row \in archived PROVE Told(row, archived, broken, call', told')
      BY <1>1 DEF RowsAreTold
    <2>1. CASE row.by = call[c].name
      <3>1. told'[row.by] = call[c].archived
        BY <1>1, <1>4, <2>1
      <3> QED
        BY <1>4, <2>1, <3>1 DEF Counts, Told
    <2>2. CASE row.by # call[c].name
      <3>1. told'[row.by] = told[row.by]
        BY <1>1, <2>2, ArchiveNumbers DEF ArchiveInv, ArchiveShape
      <3> QED
        BY <1>2, <2>2, <3>1 DEF ArchiveInv, RowsAreTold, Told
    <2> QED
      BY <2>1, <2>2
  <1>6. requests' \in Nat /\ requests' >= requests
    BY <1>1, ArchiveNumbers DEF ArchiveInv
  <1>7. NamesAreOwn' /\ RowsAgree' /\ RequestsCount'
    BY <1>1, <1>2, <1>6, RowsStay
  <1> QED
    BY <1>3, <1>5, <1>7 DEF ArchiveInv

LEMMA ArchiveStopsStep ==
  ASSUME ArchiveInv, NEW c \in Connections, ArchiveStops(c)
  PROVE  ArchiveInv'
  <1>1. /\ Archiving(call[c]) /\ UNCHANGED <<latest, archived, requests, told>>
        /\ broken' = broken \cup {<<call[c].who, call[c].label>>}
        /\ call' = [call EXCEPT ![c] = Quiet]
    BY DEF ArchiveStops, Archiving, Closes
  <1>2. /\ ~Archiving(call'[c])
        /\ \A d \in Connections : d # c => call'[d] = call[d]
    BY <1>1 DEF ArchiveInv, ArchiveShape, Archiving
  <1>3. <<call[c].who, call[c].label>> \in Cohorts /\ Counts(call[c], archived, broken)
    BY <1>1, ArchiveNumbers DEF ArchiveInv, StoreRequests, Cohorts, RequestsCount
  <1>4. ArchiveShape'
    BY <1>1, <1>3 DEF ArchiveInv, ArchiveShape
  <1>5. RowsAreTold'
    <2> SUFFICES ASSUME NEW row \in archived PROVE Told(row, archived, broken', call', told)
      BY <1>1 DEF RowsAreTold
    <2>1. CASE row.by = call[c].name
      BY <1>1, <1>3, <2>1 DEF Counts, Told
    <2>2. CASE row.by # call[c].name
      BY <1>1, <1>2, <2>2 DEF ArchiveInv, RowsAreTold, Told
    <2> QED
      BY <2>1, <2>2
  <1>6. requests' \in Nat /\ requests' >= requests
    BY <1>1, ArchiveNumbers DEF ArchiveInv
  <1>7. NamesAreOwn' /\ RowsAgree' /\ RequestsCount'
    BY <1>1, <1>2, <1>6, RowsStay
  <1> QED
    BY <1>4, <1>5, <1>7 DEF ArchiveInv

(* The loop takes a student's submission and counts it if it has a         *)
(* fingerprint.                                                            *)
LEMMA InsertRowStep ==
  ASSUME ArchiveInv, NEW c \in Connections, InsertRow(c)
  PROVE  ArchiveInv'
  <1> PICK w \in call[c].todo :
        /\ archived' = archived \cup {RowOf(call[c], r) : r \in Kept({w})}
        /\ call' = [call EXCEPT ![c].todo = @ \ {w},
                                ![c].archived = @ + Cardinality(Kept({w}))]
    BY DEF InsertRow
  <1> DEFINE q == call[c]
             p == call'[c]
             new == RowOf(q, w)
  <1>1. /\ Archiving(q) /\ UNCHANGED <<latest, requests, broken, told>>
        /\ q \in StoreRequests /\ w \in Work /\ Counts(q, archived, broken)
    BY ArchiveNumbers DEF InsertRow, Archiving, ArchiveInv, RequestsCount, StoreRequests
  <1>2. /\ \A d \in Connections : d # c => call'[d] = call[d]
        /\ p = [q EXCEPT !.todo = @ \ {w}, !.archived = @ + Cardinality(Kept({w}))]
    BY DEF ArchiveInv, ArchiveShape
  <1>3. /\ w.code = Blank => Kept({w}) = {} /\ Cardinality(Kept({w})) = 0
        /\ w.code # Blank => Kept({w}) = {w} /\ Cardinality(Kept({w})) = 1
    <2>1. w.code = Blank => Kept({w}) = {}
      BY DEF Kept
    <2>2. w.code # Blank => Kept({w}) = {w}
      BY DEF Kept
    <2> QED
      BY <2>1, <2>2, FS_EmptySet, FS_Singleton
  <1>4. /\ w.code = Blank => archived' = archived
        /\ w.code # Blank => archived' = archived \cup {new}
    BY <1>3
  <1>5. /\ p.op = "store" /\ p.name = q.name /\ p.who = q.who /\ p.label = q.label
        /\ p.todo = q.todo \ {w} /\ p.archived = q.archived + Cardinality(Kept({w}))
        /\ p \in StoreRequests
    <2>1. q.todo \ {w} \in SUBSET Work /\ q.archived + Cardinality(Kept({w})) \in Nat
      BY <1>1, <1>3 DEF StoreRequests
    <2>2. p = [q EXCEPT !.todo = q.todo \ {w}, !.archived = q.archived + Cardinality(Kept({w}))]
      BY <1>2
    <2> DEFINE t == q.todo \ {w}
               n == q.archived + Cardinality(Kept({w}))
    <2>3. q \in StoreRequests /\ t \in SUBSET Work /\ n \in Nat
      BY <1>1, <2>1
    <2>4. p = [q EXCEPT !.todo = t, !.archived = n]
      BY <2>2
    <2> HIDE DEF p, q, t, n
    <2>5. /\ p \in StoreRequests /\ p.op = "store" /\ p.name = q.name /\ p.who = q.who
          /\ p.label = q.label /\ p.todo = t /\ p.archived = n
      BY <2>3, <2>4 DEF StoreRequests
    <2> QED
      BY <2>5 DEF t, n
  <1>6. /\ new.by = q.name /\ new.owner = q.who /\ new.label = q.label /\ new.student = w.student
        /\ w.code # Blank => new \in RowType
    BY <1>1 DEF RowOf, RowType, StoreRequests, Work
  <1>7. ArchiveShape'
    <2>1. call' \in [Connections -> StoreRequests \cup ScreenRequests \cup {Quiet}]
      BY <1>5 DEF ArchiveInv, ArchiveShape
    <2>2. archived' \subseteq RowType /\ IsFiniteSet(archived')
      BY <1>4, <1>6, FS_AddElement DEF ArchiveInv, ArchiveShape
    <2> QED
      BY <1>1, <2>1, <2>2 DEF ArchiveInv, ArchiveShape
  <1> HIDE DEF q, p, new
  <1>8. \A row \in archived : row.by = q.name => row.student # w.student
    BY <1>1 DEF q, Counts
  <1>9. \A n : /\ n # q.name => By(archived', n) = By(archived, n)
               /\ w.code = Blank => By(archived', n) = By(archived, n)
    BY <1>4, <1>6 DEF By
  <1>10. w.code # Blank => Cardinality(By(archived', q.name)) = Cardinality(By(archived, q.name)) + 1
    <2> SUFFICES ASSUME w.code # Blank
                 PROVE  Cardinality(By(archived', q.name)) = Cardinality(By(archived, q.name)) + 1
      OBVIOUS
    <2>1. By(archived', q.name) = By(archived, q.name) \cup {new} /\ new \notin By(archived, q.name)
      BY <1>4, <1>6, <1>8 DEF By
    <2>2. IsFiniteSet(By(archived, q.name))
      BY FS_Subset DEF ArchiveInv, ArchiveShape, By
    <2> QED
      BY <2>1, <2>2, FS_AddElement
  <1>11. NamesAreOwn'
    <2>1. \A row \in archived' : row.by < requests
      BY <1>1, <1>4, <1>6 DEF ArchiveInv, NamesAreOwn, q
    <2>2. \A d \in Connections : Archiving(call'[d]) => Archiving(call[d]) /\ call'[d].name = call[d].name
      BY <1>1, <1>2, <1>5 DEF q, p
    <2> QED
      BY <1>1, <2>1, <2>2 DEF ArchiveInv, NamesAreOwn
  <1>12. RowsAgree'
    <2>1. CASE w.code = Blank
      BY <1>4, <2>1, ZenonT(60) DEF ArchiveInv, RowsAgree
    <2>2. CASE w.code # Blank
      <3>1. \A r \in archived : r.by = new.by => /\ r.owner = new.owner /\ r.label = new.label
                                                 /\ r.student # new.student
        BY <1>1, <1>6, <1>8 DEF Counts, q
      <3> QED
        BY <1>4, <2>2, <3>1 DEF ArchiveInv, RowsAgree
    <2> QED
      BY <2>1, <2>2
  <1>13. RequestsCount'
    <2> SUFFICES ASSUME NEW d \in Connections, Archiving(call'[d])
                 PROVE  Counts(call'[d], archived', broken)
      BY <1>1 DEF RequestsCount
    <2>1. CASE d = c
      <3>1. \A u, v \in p.todo : u.student = v.student => u = v
        BY <1>1, <1>5 DEF Counts, q
      <3>2. \A row \in archived' : row.by = p.name =>
              /\ row.owner = p.who /\ row.label = p.label
              /\ \A u \in p.todo : u.student # row.student
        BY <1>1, <1>4, <1>5, <1>6 DEF Counts, q
      <3>3. q.archived \in Nat
        BY <1>1 DEF StoreRequests, q
      <3>4. <<p.who, p.label>> \in broken \/ Cardinality(By(archived', p.name)) = p.archived
        <4>1. <<p.who, p.label>> \in broken \/ Cardinality(By(archived, q.name)) = q.archived
          BY <1>1, <1>5 DEF Counts, q
        <4>2. CASE w.code = Blank
          <5>1. p.archived = q.archived
            <6>1. Cardinality(Kept({w})) = 0
              BY <1>3, <4>2
            <6> QED
              BY <1>5, <3>3, <6>1
          <5>2. By(archived', p.name) = By(archived, q.name)
            BY <1>5, <1>9, <4>2
          <5> QED
            BY <1>5, <4>1, <5>1, <5>2
        <4>3. CASE w.code # Blank
          BY <1>3, <1>5, <1>10, <3>3, <4>1, <4>3
        <4> QED
          BY <4>2, <4>3
      <3> QED
        BY <2>1, <3>1, <3>2, <3>4 DEF Counts, p
    <2>2. CASE d # c
      <3>1. Archiving(call[d]) /\ call'[d] = call[d] /\ call[d].name # q.name
        BY <1>1, <1>2, <2>2 DEF ArchiveInv, NamesAreOwn, q
      <3>2. Counts(call[d], archived, broken)
        BY <3>1 DEF ArchiveInv, RequestsCount
      <3>3. By(archived', call[d].name) = By(archived, call[d].name)
        BY <1>9, <3>1
      <3>4. \A row \in archived' : row.by = call[d].name => row \in archived
        BY <1>4, <1>6, <3>1
      <3> QED
        BY <3>1, <3>2, <3>3, <3>4 DEF Counts
    <2> QED
      BY <2>1, <2>2
  <1>14. RowsAreTold'
    <2> SUFFICES ASSUME NEW row \in archived' PROVE Told(row, archived', broken, call', told)
      BY <1>1 DEF RowsAreTold
    <2>1. CASE row.by = q.name
      BY <1>5, <2>1, ArchiveAssumption DEF Told, Archiving, p
    <2>2. CASE row.by # q.name
      <3>1. row \in archived /\ By(archived', row.by) = By(archived, row.by)
        BY <1>4, <1>6, <1>9, <2>2
      <3>2. Told(row, archived, broken, call, told)
        BY <3>1 DEF ArchiveInv, RowsAreTold
      <3> QED
        BY <1>2, <2>2, <3>1, <3>2 DEF Told, q
    <2> QED
      BY <2>1, <2>2
  <1> QED
    BY <1>7, <1>11, <1>12, <1>13, <1>14 DEF ArchiveInv

(* A cohort goes whole, and no other row with it. *)
LEMMA DeleteArchiveStep ==
  ASSUME ArchiveInv, NEW who \in Owners, NEW label \in Labels, DeleteArchive(who, label)
  PROVE  ArchiveInv'
  <1> DEFINE cohort == <<who, label>>
  <1>a. MaxRequests \in Nat /\ requests \in Nat
    BY ArchiveNumbers DEF ArchiveInv
  <1>1. /\ UNCHANGED <<latest, call, told>> /\ requests' = requests + 1 /\ requests < MaxRequests
        /\ archived' = {row \in archived : <<row.owner, row.label>> # cohort}
    BY DEF DeleteArchive, Filed, OwnLabel
  <1>2. /\ broken' \subseteq Cohorts
        /\ \A k \in broken : k # cohort => k \in broken'
        /\ Storing(who, label) # {} => cohort \in broken'
    BY DEF DeleteArchive, ArchiveInv, ArchiveShape, Cohorts
  <1>3. \A c \in Connections :
          Archiving(call[c]) /\ <<call[c].who, call[c].label>> = cohort => cohort \in broken'
    BY <1>2 DEF Storing, Archiving
  <1>4. ArchiveShape'
    <2>1. IsFiniteSet(archived')
      BY <1>1, FS_Subset DEF ArchiveInv, ArchiveShape
    <2> QED
      BY <1>a, <1>1, <1>2, <2>1 DEF ArchiveInv, ArchiveShape
  <1>5. NamesAreOwn' /\ RowsAgree'
    <2>1. NamesAreOwn'
      BY <1>a, <1>1, ArchiveNumbers DEF ArchiveInv, NamesAreOwn, StoreRequests
    <2>2. RowsAgree'
      BY <1>1 DEF ArchiveInv, RowsAgree
    <2> QED
      BY <2>1, <2>2
  <1>6. RequestsCount'
    <2> SUFFICES ASSUME NEW c \in Connections, Archiving(call[c])
                 PROVE  Counts(call[c], archived', broken')
      BY <1>1 DEF RequestsCount
    <2>1. Counts(call[c], archived, broken)
      BY DEF ArchiveInv, RequestsCount
    <2>2. CASE <<call[c].who, call[c].label>> = cohort
      BY <1>1, <1>3, <2>1, <2>2 DEF Counts
    <2>3. CASE <<call[c].who, call[c].label>> # cohort
      <3>1. By(archived', call[c].name) = By(archived, call[c].name)
        BY <1>1, <2>1, <2>3 DEF By, Counts
      <3> QED
        BY <1>1, <1>2, <2>1, <2>3, <3>1 DEF Counts
    <2> QED
      BY <2>2, <2>3
  <1>7. RowsAreTold'
    <2> SUFFICES ASSUME NEW row \in archived, <<row.owner, row.label>> # cohort
                 PROVE  Told(row, archived', broken', call, told)
      BY <1>1 DEF RowsAreTold
    <2>1. By(archived', row.by) = By(archived, row.by)
      BY <1>1 DEF By, ArchiveInv, RowsAgree
    <2> QED
      BY <1>2, <2>1 DEF ArchiveInv, RowsAreTold, Told
  <1> QED
    BY <1>4, <1>5, <1>6, <1>7 DEF ArchiveInv

LEMMA ArchiveInvariance == ArchiveSpec => []ArchiveInv
  <1>1. ArchiveInv /\ [ArchiveNext]_archiveVars => ArchiveInv'
    <2> SUFFICES ASSUME ArchiveInv, [ArchiveNext]_archiveVars PROVE ArchiveInv'
      OBVIOUS
    <2> QED
      BY AsideStep, PostArchiveStep, InsertRowStep, AnswerArchiveStep, ArchiveStopsStep,
         DeleteArchiveStep DEF ArchiveNext
  <1> QED
    BY <1>1, ArchiveInitialInv, PTL DEF ArchiveSpec

(* Whatever archiving, deleting, failing and screening do to each other: the rows of one *)
(* request are of different students, and as many as it answered.          *)
THEOREM CohortsStayWhole == ArchiveSpec => []CohortsAreWhole
  <1>1. ArchiveInv => CohortsAreWhole
    <2> SUFFICES ASSUME ArchiveInv, NEW row \in archived
                 PROVE  /\ \A r, q \in By(archived, row.by) : r.student = q.student => r = q
                        /\ \/ <<row.owner, row.label>> \in broken
                           \/ \E c \in Storing(row.owner, row.label) : call[c].name = row.by
                           \/ Cardinality(By(archived, row.by)) = told[row.by]
      BY DEF CohortsAreWhole, By
    <2>1. \A r, q \in By(archived, row.by) : r.student = q.student => r = q
      BY DEF ArchiveInv, RowsAgree, By
    <2>2. \A c \in Connections : Archiving(call[c]) /\ call[c].name = row.by =>
            c \in Storing(row.owner, row.label)
      BY DEF ArchiveInv, RequestsCount, Counts, Storing, Archiving
    <2> QED
      BY <2>1, <2>2 DEF ArchiveInv, RowsAreTold, Told
  <1> QED
    BY <1>1, ArchiveInvariance, PTL

-----------------------------------------------------------------------------
(***************************************************************************)
(* The types of all five, side by side.                                    *)
(***************************************************************************)

RunsInv == runs \in [Runners -> 0 .. MaxRuns]

LEMMA RunsStep == ASSUME RunsInv, [MigrationNext]_migrationVars PROVE RunsInv'
  <1> USE DEF RunsInv
  <1>1. ASSUME NEW m \in Runners, Starts(m) PROVE RunsInv'
    BY <1>1, FilesAssumption DEF Starts
  <1>2. ASSUME NEW m \in Runners,
               \/ LooksForUsers(m) \/ bootstrapSchema(m) \/ appliedSet(m) \/ Applies(m) \/ RunnerDies(m)
        PROVE  RunsInv'
    BY <1>2 DEF LooksForUsers, bootstrapSchema, appliedSet, Applies, RunnerDies
  <1>3. CASE Registers \/ UNCHANGED migrationVars
    BY <1>3 DEF Registers, migrationVars
  <1> QED
    BY <1>1, <1>2, <1>3 DEF MigrationNext

LEMMA MigrationTyping == MigrationSpec => []MigrationTypeOK
  <1>1. MigrationInit => RunsInv
    BY FilesAssumption DEF MigrationInit, RunsInv
  <1>2. MigrationInv /\ RunsInv => MigrationTypeOK
    <2> SUFFICES ASSUME MigrationInv, RunsInv PROVE MigrationTypeOK
      OBVIOUS
    <2>1. recorded \subseteq All /\ effect \in [All -> Nat]
      BY FilesAssumption DEF MigrationInv, LevelInv, All
    <2>2. installed \in BOOLEAN /\ rows \in BOOLEAN /\ together \in BOOLEAN /\ lost \in BOOLEAN
      BY DEF MigrationInv, TwinInv
    <2> QED
      BY <2>1, <2>2 DEF MigrationInv, HandInv, RunsInv, MigrationTypeOK, Stages
  <1> QED
    BY <1>1, <1>2, MigrationInitialInv, MigrationInvStep, RunsStep, PTL DEF MigrationSpec

(* What a request of the account's is for, and that a link is sent and      *)
(* delivered only after it was issued.                                     *)
Purposeful(q, n) ==
  /\ q.does = "register" => q.for \in {"student", "teacher"}
  /\ q.does = "issue" => q.for \in Purposes
  /\ q.does = "issue" /\ q.at = "send" => q.token \in 1 .. n

PurposeInv ==
  /\ role \in {"none", "student", "teacher"}
  /\ verified \in BOOLEAN /\ signedIn \in BOOLEAN
  /\ purpose \in [Tokens -> Purposes]
  /\ expired \subseteq 1 .. issued /\ inbox \subseteq 1 .. issued
  /\ \A h \in Handlers : request[h] # Free => Purposeful(request[h], issued)

LEMMA PurposeStep ==
  ASSUME LinkTypeInv, PurposeInv, [AccountNext]_accountVars
  PROVE  PurposeInv'
  <1> USE DEF LinkTypeInv, PurposeInv
  <1>a. MaxTokens \in Nat /\ issued \in Nat
    BY AccountsAssumption
  <1>1. ASSUME NEW h \in Handlers, RegisterChecks(h) PROVE PurposeInv'
    <2>1. PICK pw \in Passwords, invite \in {"", TeacherCode, "guess"} :
            /\ resolveRole(invite) # "refused"
            /\ Begins(h, "register", "insert", resolveRole(invite), pw, 0)
      BY <1>1 DEF RegisterChecks
    <2>2. resolveRole(invite) \in {"student", "teacher"}
      BY <2>1 DEF resolveRole
    <2> QED
      BY <1>1, <2>1, <2>2 DEF RegisterChecks, Begins, Purposeful, usersRow, tokenRows
  <1>2. ASSUME NEW h \in Handlers, RegisterInserts(h) PROVE PurposeInv'
    <2>1. role' \in {"none", "student", "teacher"} /\ signedIn' \in BOOLEAN /\ verified' \in BOOLEAN
      BY <1>2 DEF RegisterInserts, Does, Purposeful, usersRow
    <2> QED
      BY <1>2, <2>1 DEF RegisterInserts, Begins, Ends, Purposeful, Purposes, tokenRows
  <1>3. ASSUME NEW h \in Handlers, ForgotPassword(h) \/ ResendVerification(h) PROVE PurposeInv'
    <2>1. /\ UNCHANGED <<role, password, verified, issued, purpose, live, expired, inbox, signedIn>>
          /\ \E p \in Purposes : Begins(h, "issue", "supersede", p, password, 0)
      BY <1>3 DEF ForgotPassword, ResendVerification, Purposes, usersRow, tokenRows
    <2>2. PICK p \in Purposes : Begins(h, "issue", "supersede", p, password, 0)
      BY <2>1
    <2>3. \A g \in Handlers : request'[g] # Free => Purposeful(request'[g], issued)
      BY <2>2 DEF Begins, Purposeful
    <2> QED
      BY <2>1, <2>3
  <1>4. ASSUME NEW h \in Handlers, IssueSupersedes(h) PROVE PurposeInv'
    BY <1>4 DEF IssueSupersedes, Does, Purposeful, usersRow
  <1>5. ASSUME NEW h \in Handlers, IssueInserts(h) PROVE PurposeInv'
    <2>1. /\ issued' = issued + 1 /\ issued + 1 \in Tokens
          /\ request[h] # Free /\ request[h] \in Jobs /\ request[h].for \in Purposes
      BY <1>a, <1>5 DEF IssueInserts, Does, Purposeful, Tokens
    <2>2. purpose' \in [Tokens -> Purposes]
      BY <1>5, <2>1 DEF IssueInserts
    <2>3. expired' \subseteq 1 .. issued' /\ inbox' \subseteq 1 .. issued'
      BY <1>a, <1>5, <2>1 DEF IssueInserts
    <2>4. ASSUME NEW g \in Handlers, request'[g] # Free PROVE Purposeful(request'[g], issued')
      <3>1. CASE g = h
        <4>1. request'[g] = [request[h] EXCEPT !.at = "send", !.token = issued + 1]
          BY <1>5, <3>1 DEF IssueInserts
        <4>2. request'[g].does = request[h].does /\ request'[g].for = request[h].for
              /\ request'[g].token = issued + 1 /\ request[h].does = "issue"
          BY <1>5, <2>1, <4>1 DEF Jobs, IssueInserts, Does
        <4> QED
          BY <1>a, <2>1, <3>1, <4>2 DEF Purposeful
      <3>2. CASE g # h /\ ~Does(g, "issue", "insert")
        <4>1. request'[g] = request[g]
          BY <1>5, <3>2 DEF IssueInserts
        <4>2. Purposeful(request[g], issued)
          BY <2>4, <4>1
        <4> QED
          BY <1>a, <2>1, <4>1, <4>2 DEF Purposeful
      <3>3. CASE g # h /\ Does(g, "issue", "insert")
        <4>1. request'[g] = [request[g] EXCEPT !.since = @ \cup {issued + 1}]
          BY <1>5, <3>3 DEF IssueInserts
        <4>2. request[g] # Free /\ request[g] \in Jobs
          BY <3>3 DEF Does
        <4>3. request'[g].does = "issue" /\ request'[g].for = request[g].for
              /\ request'[g].at = "insert"
          BY <3>3, <4>1, <4>2 DEF Jobs, Does
        <4>4. Purposeful(request[g], issued) /\ request[g].does = "issue"
          BY <3>3, <4>2 DEF Does
        <4> QED
          BY <4>3, <4>4 DEF Purposeful
      <3> QED
        BY <3>1, <3>2, <3>3
    <2> QED
      BY <1>5, <2>2, <2>3, <2>4 DEF IssueInserts, usersRow
  <1>6. ASSUME NEW h \in Handlers, IssueSends(h) PROVE PurposeInv'
    <2>1. inbox' \subseteq 1 .. issued
      BY <1>6 DEF IssueSends, Does, Purposeful
    <2> QED
      BY <1>6, <2>1 DEF IssueSends, Ends, Purposeful, usersRow, tokenRows
  <1>7. ASSUME NEW h \in Handlers, ResetRedeems(h) \/ VerifyRedeems(h) PROVE PurposeInv'
    <2>1. /\ UNCHANGED <<role, password, verified, issued, purpose, expired, inbox, signedIn>>
          /\ \E what \in {"reset", "verify"}, t \in inbox, pw \in Passwords, p \in Purposes :
               Begins(h, what, "store", p, pw, t)
      BY <1>7 DEF ResetRedeems, VerifyRedeems, Redeem, Purposes, usersRow
    <2>2. \A g \in Handlers : request'[g] # Free => Purposeful(request'[g], issued)
      BY <2>1 DEF Begins, Purposeful
    <2> QED
      BY <2>1, <2>2
  <1>8. ASSUME NEW h \in Handlers, ResetStores(h) PROVE PurposeInv'
    <2>1. UNCHANGED <<role, verified, issued, purpose, live, expired, inbox, signedIn>>
      BY <1>8 DEF ResetStores, tokenRows
    <2>2. request[h] \in Jobs /\ request[h].does = "reset"
      BY <1>8 DEF ResetStores, Does
    <2>3. \A g \in Handlers : g # h => request'[g] = request[g]
      BY <1>8 DEF ResetStores, Ends
    <2>4. request'[h] = Free \/ request'[h].does = "reset"
      BY <1>8, <2>2 DEF ResetStores, Ends, Jobs
    <2> QED
      BY <2>1, <2>3, <2>4 DEF Purposeful
  <1>9. ASSUME NEW h \in Handlers, Confirms(h) PROVE PurposeInv'
    <2>1. verified' \in BOOLEAN
      BY <1>9 DEF Confirms
    <2> QED
      BY <1>9, <2>1 DEF Confirms, Ends, Purposeful, tokenRows
  <1>10. ASSUME NEW h \in Handlers, Throws(h) PROVE PurposeInv'
    BY <1>10 DEF Throws, Ends, Purposeful, usersRow, tokenRows
  <1>11. CASE Login
    <2>1. signedIn' \in BOOLEAN
      BY <1>11 DEF Login
    <2> QED
      BY <1>11, <2>1 DEF Login, Purposeful, usersRow, tokenRows
  <1>12. CASE Expires
    BY <1>12 DEF Expires, Purposeful, usersRow
  <1>13. CASE UNCHANGED accountVars
    BY <1>13 DEF accountVars, Purposeful, usersRow, tokenRows
  <1> QED
    BY <1>1, <1>2, <1>3, <1>4, <1>5, <1>6, <1>7, <1>8, <1>9, <1>10, <1>11, <1>12, <1>13
       DEF AccountNext

LEMMA AccountTyping == AccountSpec => []AccountTypeOK
  <1>1. AccountInit => PurposeInv
    BY AccountsAssumption DEF AccountInit, PurposeInv, Purposes
  <1>2. AccountInv /\ PurposeInv => AccountTypeOK
    BY DEF AccountInv, LinkTypeInv, PurposeInv, AccountTypeOK
  <1>3. AccountInv /\ PurposeInv /\ [AccountNext]_accountVars => PurposeInv'
    BY PurposeStep DEF AccountInv
  <1> QED
    BY <1>1, <1>2, <1>3, AccountInitialInv, AccountInvStep, PTL DEF AccountSpec

(* A tab inside shows somebody, and only people sign in. *)
RouteInv ==
  /\ route \in [Tabs -> {"login", "inside"}] /\ made \in 0 .. MaxCalls
  /\ \A t \in Tabs : route[t] = "inside" => shown[t] # Nobody
  /\ \A c \in calls : c.kind = "login" => c.who \in People

LEMMA RouteStep ==
  ASSUME SessionInv, RouteInv, [BrowserNext]_browserVars
  PROVE  RouteInv'
  <1> USE DEF SessionInv, RouteInv
  <1>1. ASSUME NEW t \in Tabs, NEW kind, NEW who, Calls(t, kind, who), kind = "login" => who \in People
        PROVE  RouteInv'
    BY <1>1, BrowserAssumption DEF Calls
  <1>2. ASSUME NEW t \in Tabs, logout(t) \/ Loads(t) \/ GoesToLogin(t) \/ ProtectedRoute(t)
        PROVE  RouteInv'
    BY <1>2 DEF logout, Writes, Loads, GoesToLogin, ProtectedRoute
  <1>3. ASSUME NEW c \in calls, SignedIn(c) \/ Unauthorised(c) \/ Answered(c) PROVE RouteInv'
    BY <1>3, BrowserAssumption DEF SignedIn, Writes, Unauthorised, Answered
  <1>4. CASE UNCHANGED browserVars
    BY <1>4 DEF browserVars
  <1> QED
    BY <1>1, <1>2, <1>3, <1>4 DEF BrowserNext, SignsIn, AsksApi

LEMMA BrowserTyping == BrowserSpec => []BrowserTypeOK
  <1>1. BrowserInit => RouteInv
    BY BrowserAssumption DEF BrowserInit, RouteInv
  <1>2. SessionInv /\ RouteInv => BrowserTypeOK
    BY DEF SessionInv, RouteInv, BrowserTypeOK
  <1> QED
    BY <1>1, <1>2, RouteStep, BrowserInitialInv, BrowserInvStep, PTL DEF BrowserSpec

LEMMA ArchiveTyping == ArchiveSpec => []ArchiveTypeOK
  <1>1. ArchiveInv => ArchiveTypeOK
    <2> SUFFICES ASSUME ArchiveInv PROVE ArchiveTypeOK
      OBVIOUS
    <2>1. \A row \in archived : /\ <<row.owner, row.label>> \in Cohorts /\ row.by \in 0 .. requests
                                /\ row.course \in Courses /\ row.student \in Students
                                /\ row.code \in Codes \ {Blank}
      BY ArchiveNumbers DEF ArchiveInv, ArchiveShape, NamesAreOwn, RowType, Cohorts
    <2> QED
      BY <2>1 DEF ArchiveInv, ArchiveShape, ArchiveTypeOK
  <1> QED
    BY <1>1, ArchiveInvariance, PTL

(* Side by side each of the five behaves as it does alone. *)
LEMMA PartsAreThemselves ==
  OperationsSpec => Spec /\ MigrationSpec /\ AccountSpec /\ BrowserSpec /\ ArchiveSpec
  <1>1. OperationsInit => Init /\ MigrationInit /\ AccountInit /\ BrowserInit /\ ArchiveInit
    BY DEF OperationsInit
  <1>2. [OperationsNext]_<<part, vars, others>> =>
          /\ [Next]_vars /\ [MigrationNext]_migrationVars /\ [AccountNext]_accountVars
          /\ [BrowserNext]_browserVars /\ [ArchiveNext]_archiveVars
    BY DEF OperationsNext, others
  <1> QED
    BY <1>1, <1>2, PTL DEF OperationsSpec, Spec, MigrationSpec, AccountSpec, BrowserSpec, ArchiveSpec

(* The pool, the migrations, the accounts, the browser and the archive keep *)
(* the types of all their variables.                                       *)
THEOREM OperationsTyping == OperationsSpec => []OperationsTypeOK
  <1>1. PoolInv => TypeOK
    BY DEF PoolInv
  <1> QED
    BY <1>1, PartsAreThemselves, PoolInvariance, MigrationTyping, AccountTyping, BrowserTyping,
       ArchiveTyping, PTL DEF OperationsTypeOK
=============================================================================
