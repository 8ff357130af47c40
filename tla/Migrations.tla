----------------------------- MODULE Migrations -----------------------------
(* scripts/migrate.js with several runners at once, over the database that
   db/schema.sql and migrations/ describe.

   Files are numbered in the order their names sort.  schema.sql is sent as one
   query, which PostgreSQL runs as one transaction; so is each migration with
   its row of schema_migrations.  The locks that DDL holds until COMMIT make the
   second of two runners with the same file wait and then meet the first one's
   row, whose filename is the primary key. *)
EXTENDS Naturals, FiniteSets

CONSTANTS
  Runners,   \* processes running "npm run migrate"
  Files,     \* how many migrations are shipped
  MaxRuns    \* bound: how often a runner is started

ASSUME FilesAssumption == Files \in Nat /\ MaxRuns \in Nat

VARIABLES
  installed,  \* public.users exists
  recorded,   \* schema_migrations
  effect,     \* history: how often each file's change is in the schema
  rows,       \* the tables hold accounts
  stage,      \* where each runner is
  pending,    \* the files a runner found missing, as a set of numbers
  runs,       \* bound
  together,   \* history: two runners have both found the same database empty
  lost        \* history: tables that held accounts were dropped

migrationVars == <<installed, recorded, effect, rows, stage, pending, runs, together, lost>>

All == 1..Files

(* A database nobody has installed, or one left by an earlier release. *)
MigrationInit ==
  /\ installed \in BOOLEAN
  /\ \E k \in 0..Files :
       /\ ~installed => k = 0
       /\ recorded = 1..k
       /\ effect = [f \in All |-> IF f =< k THEN 1 ELSE 0]
  /\ rows = installed
  /\ stage = [m \in Runners |-> "off"] /\ pending = [m \in Runners |-> {}]
  /\ runs = [m \in Runners |-> 0] /\ together = FALSE /\ lost = FALSE

Starts(m) ==
  /\ stage[m] \in {"off", "done", "failed"} /\ runs[m] < MaxRuns
  /\ runs' = [runs EXCEPT ![m] = @ + 1]
  /\ stage' = [stage EXCEPT ![m] = "look"]
  /\ UNCHANGED <<installed, recorded, effect, rows, pending, together, lost>>

(* Mutant: no migration recorded. *)
NothingRecorded == recorded = {}

isEmptyDatabase == ~installed

LooksForUsers(m) ==
  /\ stage[m] = "look"
  /\ stage' = [stage EXCEPT ![m] = IF isEmptyDatabase THEN "bootstrap" ELSE "read"]
  /\ together' = (together \/ (isEmptyDatabase /\ \E n \in Runners \ {m} : stage[n] = "bootstrap"))
  /\ UNCHANGED <<installed, recorded, effect, rows, pending, runs, lost>>

(* schema.sql drops every table there is, creates them all and records every
   shipped file. *)
bootstrapSchema(m) ==
  /\ stage[m] = "bootstrap"
  /\ installed' = TRUE
  /\ recorded' = All
  /\ effect' = [f \in All |-> 1]
  /\ rows' = FALSE
  /\ lost' = (lost \/ rows)
  /\ stage' = [stage EXCEPT ![m] = "read"]
  /\ UNCHANGED <<pending, runs, together>>

(* CREATE TABLE IF NOT EXISTS schema_migrations, then what it holds. *)
appliedSet(m) ==
  /\ stage[m] = "read"
  /\ pending' = [pending EXCEPT ![m] = All \ recorded]
  /\ stage' = [stage EXCEPT ![m] = IF All \ recorded = {} THEN "done" ELSE "apply"]
  /\ UNCHANGED <<installed, recorded, effect, rows, runs, together, lost>>

Earliest(fs) == CHOOSE f \in fs : \A g \in fs : f =< g

(* The change and its row commit together; a row that is already there undoes
   both and ends the run. *)
Applies(m) ==
  /\ stage[m] = "apply"
  /\ LET f == Earliest(pending[m])
     IN  IF f \in recorded
         THEN /\ stage' = [stage EXCEPT ![m] = "failed"]
              /\ UNCHANGED <<recorded, effect, pending>>
         ELSE /\ recorded' = recorded \cup {f}
              /\ effect' = [effect EXCEPT ![f] = @ + 1]
              /\ pending' = [pending EXCEPT ![m] = @ \ {f}]
              /\ stage' = [stage EXCEPT ![m] = IF pending[m] = {f} THEN "done" ELSE "apply"]
  /\ UNCHANGED <<installed, rows, runs, together, lost>>

(* A runner is killed, or a statement fails: what has committed stays. *)
RunnerDies(m) ==
  /\ stage[m] \in {"look", "bootstrap", "read", "apply"}
  /\ stage' = [stage EXCEPT ![m] = "failed"]
  /\ UNCHANGED <<installed, recorded, effect, rows, pending, runs, together, lost>>

(* The API runs meanwhile: somebody registers. *)
Registers ==
  /\ installed /\ ~rows
  /\ rows' = TRUE
  /\ UNCHANGED <<installed, recorded, effect, stage, pending, runs, together, lost>>

MigrationNext ==
  \/ \E m \in Runners : \/ Starts(m) \/ LooksForUsers(m) \/ bootstrapSchema(m)
                        \/ appliedSet(m) \/ Applies(m) \/ RunnerDies(m)
  \/ Registers

MigrationSpec == MigrationInit /\ [][MigrationNext]_migrationVars

-----------------------------------------------------------------------------
MigrationTypeOK ==
  /\ installed \in BOOLEAN /\ rows \in BOOLEAN /\ together \in BOOLEAN /\ lost \in BOOLEAN
  /\ recorded \subseteq All /\ effect \in [All -> Nat]
  /\ stage \in [Runners -> {"off", "look", "bootstrap", "read", "apply", "done", "failed"}]
  /\ pending \in [Runners -> SUBSET All] /\ runs \in [Runners -> 0..MaxRuns]

(* Every migration is in the schema once or not at all, exactly when it is
   recorded, and none before the ones it builds on: two runners and a kill
   between any two statements included (migrate.js:109-110). *)
AppliedOnceInOrder ==
  /\ \A f \in All : effect[f] = IF f \in recorded THEN 1 ELSE 0
  /\ \A f \in recorded : 1..f \subseteq recorded

(* The bootstrap drops tables that hold accounts (migrate.js:50-54 says never)
   only where two runners had both found the same database empty. *)
OnlyTwinsDropData == lost => together

(* Migrating neither repeats nor skips a file nor costs an installation its data. *)
MigrationsKeepData == AppliedOnceInOrder /\ OnlyTwinsDropData
=============================================================================
