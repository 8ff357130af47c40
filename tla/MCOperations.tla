---------------------------- MODULE MCOperations ----------------------------
(* WorkerPool and small instances of Migrations, Accounts, BrowserSession and
   Archive, side by side: a behaviour is one of the five modules', the others
   stay as they start.  Only the pool's steps are fair. *)
EXTENDS WorkerPool, Migrations, Accounts, BrowserSession, Archive

VARIABLE part

others == <<migrationVars, accountVars, browserVars, archiveVars>>

OperationsInit ==
  /\ part \in {"pool", "migrations", "accounts", "browser", "archive"}
  /\ Init /\ MigrationInit /\ AccountInit /\ BrowserInit /\ ArchiveInit
  /\ part # "migrations" => ~installed

OperationsNext ==
  /\ UNCHANGED part
  /\ \/ part = "pool" /\ Next /\ UNCHANGED others
     \/ /\ part = "migrations" /\ MigrationNext
        /\ UNCHANGED <<vars, accountVars, browserVars, archiveVars>>
     \/ /\ part = "accounts" /\ AccountNext
        /\ UNCHANGED <<vars, migrationVars, browserVars, archiveVars>>
     \/ /\ part = "browser" /\ BrowserNext
        /\ UNCHANGED <<vars, migrationVars, accountVars, archiveVars>>
     \/ /\ part = "archive" /\ ArchiveNext
        /\ UNCHANGED <<vars, migrationVars, accountVars, browserVars>>

OperationsSpec ==
  /\ OperationsInit /\ [][OperationsNext]_<<part, vars, others>>
  /\ WF_vars(part = "pool" /\ ExitEvent /\ dead' < dead /\ UNCHANGED <<part, others>>)

(* Every variable of the five has its type. *)
OperationsTypeOK ==
  TypeOK /\ MigrationTypeOK /\ AccountTypeOK /\ BrowserTypeOK /\ ArchiveTypeOK
=============================================================================
