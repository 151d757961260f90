------------------------------- MODULE Migrator -------------------------------
(***************************************************************************)
(* Runs of the migrator (app/migrator) against one database: they create   *)
(* it, migrate it under goose's advisory lock, and provision the role that *)
(* the servers connect as.  Several run at once, as the init containers of *)
(* the tasks of a deployment do, each with the migrations of its image.    *)
(*                                                                         *)
(* A statement that changes a row of a system catalog reads the row and    *)
(* writes it back: PostgreSQL refuses the write ("tuple concurrently       *)
(* updated") if another statement wrote the row in between.  Such a        *)
(* statement is two steps here; any other is one.  The flags and variables *)
(* of a run are valid: a run whose are not ends before its first step.     *)
(***************************************************************************)
EXTENDS Integers, FiniteSets

CONSTANTS
  Instance,    \* the tasks of the deployment, each with one migrator run at a time
  NoOne,
  MaxVersion,  \* the newest migration of any image
  MaxTries,    \* maxPasswordSyncAttempts, 5 in the code
  MaxRuns      \* bound of the runs

ASSUME MigratorAssumption ==
  /\ NoOne \notin Instance
  /\ MaxVersion \in Nat \ {0} /\ MaxTries \in Nat \ {0} /\ MaxRuns \in Nat

VARIABLES
  database,   \* whether the target database exists
  role,       \* the application's role: "absent", "created", or "synced", with its password
  acl,        \* the privileges in force: "public" is PUBLIC's CONNECT, the others are the role's
  version,    \* the migrations applied are 1..version
  granted,    \* the migrations whose tables the role may use
  lock,       \* who holds goose's advisory lock
  mig,        \* the run of each instance
  scoped,     \* whether APP_DB_USER and APP_DB_PASSWORD are set
  runs,       \* number of runs started
  rolledBack  \* history: whether a run has taken a migration back

catalog == <<database, role, acl, version, granted>>
migVars == <<catalog, lock, mig, scoped, runs, rolledBack>>

Version == 1..MaxVersion
Command == {"up", "down", "status"}
Privilege == {"public", "connect", "usage", "defaults"}

\* The catalog row that a statement of the provisioning updates, and the
\* step that follows it.
RowOf == [password |-> "pg_authid", revoke |-> "pg_database",
          connect |-> "pg_database", usage |-> "pg_namespace",
          tables |-> "pg_class", defaults |-> "pg_default_acl"]

After == [password |-> "revoke", revoke |-> "connect", connect |-> "usage",
          usage |-> "tables", tables |-> "defaults", defaults |-> "done"]

Grants == DOMAIN RowOf \ {"password"}

Step == {"idle", "find", "create", "lock", "migrate", "findrole", "createrole",
         "done", "failed"} \cup DOMAIN RowOf

\* "seen" is what a statement has read: for the tables, the migrations they
\* come from.  "cause" says at which step a run lost a race, or that
\* something outside it failed.
Run == [step : Step, cmd : Command, image : Version, tries : 0..MaxTries,
        busy : BOOLEAN, stale : BOOLEAN, seen : 0..MaxVersion,
        cause : Step \cup {"none", "outage"}]

NoRun == [step |-> "idle", cmd |-> "up", image |-> 1, tries |-> 0, busy |-> FALSE,
          stale |-> FALSE, seen |-> 0, cause |-> "none"]

MigInit ==
  /\ database = FALSE /\ role = "absent" /\ acl = {} /\ version = 0 /\ granted = {}
  /\ lock = NoOne
  /\ mig = [i \in Instance |-> NoRun]
  /\ scoped \in BOOLEAN
  /\ runs = 0
  /\ rolledBack = FALSE

Go(i, step) == mig' = [mig EXCEPT ![i].step = step]
Ends(i, why) ==
  mig' = [mig EXCEPT ![i] = [NoRun EXCEPT !.step = "failed", !.cause = why,
                                          !.image = mig[i].image, !.tries = mig[i].tries]]

Running(i) == mig[i].step \notin {"idle", "done", "failed"}

-----------------------------------------------------------------------------
(* The database: ensureDatabase. *)

\* A task starts, or an operator runs a command.
StartRun(i, cmd, image) ==
  /\ ~Running(i) /\ runs < MaxRuns
  /\ mig' = [mig EXCEPT ![i] = [NoRun EXCEPT !.step = "find", !.cmd = cmd, !.image = image]]
  /\ runs' = runs + 1
  /\ UNCHANGED <<catalog, lock, scoped, rolledBack>>

FindDatabase(i) ==
  /\ mig[i].step = "find"
  /\ Go(i, IF database THEN "lock" ELSE "create")
  /\ UNCHANGED <<catalog, lock, scoped, runs, rolledBack>>

BadDuplicateFails(i) ==
  /\ mig[i].step = "create"
  /\ IF database THEN Ends(i, "create") ELSE Go(i, "lock")
  /\ database' = TRUE
  /\ acl' = IF database THEN acl ELSE {"public"}
  /\ UNCHANGED <<role, version, granted, lock, scoped, runs, rolledBack>>

\* A database that another run has created meanwhile is as good: the error
\* says so, or a second look does.
CreateDatabase(i) ==
  /\ mig[i].step = "create"
  /\ Go(i, "lock")
  /\ database' = TRUE
  /\ acl' = IF database THEN acl ELSE {"public"}
  /\ UNCHANGED <<role, version, granted, lock, scoped, runs, rolledBack>>

-----------------------------------------------------------------------------
(* The migrations: Runner.Run. *)

TakeLock(i) ==
  /\ mig[i].step = "lock" /\ lock = NoOne
  /\ lock' = i
  /\ Go(i, "migrate")
  /\ UNCHANGED <<catalog, scoped, runs, rolledBack>>

\* One migration, in its transaction.  The default privileges, if they are
\* set, give its tables to the role.
Migrate(i) ==
  /\ mig[i].step = "migrate" /\ mig[i].cmd = "up"
  /\ version < mig[i].image
  /\ version' = version + 1
  /\ granted' = IF "defaults" \in acl THEN granted \cup {version + 1} ELSE granted
  /\ UNCHANGED <<database, role, acl, lock, mig, scoped, runs, rolledBack>>

BadRollBack(i) ==
  /\ mig[i].step = "migrate" /\ mig[i].cmd = "down"
  /\ version' = version - 1
  /\ granted' = granted \ {version}
  /\ lock' = NoOne
  /\ rolledBack' = TRUE
  /\ Go(i, "done")
  /\ UNCHANGED <<database, role, acl, scoped, runs>>

\* Down takes the newest migration back; goose refuses one it has no file of.
RollBack(i) ==
  /\ mig[i].step = "migrate" /\ mig[i].cmd = "down"
  /\ version \in 1..mig[i].image
  /\ version' = version - 1
  /\ granted' = granted \ {version}
  /\ lock' = NoOne
  /\ rolledBack' = TRUE
  /\ Go(i, "done")
  /\ UNCHANGED <<database, role, acl, scoped, runs>>

\* Nothing is left to do, or nothing was asked; after "up" comes the role.
EndGoose(i) ==
  /\ mig[i].step = "migrate"
  /\ CASE mig[i].cmd = "up" -> version >= mig[i].image
       [] mig[i].cmd = "down" -> version = 0
       [] OTHER -> TRUE
  /\ lock' = NoOne
  /\ Go(i, IF mig[i].cmd = "up" /\ scoped THEN "findrole" ELSE "done")
  /\ UNCHANGED <<catalog, scoped, runs, rolledBack>>

-----------------------------------------------------------------------------
(* The role: EnsureAppRole. *)

BadFindRole(i) ==
  /\ mig[i].step = "findrole"
  /\ Go(i, IF role = "absent" THEN "createrole" ELSE "done")
  /\ UNCHANGED <<catalog, lock, scoped, runs, rolledBack>>

FindRole(i) ==
  /\ mig[i].step = "findrole"
  /\ Go(i, IF role = "absent" THEN "createrole" ELSE "password")
  /\ UNCHANGED <<catalog, lock, scoped, runs, rolledBack>>

CreateRole(i) ==
  /\ mig[i].step = "createrole"
  /\ Go(i, "password")
  /\ role' = IF role = "absent" THEN "created" ELSE role
  /\ UNCHANGED <<database, acl, version, granted, lock, scoped, runs, rolledBack>>

\* A statement on a catalog row reads it ...
ReadRow(i) ==
  /\ mig[i].step \in DOMAIN RowOf /\ ~mig[i].busy
  /\ mig' = [mig EXCEPT ![i].busy = TRUE, ![i].seen = version]
  /\ UNCHANGED <<catalog, lock, scoped, runs, rolledBack>>

\* ... and writes it: what others have read of it is stale now.
WriteRow(i) ==
  LET s == mig[i].step IN
  /\ s \in DOMAIN RowOf /\ mig[i].busy /\ ~mig[i].stale
  /\ role' = IF s = "password" THEN "synced" ELSE role
  /\ acl' = CASE s = "revoke" -> acl \ {"public"}
              [] s \in {"connect", "usage", "defaults"} -> acl \cup {s}
              [] OTHER -> acl
  /\ granted' = IF s = "tables" THEN granted \cup 1..mig[i].seen ELSE granted
  /\ mig' = [j \in Instance |->
               IF j = i THEN [mig[i] EXCEPT !.step = After[s], !.busy = FALSE,
                                             !.tries = 0, !.seen = 0]
               ELSE [mig[j] EXCEPT !.stale = @ \/ (/\ mig[j].busy
                                                  /\ RowOf[mig[j].step] = RowOf[s])]]
  /\ UNCHANGED <<database, version, lock, scoped, runs, rolledBack>>

\* The password is tried again, a few times; a grant is not.
RetryPassword(i) ==
  /\ mig[i].step = "password" /\ mig[i].busy /\ mig[i].stale
  /\ mig[i].tries + 1 < MaxTries
  /\ mig' = [mig EXCEPT ![i].tries = @ + 1, ![i].busy = FALSE, ![i].stale = FALSE]
  /\ UNCHANGED <<catalog, lock, scoped, runs, rolledBack>>

LoseRow(i) ==
  /\ mig[i].step \in DOMAIN RowOf /\ mig[i].busy /\ mig[i].stale
  /\ mig[i].step = "password" => mig[i].tries + 1 >= MaxTries
  /\ Ends(i, mig[i].step)
  /\ UNCHANGED <<catalog, lock, scoped, runs, rolledBack>>

\* The server, the network or a signal ends a run, or MIGRATOR_TIMEOUT does,
\* or goose finds a migration it has no file of; the lock goes with the
\* session.
FailRun(i) ==
  /\ Running(i)
  /\ Ends(i, "outage")
  /\ lock' = IF lock = i THEN NoOne ELSE lock
  /\ UNCHANGED <<catalog, scoped, runs, rolledBack>>

MigStep(i) ==
  \/ FindDatabase(i) \/ CreateDatabase(i)
  \/ TakeLock(i) \/ Migrate(i) \/ RollBack(i) \/ EndGoose(i)
  \/ FindRole(i) \/ CreateRole(i)
  \/ ReadRow(i) \/ WriteRow(i) \/ RetryPassword(i) \/ LoseRow(i)

-----------------------------------------------------------------------------
(* Correctness. *)

MigTypeOK ==
  /\ database \in BOOLEAN /\ role \in {"absent", "created", "synced"}
  /\ acl \subseteq Privilege
  /\ version \in 0..MaxVersion /\ granted \subseteq Version
  /\ lock \in Instance \cup {NoOne}
  /\ mig \in [Instance -> Run]
  /\ scoped \in BOOLEAN /\ runs \in 0..MaxRuns /\ rolledBack \in BOOLEAN

\* Bootstrapping survives every race, as the comments of ensureDatabase and
\* ensureRole ask: a run that lost one has lost it at a grant, or at the last
\* attempt to set the password, and by then the database, its migrations and
\* the role are there.
RacesCostOnlyGrants ==
  \A i \in Instance :
    mig[i].cause \notin {"none", "outage"} =>
      /\ mig[i].cause \in Grants \cup {"password"}
      /\ database /\ role # "absent"
      /\ rolledBack \/ version >= mig[i].image
      /\ mig[i].cause = "password" => mig[i].tries + 1 = MaxTries

=============================================================================
