--------------------------- MODULE DeploymentProofs ---------------------------
(***************************************************************************)
(* Proofs about Migrator and Deployment.  The argument: what a run of the  *)
(* migrator has done stays done, for no other run undoes it but by taking  *)
(* a migration back; a server lives only after a run that has done all of  *)
(* it.  A listener is open only while its server has all its pools, and    *)
(* who goes on to close them has seen no request, or a reason not to wait. *)
(***************************************************************************)
EXTENDS Deployment, TLAPS

-----------------------------------------------------------------------------
(* The inductive invariant. *)

\* A run that ended well, with the role if one was asked for.
Finished(i) == mig[i].step = "done" /\ mig[i].cmd = "up"

RoleSteps == {"findrole", "createrole", "password", "revoke", "connect", "usage",
              "tables", "defaults"}

\* A run at one of these steps of the provisioning, or past all of them.
Past(i, steps) == mig[i].step \in steps \/ (Finished(i) /\ scoped)

UpToDate(i) == rolledBack \/ version >= mig[i].image

\* What the steps of a run have left in the database.
Bootstrapped(i) ==
  /\ mig[i].step \in {"lock", "migrate", "done"} \cup RoleSteps => database
  /\ mig[i].step \in RoleSteps => mig[i].cmd = "up" /\ scoped
  /\ mig[i].step \in RoleSteps \/ Finished(i) => UpToDate(i)
  /\ mig[i].step \in DOMAIN RowOf => role # "absent"

Provisioned(i) ==
  /\ Past(i, {"revoke", "connect", "usage", "tables", "defaults"}) => role = "synced"
  /\ Past(i, {"connect", "usage", "tables", "defaults"}) => "public" \notin acl
  /\ Past(i, {"usage", "tables", "defaults"}) => "connect" \in acl
  /\ Past(i, {"tables", "defaults"}) => "usage" \in acl
  /\ mig[i].step = "tables" /\ mig[i].busy => rolledBack \/ mig[i].seen >= mig[i].image
  /\ Past(i, {"defaults"}) => rolledBack \/ 1..mig[i].image \subseteq granted
  /\ Past(i, {}) => "defaults" \in acl

\* A run that lost a race.
Lost(i) ==
  /\ mig[i].tries + 1 <= MaxTries
  /\ mig[i].cause # "none" => mig[i].step = "failed"
  /\ mig[i].cause \notin {"none", "outage"} =>
       /\ mig[i].cause \in DOMAIN RowOf
       /\ database /\ role # "absent" /\ UpToDate(i)
       /\ mig[i].cause = "password" => mig[i].tries + 1 = MaxTries

MigInv == \A i \in Instance : Bootstrapped(i) /\ Provisioned(i) /\ Lost(i)

AllPools == IF split THEN {"writer", "reader"} ELSE {"writer"}

ServerOf(i) ==
  /\ Live(i) => Finished(i)
  /\ srv[i].step = "reader" => split
  /\ srv[i].step \in {"client", "user", "serving", "draining"} => srv[i].pools = AllPools
  /\ srv[i].goroutine = "open" => srv[i].step = "serving"
  /\ srv[i].step \in Startup \cup {"off", "ended"} => srv[i].inflight = 0
  /\ srv[i].step \notin {"serving", "draining"} /\ srv[i].inflight > 0 =>
       srv[i].late \/ srv[i].goroutine = "err"

ServerInv == \A i \in Instance : ServerOf(i)

IInv == TypeOK /\ MigInv /\ ServerInv

-----------------------------------------------------------------------------
(* Steps and rows. *)

LEMMA Rows ==
  DOMAIN RowOf = {"password", "revoke", "connect", "usage", "tables", "defaults"}
  BY DEF RowOf

LEMMA RowOrder ==
  /\ After["password"] = "revoke" /\ After["revoke"] = "connect"
  /\ After["connect"] = "usage" /\ After["usage"] = "tables"
  /\ After["tables"] = "defaults" /\ After["defaults"] = "done"
  BY DEF After

LEMMA RunFields ==
  ASSUME NEW r \in Run
  PROVE  /\ r.step \in Step /\ r.cmd \in Command /\ r.image \in Nat /\ r.image \in Version
         /\ r.tries \in Nat /\ r.seen \in Nat /\ r.busy \in BOOLEAN
  BY MigratorAssumption DEF Run, Version

LEMMA NoRunIsRun == NoRun \in Run
  BY MigratorAssumption DEF NoRun, Run, Version, Command, Step

LEMMA NoServerIsServer == NoServer \in Server
  BY DeploymentAssumption DEF NoServer, Server, Startup

LEMMA InitInvariant == Init => IInv
<1> SUFFICES ASSUME Init PROVE IInv
  OBVIOUS
<1>1. TypeOK
  <2>1. 0 \in 0..MaxVersion /\ 0 \in 0..MaxRuns
    BY MigratorAssumption
  <2>2. mig \in [Instance -> Run] /\ srv \in [Instance -> Server]
    BY NoRunIsRun, NoServerIsServer DEF Init, MigInit
  <2>3. FALSE \in BOOLEAN
    OBVIOUS
  <2> QED
    BY <2>1, <2>2, <2>3 DEF Init, MigInit, TypeOK, MigTypeOK
<1>2. MigInv
  <2> SUFFICES ASSUME NEW i \in Instance
               PROVE  Bootstrapped(i) /\ Provisioned(i) /\ Lost(i)
    BY DEF MigInv
  <2>1. /\ mig[i].step = "idle" /\ mig[i].cause = "none"
        /\ mig[i].tries = 0 /\ ~ mig[i].busy
    BY DEF Init, MigInit, NoRun
  <2> QED
    BY <2>1, MigratorAssumption, Rows DEF Bootstrapped, Provisioned, Lost, Past, Finished,
       RoleSteps
<1>3. ServerInv
  BY DEF Init, ServerInv, ServerOf, Live, NoServer, Startup
<1> QED
  BY <1>1, <1>2, <1>3 DEF IInv

-----------------------------------------------------------------------------
(* The runs of the migrator. *)

LEMMA Numbers ==
  ASSUME IInv
  PROVE  version \in Nat /\ \A i \in Instance : mig[i].image \in Nat
  BY RunFields, MigratorAssumption DEF IInv, TypeOK, MigTypeOK

\* Run j is as it was, but for what it has read having become stale.
SameRun(j) ==
  /\ mig'[j].step = mig[j].step /\ mig'[j].cmd = mig[j].cmd
  /\ mig'[j].image = mig[j].image /\ mig'[j].tries = mig[j].tries
  /\ mig'[j].busy = mig[j].busy /\ mig'[j].seen = mig[j].seen
  /\ mig'[j].cause = mig[j].cause

\* What a step does to the database for the runs other than its own.
Keeps ==
  /\ scoped' = scoped
  /\ database =>
       /\ database'
       /\ acl \ {"public"} \subseteq acl'
       /\ "public" \in acl' => "public" \in acl
  /\ role # "absent" => role' # "absent"
  /\ role = "synced" => role' = "synced"
  /\ rolledBack => rolledBack'
  /\ rolledBack' \/ (version' >= version /\ granted \subseteq granted')

LEMMA RunStep ==
  ASSUME IInv, TypeOK', NEW i \in Instance, Keeps,
         \A j \in Instance \ {i} : SameRun(j),
         Bootstrapped(i)', Provisioned(i)', Lost(i)'
  PROVE  MigInv'
<1> SUFFICES ASSUME NEW j \in Instance, j # i
             PROVE  Bootstrapped(j)' /\ Provisioned(j)' /\ Lost(j)'
  BY DEF MigInv
<1>1. SameRun(j)
  OBVIOUS
<1>2. mig[j].image \in Nat /\ version \in Nat /\ version' \in Nat
  BY Numbers, MigratorAssumption DEF TypeOK, MigTypeOK
<1>3. UpToDate(j) => UpToDate(j)'
  <2>1. CASE rolledBack'
    BY <2>1 DEF UpToDate
  <2>2. CASE ~ rolledBack'
    <3>1. version' >= version /\ ~ rolledBack
      BY <2>2 DEF Keeps
    <3>2. version >= mig[j].image => version' >= mig'[j].image
      BY <1>1, <1>2, <3>1 DEF SameRun
    <3> QED
      BY <3>1, <3>2 DEF UpToDate
  <2> QED
    BY <2>1, <2>2
<1>4. Bootstrapped(j) /\ Provisioned(j) /\ Lost(j)
  BY DEF IInv, MigInv
<1>5. Bootstrapped(j)'
  BY <1>1, <1>3, <1>4, Rows DEF Bootstrapped, Finished, SameRun, Keeps
<1>6. ASSUME NEW steps \in SUBSET RoleSteps
      PROVE  /\ Past(j, steps)' <=> Past(j, steps)
             /\ Past(j, steps) => database
  BY <1>1, <1>4 DEF Bootstrapped, Past, Finished, SameRun, Keeps
<1>7. Provisioned(j)'
  <2>1. Past(j, {"revoke", "connect", "usage", "tables", "defaults"})' => role' = "synced"
    BY <1>4, <1>6 DEF Provisioned, RoleSteps, Keeps
  <2>2. Past(j, {"connect", "usage", "tables", "defaults"})' => "public" \notin acl'
    BY <1>4, <1>6 DEF Provisioned, RoleSteps, Keeps
  <2>3. /\ Past(j, {"usage", "tables", "defaults"})' => "connect" \in acl'
        /\ Past(j, {"tables", "defaults"})' => "usage" \in acl'
        /\ Past(j, {})' => "defaults" \in acl'
    BY <1>4, <1>6 DEF Provisioned, RoleSteps, Keeps
  <2>4. /\ (mig[j].step = "tables" /\ mig[j].busy => rolledBack \/ mig[j].seen >= mig[j].image)'
        /\ Past(j, {"defaults"})' => rolledBack' \/ 1..mig'[j].image \subseteq granted'
    BY <1>1, <1>4, <1>6 DEF Provisioned, RoleSteps, SameRun, Keeps
  <2> QED
    BY <2>1, <2>2, <2>3, <2>4 DEF Provisioned
<1>8. Lost(j)'
  BY <1>1, <1>3, <1>4 DEF Lost, SameRun, Keeps
<1> QED
  BY <1>5, <1>7, <1>8

\* A run that is under way has no server yet.
LEMMA ServersStay ==
  ASSUME IInv, NEW i \in Instance, ~ Live(i), UNCHANGED <<stack, split, srv>>,
         \A j \in Instance \ {i} : SameRun(j)
  PROVE  ServerInv'
BY DEF IInv, ServerInv, ServerOf, Live, Finished, SameRun, AllPools

LEMMA NoServerYet ==
  ASSUME IInv, NEW i \in Instance, mig[i].step # "done"
  PROVE  ~ Live(i)
BY DEF IInv, ServerInv, ServerOf, Finished

\* What Go and Ends do to the run.
LEMMA Going ==
  ASSUME IInv, NEW i \in Instance, NEW s \in Step, Go(i, s)
  PROVE  /\ mig' \in [Instance -> Run]
         /\ \A j \in Instance \ {i} : SameRun(j)
         /\ mig'[i].step = s /\ mig'[i].cmd = mig[i].cmd
         /\ mig'[i].image = mig[i].image /\ mig'[i].tries = mig[i].tries
         /\ mig'[i].busy = mig[i].busy /\ mig'[i].seen = mig[i].seen
         /\ mig'[i].cause = mig[i].cause
<1>1. mig \in [Instance -> Run] /\ mig[i] \in Run
  BY DEF IInv, TypeOK, MigTypeOK
<1>2. mig' = [mig EXCEPT ![i] = [mig[i] EXCEPT !.step = s]]
  BY DEF Go
<1>3. [mig[i] EXCEPT !.step = s] \in Run
  BY <1>1 DEF Run
<1> QED
  BY <1>1, <1>2, <1>3 DEF SameRun, Run

LEMMA Ending ==
  ASSUME IInv, NEW i \in Instance, NEW why \in Step \cup {"none", "outage"}, Ends(i, why)
  PROVE  /\ mig' \in [Instance -> Run]
         /\ \A j \in Instance \ {i} : SameRun(j)
         /\ mig'[i].step = "failed" /\ mig'[i].cause = why
         /\ mig'[i].image = mig[i].image /\ mig'[i].tries = mig[i].tries
<1> DEFINE r == [NoRun EXCEPT !.step = "failed", !.cause = why,
                              !.image = mig[i].image, !.tries = mig[i].tries]
<1>1. mig \in [Instance -> Run] /\ mig[i] \in Run
  BY DEF IInv, TypeOK, MigTypeOK
<1>2. mig' = [mig EXCEPT ![i] = r]
  BY DEF Ends
<1>3. r \in Run /\ r.step = "failed" /\ r.cause = why
      /\ r.image = mig[i].image /\ r.tries = mig[i].tries
  BY <1>1, NoRunIsRun DEF Run, Step
<1> HIDE DEF r
<1> QED
  BY <1>1, <1>2, <1>3 DEF SameRun

LEMMA FindDatabaseInvariant ==
  ASSUME IInv, NEW i \in Instance, FindDatabase(i), UNCHANGED <<stack, split, srv>>
  PROVE  IInv'
<1> DEFINE s == IF database THEN "lock" ELSE "create"
<1>1. mig[i].step = "find" /\ Go(i, s) /\ UNCHANGED <<catalog, lock, scoped, runs, rolledBack>>
  BY DEF FindDatabase
<1>2. s \in Step
  BY DEF Step
<1>3. TypeOK'
  BY <1>1, <1>2, Going DEF IInv, TypeOK, MigTypeOK, catalog
<1>4. Keeps
  BY <1>1, Numbers DEF Keeps, catalog
<1>5. Bootstrapped(i)' /\ Provisioned(i)' /\ Lost(i)'
  BY <1>1, <1>2, Going, Rows DEF IInv, MigInv, Bootstrapped, Provisioned, Lost, Past,
     Finished, RoleSteps, UpToDate, catalog
<1> QED
  BY <1>1, <1>2, <1>3, <1>4, <1>5, Going, NoServerYet, RunStep, ServersStay DEF IInv

LEMMA CreateDatabaseInvariant ==
  ASSUME IInv, NEW i \in Instance, CreateDatabase(i), UNCHANGED <<stack, split, srv>>
  PROVE  IInv'
<1>1. /\ mig[i].step = "create" /\ Go(i, "lock") /\ database'
      /\ acl' = IF database THEN acl ELSE {"public"}
      /\ UNCHANGED <<role, version, granted, lock, scoped, runs, rolledBack>>
  BY DEF CreateDatabase
<1>2. "lock" \in Step
  BY DEF Step
<1>3. TypeOK'
  BY <1>1, <1>2, Going DEF IInv, TypeOK, MigTypeOK, CreateDatabase, Privilege
<1>4. Keeps
  BY <1>1, Numbers DEF Keeps
<1>5. Bootstrapped(i)' /\ Provisioned(i)' /\ Lost(i)'
  BY <1>1, <1>2, Going, Rows DEF IInv, MigInv, Bootstrapped, Provisioned, Lost, Past,
     Finished, RoleSteps, UpToDate
<1> QED
  BY <1>1, <1>2, <1>3, <1>4, <1>5, Going, NoServerYet, RunStep, ServersStay DEF IInv

LEMMA TakeLockInvariant ==
  ASSUME IInv, NEW i \in Instance, TakeLock(i), UNCHANGED <<stack, split, srv>>
  PROVE  IInv'
<1>1. /\ mig[i].step = "lock" /\ Go(i, "migrate") /\ lock' = i
      /\ UNCHANGED <<catalog, scoped, runs, rolledBack>>
  BY DEF TakeLock
<1>2. "migrate" \in Step
  BY DEF Step
<1>3. TypeOK'
  BY <1>1, <1>2, Going DEF IInv, TypeOK, MigTypeOK, catalog
<1>4. Keeps
  BY <1>1, Numbers DEF Keeps, catalog
<1>5. Bootstrapped(i)' /\ Provisioned(i)' /\ Lost(i)'
  BY <1>1, <1>2, Going, Rows DEF IInv, MigInv, Bootstrapped, Provisioned, Lost, Past,
     Finished, RoleSteps, UpToDate, catalog
<1> QED
  BY <1>1, <1>2, <1>3, <1>4, <1>5, Going, NoServerYet, RunStep, ServersStay DEF IInv

LEMMA MigrateInvariant ==
  ASSUME IInv, NEW i \in Instance, Migrate(i), UNCHANGED <<stack, split, srv>>
  PROVE  IInv'
<1>1. /\ mig[i].step = "migrate" /\ version < mig[i].image /\ version' = version + 1
      /\ granted' \in {granted, granted \cup {version + 1}}
      /\ UNCHANGED <<database, role, acl, lock, mig, scoped, runs, rolledBack>>
  BY DEF Migrate
<1>2. version + 1 \in Version /\ version + 1 \in 0..MaxVersion
  BY <1>1, RunFields, MigratorAssumption DEF IInv, TypeOK, MigTypeOK, Version
<1>3. TypeOK'
  BY <1>1, <1>2 DEF IInv, TypeOK, MigTypeOK
<1>4. Keeps
  BY <1>1, Numbers DEF Keeps
<1>5. \A j \in Instance \ {i} : SameRun(j)
  BY <1>1 DEF SameRun
<1>6. Bootstrapped(i)' /\ Provisioned(i)' /\ Lost(i)'
  BY <1>1, Rows, Numbers DEF IInv, MigInv, Bootstrapped, Provisioned, Lost, Past, Finished,
     RoleSteps, UpToDate
<1> QED
  BY <1>1, <1>3, <1>4, <1>5, <1>6, NoServerYet, RunStep, ServersStay DEF IInv

LEMMA RollBackInvariant ==
  ASSUME IInv, NEW i \in Instance, RollBack(i), UNCHANGED <<stack, split, srv>>
  PROVE  IInv'
<1>1. /\ mig[i].step = "migrate" /\ mig[i].cmd = "down"
      /\ version \in 1..mig[i].image /\ version' = version - 1
      /\ granted' = granted \ {version} /\ lock' = NoOne /\ rolledBack' = TRUE
      /\ Go(i, "done")
      /\ UNCHANGED <<database, role, acl, scoped, runs>>
  BY DEF RollBack
<1>2. "done" \in Step
  BY DEF Step
<1>3. version - 1 \in 0..MaxVersion
  BY <1>1, Numbers, MigratorAssumption DEF IInv, TypeOK, MigTypeOK
<1>4. TypeOK'
  BY <1>1, <1>2, <1>3, Going DEF IInv, TypeOK, MigTypeOK
<1>5. Keeps
  BY <1>1 DEF Keeps
<1>6. Bootstrapped(i)' /\ Provisioned(i)' /\ Lost(i)'
  BY <1>1, <1>2, Going, Rows DEF IInv, MigInv, Bootstrapped, Provisioned, Lost, Past,
     Finished, RoleSteps, UpToDate
<1> QED
  BY <1>1, <1>2, <1>4, <1>5, <1>6, Going, NoServerYet, RunStep, ServersStay DEF IInv

LEMMA EndGooseInvariant ==
  ASSUME IInv, NEW i \in Instance, EndGoose(i), UNCHANGED <<stack, split, srv>>
  PROVE  IInv'
<1> DEFINE s == IF mig[i].cmd = "up" /\ scoped THEN "findrole" ELSE "done"
<1>1. /\ mig[i].step = "migrate" /\ lock' = NoOne /\ Go(i, s)
      /\ UNCHANGED <<catalog, scoped, runs, rolledBack>>
  BY DEF EndGoose
<1>2. mig[i].cmd = "up" => version >= mig[i].image
  BY DEF EndGoose
<1>3. s \in Step
  BY DEF Step
<1>4. TypeOK'
  BY <1>1, <1>3, Going DEF IInv, TypeOK, MigTypeOK, catalog
<1>5. Keeps
  BY <1>1, Numbers DEF Keeps, catalog
<1>6. Bootstrapped(i)' /\ Provisioned(i)' /\ Lost(i)'
  BY <1>1, <1>2, <1>3, Going, Rows DEF IInv, MigInv, Bootstrapped, Provisioned, Lost, Past,
     Finished, RoleSteps, UpToDate, catalog
<1> QED
  BY <1>1, <1>3, <1>4, <1>5, <1>6, Going, NoServerYet, RunStep, ServersStay DEF IInv

LEMMA FindRoleInvariant ==
  ASSUME IInv, NEW i \in Instance, FindRole(i), UNCHANGED <<stack, split, srv>>
  PROVE  IInv'
<1> DEFINE s == IF role = "absent" THEN "createrole" ELSE "password"
<1>1. /\ mig[i].step = "findrole" /\ Go(i, s)
      /\ UNCHANGED <<catalog, lock, scoped, runs, rolledBack>>
  BY DEF FindRole
<1>2. s \in Step
  BY Rows DEF Step
<1>3. TypeOK'
  BY <1>1, <1>2, Going DEF IInv, TypeOK, MigTypeOK, catalog
<1>4. Keeps
  BY <1>1, Numbers DEF Keeps, catalog
<1>5. Bootstrapped(i)' /\ Provisioned(i)' /\ Lost(i)'
  BY <1>1, <1>2, Going, Rows DEF IInv, MigInv, Bootstrapped, Provisioned, Lost, Past,
     Finished, RoleSteps, UpToDate, catalog
<1> QED
  BY <1>1, <1>2, <1>3, <1>4, <1>5, Going, NoServerYet, RunStep, ServersStay DEF IInv

LEMMA CreateRoleInvariant ==
  ASSUME IInv, NEW i \in Instance, CreateRole(i), UNCHANGED <<stack, split, srv>>
  PROVE  IInv'
<1>1. /\ mig[i].step = "createrole" /\ Go(i, "password")
      /\ role' = IF role = "absent" THEN "created" ELSE role
      /\ UNCHANGED <<database, acl, version, granted, lock, scoped, runs, rolledBack>>
  BY DEF CreateRole
<1>2. "password" \in Step
  BY Rows DEF Step
<1>3. TypeOK'
  BY <1>1, <1>2, Going DEF IInv, TypeOK, MigTypeOK
<1>4. Keeps
  BY <1>1, Numbers DEF Keeps
<1>5. Bootstrapped(i)' /\ Provisioned(i)' /\ Lost(i)'
  BY <1>1, <1>2, Going, Rows DEF IInv, MigInv, Bootstrapped, Provisioned, Lost, Past,
     Finished, RoleSteps, UpToDate
<1> QED
  BY <1>1, <1>2, <1>3, <1>4, <1>5, Going, NoServerYet, RunStep, ServersStay DEF IInv

LEMMA ReadRowInvariant ==
  ASSUME IInv, NEW i \in Instance, ReadRow(i), UNCHANGED <<stack, split, srv>>
  PROVE  IInv'
<1> DEFINE r == [mig[i] EXCEPT !.busy = TRUE, !.seen = version]
<1>1. /\ mig[i].step \in DOMAIN RowOf /\ ~ mig[i].busy
      /\ mig' = [mig EXCEPT ![i] = r]
      /\ UNCHANGED <<catalog, lock, scoped, runs, rolledBack>>
  BY DEF ReadRow
<1>2. mig \in [Instance -> Run] /\ mig[i] \in Run /\ version \in 0..MaxVersion
  BY DEF IInv, TypeOK, MigTypeOK
<1>3. /\ r \in Run /\ r.step = mig[i].step /\ r.cmd = mig[i].cmd
      /\ r.image = mig[i].image /\ r.tries = mig[i].tries /\ r.cause = mig[i].cause
      /\ r.busy = TRUE /\ r.seen = version
  BY <1>2 DEF Run
<1> HIDE DEF r
<1>4. mig' \in [Instance -> Run] /\ mig'[i] = r /\ \A j \in Instance \ {i} : SameRun(j)
  BY <1>1, <1>2, <1>3 DEF SameRun
<1>5. TypeOK'
  BY <1>1, <1>4 DEF IInv, TypeOK, MigTypeOK, catalog
<1>6. Keeps
  BY <1>1, Numbers DEF Keeps, catalog
<1>7. Bootstrapped(i)' /\ Provisioned(i)' /\ Lost(i)'
  BY <1>1, <1>3, <1>4, Rows DEF IInv, MigInv, Bootstrapped, Provisioned, Lost, Past,
     Finished, RoleSteps, UpToDate, catalog
<1> QED
  BY <1>1, <1>4, <1>5, <1>6, <1>7, Rows, NoServerYet, RunStep, ServersStay DEF IInv

LEMMA WriteRowInvariant ==
  ASSUME IInv, NEW i \in Instance, WriteRow(i), UNCHANGED <<stack, split, srv>>
  PROVE  IInv'
<1> DEFINE s == mig[i].step
           r == [mig[i] EXCEPT !.step = After[s], !.busy = FALSE, !.tries = 0, !.seen = 0]
           other(j) == [mig[j] EXCEPT !.stale = @ \/ (/\ mig[j].busy
                                                    /\ RowOf[mig[j].step] = RowOf[s])]
<1>1. /\ s \in DOMAIN RowOf /\ mig[i].busy
      /\ role' = IF s = "password" THEN "synced" ELSE role
      /\ acl' = CASE s = "revoke" -> acl \ {"public"}
                  [] s \in {"connect", "usage", "defaults"} -> acl \cup {s}
                  [] OTHER -> acl
      /\ granted' = IF s = "tables" THEN granted \cup 1..mig[i].seen ELSE granted
      /\ mig' = [j \in Instance |-> IF j = i THEN r ELSE other(j)]
      /\ UNCHANGED <<database, version, lock, scoped, runs, rolledBack>>
  BY DEF WriteRow
<1>2. mig \in [Instance -> Run] /\ mig[i] \in Run
  BY DEF IInv, TypeOK, MigTypeOK
<1>3. /\ r \in Run /\ r.step = After[s] /\ r.cmd = mig[i].cmd
      /\ r.image = mig[i].image /\ r.tries = 0 /\ r.cause = mig[i].cause
      /\ r.busy = FALSE /\ r.seen = 0
  <2>1. After[s] \in Step
    BY <1>1, Rows, RowOrder DEF Step
  <2>2. 0 \in 0..MaxTries /\ 0 \in 0..MaxVersion /\ FALSE \in BOOLEAN
    BY MigratorAssumption
  <2> HIDE DEF s
  <2> QED
    BY <1>2, <2>1, <2>2 DEF Run
<1>4. ASSUME NEW j \in Instance \ {i}
      PROVE  other(j) \in Run /\ SameRun(j)
  <2>1. mig[j] \in Run
    BY <1>2
  <2>2. (mig[j].stale \/ (mig[j].busy /\ RowOf[mig[j].step] = RowOf[s])) \in BOOLEAN
    OBVIOUS
  <2>3. other(j) \in Run
    BY <2>1, <2>2 DEF Run
  <2> QED
    BY <1>1, <2>1, <2>3 DEF SameRun, Run
<1> HIDE DEF r, other
<1>5. mig' \in [Instance -> Run] /\ mig'[i] = r
  BY <1>1, <1>3, <1>4
<1>6. TypeOK'
  <2>1. acl' \subseteq Privilege
    BY <1>1 DEF IInv, TypeOK, MigTypeOK, Privilege
  <2>2. granted' \subseteq Version
    BY <1>1, <1>2, MigratorAssumption DEF IInv, TypeOK, MigTypeOK, Version, Run
  <2> QED
    BY <1>1, <1>5, <2>1, <2>2 DEF IInv, TypeOK, MigTypeOK
<1>7. Keeps
  BY <1>1, Numbers, Rows DEF Keeps
<1>8. Bootstrapped(i)' /\ Provisioned(i)' /\ Lost(i)'
  <2>1. Bootstrapped(i) /\ Provisioned(i) /\ Lost(i)
    BY DEF IInv, MigInv
  <2>2. mig[i].cmd = "up" /\ scoped /\ UpToDate(i) /\ database /\ role # "absent"
    BY <1>1, <2>1, Rows DEF Bootstrapped, RoleSteps
  <2>3. UpToDate(i)' /\ database' /\ role' # "absent"
    BY <1>1, <1>3, <1>5, <2>2 DEF UpToDate
  <2>4. Bootstrapped(i)'
    BY <1>1, <1>3, <1>5, <2>2, <2>3, Rows, RowOrder DEF Bootstrapped, RoleSteps, Finished
  <2>5. Provisioned(i)'
    <3>1. CASE s \in {"password", "revoke", "connect", "usage"}
      BY <1>1, <1>3, <1>5, <2>1, <3>1, RowOrder DEF Provisioned, Past, Finished
    <3>2. CASE s = "tables"
      <4>1. rolledBack \/ 1..mig[i].image \subseteq 1..mig[i].seen
        BY <1>1, <1>2, <2>1, <3>2, RunFields DEF Provisioned
      <4> QED
        BY <1>1, <1>3, <1>5, <2>1, <3>2, <4>1, RowOrder DEF Provisioned, Past, Finished
    <3>3. CASE s = "defaults"
      BY <1>1, <1>3, <1>5, <2>1, <2>2, <3>3, RowOrder DEF Provisioned, Past, Finished
    <3> QED
      BY <1>1, <3>1, <3>2, <3>3, Rows
  <2>6. Lost(i)'
    <3>1. mig[i].cause = "none"
      BY <1>1, <2>1, Rows DEF Lost
    <3> QED
      BY <1>3, <1>5, <3>1, MigratorAssumption DEF Lost
  <2> QED
    BY <2>4, <2>5, <2>6
<1> QED
  BY <1>1, <1>4, <1>6, <1>7, <1>8, Rows, NoServerYet, RunStep, ServersStay DEF IInv

LEMMA RetryPasswordInvariant ==
  ASSUME IInv, NEW i \in Instance, RetryPassword(i), UNCHANGED <<stack, split, srv>>
  PROVE  IInv'
<1> DEFINE r == [mig[i] EXCEPT !.tries = @ + 1, !.busy = FALSE, !.stale = FALSE]
<1>1. /\ mig[i].step = "password" /\ mig[i].tries + 1 < MaxTries
      /\ mig' = [mig EXCEPT ![i] = r]
      /\ UNCHANGED <<catalog, lock, scoped, runs, rolledBack>>
  BY DEF RetryPassword
<1>2. mig \in [Instance -> Run] /\ mig[i] \in Run /\ mig[i].tries \in 0..MaxTries
  BY DEF IInv, TypeOK, MigTypeOK, Run
<1>3. mig[i].tries + 1 \in 0..MaxTries /\ mig[i].tries + 2 <= MaxTries
  BY <1>1, <1>2, MigratorAssumption
<1>4. /\ r \in Run /\ r.step = mig[i].step /\ r.cmd = mig[i].cmd
      /\ r.image = mig[i].image /\ r.tries = mig[i].tries + 1 /\ r.cause = mig[i].cause
      /\ r.busy = FALSE
  BY <1>2, <1>3 DEF Run
<1> HIDE DEF r
<1>5. mig' \in [Instance -> Run] /\ mig'[i] = r /\ \A j \in Instance \ {i} : SameRun(j)
  BY <1>1, <1>2, <1>4 DEF SameRun
<1>6. TypeOK'
  BY <1>1, <1>5 DEF IInv, TypeOK, MigTypeOK, catalog
<1>7. Keeps
  BY <1>1, Numbers DEF Keeps, catalog
<1>8. Bootstrapped(i)' /\ Provisioned(i)'
  BY <1>1, <1>4, <1>5, Rows DEF IInv, MigInv, Bootstrapped, Provisioned, Past,
     Finished, RoleSteps, UpToDate, catalog
<1>9. Lost(i)'
  <2>1. mig[i].cause = "none"
    BY <1>1 DEF IInv, MigInv, Lost
  <2>2. mig'[i].tries + 1 <= MaxTries
    BY <1>2, <1>3, <1>4, <1>5, MigratorAssumption
  <2> QED
    BY <1>4, <1>5, <2>1, <2>2 DEF Lost
<1> QED
  BY <1>1, <1>5, <1>6, <1>7, <1>8, <1>9, NoServerYet, RunStep, ServersStay DEF IInv

LEMMA LoseRowInvariant ==
  ASSUME IInv, NEW i \in Instance, LoseRow(i), UNCHANGED <<stack, split, srv>>
  PROVE  IInv'
<1> DEFINE s == mig[i].step
<1>1. /\ s \in DOMAIN RowOf /\ (s = "password" => mig[i].tries + 1 >= MaxTries)
      /\ Ends(i, s) /\ UNCHANGED <<catalog, lock, scoped, runs, rolledBack>>
  BY DEF LoseRow
<1>2. s \in Step /\ mig[i].tries \in 0..MaxTries
  BY DEF IInv, TypeOK, MigTypeOK, Run
<1>3. Bootstrapped(i) /\ Lost(i)
  BY DEF IInv, MigInv
<1>4. /\ mig' \in [Instance -> Run] /\ \A j \in Instance \ {i} : SameRun(j)
      /\ mig'[i].step = "failed" /\ mig'[i].cause = s
      /\ mig'[i].image = mig[i].image /\ mig'[i].tries = mig[i].tries
  BY <1>1, <1>2, Ending
<1>5. TypeOK'
  BY <1>1, <1>4 DEF IInv, TypeOK, MigTypeOK, catalog
<1>6. Keeps
  BY <1>1, Numbers DEF Keeps, catalog
<1>7. Bootstrapped(i)' /\ Provisioned(i)'
  BY <1>4, Rows DEF Bootstrapped, Provisioned, Past, Finished, RoleSteps
<1>8. Lost(i)'
  <2>1. database /\ role # "absent" /\ UpToDate(i)
    BY <1>1, <1>3, Rows DEF Bootstrapped, RoleSteps
  <2>2. database' /\ role' # "absent" /\ UpToDate(i)'
    BY <1>1, <1>4, <2>1 DEF UpToDate, catalog
  <2>3. mig'[i].tries + 1 <= MaxTries
    BY <1>3, <1>4 DEF Lost
  <2>4. s = "password" => mig'[i].tries + 1 = MaxTries
    BY <1>1, <1>2, <1>3, <1>4, MigratorAssumption DEF Lost
  <2> QED
    BY <1>1, <1>4, <2>2, <2>3, <2>4 DEF Lost
<1> QED
  BY <1>1, <1>4, <1>5, <1>6, <1>7, <1>8, Rows, NoServerYet, RunStep, ServersStay DEF IInv

LEMMA FailRunInvariant ==
  ASSUME IInv, NEW i \in Instance, FailRun(i), UNCHANGED <<stack, split, srv>>
  PROVE  IInv'
<1>1. /\ Running(i) /\ Ends(i, "outage") /\ lock' \in {lock, NoOne}
      /\ UNCHANGED <<catalog, scoped, runs, rolledBack>>
  BY DEF FailRun
<1>2. /\ mig' \in [Instance -> Run] /\ \A j \in Instance \ {i} : SameRun(j)
      /\ mig'[i].step = "failed" /\ mig'[i].cause = "outage"
      /\ mig'[i].image = mig[i].image /\ mig'[i].tries = mig[i].tries
  BY <1>1, Ending
<1>3. TypeOK'
  BY <1>1, <1>2 DEF IInv, TypeOK, MigTypeOK, catalog
<1>4. Keeps
  BY <1>1, Numbers DEF Keeps, catalog
<1>5. Bootstrapped(i)' /\ Provisioned(i)' /\ Lost(i)'
  BY <1>1, <1>2, Rows DEF IInv, MigInv, Bootstrapped, Provisioned, Lost, Past, Finished,
     RoleSteps
<1> QED
  BY <1>1, <1>2, <1>3, <1>4, <1>5, NoServerYet, RunStep, ServersStay DEF IInv, Running

LEMMA MigStepInvariant ==
  ASSUME IInv, NEW i \in Instance, MigStep(i), UNCHANGED <<stack, split, srv>>
  PROVE  IInv'
BY FindDatabaseInvariant, CreateDatabaseInvariant, TakeLockInvariant, MigrateInvariant,
   RollBackInvariant, EndGooseInvariant, FindRoleInvariant, CreateRoleInvariant,
   ReadRowInvariant, WriteRowInvariant, RetryPasswordInvariant, LoseRowInvariant DEF MigStep

-----------------------------------------------------------------------------
(* The start of a run. *)

LEMMA Starting ==
  ASSUME IInv, NEW i \in Instance, NEW cmd \in Command, NEW image \in Version,
         StartRun(i, cmd, image), UNCHANGED <<stack, split>>,
         srv' \in [Instance -> Server]
  PROVE  /\ TypeOK' /\ MigInv' /\ mig'[i].step = "find"
         /\ \A j \in Instance \ {i} : SameRun(j)
<1> DEFINE r == [NoRun EXCEPT !.step = "find", !.cmd = cmd, !.image = image]
<1>1. /\ runs < MaxRuns /\ mig' = [mig EXCEPT ![i] = r] /\ runs' = runs + 1
      /\ UNCHANGED <<catalog, lock, scoped, rolledBack>>
  BY DEF StartRun
<1>2. r \in Run /\ r.step = "find" /\ r.cause = "none" /\ r.tries = 0
  <2>1. r \in Run
    BY NoRunIsRun DEF Run, Step
  <2> QED
    BY <2>1 DEF NoRun
<1> HIDE DEF r
<1>3. mig \in [Instance -> Run]
  BY DEF IInv, TypeOK, MigTypeOK
<1>4. mig' \in [Instance -> Run] /\ mig'[i] = r /\ \A j \in Instance \ {i} : SameRun(j)
  BY <1>1, <1>2, <1>3 DEF SameRun
<1>5. TypeOK'
  <2>1. runs' \in 0..MaxRuns
    BY <1>1, MigratorAssumption DEF IInv, TypeOK, MigTypeOK
  <2> QED
    BY <1>1, <1>4, <2>1 DEF IInv, TypeOK, MigTypeOK, catalog
<1>6. Keeps
  BY <1>1, Numbers DEF Keeps, catalog
<1>7. Bootstrapped(i)' /\ Provisioned(i)'
  BY <1>2, <1>4, Rows DEF Bootstrapped, Provisioned, Past, Finished, RoleSteps
<1>8. Lost(i)'
  BY <1>2, <1>4, MigratorAssumption DEF Lost
<1>9. MigInv'
  BY <1>4, <1>5, <1>6, <1>7, <1>8, RunStep
<1> QED
  BY <1>2, <1>4, <1>5, <1>9

LEMMA StartTaskInvariant ==
  ASSUME IInv, NEW i \in Instance, NEW image \in Version, StartTask(i, image)
  PROVE  IInv'
<1>1. /\ StartRun(i, "up", image) /\ srv' = [srv EXCEPT ![i] = NoServer]
      /\ UNCHANGED <<stack, split>>
  BY DEF StartTask
<1>2. srv' \in [Instance -> Server]
  BY <1>1, NoServerIsServer DEF IInv, TypeOK
<1>3. "up" \in Command
  BY DEF Command
<1>4. /\ TypeOK' /\ MigInv'
      /\ \A j \in Instance \ {i} : SameRun(j)
  BY <1>1, <1>2, <1>3, Starting
<1>5. ServerOf(i)'
  BY <1>1 DEF IInv, TypeOK, ServerOf, Live, NoServer
<1>6. ASSUME NEW j \in Instance \ {i} PROVE ServerOf(j)'
  BY <1>1, <1>4 DEF IInv, TypeOK, ServerInv, ServerOf, Live, Finished, SameRun, AllPools
<1> QED
  BY <1>4, <1>5, <1>6 DEF IInv, ServerInv

LEMMA StartCommandInvariant ==
  ASSUME IInv, NEW i \in Instance, NEW cmd \in Command, NEW image \in Version,
         StartCommand(i, cmd, image)
  PROVE  IInv'
<1>1. ~ Live(i) /\ StartRun(i, cmd, image) /\ UNCHANGED <<stack, split, srv>>
  BY DEF StartCommand
<1>2. srv' \in [Instance -> Server]
  BY <1>1 DEF IInv, TypeOK
<1>3. TypeOK' /\ MigInv' /\ \A j \in Instance \ {i} : SameRun(j)
  BY <1>1, <1>2, Starting
<1> QED
  BY <1>1, <1>3, ServersStay DEF IInv

-----------------------------------------------------------------------------
(* The servers. *)

\* What is to be shown of a step of server i.
LEMMA ServerChange ==
  ASSUME IInv, NEW i \in Instance, NEW r \in Server, srv' = [srv EXCEPT ![i] = r],
         UNCHANGED deployed, ServerOf(i)'
  PROVE  IInv'
<1>1. UNCHANGED <<catalog, lock, mig, scoped, runs, rolledBack, stack, split>>
  BY DEF deployed, migVars
<1>2. TypeOK'
  BY <1>1 DEF IInv, TypeOK, MigTypeOK, catalog
<1>3. MigInv'
  BY <1>1 DEF IInv, MigInv, Bootstrapped, Provisioned, Lost, Past, Finished, UpToDate, catalog
<1>4. ASSUME NEW j \in Instance \ {i} PROVE ServerOf(j)'
  BY <1>1 DEF IInv, TypeOK, ServerInv, ServerOf, Live, Finished, AllPools
<1> QED
  BY <1>2, <1>3, <1>4 DEF IInv, ServerInv

LEMMA ServerFields ==
  ASSUME IInv, NEW i \in Instance
  PROVE  /\ srv \in [Instance -> Server] /\ srv[i] \in Server
         /\ srv[i].inflight \in 0..MaxInFlight
         /\ srv[i].pools \in SUBSET {"writer", "reader"}
         /\ ServerOf(i)
BY DEF IInv, TypeOK, ServerInv, Server

LEMMA StartServerInvariant ==
  ASSUME IInv, NEW i \in Instance, StartServer(i)
  PROVE  IInv'
<1> DEFINE r == [srv[i] EXCEPT !.step = "writer"]
<1>1. /\ srv[i].step = "off" /\ Finished(i)
      /\ srv' = [srv EXCEPT ![i] = r] /\ UNCHANGED deployed
  BY DEF StartServer, Moves, Finished
<1>2. r \in Server
  BY ServerFields DEF Server, Startup
<1>3. ServerOf(i)'
  BY <1>1, ServerFields DEF ServerOf, Live, Finished, AllPools, Server, Startup, deployed,
     migVars
<1> QED
  BY <1>1, <1>2, <1>3, ServerChange

LEMMA OpenWriterInvariant ==
  ASSUME IInv, NEW i \in Instance, OpenWriter(i)
  PROVE  IInv'
<1> DEFINE r == [srv[i] EXCEPT !.pools = {"writer"},
                   !.step = IF split THEN "reader"
                            ELSE IF stack = "auth" THEN "client" ELSE "serving",
                   !.goroutine = IF split \/ stack = "auth" THEN "off" ELSE "starting"]
<1>1. /\ srv[i].step = "writer"
      /\ srv' = [srv EXCEPT ![i] = r] /\ UNCHANGED deployed
  BY DEF OpenWriter
<1>2. r \in Server
  BY ServerFields DEF Server, Startup
<1>3. ServerOf(i)'
  BY <1>1, ServerFields DEF ServerOf, Live, Finished, AllPools, Server, Startup, deployed,
     migVars
<1> QED
  BY <1>1, <1>2, <1>3, ServerChange

LEMMA OpenReaderInvariant ==
  ASSUME IInv, NEW i \in Instance, OpenReader(i)
  PROVE  IInv'
<1> DEFINE r == [srv[i] EXCEPT !.pools = {"writer", "reader"},
                   !.step = IF stack = "auth" THEN "client" ELSE "serving",
                   !.goroutine = IF stack = "auth" THEN "off" ELSE "starting"]
<1>1. /\ srv[i].step = "reader"
      /\ srv' = [srv EXCEPT ![i] = r] /\ UNCHANGED deployed
  BY DEF OpenReader
<1>2. r \in Server
  BY ServerFields DEF Server, Startup
<1>3. ServerOf(i)'
  BY <1>1, ServerFields DEF ServerOf, Live, Finished, AllPools, Server, Startup, deployed,
     migVars
<1> QED
  BY <1>1, <1>2, <1>3, ServerChange

LEMMA SeedClientInvariant ==
  ASSUME IInv, NEW i \in Instance, SeedClient(i)
  PROVE  IInv'
<1> DEFINE r == [srv[i] EXCEPT !.step = "user"]
<1>1. /\ srv[i].step = "client"
      /\ srv' = [srv EXCEPT ![i] = r] /\ UNCHANGED deployed
  BY DEF SeedClient, Moves
<1>2. r \in Server
  BY ServerFields DEF Server, Startup
<1>3. ServerOf(i)'
  BY <1>1, ServerFields DEF ServerOf, Live, Finished, AllPools, Server, Startup, deployed,
     migVars
<1> QED
  BY <1>1, <1>2, <1>3, ServerChange

LEMMA SeedUserInvariant ==
  ASSUME IInv, NEW i \in Instance, SeedUser(i)
  PROVE  IInv'
<1> DEFINE r == [srv[i] EXCEPT !.step = "serving", !.goroutine = "starting"]
<1>1. /\ srv[i].step = "user"
      /\ srv' = [srv EXCEPT ![i] = r] /\ UNCHANGED deployed
  BY DEF SeedUser
<1>2. r \in Server
  BY ServerFields DEF Server, Startup
<1>3. ServerOf(i)'
  BY <1>1, ServerFields DEF ServerOf, Live, Finished, AllPools, Server, Startup, deployed,
     migVars
<1> QED
  BY <1>1, <1>2, <1>3, ServerChange


-----------------------------------------------------------------------------
(* The end of a server, and what its listener does. *)

LEMMA EndInvariant ==
  ASSUME IInv, NEW i \in Instance, srv' = [srv EXCEPT ![i] = [NoServer EXCEPT !.step = "ended"]],
         UNCHANGED deployed
  PROVE  IInv'
<1> DEFINE r == [NoServer EXCEPT !.step = "ended"]
<1>1. r \in Server
  BY NoServerIsServer DEF Server
<1>2. ServerOf(i)'
  BY ServerFields DEF ServerOf, Live, NoServer
<1> QED
  BY <1>1, <1>2, ServerChange

LEMMA ListenInvariant ==
  ASSUME IInv, NEW i \in Instance, Listen(i)
  PROVE  IInv'
<1> DEFINE r == [srv[i] EXCEPT !.goroutine = IF srv[i].step = "serving" THEN "open"
                                               ELSE "nil"]
<1>1. /\ srv[i].goroutine = "starting"
      /\ srv' = [srv EXCEPT ![i] = r] /\ UNCHANGED deployed
  BY DEF Listen
<1>2. r \in Server
  BY <1>1, ServerFields DEF Server, Startup
<1>3. ServerOf(i)'
  BY <1>1, ServerFields DEF ServerOf, Live, Finished, AllPools, Server, Startup, deployed,
     migVars
<1> QED
  BY <1>1, <1>2, <1>3, ServerChange

LEMMA ListenFailsInvariant ==
  ASSUME IInv, NEW i \in Instance, ListenFails(i)
  PROVE  IInv'
<1> DEFINE r == [srv[i] EXCEPT !.goroutine = "err"]
<1>1. /\ srv' = [srv EXCEPT ![i] = r] /\ UNCHANGED deployed
  BY DEF ListenFails
<1>2. r \in Server
  BY <1>1, ServerFields DEF Server, Startup
<1>3. ServerOf(i)'
  BY <1>1, ServerFields DEF ServerOf, Live, Finished, AllPools, Server, Startup, deployed,
     migVars
<1> QED
  BY <1>1, <1>2, <1>3, ServerChange

LEMMA EndListenInvariant ==
  ASSUME IInv, NEW i \in Instance, EndListen(i)
  PROVE  IInv'
<1> DEFINE r == [srv[i] EXCEPT !.goroutine = "nil"]
<1>1. /\ srv[i].goroutine = "closing"
      /\ srv' = [srv EXCEPT ![i] = r] /\ UNCHANGED deployed
  BY DEF EndListen
<1>2. r \in Server
  BY <1>1, ServerFields DEF Server, Startup
<1>3. ServerOf(i)'
  BY <1>1, ServerFields DEF ServerOf, Live, Finished, AllPools, Server, Startup, deployed,
     migVars
<1> QED
  BY <1>1, <1>2, <1>3, ServerChange

LEMMA AcceptInvariant ==
  ASSUME IInv, NEW i \in Instance, Accept(i)
  PROVE  IInv'
<1> DEFINE r == [srv[i] EXCEPT !.inflight = @ + 1]
<1>1. /\ srv[i].goroutine = "open" /\ srv[i].inflight < MaxInFlight
      /\ srv' = [srv EXCEPT ![i] = r] /\ UNCHANGED deployed
  BY DEF Accept
<1>2. r \in Server
  BY <1>1, ServerFields, DeploymentAssumption DEF Server, Startup
<1>3. ServerOf(i)'
  BY <1>1, ServerFields, DeploymentAssumption DEF ServerOf, Live, Finished, AllPools, Server, Startup, deployed,
     migVars
<1> QED
  BY <1>1, <1>2, <1>3, ServerChange

LEMMA AnswerInvariant ==
  ASSUME IInv, NEW i \in Instance, Answer(i)
  PROVE  IInv'
<1> DEFINE r == [srv[i] EXCEPT !.inflight = @ - 1]
<1>1. /\ srv[i].inflight > 0
      /\ srv' = [srv EXCEPT ![i] = r] /\ UNCHANGED deployed
  BY DEF Answer
<1>2. r \in Server
  BY <1>1, ServerFields, DeploymentAssumption DEF Server, Startup
<1>3. ServerOf(i)'
  BY <1>1, ServerFields, DeploymentAssumption DEF ServerOf, Live, Finished, AllPools, Server, Startup, deployed,
     migVars
<1> QED
  BY <1>1, <1>2, <1>3, ServerChange

LEMMA SignalInvariant ==
  ASSUME IInv, NEW i \in Instance, Signal(i)
  PROVE  IInv'
<1> DEFINE r == [srv[i] EXCEPT !.signalled = TRUE]
<1>1. /\ Live(i)
      /\ srv' = [srv EXCEPT ![i] = r] /\ UNCHANGED deployed
  BY DEF Signal
<1>2. r \in Server
  BY <1>1, ServerFields DEF Server, Startup
<1>3. ServerOf(i)'
  BY <1>1, ServerFields DEF ServerOf, Live, Finished, AllPools, Server, Startup, deployed,
     migVars
<1> QED
  BY <1>1, <1>2, <1>3, ServerChange

LEMMA ServeFailedInvariant ==
  ASSUME IInv, NEW i \in Instance, ServeFailed(i)
  PROVE  IInv'
<1> DEFINE r == [srv[i] EXCEPT !.step = "closing"]
<1>1. /\ srv[i].step = "serving" /\ srv[i].goroutine = "err"
      /\ srv' = [srv EXCEPT ![i] = r] /\ UNCHANGED deployed
  BY DEF ServeFailed, Moves
<1>2. r \in Server
  BY <1>1, ServerFields DEF Server, Startup
<1>3. ServerOf(i)'
  BY <1>1, ServerFields DEF ServerOf, Live, Finished, AllPools, Server, Startup, deployed,
     migVars
<1> QED
  BY <1>1, <1>2, <1>3, ServerChange

LEMMA ShutdownInvariant ==
  ASSUME IInv, NEW i \in Instance, Shutdown(i)
  PROVE  IInv'
<1> DEFINE r == [srv[i] EXCEPT !.step = "draining",
                   !.goroutine = IF @ = "open" THEN "closing" ELSE @]
<1>1. /\ srv[i].step = "serving"
      /\ srv' = [srv EXCEPT ![i] = r] /\ UNCHANGED deployed
  BY DEF Shutdown
<1>2. r \in Server
  BY <1>1, ServerFields DEF Server, Startup
<1>3. ServerOf(i)'
  BY <1>1, ServerFields DEF ServerOf, Live, Finished, AllPools, Server, Startup, deployed,
     migVars
<1> QED
  BY <1>1, <1>2, <1>3, ServerChange

LEMMA DrainedInvariant ==
  ASSUME IInv, NEW i \in Instance, Drained(i)
  PROVE  IInv'
<1> DEFINE r == [srv[i] EXCEPT !.step = "joining"]
<1>1. /\ srv[i].step = "draining" /\ srv[i].inflight = 0
      /\ srv' = [srv EXCEPT ![i] = r] /\ UNCHANGED deployed
  BY DEF Drained, Moves
<1>2. r \in Server
  BY <1>1, ServerFields DEF Server, Startup
<1>3. ServerOf(i)'
  BY <1>1, ServerFields DEF ServerOf, Live, Finished, AllPools, Server, Startup, deployed,
     migVars
<1> QED
  BY <1>1, <1>2, <1>3, ServerChange

LEMMA DrainTimesOutInvariant ==
  ASSUME IInv, NEW i \in Instance, DrainTimesOut(i)
  PROVE  IInv'
<1> DEFINE r == [srv[i] EXCEPT !.step = "closing", !.late = TRUE]
<1>1. /\ srv[i].step = "draining"
      /\ srv' = [srv EXCEPT ![i] = r] /\ UNCHANGED deployed
  BY DEF DrainTimesOut
<1>2. r \in Server
  BY <1>1, ServerFields DEF Server, Startup
<1>3. ServerOf(i)'
  BY <1>1, ServerFields DEF ServerOf, Live, Finished, AllPools, Server, Startup, deployed,
     migVars
<1> QED
  BY <1>1, <1>2, <1>3, ServerChange

LEMMA JoinInvariant ==
  ASSUME IInv, NEW i \in Instance, Join(i)
  PROVE  IInv'
<1> DEFINE r == [srv[i] EXCEPT !.step = "closing"]
<1>1. /\ srv[i].step = "joining" /\ srv[i].goroutine \in {"nil", "err"}
      /\ srv' = [srv EXCEPT ![i] = r] /\ UNCHANGED deployed
  BY DEF Join, Moves
<1>2. r \in Server
  BY <1>1, ServerFields DEF Server, Startup
<1>3. ServerOf(i)'
  BY <1>1, ServerFields DEF ServerOf, Live, Finished, AllPools, Server, Startup, deployed,
     migVars
<1> QED
  BY <1>1, <1>2, <1>3, ServerChange

LEMMA ClosePoolsInvariant ==
  ASSUME IInv, NEW i \in Instance, ClosePools(i)
  PROVE  IInv'
<1> DEFINE r == [srv[i] EXCEPT !.step = "closed", !.pools = {}]
<1>1. /\ srv[i].step = "closing"
      /\ srv' = [srv EXCEPT ![i] = r] /\ UNCHANGED deployed
  BY DEF ClosePools
<1>2. r \in Server
  BY <1>1, ServerFields DEF Server, Startup
<1>3. ServerOf(i)'
  BY <1>1, ServerFields DEF ServerOf, Live, Finished, AllPools, Server, Startup, deployed,
     migVars
<1> QED
  BY <1>1, <1>2, <1>3, ServerChange

LEMMA ServerStepInvariant ==
  ASSUME IInv, NEW i \in Instance, ServerStep(i) \/ GoroutineStep(i)
  PROVE  IInv'
<1>1. CASE StartFails(i) \/ Exit(i)
  BY <1>1, EndInvariant DEF StartFails, Exit
<1> QED
  BY <1>1, OpenWriterInvariant, OpenReaderInvariant, SeedClientInvariant, SeedUserInvariant,
     ServeFailedInvariant, ShutdownInvariant, DrainedInvariant, DrainTimesOutInvariant,
     JoinInvariant, ClosePoolsInvariant, ListenInvariant, EndListenInvariant
     DEF ServerStep, GoroutineStep

-----------------------------------------------------------------------------
(* The theorems. *)

LEMMA NextInvariant == IInv /\ [Next]_vars => IInv'
<1> SUFFICES ASSUME IInv, [Next]_vars PROVE IInv'
  OBVIOUS
<1>1. CASE UNCHANGED vars
  BY <1>1 DEF IInv, TypeOK, MigTypeOK, MigInv, Bootstrapped, Provisioned, Lost, Past, Finished,
     UpToDate, ServerInv, ServerOf, Live, AllPools, vars, migVars, catalog
<1>2. ASSUME NEW i \in Instance, NEW image \in Version, StartTask(i, image)
      PROVE  IInv'
  BY <1>2, StartTaskInvariant
<1>3. ASSUME NEW i \in Instance, NEW cmd \in Command, NEW image \in Version,
             StartCommand(i, cmd, image)
      PROVE  IInv'
  BY <1>3, StartCommandInvariant
<1>4. ASSUME NEW i \in Instance, MigratorStep(i) \/ MigratorFails(i)
      PROVE  IInv'
  BY <1>4, MigStepInvariant, FailRunInvariant DEF MigratorStep, MigratorFails
<1>5. ASSUME NEW i \in Instance, ServerStep(i) \/ GoroutineStep(i)
      PROVE  IInv'
  BY <1>5, ServerStepInvariant
<1>6. ASSUME NEW i \in Instance,
             \/ StartServer(i) \/ ListenFails(i) \/ Accept(i) \/ Answer(i) \/ Signal(i)
      PROVE  IInv'
  BY <1>6, StartServerInvariant, ListenFailsInvariant, AcceptInvariant, AnswerInvariant,
     SignalInvariant
<1>7. ASSUME NEW i \in Instance, Kill(i)
      PROVE  IInv'
  BY <1>7, EndInvariant DEF Kill
<1> QED
  BY <1>1, <1>2, <1>3, <1>4, <1>5, <1>6, <1>7 DEF Next

\* What the runs of the migrator leave behind, and what the servers hold,
\* whatever the tasks of the deployment do.
THEOREM Invariance == Spec => []IInv
BY InitInvariant, NextInvariant, PTL DEF Spec

\* Types.
THEOREM TypeCorrect == Spec => []TypeOK
<1>1. IInv => TypeOK
  BY DEF IInv
<1> QED
  BY <1>1, Invariance, PTL

\* A run that lost a race on a catalog row has lost a grant or the password,
\* and leaves a database that the servers can be started on later, for every
\* number of tasks and attempts.
THEOREM BootstrapSurvivesRaces == Spec => []RacesCostOnlyGrants
<1>1. IInv => RacesCostOnlyGrants
  BY Rows DEF IInv, MigInv, Lost, UpToDate, RacesCostOnlyGrants, Grants
<1> QED
  BY <1>1, Invariance, PTL

\* A server that lives has its migrations and its role, whatever the runs of
\* other tasks and of operators do meanwhile, if none takes a migration back.
THEOREM ServersStartReady == Spec => []StartsReady
<1>1. IInv => StartsReady
  <2> SUFFICES ASSUME IInv, NEW i \in Instance, Live(i), ~ rolledBack
               PROVE  /\ database /\ version >= mig[i].image
                      /\ scoped =>
                           /\ role = "synced"
                           /\ acl = {"connect", "usage", "defaults"}
                           /\ 1..mig[i].image \subseteq granted
    BY DEF StartsReady
  <2>1. Finished(i) /\ Bootstrapped(i) /\ Provisioned(i)
    BY DEF IInv, MigInv, ServerInv, ServerOf
  <2>2. database /\ version >= mig[i].image
    BY <2>1 DEF Finished, Bootstrapped, UpToDate
  <2>3. ASSUME scoped
        PROVE  /\ role = "synced" /\ "public" \notin acl
               /\ {"connect", "usage", "defaults"} \subseteq acl
               /\ 1..mig[i].image \subseteq granted
    BY <2>1, <2>3 DEF Provisioned, Past
  <2>4. acl \subseteq Privilege
    BY DEF IInv, TypeOK, MigTypeOK
  <2> QED
    BY <2>2, <2>3, <2>4 DEF Privilege
<1> QED
  BY <1>1, Invariance, PTL

\* A request has its pools until Shutdown has stopped waiting for it, for
\* every number of requests and however the signal, the listener and the
\* startup race.
THEOREM RequestsKeepTheirPools == Spec => []DrainBeforeClose
<1>1. IInv => DrainBeforeClose
  BY ServerFields DEF IInv, ServerInv, ServerOf, AllPools, DrainBeforeClose
<1> QED
  BY <1>1, Invariance, PTL

===============================================================================
