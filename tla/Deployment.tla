------------------------------ MODULE Deployment ------------------------------
(***************************************************************************)
(* The tasks of a deployment: in each, the migrator runs first and the     *)
(* server starts only if it has succeeded (dependsOn SUCCESS, app/iac).    *)
(* The servers are those of app/auth/cmd/authz and app/api/cmd/api, which  *)
(* start and stop alike; that of app/auth seeds the demo accounts too.     *)
(*                                                                         *)
(* What a server is told by its environment is valid: a server that is     *)
(* told nonsense ends before it opens anything.  A step of the startup     *)
(* fails if the database is not as it needs it, if the signal has already  *)
(* cancelled its context, or for a reason from outside.                    *)
(***************************************************************************)
EXTENDS Migrator

CONSTANTS MaxInFlight  \* bound of the requests one server answers at a time

ASSUME DeploymentAssumption == MaxInFlight \in Nat \ {0}

VARIABLES
  stack,   \* which server the tasks run: "auth" or "api"
  split,   \* whether the DB_READER_* variables name another endpoint
  srv      \* the server of each task

vars == <<migVars, stack, split, srv>>

Startup == {"writer", "reader", "client", "user"}

\* "pools" are the connection pools that are open; "goroutine" is the one
\* that listens, with what it sends to serveErr once it ends; "late" says
\* that Shutdown has given up on requests still in flight.
Server == [step : Startup \cup {"off", "serving", "draining", "joining",
                                "closing", "closed", "ended"},
           goroutine : {"off", "starting", "open", "closing", "nil", "err"},
           pools : SUBSET {"writer", "reader"}, inflight : 0..MaxInFlight,
           signalled : BOOLEAN, late : BOOLEAN]

NoServer == [step |-> "off", goroutine |-> "off", pools |-> {}, inflight |-> 0,
             signalled |-> FALSE, late |-> FALSE]

Init ==
  /\ MigInit
  /\ stack \in {"auth", "api"} /\ split \in BOOLEAN
  /\ srv = [i \in Instance |-> NoServer]

Live(i) == srv[i].step \notin {"off", "ended"}
Moves(i, step) == srv' = [srv EXCEPT ![i].step = step]
deployed == <<migVars, stack, split>>

-----------------------------------------------------------------------------
(* Tasks. *)

\* ECS starts a task, in the place of one that has ended; a new image may
\* bring new migrations.
StartTask(i, image) ==
  /\ ~Live(i)
  /\ StartRun(i, "up", image)
  /\ srv' = [srv EXCEPT ![i] = NoServer]
  /\ UNCHANGED <<stack, split>>

\* An operator runs the migrator by hand, as one more task without a server.
StartCommand(i, cmd, image) ==
  /\ ~Live(i) /\ cmd # "up"
  /\ StartRun(i, cmd, image)
  /\ UNCHANGED <<stack, split, srv>>

MigratorStep(i) == MigStep(i) /\ UNCHANGED <<stack, split, srv>>
MigratorFails(i) == FailRun(i) /\ UNCHANGED <<stack, split, srv>>

\* The migrator's success lets the server start; it reads its environment,
\* and that of app/auth its signing keys.
StartServer(i) ==
  /\ srv[i].step = "off" /\ mig[i].step = "done" /\ mig[i].cmd = "up"
  /\ Moves(i, "writer")
  /\ UNCHANGED deployed

-----------------------------------------------------------------------------
(* Startup: OpenPair, and seedPostgres in app/auth. *)

\* A server connects as the role it was given, or as the master.
Connects ==
  /\ database
  /\ scoped => role = "synced" /\ {"connect", "public"} \cap acl # {}

\* The tables of the first migration can be written.
Writes ==
  /\ Connects /\ version >= 1
  /\ scoped => "usage" \in acl /\ 1 \in granted

OpenWriter(i) ==
  /\ srv[i].step = "writer" /\ Connects /\ ~srv[i].signalled
  /\ srv' = [srv EXCEPT ![i].pools = {"writer"},
                        ![i].step = IF split THEN "reader"
                                    ELSE IF stack = "auth" THEN "client" ELSE "serving",
                        ![i].goroutine = IF split \/ stack = "auth" THEN "off" ELSE "starting"]
  /\ UNCHANGED deployed

\* Equal settings share one pool; different ones open a second.
OpenReader(i) ==
  /\ srv[i].step = "reader" /\ Connects /\ ~srv[i].signalled
  /\ srv' = [srv EXCEPT ![i].pools = {"writer", "reader"},
                        ![i].step = IF stack = "auth" THEN "client" ELSE "serving",
                        ![i].goroutine = IF stack = "auth" THEN "off" ELSE "starting"]
  /\ UNCHANGED deployed

SeedClient(i) ==
  /\ srv[i].step = "client" /\ Writes /\ ~srv[i].signalled
  /\ Moves(i, "user")
  /\ UNCHANGED deployed

SeedUser(i) ==
  /\ srv[i].step = "user" /\ Writes /\ ~srv[i].signalled
  /\ srv' = [srv EXCEPT ![i].step = "serving", ![i].goroutine = "starting"]
  /\ UNCHANGED deployed

\* What was opened is closed again, and run returns the error.
StartFails(i) ==
  /\ srv[i].step \in Startup
  /\ srv' = [srv EXCEPT ![i] = [NoServer EXCEPT !.step = "ended"]]
  /\ UNCHANGED deployed

-----------------------------------------------------------------------------
(* Serving: the goroutine that listens, and the requests. *)

BadListen(i) ==
  /\ srv[i].goroutine = "starting"
  /\ srv' = [srv EXCEPT ![i].goroutine = IF srv[i].step = "serving" THEN "open" ELSE "off"]
  /\ UNCHANGED deployed

\* Once Shutdown was called, ListenAndServe returns at once.
Listen(i) ==
  /\ srv[i].goroutine = "starting"
  /\ srv' = [srv EXCEPT ![i].goroutine = IF srv[i].step = "serving" THEN "open" ELSE "nil"]
  /\ UNCHANGED deployed

\* The port is taken, or accepting fails.
ListenFails(i) ==
  /\ srv[i].goroutine \in {"starting", "open"}
  /\ srv' = [srv EXCEPT ![i].goroutine = "err"]
  /\ UNCHANGED deployed

\* ErrServerClosed counts as nil.
EndListen(i) ==
  /\ srv[i].goroutine = "closing"
  /\ srv' = [srv EXCEPT ![i].goroutine = "nil"]
  /\ UNCHANGED deployed

Accept(i) ==
  /\ srv[i].goroutine = "open" /\ srv[i].inflight < MaxInFlight
  /\ srv' = [srv EXCEPT ![i].inflight = @ + 1]
  /\ UNCHANGED deployed

Answer(i) ==
  /\ srv[i].inflight > 0
  /\ srv' = [srv EXCEPT ![i].inflight = @ - 1]
  /\ UNCHANGED deployed

-----------------------------------------------------------------------------
(* The end: run's select, Shutdown, and the deferred closing of the pools. *)

Signal(i) ==
  /\ Live(i) /\ ~srv[i].signalled
  /\ srv' = [srv EXCEPT ![i].signalled = TRUE]
  /\ UNCHANGED deployed

\* The select takes either case when both are ready.
ServeFailed(i) ==
  /\ srv[i].step = "serving" /\ srv[i].goroutine = "err"
  /\ Moves(i, "closing")
  /\ UNCHANGED deployed

BadShutdown(i) ==
  /\ srv[i].step = "serving" /\ srv[i].signalled
  /\ srv' = [srv EXCEPT ![i].step = "draining", ![i].pools = {},
                        ![i].goroutine = IF @ = "open" THEN "closing" ELSE @]
  /\ UNCHANGED deployed

\* Shutdown closes the listener ...
Shutdown(i) ==
  /\ srv[i].step = "serving" /\ srv[i].signalled
  /\ srv' = [srv EXCEPT ![i].step = "draining",
                        ![i].goroutine = IF @ = "open" THEN "closing" ELSE @]
  /\ UNCHANGED deployed

\* ... and waits for the requests, shutdownTimeout at most: with an error
\* run returns at once, without it waits for the goroutine.
Drained(i) ==
  /\ srv[i].step = "draining" /\ srv[i].inflight = 0
  /\ Moves(i, "joining")
  /\ UNCHANGED deployed

DrainTimesOut(i) ==
  /\ srv[i].step = "draining" /\ srv[i].inflight > 0
  /\ srv' = [srv EXCEPT ![i].step = "closing", ![i].late = TRUE]
  /\ UNCHANGED deployed

Join(i) ==
  /\ srv[i].step = "joining" /\ srv[i].goroutine \in {"nil", "err"}
  /\ Moves(i, "closing")
  /\ UNCHANGED deployed

ClosePools(i) ==
  /\ srv[i].step = "closing"
  /\ srv' = [srv EXCEPT ![i].step = "closed", ![i].pools = {}]
  /\ UNCHANGED deployed

\* The process takes its goroutines with it.
Exit(i) ==
  /\ srv[i].step = "closed"
  /\ srv' = [srv EXCEPT ![i] = [NoServer EXCEPT !.step = "ended"]]
  /\ UNCHANGED deployed

Kill(i) ==
  /\ Live(i)
  /\ srv' = [srv EXCEPT ![i] = [NoServer EXCEPT !.step = "ended"]]
  /\ UNCHANGED deployed

-----------------------------------------------------------------------------
(* Specification. *)

\* What the code of a server does by itself, when it is given the processor.
ServerStep(i) ==
  \/ OpenWriter(i) \/ OpenReader(i) \/ SeedClient(i) \/ SeedUser(i) \/ StartFails(i)
  \/ ServeFailed(i) \/ Shutdown(i) \/ Drained(i) \/ DrainTimesOut(i) \/ Join(i)
  \/ ClosePools(i) \/ Exit(i)

GoroutineStep(i) == Listen(i) \/ EndListen(i)

Next ==
  \E i \in Instance :
    \/ \E image \in Version : StartTask(i, image)
    \/ \E cmd \in Command, image \in Version : StartCommand(i, cmd, image)
    \/ MigratorStep(i) \/ MigratorFails(i) \/ StartServer(i)
    \/ ServerStep(i) \/ GoroutineStep(i) \/ ListenFails(i)
    \/ Accept(i) \/ Answer(i) \/ Signal(i) \/ Kill(i)

\* A process gets the processor, both its main goroutine and the one that
\* listens; that its statements and its peers answer is not assumed.
Fairness ==
  \A i \in Instance : WF_vars(ServerStep(i)) /\ WF_vars(GoroutineStep(i))

Spec == Init /\ [][Next]_vars /\ Fairness

-----------------------------------------------------------------------------
(* Correctness. *)

TypeOK ==
  /\ MigTypeOK
  /\ stack \in {"auth", "api"} /\ split \in BOOLEAN
  /\ srv \in [Instance -> Server]

\* What the order of the containers and of the migrator's steps is for: while
\* a server lives, whatever other runs of the migrator are doing, its
\* migrations are applied and its role can use their tables, and the tables
\* of later ones; PUBLIC cannot connect.
StartsReady ==
  \A i \in Instance :
    Live(i) /\ ~rolledBack =>
      /\ database /\ version >= mig[i].image
      /\ scoped =>
           /\ role = "synced"
           /\ acl = {"connect", "usage", "defaults"}
           /\ 1..mig[i].image \subseteq granted

\* A request keeps the pools it works with: they are closed under it only
\* once Shutdown has given up waiting, or after the listener has failed.
DrainBeforeClose ==
  \A i \in Instance :
    srv[i].inflight > 0 =>
      \/ srv[i].late \/ srv[i].goroutine = "err"
      \/ srv[i].pools = IF split THEN {"writer", "reader"} ELSE {"writer"}

\* Whatever a server is doing when the signal comes, starting included, its
\* process ends.
SignalledExits ==
  \A i \in Instance : (Live(i) /\ srv[i].signalled) ~> ~Live(i)

=============================================================================
