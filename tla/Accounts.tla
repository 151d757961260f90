------------------------------ MODULE Accounts ------------------------------
(***************************************************************************)
(* The accounts of app/auth, its users and its clients, and what is stored *)
(* for them: consents, authorization codes and refresh tokens.             *)
(*                                                                         *)
(* The admin API creates, updates and deletes accounts through the writer  *)
(* pool.  A deletion is one transaction of several statements, which keeps *)
(* the rows it has deleted locked until it commits; no foreign key ties    *)
(* the tables together.  The requests that store rows for an account look  *)
(* it up first, through the reader pool, which may lead to a replica.      *)
(*                                                                         *)
(* What an account contains is left out, and so is what the other modules  *)
(* say of codes and tokens: their expiry, their single use, their chains.  *)
(*                                                                         *)
(* Each operator Bad... is a form that the definition it stands before     *)
(* could have by mistake; it shows that the properties can fail.           *)
(***************************************************************************)
EXTENDS Naturals, Sequences, FiniteSets

CONSTANTS
  User,
  Client,
  Seeded,       \* the demo user and client
  Worker,       \* requests being served at one time
  MaxVersions,  \* bound: changes of the tables of accounts, the first included
  MaxRows       \* bound: rows ever stored for accounts

Account == User \cup Client

ASSUME AccountsAssumption ==
  /\ User \cap Client = {}
  /\ Seeded \subseteq Account
  /\ MaxVersions \in Nat \ {0} /\ MaxRows \in Nat

VARIABLES
  log,      \* versions of the tables of accounts: the accounts that are stored
  shown,    \* the version that the reader pool shows
  rows,     \* the rows stored for accounts
  serial,   \* rows stored so far
  req       \* what each worker is doing

vars == <<log, shown, rows, serial, req>>

-----------------------------------------------------------------------------
(* The tables. *)

Kind == {"consent", "token", "code"}

Row == [id : Nat, kind : Kind, user : User, client : Client]

Stored == log[Len(log)]

\* Fault: nobody looks for the account that a request names.
BadKnown(a) == a \in Account

Known(a) == a \in log[shown]

\* Fault: DeleteRefreshTokensBy... is forgotten.
BadOwned(a, r) == r.kind # "token" /\ (r.user = a \/ r.client = a)

\* The rows that the statements of a deletion select.
Owned(a, r) == r.user = a \/ r.client = a

\* Fault: the clients' rows are deleted in another order than the users'.
BadDependents(a) ==
  IF a \in User THEN <<"consent", "token", "code">>
                ELSE <<"consent", "code", "token">>

\* The order in which a deletion goes through the tables.
Dependents(a) == <<"consent", "token", "code">>

-----------------------------------------------------------------------------
(* The requests. *)

Idle == [op |-> "idle"]

Deletion == [op : {"delete"}, account : Account,
             step  : 1 .. 5,      \* the next: a table, then the account, the commit
             gone  : SUBSET Row,  \* rows deleted so far
             since : Nat]         \* history: rows stored when it began

Update == [op : {"update"}, account : Account]

\* step is what comes next.  start is history: the version shown at the beginning.
Grant == [op   : {"authorize", "accept", "exchange", "refresh"},
          step : {"find", "consume", "owner", "client", "store"},
          user : User, client : Client, row : Nat, start : Nat \ {0}]

Become(w, r) == req' = [req EXCEPT ![w] = r]

At(w, op, step) == req[w].op = op /\ req[w].step = step

Deletes(w) == req[w].op = "delete"

Grants(w) == req[w].op \in {"authorize", "accept", "exchange", "refresh"}

\* Row r is deleted by a transaction, that of v, which has not ended.
LockedRow(r, v) == Deletes(v) /\ r \in req[v].gone

LockedAccount(a, v) == Deletes(v) /\ req[v].account = a /\ req[v].step = 5

Init ==
  /\ log = <<Account>>
  /\ shown = 1
  /\ rows = {}
  /\ serial = 0
  /\ req = [w \in Worker |-> Idle]

\* INSERT ... ON CONFLICT (id) DO UPDATE
Upsert(a) ==
  /\ \A v \in Worker : ~ LockedAccount(a, v)
  /\ Len(log) < MaxVersions
  /\ log' = IF a \in Stored THEN log ELSE Append(log, Stored \cup {a})

\* POST of a new or a stored account; the seeding at the start of a process.
CreateAccount(w, a) ==
  /\ req[w] = Idle
  /\ Upsert(a)
  /\ UNCHANGED <<shown, rows, serial, req>>

SeedAccount(a) ==
  /\ Upsert(a)
  /\ UNCHANGED <<shown, rows, serial, req>>

\* PUT: the account is read, and then saved.
BeginUpdate(w, a) ==
  /\ req[w] = Idle
  /\ Known(a)
  /\ Become(w, [op |-> "update", account |-> a])
  /\ UNCHANGED <<log, shown, rows, serial>>

SaveUpdate(w) ==
  /\ req[w].op = "update"
  /\ Upsert(req[w].account)
  /\ Become(w, Idle)
  /\ UNCHANGED <<shown, rows, serial>>

-----------------------------------------------------------------------------
(* Deletions. *)

BeginDelete(w, a) ==
  /\ req[w] = Idle
  /\ Become(w, [op |-> "delete", account |-> a, step |-> 1, gone |-> {},
                since |-> serial])
  /\ UNCHANGED <<log, shown, rows, serial>>

\* The rows of the next statement of a deletion.
Targets(w) ==
  {r \in rows : /\ r.kind = Dependents(req[w].account)[req[w].step]
                /\ Owned(req[w].account, r)}

\* A statement waits for the rows that other transactions have locked.  (Rows
\* that are stored while it waits are not in its snapshot: to the deletion they
\* are like rows stored after the statement.)
DeleteDependents(w) ==
  /\ Deletes(w) /\ req[w].step \in 1 .. 3
  /\ \A r \in Targets(w), v \in Worker \ {w} : ~ LockedRow(r, v)
  /\ Become(w, [req[w] EXCEPT !.step = @ + 1, !.gone = @ \cup Targets(w)])
  /\ UNCHANGED <<log, shown, rows, serial>>

\* Without the account there is nothing to delete: the transaction is rolled back.
DeleteAccount(w) ==
  /\ Deletes(w) /\ req[w].step = 4
  /\ \A v \in Worker \ {w} : ~ LockedAccount(req[w].account, v)
  /\ Become(w, IF req[w].account \in Stored
               THEN [req[w] EXCEPT !.step = 5] ELSE Idle)
  /\ UNCHANGED <<log, shown, rows, serial>>

\* Fault: the transaction stays open.
BadCommitDelete(w) ==
  /\ Deletes(w) /\ req[w].step = 5
  /\ Len(log) < MaxVersions
  /\ log' = Append(log, Stored \ {req[w].account})
  /\ rows' = rows \ req[w].gone
  /\ Become(w, [req[w] EXCEPT !.step = @ + 1])
  /\ UNCHANGED <<shown, serial>>

CommitDelete(w) ==
  /\ Deletes(w) /\ req[w].step = 5
  /\ Len(log) < MaxVersions
  /\ log' = Append(log, Stored \ {req[w].account})
  /\ rows' = rows \ req[w].gone
  /\ Become(w, Idle)
  /\ UNCHANGED <<shown, serial>>

-----------------------------------------------------------------------------
(* The requests that store rows for accounts. *)

Begin(w, op, step, u, c, i) ==
  /\ req[w] = Idle
  /\ Become(w, [op |-> op, step |-> step, user |-> u, client |-> c, row |-> i,
                start |-> shown])
  /\ UNCHANGED <<log, shown, rows, serial>>

Continue(w, step) ==
  /\ Become(w, [req[w] EXCEPT !.step = step])
  /\ UNCHANGED <<log, shown, rows, serial>>

\* /authorize validates the client first.  The session of u outlives its account.
BeginAuthorize(w, u, c) == Known(c) /\ Begin(w, "authorize", "owner", u, c, 0)

\* The accept form of /consent.
BeginAccept(w, u, c) == Begin(w, "accept", "owner", u, c, 0)

\* A grant of /token, with a code or a refresh token of its client.
BeginToken(w, op, r) ==
  /\ Known(r.client)
  /\ r \in rows
  /\ r.kind = (IF op = "exchange" THEN "code" ELSE "token")
  /\ Begin(w, op, "find", r.user, r.client, r.id)

Redeemed(w) == {r \in rows : r.id = req[w].row}

FindRow(w) ==
  /\ Grants(w) /\ req[w].step = "find"
  /\ Redeemed(w) # {}
  /\ Continue(w, IF req[w].op = "exchange" THEN "consume" ELSE "owner")

\* A code is deleted when it is redeemed.
ConsumeCode(w) ==
  /\ At(w, "exchange", "consume")
  /\ Redeemed(w) # {}
  /\ \A r \in Redeemed(w), v \in Worker : ~ LockedRow(r, v)
  /\ rows' = rows \ Redeemed(w)
  /\ Become(w, [req[w] EXCEPT !.step = "owner"])
  /\ UNCHANGED <<log, shown, serial>>

FindOwner(w) ==
  /\ Grants(w) /\ req[w].step = "owner"
  /\ Known(req[w].user)
  /\ Continue(w, IF req[w].op \in {"authorize", "accept"} THEN "client" ELSE "store")

\* Authorize validates the request, with its client, once more.
FindClient(w) ==
  /\ Grants(w) /\ req[w].step = "client"
  /\ Known(req[w].client)
  /\ Continue(w, "store")

Insert(w, kind) ==
  /\ serial < MaxRows
  /\ serial' = serial + 1
  /\ rows' = rows \cup {[id |-> serial + 1, kind |-> kind,
                         user |-> req[w].user, client |-> req[w].client]}
  /\ Become(w, Idle)
  /\ UNCHANGED <<log, shown>>

StoreCode(w) == At(w, "authorize", "store") /\ Insert(w, "code")

StoreToken(w) == At(w, "exchange", "store") /\ Insert(w, "token")

\* The redeemed token is kept, marked, beside the new one.
RotateToken(w) ==
  /\ At(w, "refresh", "store")
  /\ Redeemed(w) # {}
  /\ \A r \in Redeemed(w), v \in Worker : ~ LockedRow(r, v)
  /\ Insert(w, "token")

Consents(w) ==
  {r \in rows : /\ r.kind = "consent"
                /\ r.user = req[w].user /\ r.client = req[w].client}

StoreConsent(w) ==
  /\ At(w, "accept", "store")
  /\ Consents(w) = {}
  /\ Insert(w, "consent")

\* ON CONFLICT DO UPDATE: the consent was given before.
RepeatConsent(w) ==
  /\ At(w, "accept", "store")
  /\ Consents(w) # {}
  /\ \A r \in Consents(w), v \in Worker : ~ LockedRow(r, v)
  /\ Become(w, Idle)
  /\ UNCHANGED <<log, shown, rows, serial>>

\* An account or a row is missing, a statement fails, the process stops, or the
\* code asks for no refresh token: the request ends, and its transaction, if it
\* has one, is rolled back.
Fail(w) ==
  /\ req[w] # Idle
  /\ Become(w, Idle)
  /\ UNCHANGED <<log, shown, rows, serial>>

\* The replica replays a commit.
Replay ==
  /\ shown < Len(log)
  /\ shown' = shown + 1
  /\ UNCHANGED <<log, rows, serial, req>>

-----------------------------------------------------------------------------
Administer(w) ==
  \/ \E a \in Account : CreateAccount(w, a) \/ BeginUpdate(w, a) \/ BeginDelete(w, a)
  \/ SaveUpdate(w)
  \/ DeleteDependents(w) \/ DeleteAccount(w) \/ CommitDelete(w)

Serve(w) ==
  \/ \E u \in User, c \in Client : BeginAuthorize(w, u, c) \/ BeginAccept(w, u, c)
  \/ \E op \in {"exchange", "refresh"}, r \in rows : BeginToken(w, op, r)
  \/ FindRow(w) \/ ConsumeCode(w) \/ FindOwner(w) \/ FindClient(w)
  \/ StoreCode(w) \/ StoreToken(w) \/ RotateToken(w)
  \/ StoreConsent(w) \/ RepeatConsent(w)

Next ==
  \/ \E w \in Worker : Administer(w) \/ Serve(w) \/ Fail(w)
  \/ \E a \in Seeded : SeedAccount(a)
  \/ Replay

Spec == Init /\ [][Next]_vars

-----------------------------------------------------------------------------
(* What the tables promise. *)

\* Every variable stays in its type.
TypeOK ==
  /\ log \in Seq(SUBSET Account) /\ Len(log) \in 1 .. MaxVersions
  /\ shown \in 1 .. Len(log)
  /\ rows \subseteq Row
  /\ serial \in 0 .. MaxRows
  /\ \A r \in rows : r.id \in 1 .. serial
  /\ req \in [Worker -> {Idle} \cup Deletion \cup Update \cup Grant]

\* The next statement of w waits for a lock that v holds.
Waits(w, v) ==
  /\ Deletes(w)
  /\ \/ req[w].step \in 1 .. 3 /\ \E r \in Targets(w) : LockedRow(r, v)
     \/ req[w].step = 4 /\ LockedAccount(req[w].account, v)

\* Deletions of users and clients that share consents, codes and tokens never
\* wait for each other in a circle: among any that wait, one waits for none of
\* them.  Both writers go through the tables in one order.
NoCircularWait ==
  \A W \in (SUBSET Worker) \ {{}} : \E w \in W : \A v \in W \ {w} : ~ Waits(w, v)

\* The account that w deletes goes.
Completes(w) ==
  Deletes(w) /\ req[w].account \in Stored \ Stored' /\ req'[w] = Idle

CascadeStep ==
  /\ \A w \in Worker : Completes(w) =>
       \A r \in rows' : req[w].account \in {r.user, r.client} => r.id > req[w].since
  /\ \A r \in rows \ rows' :
       \/ \E w \in Worker : At(w, "exchange", "consume") /\ req[w].row = r.id
       \/ \E w \in Worker : Completes(w) /\ req[w].account \in {r.user, r.client}

\* No row that was stored for an account when its deletion began is left when
\* it commits, whatever requests and deletions were under way beside it; and
\* but for codes that are redeemed, a row goes only together with its user or
\* its client: a deletion that is rolled back, since a statement failed or
\* another has deleted the account, has deleted nothing.
CascadeComplete == [][CascadeStep]_vars

GrantStoresForTheLiving ==
  \A w \in Worker : Grants(w) /\ req'[w] # req[w] =>
    \A r \in rows' \ rows : \A a \in {r.user, r.client} :
      \E i \in req[w].start .. Len(log) : a \in log[i]

\* A request stores a row only for accounts that were stored, as the reader
\* pool or the writer pool shows, at some time since the request began: once the
\* reader pool shows a deletion, new requests bring nothing back.
NothingForTheDead == [][GrantStoresForTheLiving]_vars

=============================================================================
