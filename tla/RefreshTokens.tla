---------------------------- MODULE RefreshTokens ----------------------------
(***************************************************************************)
(* The refresh tokens of app/auth: the refresh_tokens table and the        *)
(* requests that work on it concurrently, at the grain of its SQL          *)
(* statements under Postgres' READ COMMITTED isolation (BeginTx with nil   *)
(* options).                                                               *)
(*                                                                         *)
(* A worker serves one request at a time:                                  *)
(*                                                                         *)
(*   refresh grant   FindByTokenHash, checks -> BeginTx -> UPDATE (consume)*)
(*                   -> INSERT, COMMIT; or, when the token was already     *)
(*                   consumed, RevokeFamily                                *)
(*   /revoke         FindByTokenHash, checks -> RevokeFamily               *)
(*                                                                         *)
(* RevokeFamily is one DELETE statement, in two steps: the rows it sees    *)
(* are those of the snapshot taken when it starts, and it waits for the    *)
(* rows another transaction has locked before it deletes them.  A row that *)
(* is committed after the snapshot is not seen.                            *)
(*                                                                         *)
(* Random values never repeat: a new token is one never handed out.  The   *)
(* family id is drawn together with the first token of a family, which     *)
(* names it here.  The service and the database read one clock.            *)
(*                                                                         *)
(* Each operator Bad... is a form that the definition it stands before     *)
(* could have by mistake; it shows that the properties can fail.           *)
(***************************************************************************)
EXTENDS Naturals, FiniteSets, Functions

CONSTANTS
  Token,        \* refresh tokens (their hashes are one-to-one with them)
  NoToken,
  Client,       \* clients registered for the refresh_token grant
  Confidential, \* those of them that have a secret
  NoClient,     \* a request without client_id
  User,
  ScopeValue,
  Offline,      \* the scope value offline_access
  Worker,       \* requests being served at one time
  TTL,          \* RefreshTokenTTL, in ticks
  MaxTime,      \* bound of the clock
  MayFail       \* whether requests may fail half way (see Fail)

ASSUME RefreshTokensAssumption ==
  /\ IsFiniteSet(Token) /\ NoToken \notin Token
  /\ Confidential \subseteq Client /\ NoClient \notin Client
  /\ Offline \in ScopeValue
  /\ TTL \in Nat \ {0} /\ MaxTime \in Nat
  /\ MayFail \in BOOLEAN

VARIABLES
  now,     \* the clock
  rows,    \* the table: a function on the token hashes stored in it
  req,     \* what each worker is doing
  handed,  \* history: every token that was ever stored
  heir     \* history: <<old, new>> for every committed rotation

vars == <<now, rows, req, handed, heir>>

-----------------------------------------------------------------------------
(* The table. *)

Scope == SUBSET ScopeValue

Row == [family : Token, client : Client, user : User, scope : Scope,
        expires : Nat, consumed : BOOLEAN]

Stored == DOMAIN rows

Family(f) == {t \in Stored : rows[t].family = f}

\* A row the queries with "expires_at > now()" see at time n.
Visible(t, n) == t \in Stored /\ rows[t].expires > n

Expired == {t \in Stored : rows[t].expires <= now}

Insert(t, row) ==
  rows' = [u \in Stored \cup {t} |-> IF u = t THEN row ELSE rows[u]]

Delete(S) == rows' = Restrict(rows, Stored \ S)

-----------------------------------------------------------------------------
(* The requests. *)

Steps == {"idle", "rotate", "consume", "probe", "insert", "revoke", "delete"}

Request == [step    : Steps,
            old     : Token \cup {NoToken},  \* the token presented
            family  : Token \cup {NoToken},  \* its family, as read
            row     : Row \cup {NoToken},    \* the row of the new token
            started : Nat,                   \* when the transaction began
            seen    : SUBSET Token,          \* the snapshot of the DELETE
            doomed  : SUBSET Token]          \* history: the family's tokens when
                                             \* the request knew it must be revoked

Idle == [step |-> "idle", old |-> NoToken, family |-> NoToken,
         row |-> NoToken, started |-> 0, seen |-> {}, doomed |-> {}]

At(w, step) == req[w].step = step

Become(w, r) == req' = [req EXCEPT ![w] = r]

Finish(w) == Become(w, Idle)

\* The family will be revoked, with what it has now.
ToRevoke(w, f) ==
  Become(w, [Idle EXCEPT !.step = "revoke", !.family = f, !.doomed = Family(f)])

\* A transaction that has updated a row keeps it locked until it ends.
Locked(t) == \E w \in Worker : At(w, "insert") /\ req[w].old = t

\* Bound: a rotation starts, and a family starts, only while there is a
\* token left for each rotation under way.
Rotating == {w \in Worker : req[w].step \in {"rotate", "consume", "insert"}}

RoomToMint == Cardinality(Token \ handed) > Cardinality(Rotating)

-----------------------------------------------------------------------------
Init ==
  /\ now = 0
  /\ rows = [t \in {} |-> NoToken]
  /\ req = [w \in Worker |-> Idle]
  /\ handed = {}
  /\ heir = {}

\* Fault: the family id is forgotten.
BadIssue(t, c, u, s) ==
  /\ t \notin handed
  /\ RoomToMint
  /\ Insert(t, [family |-> NoToken, client |-> c, user |-> u, scope |-> s,
                expires |-> now + TTL, consumed |-> FALSE])
  /\ handed' = handed \cup {t}
  /\ UNCHANGED <<now, req, heir>>

\* The authorization code grant issues the first token of a new family when
\* offline_access was granted; Save is one INSERT.
Issue(t, c, u, s) ==
  /\ t \notin handed
  /\ RoomToMint
  /\ Offline \in s
  /\ Insert(t, [family |-> t, client |-> c, user |-> u, scope |-> s,
                expires |-> now + TTL, consumed |-> FALSE])
  /\ handed' = handed \cup {t}
  /\ UNCHANGED <<now, req, heir>>

\* FindByTokenHash finds no unexpired row, and evicts the row if it is there.
\* Both the refresh grant and /revoke stop here.
FindNothing(w, t) ==
  /\ At(w, "idle")
  /\ t \in Expired
  /\ ~ Locked(t)
  /\ Delete({t})
  /\ UNCHANGED <<now, req, handed, heir>>

\* The refresh grant finds a token that was already redeemed: reuse.
FindConsumed(w, t) ==
  /\ At(w, "idle")
  /\ Visible(t, now)
  /\ rows[t].consumed
  /\ ToRevoke(w, rows[t].family)
  /\ UNCHANGED <<now, rows, handed, heir>>

\* Fault: an empty request means every scope value.
BadNarrow(scope, asked) == IF asked = {} THEN ScopeValue ELSE asked

\* Scope.Narrow: an empty request keeps the scope, a wider one is refused.
Narrow(scope, asked) == IF asked = {} THEN scope ELSE asked

\* The refresh grant accepts the token of client c: the new row is the old
\* one with the narrowed scope (its expiry is set by Rotate, below).
FindLive(w, t, c, asked) ==
  /\ At(w, "idle")
  /\ Visible(t, now)
  /\ ~ rows[t].consumed
  /\ rows[t].client = c
  /\ asked \subseteq rows[t].scope
  /\ RoomToMint
  /\ Become(w, [Idle EXCEPT !.step = "rotate", !.old = t,
                            !.family = rows[t].family,
                            !.row = [rows[t] EXCEPT
                                       !.scope = Narrow(rows[t].scope, asked)]])
  /\ UNCHANGED <<now, rows, handed, heir>>

\* /revoke: a confidential client must name itself (and prove it); a public
\* one may leave client_id out.
FindToRevoke(w, t, c) ==
  /\ At(w, "idle")
  /\ Visible(t, now)
  /\ \/ rows[t].client = c
     \/ c = NoClient /\ rows[t].client \notin Confidential
  /\ ToRevoke(w, rows[t].family)
  /\ UNCHANGED <<now, rows, handed, heir>>

\* RefreshToken.Rotate gives the new token a full lifetime; BeginTx fixes the
\* time that now() returns in the statements of the transaction.
BeginRotate(w) ==
  /\ At(w, "rotate")
  /\ Become(w, [req[w] EXCEPT !.step = "consume", !.started = now,
                              !.row = [@ EXCEPT !.expires = now + TTL]])
  /\ UNCHANGED <<now, rows, handed, heir>>

\* Fault: the UPDATE lacks "AND consumed = false".
BadConsumable(w) == Visible(req[w].old, req[w].started)

Consumable(w) ==
  LET t == req[w].old IN Visible(t, req[w].started) /\ ~ rows[t].consumed

\* UPDATE ... SET consumed = true WHERE ... AND consumed = false: it waits for
\* a lock on the row, and then judges the row as it is.
ConsumeRow(w) ==
  /\ At(w, "consume")
  /\ ~ Locked(req[w].old)
  /\ Consumable(w)
  /\ Become(w, [req[w] EXCEPT !.step = "insert"])
  /\ UNCHANGED <<now, rows, handed, heir>>

ConsumeNoRow(w) ==
  /\ At(w, "consume")
  /\ ~ Locked(req[w].old)
  /\ ~ Consumable(w)
  /\ Become(w, [req[w] EXCEPT !.step = "probe",
                              !.doomed = IF Visible(req[w].old, req[w].started)
                                         THEN Family(req[w].family) ELSE {}])
  /\ UNCHANGED <<now, rows, handed, heir>>

\* Fault: a lost race is refused, and not treated as reuse.
BadProbeReused(w) ==
  /\ At(w, "probe")
  /\ Visible(req[w].old, req[w].started)
  /\ Finish(w)
  /\ UNCHANGED <<now, rows, handed, heir>>

\* The SELECT that tells ErrReused from ErrNotFound: a second statement, so
\* another request may have deleted the row since.
ProbeReused(w) ==
  /\ At(w, "probe")
  /\ Visible(req[w].old, req[w].started)
  /\ Become(w, [Idle EXCEPT !.step = "revoke", !.family = req[w].family,
                            !.doomed = req[w].doomed])
  /\ UNCHANGED <<now, rows, handed, heir>>

\* Fault: a row that expired meanwhile is taken for neither case.
BadProbeNotFound(w) ==
  /\ At(w, "probe")
  /\ req[w].old \notin Stored
  /\ Finish(w)
  /\ UNCHANGED <<now, rows, handed, heir>>

ProbeNotFound(w) ==
  /\ At(w, "probe")
  /\ ~ Visible(req[w].old, req[w].started)
  /\ Finish(w)
  /\ UNCHANGED <<now, rows, handed, heir>>

\* Fault: the old row is left redeemable.
BadCommitRotate(w, new) ==
  /\ At(w, "insert")
  /\ new \notin handed
  /\ Insert(new, req[w].row)
  /\ handed' = handed \cup {new}
  /\ heir' = heir \cup {<<req[w].old, new>>}
  /\ Finish(w)
  /\ UNCHANGED now

\* INSERT and COMMIT: both writes become visible together.
CommitRotate(w, new) ==
  /\ At(w, "insert")
  /\ new \notin handed
  /\ rows' = [t \in Stored \cup {new} |->
                IF t = new THEN req[w].row
                ELSE IF t = req[w].old THEN [rows[t] EXCEPT !.consumed = TRUE]
                ELSE rows[t]]
  /\ handed' = handed \cup {new}
  /\ heir' = heir \cup {<<req[w].old, new>>}
  /\ Finish(w)
  /\ UNCHANGED now

\* RevokeFamily's DELETE takes its snapshot ...
BeginRevoke(w) ==
  /\ At(w, "revoke")
  /\ Become(w, [req[w] EXCEPT !.step = "delete",
                              !.seen = Family(req[w].family)])
  /\ UNCHANGED <<now, rows, handed, heir>>

\* ... and deletes the rows of the snapshot when no other transaction holds
\* them.
RevokeFamily(w) ==
  /\ At(w, "delete")
  /\ \A t \in req[w].seen : ~ Locked(t)
  /\ Delete(req[w].seen)
  /\ Finish(w)
  /\ UNCHANGED <<now, handed, heir>>

\* A request ends half way: a lookup or a statement returns an error, the
\* caller's context is cancelled or the process dies.  An open transaction is
\* rolled back.
Fail(w) ==
  /\ MayFail
  /\ ~ At(w, "idle")
  /\ Finish(w)
  /\ UNCHANGED <<now, rows, handed, heir>>

\* Fault: the purge also deletes redeemed rows, as if they were of no use.
BadPurge ==
  /\ \A t \in Stored : ~ Locked(t)
  /\ Delete({t \in Stored : t \in Expired \/ rows[t].consumed})
  /\ UNCHANGED <<now, req, handed, heir>>

\* PurgeExpired, run by the purge ticker.
Purge ==
  /\ Expired # {}
  /\ \A t \in Expired : ~ Locked(t)
  /\ Delete(Expired)
  /\ UNCHANGED <<now, req, handed, heir>>

Tick ==
  /\ now < MaxTime
  /\ now' = now + 1
  /\ UNCHANGED <<rows, req, handed, heir>>

Find(w) ==
  \E t \in Token :
    \/ FindNothing(w, t)
    \/ FindConsumed(w, t)
    \/ \E c \in Client, asked \in Scope : FindLive(w, t, c, asked)
    \/ \E c \in Client \cup {NoClient} : FindToRevoke(w, t, c)

\* The statements that wait for row locks ...
Blocking(w) == ConsumeRow(w) \/ ConsumeNoRow(w) \/ RevokeFamily(w)

\* ... and the steps that never wait.
Prompt(w) ==
  \/ BeginRotate(w) \/ ProbeReused(w) \/ ProbeNotFound(w) \/ BeginRevoke(w)
  \/ \E new \in Token : CommitRotate(w, new)

Next ==
  \/ \E t \in Token, c \in Client, u \in User, s \in Scope : Issue(t, c, u, s)
  \/ \E w \in Worker : Find(w) \/ Blocking(w) \/ Prompt(w) \/ Fail(w)
  \/ Purge
  \/ Tick

Spec == Init /\ [][Next]_vars

\* A request under way goes on, and Postgres serves the waiters of a row lock
\* in turn.  No request has to arrive, and neither Purge nor Tick has to run.
Fairness ==
  \A w \in Worker : WF_vars(Prompt(w)) /\ SF_vars(Blocking(w))

FairSpec == Spec /\ Fairness

-----------------------------------------------------------------------------
(* Properties. *)

TypeOK ==
  /\ now \in Nat
  /\ Stored \subseteq Token
  /\ \A t \in Stored : rows[t] \in Row
  /\ req \in [Worker -> Request]
  /\ handed \subseteq Token
  /\ heir \subseteq Token \X Token

\* At any time a family has at most one token that was not redeemed, however
\* many requests present its tokens at once.
OneLivePerFamily ==
  \A t, u \in Stored :
    rows[t].family = rows[u].family /\ ~ rows[t].consumed /\ ~ rows[u].consumed
      => t = u

\* A token is redeemed at most once: of any number of concurrent or repeated
\* refresh grants with one token, at most one is answered with a new token.
RedeemedOnce ==
  \A p, q \in heir : p[1] = q[1] => p = q

\* All tokens of a family belong to the client and the user of the grant, and
\* a token never has a scope value that the token it replaced lacked.
ChainKeepsGrant ==
  /\ \A t, u \in Stored :
       rows[t].family = rows[u].family =>
         rows[t].client = rows[u].client /\ rows[t].user = rows[u].user
  /\ \A p \in heir :
       p[1] \in Stored /\ p[2] \in Stored => rows[p[2]].scope \subseteq rows[p[1]].scope

\* A family whose rows are all gone (revoked or expired) never gets a row
\* again, whatever rotation was under way when they went.
DeadFamilyStaysDead ==
  [][\A f \in handed : Family(f) = {} => Family(f)' = {}]_vars

\* A token is lost neither to a request that stops half way nor to a purge: its
\* row leaves the table only when it has expired or its family is being revoked,
\* and it is consumed only in the step that stores its heir, which is redeemable.
LiveTokenLeavesByRevocation ==
  [][\A t \in Stored :
       /\ t \notin Stored' =>
            t \in Expired \/ \E w \in Worker : At(w, "delete") /\ t \in req[w].seen
       /\ t \in Stored' /\ rows'[t].consumed /\ ~ rows[t].consumed =>
            \E new \in Stored' \ Stored :
              /\ <<t, new>> \in heir'
              /\ rows'[new].family = rows[t].family
              /\ ~ rows'[new].consumed]_vars

\* Revocation is complete: when a refresh grant has met reuse, or has lost its
\* token to another request, or /revoke has found a family, then, however long
\* the statements wait and whoever else works on the family, the request ends
\* only when no token is left that the family had at that time.  Exempt are a
\* request that fails, and one that finds the row of its token gone before it
\* could tell a lost race from an unknown token.
RevocationsComplete ==
  [][\A w \in Worker :
       ~ At(w, "idle") /\ At(w, "idle")' /\ ~ Fail(w) =>
         \/ req[w].doomed \cap Stored' = {}
         \/ At(w, "probe") /\ ~ Visible(req[w].old, req[w].started)]_vars

\* Every request is answered: none waits for a row lock for ever.
RequestsEnd ==
  \A w \in Worker : []<> At(w, "idle")

\* The table implements the contract of RotationChain.
Contract == INSTANCE RotationChain WITH
  live <- {<<rows[t].family, t>> : t \in {u \in Stored : ~ rows[u].consumed}}

ContractSpec == Contract!Spec

-----------------------------------------------------------------------------
(* A claim of the documentation that the code does not keep. *)

\* domain/refreshtoken/repository.go: "RevokeFamily deletes every refresh
\* token whose familyID matches (the whole rotation chain) ... the entire
\* family is invalidated so a stolen token cannot yield further tokens".
RevokeFamilyDeletesChain ==
  [][\A w \in Worker, f \in handed :
       RevokeFamily(w) /\ req[w].family = f => Family(f)' = {}]_vars

=============================================================================
