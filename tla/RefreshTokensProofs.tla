------------------------- MODULE RefreshTokensProofs -------------------------
(***************************************************************************)
(* Proofs about RefreshTokens, for every set of tokens, clients, users,    *)
(* scope values and workers, every lifetime and every clock bound.         *)
(***************************************************************************)
EXTENDS RefreshTokens, TLAPS

(***************************************************************************)
(* The inductive invariant.  OneLivePerFamily and RedeemedOnce are not     *)
(* inductive: a rotation that has consumed its row commits later, and the  *)
(* step that commits it is safe only because the row it locked is still    *)
(* there, still unconsumed, and locked by no one else.                     *)
(***************************************************************************)

\* What is stored or was redeemed was handed out, and a family is named by a
\* token that was.
Known ==
  /\ Stored \subseteq handed
  /\ \A t \in Stored : rows[t].family \in handed
  /\ heir \subseteq handed \X handed

\* A redeemed token is consumed, while it is stored.
RedeemedIsConsumed ==
  \A p \in heir : p[1] \in Stored => rows[p[1]].consumed

\* The row a rotation is going to insert continues the grant of the row it
\* read.
Continues(new, old) ==
  /\ new.family = old.family
  /\ new.client = old.client
  /\ new.user = old.user
  /\ new.scope \subseteq old.scope

InFlight ==
  \A w \in Worker :
    req[w].step \in {"rotate", "consume", "insert"} =>
      /\ req[w].old \in handed
      /\ req[w].row \in Row
      /\ ~ req[w].row.consumed
      /\ req[w].old \in Stored => Continues(req[w].row, rows[req[w].old])

\* The row a transaction has locked stays, unconsumed, until it commits ...
LockedRowStays ==
  \A w \in Worker :
    At(w, "insert") => req[w].old \in Stored /\ ~ rows[req[w].old].consumed

\* ... and no other transaction has it.
OneLockHolder ==
  \A v, w \in Worker :
    At(v, "insert") /\ At(w, "insert") /\ req[v].old = req[w].old => v = w

IInv ==
  /\ TypeOK
  /\ Known
  /\ RedeemedIsConsumed
  /\ InFlight
  /\ LockedRowStays
  /\ OneLockHolder
  /\ OneLivePerFamily
  /\ RedeemedOnce
  /\ ChainKeepsGrant

-----------------------------------------------------------------------------
(* What the table operations do. *)

\* DELETE removes the rows named and touches no other.
LEMMA DeleteRows ==
  ASSUME NEW S, Delete(S)
  PROVE  /\ Stored' = Stored \ S
         /\ \A t \in Stored' : rows'[t] = rows[t]
BY DEF Delete, Restrict, Stored

\* INSERT adds the row and touches no other.
LEMMA InsertRow ==
  ASSUME NEW t, NEW row, Insert(t, row)
  PROVE  /\ Stored' = Stored \cup {t}
         /\ rows'[t] = row
         /\ \A u \in Stored \ {t} : rows'[u] = rows[u]
BY DEF Insert, Stored

\* Removing rows that no transaction holds, while at most one request comes
\* to rest, preserves the invariant: RevokeFamily, Purge and the lazy eviction.
LEMMA DeletePreserves ==
  ASSUME IInv, NEW S, Delete(S), \A t \in S : ~ Locked(t),
         UNCHANGED <<now, handed, heir>>,
         req' = req \/ \E w \in Worker : Finish(w)
  PROVE  IInv'
<1>1. /\ Stored' = Stored \ S
      /\ \A t \in Stored' : rows'[t] = rows[t]
  BY DeleteRows
<1>2. \A w \in Worker : req'[w] = req[w] \/ req'[w] = Idle
  BY DEF Finish, Become, IInv, TypeOK
<1>3. TypeOK'
  <2>1. Idle \in Request
    BY DEF Idle, Request, Steps
  <2>2. req' \in [Worker -> Request]
    BY <2>1 DEF IInv, TypeOK, Finish, Become
  <2> QED
    BY <1>1, <2>2 DEF IInv, TypeOK, Stored
<1>4. Known'
  BY <1>1 DEF IInv, Known, Stored
<1>5. RedeemedIsConsumed'
  BY <1>1 DEF IInv, RedeemedIsConsumed, Stored
<1>6. InFlight'
  BY <1>1, <1>2 DEF IInv, InFlight, Idle, Continues, Stored
<1>7. LockedRowStays'
  <2> SUFFICES ASSUME NEW w \in Worker, At(w, "insert")'
               PROVE  (req[w].old \in Stored /\ ~ rows[req[w].old].consumed)'
    BY DEF LockedRowStays
  <2>1. req'[w] = req[w] /\ At(w, "insert")
    BY <1>2 DEF At, Idle
  <2>2. req[w].old \notin S
    BY <2>1 DEF Locked
  <2> QED
    BY <1>1, <2>1, <2>2 DEF IInv, LockedRowStays, Stored
<1>8. OneLockHolder'
  BY <1>2 DEF IInv, OneLockHolder, At, Idle
<1>9. OneLivePerFamily' /\ RedeemedOnce' /\ ChainKeepsGrant'
  BY <1>1 DEF IInv, OneLivePerFamily, RedeemedOnce, ChainKeepsGrant, Stored
<1> QED
  BY <1>3, <1>4, <1>5, <1>6, <1>7, <1>8, <1>9 DEF IInv

\* A step that only moves one request on preserves the invariant if what the
\* request becomes is well formed.
LEMMA RequestPreserves ==
  ASSUME IInv, NEW w \in Worker, NEW r \in Request, Become(w, r),
         UNCHANGED <<now, rows, handed, heir>>,
         r.step \in {"rotate", "consume", "insert"} =>
           /\ r.old \in handed
           /\ r.row \in Row
           /\ ~ r.row.consumed
           /\ r.old \in Stored => Continues(r.row, rows[r.old]),
         r.step = "insert" =>
           /\ r.old \in Stored
           /\ ~ rows[r.old].consumed
           /\ ~ Locked(r.old)
  PROVE  IInv'
<1>1. /\ req' \in [Worker -> Request]
      /\ req'[w] = r
      /\ \A v \in Worker \ {w} : req'[v] = req[v]
  BY DEF IInv, TypeOK, Become
<1>2. Stored' = Stored
  BY DEF Stored
<1>3. TypeOK' /\ Known' /\ RedeemedIsConsumed'
  BY <1>1, <1>2 DEF IInv, TypeOK, Known, RedeemedIsConsumed
<1>4. InFlight'
  BY <1>1, <1>2 DEF IInv, InFlight, Continues
<1>5. LockedRowStays'
  BY <1>1, <1>2 DEF IInv, LockedRowStays, At
<1>6. OneLockHolder'
  BY <1>1 DEF IInv, OneLockHolder, Locked, At
<1>7. OneLivePerFamily' /\ RedeemedOnce' /\ ChainKeepsGrant'
  BY <1>2 DEF IInv, OneLivePerFamily, RedeemedOnce, ChainKeepsGrant
<1> QED
  BY <1>3, <1>4, <1>5, <1>6, <1>7 DEF IInv

\* Issue adds the first token of a new family.
LEMMA IssuePreserves ==
  ASSUME IInv, NEW t \in Token, NEW c \in Client, NEW u \in User,
         NEW s \in Scope, Issue(t, c, u, s)
  PROVE  IInv'
<1> DEFINE new == [family |-> t, client |-> c, user |-> u, scope |-> s,
                   expires |-> now + TTL, consumed |-> FALSE]
<1>1. /\ Stored' = Stored \cup {t}
      /\ rows'[t] = new
      /\ \A v \in Stored \ {t} : rows'[v] = rows[v]
  BY InsertRow DEF Issue
<1>2. t \notin handed /\ t \notin Stored
  BY DEF Issue, IInv, Known
<1>3. new \in Row
  BY RefreshTokensAssumption DEF Row, IInv, TypeOK
<1>4. handed' = handed \cup {t} /\ heir' = heir /\ req' = req /\ now' = now
  BY DEF Issue
<1> HIDE DEF new
<1>5. TypeOK'
  BY <1>1, <1>2, <1>3, <1>4 DEF IInv, TypeOK, Stored
<1>6. new.family = t /\ new.consumed = FALSE
  BY DEF new
<1>7. Known'
  BY <1>1, <1>2, <1>4, <1>6 DEF IInv, Known, Stored
<1>8. RedeemedIsConsumed'
  BY <1>1, <1>2, <1>4 DEF IInv, RedeemedIsConsumed, Known, Stored
<1>9. InFlight'
  BY <1>1, <1>2, <1>4 DEF IInv, InFlight, Continues, Stored
<1>10. LockedRowStays' /\ OneLockHolder'
  BY <1>1, <1>2, <1>4 DEF IInv, LockedRowStays, OneLockHolder, At, Stored
<1>11. OneLivePerFamily'
  BY <1>1, <1>2, <1>6 DEF IInv, OneLivePerFamily, Known, Stored
<1>12. RedeemedOnce'
  BY <1>4 DEF IInv, RedeemedOnce
<1>13. ChainKeepsGrant'
  BY <1>1, <1>2, <1>4, <1>6 DEF IInv, ChainKeepsGrant, Known, Stored
<1> QED
  BY <1>5, <1>7, <1>8, <1>9, <1>10, <1>11, <1>12, <1>13 DEF IInv

\* CommitRotate consumes the locked row and adds its successor at once.
LEMMA CommitPreserves ==
  ASSUME IInv, NEW w \in Worker, NEW new \in Token, CommitRotate(w, new)
  PROVE  IInv'
<1> DEFINE old == req[w].old
           row == req[w].row
<1>1. /\ At(w, "insert") /\ new \notin handed /\ new \notin Stored
      /\ handed' = handed \cup {new}
      /\ heir' = heir \cup {<<old, new>>}
      /\ now' = now
  BY DEF CommitRotate, IInv, Known
<1>2. /\ old \in Stored /\ ~ rows[old].consumed /\ old \in handed
      /\ row \in Row /\ ~ row.consumed /\ Continues(row, rows[old])
  BY <1>1 DEF At, IInv, LockedRowStays, InFlight
<1>3. /\ Stored' = Stored \cup {new}
      /\ rows'[new] = row
      /\ rows'[old] = [rows[old] EXCEPT !.consumed = TRUE]
      /\ \A t \in Stored \ {old} : rows'[t] = rows[t]
  BY <1>1, <1>2 DEF CommitRotate, Stored
<1>4. \A v \in Worker : req'[v] = IF v = w THEN Idle ELSE req[v]
  BY DEF CommitRotate, Finish, Become, IInv, TypeOK
<1>5. /\ rows[old] \in Row /\ rows'[old] \in Row
      /\ rows'[old].consumed
      /\ rows'[old].family = rows[old].family
      /\ rows'[old].client = rows[old].client
      /\ rows'[old].user = rows[old].user
      /\ rows'[old].scope = rows[old].scope
  BY <1>2, <1>3 DEF IInv, TypeOK, Row
<1> HIDE DEF row
<1>6. TypeOK'
  <2>1. Idle \in Request
    BY DEF Idle, Request, Steps
  <2>2. req' \in [Worker -> Request]
    BY <2>1 DEF CommitRotate, Finish, Become, IInv, TypeOK
  <2>3. \A t \in Stored' : rows'[t] \in Row
    BY <1>2, <1>3, <1>5 DEF IInv, TypeOK
  <2>4. Stored' \subseteq Token
    BY <1>3 DEF IInv, TypeOK
  <2> QED
    BY <1>1, <1>2, <2>2, <2>3, <2>4 DEF IInv, TypeOK
<1>7. Known'
  <2>1. \A t \in Stored' : rows'[t].family \in handed'
    BY <1>1, <1>2, <1>3, <1>5 DEF IInv, Known, Continues
  <2>2. heir' \subseteq handed' \X handed'
    BY <1>1, <1>2 DEF IInv, Known
  <2> QED
    BY <1>1, <1>3, <2>1, <2>2 DEF IInv, Known
<1>8. RedeemedIsConsumed'
  <2> SUFFICES ASSUME NEW p \in heir', p[1] \in Stored'
               PROVE  rows'[p[1]].consumed
    BY DEF RedeemedIsConsumed
  <2>1. CASE p \in heir
    BY <1>1, <1>3, <1>5, <2>1 DEF IInv, RedeemedIsConsumed, Known
  <2>2. CASE p = <<old, new>>
    BY <1>5, <2>2
  <2> QED
    BY <1>1, <2>1, <2>2
<1>9. InFlight'
  <2> SUFFICES ASSUME NEW v \in Worker,
                      (req[v].step \in {"rotate", "consume", "insert"})'
               PROVE  (/\ req[v].old \in handed
                       /\ req[v].row \in Row
                       /\ ~ req[v].row.consumed
                       /\ req[v].old \in Stored =>
                            Continues(req[v].row, rows[req[v].old]))'
    BY DEF InFlight
  <2>1. v # w /\ req'[v] = req[v]
    BY <1>4 DEF Idle
  <2>2. /\ req[v].old \in handed /\ req[v].row \in Row
        /\ ~ req[v].row.consumed
        /\ req[v].old \in Stored => Continues(req[v].row, rows[req[v].old])
    BY <2>1 DEF IInv, InFlight
  <2>3. req[v].old \in Stored' => Continues(req[v].row, rows'[req[v].old])
    BY <1>1, <1>3, <1>5, <2>2 DEF Continues
  <2> QED
    BY <1>1, <2>1, <2>2, <2>3 DEF Continues
<1>10. LockedRowStays'
  <2> SUFFICES ASSUME NEW v \in Worker, At(v, "insert")'
               PROVE  (req[v].old \in Stored /\ ~ rows[req[v].old].consumed)'
    BY DEF LockedRowStays
  <2>1. v # w /\ req'[v] = req[v] /\ At(v, "insert")
    BY <1>4 DEF Idle, At
  <2>2. req[v].old # old
    BY <1>1, <2>1 DEF IInv, OneLockHolder
  <2> QED
    BY <1>3, <2>1, <2>2 DEF IInv, LockedRowStays
<1>11. OneLockHolder'
  BY <1>4 DEF IInv, OneLockHolder, At, Idle
<1>12. OneLivePerFamily'
  <2> SUFFICES ASSUME NEW t \in Stored', NEW u \in Stored',
                      rows'[t].family = rows'[u].family,
                      ~ rows'[t].consumed, ~ rows'[u].consumed
               PROVE  t = u
    BY DEF OneLivePerFamily
  <2>1. t # old /\ u # old
    BY <1>5
  <2>2. CASE t = new /\ u # new
    BY <1>2, <1>3, <2>1, <2>2 DEF IInv, OneLivePerFamily, Continues
  <2>3. CASE t # new /\ u = new
    BY <1>2, <1>3, <2>1, <2>3 DEF IInv, OneLivePerFamily, Continues
  <2>4. CASE t # new /\ u # new
    BY <1>3, <2>1, <2>4 DEF IInv, OneLivePerFamily
  <2> QED
    BY <2>2, <2>3, <2>4
<1>13. RedeemedOnce'
  \* No earlier redemption of old: its row would be consumed.
  <2>1. \A p \in heir : p[1] # old
    BY <1>2 DEF IInv, RedeemedIsConsumed
  <2> QED
    BY <1>1, <2>1 DEF IInv, RedeemedOnce
<1>14. ChainKeepsGrant'
  <2>1. \A t \in Stored : /\ rows'[t].family = rows[t].family
                         /\ rows'[t].client = rows[t].client
                         /\ rows'[t].user = rows[t].user
                         /\ rows'[t].scope = rows[t].scope
    BY <1>3, <1>5
  <2>2. \A p \in heir : p[1] # new /\ p[2] # new
    BY <1>1 DEF IInv, Known
  <2>3. \A t, u \in Stored' :
          rows'[t].family = rows'[u].family =>
            rows'[t].client = rows'[u].client /\ rows'[t].user = rows'[u].user
    BY <1>2, <1>3, <2>1 DEF IInv, ChainKeepsGrant, Continues
  <2>4. \A p \in heir' : p[1] \in Stored' /\ p[2] \in Stored' =>
          rows'[p[2]].scope \subseteq rows'[p[1]].scope
    <3> SUFFICES ASSUME NEW p \in heir', p[1] \in Stored', p[2] \in Stored'
                 PROVE  rows'[p[2]].scope \subseteq rows'[p[1]].scope
      OBVIOUS
    <3>1. CASE p \in heir
      BY <1>3, <2>1, <2>2, <3>1 DEF IInv, ChainKeepsGrant
    <3>2. CASE p = <<old, new>>
      BY <1>2, <1>3, <1>5, <3>2 DEF Continues
    <3> QED
      BY <1>1, <3>1, <3>2
  <2> QED
    BY <2>3, <2>4 DEF ChainKeepsGrant
<1> QED
  BY <1>6, <1>7, <1>8, <1>9, <1>10, <1>11, <1>12, <1>13, <1>14 DEF IInv

-----------------------------------------------------------------------------
(* The invariant is inductive. *)

LEMMA InitEstablishes == Init => IInv
<1> SUFFICES ASSUME Init PROVE IInv
  OBVIOUS
<1>1. Stored = {} /\ handed = {} /\ heir = {} /\ now = 0
  BY DEF Init, Stored
<1>2. req = [w \in Worker |-> Idle] /\ Idle \in Request
  BY DEF Init, Idle, Request, Steps
<1>3. \A w \in Worker : req[w].step = "idle"
  BY <1>2 DEF Idle
<1> QED
  BY <1>1, <1>2, <1>3
  DEF IInv, TypeOK, Known, RedeemedIsConsumed, InFlight, LockedRowStays,
      OneLockHolder, OneLivePerFamily, RedeemedOnce, ChainKeepsGrant, At

\* A request that comes to rest without touching the table.
LEMMA FinishPreserves ==
  ASSUME IInv, NEW w \in Worker, Finish(w), UNCHANGED <<now, rows, handed, heir>>
  PROVE  IInv'
<1>1. /\ Idle \in Request
      /\ Idle.step \notin {"rotate", "consume", "insert"}
  BY DEF Idle, Request, Steps
<1> QED
  BY <1>1, RequestPreserves DEF Finish

LEMMA FindPreserves ==
  ASSUME IInv, NEW w \in Worker, Find(w)
  PROVE  IInv'
<1>1. ASSUME NEW t \in Token, FindNothing(w, t) PROVE IInv'
  BY <1>1, DeletePreserves DEF FindNothing
<1>2. ASSUME NEW t \in Token, FindConsumed(w, t) \/
             \E c \in Client \cup {NoClient} : FindToRevoke(w, t, c)
      PROVE  IInv'
  <2> DEFINE r == [Idle EXCEPT !.step = "revoke", !.family = rows[t].family,
                               !.doomed = Family(rows[t].family)]
  <2>1. Become(w, r) /\ UNCHANGED <<now, rows, handed, heir>>
    BY <1>2 DEF FindConsumed, FindToRevoke, ToRevoke
  <2>2. rows[t].family \in Token
    BY <1>2 DEF FindConsumed, FindToRevoke, Visible, IInv, TypeOK, Row
  <2>3. r \in Request /\ r.step = "revoke"
    BY <2>2 DEF Idle, Request, Steps, Family, IInv, TypeOK
  <2> HIDE DEF r
  <2> QED
    BY <2>1, <2>3, RequestPreserves
<1>3. ASSUME NEW t \in Token, NEW c \in Client, NEW asked \in Scope,
             FindLive(w, t, c, asked)
      PROVE  IInv'
  <2> DEFINE new == [rows[t] EXCEPT !.scope = Narrow(rows[t].scope, asked)]
             r == [Idle EXCEPT !.step = "rotate", !.old = t,
                               !.family = rows[t].family, !.row = new]
  <2>1. Become(w, r) /\ UNCHANGED <<now, rows, handed, heir>>
    BY <1>3 DEF FindLive
  <2>2. t \in Stored /\ rows[t] \in Row /\ ~ rows[t].consumed
        /\ asked \subseteq rows[t].scope /\ t \in handed
    BY <1>3 DEF FindLive, Visible, IInv, TypeOK, Known
  <2>3. /\ Narrow(rows[t].scope, asked) \subseteq rows[t].scope
        /\ Narrow(rows[t].scope, asked) \in Scope
    BY <2>2 DEF Narrow, Row, Scope
  <2>4. new \in Row /\ ~ new.consumed /\ Continues(new, rows[t])
    BY <2>2, <2>3 DEF Row, Continues
  <2> HIDE DEF new
  <2>5. r \in Request /\ r.step = "rotate" /\ r.old = t /\ r.row = new
    BY <2>2, <2>4 DEF Idle, Request, Steps, Row
  <2> HIDE DEF r
  <2> QED
    BY <2>1, <2>2, <2>4, <2>5, RequestPreserves
<1> QED
  BY <1>1, <1>2, <1>3 DEF Find

LEMMA BlockingPreserves ==
  ASSUME IInv, NEW w \in Worker, Blocking(w)
  PROVE  IInv'
<1>1. CASE ConsumeRow(w)
  <2> DEFINE r == [req[w] EXCEPT !.step = "insert"]
  <2>1. Become(w, r) /\ UNCHANGED <<now, rows, handed, heir>>
        /\ At(w, "consume") /\ ~ Locked(req[w].old) /\ Consumable(w)
    BY <1>1 DEF ConsumeRow
  <2>2. req[w] \in Request
    BY DEF IInv, TypeOK
  <2>3. r \in Request /\ r.step = "insert" /\ r.old = req[w].old
        /\ r.row = req[w].row
    BY <2>2 DEF Request, Steps
  <2>4. req[w].old \in Stored /\ ~ rows[req[w].old].consumed
    BY <2>1 DEF Consumable, Visible
  <2>5. /\ req[w].old \in handed /\ req[w].row \in Row /\ ~ req[w].row.consumed
        /\ req[w].old \in Stored => Continues(req[w].row, rows[req[w].old])
    BY <2>1 DEF IInv, InFlight, At
  <2> HIDE DEF r
  <2> QED
    BY <2>1, <2>3, <2>4, <2>5, RequestPreserves
<1>2. CASE ConsumeNoRow(w)
  <2> DEFINE d == IF Visible(req[w].old, req[w].started)
                  THEN Family(req[w].family) ELSE {}
             r == [req[w] EXCEPT !.step = "probe", !.doomed = d]
  <2>1. Become(w, r) /\ UNCHANGED <<now, rows, handed, heir>>
    BY <1>2 DEF ConsumeNoRow
  <2>2. req[w] \in Request /\ d \subseteq Token
    BY DEF IInv, TypeOK, Family
  <2> HIDE DEF d
  <2>3. r \in Request /\ r.step = "probe"
    BY <2>2 DEF Request, Steps
  <2> HIDE DEF r
  <2> QED
    BY <2>1, <2>3, RequestPreserves
<1>3. CASE RevokeFamily(w)
  BY <1>3, DeletePreserves DEF RevokeFamily
<1> QED
  BY <1>1, <1>2, <1>3 DEF Blocking

LEMMA PromptPreserves ==
  ASSUME IInv, NEW w \in Worker, Prompt(w)
  PROVE  IInv'
<1> req[w] \in Request
  BY DEF IInv, TypeOK
<1>1. CASE BeginRotate(w)
  <2> DEFINE row == [req[w].row EXCEPT !.expires = now + TTL]
             r == [req[w] EXCEPT !.step = "consume", !.started = now, !.row = row]
  <2>1. Become(w, r) /\ UNCHANGED <<now, rows, handed, heir>>
        /\ At(w, "rotate")
    BY <1>1 DEF BeginRotate
  <2>2. /\ req[w].old \in handed /\ req[w].row \in Row /\ ~ req[w].row.consumed
        /\ req[w].old \in Stored => Continues(req[w].row, rows[req[w].old])
    BY <2>1 DEF IInv, InFlight, At
  <2>3. now \in Nat /\ now + TTL \in Nat
    BY RefreshTokensAssumption DEF IInv, TypeOK
  <2>4. /\ row \in Row /\ ~ row.consumed
        /\ req[w].old \in Stored => Continues(row, rows[req[w].old])
    BY <2>2, <2>3 DEF Row, Continues
  <2> HIDE DEF row
  <2>5. /\ r \in Request /\ r.step = "consume"
        /\ r.old = req[w].old /\ r.row = row
    BY <2>3, <2>4 DEF Request, Steps
  <2> HIDE DEF r
  <2> QED
    BY <2>1, <2>2, <2>4, <2>5, RequestPreserves
<1>2. CASE ProbeReused(w)
  <2> DEFINE r == [Idle EXCEPT !.step = "revoke", !.family = req[w].family,
                               !.doomed = req[w].doomed]
  <2>1. Become(w, r) /\ UNCHANGED <<now, rows, handed, heir>>
    BY <1>2 DEF ProbeReused
  <2>2. r \in Request /\ r.step = "revoke"
    BY DEF Idle, Request, Steps
  <2> HIDE DEF r
  <2> QED
    BY <2>1, <2>2, RequestPreserves
<1>3. CASE ProbeNotFound(w)
  BY <1>3, FinishPreserves DEF ProbeNotFound
<1>4. CASE BeginRevoke(w)
  <2> DEFINE r == [req[w] EXCEPT !.step = "delete",
                                 !.seen = Family(req[w].family)]
  <2>1. Become(w, r) /\ UNCHANGED <<now, rows, handed, heir>>
    BY <1>4 DEF BeginRevoke
  <2>2. Family(req[w].family) \subseteq Token
    BY DEF Family, IInv, TypeOK
  <2>3. r \in Request /\ r.step = "delete"
    BY <2>2 DEF Request, Steps
  <2> HIDE DEF r
  <2> QED
    BY <2>1, <2>3, RequestPreserves
<1>5. ASSUME NEW new \in Token, CommitRotate(w, new) PROVE IInv'
  BY <1>5, CommitPreserves
<1> QED
  BY <1>1, <1>2, <1>3, <1>4, <1>5 DEF Prompt

LEMMA StepPreserves == IInv /\ [Next]_vars => IInv'
<1> SUFFICES ASSUME IInv, [Next]_vars PROVE IInv'
  OBVIOUS
<1>1. CASE \E t \in Token, c \in Client, u \in User, s \in Scope :
             Issue(t, c, u, s)
  BY <1>1, IssuePreserves
<1>2. ASSUME NEW w \in Worker, Find(w) PROVE IInv'
  BY <1>2, FindPreserves
<1>3. ASSUME NEW w \in Worker, Blocking(w) PROVE IInv'
  BY <1>3, BlockingPreserves
<1>4. ASSUME NEW w \in Worker, Prompt(w) PROVE IInv'
  BY <1>4, PromptPreserves
<1>5. ASSUME NEW w \in Worker, Fail(w) PROVE IInv'
  BY <1>5, FinishPreserves DEF Fail
<1>6. CASE Purge
  BY <1>6, DeletePreserves DEF Purge
<1>7. CASE Tick \/ UNCHANGED vars
  <2>1. UNCHANGED <<rows, req, handed, heir>> /\ now' \in Nat
    BY <1>7 DEF Tick, vars, IInv, TypeOK
  <2>2. Stored' = Stored
    BY <2>1 DEF Stored
  <2> QED
    BY <2>1, <2>2
    DEF IInv, TypeOK, Known, RedeemedIsConsumed, InFlight, LockedRowStays,
        OneLockHolder, OneLivePerFamily, RedeemedOnce, ChainKeepsGrant, At
<1> QED
  BY <1>1, <1>2, <1>3, <1>4, <1>5, <1>6, <1>7 DEF Next

\* The strengthened invariant holds of every reachable state.
THEOREM Invariance == Spec => []IInv
BY InitEstablishes, StepPreserves, PTL DEF Spec

\* The table and the requests stay well formed.
THEOREM TypeCorrect == Spec => []TypeOK
<1>1. IInv => TypeOK
  BY DEF IInv
<1> QED
  BY <1>1, Invariance, PTL

\* However many requests race, a family has at most one unredeemed token.
THEOREM OneLive == Spec => []OneLivePerFamily
<1>1. IInv => OneLivePerFamily
  BY DEF IInv
<1> QED
  BY <1>1, Invariance, PTL

\* However many requests race, a token yields at most one new token.
THEOREM SingleUse == Spec => []RedeemedOnce
<1>1. IInv => RedeemedOnce
  BY DEF IInv
<1> QED
  BY <1>1, Invariance, PTL

\* Rotation never widens or transfers a grant.
THEOREM GrantKept == Spec => []ChainKeepsGrant
<1>1. IInv => ChainKeepsGrant
  BY DEF IInv
<1> QED
  BY <1>1, Invariance, PTL

-----------------------------------------------------------------------------
(* What a step does to the table. *)

\* The five things a step can do to it; the refinement and the action
\* properties are read off this list.
LEMMA TableSteps ==
  ASSUME IInv, [Next]_vars
  PROVE  \/ UNCHANGED <<rows, handed, heir>>
         \/ \E t \in Token, c \in Client, u \in User, s \in Scope : Issue(t, c, u, s)
         \/ \E w \in Worker, new \in Token : CommitRotate(w, new)
         \/ \E S \in SUBSET Expired : Delete(S) /\ UNCHANGED <<handed, heir>>
         \/ \E w \in Worker : RevokeFamily(w)
<1>1. ASSUME NEW w \in Worker, Find(w)
      PROVE  \/ UNCHANGED <<rows, handed, heir>>
             \/ \E S \in SUBSET Expired : Delete(S) /\ UNCHANGED <<handed, heir>>
  BY <1>1 DEF Find, FindNothing, FindConsumed, FindLive, FindToRevoke
<1>2. ASSUME NEW w \in Worker, Blocking(w)
      PROVE  UNCHANGED <<rows, handed, heir>> \/ RevokeFamily(w)
  BY <1>2 DEF Blocking, ConsumeRow, ConsumeNoRow
<1>3. ASSUME NEW w \in Worker, Prompt(w)
      PROVE  \/ UNCHANGED <<rows, handed, heir>>
             \/ \E new \in Token : CommitRotate(w, new)
  BY <1>3 DEF Prompt, BeginRotate, ProbeReused, ProbeNotFound, BeginRevoke
<1>4. Purge => \E S \in SUBSET Expired : Delete(S) /\ UNCHANGED <<handed, heir>>
  BY DEF Purge
<1> QED
  BY <1>1, <1>2, <1>3, <1>4 DEF Next, vars, Tick, Fail

\* What CommitRotate does, under the invariant.
LEMMA CommitEffect ==
  ASSUME IInv, NEW w \in Worker, NEW new \in Token, CommitRotate(w, new)
  PROVE  /\ req[w].old \in Stored /\ ~ rows[req[w].old].consumed
         /\ new \notin Stored /\ new \notin handed
         /\ Stored' = Stored \cup {new}
         /\ rows'[new].family = rows[req[w].old].family /\ ~ rows'[new].consumed
         /\ rows'[req[w].old].family = rows[req[w].old].family
         /\ rows'[req[w].old].consumed
         /\ \A t \in Stored \ {req[w].old} : rows'[t] = rows[t]
<1>1. /\ req[w].old \in Stored /\ ~ rows[req[w].old].consumed
      /\ ~ req[w].row.consumed /\ Continues(req[w].row, rows[req[w].old])
  BY DEF CommitRotate, At, IInv, LockedRowStays, InFlight
<1>2. new \notin handed /\ new \notin Stored
  BY DEF CommitRotate, IInv, Known
<1>3. rows[req[w].old] \in Row
  BY <1>1 DEF IInv, TypeOK
<1> QED
  BY <1>1, <1>2, <1>3 DEF CommitRotate, Stored, Continues, Row

\* A family whose rows are gone never gets one again.
THEOREM NoRevival == Spec => DeadFamilyStaysDead
<1>1. ASSUME IInv, [Next]_vars, NEW f \in handed, Family(f) = {}
      PROVE  Family(f)' = {}
  <2> SUFFICES ASSUME NEW t \in Stored', rows'[t].family = f
               PROVE  FALSE
    BY DEF Family
  <2>1. \A u \in Stored : rows[u].family # f
    BY <1>1 DEF Family
  <2>2. CASE UNCHANGED <<rows, handed, heir>>
    BY <2>1, <2>2 DEF Stored
  <2>3. ASSUME NEW u \in Token, NEW c \in Client, NEW v \in User, NEW s \in Scope,
               Issue(u, c, v, s)
        PROVE  FALSE
    <3>1. u \notin handed
      BY <2>3 DEF Issue
    <3>2. Stored' = Stored \cup {u} /\ rows'[u].family = u
          /\ \A x \in Stored \ {u} : rows'[x] = rows[x]
      BY <2>3, InsertRow DEF Issue
    <3> QED
      BY <1>1, <2>1, <3>1, <3>2
  <2>4. ASSUME NEW w \in Worker, NEW new \in Token, CommitRotate(w, new)
        PROVE  FALSE
    BY <1>1, <2>1, <2>4, CommitEffect
  <2>5. ASSUME NEW S, Delete(S) PROVE FALSE
    BY <2>1, <2>5, DeleteRows
  <2> QED
    BY <1>1, <2>2, <2>3, <2>4, <2>5, TableSteps DEF RevokeFamily
<1>2. IInv /\ [Next]_vars
        => [\A f \in handed : Family(f) = {} => Family(f)' = {}]_vars
  BY <1>1
<1> QED
  BY <1>2, Invariance, PTL DEF Spec, DeadFamilyStaysDead

\* A row leaves only by expiry and revocation, and a token is consumed only
\* together with the birth of its heir, whatever fails and is purged meanwhile.
THEOREM NoLostToken == Spec => LiveTokenLeavesByRevocation
<1> DEFINE Leaves(t) ==
             t \notin Stored' =>
               t \in Expired \/ \E w \in Worker : At(w, "delete") /\ t \in req[w].seen
           Consumed(t) ==
             t \in Stored' /\ rows'[t].consumed /\ ~ rows[t].consumed =>
               \E new \in Stored' \ Stored :
                 /\ <<t, new>> \in heir'
                 /\ rows'[new].family = rows[t].family
                 /\ ~ rows'[new].consumed
<1>1. ASSUME IInv, [Next]_vars, NEW t \in Stored
      PROVE  Leaves(t) /\ Consumed(t)
  <2>1. CASE UNCHANGED <<rows, handed, heir>>
    BY <2>1 DEF Stored
  <2>2. ASSUME NEW u \in Token, NEW c \in Client, NEW v \in User, NEW s \in Scope,
               Issue(u, c, v, s)
        PROVE  Leaves(t) /\ Consumed(t)
    <3>1. t # u
      BY <1>1, <2>2 DEF Issue, IInv, Known
    <3> QED
      BY <1>1, <2>2, <3>1, InsertRow DEF Issue
  <2>3. ASSUME NEW w \in Worker, NEW new \in Token, CommitRotate(w, new)
        PROVE  Leaves(t) /\ Consumed(t)
    <3>1. /\ new \notin Stored /\ Stored' = Stored \cup {new}
          /\ rows'[new].family = rows[req[w].old].family /\ ~ rows'[new].consumed
          /\ \A u \in Stored \ {req[w].old} : rows'[u] = rows[u]
      BY <1>1, <2>3, CommitEffect
    <3>2. <<req[w].old, new>> \in heir'
      BY <2>3 DEF CommitRotate
    <3> QED
      BY <3>1, <3>2
  <2>4. ASSUME NEW S \in SUBSET Expired, Delete(S) PROVE Leaves(t) /\ Consumed(t)
    BY <1>1, <2>4, DeleteRows
  <2>5. ASSUME NEW w \in Worker, RevokeFamily(w) PROVE Leaves(t) /\ Consumed(t)
    <3>1. At(w, "delete") /\ Delete(req[w].seen)
      BY <2>5 DEF RevokeFamily
    <3>2. Stored' = Stored \ req[w].seen /\ \A u \in Stored' : rows'[u] = rows[u]
      BY <3>1, DeleteRows
    <3> QED
      BY <3>1, <3>2
  <2> QED
    BY <1>1, <2>1, <2>2, <2>3, <2>4, <2>5, TableSteps
<1>2. IInv /\ [Next]_vars
        => [\A t \in Stored :
              /\ t \notin Stored' =>
                   t \in Expired \/ \E w \in Worker : At(w, "delete") /\ t \in req[w].seen
              /\ t \in Stored' /\ rows'[t].consumed /\ ~ rows[t].consumed =>
                   \E new \in Stored' \ Stored :
                     /\ <<t, new>> \in heir'
                     /\ rows'[new].family = rows[t].family
                     /\ ~ rows'[new].consumed]_vars
  BY <1>1
<1> QED
  BY <1>2, Invariance, PTL DEF Spec, LiveTokenLeavesByRevocation

-----------------------------------------------------------------------------
(* Revocations are complete. *)

\* The tokens that a request has to see gone were handed out.  While they are
\* stored, they are rows of the family that it names, and the snapshot of its
\* DELETE has them.
DoomedOf(w) ==
  /\ req[w].doomed \subseteq handed
  /\ req[w].step \in {"idle", "rotate", "consume", "insert"} => req[w].doomed = {}
  /\ req[w].step \in {"probe", "revoke"} =>
       \A t \in req[w].doomed : t \in Stored => rows[t].family = req[w].family
  /\ req[w].step = "delete" => \A t \in req[w].doomed : t \in Stored => t \in req[w].seen

DoomedInv == \A w \in Worker : DoomedOf(w)

\* A row that is gone does not come back, and rows keep their family.
LEMMA TableKeeps ==
  ASSUME IInv, [Next]_vars
  PROVE  /\ handed \subseteq handed'
         /\ \A t \in handed : t \in Stored' => t \in Stored /\ rows'[t].family = rows[t].family
<1>1. CASE UNCHANGED <<rows, handed, heir>>
  BY <1>1 DEF Stored
<1>2. ASSUME NEW u \in Token, NEW c \in Client, NEW v \in User, NEW s \in Scope,
             Issue(u, c, v, s)
      PROVE  /\ handed \subseteq handed'
             /\ \A t \in handed :
                  t \in Stored' => t \in Stored /\ rows'[t].family = rows[t].family
  BY <1>2, InsertRow DEF Issue
<1>3. ASSUME NEW w \in Worker, NEW new \in Token, CommitRotate(w, new)
      PROVE  /\ handed \subseteq handed'
             /\ \A t \in handed :
                  t \in Stored' => t \in Stored /\ rows'[t].family = rows[t].family
  <2>1. handed' = handed \cup {new}
    BY <1>3 DEF CommitRotate
  <2> QED
    BY <1>3, <2>1, CommitEffect
<1>4. ASSUME NEW S, Delete(S)
      PROVE  \A t \in handed :
               t \in Stored' => t \in Stored /\ rows'[t].family = rows[t].family
  BY <1>4, DeleteRows
<1> QED
  BY <1>1, <1>2, <1>3, <1>4, TableSteps DEF RevokeFamily

\* What a request becomes that moves on.
LEMMA DoomedStep ==
  ASSUME IInv, DoomedInv, [Next]_vars
  PROVE  DoomedInv'
<1> SUFFICES ASSUME NEW w \in Worker PROVE DoomedOf(w)'
  BY DEF DoomedInv
<1>1. /\ handed \subseteq handed' /\ Stored \subseteq handed
      /\ \A t \in handed : t \in Stored' => t \in Stored /\ rows'[t].family = rows[t].family
      /\ req \in [Worker -> Request] /\ req[w] \in Request
      /\ DoomedOf(w)
  BY TableKeeps DEF IInv, Known, TypeOK, DoomedInv
<1>2. CASE req'[w] = req[w]
  BY <1>1, <1>2 DEF DoomedOf
<1>3. \A v \in Worker : \A r : Become(v, r) => req'[w] = req[w] \/ (v = w /\ req'[w] = r)
  BY <1>1 DEF Become
<1>4. ASSUME NEW v \in Worker, Finish(v) PROVE DoomedOf(w)'
  <2>1. req'[w] = req[w] \/ req'[w] = Idle
    BY <1>3, <1>4 DEF Finish
  <2> QED
    BY <1>2, <2>1 DEF DoomedOf, Idle
<1>5. ASSUME NEW v \in Worker, Find(v) PROVE DoomedOf(w)'
  <2>1. ASSUME NEW t \in Token, FindNothing(v, t) PROVE DoomedOf(w)'
    BY <1>2, <2>1 DEF FindNothing
  <2>2. ASSUME NEW f, ToRevoke(v, f), rows' = rows PROVE DoomedOf(w)'
    <3>1. CASE req'[w] = [Idle EXCEPT !.step = "revoke", !.family = f,
                                      !.doomed = Family(f)]
      <4>1. req'[w].step = "revoke" /\ req'[w].family = f /\ req'[w].doomed = Family(f)
        BY <3>1 DEF Idle
      <4> QED
        BY <1>1, <2>2, <4>1 DEF DoomedOf, Family
    <3> QED
      BY <1>2, <1>3, <2>2, <3>1 DEF ToRevoke
  <2>3. ASSUME NEW t \in Token, NEW c \in Client, NEW asked \in Scope,
               FindLive(v, t, c, asked)
        PROVE  DoomedOf(w)'
    <3> DEFINE r == [Idle EXCEPT !.step = "rotate", !.old = t,
                                 !.family = rows[t].family,
                                 !.row = [rows[t] EXCEPT
                                            !.scope = Narrow(rows[t].scope, asked)]]
    <3>1. Become(v, r)
      BY <2>3 DEF FindLive
    <3>2. r.step = "rotate" /\ r.doomed = {}
      BY DEF Idle
    <3> HIDE DEF r
    <3>3. req'[w] = req[w] \/ req'[w] = r
      BY <1>3, <3>1
    <3> QED
      BY <1>2, <3>2, <3>3 DEF DoomedOf
  <2> QED
    BY <1>5, <2>1, <2>2, <2>3 DEF Find, FindConsumed, FindToRevoke
<1>6. ASSUME NEW v \in Worker, BeginRotate(v) \/ ConsumeRow(v) PROVE DoomedOf(w)'
  <2>1. CASE v = w
    <3>1. CASE BeginRotate(v)
      <4>1. req[w].step = "rotate"
        BY <2>1, <3>1 DEF BeginRotate, At
      <4>2. req'[w] = [req[w] EXCEPT !.step = "consume", !.started = now,
                                     !.row = [@ EXCEPT !.expires = now + TTL]]
        BY <1>1, <2>1, <3>1 DEF BeginRotate, Become
      <4>3. req'[w].step = "consume" /\ req'[w].doomed = req[w].doomed
        BY <1>1, <4>2 DEF Request
      <4> QED
        BY <1>1, <4>1, <4>3 DEF DoomedOf
    <3>2. CASE ConsumeRow(v)
      <4>1. /\ req[w].step = "consume"
            /\ req'[w].step = "insert" /\ req'[w].doomed = req[w].doomed
        BY <1>1, <2>1, <3>2 DEF ConsumeRow, Become, At, Request
      <4> QED
        BY <1>1, <4>1 DEF DoomedOf
    <3> QED
      BY <1>6, <3>1, <3>2
  <2>2. CASE v # w
    BY <1>2, <1>3, <1>6, <2>2 DEF BeginRotate, ConsumeRow
  <2> QED
    BY <2>1, <2>2
<1>7. ASSUME NEW v \in Worker, ConsumeNoRow(v) PROVE DoomedOf(w)'
  <2>1. CASE v = w
    <3>1. /\ rows' = rows /\ req'[w].step = "probe" /\ req'[w].family = req[w].family
          /\ req'[w].doomed \in {{}, Family(req[w].family)}
      BY <1>1, <1>7, <2>1 DEF ConsumeNoRow, Become, Request
    <3> QED
      BY <1>1, <3>1 DEF DoomedOf, Family
  <2>2. CASE v # w
    BY <1>2, <1>3, <1>7, <2>2 DEF ConsumeNoRow
  <2> QED
    BY <2>1, <2>2
<1>8. ASSUME NEW v \in Worker, ProbeReused(v) PROVE DoomedOf(w)'
  <2>1. CASE v = w
    <3>1. /\ rows' = rows /\ req[w].step = "probe" /\ req'[w].step = "revoke"
          /\ req'[w].family = req[w].family /\ req'[w].doomed = req[w].doomed
      BY <1>1, <1>8, <2>1 DEF ProbeReused, Become, At, Idle
    <3> QED
      BY <1>1, <3>1 DEF DoomedOf
  <2>2. CASE v # w
    BY <1>2, <1>3, <1>8, <2>2 DEF ProbeReused
  <2> QED
    BY <2>1, <2>2
<1>9. ASSUME NEW v \in Worker, BeginRevoke(v) PROVE DoomedOf(w)'
  <2>1. CASE v = w
    <3>1. /\ rows' = rows /\ req[w].step = "revoke" /\ req'[w].step = "delete"
          /\ req'[w].seen = Family(req[w].family) /\ req'[w].doomed = req[w].doomed
      BY <1>1, <1>9, <2>1 DEF BeginRevoke, Become, At, Request
    <3> QED
      BY <1>1, <3>1 DEF DoomedOf, Family
  <2>2. CASE v # w
    BY <1>2, <1>3, <1>9, <2>2 DEF BeginRevoke
  <2> QED
    BY <2>1, <2>2
<1>10. CASE req' = req
  BY <1>2, <1>10
<1> QED
  BY <1>4, <1>5, <1>6, <1>7, <1>8, <1>9, <1>10
  DEF Next, vars, Issue, Purge, Tick, Fail, Blocking, Prompt, RevokeFamily,
      ProbeNotFound, CommitRotate

\* A request that has met reuse, lost its token or been asked to revoke does
\* not end, unless it fails or finds its row gone, before every token that the
\* family had by then is gone: for any number of requests, and also where
\* requests fail.
THEOREM RevocationIsComplete == Spec => RevocationsComplete
<1> DEFINE Complete(w) ==
             ~ At(w, "idle") /\ At(w, "idle")' /\ ~ Fail(w) =>
               \/ req[w].doomed \cap Stored' = {}
               \/ At(w, "probe") /\ ~ Visible(req[w].old, req[w].started)
<1>1. Init => DoomedInv
  BY DEF Init, DoomedInv, DoomedOf, Idle
<1>2. IInv /\ DoomedInv /\ [Next]_vars => DoomedInv'
  BY DoomedStep
<1>3. ASSUME IInv, DoomedInv, [Next]_vars, NEW w \in Worker PROVE Complete(w)
  <2> SUFFICES ASSUME ~ At(w, "idle"), At(w, "idle")', ~ Fail(w)
               PROVE  \/ req[w].doomed \cap Stored' = {}
                      \/ At(w, "probe") /\ ~ Visible(req[w].old, req[w].started)
    OBVIOUS
  <2>1. /\ req \in [Worker -> Request] /\ req' # req /\ DoomedOf(w)
        /\ req[w].step # "idle" /\ req'[w].step = "idle"
    BY <1>3 DEF IInv, TypeOK, DoomedInv, At
  <2>2. \A v \in Worker : \A r : Become(v, r) => v = w /\ req'[w] = r
    BY <2>1 DEF Become
  <2>3. ASSUME NEW v \in Worker, Find(v) PROVE FALSE
    <3>1. At(v, "idle") /\ \E r : Become(v, r)
      BY <2>1, <2>3 DEF Find, FindNothing, FindConsumed, FindLive, FindToRevoke, ToRevoke
    <3> QED
      BY <2>1, <2>2, <3>1 DEF At
  <2>4. ASSUME NEW v \in Worker,
               BeginRotate(v) \/ ConsumeRow(v) \/ ConsumeNoRow(v) \/ ProbeReused(v)
                 \/ BeginRevoke(v)
        PROVE  FALSE
    <3>1. v = w
      BY <2>2, <2>4 DEF BeginRotate, ConsumeRow, ConsumeNoRow, ProbeReused, BeginRevoke
    <3>2. req[w] \in Request
      BY <2>1
    <3>3. CASE BeginRotate(v)
      <4>1. req'[w] = [req[w] EXCEPT !.step = "consume", !.started = now,
                                     !.row = [@ EXCEPT !.expires = now + TTL]]
        BY <2>1, <3>1, <3>3 DEF BeginRotate, Become
      <4> QED
        BY <2>1, <3>2, <4>1 DEF Request
    <3>4. CASE ConsumeRow(v) \/ BeginRevoke(v)
      BY <2>1, <3>1, <3>2, <3>4 DEF ConsumeRow, BeginRevoke, Become, Request
    <3>5. CASE ConsumeNoRow(v)
      BY <2>1, <3>1, <3>2, <3>5 DEF ConsumeNoRow, Become, Request
    <3>6. CASE ProbeReused(v)
      BY <2>1, <3>1, <3>6 DEF ProbeReused, Become, Idle
    <3> QED
      BY <2>4, <3>3, <3>4, <3>5, <3>6
  <2>5. ASSUME NEW v \in Worker, ProbeNotFound(v)
        PROVE  At(w, "probe") /\ ~ Visible(req[w].old, req[w].started)
    BY <2>2, <2>5 DEF ProbeNotFound, Finish
  <2>6. ASSUME NEW v \in Worker, NEW new \in Token, CommitRotate(v, new)
        PROVE  req[w].doomed \cap Stored' = {}
    BY <2>1, <2>2, <2>6 DEF CommitRotate, Finish, At, DoomedOf
  <2>7. ASSUME NEW v \in Worker, RevokeFamily(v)
        PROVE  req[w].doomed \cap Stored' = {}
    <3>1. v = w /\ At(w, "delete") /\ Delete(req[w].seen)
      BY <2>2, <2>7 DEF RevokeFamily, Finish
    <3>2. Stored' = Stored \ req[w].seen
      BY <3>1, DeleteRows
    <3> QED
      BY <2>1, <3>1, <3>2 DEF DoomedOf, At
  <2>8. ASSUME NEW v \in Worker, Fail(v) PROVE FALSE
    BY <2>2, <2>8 DEF Fail, Finish
  <2> QED
    BY <1>3, <2>1, <2>3, <2>4, <2>5, <2>6, <2>7, <2>8
    DEF Next, vars, Issue, Purge, Tick, Blocking, Prompt
<1>4. IInv /\ DoomedInv /\ [Next]_vars => [\A w \in Worker : Complete(w)]_vars
  BY <1>3
<1> QED
  BY <1>1, <1>2, <1>4, Invariance, PTL DEF Spec, RevocationsComplete

-----------------------------------------------------------------------------
(* RefreshTokens implements RotationChain. *)

Live == {<<rows[t].family, t>> : t \in {u \in Stored : ~ rows[u].consumed}}

\* Every concurrent behaviour of the table is one of the abstract contract:
\* issuing is Start, the commit of a rotation is Redeem, deletions are Drop,
\* and every other step is invisible.
THEOREM Refinement == Spec => ContractSpec
<1>1. Init => Contract!Init
  BY DEF Init, Contract!Init, Stored
<1>2. ASSUME IInv, [Next]_vars PROVE [Contract!Next]_(Contract!vars)
  <2> USE DEF Live
  <2>1. CASE UNCHANGED <<rows, handed, heir>>
    BY <2>1 DEF Contract!vars, Stored
  <2>2. ASSUME NEW t \in Token, NEW c \in Client, NEW u \in User, NEW s \in Scope,
               Issue(t, c, u, s)
        PROVE  Contract!Next
    <3>1. t \notin handed /\ t \notin Stored
          /\ handed' = handed \cup {t} /\ heir' = heir
      BY <1>2, <2>2 DEF Issue, IInv, Known
    <3>2. /\ Stored' = Stored \cup {t}
          /\ rows'[t].family = t /\ ~ rows'[t].consumed
          /\ \A x \in Stored \ {t} : rows'[x] = rows[x]
      BY <2>2, InsertRow DEF Issue
    <3>3. Live' = Live \cup {<<t, t>>}
      BY <3>1, <3>2
    <3>4. Contract!Start(t)
      BY <3>1, <3>3 DEF Contract!Start
    <3> QED
      BY <3>4 DEF Contract!Next
  <2>3. ASSUME NEW w \in Worker, NEW new \in Token, CommitRotate(w, new)
        PROVE  Contract!Next
    <3> DEFINE old == req[w].old
               f == rows[old].family
    <3>1. /\ old \in Stored /\ ~ rows[old].consumed
          /\ new \notin Stored /\ new \notin handed
          /\ Stored' = Stored \cup {new}
          /\ rows'[new].family = f /\ ~ rows'[new].consumed
          /\ rows'[old].family = f /\ rows'[old].consumed
          /\ \A t \in Stored \ {old} : rows'[t] = rows[t]
      BY <1>2, <2>3, CommitEffect
    <3>2. handed' = handed \cup {new} /\ heir' = heir \cup {<<old, new>>}
      BY <2>3 DEF CommitRotate
    <3>3. old \in Token /\ f \in Token
      BY <1>2, <3>1 DEF IInv, TypeOK, Row
    <3> HIDE DEF old
    <3>4. <<f, old>> \in Live
      BY <3>1
    <3>5. Live' = (Live \ {<<f, old>>}) \cup {<<f, new>>}
      <4>1. ASSUME NEW x \in Live' PROVE x \in (Live \ {<<f, old>>}) \cup {<<f, new>>}
        BY <3>1, <4>1
      <4>2. ASSUME NEW x \in (Live \ {<<f, old>>}) \cup {<<f, new>>} PROVE x \in Live'
        BY <3>1, <4>2
      <4> QED
        BY <4>1, <4>2
    <3>6. Contract!Redeem(f, old, new)
      BY <3>1, <3>2, <3>4, <3>5 DEF Contract!Redeem
    <3> QED
      BY <3>3, <3>6 DEF Contract!Next
  <2>4. ASSUME NEW S, Delete(S), UNCHANGED <<handed, heir>>
        PROVE  Contract!Next
    <3>1. Live' \subseteq Live
      BY <2>4, DeleteRows
    <3> QED
      BY <2>4, <3>1 DEF Contract!Next, Contract!Drop
  <2> QED
    BY <1>2, <2>1, <2>2, <2>3, <2>4, TableSteps DEF RevokeFamily
<1> QED
  BY <1>1, <1>2, Invariance, PTL DEF Spec, ContractSpec, Contract!Spec

=============================================================================
