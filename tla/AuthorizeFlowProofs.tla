------------------------- MODULE AuthorizeFlowProofs -------------------------
(***************************************************************************)
(* Proofs about AuthorizeFlow.  What a tab, a pending request or a code    *)
(* has learnt of a session stays true, since logins are never changed and  *)
(* the store only forgets.  A request that may still be answered is held   *)
(* by one tab, one pending record or one code, and by none once it is      *)
(* denied.  And a request can only meet a login that it rules out if that  *)
(* login is dead, or is judged and refused: the cookie jar moves to logins *)
(* whose cookies were on their way, or that came later.                    *)
(***************************************************************************)
EXTENDS AuthorizeFlow, SequenceTheorems, TLAPS

-----------------------------------------------------------------------------
(* The inductive invariant. *)

\* The tab has an authorization request that may still lead to a code.
Carries(t) ==
  \/ tabs[t].step \in {"session", "owner", "consent", "issue", "park"}
  \/ tabs[t].step = "expel" /\ tabs[t].query # NoQuery
  \/ tabs[t].step = "answer" /\ tabs[t].goes = "authorize"

\* So has the pending record.
Parked(p) == pendings[p] # Gone

\* A request that was sent.  No login that it rules out is on its way.
Held(q) ==
  /\ q \in Query /\ q.n \in 1..sent
  /\ \A s \in q.ruledOut : s \in 1..Len(sessions)
  /\ \A u \in Tab : tabs[u].set.session \notin q.ruledOut

\* A session that the request must not use is refused by /authorize.
Judged(t) ==
  LET s == tabs[t].session IN
  LiveSession(s) /\ ~ Forced(t, s) => s \notin tabs[t].query.ruledOut

\* While /authorize works, the browser has the session it sent, none, or one
\* that the request allows.
JarMoved(t) ==
  jar.session \in {0, tabs[t].session} \/ jar.session \notin tabs[t].query.ruledOut

\* The browser has no session that the request would have to refuse.
JarFits(q) == LiveSession(jar.session) => jar.session \notin q.ruledOut

\* What the steps of /authorize have read of the session is its login.
HasRead(t) ==
  LET s == tabs[t].session IN
  /\ tabs[t].step \in {"owner", "consent", "issue"} =>
       s # 0 /\ tabs[t].at = sessions[s].at /\ s \notin tabs[t].query.ruledOut
  /\ tabs[t].step \in {"consent", "issue"} => tabs[t].user = sessions[s].user

\* What the other steps rely on.
Fields(t) ==
  /\ tabs[t].step \in {"login", "peek", "grant", "deny"} => tabs[t].user \in User
  /\ tabs[t].step \in {"grant", "deny"} => tabs[t].query \in Query
  /\ tabs[t].step \in {"user", "peek"} => tabs[t].goes \in {"grant", "deny"}
  /\ tabs[t].step \in {"resume", "grant", "deny"} => tabs[t].pending # 0
  /\ tabs[t].step = "park" => tabs[t].goes \in {"idle", "to_consent"}
  /\ tabs[t].step = "logout" => tabs[t].query = NoQuery

\* The ids that a tab has are of the store.
Ids(t) ==
  /\ tabs[t].session <= Len(sessions) /\ tabs[t].pending <= Len(pendings)
  /\ tabs[t].set.session # None => tabs[t].set.session <= Len(sessions)
  /\ tabs[t].set.pending # None => tabs[t].set.pending <= Len(pendings)

TabInv(t) ==
  /\ Ids(t)
  /\ Fields(t)
  /\ Carries(t) => Held(tabs[t].query)
  /\ tabs[t].step = "session" => Judged(t)
  /\ Carries(t) /\ tabs[t].step \in {"session", "expel", "owner", "consent"} => JarMoved(t)
  /\ Carries(t) /\ tabs[t].step \in {"park", "answer"} => JarFits(tabs[t].query)
  /\ HasRead(t)

\* A pending request will be resumed with the session of the jar by then.
PendingInv(p) ==
  Parked(p) => Held(pendings[p].query) /\ JarFits(pendings[p].query)

CodeInv(i) ==
  LET c == codes[i] IN
  /\ c.session \in 1..Len(sessions) /\ c.query.n \in 1..sent
  /\ c.user = sessions[c.session].user /\ c.at = sessions[c.session].at
  /\ c.session \notin c.query.ruledOut

\* A request is in one place, and in none when it is denied.
OneHolder ==
  /\ \A t, u \in Tab :
       Carries(t) /\ Carries(u) /\ tabs[t].query.n = tabs[u].query.n => t = u
  /\ \A p, q \in 1..Len(pendings) :
       Parked(p) /\ Parked(q) /\ pendings[p].query.n = pendings[q].query.n => p = q
  /\ \A i, j \in 1..Len(codes) : codes[i].query.n = codes[j].query.n => i = j
  /\ \A t \in Tab, p \in 1..Len(pendings) :
       Carries(t) /\ Parked(p) => tabs[t].query.n # pendings[p].query.n
  /\ \A t \in Tab, i \in 1..Len(codes) : Carries(t) => tabs[t].query.n # codes[i].query.n
  /\ \A p \in 1..Len(pendings), i \in 1..Len(codes) :
       Parked(p) => pendings[p].query.n # codes[i].query.n
  /\ \A t \in Tab : Carries(t) => tabs[t].query.n \notin denied
  /\ \A p \in 1..Len(pendings) : Parked(p) => pendings[p].query.n \notin denied
  /\ \A i \in 1..Len(codes) : codes[i].query.n \notin denied

IInv ==
  /\ TypeOK
  /\ denied \subseteq 1..sent
  /\ \A t \in Tab : TabInv(t)
  /\ \A p \in 1..Len(pendings) : PendingInv(p)
  /\ \A i \in 1..Len(codes) : CodeInv(i)
  /\ OneHolder

-----------------------------------------------------------------------------
(* How every step moves the store, the jar and the cookies on their way. *)

\* Logins and records are added at the end; the store only forgets.  The jar
\* has what it had, nothing, or what was on its way; and on its way is what
\* was, or the login of this step.
Onward ==
  /\ now' \in Nat /\ now <= now' /\ sent' \in Nat /\ sent <= sent'
  /\ Len(sessions') \in Nat /\ Len(sessions) <= Len(sessions')
  /\ \A s \in 1..Len(sessions) :
       /\ sessions'[s].user = sessions[s].user /\ sessions'[s].at = sessions[s].at
       /\ sessions'[s].stored => sessions[s].stored
  /\ Len(pendings') \in Nat /\ Len(pendings) <= Len(pendings')
  /\ \A p \in 1..Len(pendings) : pendings'[p] \in {pendings[p], Gone}
  /\ \/ jar'.session \in {0, jar.session}
     \/ \E u \in Tab : jar'.session = tabs[u].set.session
  /\ \A v \in Tab :
       \/ tabs'[v].set.session \in {None, 0, Len(sessions) + 1}
       \/ \E u \in Tab : tabs'[v].set.session = tabs[u].set.session

\* Lengths, and what the entries are.
LEMMA StoreTypes ==
  ASSUME TypeOK
  PROVE  /\ now \in Nat /\ sent \in Nat
         /\ Len(sessions) \in Nat /\ Len(pendings) \in Nat /\ Len(codes) \in Nat
         /\ jar.session \in 0..Len(sessions) /\ jar.pending \in 0..Len(pendings)
         /\ \A s \in 1..Len(sessions) :
              /\ sessions[s] \in Session
              /\ sessions[s].user \in User /\ sessions[s].at \in Nat
              /\ sessions[s].stored \in BOOLEAN
         /\ \A p \in 1..Len(pendings) :
              /\ pendings[p] \in Pending \cup {Gone}
              /\ Parked(p) => pendings[p] \in Pending /\ pendings[p].query \in Query
         /\ \A i \in 1..Len(codes) : codes[i] \in Code
<1>1. Len(sessions) \in Nat /\ Len(pendings) \in Nat /\ Len(codes) \in Nat
  BY LenProperties DEF TypeOK
<1>2. \A s \in 1..Len(sessions) : sessions[s] \in Session
  BY ElementOfSeq DEF TypeOK
<1>3. \A p \in 1..Len(pendings) : pendings[p] \in Pending \cup {Gone}
  BY ElementOfSeq DEF TypeOK
<1>4. \A p \in 1..Len(pendings) :
        Parked(p) => pendings[p] \in Pending /\ pendings[p].query \in Query
  BY <1>3 DEF Pending, Parked
<1>5. \A i \in 1..Len(codes) : codes[i] \in Code
  BY ElementOfSeq DEF TypeOK
<1> QED
  BY <1>1, <1>2, <1>3, <1>4, <1>5 DEF TypeOK, Session

LEMMA Bounds ==
  Ages \subseteq Nat /\ SessionTTL \in Nat /\ PendingTTL \in Nat /\ None \notin Nat
  BY AuthorizeFlowAssumption

LEMMA TabTypes ==
  ASSUME TypeOK, NEW t \in Tab
  PROVE  /\ tabs[t] \in TabState
         /\ tabs[t].session \in Nat /\ tabs[t].pending \in Nat /\ tabs[t].at \in Nat
         /\ tabs[t].maxAge # None => tabs[t].maxAge \in Nat
         /\ tabs[t].query \in Query \cup {NoQuery}
         /\ tabs[t].set \in [session : Nat \cup {None}, pending : Nat \cup {None}]
         /\ tabs[t].set.session # None => tabs[t].set.session \in Nat
         /\ tabs[t].set.pending # None => tabs[t].set.pending \in Nat
<1>1. tabs[t] \in TabState
  BY DEF TypeOK
<1>2. tabs[t].query \in Query \cup {NoQuery} /\ tabs[t].maxAge \in Ages \cup {None}
  BY <1>1 DEF TabState
<1>3. tabs[t].set \in [session : Nat \cup {None}, pending : Nat \cup {None}]
  BY <1>1 DEF TabState
<1>4. tabs[t].maxAge # None => tabs[t].maxAge \in Nat
  BY <1>2, Bounds
<1> QED
  BY <1>1, <1>2, <1>3, <1>4 DEF TabState

\* A session that the store has forgotten, or that has expired, is dead for ever.
LEMMA DeadStaysDead ==
  ASSUME TypeOK, Onward, NEW s \in 0..Len(sessions),
         s # 0 /\ sessions'[s].stored /\ now' <= sessions'[s].at + SessionTTL
  PROVE  LiveSession(s)
<1>1. s \in 1..Len(sessions) /\ sessions[s].at \in Nat /\ now \in Nat
  BY StoreTypes
<1>2. sessions[s].stored /\ sessions'[s].at = sessions[s].at
  BY <1>1 DEF Onward
<1>3. now <= sessions[s].at + SessionTTL
  BY <1>1, <1>2, Bounds DEF Onward
<1> QED
  BY <1>2, <1>3 DEF LiveSession

\* An age only grows.
LEMMA Older ==
  ASSUME NEW n \in Nat, NEW m \in Nat, n <= m, NEW a \in Nat, NEW age \in Nat, n - a > age
  PROVE  m - a > age
  OBVIOUS

\* A request stays held, whoever has it, and what fits it.
LEMMA HeldStays ==
  ASSUME TypeOK, Onward, NEW q, Held(q)
  PROVE  /\ q \in Query /\ q.n \in 1..sent'
         /\ \A s \in q.ruledOut : s \in 1..Len(sessions')
         /\ \A u \in Tab : tabs'[u].set.session \notin q.ruledOut
         /\ jar'.session = jar.session \/ jar'.session \notin q.ruledOut
         /\ JarFits(q) /\ LiveSession(jar.session)' => jar'.session \notin q.ruledOut
<1>1. /\ now \in Nat /\ sent \in Nat /\ Len(sessions) \in Nat
      /\ jar.session \in 0..Len(sessions)
      /\ sent' \in Nat /\ sent <= sent'
      /\ Len(sessions') \in Nat /\ Len(sessions) <= Len(sessions')
  BY StoreTypes DEF Onward
<1>2. /\ q \in Query /\ q.n \in 1..sent
      /\ \A s \in q.ruledOut : s \in 1..Len(sessions)
      /\ \A u \in Tab : tabs[u].set.session \notin q.ruledOut
  BY DEF Held
<1>3. q.n \in 1..sent' /\ \A s \in q.ruledOut : s \in 1..Len(sessions')
  BY <1>1, <1>2
<1>4. 0 \notin q.ruledOut /\ None \notin q.ruledOut /\ Len(sessions) + 1 \notin q.ruledOut
  BY <1>1, <1>2, Bounds
<1>5. \A u \in Tab : tabs'[u].set.session \notin q.ruledOut
  BY <1>2, <1>4 DEF Onward
<1>6. jar'.session = jar.session \/ jar'.session \notin q.ruledOut
  BY <1>2, <1>4 DEF Onward
<1>7. ASSUME JarFits(q), LiveSession(jar.session)' PROVE jar'.session \notin q.ruledOut
  <2>1. CASE jar'.session = jar.session
    <3>1. LiveSession(jar.session)
      BY <1>1, <1>7, <2>1, DeadStaysDead DEF LiveSession
    <3> QED
      BY <1>7, <2>1, <3>1 DEF JarFits
  <2> QED
    BY <1>6, <2>1
<1> QED
  BY <1>2, <1>3, <1>5, <1>6, <1>7

\* A tab that a step leaves alone keeps what it knows.
LEMMA TabStays ==
  ASSUME IInv, Onward, NEW t \in Tab, tabs'[t] = tabs[t]
  PROVE  TabInv(t)'
<1> DEFINE s == tabs[t].session
           q == tabs[t].query
<1>1. TabInv(t) /\ TypeOK
  BY DEF IInv
<1>2. /\ now \in Nat /\ Len(sessions) \in Nat /\ Len(pendings) \in Nat
      /\ now' \in Nat /\ now <= now'
      /\ Len(sessions') \in Nat /\ Len(sessions) <= Len(sessions')
      /\ Len(pendings') \in Nat /\ Len(pendings) <= Len(pendings')
  BY <1>1, StoreTypes DEF Onward
<1>3. /\ s \in Nat /\ tabs[t].pending \in Nat
      /\ tabs[t].maxAge # None => tabs[t].maxAge \in Nat
      /\ tabs[t].set.session # None => tabs[t].set.session \in Nat
      /\ tabs[t].set.pending # None => tabs[t].set.pending \in Nat
  BY <1>1, TabTypes
<1>4. s \in 0..Len(sessions)
  BY <1>1, <1>2, <1>3 DEF TabInv, Ids
<1>5. \A i \in 1..Len(sessions) :
        /\ sessions[i].at \in Nat
        /\ sessions'[i].user = sessions[i].user /\ sessions'[i].at = sessions[i].at
  BY <1>1, StoreTypes DEF Onward
<1>6. Ids(t)'
  BY <1>1, <1>2, <1>3 DEF TabInv, Ids
<1>7. ASSUME Carries(t)
      PROVE  /\ Held(q)
             /\ q \in Query /\ q.n \in 1..sent'
             /\ \A i \in q.ruledOut : i \in 1..Len(sessions')
             /\ \A u \in Tab : tabs'[u].set.session \notin q.ruledOut
             /\ jar'.session = jar.session \/ jar'.session \notin q.ruledOut
             /\ JarFits(q) /\ LiveSession(jar.session)' => jar'.session \notin q.ruledOut
  <2>1. Held(q)
    BY <1>1, <1>7 DEF TabInv
  <2> HIDE DEF q
  <2> QED
    BY <1>1, <2>1, HeldStays
<1>8. (Carries(t) => Held(tabs[t].query))'
  BY <1>7 DEF Carries, Held
<1>9. (tabs[t].step = "session" => Judged(t))'
  <2> SUFFICES ASSUME tabs[t].step = "session", LiveSession(s)', ~ Forced(t, s)'
               PROVE  s \notin q.ruledOut
    BY DEF Judged
  <2>1. LiveSession(s) /\ s \in 1..Len(sessions)
    BY <1>1, <1>4, DeadStaysDead DEF LiveSession
  <2>2. ~ Forced(t, s)
    <3> SUFFICES ASSUME TooOld(t, s) PROVE TooOld(t, s)'
      BY DEF Forced
    <3>1. sessions'[s].at = sessions[s].at /\ sessions[s].at \in Nat
      BY <1>5, <2>1
    <3>2. tabs[t].maxAge # None /\ now - sessions[s].at > tabs[t].maxAge
      BY DEF TooOld
    <3>3. tabs[t].maxAge \in Nat
      BY <1>3, <3>2
    <3>4. now' - sessions[s].at > tabs[t].maxAge
      BY <1>2, <3>1, <3>2, <3>3, Older
    <3> QED
      BY <3>1, <3>2, <3>4 DEF TooOld
  <2> QED
    BY <1>1, <2>1, <2>2 DEF TabInv, Judged
<1>10. (Carries(t) /\ tabs[t].step \in {"session", "expel", "owner", "consent"}
          => JarMoved(t))'
  BY <1>1, <1>7 DEF TabInv, JarMoved, Carries
<1>11. (Carries(t) /\ tabs[t].step \in {"park", "answer"} => JarFits(tabs[t].query))'
  BY <1>1, <1>7 DEF TabInv, JarFits, Carries
<1>12. HasRead(t)' /\ Fields(t)'
  BY <1>1, <1>4, <1>5 DEF TabInv, HasRead, Fields
<1> QED
  BY <1>6, <1>8, <1>9, <1>10, <1>11, <1>12 DEF TabInv

LEMMA PendingStays ==
  ASSUME IInv, Onward, NEW p \in 1..Len(pendings)
  PROVE  PendingInv(p)'
<1> SUFFICES ASSUME Parked(p)'
             PROVE  Held(pendings[p].query)' /\ JarFits(pendings[p].query)'
  BY DEF PendingInv
<1> DEFINE q == pendings[p].query
<1>1. pendings'[p] = pendings[p] /\ Parked(p)
  BY DEF Parked, Onward
<1>2. TypeOK /\ Held(q) /\ JarFits(q)
  BY <1>1 DEF IInv, PendingInv
<1>3. /\ q \in Query /\ q.n \in 1..sent'
      /\ \A s \in q.ruledOut : s \in 1..Len(sessions')
      /\ \A u \in Tab : tabs'[u].set.session \notin q.ruledOut
      /\ LiveSession(jar.session)' => jar'.session \notin q.ruledOut
  <2> HIDE DEF q
  <2> QED
    BY <1>2, HeldStays
<1> QED
  BY <1>1, <1>3 DEF Held, JarFits

\* What a code says was true when it was issued, and stays true.
LEMMA CodeStays ==
  ASSUME IInv, Onward, NEW i \in 1..Len(codes), codes'[i] = codes[i]
  PROVE  CodeInv(i)'
<1>1. CodeInv(i) /\ TypeOK
  BY DEF IInv
<1>2. /\ sent \in Nat /\ sent' \in Nat /\ sent <= sent'
      /\ Len(sessions) \in Nat /\ Len(sessions') \in Nat /\ Len(sessions) <= Len(sessions')
  BY <1>1, StoreTypes DEF Onward
<1>3. codes[i].query.n \in 1..sent' /\ codes[i].session \in 1..Len(sessions')
  BY <1>1, <1>2 DEF CodeInv
<1>4. sessions'[codes[i].session].user = sessions[codes[i].session].user
      /\ sessions'[codes[i].session].at = sessions[codes[i].session].at
  BY <1>1 DEF CodeInv, Onward
<1> QED
  BY <1>1, <1>3, <1>4 DEF CodeInv

-----------------------------------------------------------------------------
(* A request is in one place. *)

\* No new holder.
LEMMA HoldersShrink ==
  ASSUME OneHolder, codes' = codes, denied' = denied, Len(pendings') = Len(pendings),
         \A u \in Tab : Carries(u)' => Carries(u) /\ tabs'[u].query = tabs[u].query,
         \A p \in 1..Len(pendings) : pendings'[p] \in {pendings[p], Gone}
  PROVE  OneHolder'
<1>1. \A p \in 1..Len(pendings) : Parked(p)' => Parked(p) /\ pendings'[p] = pendings[p]
  BY DEF Parked
<1>2. \A u \in Tab : Carries(u)' => Carries(u) /\ tabs'[u].query = tabs[u].query
  OBVIOUS
<1>3. (\A t, u \in Tab :
        Carries(t) /\ Carries(u) /\ tabs[t].query.n = tabs[u].query.n => t = u)'
  BY <1>2 DEF OneHolder
<1>4. (\A p, q \in 1..Len(pendings) :
        Parked(p) /\ Parked(q) /\ pendings[p].query.n = pendings[q].query.n => p = q)'
  BY <1>1 DEF OneHolder
<1>5. (\A i, j \in 1..Len(codes) : codes[i].query.n = codes[j].query.n => i = j)'
  BY DEF OneHolder
<1>6. (\A t \in Tab, p \in 1..Len(pendings) :
        Carries(t) /\ Parked(p) => tabs[t].query.n # pendings[p].query.n)'
  BY <1>1, <1>2 DEF OneHolder
<1>7. (\A t \in Tab, i \in 1..Len(codes) :
        Carries(t) => tabs[t].query.n # codes[i].query.n)'
  BY <1>2 DEF OneHolder
<1>8. (\A p \in 1..Len(pendings), i \in 1..Len(codes) :
        Parked(p) => pendings[p].query.n # codes[i].query.n)'
  BY <1>1 DEF OneHolder
<1>9. (\A t \in Tab : Carries(t) => tabs[t].query.n \notin denied)'
  BY <1>2 DEF OneHolder
<1>10. (\A p \in 1..Len(pendings) : Parked(p) => pendings[p].query.n \notin denied)'
  BY <1>1 DEF OneHolder
<1>11. (\A i \in 1..Len(codes) : codes[i].query.n \notin denied)'
  BY DEF OneHolder
<1> QED
  BY <1>3, <1>4, <1>5, <1>6, <1>7, <1>8, <1>9, <1>10, <1>11 DEF OneHolder

\* A tab has a number that no one else has any more.
LEMMA TabHolds ==
  ASSUME OneHolder, NEW t \in Tab, NEW n,
         codes' = codes, denied' = denied, Len(pendings') = Len(pendings),
         \A u \in Tab \ {t} : tabs'[u] = tabs[u],
         tabs'[t].query.n = n,
         \A p \in 1..Len(pendings) : pendings'[p] \in {pendings[p], Gone},
         \A u \in Tab \ {t} : Carries(u) => tabs[u].query.n # n,
         \A p \in 1..Len(pendings) : Parked(p)' => pendings[p].query.n # n,
         \A i \in 1..Len(codes) : codes[i].query.n # n,
         n \notin denied
  PROVE  OneHolder'
<1>1. \A p \in 1..Len(pendings) : Parked(p)' => Parked(p) /\ pendings'[p] = pendings[p]
  BY DEF Parked
<1>2. \A u \in Tab \ {t} : Carries(u)' => Carries(u)
  BY DEF Carries
<1>3. (\A u, v \in Tab :
        Carries(u) /\ Carries(v) /\ tabs[u].query.n = tabs[v].query.n => u = v)'
  BY <1>2 DEF OneHolder
<1>4. (\A p, q \in 1..Len(pendings) :
        Parked(p) /\ Parked(q) /\ pendings[p].query.n = pendings[q].query.n => p = q)'
  BY <1>1 DEF OneHolder
<1>5. (\A u \in Tab, p \in 1..Len(pendings) :
        Carries(u) /\ Parked(p) => tabs[u].query.n # pendings[p].query.n)'
  BY <1>1, <1>2 DEF OneHolder
<1>6. (\A u \in Tab, i \in 1..Len(codes) :
        Carries(u) => tabs[u].query.n # codes[i].query.n)'
  BY <1>2 DEF OneHolder
<1>7. (\A p \in 1..Len(pendings), i \in 1..Len(codes) :
        Parked(p) => pendings[p].query.n # codes[i].query.n)'
  BY <1>1 DEF OneHolder
<1>8. (\A u \in Tab : Carries(u) => tabs[u].query.n \notin denied)'
  BY <1>2 DEF OneHolder
<1>9. (\A p \in 1..Len(pendings) : Parked(p) => pendings[p].query.n \notin denied)'
  BY <1>1 DEF OneHolder
<1> QED
  BY <1>3, <1>4, <1>5, <1>6, <1>7, <1>8, <1>9 DEF OneHolder

\* A tab gives its request to a new pending record.
LEMMA RecordHolds ==
  ASSUME OneHolder, NEW t \in Tab, Carries(t), ~ Carries(t)',
         \A u \in Tab \ {t} : tabs'[u] = tabs[u],
         codes' = codes, denied' = denied,
         Len(pendings) \in Nat, Len(pendings') = Len(pendings) + 1,
         \A p \in 1..Len(pendings) : pendings'[p] = pendings[p],
         pendings'[Len(pendings) + 1].query = tabs[t].query
  PROVE  OneHolder'
<1> DEFINE m == Len(pendings) + 1
<1>1. \A p \in 1..Len(pendings') : p = m \/ p \in 1..Len(pendings)
  OBVIOUS
<1>2. \A u \in Tab : Carries(u)' => u # t /\ Carries(u) /\ tabs'[u] = tabs[u]
  BY DEF Carries
<1>3. \A p \in 1..Len(pendings) : Parked(p)' => Parked(p) /\ pendings'[p] = pendings[p]
  BY DEF Parked
<1>4. pendings'[m].query.n = tabs[t].query.n
  OBVIOUS
<1> HIDE DEF m
<1>5. (\A p, q \in 1..Len(pendings) :
        Parked(p) /\ Parked(q) /\ pendings[p].query.n = pendings[q].query.n => p = q)'
  BY <1>1, <1>3, <1>4 DEF OneHolder
<1>6. (\A u \in Tab, p \in 1..Len(pendings) :
        Carries(u) /\ Parked(p) => tabs[u].query.n # pendings[p].query.n)'
  BY <1>1, <1>2, <1>3, <1>4 DEF OneHolder
<1>7. (\A p \in 1..Len(pendings), i \in 1..Len(codes) :
        Parked(p) => pendings[p].query.n # codes[i].query.n)'
  BY <1>1, <1>3, <1>4 DEF OneHolder
<1>8. (\A p \in 1..Len(pendings) : Parked(p) => pendings[p].query.n \notin denied)'
  BY <1>1, <1>3, <1>4 DEF OneHolder
<1>9. (\A u, v \in Tab :
        Carries(u) /\ Carries(v) /\ tabs[u].query.n = tabs[v].query.n => u = v)'
  BY <1>2 DEF OneHolder
<1>10. (\A i, j \in 1..Len(codes) : codes[i].query.n = codes[j].query.n => i = j)'
  BY DEF OneHolder
<1>11. (\A u \in Tab, i \in 1..Len(codes) :
        Carries(u) => tabs[u].query.n # codes[i].query.n)'
  BY <1>2 DEF OneHolder
<1>12. (\A u \in Tab : Carries(u) => tabs[u].query.n \notin denied)'
  BY <1>2 DEF OneHolder
<1>13. (\A i \in 1..Len(codes) : codes[i].query.n \notin denied)'
  BY DEF OneHolder
<1> QED
  BY <1>5, <1>6, <1>7, <1>8, <1>9, <1>10, <1>11, <1>12, <1>13 DEF OneHolder

\* A tab gets a code for its request.
LEMMA CodeHolds ==
  ASSUME OneHolder, NEW t \in Tab, Carries(t), ~ Carries(t)',
         \A u \in Tab \ {t} : tabs'[u] = tabs[u],
         pendings' = pendings, denied' = denied,
         Len(codes) \in Nat, Len(codes') = Len(codes) + 1,
         \A i \in 1..Len(codes) : codes'[i] = codes[i],
         codes'[Len(codes) + 1].query = tabs[t].query
  PROVE  OneHolder'
<1> DEFINE m == Len(codes) + 1
<1>1. \A i \in 1..Len(codes') : i = m \/ i \in 1..Len(codes)
  OBVIOUS
<1>2. \A u \in Tab : Carries(u)' => u # t /\ Carries(u) /\ tabs'[u] = tabs[u]
  BY DEF Carries
<1>3. \A p \in 1..Len(pendings') : Parked(p)' => Parked(p)
  BY DEF Parked
<1>4. codes'[m].query.n = tabs[t].query.n
  OBVIOUS
<1> HIDE DEF m
<1>5. (\A i, j \in 1..Len(codes) : codes[i].query.n = codes[j].query.n => i = j)'
  BY <1>1, <1>4 DEF OneHolder
<1>6. (\A u \in Tab, i \in 1..Len(codes) :
        Carries(u) => tabs[u].query.n # codes[i].query.n)'
  BY <1>1, <1>2, <1>4 DEF OneHolder
<1>7. (\A p \in 1..Len(pendings), i \in 1..Len(codes) :
        Parked(p) => pendings[p].query.n # codes[i].query.n)'
  BY <1>1, <1>3, <1>4 DEF OneHolder
<1>8. (\A i \in 1..Len(codes) : codes[i].query.n \notin denied)'
  BY <1>1, <1>4 DEF OneHolder
<1>9. (\A u, v \in Tab :
        Carries(u) /\ Carries(v) /\ tabs[u].query.n = tabs[v].query.n => u = v)'
  BY <1>2 DEF OneHolder
<1>10. (\A p, q \in 1..Len(pendings) :
        Parked(p) /\ Parked(q) /\ pendings[p].query.n = pendings[q].query.n => p = q)'
  BY <1>3 DEF OneHolder
<1>11. (\A u \in Tab, p \in 1..Len(pendings) :
        Carries(u) /\ Parked(p) => tabs[u].query.n # pendings[p].query.n)'
  BY <1>2, <1>3 DEF OneHolder
<1>12. (\A u \in Tab : Carries(u) => tabs[u].query.n \notin denied)'
  BY <1>2 DEF OneHolder
<1>13. (\A p \in 1..Len(pendings) : Parked(p) => pendings[p].query.n \notin denied)'
  BY <1>3 DEF OneHolder
<1> QED
  BY <1>5, <1>6, <1>7, <1>8, <1>9, <1>10, <1>11, <1>12, <1>13 DEF OneHolder

\* A pending record is taken, and its request is denied.
LEMMA NoOneHolds ==
  ASSUME OneHolder, NEW p \in 1..Len(pendings), Parked(p), ~ Parked(p)',
         \A u \in Tab : Carries(u)' => Carries(u) /\ tabs'[u].query = tabs[u].query,
         codes' = codes, denied' = denied \cup {pendings[p].query.n},
         Len(pendings') = Len(pendings),
         \A i \in 1..Len(pendings) : pendings'[i] \in {pendings[i], Gone}
  PROVE  OneHolder'
<1>1. \A i \in 1..Len(pendings) :
        Parked(i)' => i # p /\ Parked(i) /\ pendings'[i] = pendings[i]
  BY DEF Parked
<1>2. /\ (\A u, v \in Tab :
            Carries(u) /\ Carries(v) /\ tabs[u].query.n = tabs[v].query.n => u = v)'
      /\ (\A i, j \in 1..Len(pendings) :
            Parked(i) /\ Parked(j) /\ pendings[i].query.n = pendings[j].query.n => i = j)'
      /\ (\A i, j \in 1..Len(codes) : codes[i].query.n = codes[j].query.n => i = j)'
  BY <1>1 DEF OneHolder
<1>3. /\ (\A u \in Tab, i \in 1..Len(pendings) :
            Carries(u) /\ Parked(i) => tabs[u].query.n # pendings[i].query.n)'
      /\ (\A u \in Tab, i \in 1..Len(codes) :
            Carries(u) => tabs[u].query.n # codes[i].query.n)'
      /\ (\A i \in 1..Len(pendings), j \in 1..Len(codes) :
            Parked(i) => pendings[i].query.n # codes[j].query.n)'
  BY <1>1 DEF OneHolder
<1>4. (\A u \in Tab : Carries(u) => tabs[u].query.n \notin denied)'
  BY DEF OneHolder
<1>5. (\A i \in 1..Len(pendings) : Parked(i) => pendings[i].query.n \notin denied)'
  BY <1>1 DEF OneHolder
<1>6. (\A i \in 1..Len(codes) : codes[i].query.n \notin denied)'
  BY DEF OneHolder
<1> QED
  BY <1>2, <1>3, <1>4, <1>5, <1>6 DEF OneHolder

-----------------------------------------------------------------------------
(* Steps that move one tab. *)

\* The rest of the invariant, when one tab moves.
LEMMA StepInvariant ==
  ASSUME IInv, Onward, TypeOK', NEW t \in Tab,
         \A u \in Tab \ {t} : tabs'[u] = tabs[u], TabInv(t)',
         \A p \in 1..Len(pendings') : p > Len(pendings) => PendingInv(p)',
         \A i \in 1..Len(codes') :
           (i \in 1..Len(codes) /\ codes'[i] = codes[i]) \/ CodeInv(i)',
         denied' \subseteq 1..sent',
         OneHolder'
  PROVE  IInv'
<1>1. \A u \in Tab : TabInv(u)'
  BY TabStays
<1>2. \A p \in 1..Len(pendings') : PendingInv(p)'
  <2>1. Len(pendings) \in Nat /\ Len(pendings') \in Nat
    BY StoreTypes DEF IInv, Onward
  <2>2. \A p \in 1..Len(pendings') : p \in 1..Len(pendings) \/ p > Len(pendings)
    BY <2>1
  <2> QED
    BY <2>2, PendingStays
<1>3. \A i \in 1..Len(codes') : CodeInv(i)'
  BY CodeStays
<1> QED
  BY <1>1, <1>2, <1>3 DEF IInv

\* One tab moves on with the request it has, or gives it up.
LEMMA TabMove ==
  ASSUME IInv, Onward, TypeOK', NEW t \in Tab,
         \A u \in Tab \ {t} : tabs'[u] = tabs[u], TabInv(t)',
         codes' = codes, denied' = denied, Len(pendings') = Len(pendings),
         Carries(t)' => Carries(t) /\ tabs'[t].query = tabs[t].query
  PROVE  IInv'
<1>1. \A u \in Tab : Carries(u)' => Carries(u) /\ tabs'[u].query = tabs[u].query
  BY DEF Carries
<1>2. OneHolder /\ Len(pendings) \in Nat /\ sent \in Nat /\ denied \subseteq 1..sent
  BY StoreTypes DEF IInv
<1>3. OneHolder'
  BY <1>1, <1>2, HoldersShrink DEF Onward
<1>4. denied' \subseteq 1..sent'
  BY <1>2 DEF Onward
<1>5. \A p \in 1..Len(pendings') : ~ p > Len(pendings)
  BY <1>2
<1> QED
  BY <1>3, <1>4, <1>5, StepInvariant

\* The same when the store, the jar and the clock do not move.
LEMMA TabOnward ==
  ASSUME TypeOK, NEW t \in Tab, NEW st,
         Become(t, st), UNCHANGED <<now, sessions, pendings, jar>>, sent' \in {sent, sent + 1},
         st.set.session \in {None, 0, tabs[t].set.session}
  PROVE  /\ Onward /\ tabs'[t] = st /\ \A u \in Tab \ {t} : tabs'[u] = tabs[u]
<1>1. tabs'[t] = st /\ \A u \in Tab \ {t} : tabs'[u] = tabs[u]
  BY DEF TypeOK, Become
<1>2. \A v \in Tab :
       \/ tabs'[v].set.session \in {None, 0, Len(sessions) + 1}
       \/ \E u \in Tab : tabs'[v].set.session = tabs[u].set.session
  BY <1>1
<1> QED
  BY <1>1, <1>2, StoreTypes DEF Onward

LEMMA TabOnly ==
  ASSUME IInv, NEW t \in Tab, NEW st \in TabState, Become(t, st),
         UNCHANGED <<now, sessions, pendings, jar, codes, denied>>,
         sent' \in {sent, sent + 1}, consents' \subseteq User \X App,
         st.set.session \in {None, 0, tabs[t].set.session},
         TabInv(t)', Carries(t)' => Carries(t) /\ st.query = tabs[t].query
  PROVE  IInv'
<1>1. TypeOK
  BY DEF IInv
<1>2. Onward /\ tabs'[t] = st /\ \A u \in Tab \ {t} : tabs'[u] = tabs[u]
  BY <1>1, TabOnward
<1>3. TypeOK'
  BY <1>1, StoreTypes DEF TypeOK, Become
<1> QED
  BY <1>2, <1>3, TabMove

\* A tab without request, user or cookies, at a step that needs none.
LEMMA BlankTyped ==
  /\ Blank \in TabState /\ NoQuery \in Query \cup {NoQuery}
  /\ Blank.step = "idle" /\ Blank.goes = "idle" /\ Blank.query = NoQuery
  /\ Blank.session = 0 /\ Blank.pending = 0 /\ Blank.set = NoCookies
  /\ NoCookies.session = None /\ NoCookies.pending = None
  BY DEF Blank, NoCookies, TabState, Steps, Pages

Light == {"idle", "consent_form", "login", "logout", "to_consent", "user", "peek", "resume",
          "grant", "deny", "answer"}

\* What has to be shown of a tab that carries no request.
LEMMA LightTab ==
  ASSUME NEW t \in Tab, tabs'[t].step \in Light, Ids(t)', Fields(t)',
         tabs'[t].step = "answer" => tabs'[t].goes # "authorize"
  PROVE  TabInv(t)' /\ ~ Carries(t)'
<1>1. ~ Carries(t)'
  BY DEF Carries, Light
<1> QED
  BY <1>1 DEF TabInv, HasRead, Light

LEMMA BlankOnly ==
  ASSUME IInv, NEW t \in Tab, Become(t, Blank),
         UNCHANGED <<now, sessions, pendings, consents, jar, sent, codes, denied>>
  PROVE  IInv'
<1>1. TypeOK
  BY DEF IInv
<1>2. tabs'[t] = Blank /\ consents' \subseteq User \X App
  BY <1>1 DEF TypeOK, Become
<1>3. Ids(t)'
  BY <1>1, <1>2, BlankTyped, StoreTypes DEF Ids
<1>4. Fields(t)'
  BY <1>2, BlankTyped DEF Fields
<1>5. TabInv(t)' /\ ~ Carries(t)'
  BY <1>2, <1>3, <1>4, BlankTyped, LightTab DEF Light
<1> QED
  BY <1>2, <1>5, BlankTyped, TabOnly

\* One tab moves to a step at which it carries no request.
LEMMA LightOnly ==
  ASSUME IInv, NEW t \in Tab, NEW st \in TabState, Become(t, st), st.step \in Light,
         st.step = "answer" => st.goes # "authorize",
         st.session <= Len(sessions), st.pending <= Len(pendings),
         st.set.session \in {None, 0, tabs[t].set.session},
         st.set.pending # None => st.set.pending <= Len(pendings),
         st.step \in {"login", "peek", "grant", "deny"} => st.user \in User,
         st.step \in {"grant", "deny"} => st.query \in Query,
         st.step \in {"user", "peek"} => st.goes \in {"grant", "deny"},
         st.step \in {"resume", "grant", "deny"} => st.pending # 0,
         st.step = "logout" => st.query = NoQuery,
         UNCHANGED <<now, sessions, pendings, jar, codes, denied>>,
         sent' \in {sent, sent + 1}, consents' \subseteq User \X App
  PROVE  IInv'
<1>1. TypeOK /\ Ids(t)
  BY DEF IInv, TabInv
<1>2. tabs'[t] = st
  BY <1>1 DEF TypeOK, Become
<1>3. st.set.session # None => st.set.session <= Len(sessions)
  BY <1>1, StoreTypes DEF Ids
<1>4. Ids(t)'
  BY <1>2, <1>3 DEF Ids
<1>5. Fields(t)'
  BY <1>2 DEF Fields, Light
<1>6. TabInv(t)' /\ ~ Carries(t)'
  BY <1>2, <1>4, <1>5, LightTab
<1> QED
  BY <1>2, <1>6, TabOnly

\* The store forgets sessions, or nothing.
Forgets ==
  /\ sessions' \in Seq(Session) /\ Len(sessions') = Len(sessions)
  /\ \A i \in 1..Len(sessions) :
       /\ sessions'[i].user = sessions[i].user /\ sessions'[i].at = sessions[i].at
       /\ sessions'[i].stored => sessions[i].stored

\* The request is about to be parked; the browser's session is fit for it.
LEMMA ToParkInvariant ==
  ASSUME IInv, NEW t \in Tab, Carries(t), NEW goes \in {"idle", "to_consent"},
         NEW cookies, cookies \in [session : {None, 0}, pending : {None}],
         ToPark(t, goes, cookies), Forgets,
         UNCHANGED <<now, pendings, consents, jar, sent, codes, denied>>,
         LiveSession(jar.session)' => jar.session \notin tabs[t].query.ruledOut
  PROVE  IInv'
<1> DEFINE q == tabs[t].query
           st == [Blank EXCEPT !.step = "park", !.goes = goes, !.query = q,
                               !.set = cookies]
<1>1. TypeOK /\ TabInv(t) /\ Held(q) /\ q \in Query
  BY DEF IInv, TabInv, Held
<1>2. /\ now \in Nat /\ sent \in Nat /\ Len(sessions) \in Nat /\ Len(pendings) \in Nat
  BY <1>1, StoreTypes
<1>3. /\ st.step = "park" /\ st.goes = goes /\ st.query = q /\ st.set = cookies
      /\ st.session = 0 /\ st.pending = 0
  BY DEF Blank
<1>4. st \in TabState
  <2>1. cookies \in [session : Nat \cup {None}, pending : Nat \cup {None}]
    OBVIOUS
  <2>2. "park" \in Steps
    BY DEF Steps, Working
  <2> QED
    BY <1>1, <2>1, <2>2, BlankTyped DEF TabState
<1>5. Become(t, st)
  BY DEF ToPark
<1> HIDE DEF st
<1>6. tabs'[t] = st /\ \A u \in Tab \ {t} : tabs'[u] = tabs[u]
  BY <1>1, <1>5 DEF TypeOK, Become
<1>7. cookies.session \in {None, 0} /\ cookies.pending = None
  OBVIOUS
<1>8. Onward
  <2>1. \A v \in Tab :
          \/ tabs'[v].set.session \in {None, 0, Len(sessions) + 1}
          \/ \E u \in Tab : tabs'[v].set.session = tabs[u].set.session
    BY <1>3, <1>6, <1>7
  <2> QED
    BY <1>2, <2>1 DEF Onward, Forgets
<1>9. TypeOK'
  BY <1>1, <1>4, <1>5 DEF TypeOK, Become, Forgets
<1>10. TabInv(t)'
  <2>1. Ids(t)'
    BY <1>2, <1>3, <1>6, <1>7 DEF Ids, Forgets
  <2>2. Fields(t)'
    BY <1>3, <1>6 DEF Fields
  <2>3. /\ q \in Query /\ q.n \in 1..sent'
        /\ \A s \in q.ruledOut : s \in 1..Len(sessions')
        /\ \A u \in Tab : tabs'[u].set.session \notin q.ruledOut
    <3> HIDE DEF q
    <3> QED
      BY <1>1, <1>8, HeldStays
  <2>4. Held(tabs[t].query)'
    BY <1>3, <1>6, <2>3 DEF Held
  <2>5. JarFits(tabs[t].query)'
    BY <1>3, <1>6 DEF JarFits
  <2>6. tabs'[t].step = "park"
    BY <1>3, <1>6
  <2> QED
    BY <2>1, <2>2, <2>4, <2>5, <2>6 DEF TabInv, HasRead
<1> QED
  BY <1>3, <1>6, <1>8, <1>9, <1>10, TabMove

-----------------------------------------------------------------------------
(* /authorize *)

LEMMA StartInvariant ==
  ASSUME IInv, NEW t \in Tab, NEW app \in App, NEW prompt \in {"absent", "none", "login"},
         NEW maxAge \in Ages \cup {None}, Start(t, app, prompt, maxAge)
  PROVE  IInv'
<1> DEFINE q == [app |-> app, n |-> sent + 1, ruledOut |-> RuledOut(prompt, maxAge)]
           st == [Blank EXCEPT !.step = "session", !.query = q, !.prompt = prompt,
                               !.maxAge = maxAge, !.session = jar.session]
<1>1. TypeOK /\ OneHolder /\ denied \subseteq 1..sent
  BY DEF IInv
<1>2. /\ now \in Nat /\ sent \in Nat /\ Len(sessions) \in Nat /\ Len(pendings) \in Nat
      /\ Len(codes) \in Nat /\ jar.session \in 0..Len(sessions)
      /\ DOMAIN sessions = 1..Len(sessions)
      /\ \A s \in 1..Len(sessions) : sessions[s].at \in Nat
  BY <1>1, StoreTypes DEF TypeOK
<1>3. maxAge # None => maxAge \in Nat
  BY Bounds
<1>4. /\ q \in Query /\ q.n = sent + 1 /\ q.ruledOut = RuledOut(prompt, maxAge)
      /\ \A s \in q.ruledOut : s \in 1..Len(sessions) /\ s \notin Coming
  BY <1>2 DEF Query, RuledOut
<1>5. /\ UNCHANGED <<now, sessions, pendings, consents, jar, codes, denied>>
      /\ sent' = sent + 1 /\ Become(t, st)
  BY DEF Start, Send
<1> HIDE DEF q
<1>6. /\ st.step = "session" /\ st.query = q /\ st.prompt = prompt /\ st.maxAge = maxAge
      /\ st.session = jar.session /\ st.pending = 0 /\ st.set = NoCookies
  BY DEF Blank
<1>7. st \in TabState
  <2>1. "session" \in Steps /\ jar.session \in Nat
    BY <1>2 DEF Steps, Requests
  <2> QED
    BY <1>4, <2>1, BlankTyped DEF TabState
<1> HIDE DEF st
<1>8. Onward /\ tabs'[t] = st /\ \A u \in Tab \ {t} : tabs'[u] = tabs[u]
  BY <1>1, <1>5, <1>6, TabOnward, BlankTyped
<1>9. TypeOK'
  BY <1>1, <1>2, <1>5, <1>7 DEF TypeOK, Become
<1>10. TabInv(t)'
  <2>1. Ids(t)'
    BY <1>2, <1>5, <1>6, <1>8, BlankTyped DEF Ids
  <2>2. Held(tabs[t].query)'
    <3>1. \A u \in Tab : tabs'[u].set.session \notin q.ruledOut
      <4>1. None \notin q.ruledOut /\ 0 \notin q.ruledOut
        BY <1>2, <1>4, Bounds
      <4>2. \A u \in Tab : tabs[u].set.session \notin q.ruledOut
        BY <1>4, <4>1 DEF Coming
      <4> QED
        BY <1>6, <1>8, <4>1, <4>2, BlankTyped
    <3> QED
      BY <1>2, <1>4, <1>5, <1>6, <1>8, <3>1 DEF Held
  <2>3. Judged(t)'
    <3> SUFFICES ASSUME LiveSession(tabs[t].session)', ~ Forced(t, tabs[t].session)',
                        jar.session \in RuledOut(prompt, maxAge)
                 PROVE  FALSE
      BY <1>4, <1>6, <1>8 DEF Judged
    <3>1. jar.session \in 1..Len(sessions) /\ sessions[jar.session].at \in Nat
      BY <1>2 DEF RuledOut
    <3>2. prompt # "login"
      BY <1>6, <1>8 DEF Forced
    <3>3. maxAge # None => ~ (now - sessions[jar.session].at > maxAge)
      BY <1>5, <1>6, <1>8 DEF Forced, TooOld
    <3>4. maxAge # None /\ sessions[jar.session].at < now - maxAge
      BY <3>2 DEF RuledOut
    <3> QED
      BY <1>2, <1>3, <3>1, <3>3, <3>4
  <2>4. JarMoved(t)'
    BY <1>5, <1>6, <1>8 DEF JarMoved
  <2>5. tabs'[t].step = "session"
    BY <1>6, <1>8
  <2> QED
    BY <2>1, <2>2, <2>3, <2>4, <2>5 DEF TabInv, HasRead, Fields
<1>11. OneHolder'
  <2>1. /\ \A u \in Tab : Carries(u) => tabs[u].query.n \in 1..sent
        /\ \A i \in 1..Len(pendings) : Parked(i) => pendings[i].query.n \in 1..sent
        /\ \A i \in 1..Len(codes) : codes[i].query.n \in 1..sent
    BY DEF IInv, TabInv, PendingInv, CodeInv, Held
  <2>2. /\ \A u \in Tab : Carries(u) => tabs[u].query.n # sent + 1
        /\ \A i \in 1..Len(pendings) : Parked(i) => pendings[i].query.n # sent + 1
        /\ \A i \in 1..Len(codes) : codes[i].query.n # sent + 1
        /\ sent + 1 \notin denied
    BY <1>1, <1>2, <2>1
  <2>3. \A i \in 1..Len(pendings) : Parked(i)' => pendings[i].query.n # sent + 1
    BY <1>5, <2>2 DEF Parked
  <2>4. tabs'[t].query.n = sent + 1
    BY <1>4, <1>6, <1>8
  <2>5. /\ Len(pendings') = Len(pendings) /\ codes' = codes /\ denied' = denied
        /\ \A i \in 1..Len(pendings) : pendings'[i] \in {pendings[i], Gone}
    BY <1>5
  <2> QED
    BY <1>1, <1>8, <2>2, <2>3, <2>4, <2>5, TabHolds, ZenonT(60)
<1>12. /\ \A i \in 1..Len(pendings') : ~ i > Len(pendings)
       /\ \A i \in 1..Len(codes') : i \in 1..Len(codes) /\ codes'[i] = codes[i]
       /\ denied' \subseteq 1..sent'
  BY <1>1, <1>2, <1>5
<1> QED
  BY <1>8, <1>9, <1>10, <1>11, <1>12, StepInvariant

\* Nothing is forgotten.
LEMMA KeepsAll ==
  ASSUME TypeOK, sessions' = sessions
  PROVE  Forgets
  BY DEF TypeOK, Forgets

\* No session, or a dead one: the jar has the same, none, or one that fits.
LEMMA NoSessionInvariant ==
  ASSUME IInv, NEW t \in Tab, NoSession(t)
  PROVE  IInv'
<1>1. TypeOK /\ Carries(t) /\ JarMoved(t)
  BY DEF IInv, TabInv, Carries, NoSession, At
<1>2. UNCHANGED <<now, sessions, pendings, consents, jar, sent, codes, denied>>
  BY DEF NoSession
<1>3. LiveSession(jar.session)' => jar.session \notin tabs[t].query.ruledOut
  BY <1>1, <1>2 DEF JarMoved, LiveSession, NoSession
<1>4. CASE Become(t, Blank)
  BY <1>2, <1>4, BlankOnly
<1>5. CASE ToPark(t, "idle", NoCookies)
  BY <1>1, <1>2, <1>3, <1>5, KeepsAll, ToParkInvariant DEF NoCookies
<1> QED
  BY <1>4, <1>5 DEF NoSession

LEMMA SessionVanishedInvariant ==
  ASSUME IInv, NEW t \in Tab, SessionVanished(t)
  PROVE  IInv'
<1>1. TypeOK /\ Carries(t) /\ JarMoved(t)
  BY DEF IInv, TabInv, Carries, SessionVanished, At
<1>2. /\ UNCHANGED <<now, sessions, pendings, consents, jar, sent, codes, denied>>
      /\ ToPark(t, "idle", NoCookies)
  BY DEF SessionVanished
<1>3. LiveSession(jar.session)' => jar.session \notin tabs[t].query.ruledOut
  BY <1>1, <1>2 DEF JarMoved, LiveSession, SessionVanished
<1> QED
  BY <1>1, <1>2, <1>3, KeepsAll, ToParkInvariant DEF NoCookies

\* No consent: the session of the request is one that it allows.
LEMMA AskConsentInvariant ==
  ASSUME IInv, NEW t \in Tab, AskConsent(t)
  PROVE  IInv'
<1>1. TypeOK /\ Carries(t) /\ JarMoved(t) /\ HasRead(t) /\ tabs[t].step = "consent"
  BY DEF IInv, TabInv, Carries, AskConsent, At
<1>2. UNCHANGED <<now, sessions, pendings, consents, jar, sent, codes, denied>>
  BY DEF AskConsent
<1>3. LiveSession(jar.session)' => jar.session \notin tabs[t].query.ruledOut
  BY <1>1, <1>2 DEF JarMoved, LiveSession, HasRead
<1>4. CASE Become(t, Blank)
  BY <1>2, <1>4, BlankOnly
<1>5. CASE ToPark(t, "to_consent", NoCookies)
  BY <1>1, <1>2, <1>3, <1>5, KeepsAll, ToParkInvariant DEF NoCookies
<1> QED
  BY <1>4, <1>5 DEF AskConsent

\* A session that the request must not use: it keeps the request, if it has to
\* come back to it.
LEMMA ForceLoginInvariant ==
  ASSUME IInv, NEW t \in Tab, ForceLogin(t)
  PROVE  IInv'
<1> DEFINE s == tabs[t].session
           q == IF tabs[t].prompt = "none" THEN NoQuery ELSE tabs[t].query
           st == [Blank EXCEPT !.step = "expel", !.session = s, !.query = q]
<1>1. /\ TypeOK /\ TabInv(t) /\ Carries(t) /\ JarMoved(t)
      /\ tabs[t].step = "session" /\ Held(tabs[t].query)
  BY DEF IInv, TabInv, Carries, ForceLogin, At
<1>2. s \in Nat /\ s <= Len(sessions) /\ tabs[t].query \in Query
  BY <1>1, TabTypes DEF TabInv, Ids, Held
<1>3. /\ Become(t, st)
      /\ UNCHANGED <<now, sessions, pendings, consents, jar, sent, codes, denied>>
  BY DEF ForceLogin
<1>4. q \in {NoQuery, tabs[t].query}
  OBVIOUS
<1> HIDE DEF q
<1>5. /\ st.step = "expel" /\ st.session = s /\ st.query = q /\ st.pending = 0
      /\ st.set = NoCookies
  BY DEF Blank
<1>6. st \in TabState
  <2>1. "expel" \in Steps /\ q \in Query \cup {NoQuery}
    BY <1>2, <1>4 DEF Steps, Working
  <2> QED
    BY <1>2, <2>1, BlankTyped DEF TabState
<1> HIDE DEF st
<1>7. Onward /\ tabs'[t] = st
  BY <1>1, <1>3, <1>5, TabOnward, BlankTyped
<1>8. consents' \subseteq User \X App
  BY <1>1, <1>3 DEF TypeOK
<1>9. ASSUME Carries(t)'
      PROVE  Held(tabs[t].query)' /\ JarMoved(t)' /\ st.query = tabs[t].query
  <2> DEFINE r == tabs[t].query
  <2>1. q = r
    BY <1>4, <1>5, <1>7, <1>9 DEF Carries
  <2>2. /\ r \in Query /\ r.n \in 1..sent'
        /\ \A i \in r.ruledOut : i \in 1..Len(sessions')
        /\ \A u \in Tab : tabs'[u].set.session \notin r.ruledOut
    <3> HIDE DEF r
    <3> QED
      BY <1>1, <1>7, HeldStays DEF r
  <2>3. tabs'[t].query = r /\ tabs'[t].session = s
    BY <1>5, <1>7, <2>1
  <2> QED
    BY <1>1, <1>3, <1>5, <2>1, <2>2, <2>3 DEF Held, JarMoved
<1>10. Ids(t)' /\ Fields(t)' /\ HasRead(t)'
  <2>1. Len(pendings) \in Nat
    BY <1>1, StoreTypes
  <2> QED
    BY <1>2, <1>3, <1>5, <1>7, <2>1, BlankTyped DEF Ids, Fields, HasRead
<1>11. TabInv(t)'
  BY <1>5, <1>7, <1>9, <1>10 DEF TabInv
<1> QED
  BY <1>1, <1>3, <1>5, <1>6, <1>8, <1>9, <1>11, TabOnly, BlankTyped

\* /logout, or the session that the request must not use, which is dead then.
LEMMA EndSessionInvariant ==
  ASSUME IInv, NEW t \in Tab, EndSession(t)
  PROVE  IInv'
<1> DEFINE s == tabs[t].session
           cleared == [NoCookies EXCEPT !.session = 0]
<1>1. TypeOK /\ TabInv(t) /\ tabs[t].step \in {"expel", "logout"}
  BY DEF IInv, EndSession
<1>2. s \in 0..Len(sessions) /\ sessions \in Seq(Session) /\ Len(sessions) \in Nat
      /\ \A i \in 1..Len(sessions) : sessions[i] \in Session
  BY <1>1, StoreTypes, TabTypes DEF TabInv, Ids, TypeOK
<1>3. /\ sessions' = IF s = 0 THEN sessions ELSE [sessions EXCEPT ![s].stored = FALSE]
      /\ UNCHANGED <<now, pendings, consents, jar, sent, codes, denied>>
  BY DEF EndSession
<1>4. Forgets /\ (s # 0 => ~ sessions'[s].stored)
  <2>1. CASE s = 0
    BY <1>1, <1>3, <2>1, KeepsAll
  <2>2. CASE s \in 1..Len(sessions)
    <3> DEFINE e == [sessions[s] EXCEPT !.stored = FALSE]
    <3>1. e \in Session /\ e.user = sessions[s].user /\ e.at = sessions[s].at
          /\ e.stored = FALSE
      BY <1>2, <2>2 DEF Session
    <3>2. sessions' = [sessions EXCEPT ![s] = e]
      BY <1>3, <2>2
    <3> HIDE DEF e
    <3>3. sessions' \in Seq(Session) /\ Len(sessions') = Len(sessions)
          /\ \A i \in 1..Len(sessions) : sessions'[i] = IF i = s THEN e ELSE sessions[i]
      BY <1>2, <2>2, <3>1, <3>2, ExceptSeq
    <3> QED
      BY <2>2, <3>1, <3>3 DEF Forgets
  <2> QED
    BY <1>2, <2>1, <2>2
<1>5. cleared.session = 0 /\ cleared.pending = None
      /\ cleared \in [session : {None, 0}, pending : {None}]
  BY DEF NoCookies
<1>6. CASE tabs[t].query # NoQuery
  <2>1. Carries(t) /\ JarMoved(t)
    BY <1>1, <1>6 DEF TabInv, Fields, Carries
  <2>2. ToPark(t, "idle", cleared)
    BY <1>6 DEF EndSession
  <2>3. LiveSession(jar.session)' => jar.session \notin tabs[t].query.ruledOut
    BY <1>3, <1>4, <2>1 DEF JarMoved, LiveSession
  <2> QED
    BY <1>3, <1>4, <1>5, <2>1, <2>2, <2>3, ToParkInvariant
<1>7. CASE tabs[t].query = NoQuery
  <2> DEFINE st == [Blank EXCEPT !.step = "answer", !.goes = "idle", !.query = NoQuery,
                                 !.set = cleared]
  <2>1. Become(t, st)
    BY <1>7 DEF EndSession, Answer
  <2>2. /\ st.step = "answer" /\ st.goes = "idle" /\ st.session = 0 /\ st.pending = 0
        /\ st.set = cleared
    BY DEF Blank
  <2>3. st \in TabState
    <3>1. "answer" \in Steps /\ cleared \in [session : Nat \cup {None}, pending : Nat \cup {None}]
      BY DEF Steps, NoCookies
    <3> QED
      BY <3>1, BlankTyped DEF TabState
  <2> HIDE DEF st
  <2>4. tabs'[t] = st /\ \A u \in Tab \ {t} : tabs'[u] = tabs[u]
    BY <1>1, <2>1 DEF TypeOK, Become
  <2>5. Len(pendings) \in Nat /\ now \in Nat /\ sent \in Nat
    BY <1>1, StoreTypes
  <2>6. Onward
    <3>1. \A v \in Tab :
            \/ tabs'[v].set.session \in {None, 0, Len(sessions) + 1}
            \/ \E u \in Tab : tabs'[v].set.session = tabs[u].set.session
      BY <1>5, <2>2, <2>4
    <3> QED
      BY <1>2, <1>3, <1>4, <2>5, <3>1 DEF Onward, Forgets
  <2>7. TypeOK'
    BY <1>1, <1>3, <1>4, <2>1, <2>3 DEF TypeOK, Become, Forgets
  <2>8. TabInv(t)' /\ ~ Carries(t)'
    <3>1. Ids(t)'
      BY <1>2, <1>3, <1>4, <1>5, <2>2, <2>4, <2>5 DEF Ids, Forgets
    <3>2. Fields(t)'
      BY <2>2, <2>4 DEF Fields
    <3> QED
      BY <2>2, <2>4, <3>1, <3>2, LightTab DEF Light
  <2> QED
    BY <1>3, <2>4, <2>6, <2>7, <2>8, TabMove
<1> QED
  BY <1>6, <1>7

\* A request goes on within /authorize: the store and the jar stay.
LEMMA ServeInvariant ==
  ASSUME IInv, NEW t \in Tab, NEW st \in TabState, Become(t, st), Carries(t),
         UNCHANGED <<now, sessions, pendings, consents, jar, sent, codes, denied>>,
         tabs[t].step \in {"session", "owner", "consent"},
         st.step \in {"owner", "consent", "issue"},
         st.session = tabs[t].session, st.pending = tabs[t].pending,
         st.query = tabs[t].query, st.set = tabs[t].set,
         st.session # 0, st.at = sessions[st.session].at,
         st.session \notin st.query.ruledOut,
         st.step \in {"consent", "issue"} => st.user = sessions[st.session].user
  PROVE  IInv'
<1>1. TypeOK /\ TabInv(t) /\ JarMoved(t) /\ Held(tabs[t].query)
  BY DEF IInv, TabInv
<1>2. Onward /\ tabs'[t] = st
  BY <1>1, TabOnward
<1>3. Held(tabs[t].query)' /\ JarMoved(t)'
  <2> DEFINE r == tabs[t].query
  <2>1. /\ r \in Query /\ r.n \in 1..sent'
        /\ \A i \in r.ruledOut : i \in 1..Len(sessions')
        /\ \A u \in Tab : tabs'[u].set.session \notin r.ruledOut
    <3> HIDE DEF r
    <3> QED
      BY <1>1, <1>2, HeldStays DEF r
  <2> QED
    BY <1>1, <1>2, <2>1 DEF Held, JarMoved
<1>4. Ids(t)' /\ Fields(t)' /\ HasRead(t)'
  BY <1>1, <1>2 DEF TabInv, Ids, Fields, HasRead
<1>5. TabInv(t)'
  BY <1>2, <1>3, <1>4 DEF TabInv
<1>6. consents' \subseteq User \X App
  BY <1>1 DEF TypeOK
<1> QED
  BY <1>2, <1>5, <1>6, TabOnly

LEMMA UseSessionInvariant ==
  ASSUME IInv, NEW t \in Tab, UseSession(t)
  PROVE  IInv'
<1> DEFINE s == tabs[t].session
           st == [tabs[t] EXCEPT !.step = "owner", !.maxAge = None, !.at = sessions[s].at]
<1>1. TypeOK /\ TabInv(t) /\ Carries(t) /\ tabs[t] \in TabState /\ tabs[t].step = "session"
  BY TabTypes DEF IInv, UseSession, At, Carries
<1>2. s # 0 /\ s \in 1..Len(sessions) /\ sessions[s].at \in Nat
  BY <1>1, StoreTypes, TabTypes DEF TabInv, Ids, UseSession, LiveSession
<1>3. s \notin tabs[t].query.ruledOut
  BY <1>1 DEF TabInv, Judged, UseSession
<1>4. /\ Become(t, st)
      /\ UNCHANGED <<now, sessions, pendings, consents, jar, sent, codes, denied>>
  BY DEF UseSession
<1>5. /\ st.step = "owner" /\ st.at = sessions[s].at /\ st.session = s
      /\ st.query = tabs[t].query /\ st.pending = tabs[t].pending /\ st.set = tabs[t].set
  BY <1>1 DEF TabState
<1>6. st \in TabState
  <2>1. "owner" \in Steps
    BY DEF Steps, Working
  <2> QED
    BY <1>1, <1>2, <2>1 DEF TabState
<1> HIDE DEF st
<1> QED
  BY <1>1, <1>2, <1>3, <1>4, <1>5, <1>6, ServeInvariant

LEMMA OwnerInvariant ==
  ASSUME IInv, NEW t \in Tab, Owner(t)
  PROVE  IInv'
<1> DEFINE s == tabs[t].session
           st == [tabs[t] EXCEPT !.step = "consent", !.user = sessions[s].user]
<1>1. TypeOK /\ TabInv(t) /\ Carries(t) /\ tabs[t] \in TabState /\ tabs[t].step = "owner"
  BY TabTypes DEF IInv, Owner, At, Carries
<1>2. s # 0 /\ s \in 1..Len(sessions) /\ sessions[s].user \in User
  BY <1>1, StoreTypes, TabTypes DEF TabInv, Ids, Owner, LiveSession
<1>3. s \notin tabs[t].query.ruledOut /\ tabs[t].at = sessions[s].at
  BY <1>1 DEF TabInv, HasRead
<1>4. /\ Become(t, st)
      /\ UNCHANGED <<now, sessions, pendings, consents, jar, sent, codes, denied>>
  BY DEF Owner
<1>5. /\ st.step = "consent" /\ st.at = tabs[t].at /\ st.session = s
      /\ st.user = sessions[s].user
      /\ st.query = tabs[t].query /\ st.pending = tabs[t].pending /\ st.set = tabs[t].set
  BY <1>1 DEF TabState
<1>6. st \in TabState
  <2>1. "consent" \in Steps
    BY DEF Steps, Working
  <2> QED
    BY <1>1, <1>2, <2>1 DEF TabState
<1> HIDE DEF st
<1> QED
  BY <1>1, <1>2, <1>3, <1>4, <1>5, <1>6, ServeInvariant

LEMMA GrantedInvariant ==
  ASSUME IInv, NEW t \in Tab, Granted(t)
  PROVE  IInv'
<1> DEFINE s == tabs[t].session
           st == [tabs[t] EXCEPT !.step = "issue"]
<1>1. TypeOK /\ TabInv(t) /\ Carries(t) /\ tabs[t] \in TabState /\ tabs[t].step = "consent"
  BY TabTypes DEF IInv, Granted, At, Carries
<1>2. /\ s # 0 /\ s \notin tabs[t].query.ruledOut
      /\ tabs[t].at = sessions[s].at /\ tabs[t].user = sessions[s].user
  BY <1>1 DEF TabInv, HasRead
<1>3. /\ Become(t, st)
      /\ UNCHANGED <<now, sessions, pendings, consents, jar, sent, codes, denied>>
  BY DEF Granted
<1>4. /\ st.step = "issue" /\ st.at = tabs[t].at /\ st.session = s
      /\ st.user = tabs[t].user
      /\ st.query = tabs[t].query /\ st.pending = tabs[t].pending /\ st.set = tabs[t].set
  BY <1>1 DEF TabState
<1>5. st \in TabState
  <2>1. "issue" \in Steps
    BY DEF Steps, Working
  <2> QED
    BY <1>1, <2>1 DEF TabState
<1> HIDE DEF st
<1> QED
  BY <1>1, <1>2, <1>3, <1>4, <1>5, ServeInvariant

\* The code says what the tab has read of one login.
LEMMA IssueCodeInvariant ==
  ASSUME IInv, NEW t \in Tab, IssueCode(t)
  PROVE  IInv'
<1> DEFINE s == tabs[t].session
           q == tabs[t].query
           c == [user |-> tabs[t].user, at |-> tabs[t].at, query |-> q, session |-> s]
<1>1. /\ TypeOK /\ TabInv(t) /\ Carries(t) /\ OneHolder /\ denied \subseteq 1..sent
      /\ tabs[t].step = "issue" /\ Held(q)
  BY DEF IInv, TabInv, IssueCode, At, Carries
<1>2. /\ s \in 1..Len(sessions) /\ tabs[t].at \in Nat /\ q \in Query /\ q.n \in 1..sent
      /\ s \notin q.ruledOut
      /\ tabs[t].at = sessions[s].at /\ tabs[t].user = sessions[s].user
      /\ tabs[t].user \in User
  BY <1>1, StoreTypes, TabTypes DEF TabInv, Ids, HasRead, Held
<1>3. /\ Len(codes) \in Nat /\ codes \in Seq(Code) /\ Len(pendings) \in Nat
      /\ Len(sessions) \in Nat
  BY <1>1, StoreTypes DEF TypeOK
<1> PICK m \in Nat : m = Len(codes) + 1
  BY <1>3
<1>4. c \in Code /\ c.query = q /\ c.session = s /\ c.user = tabs[t].user /\ c.at = tabs[t].at
  BY <1>2 DEF Code
<1>5. /\ codes' = Append(codes, c) /\ Become(t, Blank)
      /\ UNCHANGED <<now, sessions, pendings, consents, jar, sent, denied>>
  BY DEF IssueCode
<1> HIDE DEF c
<1>6. /\ codes' \in Seq(Code) /\ Len(codes') = m
      /\ \A i \in 1..Len(codes) : codes'[i] = codes[i]
      /\ codes'[m] = c
  BY <1>3, <1>4, <1>5, AppendProperties
<1>7. Onward /\ tabs'[t] = Blank /\ \A u \in Tab \ {t} : tabs'[u] = tabs[u]
  BY <1>1, <1>5, TabOnward, BlankTyped
<1>8. TypeOK'
  BY <1>1, <1>5, <1>6, BlankTyped DEF TypeOK, Become
<1>9. TabInv(t)' /\ ~ Carries(t)'
  <2>1. Ids(t)' /\ Fields(t)'
    BY <1>3, <1>5, <1>7, BlankTyped DEF Ids, Fields
  <2> QED
    BY <1>7, <2>1, BlankTyped, LightTab DEF Light
<1>10. CodeInv(m)'
  BY <1>2, <1>4, <1>5, <1>6 DEF CodeInv
<1>11. OneHolder'
  BY <1>1, <1>3, <1>4, <1>5, <1>6, <1>7, <1>9, CodeHolds
<1>12. /\ \A i \in 1..Len(pendings') : ~ i > Len(pendings)
       /\ \A i \in 1..Len(codes') : i = m \/ i \in 1..Len(codes)
       /\ denied' \subseteq 1..sent'
  BY <1>1, <1>3, <1>5, <1>6
<1>13. \A i \in 1..Len(codes') :
         (i \in 1..Len(codes) /\ codes'[i] = codes[i]) \/ CodeInv(i)'
  BY <1>6, <1>10, <1>12
<1> QED
  BY <1>7, <1>8, <1>9, <1>11, <1>12, <1>13, StepInvariant

\* A new pending record has the request from then on.
LEMMA ParkInvariant ==
  ASSUME IInv, NEW t \in Tab, Park(t)
  PROVE  IInv'
<1> DEFINE q == tabs[t].query
<1>1. /\ TypeOK /\ TabInv(t) /\ Carries(t) /\ OneHolder /\ denied \subseteq 1..sent
      /\ tabs[t].step = "park" /\ Held(q) /\ JarFits(q)
      /\ tabs[t].goes \in {"idle", "to_consent"}
  BY DEF IInv, TabInv, Fields, Park, At, Carries
<1>2. /\ now \in Nat /\ Len(pendings) \in Nat /\ Len(sessions) \in Nat /\ sent \in Nat
      /\ pendings \in Seq(Pending \cup {Gone}) /\ q \in Query
      /\ tabs[t].set \in [session : Nat \cup {None}, pending : Nat \cup {None}]
      /\ tabs[t].set.session # None => tabs[t].set.session <= Len(sessions)
      /\ tabs[t].set.pending # None => tabs[t].set.pending <= Len(pendings)
  BY <1>1, StoreTypes, TabTypes DEF TypeOK, TabInv, Ids, Held
<1>3. UNCHANGED <<now, sessions, consents, jar, sent, codes, denied>>
  BY DEF Park
<1>4. "answer" \in Steps
  BY DEF Steps
<1>5. CASE /\ pendings' = Append(pendings, [query |-> q, at |-> now])
           /\ Answer(t, tabs[t].goes, NoQuery, [tabs[t].set EXCEPT !.pending = Len(pendings) + 1])
  <2> DEFINE r == [query |-> q, at |-> now]
             cookies == [tabs[t].set EXCEPT !.pending = Len(pendings) + 1]
             st == [Blank EXCEPT !.step = "answer", !.goes = tabs[t].goes,
                                 !.query = NoQuery, !.set = cookies]
  <2>1. r \in Pending \cup {Gone} /\ r.query = q
    BY <1>2 DEF Pending
  <2>2. pendings' = Append(pendings, r) /\ Become(t, st)
    BY <1>5 DEF Answer
  <2> HIDE DEF r
  <2> PICK m \in Nat : m = Len(pendings) + 1
    BY <1>2
  <2>3. /\ pendings' \in Seq(Pending \cup {Gone}) /\ Len(pendings') = m
        /\ \A i \in 1..Len(pendings) : pendings'[i] = pendings[i]
        /\ pendings'[m] = r
    BY <1>2, <2>1, <2>2, AppendProperties
  <2>4. /\ cookies \in [session : Nat \cup {None}, pending : Nat \cup {None}]
        /\ cookies.session = tabs[t].set.session /\ cookies.pending = m
    BY <1>2
  <2> HIDE DEF cookies
  <2>5. /\ st.step = "answer" /\ st.goes = tabs[t].goes /\ st.set = cookies
        /\ st.session = 0 /\ st.pending = 0
    BY DEF Blank
  <2>6. st \in TabState
    BY <1>1, <1>4, <2>4, BlankTyped DEF TabState
  <2> HIDE DEF st
  <2>7. tabs'[t] = st /\ \A u \in Tab \ {t} : tabs'[u] = tabs[u]
    BY <1>1, <2>2 DEF TypeOK, Become
  <2>8. Onward
    <3>1. \A v \in Tab :
            \/ tabs'[v].set.session \in {None, 0, Len(sessions) + 1}
            \/ \E u \in Tab : tabs'[v].set.session = tabs[u].set.session
      BY <2>4, <2>5, <2>7
    <3> QED
      BY <1>2, <1>3, <2>3, <3>1 DEF Onward
  <2>9. TypeOK'
    <3>1. jar.pending \in 0..m
      BY <1>1, <1>2, StoreTypes
    <3>2. jar' \in [session : 0..Len(sessions'), pending : 0..Len(pendings')]
      BY <1>1, <1>3, <2>3, <3>1 DEF TypeOK
    <3>3. tabs' \in [Tab -> TabState]
      BY <1>1, <2>2, <2>6 DEF TypeOK, Become
    <3> QED
      BY <1>1, <1>3, <2>3, <3>2, <3>3 DEF TypeOK
  <2>10. TabInv(t)' /\ ~ Carries(t)'
    <3>1. Ids(t)'
      BY <1>2, <1>3, <2>3, <2>4, <2>5, <2>7 DEF Ids
    <3>2. Fields(t)'
      BY <2>5, <2>7 DEF Fields
    <3> QED
      BY <1>1, <2>5, <2>7, <3>1, <3>2, LightTab DEF Light
  <2>11. PendingInv(m)'
    <3>1. /\ q \in Query /\ q.n \in 1..sent'
          /\ \A i \in q.ruledOut : i \in 1..Len(sessions')
          /\ \A u \in Tab : tabs'[u].set.session \notin q.ruledOut
          /\ LiveSession(jar.session)' => jar'.session \notin q.ruledOut
      <4> HIDE DEF q
      <4> QED
        BY <1>1, <2>8, HeldStays
    <3>2. pendings'[m].query = q
      BY <2>1, <2>3
    <3> QED
      BY <3>1, <3>2 DEF PendingInv, Held, JarFits
  <2>12. OneHolder'
    BY <1>1, <1>2, <1>3, <2>1, <2>3, <2>7, <2>10, RecordHolds
  <2>13. /\ \A i \in 1..Len(pendings') : i > Len(pendings) => i = m
         /\ \A i \in 1..Len(codes') : i \in 1..Len(codes) /\ codes'[i] = codes[i]
         /\ denied' \subseteq 1..sent'
    BY <1>1, <1>2, <1>3, <2>3
  <2>14. \A i \in 1..Len(pendings') : i > Len(pendings) => PendingInv(i)'
    BY <2>11, <2>13
  <2> QED
    BY <2>7, <2>8, <2>9, <2>10, <2>12, <2>13, <2>14, StepInvariant
<1>6. CASE Answer(t, "idle", NoQuery, tabs[t].set) /\ pendings' = pendings
  <2> DEFINE st == [Blank EXCEPT !.step = "answer", !.goes = "idle",
                                 !.query = NoQuery, !.set = tabs[t].set]
  <2>1. Become(t, st)
    BY <1>6 DEF Answer
  <2>2. /\ st.step = "answer" /\ st.goes = "idle" /\ st.set = tabs[t].set
        /\ st.session = 0 /\ st.pending = 0
    BY DEF Blank
  <2>3. st \in TabState
    BY <1>2, <1>4, BlankTyped DEF TabState
  <2> HIDE DEF st
  <2>4. consents' \subseteq User \X App /\ st.step \in Light
    BY <1>1, <1>3, <2>2 DEF TypeOK, Light
  <2> QED
    BY <1>2, <1>3, <1>6, <2>1, <2>2, <2>3, <2>4, LightOnly
<1> QED
  BY <1>5, <1>6 DEF Park

-----------------------------------------------------------------------------
(* /login and /logout *)

LEMMA SubmitLoginInvariant ==
  ASSUME IInv, NEW t \in Tab, NEW u \in User, SubmitLogin(t, u)
  PROVE  IInv'
<1> DEFINE st == [Blank EXCEPT !.step = "login", !.user = u, !.pending = jar.pending]
<1>1. /\ TypeOK /\ Become(t, st)
      /\ UNCHANGED <<now, sessions, pendings, consents, jar, sent, codes, denied>>
  BY DEF IInv, SubmitLogin
<1>2. /\ st.step = "login" /\ st.user = u /\ st.pending = jar.pending /\ st.session = 0
      /\ st.set = NoCookies
  BY DEF Blank
<1>3. jar.pending \in Nat /\ jar.pending <= Len(pendings) /\ Len(sessions) \in Nat
  BY <1>1, StoreTypes
<1>4. st \in TabState
  <2>1. "login" \in Steps
    BY DEF Steps, Requests
  <2> QED
    BY <1>3, <2>1, BlankTyped DEF TabState
<1> HIDE DEF st
<1>5. consents' \subseteq User \X App /\ st.step \in Light
  BY <1>1, <1>2 DEF TypeOK, Light
<1> QED
  BY <1>1, <1>2, <1>3, <1>4, <1>5, BlankTyped, LightOnly

LEMMA LoginInvariant ==
  ASSUME IInv, NEW t \in Tab, Login(t)
  PROVE  IInv'
<1> DEFINE e == [user |-> tabs[t].user, at |-> now, stored |-> TRUE]
           cookies == [NoCookies EXCEPT !.session = Len(sessions) + 1]
           st == IF tabs[t].pending = 0
                 THEN [Blank EXCEPT !.step = "answer", !.goes = "idle", !.query = NoQuery,
                                    !.set = cookies]
                 ELSE [Blank EXCEPT !.step = "resume", !.pending = tabs[t].pending,
                                    !.set = cookies]
<1>1. TypeOK /\ TabInv(t) /\ tabs[t].step = "login" /\ tabs[t].user \in User
  BY DEF IInv, TabInv, Fields, Login, At
<1>2. /\ now \in Nat /\ Len(pendings) \in Nat /\ Len(sessions) \in Nat /\ sent \in Nat
      /\ sessions \in Seq(Session)
      /\ tabs[t].pending \in Nat /\ tabs[t].pending <= Len(pendings)
      /\ jar.session \in 0..Len(sessions)
  BY <1>1, StoreTypes, TabTypes DEF TypeOK, TabInv, Ids
<1>3. /\ sessions' = Append(sessions, e) /\ Become(t, st)
      /\ UNCHANGED <<now, pendings, consents, jar, sent, codes, denied>>
  BY DEF Login, Answer
<1>4. e \in Session
  BY <1>1, <1>2 DEF Session
<1> HIDE DEF e
<1>5. /\ sessions' \in Seq(Session) /\ Len(sessions') = Len(sessions) + 1
      /\ \A i \in 1..Len(sessions) : sessions'[i] = sessions[i]
  BY <1>2, <1>3, <1>4, AppendProperties
<1>6. /\ cookies \in [session : Nat \cup {None}, pending : Nat \cup {None}]
      /\ cookies.session = Len(sessions) + 1 /\ cookies.pending = None
  BY <1>2 DEF NoCookies
<1> HIDE DEF cookies
<1>7. /\ st.step \in {"answer", "resume"} /\ st.goes = "idle" /\ st.session = 0
      /\ st.pending \in {0, tabs[t].pending} /\ st.set = cookies
      /\ st.step = "resume" => st.pending # 0
  BY DEF Blank
<1>8. st \in TabState
  <2>1. "answer" \in Steps /\ "resume" \in Steps
    BY DEF Steps, Working
  <2> QED
    BY <1>2, <1>6, <2>1, BlankTyped DEF TabState
<1> HIDE DEF st
<1>9. tabs'[t] = st /\ \A u \in Tab \ {t} : tabs'[u] = tabs[u]
  BY <1>1, <1>3 DEF TypeOK, Become
<1>10. Onward
  <2>1. \A v \in Tab :
          \/ tabs'[v].set.session \in {None, 0, Len(sessions) + 1}
          \/ \E u \in Tab : tabs'[v].set.session = tabs[u].set.session
    BY <1>6, <1>7, <1>9
  <2> QED
    BY <1>2, <1>3, <1>5, <2>1 DEF Onward
<1>11. TypeOK'
  <2>1. jar' \in [session : 0..Len(sessions'), pending : 0..Len(pendings')]
    BY <1>1, <1>2, <1>3, <1>5 DEF TypeOK
  <2>2. tabs' \in [Tab -> TabState]
    BY <1>1, <1>3, <1>8 DEF TypeOK, Become
  <2> QED
    BY <1>1, <1>3, <1>5, <2>1, <2>2 DEF TypeOK
<1>12. TabInv(t)' /\ ~ Carries(t)'
  <2>1. Ids(t)'
    BY <1>2, <1>3, <1>5, <1>6, <1>7, <1>9 DEF Ids
  <2>2. Fields(t)'
    BY <1>7, <1>9 DEF Fields
  <2> QED
    BY <1>7, <1>9, <2>1, <2>2, LightTab DEF Light
<1> QED
  BY <1>3, <1>9, <1>10, <1>11, <1>12, TabMove

LEMMA LogoutInvariant ==
  ASSUME IInv, NEW t \in Tab, Logout(t)
  PROVE  IInv'
<1> DEFINE st == [Blank EXCEPT !.step = "logout", !.session = jar.session]
<1>1. /\ TypeOK /\ Become(t, st) /\ sent' = sent + 1
      /\ UNCHANGED <<now, sessions, pendings, consents, jar, codes, denied>>
  BY DEF IInv, Logout
<1>2. /\ st.step = "logout" /\ st.session = jar.session /\ st.pending = 0
      /\ st.query = NoQuery /\ st.set = NoCookies
  BY DEF Blank
<1>3. jar.session \in Nat /\ jar.session <= Len(sessions) /\ Len(pendings) \in Nat
  BY <1>1, StoreTypes
<1>4. st \in TabState
  <2>1. "logout" \in Steps
    BY DEF Steps, Requests
  <2> QED
    BY <1>3, <2>1, BlankTyped DEF TabState
<1> HIDE DEF st
<1>5. consents' \subseteq User \X App /\ st.step \in Light
  BY <1>1, <1>2 DEF TypeOK, Light
<1> QED
  BY <1>1, <1>2, <1>3, <1>4, <1>5, BlankTyped, LightOnly

\* A record is taken, or was gone already.
LEMMA Consumed ==
  ASSUME TypeOK, NEW p \in 1..Len(pendings), ConsumePending(p)
  PROVE  /\ pendings' \in Seq(Pending \cup {Gone}) /\ Len(pendings') = Len(pendings)
         /\ pendings'[p] = Gone
         /\ \A i \in 1..Len(pendings) : pendings'[i] \in {pendings[i], Gone}
         /\ \A i \in 1..Len(pendings) : i # p => pendings'[i] = pendings[i]
<1>1. pendings \in Seq(Pending \cup {Gone}) /\ Gone \in Pending \cup {Gone}
  BY DEF TypeOK
<1>2. pendings' = [pendings EXCEPT ![p] = Gone]
  BY DEF ConsumePending
<1> QED
  BY <1>1, <1>2, ExceptSeq

\* The request goes from the record to the tab, whose answer will carry it.
LEMMA ResumeInvariant ==
  ASSUME IInv, NEW t \in Tab, Resume(t)
  PROVE  IInv'
<1> DEFINE p == tabs[t].pending
           cookies == [tabs[t].set EXCEPT !.pending = 0]
<1>1. /\ TypeOK /\ TabInv(t) /\ OneHolder /\ denied \subseteq 1..sent
      /\ tabs[t].step = "resume" /\ p # 0
  BY DEF IInv, TabInv, Fields, Resume, At
<1>2. /\ now \in Nat /\ Len(pendings) \in Nat /\ Len(sessions) \in Nat /\ sent \in Nat
      /\ p \in 1..Len(pendings)
      /\ tabs[t].set \in [session : Nat \cup {None}, pending : Nat \cup {None}]
      /\ tabs[t].set.session # None => tabs[t].set.session <= Len(sessions)
  BY <1>1, StoreTypes, TabTypes DEF TabInv, Ids
<1>3. UNCHANGED <<now, sessions, consents, jar, sent, codes, denied>> /\ ConsumePending(p)
  BY DEF Resume
<1>4. /\ pendings' \in Seq(Pending \cup {Gone}) /\ Len(pendings') = Len(pendings)
      /\ pendings'[p] = Gone
      /\ \A i \in 1..Len(pendings) : pendings'[i] \in {pendings[i], Gone}
  BY <1>1, <1>2, <1>3, Consumed
<1>5. "answer" \in Steps
  BY DEF Steps
<1>6. /\ cookies \in [session : Nat \cup {None}, pending : Nat \cup {None}]
      /\ cookies.session = tabs[t].set.session /\ cookies.pending = 0
  BY <1>2
<1> HIDE DEF cookies
<1>7. ASSUME NEW goes \in {"idle", "authorize"}, NEW q \in Query \cup {NoQuery},
             Answer(t, goes, q, cookies)
      PROVE  /\ Onward /\ TypeOK' /\ Ids(t)' /\ Fields(t)'
             /\ tabs'[t].step = "answer" /\ tabs'[t].goes = goes /\ tabs'[t].query = q
             /\ \A u \in Tab \ {t} : tabs'[u] = tabs[u]
  <2> DEFINE st == [Blank EXCEPT !.step = "answer", !.goes = goes, !.query = q,
                                 !.set = cookies]
  <2>1. Become(t, st)
    BY <1>7 DEF Answer
  <2>2. /\ st.step = "answer" /\ st.goes = goes /\ st.query = q /\ st.set = cookies
        /\ st.session = 0 /\ st.pending = 0
    BY DEF Blank
  <2>3. st \in TabState
    BY <1>5, <1>6, BlankTyped DEF TabState
  <2> HIDE DEF st
  <2>4. tabs'[t] = st /\ \A u \in Tab \ {t} : tabs'[u] = tabs[u]
    BY <1>1, <2>1 DEF TypeOK, Become
  <2>5. Onward
    <3>1. \A v \in Tab :
            \/ tabs'[v].set.session \in {None, 0, Len(sessions) + 1}
            \/ \E u \in Tab : tabs'[v].set.session = tabs[u].set.session
      BY <1>6, <2>2, <2>4
    <3> QED
      BY <1>2, <1>3, <1>4, <3>1 DEF Onward
  <2>6. TypeOK'
    BY <1>1, <1>3, <1>4, <2>1, <2>3 DEF TypeOK, Become
  <2>7. Ids(t)'
    BY <1>2, <1>3, <1>4, <1>6, <2>2, <2>4 DEF Ids
  <2>8. Fields(t)'
    BY <2>2, <2>4 DEF Fields
  <2> QED
    BY <2>2, <2>4, <2>5, <2>6, <2>7, <2>8
<1>8. CASE LivePending(p)
  <2> DEFINE q == pendings[p].query
  <2>1. Parked(p) /\ q \in Query /\ Held(q) /\ JarFits(q)
    BY <1>1, <1>2, <1>8, StoreTypes DEF IInv, PendingInv, Parked, LivePending
  <2>2. Answer(t, "authorize", q, cookies)
    BY <1>8 DEF Resume, cookies
  <2>3. /\ Onward /\ TypeOK' /\ Ids(t)' /\ Fields(t)'
        /\ tabs'[t].step = "answer" /\ tabs'[t].goes = "authorize" /\ tabs'[t].query = q
        /\ \A u \in Tab \ {t} : tabs'[u] = tabs[u]
    BY <1>7, <2>1, <2>2
  <2>4. /\ q \in Query /\ q.n \in 1..sent'
        /\ \A i \in q.ruledOut : i \in 1..Len(sessions')
        /\ \A u \in Tab : tabs'[u].set.session \notin q.ruledOut
        /\ LiveSession(jar.session)' => jar'.session \notin q.ruledOut
    <3> HIDE DEF q
    <3> QED
      BY <1>1, <2>1, <2>3, HeldStays
  <2>5. TabInv(t)'
    BY <2>3, <2>4 DEF TabInv, Held, JarFits, HasRead
  <2>6. OneHolder'
    <3>1. \A i \in 1..Len(pendings) : Parked(i)' => i # p /\ Parked(i)
      BY <1>4 DEF Parked
    <3>2. /\ \A u \in Tab \ {t} : Carries(u) => tabs[u].query.n # q.n
          /\ \A i \in 1..Len(pendings) : Parked(i)' => pendings[i].query.n # q.n
          /\ \A i \in 1..Len(codes) : codes[i].query.n # q.n
          /\ q.n \notin denied
      BY <1>1, <1>2, <2>1, <3>1 DEF OneHolder
    <3> PICK n : n = q.n
      OBVIOUS
    <3>3. tabs'[t].query.n = n
      BY <2>3
    <3> QED
      BY <1>1, <1>3, <1>4, <2>3, <3>2, <3>3, TabHolds
  <2>7. /\ \A i \in 1..Len(pendings') : ~ i > Len(pendings)
        /\ \A i \in 1..Len(codes') : i \in 1..Len(codes) /\ codes'[i] = codes[i]
        /\ denied' \subseteq 1..sent'
    BY <1>1, <1>2, <1>3, <1>4
  <2> QED
    BY <2>3, <2>5, <2>6, <2>7, StepInvariant
<1>9. CASE ~ LivePending(p)
  <2>1. Answer(t, "idle", NoQuery, cookies)
    BY <1>9 DEF Resume, cookies
  <2>2. /\ Onward /\ TypeOK' /\ Ids(t)' /\ Fields(t)'
        /\ tabs'[t].step = "answer" /\ tabs'[t].goes = "idle"
        /\ \A u \in Tab \ {t} : tabs'[u] = tabs[u]
    BY <1>7, <2>1, BlankTyped
  <2>3. TabInv(t)' /\ ~ Carries(t)'
    BY <2>2, LightTab DEF Light
  <2> QED
    BY <1>3, <1>4, <2>2, <2>3, TabMove
<1> QED
  BY <1>8, <1>9

-----------------------------------------------------------------------------
(* /consent *)

LEMMA ShowConsentInvariant ==
  ASSUME IInv, NEW t \in Tab, ShowConsent(t)
  PROVE  IInv'
<1> DEFINE st == [Blank EXCEPT !.step = "consent_form"]
<1>1. TypeOK /\ UNCHANGED <<now, sessions, pendings, consents, jar, sent, codes, denied>>
  BY DEF IInv, ShowConsent
<1>2. CASE Become(t, Blank)
  BY <1>1, <1>2, BlankOnly
<1>3. CASE Become(t, st)
  <2>1. /\ st.step = "consent_form" /\ st.session = 0 /\ st.pending = 0
        /\ st.set = NoCookies
    BY DEF Blank
  <2>2. st \in TabState
    <3>1. "consent_form" \in Steps
      BY DEF Steps, Pages
    <3> QED
      BY <3>1, BlankTyped DEF TabState
  <2>3. Become(t, st)
    BY <1>3
  <2> HIDE DEF st
  <2>4. consents' \subseteq User \X App /\ st.step \in Light
    BY <1>1, <2>1 DEF TypeOK, Light
  <2>5. Len(sessions) \in Nat /\ Len(pendings) \in Nat
    BY <1>1, StoreTypes
  <2> QED
    BY <1>1, <2>1, <2>2, <2>3, <2>4, <2>5, BlankTyped, LightOnly
<1> QED
  BY <1>2, <1>3 DEF ShowConsent

LEMMA SubmitConsentInvariant ==
  ASSUME IInv, NEW t \in Tab, NEW action \in {"grant", "deny"}, SubmitConsent(t, action)
  PROVE  IInv'
<1> DEFINE st == [Blank EXCEPT !.step = "user", !.goes = action, !.session = jar.session,
                               !.pending = jar.pending]
<1>1. /\ TypeOK /\ Become(t, st)
      /\ UNCHANGED <<now, sessions, pendings, consents, jar, sent, codes, denied>>
  BY DEF IInv, SubmitConsent, SendConsent
<1>2. /\ st.step = "user" /\ st.goes = action /\ st.session = jar.session
      /\ st.pending = jar.pending /\ st.set = NoCookies
  BY DEF Blank
<1>3. /\ jar.session \in Nat /\ jar.session <= Len(sessions)
      /\ jar.pending \in Nat /\ jar.pending <= Len(pendings)
  BY <1>1, StoreTypes
<1>4. st \in TabState
  <2>1. "user" \in Steps
    BY DEF Steps, Requests
  <2> QED
    BY <1>3, <2>1, BlankTyped DEF TabState
<1> HIDE DEF st
<1>5. consents' \subseteq User \X App /\ st.step \in Light
  BY <1>1, <1>2 DEF TypeOK, Light
<1> QED
  BY <1>1, <1>2, <1>3, <1>4, <1>5, BlankTyped, LightOnly

LEMMA LoadUserInvariant ==
  ASSUME IInv, NEW t \in Tab, LoadUser(t)
  PROVE  IInv'
<1> DEFINE s == tabs[t].session
           st == [tabs[t] EXCEPT !.step = "peek", !.session = 0, !.user = sessions[s].user]
<1>1. /\ TypeOK /\ TabInv(t) /\ tabs[t] \in TabState
      /\ tabs[t].step = "user" /\ tabs[t].goes \in {"grant", "deny"}
      /\ UNCHANGED <<now, sessions, pendings, consents, jar, sent, codes, denied>>
  BY TabTypes DEF IInv, TabInv, Fields, LoadUser, At
<1>2. CASE ~ LiveSession(s)
  BY <1>1, <1>2, BlankOnly DEF LoadUser
<1>3. CASE LiveSession(s)
  <2>1. s \in 1..Len(sessions) /\ sessions[s].user \in User /\ Len(sessions) \in Nat
    BY <1>1, <1>3, StoreTypes, TabTypes DEF TabInv, Ids, LiveSession
  <2>2. Become(t, st)
    BY <1>3 DEF LoadUser
  <2>3. /\ st.step = "peek" /\ st.session = 0 /\ st.user = sessions[s].user
        /\ st.goes = tabs[t].goes /\ st.pending = tabs[t].pending /\ st.set = tabs[t].set
    BY <1>1 DEF TabState
  <2>4. st \in TabState
    <3>1. "peek" \in Steps
      BY DEF Steps, Working
    <3> QED
      BY <1>1, <2>1, <3>1 DEF TabState
  <2> HIDE DEF st
  <2>5. consents' \subseteq User \X App /\ st.step \in Light
    BY <1>1, <2>3 DEF TypeOK, Light
  <2> QED
    BY <1>1, <2>1, <2>2, <2>3, <2>4, <2>5, LightOnly DEF TabInv, Ids
<1> QED
  BY <1>2, <1>3

LEMMA PeekInvariant ==
  ASSUME IInv, NEW t \in Tab, Peek(t)
  PROVE  IInv'
<1> DEFINE p == tabs[t].pending
           st == [tabs[t] EXCEPT !.step = tabs[t].goes, !.query = pendings[p].query]
<1>1. /\ TypeOK /\ TabInv(t) /\ tabs[t] \in TabState /\ tabs[t].user \in User
      /\ tabs[t].step = "peek" /\ tabs[t].goes \in {"grant", "deny"}
      /\ UNCHANGED <<now, sessions, pendings, consents, jar, sent, codes, denied>>
  BY TabTypes DEF IInv, TabInv, Fields, Peek, At
<1>2. CASE ~ LivePending(p)
  BY <1>1, <1>2, BlankOnly DEF Peek
<1>3. CASE LivePending(p)
  <2>1. p # 0 /\ p \in 1..Len(pendings) /\ pendings[p].query \in Query
    <3>1. p # 0 /\ p \in 1..Len(pendings) /\ Parked(p)
      BY <1>1, <1>3, StoreTypes, TabTypes DEF TabInv, Ids, LivePending, Parked
    <3> QED
      BY <1>1, <3>1, StoreTypes
  <2>2. Become(t, st)
    BY <1>3 DEF Peek
  <2>3. /\ st.step = tabs[t].goes /\ st.query = pendings[p].query
        /\ st.session = tabs[t].session /\ st.pending = p /\ st.user = tabs[t].user
        /\ st.set = tabs[t].set
    BY <1>1 DEF TabState
  <2>4. st \in TabState
    <3>1. tabs[t].goes \in Steps
      BY <1>1 DEF Steps, Working
    <3> QED
      BY <1>1, <2>1, <3>1 DEF TabState
  <2> HIDE DEF st
  <2>5. consents' \subseteq User \X App /\ st.step \in Light
    BY <1>1, <2>3 DEF TypeOK, Light
  <2> QED
    BY <1>1, <2>1, <2>2, <2>3, <2>4, <2>5, LightOnly DEF TabInv, Ids
<1> QED
  BY <1>2, <1>3

LEMMA GrantInvariant ==
  ASSUME IInv, NEW t \in Tab, Grant(t)
  PROVE  IInv'
<1> DEFINE st == [Blank EXCEPT !.step = "resume", !.pending = tabs[t].pending]
<1>1. /\ TypeOK /\ TabInv(t) /\ tabs[t].user \in User /\ tabs[t].query \in Query
      /\ tabs[t].pending # 0 /\ tabs[t].pending \in Nat /\ Become(t, st)
      /\ UNCHANGED <<now, sessions, pendings, jar, sent, codes, denied>>
  BY TabTypes DEF IInv, TabInv, Fields, Grant, At
<1>2. /\ st.step = "resume" /\ st.session = 0 /\ st.pending = tabs[t].pending
      /\ st.set = NoCookies
  BY DEF Blank
<1>3. st \in TabState
  <2>1. "resume" \in Steps
    BY DEF Steps, Working
  <2> QED
    BY <1>1, <2>1, BlankTyped DEF TabState
<1> HIDE DEF st
<1>4. consents' \subseteq User \X App
  BY <1>1 DEF Grant, TypeOK, Query
<1>5. Len(sessions) \in Nat /\ st.step \in Light
  BY <1>1, <1>2, StoreTypes DEF Light
<1> QED
  BY <1>1, <1>2, <1>3, <1>4, <1>5, BlankTyped, LightOnly DEF TabInv, Ids

\* The request is denied, and no one has it.
LEMMA DenyInvariant ==
  ASSUME IInv, NEW t \in Tab, Deny(t)
  PROVE  IInv'
<1> PICK p : p = tabs[t].pending
  OBVIOUS
<1> DEFINE cookies == [NoCookies EXCEPT !.pending = 0]
           st == [Blank EXCEPT !.step = "answer", !.goes = "idle", !.query = NoQuery,
                               !.set = cookies]
<1>1. /\ TypeOK /\ TabInv(t) /\ OneHolder /\ denied \subseteq 1..sent /\ p # 0
  BY DEF IInv, TabInv, Fields, Deny, At
<1>2. /\ now \in Nat /\ Len(pendings) \in Nat /\ Len(sessions) \in Nat /\ sent \in Nat
      /\ p \in 1..Len(pendings)
  BY <1>1, StoreTypes, TabTypes DEF TabInv, Ids
<1>3. /\ UNCHANGED <<now, sessions, consents, jar, sent, codes>> /\ ConsumePending(p)
      /\ Become(t, st)
      /\ denied' = IF LivePending(p) THEN denied \cup {pendings[p].query.n} ELSE denied
  BY DEF Deny, Answer
<1>4. /\ pendings' \in Seq(Pending \cup {Gone}) /\ Len(pendings') = Len(pendings)
      /\ pendings'[p] = Gone
      /\ \A i \in 1..Len(pendings) : pendings'[i] \in {pendings[i], Gone}
  BY <1>1, <1>2, <1>3, Consumed
<1>5. /\ cookies \in [session : Nat \cup {None}, pending : Nat \cup {None}]
      /\ cookies.session = None /\ cookies.pending = 0
  BY DEF NoCookies
<1> HIDE DEF cookies
<1>6. /\ st.step = "answer" /\ st.goes = "idle" /\ st.session = 0 /\ st.pending = 0
      /\ st.set = cookies
  BY DEF Blank
<1>7. st \in TabState
  <2>1. "answer" \in Steps
    BY DEF Steps
  <2> QED
    BY <1>5, <2>1, BlankTyped DEF TabState
<1> HIDE DEF st
<1>8. tabs'[t] = st /\ \A u \in Tab \ {t} : tabs'[u] = tabs[u]
  BY <1>1, <1>3 DEF TypeOK, Become
<1>9. Onward
  <2>1. \A v \in Tab :
          \/ tabs'[v].set.session \in {None, 0, Len(sessions) + 1}
          \/ \E u \in Tab : tabs'[v].set.session = tabs[u].set.session
    BY <1>5, <1>6, <1>8
  <2> QED
    BY <1>2, <1>3, <1>4, <2>1 DEF Onward
<1>10. LivePending(p) =>
         /\ Parked(p) /\ pendings[p].query.n \in 1..sent
         /\ denied' = denied \cup {pendings[p].query.n}
  BY <1>2, <1>3 DEF IInv, PendingInv, Held, Parked, LivePending
<1>11. denied' \subseteq 1..sent'
  BY <1>1, <1>3, <1>10
<1>12. TypeOK'
  <2>1. denied' \subseteq Nat
    BY <1>2, <1>3, <1>11
  <2>2. tabs' \in [Tab -> TabState]
    BY <1>1, <1>3, <1>7 DEF TypeOK, Become
  <2> QED
    BY <1>1, <1>3, <1>4, <2>1, <2>2 DEF TypeOK
<1>13. TabInv(t)' /\ ~ Carries(t)'
  <2>1. Ids(t)'
    BY <1>2, <1>3, <1>4, <1>5, <1>6, <1>8 DEF Ids
  <2>2. Fields(t)'
    BY <1>6, <1>8 DEF Fields
  <2> QED
    BY <1>6, <1>8, <2>1, <2>2, LightTab DEF Light
<1>14. CASE LivePending(p)
  <2>1. \A u \in Tab : Carries(u)' => Carries(u) /\ tabs'[u].query = tabs[u].query
    BY <1>8, <1>13 DEF Carries
  <2>2. Parked(p) /\ pendings'[p] = Gone
    BY <1>4, <1>10, <1>14
  <2>3. ~ Parked(p)'
    BY <1>4 DEF Parked
  <2>4. OneHolder'
    BY <1>1, <1>2, <1>3, <1>4, <1>10, <1>14, <2>1, <2>2, <2>3, NoOneHolds
  <2>5. /\ \A i \in 1..Len(pendings') : ~ i > Len(pendings)
        /\ \A i \in 1..Len(codes') : i \in 1..Len(codes) /\ codes'[i] = codes[i]
    BY <1>2, <1>3, <1>4
  <2> QED
    BY <1>8, <1>9, <1>11, <1>12, <1>13, <2>4, <2>5, StepInvariant
<1>15. CASE ~ LivePending(p)
  BY <1>3, <1>4, <1>8, <1>9, <1>12, <1>13, <1>15, TabMove
<1> QED
  BY <1>14, <1>15

-----------------------------------------------------------------------------
(* Answers, failures, restarts and time *)

\* The jar takes what the answer carries; the request meets what it then has.
LEMMA ArriveInvariant ==
  ASSUME IInv, NEW t \in Tab, Arrive(t)
  PROVE  IInv'
<1> DEFINE q == tabs[t].query
           c == tabs[t].set
           one == IF c.session = None THEN jar.session ELSE c.session
           other == IF c.pending = None THEN jar.pending ELSE c.pending
           cookies == [session |-> one, pending |-> other]
<1>1. TypeOK /\ TabInv(t) /\ tabs[t].step = "answer" /\ denied \subseteq 1..sent
  BY DEF IInv, Arrive, At
<1>2. /\ now \in Nat /\ Len(pendings) \in Nat /\ Len(sessions) \in Nat /\ sent \in Nat
      /\ jar.session \in 0..Len(sessions) /\ jar.pending \in 0..Len(pendings)
      /\ c.session # None => c.session \in 0..Len(sessions)
      /\ c.pending # None => c.pending \in 0..Len(pendings)
  BY <1>1, StoreTypes, TabTypes DEF TabInv, Ids
<1>3. UNCHANGED <<now, sessions, pendings, consents, sent, codes, denied>> /\ jar' = cookies
  BY DEF Arrive
<1>4. one \in 0..Len(sessions) /\ other \in 0..Len(pendings)
      /\ one \in {jar.session, c.session}
  BY <1>2
<1> HIDE DEF one, other
<1>5. jar'.session = one /\ jar'.pending = other
      /\ jar' \in [session : 0..Len(sessions'), pending : 0..Len(pendings')]
  BY <1>3, <1>4
<1>6. ASSUME NEW st \in TabState, Become(t, st), st.set = NoCookies
      PROVE  /\ Onward /\ TypeOK' /\ tabs'[t] = st
             /\ \A u \in Tab \ {t} : tabs'[u] = tabs[u]
  <2>1. tabs'[t] = st /\ \A u \in Tab \ {t} : tabs'[u] = tabs[u]
    BY <1>1, <1>6 DEF TypeOK, Become
  <2>2. \A v \in Tab :
          \/ tabs'[v].set.session \in {None, 0, Len(sessions) + 1}
          \/ \E u \in Tab : tabs'[v].set.session = tabs[u].set.session
    BY <1>6, <2>1, BlankTyped
  <2>3. Onward
    BY <1>2, <1>3, <1>4, <1>5, <2>2 DEF Onward
  <2>4. TypeOK'
    BY <1>1, <1>3, <1>5, <1>6 DEF TypeOK, Become
  <2> QED
    BY <2>1, <2>3, <2>4
<1>7. CASE tabs[t].goes = "authorize"
  <2> DEFINE st == [Blank EXCEPT !.step = "session", !.query = q, !.prompt = "absent",
                                 !.maxAge = None, !.session = one]
  <2>1. Carries(t) /\ Held(q) /\ JarFits(q) /\ q \in Query
    BY <1>1, <1>7 DEF TabInv, Carries, Held
  <2>2. Become(t, st)
    BY <1>7 DEF Arrive, Send, one
  <2>3. /\ st.step = "session" /\ st.query = q /\ st.prompt = "absent" /\ st.maxAge = None
        /\ st.session = one /\ st.pending = 0 /\ st.set = NoCookies
    BY DEF Blank
  <2>4. st \in TabState
    <3>1. "session" \in Steps /\ one \in Nat
      BY <1>2, <1>4 DEF Steps, Requests
    <3> QED
      BY <2>1, <3>1, BlankTyped DEF TabState
  <2> HIDE DEF st
  <2>5. Onward /\ TypeOK' /\ tabs'[t] = st /\ \A u \in Tab \ {t} : tabs'[u] = tabs[u]
    BY <1>6, <2>2, <2>3, <2>4
  <2>6. /\ q \in Query /\ q.n \in 1..sent'
        /\ \A i \in q.ruledOut : i \in 1..Len(sessions')
        /\ \A u \in Tab : tabs'[u].set.session \notin q.ruledOut
        /\ LiveSession(jar.session)' => jar'.session \notin q.ruledOut
    <3> HIDE DEF q
    <3> QED
      BY <1>1, <2>1, <2>5, HeldStays
  <2>7. Held(tabs[t].query)' /\ Judged(t)' /\ JarMoved(t)'
    BY <1>5, <2>3, <2>5, <2>6 DEF Held, Judged, JarMoved
  <2>8. Ids(t)' /\ Fields(t)' /\ HasRead(t)'
    BY <1>2, <1>3, <1>4, <2>3, <2>5, BlankTyped DEF Ids, Fields, HasRead
  <2>9. TabInv(t)'
    BY <2>3, <2>5, <2>7, <2>8 DEF TabInv
  <2>10. tabs'[t].query = tabs[t].query
    BY <2>3, <2>5
  <2> QED
    BY <1>3, <2>1, <2>5, <2>9, <2>10, TabMove
<1>8. CASE tabs[t].goes = "to_consent"
  <2> DEFINE st == [Blank EXCEPT !.step = "to_consent", !.goes = "idle",
                                 !.session = cookies.session, !.pending = cookies.pending]
  <2>1. Become(t, st)
    BY <1>8 DEF Arrive, SendConsent, one, other
  <2>2. /\ st.step = "to_consent" /\ st.goes = "idle" /\ st.session = one
        /\ st.pending = other /\ st.set = NoCookies
    BY DEF Blank
  <2>3. st \in TabState
    <3>1. "to_consent" \in Steps /\ one \in Nat /\ other \in Nat
      BY <1>2, <1>4 DEF Steps, Requests
    <3> QED
      BY <3>1, BlankTyped DEF TabState
  <2> HIDE DEF st
  <2>4. Onward /\ TypeOK' /\ tabs'[t] = st /\ \A u \in Tab \ {t} : tabs'[u] = tabs[u]
    BY <1>6, <2>1, <2>2, <2>3
  <2>5. Ids(t)' /\ Fields(t)'
    BY <1>2, <1>3, <1>4, <2>2, <2>4, BlankTyped DEF Ids, Fields
  <2>6. TabInv(t)' /\ ~ Carries(t)'
    BY <2>2, <2>4, <2>5, LightTab DEF Light
  <2> QED
    BY <1>3, <2>4, <2>6, TabMove
<1>9. CASE tabs[t].goes \notin {"authorize", "to_consent"}
  <2>1. Become(t, Blank)
    BY <1>9 DEF Arrive
  <2>2. Onward /\ TypeOK' /\ tabs'[t] = Blank /\ \A u \in Tab \ {t} : tabs'[u] = tabs[u]
    BY <1>6, <2>1, BlankTyped
  <2>3. Ids(t)' /\ Fields(t)'
    BY <1>2, <1>3, <2>2, BlankTyped DEF Ids, Fields
  <2>4. TabInv(t)' /\ ~ Carries(t)'
    BY <2>2, <2>3, BlankTyped, LightTab DEF Light
  <2> QED
    BY <1>3, <2>2, <2>4, TabMove
<1> QED
  BY <1>7, <1>8, <1>9

LEMMA AbandonInvariant ==
  ASSUME IInv, NEW t \in Tab, Abandon(t)
  PROVE  IInv'
  BY BlankOnly DEF Abandon

\* Every session is dead, every record gone, and no handler is at work.
LEMMA RestartInvariant ==
  ASSUME IInv, Restart
  PROVE  IInv'
<1>1. TypeOK /\ OneHolder /\ denied \subseteq 1..sent /\ \A u \in Tab : TabInv(u)
  BY DEF IInv
<1>2. /\ now \in Nat /\ Len(pendings) \in Nat /\ Len(sessions) \in Nat /\ sent \in Nat
      /\ DOMAIN sessions = 1..Len(sessions) /\ DOMAIN pendings = 1..Len(pendings)
      /\ \A s \in 1..Len(sessions) : sessions[s] \in Session
  BY <1>1, StoreTypes DEF TypeOK
<1>3. UNCHANGED <<now, consents, jar, sent, codes, denied>>
  BY DEF Restart
<1>4. /\ sessions' \in Seq(Session) /\ Len(sessions') = Len(sessions)
      /\ \A s \in 1..Len(sessions) :
           /\ sessions'[s].user = sessions[s].user /\ sessions'[s].at = sessions[s].at
           /\ sessions'[s].stored => sessions[s].stored
  <2> DEFINE f == [s \in 1..Len(sessions) |-> [sessions[s] EXCEPT !.stored = FALSE]]
  <2>1. sessions' = f
    BY <1>2 DEF Restart
  <2>2. \A s \in 1..Len(sessions) :
          /\ f[s] \in Session
          /\ f[s].user = sessions[s].user /\ f[s].at = sessions[s].at /\ f[s].stored = FALSE
    BY <1>2 DEF Session
  <2>3. DOMAIN f = 1..Len(sessions)
    OBVIOUS
  <2> HIDE DEF f
  <2>4. f \in Seq(Session) /\ Len(f) = Len(sessions)
    <3>1. f \in [1..Len(sessions) -> Session]
      BY <2>2, <2>3 DEF f
    <3>2. f \in Seq(Session)
      BY <1>2, <3>1
    <3> QED
      BY <1>2, <2>3, <3>2, LenProperties
  <2> QED
    BY <2>1, <2>2, <2>4
<1>5. /\ pendings' \in Seq(Pending \cup {Gone}) /\ Len(pendings') = Len(pendings)
      /\ \A p \in 1..Len(pendings) : pendings'[p] = Gone
  <2> DEFINE f == [p \in 1..Len(pendings) |-> Gone]
  <2>1. pendings' = f
    BY <1>2 DEF Restart
  <2>2. f \in [1..Len(pendings) -> Pending \cup {Gone}]
    OBVIOUS
  <2>3. DOMAIN f = 1..Len(pendings) /\ \A p \in 1..Len(pendings) : f[p] = Gone
    OBVIOUS
  <2> HIDE DEF f
  <2>4. f \in Seq(Pending \cup {Gone})
    BY <1>2, <2>2
  <2>5. Len(f) = Len(pendings)
    BY <1>2, <2>3, <2>4, LenProperties
  <2> QED
    BY <2>1, <2>3, <2>4, <2>5
<1>6. \A u \in Tab : tabs'[u] \in {Blank, tabs[u]}
  BY DEF Restart
<1>7. Onward
  <2>1. \A v \in Tab :
          \/ tabs'[v].set.session \in {None, 0, Len(sessions) + 1}
          \/ \E u \in Tab : tabs'[v].set.session = tabs[u].set.session
    BY <1>6, BlankTyped
  <2> QED
    BY <1>2, <1>3, <1>4, <1>5, <2>1 DEF Onward
<1>8. TypeOK'
  <2>1. jar' \in [session : 0..Len(sessions'), pending : 0..Len(pendings')]
    BY <1>1, <1>3, <1>4, <1>5 DEF TypeOK
  <2>2. tabs' \in [Tab -> TabState]
    BY <1>1, BlankTyped DEF TypeOK, Restart
  <2> QED
    BY <1>1, <1>3, <1>4, <1>5, <2>1, <2>2 DEF TypeOK
<1>9. ASSUME NEW u \in Tab
      PROVE  TabInv(u)' /\ (Carries(u)' => Carries(u) /\ tabs'[u].query = tabs[u].query)
  <2>1. CASE tabs'[u] = Blank
    <3>1. Ids(u)' /\ Fields(u)'
      BY <1>2, <1>4, <1>5, <2>1, BlankTyped DEF Ids, Fields
    <3> QED
      BY <2>1, <3>1, BlankTyped, LightTab DEF Light
  <2>2. CASE tabs'[u] = tabs[u]
    BY <1>7, <2>2, TabStays DEF Carries
  <2> QED
    BY <1>6, <2>1, <2>2
<1>10. \A p \in 1..Len(pendings') : PendingInv(p)'
  BY <1>5 DEF PendingInv, Parked
<1>11. \A i \in 1..Len(codes') : CodeInv(i)'
  BY <1>3, <1>7, CodeStays
<1>12. OneHolder'
  <2>1. \A p \in 1..Len(pendings) : pendings'[p] \in {pendings[p], Gone}
    BY <1>5
  <2>2. \A u \in Tab : Carries(u)' => Carries(u) /\ tabs'[u].query = tabs[u].query
    BY <1>9
  <2> QED
    BY <1>1, <1>3, <1>5, <2>1, <2>2, HoldersShrink
<1> QED
  BY <1>1, <1>3, <1>8, <1>9, <1>10, <1>11, <1>12 DEF IInv

LEMMA TickInvariant ==
  ASSUME IInv, Tick
  PROVE  IInv'
<1>1. TypeOK /\ OneHolder /\ denied \subseteq 1..sent
  BY DEF IInv
<1>2. /\ now \in Nat /\ now' = now + 1
      /\ UNCHANGED <<sessions, pendings, consents, jar, tabs, sent, codes, denied>>
  BY <1>1, StoreTypes DEF Tick
<1>3. Onward
  BY <1>1, <1>2, StoreTypes DEF Onward
<1>4. TypeOK'
  BY <1>1, <1>2 DEF TypeOK
<1>5. \A u \in Tab : TabInv(u)'
  BY <1>2, <1>3, TabStays
<1>6. \A p \in 1..Len(pendings') : PendingInv(p)'
  BY <1>2, <1>3, PendingStays
<1>7. \A i \in 1..Len(codes') : CodeInv(i)'
  BY <1>2, <1>3, CodeStays
<1>8. OneHolder'
  BY <1>1, <1>2 DEF OneHolder, Carries, Parked
<1> QED
  BY <1>1, <1>2, <1>4, <1>5, <1>6, <1>7, <1>8 DEF IInv

LEMMA StutterInvariant ==
  ASSUME IInv, UNCHANGED vars
  PROVE  IInv'
<1>1. UNCHANGED <<now, sessions, pendings, consents, jar, tabs, sent, codes, denied>>
  BY DEF vars
<1>2. TypeOK /\ OneHolder /\ denied \subseteq 1..sent
  BY DEF IInv
<1>3. Onward
  BY <1>1, <1>2, StoreTypes DEF Onward
<1>4. TypeOK'
  BY <1>1, <1>2 DEF TypeOK
<1>5. \A u \in Tab : TabInv(u)'
  BY <1>1, <1>3, TabStays
<1>6. \A p \in 1..Len(pendings') : PendingInv(p)'
  BY <1>1, <1>3, PendingStays
<1>7. \A i \in 1..Len(codes') : CodeInv(i)'
  BY <1>1, <1>3, CodeStays
<1>8. OneHolder'
  BY <1>1, <1>2 DEF OneHolder, Carries, Parked
<1> QED
  BY <1>1, <1>2, <1>4, <1>5, <1>6, <1>7, <1>8 DEF IInv

-----------------------------------------------------------------------------
(* The theorems. *)

LEMMA InitInvariant ==
  ASSUME Init
  PROVE  IInv
<1>1. /\ now = 0 /\ sessions = <<>> /\ pendings = <<>> /\ consents = {} /\ sent = 0
      /\ jar = [session |-> 0, pending |-> 0] /\ tabs = [t \in Tab |-> Blank]
      /\ codes = <<>> /\ denied = {}
  BY DEF Init
<1>2. /\ sessions \in Seq(Session) /\ pendings \in Seq(Pending \cup {Gone})
      /\ codes \in Seq(Code)
      /\ Len(sessions) = 0 /\ Len(pendings) = 0 /\ Len(codes) = 0
  BY <1>1, EmptySeq
<1>3. TypeOK
  <2>1. jar \in [session : 0..Len(sessions), pending : 0..Len(pendings)]
    BY <1>1, <1>2
  <2>2. tabs \in [Tab -> TabState]
    BY <1>1, BlankTyped
  <2> QED
    BY <1>1, <1>2, <2>1, <2>2 DEF TypeOK
<1>4. ASSUME NEW t \in Tab PROVE TabInv(t) /\ ~ Carries(t)
  <2>1. tabs[t] = Blank
    BY <1>1
  <2>2. Ids(t) /\ Fields(t) /\ HasRead(t) /\ ~ Carries(t)
    BY <1>2, <2>1, BlankTyped DEF Ids, Fields, HasRead, Carries
  <2> QED
    BY <2>1, <2>2, BlankTyped DEF TabInv
<1>5. 1..Len(pendings) = {} /\ 1..Len(codes) = {}
  BY <1>2
<1>6. OneHolder
  BY <1>1, <1>4, <1>5 DEF OneHolder
<1> QED
  BY <1>1, <1>3, <1>4, <1>5, <1>6 DEF IInv

LEMMA NextInvariant ==
  ASSUME IInv, [Next]_vars
  PROVE  IInv'
<1>1. ASSUME NEW t \in Tab, Authorize(t) PROVE IInv'
  BY <1>1, NoSessionInvariant, ForceLoginInvariant, EndSessionInvariant,
     UseSessionInvariant, OwnerInvariant, SessionVanishedInvariant, GrantedInvariant,
     AskConsentInvariant, IssueCodeInvariant, ParkInvariant DEF Authorize
<1>2. ASSUME NEW t \in Tab, Consent(t) PROVE IInv'
  BY <1>2, ShowConsentInvariant, SubmitConsentInvariant, LoadUserInvariant,
     PeekInvariant, GrantInvariant, DenyInvariant DEF Consent
<1>3. ASSUME NEW t \in Tab, Login(t) \/ Resume(t) \/ Logout(t) \/ Arrive(t) \/ Abandon(t)
      PROVE  IInv'
  BY <1>3, LoginInvariant, ResumeInvariant, LogoutInvariant, ArriveInvariant,
     AbandonInvariant
<1>4. ASSUME NEW t \in Tab, NEW u \in User, SubmitLogin(t, u) PROVE IInv'
  BY <1>4, SubmitLoginInvariant
<1>5. ASSUME NEW t \in Tab, NEW app \in App, NEW prompt \in {"absent", "none", "login"},
             NEW maxAge \in Ages \cup {None}, Start(t, app, prompt, maxAge)
      PROVE  IInv'
  BY <1>5, StartInvariant
<1>6. CASE Restart \/ Tick
  BY <1>6, RestartInvariant, TickInvariant
<1>7. CASE UNCHANGED vars
  BY <1>7, StutterInvariant
<1> QED
  BY <1>1, <1>2, <1>3, <1>4, <1>5, <1>6, <1>7 DEF Next

\* The inductive invariant holds in every state that the handlers can reach.
THEOREM Invariance == Spec => []IInv
<1>1. Init => IInv
  BY InitInvariant
<1>2. IInv /\ [Next]_vars => IInv'
  BY NextInvariant
<1> QED
  BY <1>1, <1>2, PTL DEF Spec

\* Whatever handlers, answers and restarts do, ids are of the store, and every
\* tab, record and code is well formed.
THEOREM TypeCorrect == Spec => []TypeOK
<1>1. IInv => TypeOK
  BY DEF IInv
<1> QED
  BY <1>1, Invariance, PTL

\* User and login time of every code are of the login that /authorize saw,
\* although it reads the session twice and the cookie may change in between.
THEOREM CodesAreOfOneLogin == Spec => []CodeOfOneLogin
<1>1. ASSUME IInv PROVE CodeOfOneLogin
  <2>1. DOMAIN codes = 1..Len(codes)
    BY <1>1 DEF IInv, TypeOK
  <2> QED
    BY <1>1, <2>1 DEF IInv, CodeInv, CodeOfOneLogin
<1> QED
  BY <1>1, Invariance, PTL

\* A request with prompt=login or max_age gets no code from a login that these
\* ruled out when it was sent, unless the cookie of that login was on its way.
THEOREM LoginsAreFresh == Spec => []LoginIsFresh
<1>1. ASSUME IInv PROVE LoginIsFresh
  <2>1. DOMAIN codes = 1..Len(codes)
    BY <1>1 DEF IInv, TypeOK
  <2> QED
    BY <1>1, <2>1 DEF IInv, CodeInv, LoginIsFresh
<1> QED
  BY <1>1, Invariance, PTL

\* No request ever gets a second code, is served in two tabs at once, or comes
\* back to /authorize when it has its code.
THEOREM RequestsHaveOneCode == Spec => []OneCodePerRequest
<1>1. ASSUME IInv PROVE OneCodePerRequest
  <2>1. DOMAIN codes = 1..Len(codes)
    BY <1>1 DEF IInv, TypeOK
  <2>2. \A t \in Tab : Serves(t) => Carries(t)
    BY DEF Serves, Carries
  <2> QED
    BY <1>1, <2>1, <2>2 DEF IInv, OneHolder, OneCodePerRequest
<1> QED
  BY <1>1, Invariance, PTL

\* Once a "deny" has taken a request, it has no code, gets none, and is at
\* /authorize no more: an "accept" in another tab came first or comes too late.
THEOREM DenialsAreFinal == Spec => []DeniedIsFinal
<1>1. ASSUME IInv PROVE DeniedIsFinal
  <2>1. DOMAIN codes = 1..Len(codes)
    BY <1>1 DEF IInv, TypeOK
  <2>2. \A t \in Tab : Serves(t) => Carries(t)
    BY DEF Serves, Carries
  <2> QED
    BY <1>1, <2>1, <2>2 DEF IInv, OneHolder, DeniedIsFinal
<1> QED
  BY <1>1, Invariance, PTL

=============================================================================
