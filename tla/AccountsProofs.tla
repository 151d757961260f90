--------------------------- MODULE AccountsProofs ---------------------------
(***************************************************************************)
(* Proofs about Accounts.  The argument: a deletion has locked every row   *)
(* of its account in the tables it has gone through, but for those stored  *)
(* since it began, and no row of the tables ahead of it.  So whom it waits *)
(* for is always further on, and of any deletions that wait, one that is   *)
(* furthest waits for none.  A request that stores a row for an account    *)
(* has seen it in a version no older than the one shown at its beginning.  *)
(***************************************************************************)
EXTENDS Accounts, TLAPS, SequenceTheorems

-----------------------------------------------------------------------------
(* The inductive invariant. *)

\* A deletion d has passed the table of r.
Passed(d, r) ==
  \E k \in 1 .. 3 : k < d.step /\ r.kind = Dependents(d.account)[k]

OfAccount(d, r) == r.user = d.account \/ r.client = d.account

DeletionInv(d) ==
  /\ d.since <= serial
  /\ \A r \in d.gone : Passed(d, r)
  /\ \A r \in rows : Passed(d, r) /\ OfAccount(d, r) /\ r.id <= d.since
                       => r \in d.gone

\* Account a was stored at some time since the request g began.
Alive(g, a) == \E i \in g.start .. Len(log) : a \in log[i]

GrantInv(g) ==
  /\ g.start <= shown
  /\ g.op # "accept" => Alive(g, g.client)
  /\ g.step \in {"client", "store"} => Alive(g, g.user)
  /\ g.step = "store" => Alive(g, g.client)

IInv ==
  /\ TypeOK
  /\ \A w \in Worker : Deletes(w) => DeletionInv(req[w])
  /\ \A w \in Worker : Grants(w) => GrantInv(req[w])

-----------------------------------------------------------------------------
(* Lemmas. *)

\* The fields of a request follow from what it does.
LEMMA RequestKinds ==
  ASSUME TypeOK, NEW w \in Worker
  PROVE  /\ Deletes(w) => req[w] \in Deletion
         /\ Grants(w) => req[w] \in Grant
         /\ req[w].op = "update" => req[w] \in Update
<1>1. req[w] \in {Idle} \cup Deletion \cup Update \cup Grant
  BY DEF TypeOK
<1> QED
  BY <1>1 DEF Idle, Deletion, Update, Grant, Deletes, Grants

\* Versions are only added.
LogGrows ==
  /\ Len(log) <= Len(log)' /\ shown <= shown'
  /\ \A i \in 1 .. Len(log) : log'[i] = log[i]

\* Rows are only added with new ids.
RowsGrow ==
  /\ serial <= serial'
  /\ \A r \in rows' : r \in rows \/ r.id > serial

VarsTyped ==
  /\ log \in Seq(SUBSET Account) /\ Len(log) \in 1 .. MaxVersions
  /\ shown \in 1 .. Len(log)
  /\ rows \subseteq Row
  /\ serial \in 0 .. MaxRows
  /\ \A r \in rows : r.id \in 1 .. serial

LEMMA DeletionStays ==
  ASSUME TypeOK, RowsGrow, VarsTyped', NEW d \in Deletion, DeletionInv(d)
  PROVE  DeletionInv(d)'
<1>1. d.since \in Nat /\ serial \in Nat /\ serial' \in Nat
  BY AccountsAssumption DEF Deletion, TypeOK, VarsTyped
<1>2. (d.since <= serial)'
  BY <1>1 DEF DeletionInv, RowsGrow
<1>3. rows \subseteq Row /\ \A r \in rows : r.id \in Nat
  BY DEF TypeOK, Row
<1>4. ASSUME NEW r \in rows', Passed(d, r), OfAccount(d, r), r.id <= d.since
      PROVE  r \in d.gone
  <2>1. CASE r \in rows
    BY <1>4, <2>1 DEF DeletionInv
  <2>2. CASE ~ (r \in rows)
    <3>1. r.id > serial /\ r.id \in Nat
      BY <1>1, <2>2 DEF RowsGrow, VarsTyped
    <3>2. d.since <= serial
      BY DEF DeletionInv
    <3> QED
      BY <1>1, <1>4, <3>1, <3>2
  <2> QED
    BY <2>1, <2>2
<1> QED
  BY <1>2, <1>4 DEF DeletionInv, Passed, OfAccount, Dependents

LEMMA AliveStays ==
  ASSUME TypeOK, LogGrows, VarsTyped', NEW g \in Grant, NEW a, Alive(g, a)
  PROVE  Alive(g, a)'
<1>1. PICK i \in g.start .. Len(log) : a \in log[i]
  BY DEF Alive
<1>2. g.start \in Nat \ {0} /\ Len(log) \in Nat /\ Len(log)' \in Nat
  BY AccountsAssumption DEF Grant, TypeOK, VarsTyped
<1>3. i \in 1 .. Len(log) /\ i \in g.start .. Len(log)'
  BY <1>1, <1>2 DEF LogGrows
<1>4. a \in log'[i]
  BY <1>1, <1>3 DEF LogGrows
<1> QED
  BY <1>3, <1>4 DEF Alive

LEMMA GrantStays ==
  ASSUME TypeOK, LogGrows, VarsTyped', NEW g \in Grant, GrantInv(g)
  PROVE  GrantInv(g)'
<1>1. g.start <= shown'
  <2>1. g.start \in Nat /\ shown \in Nat /\ shown' \in Nat
    BY AccountsAssumption DEF Grant, TypeOK, VarsTyped
  <2> QED
    BY <2>1 DEF LogGrows, GrantInv
<1> QED
  BY <1>1, AliveStays DEF GrantInv

\* A step in which w comes to do r, and nobody else anything.
LEMMA StepInvariant ==
  ASSUME IInv, NEW w \in Worker,
         NEW r \in {Idle} \cup Deletion \cup Update \cup Grant,
         Become(w, r), LogGrows, RowsGrow, VarsTyped',
         r \in Deletion => DeletionInv(r)',
         r \in Grant => GrantInv(r)'
  PROVE  IInv'
<1>1. req \in [Worker -> {Idle} \cup Deletion \cup Update \cup Grant]
  BY DEF IInv, TypeOK
<1>2. /\ req' \in [Worker -> {Idle} \cup Deletion \cup Update \cup Grant]
      /\ \A v \in Worker : req'[v] = IF v = w THEN r ELSE req[v]
  BY <1>1 DEF Become
<1>3. TypeOK'
  BY <1>2 DEF TypeOK, VarsTyped
<1>4. ASSUME NEW v \in Worker, Deletes(v)'
      PROVE  DeletionInv(req[v])'
  <2>1. PICK d : d = req'[v]
    OBVIOUS
  <2>2. d \in Deletion
    BY <1>2, <1>4, <2>1 DEF Deletes, Idle, Deletion, Update, Grant
  <2>3. CASE v = w
    BY <1>2, <2>1, <2>2, <2>3 DEF DeletionInv
  <2>4. CASE v # w
    <3>1. d = req[v] /\ Deletes(v)
      BY <1>2, <1>4, <2>1, <2>4 DEF Deletes
    <3>2. DeletionInv(d)
      BY <3>1 DEF IInv
    <3>3. DeletionInv(d)'
      BY <2>2, <3>2, DeletionStays DEF IInv
    <3> QED
      BY <2>1, <3>3 DEF DeletionInv
  <2> QED
    BY <2>3, <2>4
<1>5. ASSUME NEW v \in Worker, Grants(v)'
      PROVE  GrantInv(req[v])'
  <2>1. PICK g : g = req'[v]
    OBVIOUS
  <2>2. g \in Grant
    BY <1>2, <1>5, <2>1 DEF Grants, Idle, Deletion, Update, Grant
  <2>3. CASE v = w
    BY <1>2, <2>1, <2>2, <2>3 DEF GrantInv
  <2>4. CASE v # w
    <3>1. g = req[v] /\ Grants(v)
      BY <1>2, <1>5, <2>1, <2>4 DEF Grants
    <3>2. GrantInv(g)
      BY <3>1 DEF IInv
    <3>3. GrantInv(g)'
      BY <2>2, <3>2, GrantStays DEF IInv
    <3> QED
      BY <2>1, <3>3 DEF GrantInv
  <2> QED
    BY <2>3, <2>4
<1> QED
  BY <1>3, <1>4, <1>5 DEF IInv

\* A step in which nobody does anything.
LEMMA WorldInvariant ==
  ASSUME IInv, UNCHANGED req, LogGrows, RowsGrow, VarsTyped'
  PROVE  IInv'
<1>1. TypeOK'
  BY DEF IInv, TypeOK, VarsTyped
<1>2. ASSUME NEW v \in Worker, Deletes(v)'
      PROVE  DeletionInv(req[v])'
  <2>1. PICK d : d = req[v]
    OBVIOUS
  <2>2. d \in Deletion /\ DeletionInv(d)
    BY <1>2, <2>1, RequestKinds DEF IInv, Deletes
  <2>3. DeletionInv(d)'
    BY <2>2, DeletionStays DEF IInv
  <2> QED
    BY <2>1, <2>3 DEF DeletionInv
<1>3. ASSUME NEW v \in Worker, Grants(v)'
      PROVE  GrantInv(req[v])'
  <2>1. PICK g : g = req[v]
    OBVIOUS
  <2>2. g \in Grant /\ GrantInv(g)
    BY <1>3, <2>1, RequestKinds DEF IInv, Grants
  <2>3. GrantInv(g)'
    BY <2>2, GrantStays DEF IInv
  <2> QED
    BY <2>1, <2>3 DEF GrantInv
<1> QED
  BY <1>1, <1>2, <1>3 DEF IInv

\* How the steps change the tables.
LEMMA QuietTables ==
  ASSUME TypeOK, UNCHANGED <<log, shown, rows, serial>>
  PROVE  LogGrows /\ RowsGrow /\ VarsTyped'
<1>1. VarsTyped'
  BY DEF TypeOK, VarsTyped
<1>2. Len(log) \in Nat /\ shown \in Nat /\ serial \in Nat
  BY AccountsAssumption DEF TypeOK
<1> QED
  BY <1>1, <1>2 DEF LogGrows, RowsGrow

LEMMA StoredAccounts ==
  ASSUME TypeOK
  PROVE  \A i \in 1 .. Len(log) : log[i] \subseteq Account
<1>1. \A i \in 1 .. Len(log) : log[i] \in SUBSET Account
  BY ElementOfSeq DEF TypeOK
<1> QED
  BY <1>1

LEMMA AppendedLog ==
  ASSUME TypeOK, NEW S \in SUBSET Account, Len(log) < MaxVersions,
         log' = Append(log, S), UNCHANGED shown
  PROVE  LogGrows /\ log' \in Seq(SUBSET Account)
                  /\ Len(log)' \in 1 .. MaxVersions /\ shown' \in 1 .. Len(log)'
<1>1. Len(log) \in Nat /\ shown \in 1 .. Len(log) /\ log \in Seq(SUBSET Account)
  BY AccountsAssumption DEF TypeOK
<1>2. /\ log' \in Seq(SUBSET Account) /\ Len(log') = Len(log) + 1
      /\ \A i \in 1 .. Len(log) : log'[i] = log[i]
  BY <1>1, AppendProperties
<1>3. Len(log) + 1 \in 1 .. MaxVersions
  BY <1>1, AccountsAssumption
<1> QED
  BY <1>1, <1>2, <1>3 DEF LogGrows

LEMMA UpsertTables ==
  ASSUME TypeOK, NEW a \in Account, Upsert(a), UNCHANGED <<shown, rows, serial>>
  PROVE  LogGrows /\ RowsGrow /\ VarsTyped'
<1>1. CASE a \in Stored
  BY <1>1, QuietTables DEF Upsert
<1>2. CASE ~ (a \in Stored)
  <2>1. Len(log) \in 1 .. Len(log)
    BY AccountsAssumption DEF TypeOK
  <2>2. Stored \cup {a} \in SUBSET Account
    BY <2>1, StoredAccounts DEF Stored
  <2>3. LogGrows /\ log' \in Seq(SUBSET Account)
                 /\ Len(log)' \in 1 .. MaxVersions /\ shown' \in 1 .. Len(log)'
    BY <1>2, <2>2, AppendedLog DEF Upsert
  <2>4. RowsGrow
    BY AccountsAssumption DEF RowsGrow, TypeOK
  <2> QED
    BY <2>3, <2>4 DEF VarsTyped, TypeOK
<1> QED
  BY <1>1, <1>2

-----------------------------------------------------------------------------
(* The invariant is inductive. *)

LEMMA InitInvariant == Init => IInv
<1> SUFFICES ASSUME Init PROVE IInv
  OBVIOUS
<1>1. /\ log \in Seq(SUBSET Account) /\ Len(log) = 1
      /\ MaxVersions \in Nat \ {0} /\ MaxRows \in Nat
  BY AccountsAssumption DEF Init
<1>2. TypeOK
  BY <1>1 DEF Init, TypeOK
<1>3. \A w \in Worker : ~ Deletes(w) /\ ~ Grants(w)
  BY DEF Init, Idle, Deletes, Grants
<1> QED
  BY <1>2, <1>3 DEF IInv

\* A request ends, and the tables change in a way they may.
LEMMA EndInvariant ==
  ASSUME IInv, NEW w \in Worker, Become(w, Idle), LogGrows, RowsGrow, VarsTyped'
  PROVE  IInv'
<1>1. Idle \notin Deletion /\ Idle \notin Grant
  BY DEF Idle, Deletion, Grant
<1> QED
  BY <1>1, StepInvariant

LEMMA BeginUpdateInvariant ==
  ASSUME IInv, NEW w \in Worker, NEW a \in Account, BeginUpdate(w, a)
  PROVE  IInv'
<1> DEFINE r == [op |-> "update", account |-> a]
<1>1. r \in Update /\ r \notin Deletion /\ r \notin Grant
  BY DEF Update, Deletion, Grant
<1>2. Become(w, r) /\ UNCHANGED <<log, shown, rows, serial>>
  BY DEF BeginUpdate
<1>3. LogGrows /\ RowsGrow /\ VarsTyped'
  BY <1>2, QuietTables DEF IInv
<1> HIDE DEF r
<1> QED
  BY <1>1, <1>2, <1>3, StepInvariant

LEMMA SaveUpdateInvariant ==
  ASSUME IInv, NEW w \in Worker, SaveUpdate(w)
  PROVE  IInv'
<1>1. req[w].account \in Account
  BY RequestKinds DEF IInv, SaveUpdate, Update
<1>2. LogGrows /\ RowsGrow /\ VarsTyped'
  BY <1>1, UpsertTables DEF IInv, SaveUpdate
<1> QED
  BY <1>2, EndInvariant DEF SaveUpdate

\* A deletion goes on with d, and leaves the tables alone.
LEMMA DeletionStep ==
  ASSUME IInv, NEW w \in Worker, NEW d \in Deletion, DeletionInv(d),
         Become(w, d), UNCHANGED <<log, shown, rows, serial>>
  PROVE  IInv'
<1>1. d \notin Grant
  BY DEF Deletion, Grant
<1>2. LogGrows /\ RowsGrow /\ VarsTyped'
  BY QuietTables DEF IInv
<1>3. DeletionInv(d)'
  BY DEF DeletionInv
<1> QED
  BY <1>1, <1>2, <1>3, StepInvariant

LEMMA BeginDeleteInvariant ==
  ASSUME IInv, NEW w \in Worker, NEW a \in Account, BeginDelete(w, a)
  PROVE  IInv'
<1> DEFINE d == [op |-> "delete", account |-> a, step |-> 1, gone |-> {},
                 since |-> serial]
<1>1. serial \in Nat
  BY AccountsAssumption DEF IInv, TypeOK
<1>2. d \in Deletion
  BY <1>1 DEF Deletion
<1>3. DeletionInv(d)
  BY <1>1 DEF DeletionInv, Passed
<1>4. Become(w, d) /\ UNCHANGED <<log, shown, rows, serial>>
  BY DEF BeginDelete
<1> HIDE DEF d
<1> QED
  BY <1>2, <1>3, <1>4, DeletionStep

LEMMA DeleteDependentsInvariant ==
  ASSUME IInv, NEW w \in Worker, DeleteDependents(w)
  PROVE  IInv'
<1>1. PICK d \in Deletion : d = req[w]
  BY RequestKinds DEF IInv, DeleteDependents
<1>2. PICK T : T = Targets(w)
  OBVIOUS
<1>3. PICK e : e = [d EXCEPT !.step = @ + 1, !.gone = @ \cup T]
  OBVIOUS
<1>4. d.step \in 1 .. 3 /\ DeletionInv(d)
  BY <1>1 DEF IInv, DeleteDependents
<1>5. /\ T = {r \in rows : r.kind = Dependents(d.account)[d.step] /\ OfAccount(d, r)}
      /\ T \in SUBSET Row
  BY <1>1, <1>2 DEF Targets, Owned, OfAccount, IInv, TypeOK
<1>6. /\ e \in Deletion /\ e.step = d.step + 1 /\ e.gone = d.gone \cup T
      /\ e.account = d.account /\ e.since = d.since
  <2>1. d.step \in 1 .. 4 /\ T \in SUBSET Row
    BY <1>4, <1>5
  <2>2. d.step + 1 \in 1 .. 5 /\ d.gone \cup T \in SUBSET Row
    BY <2>1 DEF Deletion
  <2>3. e = [op |-> "delete", account |-> d.account, step |-> d.step + 1,
             gone |-> d.gone \cup T, since |-> d.since]
    BY <1>3 DEF Deletion
  <2>4. d.account \in Account /\ d.since \in Nat
    BY DEF Deletion
  <2>5. e \in Deletion
    BY <2>2, <2>3, <2>4 DEF Deletion
  <2> QED
    BY <2>3, <2>5
<1>7. \A r : Passed(e, r) <=> Passed(d, r) \/ r.kind = Dependents(d.account)[d.step]
  BY <1>4, <1>6 DEF Passed
<1>8. Become(w, e) /\ UNCHANGED <<log, shown, rows, serial>>
  BY <1>1, <1>2, <1>3 DEF DeleteDependents
<1>9. DeletionInv(e)
  BY <1>4, <1>5, <1>6, <1>7 DEF DeletionInv, OfAccount
<1> QED
  BY <1>6, <1>8, <1>9, DeletionStep

LEMMA DeleteAccountInvariant ==
  ASSUME IInv, NEW w \in Worker, DeleteAccount(w)
  PROVE  IInv'
<1>1. CASE req[w].account \notin Stored
  <2>1. LogGrows /\ RowsGrow /\ VarsTyped'
    BY QuietTables DEF IInv, DeleteAccount
  <2> QED
    BY <1>1, <2>1, EndInvariant DEF DeleteAccount
<1>2. CASE req[w].account \in Stored
  <2>1. PICK d \in Deletion : d = req[w]
    BY RequestKinds DEF IInv, DeleteAccount
  <2> DEFINE e == [d EXCEPT !.step = 5]
  <2>2. d.step = 4 /\ DeletionInv(d)
    BY <2>1 DEF IInv, DeleteAccount
  <2>3. /\ e \in Deletion /\ e.step = 5 /\ e.gone = d.gone
        /\ e.account = d.account /\ e.since = d.since
    BY DEF Deletion
  <2>4. Become(w, e) /\ UNCHANGED <<log, shown, rows, serial>>
    BY <1>2, <2>1 DEF DeleteAccount
  <2> HIDE DEF e
  <2>5. DeletionInv(e)
    BY <2>2, <2>3 DEF DeletionInv, Passed, OfAccount
  <2> QED
    BY <2>3, <2>4, <2>5, DeletionStep
<1> QED
  BY <1>1, <1>2

LEMMA CommitDeleteInvariant ==
  ASSUME IInv, NEW w \in Worker, CommitDelete(w)
  PROVE  IInv'
<1>1. Len(log) \in 1 .. Len(log)
  BY AccountsAssumption DEF IInv, TypeOK
<1>2. Stored \ {req[w].account} \in SUBSET Account
  BY <1>1, StoredAccounts DEF IInv, Stored
<1>3. LogGrows /\ log' \in Seq(SUBSET Account)
               /\ Len(log)' \in 1 .. MaxVersions /\ shown' \in 1 .. Len(log)'
  BY <1>2, AppendedLog DEF IInv, CommitDelete
<1>4. RowsGrow /\ VarsTyped'
  BY <1>3, AccountsAssumption DEF IInv, TypeOK, CommitDelete, RowsGrow, VarsTyped
<1> QED
  BY <1>3, <1>4, EndInvariant DEF CommitDelete

\* A grant goes on with g, and deletes rows at most.
LEMMA GrantStep ==
  ASSUME IInv, NEW w \in Worker, NEW g \in Grant, GrantInv(g),
         Become(w, g), UNCHANGED <<log, shown, serial>>, rows' \subseteq rows
  PROVE  IInv'
<1>1. g \notin Deletion
  BY DEF Deletion, Grant
<1>2. LogGrows /\ RowsGrow /\ VarsTyped'
  BY AccountsAssumption DEF IInv, TypeOK, LogGrows, RowsGrow, VarsTyped
<1>3. GrantInv(g)'
  BY <1>2, GrantStays DEF IInv
<1> QED
  BY <1>1, <1>2, <1>3, StepInvariant

\* What the reader pool shows has been stored since any request began.
LEMMA KnownAlive ==
  ASSUME TypeOK, NEW g \in Grant, g.start <= shown, NEW a, Known(a)
  PROVE  Alive(g, a)
<1>1. g.start \in Nat /\ shown \in Nat /\ Len(log) \in Nat
  BY AccountsAssumption DEF Grant, TypeOK
<1>2. shown \in g.start .. Len(log)
  BY <1>1 DEF TypeOK
<1> QED
  BY <1>2 DEF Alive, Known

LEMMA BeginInvariant ==
  ASSUME IInv, NEW w \in Worker,
         NEW op \in {"authorize", "accept", "exchange", "refresh"},
         NEW step \in {"find", "owner"},
         NEW u \in User, NEW c \in Client, NEW i \in Nat,
         op # "accept" => Known(c), Begin(w, op, step, u, c, i)
  PROVE  IInv'
<1> DEFINE g == [op |-> op, step |-> step, user |-> u, client |-> c, row |-> i,
                 start |-> shown]
<1>1. shown \in Nat \ {0}
  BY DEF IInv, TypeOK
<1>2. g \in Grant
  BY <1>1 DEF Grant
<1>3. g.start = shown /\ g.op = op /\ g.step = step /\ g.client = c
  OBVIOUS
<1>4. Become(w, g) /\ UNCHANGED <<log, shown, rows, serial>>
  BY DEF Begin
<1> HIDE DEF g
<1>5. op # "accept" => Alive(g, c)
  BY <1>1, <1>2, <1>3, KnownAlive DEF IInv
<1>6. GrantInv(g)
  BY <1>1, <1>3, <1>5 DEF GrantInv
<1> QED
  BY <1>2, <1>4, <1>6, GrantStep

\* A grant comes to another step.
LEMMA ContinueInvariant ==
  ASSUME IInv, NEW w \in Worker, Grants(w),
         NEW step \in {"find", "consume", "owner", "client", "store"},
         Become(w, [req[w] EXCEPT !.step = step]),
         UNCHANGED <<log, shown, serial>>, rows' \subseteq rows,
         step \in {"client", "store"} => Alive(req[w], req[w].user),
         step = "store" => Alive(req[w], req[w].client)
  PROVE  IInv'
<1>1. PICK g \in Grant : g = req[w]
  BY RequestKinds DEF IInv
<1> DEFINE h == [g EXCEPT !.step = step]
<1>2. /\ h \in Grant /\ h.step = step /\ h.start = g.start /\ h.op = g.op
      /\ h.user = g.user /\ h.client = g.client
  BY DEF Grant
<1>3. GrantInv(g)
  BY <1>1 DEF IInv
<1>4. Become(w, h)
  BY <1>1
<1> HIDE DEF h
<1>5. GrantInv(h)
  BY <1>1, <1>2, <1>3 DEF GrantInv, Alive
<1> QED
  BY <1>2, <1>4, <1>5, GrantStep

LEMMA FindRowInvariant ==
  ASSUME IInv, NEW w \in Worker, FindRow(w)
  PROVE  IInv'
<1>1. PICK step \in {"consume", "owner"} : Continue(w, step)
  BY DEF FindRow
<1> QED
  BY <1>1, ContinueInvariant DEF FindRow, Continue

LEMMA ConsumeCodeInvariant ==
  ASSUME IInv, NEW w \in Worker, ConsumeCode(w)
  PROVE  IInv'
<1>1. Grants(w)
  BY DEF ConsumeCode, At, Grants
<1> QED
  BY <1>1, ContinueInvariant DEF ConsumeCode

LEMMA FindOwnerInvariant ==
  ASSUME IInv, NEW w \in Worker, FindOwner(w)
  PROVE  IInv'
<1>1. PICK g \in Grant : g = req[w]
  BY RequestKinds DEF IInv, FindOwner
<1>2. GrantInv(g)
  BY <1>1 DEF IInv, FindOwner
<1>3. Alive(g, g.user)
  BY <1>1, <1>2, KnownAlive DEF IInv, FindOwner, GrantInv
<1>4. PICK step \in {"client", "store"} :
        /\ Continue(w, step)
        /\ step = "store" => g.op # "accept"
  BY <1>1 DEF FindOwner
<1>5. step = "store" => Alive(g, g.client)
  BY <1>2, <1>4 DEF GrantInv
<1> QED
  BY <1>1, <1>3, <1>4, <1>5, ContinueInvariant DEF FindOwner, Continue

LEMMA FindClientInvariant ==
  ASSUME IInv, NEW w \in Worker, FindClient(w)
  PROVE  IInv'
<1>1. PICK g \in Grant : g = req[w]
  BY RequestKinds DEF IInv, FindClient
<1>2. GrantInv(g) /\ g.step = "client"
  BY <1>1 DEF IInv, FindClient
<1>3. Alive(g, g.client) /\ Alive(g, g.user)
  BY <1>1, <1>2, KnownAlive DEF IInv, FindClient, GrantInv
<1> QED
  BY <1>1, <1>3, ContinueInvariant DEF FindClient, Continue

\* A request stores a row and ends.
LEMMA InsertInvariant ==
  ASSUME IInv, NEW w \in Worker, Grants(w), NEW kind \in Kind, Insert(w, kind)
  PROVE  IInv'
<1>1. PICK g \in Grant : g = req[w]
  BY RequestKinds DEF IInv
<1>2. serial \in Nat /\ MaxRows \in Nat /\ serial < MaxRows /\ serial' = serial + 1
  BY AccountsAssumption DEF IInv, TypeOK, Insert
<1>3. PICK r : /\ r = [id |-> serial + 1, kind |-> kind, user |-> g.user, client |-> g.client]
               /\ rows' = rows \cup {r}
  BY <1>1 DEF Insert
<1>4. r \in Row /\ r.id = serial + 1
  BY <1>2, <1>3 DEF Row, Grant
<1>5. UNCHANGED <<log, shown>>
  BY DEF Insert
<1>6. LogGrows /\ RowsGrow /\ VarsTyped'
  BY <1>2, <1>3, <1>4, <1>5, AccountsAssumption
     DEF LogGrows, RowsGrow, VarsTyped, IInv, TypeOK
<1> QED
  BY <1>6, EndInvariant DEF Insert

\* A request ends, and leaves the tables alone.
LEMMA QuietEndInvariant ==
  ASSUME IInv, NEW w \in Worker, Become(w, Idle),
         UNCHANGED <<log, shown, rows, serial>>
  PROVE  IInv'
BY QuietTables, EndInvariant DEF IInv

LEMMA AdministerInvariant ==
  ASSUME IInv, NEW w \in Worker, Administer(w)
  PROVE  IInv'
<1>1. ASSUME NEW a \in Account, CreateAccount(w, a)
      PROVE  IInv'
  <2>1. LogGrows /\ RowsGrow /\ VarsTyped'
    BY <1>1, UpsertTables DEF IInv, CreateAccount
  <2> QED
    BY <1>1, <2>1, WorldInvariant DEF CreateAccount
<1> QED
  BY <1>1, BeginUpdateInvariant, BeginDeleteInvariant, SaveUpdateInvariant,
     DeleteDependentsInvariant, DeleteAccountInvariant, CommitDeleteInvariant
     DEF Administer

LEMMA ServeInvariant ==
  ASSUME IInv, NEW w \in Worker, Serve(w)
  PROVE  IInv'
<1>1. ASSUME NEW u \in User, NEW c \in Client, BeginAuthorize(w, u, c)
      PROVE  IInv'
  BY <1>1, BeginInvariant DEF BeginAuthorize
<1>2. ASSUME NEW u \in User, NEW c \in Client, BeginAccept(w, u, c)
      PROVE  IInv'
  BY <1>2, BeginInvariant DEF BeginAccept
<1>3. ASSUME NEW op \in {"exchange", "refresh"}, NEW r \in rows, BeginToken(w, op, r)
      PROVE  IInv'
  <2>1. r.user \in User /\ r.client \in Client /\ r.id \in Nat
    BY DEF IInv, TypeOK, Row
  <2> QED
    BY <1>3, <2>1, BeginInvariant DEF BeginToken
<1>4. CASE StoreCode(w)
  BY <1>4, InsertInvariant DEF StoreCode, At, Grants, Kind
<1>5. CASE StoreToken(w)
  BY <1>5, InsertInvariant DEF StoreToken, At, Grants, Kind
<1>6. CASE RotateToken(w)
  BY <1>6, InsertInvariant DEF RotateToken, At, Grants, Kind
<1>7. CASE StoreConsent(w)
  BY <1>7, InsertInvariant DEF StoreConsent, At, Grants, Kind
<1>8. CASE RepeatConsent(w)
  BY <1>8, QuietEndInvariant DEF RepeatConsent
<1> QED
  BY <1>1, <1>2, <1>3, <1>4, <1>5, <1>6, <1>7, <1>8, FindRowInvariant,
     ConsumeCodeInvariant, FindOwnerInvariant, FindClientInvariant DEF Serve

LEMMA NextInvariant == IInv /\ [Next]_vars => IInv'
<1> SUFFICES ASSUME IInv, [Next]_vars PROVE IInv'
  OBVIOUS
<1>1. ASSUME NEW w \in Worker, Fail(w)
      PROVE  IInv'
  BY <1>1, QuietEndInvariant DEF Fail
<1>2. ASSUME NEW a \in Seeded, SeedAccount(a)
      PROVE  IInv'
  <2>1. a \in Account
    BY AccountsAssumption
  <2>2. LogGrows /\ RowsGrow /\ VarsTyped'
    BY <1>2, <2>1, UpsertTables DEF IInv, SeedAccount
  <2> QED
    BY <1>2, <2>2, WorldInvariant DEF SeedAccount
<1>3. CASE Replay
  <2>1. Len(log) \in Nat /\ shown \in 1 .. Len(log) /\ serial \in Nat
    BY AccountsAssumption DEF IInv, TypeOK
  <2>2. LogGrows /\ RowsGrow /\ VarsTyped'
    BY <1>3, <2>1 DEF IInv, TypeOK, Replay, LogGrows, RowsGrow, VarsTyped
  <2> QED
    BY <1>3, <2>2, WorldInvariant DEF Replay
<1>4. CASE UNCHANGED vars
  BY <1>4, QuietTables, WorldInvariant DEF IInv, vars
<1> QED
  BY <1>1, <1>2, <1>3, <1>4, AdministerInvariant, ServeInvariant DEF Next

\* The invariant holds in every state of every behaviour.
THEOREM Invariance == Spec => []IInv
BY InitInvariant, NextInvariant, PTL DEF Spec

-----------------------------------------------------------------------------
(* The properties. *)

\* The tables and the requests stay in their types.
THEOREM TypeCorrect == Spec => []TypeOK
<1>1. IInv => TypeOK
  BY DEF IInv
<1> QED
  BY <1>1, Invariance, PTL

\* Whom a deletion waits for is further on.
LEMMA WaitsForFurther ==
  ASSUME IInv, NEW w \in Worker, NEW v \in Worker, v # w, Waits(w, v)
  PROVE  /\ Deletes(w) /\ Deletes(v)
         /\ req[w].step \in 1 .. 5 /\ req[v].step \in 1 .. 5
         /\ req[w].step < req[v].step
<1>1. Deletes(w) /\ Deletes(v)
  BY DEF Waits, LockedRow, LockedAccount
<1>2. PICK d \in Deletion, e \in Deletion :
        /\ d = req[w] /\ e = req[v] /\ DeletionInv(d) /\ DeletionInv(e)
  BY <1>1, RequestKinds DEF IInv
<1>3. d.step \in 1 .. 5 /\ e.step \in 1 .. 5
  BY DEF Deletion
<1>4. CASE d.step \in 1 .. 3 /\ \E r \in Targets(w) : LockedRow(r, v)
  <2>1. PICK r : r.kind = Dependents(d.account)[d.step] /\ r \in e.gone
    BY <1>2, <1>4 DEF Targets, LockedRow
  <2>2. PICK k \in 1 .. 3 : k < e.step /\ r.kind = Dependents(e.account)[k]
    BY <1>2, <2>1 DEF DeletionInv, Passed
  <2>3. k = d.step
    BY <1>4, <2>1, <2>2 DEF Dependents
  <2> QED
    BY <1>1, <1>2, <1>3, <2>2, <2>3
<1>5. CASE d.step = 4 /\ LockedAccount(d.account, v)
  BY <1>1, <1>2, <1>3, <1>5 DEF LockedAccount
<1> QED
  BY <1>2, <1>4, <1>5 DEF Waits

\* Of the workers of W one waits for none of the others, for every W and every
\* interleaving of deletions: one whose deletion is the furthest.
THEOREM NoDeadlock == Spec => []NoCircularWait
<1>1. IInv => NoCircularWait
  <2> SUFFICES ASSUME IInv, NEW W \in (SUBSET Worker) \ {{}}
               PROVE  \E w \in W : \A v \in W \ {w} : ~ Waits(w, v)
    BY DEF NoCircularWait
  <2>1. CASE \E w \in W : ~ Deletes(w)
    BY <2>1 DEF Waits
  <2>2. CASE \A w \in W : Deletes(w)
    <3> DEFINE Reached(n) == \E w \in W : req[w].step = n
    <3>1. \A w \in W : req[w].step \in 1 .. 5
      BY <2>2, RequestKinds DEF IInv, Deletion
    <3>2. \E n \in 1 .. 5 : Reached(n)
      BY <3>1
    <3>3. \E n \in 1 .. 5 : Reached(n) /\ \A m \in 1 .. 5 : m > n => ~ Reached(m)
      <4> HIDE DEF Reached
      <4> QED
        BY <3>2
    <3>4. PICK w \in W : \A v \in W : ~ (req[w].step < req[v].step)
      BY <3>1, <3>3
    <3>5. \A v \in W \ {w} : ~ Waits(w, v)
      BY <3>4, WaitsForFurther
    <3> QED
      BY <3>5
  <2> QED
    BY <2>1, <2>2
<1> QED
  BY <1>1, Invariance, PTL

\* An upsert takes no account away.
LEMMA UpsertKeeps ==
  ASSUME TypeOK, NEW a \in Account, Upsert(a)
  PROVE  Stored \subseteq Stored'
<1>1. CASE a \in Stored
  BY <1>1 DEF Upsert, Stored
<1>2. CASE ~ (a \in Stored)
  <2>1. Len(log) \in 1 .. Len(log) /\ log \in Seq(SUBSET Account)
    BY AccountsAssumption DEF TypeOK
  <2>2. Stored \cup {a} \in SUBSET Account
    BY <2>1, StoredAccounts DEF Stored
  <2>3. log' = Append(log, Stored \cup {a})
    BY <1>2 DEF Upsert
  <2>4. Len(log') = Len(log) + 1 /\ log'[Len(log) + 1] = Stored \cup {a}
    BY <2>1, <2>2, <2>3, AppendProperties
  <2>5. Stored' = Stored \cup {a}
    BY <2>4 DEF Stored
  <2> QED
    BY <2>5
<1> QED
  BY <1>1, <1>2

\* Only the commit of a deletion takes an account away.
LEMMA OnlyCommitRemoves ==
  ASSUME IInv, Next, ~ (Stored \subseteq Stored')
  PROVE  \E v \in Worker : CommitDelete(v)
<1>1. log' # log
  BY DEF Stored
<1>2. ~ \E a \in Account : Upsert(a)
  BY UpsertKeeps DEF IInv
<1>3. \A w \in Worker : ~ Serve(w) /\ ~ Fail(w)
  BY <1>1 DEF Serve, Fail, BeginAuthorize, BeginAccept, BeginToken, Begin, FindRow,
     ConsumeCode, FindOwner, FindClient, Continue, StoreCode, StoreToken, RotateToken,
     StoreConsent, RepeatConsent, Insert
<1>4. ASSUME NEW w \in Worker, SaveUpdate(w)
      PROVE  FALSE
  <2>1. req[w].account \in Account
    BY <1>4, RequestKinds DEF IInv, SaveUpdate, Update
  <2> QED
    BY <1>2, <1>4, <2>1 DEF SaveUpdate
<1>5. \A a \in Seeded : ~ SeedAccount(a)
  BY <1>2, AccountsAssumption DEF SeedAccount
<1>6. ~ Replay
  BY <1>1 DEF Replay
<1>7. PICK w \in Worker : Administer(w)
  BY <1>3, <1>5, <1>6 DEF Next
<1> QED
  BY <1>1, <1>2, <1>4, <1>7
     DEF Administer, CreateAccount, BeginUpdate, BeginDelete, DeleteDependents, DeleteAccount

\* A deletion that has gone through the tables has deleted every row of its
\* account that was stored when it began.
LEMMA FarDeletion ==
  ASSUME TypeOK, NEW d \in Deletion, DeletionInv(d), d.step = 5,
         NEW r \in rows, OfAccount(d, r), ~ (r \in d.gone)
  PROVE  r.id > d.since
<1>1. r.kind \in Kind /\ r.id \in Nat /\ d.since \in Nat
  BY DEF TypeOK, Row, Deletion
<1>2. Passed(d, r)
  BY <1>1 DEF Passed, Kind, Dependents
<1>3. ~ (r.id <= d.since)
  BY <1>2 DEF DeletionInv
<1> QED
  BY <1>1, <1>3

\* What a deletion d has locked is of its account, and so is the account itself.
Holds(d) ==
  /\ \A r \in d.gone : OfAccount(d, r)
  /\ d.step = 5 => d.account \in Stored

\* No two deletions hold one account.
HoldInv ==
  /\ \A w \in Worker : Deletes(w) => Holds(req[w])
  /\ \A w, v \in Worker :
       w # v /\ Deletes(w) /\ Deletes(v) /\ req[w].step = 5 /\ req[v].step = 5
         => req[w].account # req[v].account

LEMMA CommitStored ==
  ASSUME IInv, NEW v \in Worker, CommitDelete(v)
  PROVE  Stored' = Stored \ {req[v].account} /\ req'[v] = Idle
<1>1. Len(log) \in 1 .. Len(log) /\ log \in Seq(SUBSET Account)
  BY AccountsAssumption DEF IInv, TypeOK
<1>2. Stored \ {req[v].account} \in SUBSET Account
  BY <1>1, StoredAccounts DEF IInv, Stored
<1>3. /\ Len(log') = Len(log) + 1
      /\ log'[Len(log) + 1] = Stored \ {req[v].account}
  BY <1>1, <1>2, AppendProperties DEF CommitDelete
<1>4. Stored' = Stored \ {req[v].account}
  BY <1>3 DEF Stored
<1> QED
  BY <1>4 DEF CommitDelete, Become, IInv, TypeOK

\* How a deletion comes to be as it is.
LEMMA DeletionMoves ==
  ASSUME IInv, [Next]_vars, NEW w \in Worker, Deletes(w)'
  PROVE  \/ req'[w] = req[w]
         \/ \E a \in Account : BeginDelete(w, a)
         \/ DeleteDependents(w)
         \/ DeleteAccount(w) /\ req[w].account \in Stored
<1>1. \A v \in Worker : \A r : Become(v, r) => req'[w] = req[w] \/ (v = w /\ req'[w] = r)
  BY DEF Become, IInv, TypeOK
<1>2. req'[w].op = "delete"
  BY DEF Deletes
<1>3. ASSUME NEW v \in Worker, Become(v, Idle) PROVE req'[w] = req[w]
  BY <1>1, <1>2, <1>3 DEF Idle
<1>4. ASSUME NEW v \in Worker, Administer(v)
      PROVE  \/ req'[w] = req[w]
             \/ \E a \in Account : BeginDelete(w, a)
             \/ DeleteDependents(w)
             \/ DeleteAccount(w) /\ req[w].account \in Stored
  <2>1. ASSUME NEW a \in Account, BeginUpdate(v, a) PROVE req'[w] = req[w]
    BY <1>1, <1>2, <2>1 DEF BeginUpdate
  <2>2. ASSUME NEW a \in Account, BeginDelete(v, a) PROVE req'[w] = req[w] \/ v = w
    BY <1>1, <2>2 DEF BeginDelete
  <2>3. ASSUME DeleteDependents(v) PROVE req'[w] = req[w] \/ v = w
    BY <1>1, <2>3 DEF DeleteDependents
  <2>4. ASSUME DeleteAccount(v)
        PROVE  req'[w] = req[w] \/ (v = w /\ req[w].account \in Stored)
    <3>1. CASE req[v].account \in Stored
      BY <1>1, <2>4, <3>1 DEF DeleteAccount
    <3>2. CASE ~ (req[v].account \in Stored)
      BY <1>3, <2>4, <3>2 DEF DeleteAccount
    <3> QED
      BY <3>1, <3>2
  <2>5. ASSUME SaveUpdate(v) \/ CommitDelete(v) PROVE req'[w] = req[w]
    BY <1>3, <2>5 DEF SaveUpdate, CommitDelete
  <2> QED
    BY <1>4, <2>1, <2>2, <2>3, <2>4, <2>5 DEF Administer, CreateAccount
<1>5. ASSUME NEW v \in Worker, Serve(v) PROVE req'[w] = req[w]
  <2>1. ASSUME NEW op \in {"authorize", "accept", "exchange", "refresh"},
               NEW step, NEW u, NEW c, NEW i, Begin(v, op, step, u, c, i)
        PROVE  req'[w] = req[w]
    BY <1>1, <1>2, <2>1 DEF Begin
  <2>2. ASSUME NEW step, Grants(v), Become(v, [req[v] EXCEPT !.step = step])
        PROVE  req'[w] = req[w]
    <3>1. req[v] \in Grant /\ req[v].op # "delete"
      BY <2>2, RequestKinds DEF IInv, Grants
    <3>2. [req[v] EXCEPT !.step = step].op = req[v].op
      BY <3>1 DEF Grant
    <3> QED
      BY <1>1, <1>2, <2>2, <3>1, <3>2
  <2>3. FindRow(v) \/ FindOwner(v) \/ FindClient(v) \/ ConsumeCode(v) => req'[w] = req[w]
    BY <2>2 DEF FindRow, FindOwner, FindClient, ConsumeCode, Continue, At, Grants
  <2>4. StoreCode(v) \/ StoreToken(v) \/ RotateToken(v) \/ StoreConsent(v)
          \/ RepeatConsent(v) => req'[w] = req[w]
    BY <1>3 DEF StoreCode, StoreToken, RotateToken, StoreConsent, RepeatConsent, Insert
  <2>5. ASSUME NEW u \in User, NEW c \in Client,
               BeginAuthorize(v, u, c) \/ BeginAccept(v, u, c)
        PROVE  req'[w] = req[w]
    BY <2>1, <2>5 DEF BeginAuthorize, BeginAccept
  <2>6. ASSUME NEW op \in {"exchange", "refresh"}, NEW r \in rows, BeginToken(v, op, r)
        PROVE  req'[w] = req[w]
    BY <2>1, <2>6 DEF BeginToken
  <2> QED
    BY <1>5, <2>3, <2>4, <2>5, <2>6 DEF Serve
<1>6. ASSUME NEW v \in Worker, Fail(v) PROVE req'[w] = req[w]
  BY <1>3, <1>6 DEF Fail
<1>7. CASE req' = req
  BY <1>7
<1> QED
  BY <1>4, <1>5, <1>6, <1>7 DEF Next, SeedAccount, Replay, vars

LEMMA HoldStep ==
  ASSUME IInv, HoldInv, [Next]_vars
  PROVE  HoldInv'
<1>1. ASSUME NEW w \in Worker, Deletes(w)', req'[w] # req[w]
      PROVE  /\ Holds(req[w])' /\ log' = log
             /\ \A v \in Worker \ {w} : req'[v] = req[v]
             /\ req'[w].step = 5 =>
                  \A v \in Worker \ {w} :
                    ~ LockedAccount(req'[w].account, v)
  <2>1. ASSUME NEW a \in Account, BeginDelete(w, a)
        PROVE  /\ Holds(req[w])' /\ log' = log /\ req'[w].step # 5
               /\ \A v \in Worker \ {w} : req'[v] = req[v]
    BY <2>1 DEF BeginDelete, Become, Holds, IInv, TypeOK
  <2>2. CASE DeleteDependents(w)
    <3>1. PICK d \in Deletion : d = req[w] /\ Holds(d) /\ d.step \in 1 .. 3
      BY <2>2, RequestKinds DEF DeleteDependents, IInv, HoldInv
    <3>2. req' = [req EXCEPT ![w] = [d EXCEPT !.step = @ + 1, !.gone = @ \cup Targets(w)]]
      BY <2>2, <3>1 DEF DeleteDependents, Become
    <3>3. \A r \in Targets(w) : r.user = d.account \/ r.client = d.account
      BY <3>1 DEF Targets, Owned
    <3>4. /\ req'[w].account = d.account /\ req'[w].gone = d.gone \cup Targets(w)
          /\ req'[w].step = d.step + 1
      BY <3>1, <3>2 DEF IInv, TypeOK, Deletion
    <3>5. req'[w].step # 5
      BY <3>1, <3>4
    <3>6. Holds(req[w])'
      BY <3>1, <3>3, <3>4, <3>5 DEF Holds, OfAccount
    <3> QED
      BY <2>2, <3>2, <3>5, <3>6 DEF DeleteDependents, IInv, TypeOK
  <2>3. CASE DeleteAccount(w) /\ req[w].account \in Stored
    <3>1. PICK d \in Deletion : d = req[w] /\ Holds(d)
      BY <2>3, RequestKinds DEF DeleteAccount, IInv, HoldInv
    <3>2. req' = [req EXCEPT ![w] = [d EXCEPT !.step = 5]] /\ log' = log
      BY <2>3, <3>1 DEF DeleteAccount, Become
    <3>3. req'[w].account = d.account /\ req'[w].gone = d.gone
      BY <3>1, <3>2 DEF IInv, TypeOK, Deletion
    <3>4. Holds(req[w])'
      BY <2>3, <3>1, <3>2, <3>3 DEF Holds, OfAccount, Stored
    <3> QED
      BY <2>3, <3>1, <3>2, <3>3, <3>4 DEF DeleteAccount, IInv, TypeOK
  <2> QED
    BY <1>1, <2>1, <2>2, <2>3, DeletionMoves
<1>2. ASSUME NEW w \in Worker, Deletes(w)', req'[w] = req[w]
      PROVE  Holds(req[w])'
  <2>1. Deletes(w) /\ Holds(req[w])
    BY <1>2 DEF Deletes, HoldInv
  <2>2. ASSUME req[w].step = 5 PROVE req[w].account \in Stored'
    <3>1. CASE Stored \subseteq Stored'
      BY <2>1, <2>2, <3>1 DEF Holds
    <3>2. CASE ~ (Stored \subseteq Stored')
      <4>1. PICK v \in Worker : CommitDelete(v)
        <5>1. Next
          BY <3>2 DEF vars, Stored
        <5> QED
          BY <3>2, <5>1, OnlyCommitRemoves
      <4>2. Stored' = Stored \ {req[v].account} /\ req'[v] = Idle
        BY <4>1, CommitStored
      <4>3. v # w
        BY <1>2, <4>2 DEF Deletes, Idle
      <4>4. req[w].account # req[v].account
        BY <2>1, <2>2, <4>1, <4>3 DEF HoldInv, CommitDelete
      <4> QED
        BY <2>1, <2>2, <4>2, <4>4 DEF Holds
    <3> QED
      BY <3>1, <3>2
  <2> QED
    BY <1>2, <2>1, <2>2 DEF Holds, OfAccount
<1>3. ASSUME NEW w \in Worker, NEW v \in Worker, w # v, Deletes(w)', Deletes(v)',
             req'[w].step = 5, req'[v].step = 5
      PROVE  req'[w].account # req'[v].account
  <2>1. CASE req'[w] = req[w] /\ req'[v] = req[v]
    BY <1>3, <2>1 DEF HoldInv, Deletes
  <2>2. CASE req'[w] # req[w]
    BY <1>1, <1>3, <2>2 DEF LockedAccount, Deletes
  <2>3. CASE req'[v] # req[v]
    BY <1>1, <1>3, <2>3 DEF LockedAccount, Deletes
  <2> QED
    BY <2>1, <2>2, <2>3
<1> QED
  BY <1>1, <1>2, <1>3 DEF HoldInv, Deletes

LEMMA HoldInvariance == Spec => []HoldInv
<1>1. Init => HoldInv
  BY DEF Init, HoldInv, Deletes, Idle
<1>2. IInv /\ HoldInv /\ [Next]_vars => HoldInv'
  BY HoldStep
<1> QED
  BY <1>1, <1>2, Invariance, PTL DEF Spec

\* Rows go by redemption and by the commit of a deletion.
LEMMA OnlyTwoRemove ==
  ASSUME Next, NEW r \in rows \ rows'
  PROVE  \E v \in Worker : ConsumeCode(v) \/ CommitDelete(v)
<1>1. \A w \in Worker : Serve(w) => ConsumeCode(w)
  BY DEF Serve, BeginAuthorize, BeginAccept, BeginToken, Begin, FindRow, FindOwner,
     FindClient, Continue, StoreCode, StoreToken, RotateToken, StoreConsent,
     RepeatConsent, Insert
<1>2. \A w \in Worker : Administer(w) => CommitDelete(w)
  BY DEF Administer, CreateAccount, BeginUpdate, BeginDelete, SaveUpdate,
     DeleteDependents, DeleteAccount
<1> QED
  BY <1>1, <1>2 DEF Next, Fail, SeedAccount, Replay

\* A deletion leaves no row that was stored for its account when it began, and
\* takes none but together with the account, for any number of accounts,
\* requests and rows.
THEOREM Cascade == Spec => CascadeComplete
<1>1. ASSUME IInv, Next, NEW w \in Worker, Completes(w),
             NEW r \in rows', req[w].account \in {r.user, r.client}
      PROVE  r.id > req[w].since
  <2> USE <1>1
  <2>1. PICK v \in Worker : CommitDelete(v)
    BY OnlyCommitRemoves DEF Completes
  <2>2. PICK d \in Deletion : d = req[w] /\ DeletionInv(d)
    BY RequestKinds DEF IInv, Completes
  <2>3. w = v
    <3>1. req' = [req EXCEPT ![v] = Idle]
      BY <2>1 DEF CommitDelete, Become
    <3>2. req[w] # Idle /\ req'[w] = Idle
      BY DEF Completes, Deletes, Idle
    <3> QED
      BY <3>1, <3>2 DEF IInv, TypeOK
  <2>4. d.step = 5 /\ r \in rows /\ ~ (r \in d.gone)
    BY <2>1, <2>2, <2>3 DEF CommitDelete
  <2>5. OfAccount(d, r)
    BY <2>2 DEF OfAccount
  <2> QED
    BY <2>2, <2>4, <2>5, FarDeletion DEF IInv
<1>2. ASSUME IInv, HoldInv, Next, NEW r \in rows \ rows'
      PROVE  \/ \E w \in Worker : At(w, "exchange", "consume") /\ req[w].row = r.id
             \/ \E w \in Worker :
                  Completes(w) /\ req[w].account \in {r.user, r.client}
  <2>1. PICK v \in Worker : ConsumeCode(v) \/ CommitDelete(v)
    BY <1>2, OnlyTwoRemove
  <2>2. CASE ConsumeCode(v)
    BY <1>2, <2>2 DEF ConsumeCode, Redeemed
  <2>3. CASE CommitDelete(v)
    <3>1. PICK d \in Deletion : d = req[v] /\ Holds(d) /\ d.step = 5
      BY <1>2, <2>3, RequestKinds DEF IInv, HoldInv, CommitDelete
    <3>2. req'[v] = Idle
      BY <1>2, <2>3, CommitStored
    <3>3. r \in d.gone
      BY <1>2, <2>3, <3>1 DEF CommitDelete
    <3>4. Stored' = Stored \ {d.account}
      BY <1>2, <2>3, <3>1, CommitStored
    <3>5. Completes(v) /\ req[v].account \in {r.user, r.client}
      BY <2>3, <3>1, <3>2, <3>3, <3>4 DEF Completes, Holds, OfAccount, CommitDelete
    <3> QED
      BY <3>5
  <2> QED
    BY <2>1, <2>2, <2>3
<1>3. IInv /\ HoldInv /\ [Next]_vars => [CascadeStep]_vars
  BY <1>1, <1>2 DEF CascadeStep
<1> QED
  BY <1>3, Invariance, HoldInvariance, PTL DEF Spec, CascadeComplete

\* Requests store rows only for accounts that were stored at some time since
\* they began, for any number of accounts and requests and any lag.
THEOREM NothingBack == Spec => NothingForTheDead
<1>1. IInv /\ [Next]_vars => [GrantStoresForTheLiving]_vars
  <2> SUFFICES ASSUME IInv, Next, NEW w \in Worker, Grants(w), req'[w] # req[w],
                      NEW r \in rows' \ rows, NEW a \in {r.user, r.client}
               PROVE  \E i \in req[w].start .. Len(log) : a \in log[i]
    BY DEF GrantStoresForTheLiving
  <2>1. PICK g \in Grant : g = req[w] /\ GrantInv(g)
    BY RequestKinds DEF IInv
  <2>2. PICK v \in Worker, kind \in Kind :
          Insert(v, kind) /\ Grants(v) /\ req[v].step = "store"
    <3>1. \A v \in Worker : ~ Administer(v) /\ ~ Fail(v)
      BY DEF Administer, CreateAccount, BeginUpdate, BeginDelete, SaveUpdate,
         DeleteDependents, DeleteAccount, CommitDelete, Fail
    <3>2. ~ Replay /\ \A b \in Seeded : ~ SeedAccount(b)
      BY DEF Replay, SeedAccount
    <3>3. PICK v \in Worker : Serve(v)
      BY <3>1, <3>2 DEF Next
    <3>4. StoreCode(v) \/ StoreToken(v) \/ RotateToken(v) \/ StoreConsent(v)
      BY <3>3 DEF Serve, BeginAuthorize, BeginAccept, BeginToken, Begin, FindRow,
         ConsumeCode, FindOwner, FindClient, Continue, RepeatConsent
    <3> QED
      BY <3>4 DEF StoreCode, StoreToken, RotateToken, StoreConsent, At, Grants, Kind
  <2>3. v = w
    <3>1. req' = [req EXCEPT ![v] = Idle]
      BY <2>2 DEF Insert, Become
    <3> QED
      BY <3>1 DEF IInv, TypeOK
  <2>4. a = g.user \/ a = g.client
    BY <2>1, <2>2, <2>3 DEF Insert
  <2>5. Alive(g, a)
    BY <2>1, <2>2, <2>3, <2>4 DEF GrantInv
  <2> QED
    BY <2>1, <2>5 DEF Alive
<1> QED
  BY <1>1, Invariance, PTL DEF Spec, NothingForTheDead

=============================================================================
