------------------------- MODULE RegistrationsProofs -------------------------
(***************************************************************************)
(* Proofs about Registrations.  The argument: the log of the registrations *)
(* only grows, so what a request has found in a version stays true of that *)
(* version; an update names the version that it has read, where the row    *)
(* was there; and the grant of a code is judged once, at its issue, and is *)
(* then only narrowed.                                                     *)
(***************************************************************************)
EXTENDS Registrations, TLAPS, SequenceTheorems

-----------------------------------------------------------------------------
(* The inductive invariant. *)

Requests == {Idle} \cup Authorizing \cup Granting \cup Redirected \cup Bearing

\* The registration in version i of the log l has the URI.
Registered(uri, l, i) ==
  l[i]["client"] # None /\ ValidateRedirectURI(l[i]["client"], uri)

\* What an update under way has read of the log l.
EditFits(e, l) ==
  /\ e.read \in 1 .. Len(l)
  /\ l[e.read][e.id] # None
  /\ e.id = "client" => e.form \in ClientForm
  /\ e.id = "user" => e.form \in UserForm

Within(grant) == grant.fits /\ grant.scope \subseteq grant.asked

Tellable(grant) == grant.asked \cup Claims(grant.asked)

\* What a request under way has seen of the first n versions of the log l.
RequestFits(r, l, n) ==
  /\ r.op \in {"authorize", "issue", "deny"} => r.from \in 1 .. n
  /\ r.op = "authorize" => r.query.uri \in Uri /\ Registered(r.query.uri, l, r.from)
  /\ r.op = "redirect" => r.seen \in 1 .. n /\ Registered(r.uri, l, r.seen)
  /\ r.op \in {"code", "answer", "refresh", "rotate", "bearer"} => Within(r.grant)
  /\ r.op = "bearer" => r.told \subseteq Tellable(r.grant)

EditsFit == \A a \in Admin : edit[a] # NoEdit => EditFits(edit[a], log)

RequestsFit == \A w \in Worker : RequestFits(req[w], log, shown)

RowsWithin == \A k \in codes \cup tokens : Within(k.grant)

IInv == TypeOK /\ EditsFit /\ RequestsFit /\ RowsWithin

-----------------------------------------------------------------------------
(* The types of requests, updates and rows. *)

\* The step of a request says what record it is.
LEMMA RequestKinds ==
  ASSUME NEW r \in Requests
  PROVE  /\ r = Idle <=> r.op = "idle"
         /\ r.op \in {"authorize", "issue", "deny"} => r \in Authorizing
         /\ r.op \in {"code", "answer", "refresh", "rotate"} => r \in Granting
         /\ r.op = "redirect" => r \in Redirected
         /\ r.op = "bearer" => r \in Bearing
<1>1. CASE r = Idle
  BY <1>1 DEF Idle
<1>2. CASE r \in Authorizing
  BY <1>2 DEF Authorizing, Idle
<1>3. CASE r \in Granting
  BY <1>3 DEF Granting, Idle
<1>4. CASE r \in Redirected
  BY <1>4 DEF Redirected, Idle
<1>5. CASE r \in Bearing
  BY <1>5 DEF Bearing, Idle
<1> QED
  BY <1>1, <1>2, <1>3, <1>4, <1>5 DEF Requests

LEMMA IdleFits ==
  ASSUME NEW l, NEW n
  PROVE  Idle \in Requests /\ RequestFits(Idle, l, n)
BY DEF Requests, Idle, RequestFits

LEMMA EditKinds ==
  ASSUME NEW e \in Edit \cup {NoEdit}, e # NoEdit
  PROVE  /\ e \in Edit /\ e.id \in {"client", "user"}
         /\ e.secret \in Secret \cup {NoSecret}
BY DEF Edit

LEMMA RowTypes ==
  /\ None \notin ClientRow /\ None \notin UserRow
  /\ \A f \in Form : Public(f) \in ClientRow
  /\ \A f \in Form, s \in Secret : Confidential(f, s) \in ClientRow
  /\ \A p \in UserForm, s \in Secret : NewUser(p, s) \in UserRow
BY RegistrationsAssumption DEF ClientRow, UserRow, Public, Confidential, NewUser

LEMMA LogTypes ==
  ASSUME TypeOK, NEW i \in 1 .. Len(log)
  PROVE  /\ log[i] \in Tables
         /\ log[i]["client"] \in ClientRow \cup {None}
         /\ log[i]["user"] \in UserRow \cup {None}
<1>1. log[i] \in Tables
  BY ElementOfSeq DEF TypeOK
<1> QED
  BY <1>1 DEF Tables

LEMMA Bounds ==
  ASSUME TypeOK
  PROVE  /\ Len(log) \in Nat /\ Len(log) >= 1 /\ Len(log) <= MaxVersions
         /\ shown \in Nat /\ shown >= 1 /\ shown <= Len(log)
         /\ MaxVersions \in Nat /\ MaxSerial \in Nat
         /\ shown \in 1 .. Len(log) /\ shown \in 1 .. MaxVersions
         /\ Len(log) \in 1 .. Len(log)
<1>1. MaxVersions \in Nat /\ MaxSerial \in Nat
  BY RegistrationsAssumption
<1>2. Len(log) \in 1 .. MaxVersions /\ shown \in 1 .. Len(log)
  BY DEF TypeOK
<1> QED
  BY <1>1, <1>2

\* What an update makes of the row that it has read is a row.
LEMMA AfterTypes ==
  ASSUME TypeOK, EditsFit, NEW a \in Admin, edit[a] # NoEdit,
         NEW existing, existing = log[edit[a].read][edit[a].id]
  PROVE  /\ edit[a].id = "client" =>
              ClientAfter(edit[a].form, edit[a].secret, existing) \in ClientRow
         /\ edit[a].id = "user" =>
              UserAfter(edit[a].form, edit[a].secret, existing) \in UserRow
<1>1. EditFits(edit[a], log)
  BY DEF EditsFit
<1>2. edit[a].secret \in Secret \cup {NoSecret}
  BY EditKinds DEF TypeOK
<1>3. /\ log[edit[a].read]["client"] \in ClientRow \cup {None}
      /\ log[edit[a].read]["user"] \in UserRow \cup {None}
      /\ existing # None
  BY <1>1, LogTypes DEF EditFits
<1>4. ASSUME edit[a].id = "client"
      PROVE  ClientAfter(edit[a].form, edit[a].secret, existing) \in ClientRow
  <2>1. edit[a].form \in Form /\ existing \in ClientRow
    BY <1>1, <1>3, <1>4, RegistrationsAssumption DEF EditFits
  <2>2. existing.secret \in Secret \cup {NoSecret}
    BY <2>1 DEF ClientRow
  <2> QED
    BY <1>2, <2>1, <2>2, RowTypes DEF ClientAfter, IsConfidential
<1>5. ASSUME edit[a].id = "user"
      PROVE  UserAfter(edit[a].form, edit[a].secret, existing) \in UserRow
  <2>1. edit[a].form \in UserForm /\ existing \in UserRow
    BY <1>1, <1>3, <1>5 DEF EditFits
  <2>2. existing.secret \in Secret
    BY <2>1 DEF UserRow
  <2> QED
    BY <1>2, <2>1, <2>2, RowTypes DEF UserAfter
<1> QED
  BY <1>4, <1>5

-----------------------------------------------------------------------------
(* The log. *)

\* The log only grows.
Extends(l, m) ==
  /\ Len(l) <= Len(m)
  /\ \A i \in 1 .. Len(l) : m[i] = l[i]

LEMMA WriteLog ==
  ASSUME TypeOK, NEW id \in {"client", "user"}, NEW row, Write(id, row),
         id = "client" => row \in ClientRow \cup {None},
         id = "user" => row \in UserRow \cup {None}
  PROVE  /\ log' \in Seq(Tables) /\ Len(log') \in 1 .. MaxVersions
         /\ Extends(log, log')
         /\ log'[Len(log')][id] = row
<1> DEFINE last == log[Len(log)]
           new  == [last EXCEPT ![id] = row]
<1>1. last \in Tables
  BY Bounds, LogTypes
<1>2. new \in Tables /\ new[id] = row
  BY <1>1 DEF Tables
<1>3. CASE row = Stored(id)
  <2>1. log' = log
    BY <1>3 DEF Write
  <2> QED
    BY <1>3, <2>1, Bounds DEF TypeOK, Extends, Stored
<1>4. CASE row # Stored(id)
  <2>1. log' = Append(log, new) /\ Len(log) < MaxVersions
    BY <1>4 DEF Write
  <2> HIDE DEF new
  <2>2. /\ log' \in Seq(Tables) /\ Len(log') = Len(log) + 1
        /\ \A i \in 1 .. Len(log) : log'[i] = log[i]
        /\ log'[Len(log) + 1] = new
    BY <1>2, <2>1, AppendProperties DEF TypeOK
  <2>3. Len(log') \in 1 .. MaxVersions /\ Len(log) <= Len(log')
    BY <2>1, <2>2, Bounds
  <2> QED
    BY <1>2, <2>2, <2>3 DEF Extends
<1> QED
  BY <1>3, <1>4

\* What was seen in a version stays true of it.
LEMMA FitsLater ==
  ASSUME NEW l, NEW m, Len(l) \in Nat, Len(m) \in Nat, Extends(l, m)
  PROVE  /\ \A e : EditFits(e, l) => EditFits(e, m)
         /\ \A r, n, k : n \in 1 .. Len(l) /\ k \in Nat /\ n <= k /\ RequestFits(r, l, n) =>
                           RequestFits(r, m, k)
<1>1. \A i \in 1 .. Len(l) : i \in 1 .. Len(m) /\ m[i] = l[i]
  BY DEF Extends
<1>2. \A e : EditFits(e, l) => EditFits(e, m)
  BY <1>1 DEF EditFits
<1>3. ASSUME NEW r, NEW n \in 1 .. Len(l), NEW k \in Nat, n <= k, RequestFits(r, l, n)
      PROVE  RequestFits(r, m, k)
  <2>1. \A i \in 1 .. n : i \in 1 .. k /\ i \in 1 .. Len(l)
    BY <1>3
  <2>2. \A uri : \A i \in 1 .. n : Registered(uri, l, i) => Registered(uri, m, i)
    BY <1>1, <2>1 DEF Registered
  <2> QED
    BY <1>3, <2>1, <2>2 DEF RequestFits
<1> QED
  BY <1>2, <1>3

-----------------------------------------------------------------------------
(* The invariant is inductive. *)

LEMMA InitInvariant == Init => IInv
<1> SUFFICES ASSUME Init PROVE IInv
  OBVIOUS
<1>1. PICK f \in ClientForm, p \in UserForm, s \in Secret :
        log = <<[client |-> Public(f), user |-> NewUser(p, s)]>>
  BY DEF Init
<1>2. [client |-> Public(f), user |-> NewUser(p, s)] \in Tables
  BY RowTypes, RegistrationsAssumption DEF Tables
<1>3. log \in Seq(Tables) /\ Len(log) = 1
  BY <1>1, <1>2
<1>4. Len(log) \in 1 .. MaxVersions /\ shown \in 1 .. Len(log)
  BY <1>3, RegistrationsAssumption DEF Init
<1>5. TypeOK
  <2>1. edit \in [Admin -> Edit \cup {NoEdit}]
    BY DEF Init
  <2>2. req \in [Worker -> {Idle} \cup Authorizing \cup Granting \cup Redirected \cup Bearing]
    BY DEF Init
  <2>3. serial \in 0 .. MaxSerial
    BY RegistrationsAssumption DEF Init
  <2>4. session \in BOOLEAN /\ codes \subseteq Code /\ tokens \subseteq Token
    BY DEF Init
  <2> QED
    BY <1>3, <1>4, <2>1, <2>2, <2>3, <2>4 DEF TypeOK
<1>6. EditsFit
  BY DEF Init, EditsFit
<1>7. RequestsFit
  BY IdleFits DEF Init, RequestsFit
<1> QED
  BY <1>5, <1>6, <1>7 DEF Init, IInv, RowsWithin

\* A commit of the admin API, or its replay: the requests are left alone.
LEMMA LogStep ==
  ASSUME IInv, log' \in Seq(Tables), Len(log') \in 1 .. MaxVersions,
         Extends(log, log'), shown' \in 1 .. Len(log'), shown <= shown',
         edit' \in [Admin -> Edit \cup {NoEdit}],
         \A a \in Admin : edit'[a] \in {edit[a], NoEdit} \/ EditFits(edit'[a], log),
         codes' \subseteq codes, tokens' \subseteq tokens,
         UNCHANGED <<req, session, serial>>
  PROVE  IInv'
<1>1. Len(log) \in Nat /\ Len(log') \in Nat /\ shown' \in Nat /\ shown \in 1 .. Len(log)
  BY Bounds, RegistrationsAssumption DEF IInv
<1>2. TypeOK'
  BY DEF IInv, TypeOK
<1>3. EditsFit'
  <2> SUFFICES ASSUME NEW a \in Admin, edit'[a] # NoEdit
               PROVE  EditFits(edit'[a], log')
    BY DEF EditsFit
  <2>1. EditFits(edit'[a], log)
    BY DEF IInv, EditsFit
  <2> QED
    BY <1>1, <2>1, FitsLater
<1>4. RequestsFit'
  <2> SUFFICES ASSUME NEW w \in Worker
               PROVE  RequestFits(req[w], log', shown')
    BY DEF RequestsFit
  <2>1. RequestFits(req[w], log, shown)
    BY DEF IInv, RequestsFit
  <2> QED
    BY <1>1, <2>1, FitsLater
<1>5. RowsWithin'
  BY DEF IInv, RowsWithin
<1> QED
  BY <1>2, <1>3, <1>4, <1>5 DEF IInv

\* A step of one request: the registrations and the updates are left alone.
LEMMA RequestStep ==
  ASSUME IInv, NEW w \in Worker, NEW r \in Requests, Become(w, r),
         RequestFits(r, log, shown),
         session' \in BOOLEAN, codes' \subseteq Code, tokens' \subseteq Token,
         serial' \in 0 .. MaxSerial, RowsWithin',
         UNCHANGED <<log, shown, edit>>
  PROVE  IInv'
<1>1. req \in [Worker -> Requests] /\ req' = [req EXCEPT ![w] = r]
  BY DEF IInv, TypeOK, Requests, Become
<1>2. req' \in [Worker -> Requests]
  BY <1>1
<1>3. TypeOK'
  BY <1>2 DEF IInv, TypeOK, Requests
<1>4. RequestsFit'
  <2> SUFFICES ASSUME NEW v \in Worker PROVE RequestFits(req'[v], log, shown)
    BY DEF RequestsFit
  <2> QED
    BY <1>1 DEF IInv, RequestsFit
<1>5. EditsFit'
  BY DEF IInv, EditsFit
<1> QED
  BY <1>3, <1>4, <1>5 DEF IInv

LEMMA OnlyStep ==
  ASSUME IInv, NEW w \in Worker, NEW r \in Requests, RequestFits(r, log, shown),
         Only(w, r)
  PROVE  IInv'
<1>1. Become(w, r) /\ UNCHANGED <<log, shown, edit, session, codes, tokens, serial>>
  BY DEF Only
<1>2. RowsWithin' /\ session' \in BOOLEAN /\ codes' \subseteq Code /\ tokens' \subseteq Token
      /\ serial' \in 0 .. MaxSerial
  BY <1>1 DEF IInv, TypeOK, RowsWithin
<1> QED
  BY <1>1, <1>2, RequestStep

LEMMA RequestOf ==
  ASSUME IInv, NEW w \in Worker
  PROVE  req[w] \in Requests /\ RequestFits(req[w], log, shown)
BY DEF IInv, TypeOK, RequestsFit, Requests

-----------------------------------------------------------------------------
(* The admin API. *)

LEMMA WriteStep ==
  ASSUME IInv, NEW id \in {"client", "user"}, NEW row, Write(id, row),
         id = "client" => row \in ClientRow \cup {None},
         id = "user" => row \in UserRow \cup {None},
         edit' \in [Admin -> Edit \cup {NoEdit}],
         \A a \in Admin : edit'[a] \in {edit[a], NoEdit},
         codes' \subseteq codes, tokens' \subseteq tokens,
         UNCHANGED <<shown, req, session, serial>>
  PROVE  IInv'
<1>1. /\ log' \in Seq(Tables) /\ Len(log') \in 1 .. MaxVersions
      /\ Extends(log, log')
  BY WriteLog DEF IInv
<1>2. shown' \in 1 .. Len(log') /\ shown <= shown'
  <2>1. Len(log) <= Len(log') /\ Len(log') \in Nat
    BY <1>1, RegistrationsAssumption DEF Extends
  <2> QED
    BY <2>1, Bounds DEF IInv
<1> QED
  BY <1>1, <1>2, LogStep

LEMMA PostInvariant ==
  ASSUME IInv, NEW s \in Secret \cup {NoSecret}
  PROVE  /\ \A f \in ClientForm : PostClient(f, s) => IInv'
         /\ \A p \in UserForm : PostUser(p, s) => IInv'
<1>1. ASSUME UNCHANGED edit
      PROVE  /\ edit' \in [Admin -> Edit \cup {NoEdit}]
             /\ \A a \in Admin : edit'[a] \in {edit[a], NoEdit}
  BY <1>1 DEF IInv, TypeOK
<1>2. ASSUME NEW f \in ClientForm, PostClient(f, s) PROVE IInv'
  <2> DEFINE row == IF s = NoSecret THEN Public(f) ELSE Confidential(f, s)
  <2>1. row \in ClientRow
    BY RowTypes, RegistrationsAssumption
  <2> HIDE DEF row
  <2>2. Write("client", row) /\ UNCHANGED <<shown, edit, req, session, codes, tokens, serial>>
    BY <1>2 DEF PostClient, row
  <2> QED
    BY <1>1, <2>1, <2>2, WriteStep
<1>3. ASSUME NEW p \in UserForm, PostUser(p, s) PROVE IInv'
  <2>1. NewUser(p, s) \in UserRow
    BY <1>3, RowTypes DEF PostUser
  <2>2. Write("user", NewUser(p, s))
        /\ UNCHANGED <<shown, edit, req, session, codes, tokens, serial>>
    BY <1>3 DEF PostUser
  <2> QED
    BY <1>1, <2>1, <2>2, WriteStep
<1> QED
  BY <1>2, <1>3

LEMMA BeginEditInvariant ==
  ASSUME IInv, NEW a \in Admin, NEW id \in {"client", "user"},
         NEW s \in Secret \cup {NoSecret}, NEW f,
         id = "client" => f \in ClientForm, id = "user" => f \in UserForm,
         BeginEdit(a, id, f, s)
  PROVE  IInv'
<1> DEFINE e == [id |-> id, form |-> f, secret |-> s, read |-> shown]
<1>1. /\ Shown(id) # None /\ edit' = [edit EXCEPT ![a] = e]
      /\ UNCHANGED <<log, shown, req, session, codes, tokens, serial>>
  BY DEF BeginEdit
<1>2. e \in Edit
  BY Bounds DEF Edit, IInv
<1>3. EditFits(e, log)
  BY <1>1, Bounds DEF EditFits, IInv, Shown
<1> HIDE DEF e
<1>4. edit' \in [Admin -> Edit \cup {NoEdit}]
  BY <1>1, <1>2 DEF IInv, TypeOK
<1>5. \A b \in Admin : edit'[b] \in {edit[b], NoEdit} \/ EditFits(edit'[b], log)
  BY <1>1, <1>3 DEF IInv, TypeOK
<1>6. /\ log' \in Seq(Tables) /\ Len(log') \in 1 .. MaxVersions
      /\ Extends(log, log') /\ shown' \in 1 .. Len(log') /\ shown <= shown'
  BY <1>1, Bounds DEF IInv, TypeOK, Extends
<1> QED
  BY <1>1, <1>4, <1>5, <1>6, LogStep

\* The row that SaveEdit writes.
AfterEdit(a) ==
  LET existing == log[edit[a].read][edit[a].id]
  IN  IF edit[a].id = "client" THEN ClientAfter(edit[a].form, edit[a].secret, existing)
                               ELSE UserAfter(edit[a].form, edit[a].secret, existing)

LEMMA SaveEditWrites ==
  ASSUME IInv, NEW a \in Admin, SaveEdit(a)
  PROVE  /\ edit[a] # NoEdit /\ edit[a].id \in {"client", "user"}
         /\ Write(edit[a].id, AfterEdit(a))
         /\ edit[a].id = "client" => AfterEdit(a) \in ClientRow
         /\ edit[a].id = "user" => AfterEdit(a) \in UserRow
<1>1. edit[a] # NoEdit /\ Write(edit[a].id, AfterEdit(a))
  BY DEF SaveEdit, AfterEdit
<1>2. edit[a].id \in {"client", "user"}
  BY <1>1, EditKinds DEF IInv, TypeOK
<1>3. /\ edit[a].id = "client" => AfterEdit(a) \in ClientRow
      /\ edit[a].id = "user" => AfterEdit(a) \in UserRow
  BY <1>1, AfterTypes DEF IInv, AfterEdit
<1> QED
  BY <1>1, <1>2, <1>3

LEMMA EndEditInvariant ==
  ASSUME IInv, NEW a \in Admin, SaveEdit(a) \/ FailEdit(a)
  PROVE  IInv'
<1>1. edit' = [edit EXCEPT ![a] = NoEdit] /\ UNCHANGED <<shown, req, session, codes, tokens, serial>>
  BY DEF SaveEdit, FailEdit
<1>2. /\ edit' \in [Admin -> Edit \cup {NoEdit}]
      /\ \A b \in Admin : edit'[b] \in {edit[b], NoEdit}
  BY <1>1 DEF IInv, TypeOK
<1>3. CASE SaveEdit(a)
  BY <1>1, <1>2, <1>3, SaveEditWrites, WriteStep
<1>4. CASE FailEdit(a)
  <2>1. UNCHANGED log
    BY <1>4 DEF FailEdit
  <2>2. /\ log' \in Seq(Tables) /\ Len(log') \in 1 .. MaxVersions
        /\ Extends(log, log') /\ shown' \in 1 .. Len(log') /\ shown <= shown'
    BY <1>1, <2>1, Bounds DEF IInv, TypeOK, Extends
  <2> QED
    BY <1>1, <1>2, <2>2, LogStep
<1> QED
  BY <1>3, <1>4

LEMMA DeleteInvariant ==
  ASSUME IInv, NEW id \in {"client", "user"}, DeleteAccount(id)
  PROVE  IInv'
<1>1. /\ Write(id, None) /\ codes' = {} /\ tokens' = {}
      /\ UNCHANGED <<shown, edit, req, session, serial>>
  BY DEF DeleteAccount
<1>2. /\ edit' \in [Admin -> Edit \cup {NoEdit}]
      /\ \A b \in Admin : edit'[b] \in {edit[b], NoEdit}
  BY <1>1 DEF IInv, TypeOK
<1> QED
  BY <1>1, <1>2, WriteStep

LEMMA ReplayInvariant == IInv /\ Replay => IInv'
<1> SUFFICES ASSUME IInv, Replay PROVE IInv'
  OBVIOUS
<1>1. /\ shown < Len(log) /\ shown' = shown + 1
      /\ UNCHANGED <<log, edit, req, session, codes, tokens, serial>>
  BY DEF Replay
<1>2. /\ edit' \in [Admin -> Edit \cup {NoEdit}]
      /\ \A b \in Admin : edit'[b] \in {edit[b], NoEdit}
  BY <1>1 DEF IInv, TypeOK
<1>3. shown' \in 1 .. Len(log') /\ shown <= shown'
  BY <1>1, Bounds DEF IInv
<1>4. /\ log' \in Seq(Tables) /\ Len(log') \in 1 .. MaxVersions /\ Extends(log, log')
  BY <1>1, Bounds DEF IInv, TypeOK, Extends
<1> QED
  BY <1>1, <1>2, <1>3, <1>4, LogStep

-----------------------------------------------------------------------------
(* Requests of a browser. *)

\* Queries are validated against the registration that is shown.
LEMMA Verified ==
  ASSUME IInv, NEW q \in Query, ~ Unverified(Shown("client"), q.uri)
  PROVE  q.uri \in Uri /\ Registered(q.uri, log, shown)
<1>1. q.uri \in Uri \cup {BadUri}
  BY DEF Query
<1> QED
  BY <1>1 DEF Unverified, NewRedirectURI, Registered, Shown

LEMMA RedirectFits ==
  ASSUME IInv, NEW uri \in Uri, NEW i \in 1 .. shown, Registered(uri, log, i)
  PROVE  /\ [op |-> "redirect", uri |-> uri, seen |-> i] \in Requests
         /\ RequestFits([op |-> "redirect", uri |-> uri, seen |-> i], log, shown)
<1>1. i \in 1 .. MaxVersions
  BY Bounds DEF IInv
<1> QED
  BY <1>1 DEF Requests, Redirected, RequestFits

LEMMA WriteErrorInvariant ==
  ASSUME IInv, NEW w \in Worker, NEW q \in Query, WriteError(w, q)
  PROVE  IInv'
<1>1. CASE Unverified(Shown("client"), q.uri)
  BY <1>1, IdleFits, OnlyStep DEF WriteError
<1>2. CASE ~ Unverified(Shown("client"), q.uri)
  <2>1. shown \in 1 .. shown
    BY Bounds DEF IInv
  <2> QED
    BY <1>2, <2>1, Verified, RedirectFits, OnlyStep DEF WriteError
<1> QED
  BY <1>1, <1>2

LEMMA AuthorizeFits ==
  ASSUME IInv, NEW q \in Query, NEW op \in {"authorize", "issue", "deny"},
         op = "authorize" => q.uri \in Uri /\ Registered(q.uri, log, shown)
  PROVE  /\ [op |-> op, query |-> q, from |-> shown] \in Requests
         /\ RequestFits([op |-> op, query |-> q, from |-> shown], log, shown)
<1>1. shown \in 1 .. MaxVersions /\ shown \in 1 .. shown
  BY Bounds DEF IInv
<1>2. [op |-> op, query |-> q, from |-> shown] \in Requests
  BY <1>1 DEF Requests, Authorizing
<1> QED
  BY <1>1, <1>2 DEF RequestFits

LEMMA BeginAuthorizeInvariant ==
  ASSUME IInv, NEW w \in Worker, NEW q \in Query, BeginAuthorize(w, q)
  PROVE  IInv'
<1>1. CASE Valid(Shown("client"), q)
  <2>1. q.uri \in Uri /\ Registered(q.uri, log, shown)
    BY <1>1, Verified DEF Valid
  <2> QED
    BY <1>1, <2>1, AuthorizeFits, OnlyStep DEF BeginAuthorize
<1>2. CASE ~ Valid(Shown("client"), q)
  BY <1>2, WriteErrorInvariant DEF BeginAuthorize
<1> QED
  BY <1>1, <1>2

LEMMA BeginDenyInvariant ==
  ASSUME IInv, NEW w \in Worker, NEW q \in Query, BeginDeny(w, q)
  PROVE  IInv'
BY AuthorizeFits, OnlyStep DEF BeginDeny

LEMMA RefuseInvariant ==
  ASSUME IInv, NEW w \in Worker, Refuse(w)
  PROVE  IInv'
<1>1. /\ req[w].op = "authorize"
      /\ Only(w, [op |-> "redirect", uri |-> req[w].query.uri, seen |-> req[w].from])
  BY DEF Refuse
<1>2. /\ req[w].from \in 1 .. shown /\ req[w].query.uri \in Uri
      /\ Registered(req[w].query.uri, log, req[w].from)
  BY <1>1, RequestOf DEF RequestFits
<1> QED
  BY <1>1, <1>2, RedirectFits, OnlyStep

LEMMA FindOwnerInvariant ==
  ASSUME IInv, NEW w \in Worker, FindOwner(w)
  PROVE  IInv'
<1>1. /\ req[w].op = "authorize"
      /\ Only(w, [op |-> "issue", query |-> req[w].query, from |-> shown])
  BY DEF FindOwner
<1>2. req[w].query \in Query
  BY <1>1, RequestOf, RequestKinds DEF Authorizing
<1> QED
  BY <1>1, <1>2, AuthorizeFits, OnlyStep

\* The second validation is against a version that the code's grant names.
LEMMA SaveCodeInvariant ==
  ASSUME IInv, NEW w \in Worker, req[w].op = "issue", Valid(Shown("client"), req[w].query),
         SaveCode(w)
  PROVE  IInv'
<1> DEFINE q == req[w].query
           grant == [scope |-> q.scope, asked |-> q.scope, fits |-> Allowed(q, req[w].from)]
           r == [op |-> "redirect", uri |-> q.uri, seen |-> shown]
<1>1. req[w] \in Authorizing /\ req[w].from \in 1 .. shown
  BY RequestOf, RequestKinds DEF RequestFits
<1>2. q \in Query /\ q.scope \in SUBSET Scope
  BY <1>1, RegistrationsAssumption DEF Authorizing, Query
<1>3. Allowed(q, req[w].from)
  <2>1. shown \in req[w].from .. shown
    BY <1>1, Bounds DEF IInv
  <2>2. /\ log[shown]["client"] # None
        /\ ValidateRedirectURI(log[shown]["client"], q.uri)
        /\ AllowsScope(log[shown]["client"], q.scope)
    BY DEF Valid, Unverified, Shown
  <2> QED
    BY <2>1, <2>2 DEF Allowed
<1>4. grant \in Content /\ Within(grant)
  BY <1>2, <1>3 DEF Content, Within
<1>5. r \in Requests /\ RequestFits(r, log, shown)
  <2>1. q.uri \in Uri /\ Registered(q.uri, log, shown)
    BY <1>2, Verified DEF Valid
  <2>2. shown \in 1 .. shown
    BY Bounds DEF IInv
  <2> QED
    BY <2>1, <2>2, RedirectFits
<1> HIDE DEF grant
<1>6. /\ serial < MaxSerial /\ serial' = serial + 1
      /\ codes' = codes \cup {[id |-> serial + 1, grant |-> grant]}
      /\ Become(w, r) /\ UNCHANGED <<log, shown, edit, session, tokens>>
  BY DEF SaveCode, grant
<1> HIDE DEF q, r
<1>7. serial' \in 0 .. MaxSerial /\ serial + 1 \in 1 .. MaxSerial
  BY <1>6, RegistrationsAssumption DEF IInv, TypeOK
<1>8. codes' \subseteq Code
  BY <1>4, <1>6, <1>7 DEF IInv, TypeOK, Code
<1>9. RowsWithin'
  BY <1>4, <1>6 DEF IInv, RowsWithin
<1>10. tokens' \subseteq Token /\ session' \in BOOLEAN
  BY <1>6 DEF IInv, TypeOK
<1> QED
  BY <1>5, <1>6, <1>7, <1>8, <1>9, <1>10, RequestStep

LEMMA IssueInvariant ==
  ASSUME IInv, NEW w \in Worker, Issue(w)
  PROVE  IInv'
<1>1. req[w].op = "issue" /\ req[w].query \in Query
  BY RequestOf, RequestKinds DEF Issue, Authorizing
<1>2. CASE Valid(Shown("client"), req[w].query)
  BY <1>1, <1>2, SaveCodeInvariant DEF Issue
<1>3. CASE ~ Valid(Shown("client"), req[w].query)
  BY <1>1, <1>3, WriteErrorInvariant DEF Issue
<1> QED
  BY <1>2, <1>3

LEMMA DenyInvariant ==
  ASSUME IInv, NEW w \in Worker, Deny(w)
  PROVE  IInv'
<1>1. req[w].query \in Query
  BY RequestOf, RequestKinds DEF Deny, Authorizing
<1> QED
  BY <1>1, WriteErrorInvariant DEF Deny

LEMMA SessionInvariant ==
  ASSUME IInv, session' \in BOOLEAN, UNCHANGED <<log, shown, edit, req, codes, tokens, serial>>
  PROVE  IInv'
BY DEF IInv, TypeOK, EditsFit, RequestsFit, RowsWithin

-----------------------------------------------------------------------------
(* Requests of the client and of its resource servers. *)

\* A narrower scope lets out less.
LEMMA ClaimsNarrow ==
  ASSUME NEW s \in SUBSET Scope, NEW t, s \subseteq t
  PROVE  Claims(s) \subseteq Claims(t) /\ Claims(s) \subseteq Scope \cup {"sub", "name"}
BY DEF Claims, Scope

LEMMA PresentInvariant ==
  ASSUME IInv, NEW w \in Worker, NEW op \in {"code", "refresh"}, NEW g, NEW s,
         NEW k \in codes \cup tokens, k.id \in 1 .. MaxSerial,
         NEW family \in 1 .. MaxSerial, Present(w, op, g, k, family, s)
  PROVE  IInv'
<1> DEFINE r == [op |-> op, grant |-> k.grant, id |-> k.id, family |-> family,
                 seen |-> shown]
<1>1. k.grant \in Content /\ Within(k.grant)
  BY DEF IInv, TypeOK, RowsWithin, Code, Token
<1>2. r \in Requests
  BY <1>1, Bounds DEF IInv, Requests, Granting
<1>3. RequestFits(r, log, shown)
  BY <1>1 DEF RequestFits
<1>4. Only(w, r)
  BY DEF Present
<1> HIDE DEF r
<1> QED
  BY <1>2, <1>3, <1>4, OnlyStep

\* What a request has of a code or a token.
LEMMA GrantOf ==
  ASSUME IInv, NEW w \in Worker,
         req[w].op \in {"code", "answer", "refresh", "rotate", "bearer"}
  PROVE  /\ req[w].grant \in Content /\ Within(req[w].grant)
         /\ req[w].op # "bearer" => req[w] \in Granting
BY RequestOf, RequestKinds DEF RequestFits, Granting, Bearing

LEMMA RedeemInvariant ==
  ASSUME IInv, NEW w \in Worker, Redeem(w)
  PROVE  IInv'
<1> DEFINE r == [req[w] EXCEPT !.op = "answer"]
<1>1. req[w].op = "code" /\ Become(w, r) /\ codes' \subseteq codes
      /\ UNCHANGED <<log, shown, edit, session, tokens, serial>>
  BY DEF Redeem
<1>2. req[w] \in Granting /\ Within(req[w].grant)
  BY <1>1, GrantOf
<1>3. r \in Requests /\ RequestFits(r, log, shown)
  <2>1. r \in Granting /\ r.op = "answer" /\ r.grant = req[w].grant
    BY <1>2 DEF Granting
  <2> HIDE DEF r
  <2> QED
    BY <1>2, <2>1 DEF Requests, RequestFits
<1> HIDE DEF r
<1>4. /\ codes' \subseteq Code /\ tokens' \subseteq Token /\ session' \in BOOLEAN
      /\ serial' \in 0 .. MaxSerial /\ RowsWithin'
  BY <1>1 DEF IInv, TypeOK, RowsWithin
<1> QED
  BY <1>1, <1>3, <1>4, RequestStep

\* What Tell lets the bearer know.
LEMMA BearerFits ==
  ASSUME NEW grant \in Content, Within(grant), NEW l, NEW n,
         NEW what \in {Claims(grant.scope), grant.scope}
  PROVE  /\ [op |-> "bearer", grant |-> grant, told |-> what] \in Requests
         /\ RequestFits([op |-> "bearer", grant |-> grant, told |-> what], l, n)
<1>1. grant.scope \in SUBSET Scope /\ grant.scope \subseteq grant.asked
  BY DEF Content, Within
<1>2. what \subseteq Scope \cup {"sub", "name"} /\ what \subseteq Tellable(grant)
  BY <1>1, ClaimsNarrow DEF Tellable
<1>3. [op |-> "bearer", grant |-> grant, told |-> what] \in Bearing
  BY <1>2 DEF Bearing
<1> QED
  BY <1>2, <1>3 DEF Requests, RequestFits

LEMMA TokenFits ==
  ASSUME IInv, NEW w \in Worker, req[w].op \in {"answer", "rotate"}, serial < MaxSerial
  PROVE  /\ serial + 1 \in 0 .. MaxSerial
         /\ NewToken(w, serial + 1) \in Token /\ Within(NewToken(w, serial + 1).grant)
<1>1. req[w] \in Granting /\ Within(req[w].grant)
  BY GrantOf
<1>2. serial + 1 \in 1 .. MaxSerial /\ serial + 1 \in 0 .. MaxSerial
  BY RegistrationsAssumption DEF IInv, TypeOK
<1> QED
  BY <1>1, <1>2 DEF NewToken, Token, Granting

\* A step that ends in an answer, with at most one new token beside it.
LEMMA TellStep ==
  ASSUME IInv, NEW w \in Worker,
         req[w].op \in {"answer", "rotate", "bearer"},
         NEW what \in {Claims(req[w].grant.scope), req[w].grant.scope}, Tell(w, what),
         serial' \in 0 .. MaxSerial, tokens' \subseteq Token,
         \A t \in tokens' : Within(t.grant),
         UNCHANGED <<log, shown, edit, session, codes>>
  PROVE  IInv'
<1> DEFINE r == [op |-> "bearer", grant |-> req[w].grant, told |-> what]
<1>1. r \in Requests /\ RequestFits(r, log, shown)
  BY GrantOf, BearerFits
<1>2. Become(w, r)
  BY DEF Tell
<1> HIDE DEF r
<1>3. codes' \subseteq Code /\ session' \in BOOLEAN /\ RowsWithin'
  BY DEF IInv, TypeOK, RowsWithin
<1> QED
  BY <1>1, <1>2, <1>3, RequestStep

LEMMA AnswerInvariant ==
  ASSUME IInv, NEW w \in Worker, Answer(w)
  PROVE  IInv'
<1>1. /\ req[w].op = "answer" /\ Tell(w, Claims(req[w].grant.scope))
      /\ UNCHANGED <<log, shown, edit, session, codes>>
  BY DEF Answer
<1>2. \/ UNCHANGED <<serial, tokens>>
      \/ /\ serial < MaxSerial /\ serial' = serial + 1
         /\ tokens' = tokens \cup {NewToken(w, serial')}
  BY DEF Answer
<1>3. /\ serial' \in 0 .. MaxSerial /\ tokens' \subseteq Token
      /\ \A t \in tokens' : Within(t.grant)
  BY <1>1, <1>2, TokenFits DEF IInv, TypeOK, RowsWithin
<1> QED
  BY <1>1, <1>3, TellStep

\* The scope of a refresh is a part of the scope of its token.
LEMMA RefreshInvariant ==
  ASSUME IInv, NEW w \in Worker, NEW asked \in Asked \cup {{}}, Refresh(w, asked)
  PROVE  IInv'
<1>1. PICK s \in Narrow(req[w].grant.scope, asked) :
        Only(w, [req[w] EXCEPT !.op = "rotate", !.grant.scope = s])
  BY DEF Refresh
<1> DEFINE r == [req[w] EXCEPT !.op = "rotate", !.grant.scope = s]
<1>2. req[w].op = "refresh" /\ req[w] \in Granting /\ Within(req[w].grant)
      /\ req[w].grant \in Content
  BY GrantOf DEF Refresh
<1>3. s \subseteq req[w].grant.scope
  BY <1>1 DEF Narrow
<1>4. r \in Granting /\ r.op = "rotate" /\ Within(r.grant)
  <2>1. [req[w].grant EXCEPT !.scope = s] \in Content /\ Within([req[w].grant EXCEPT !.scope = s])
    BY <1>2, <1>3 DEF Content, Within
  <2>2. r = [req[w] EXCEPT !.op = "rotate", !.grant = [req[w].grant EXCEPT !.scope = s]]
    BY <1>2 DEF Granting
  <2> QED
    BY <1>2, <2>1, <2>2 DEF Granting
<1> HIDE DEF r
<1>5. r \in Requests /\ RequestFits(r, log, shown)
  BY <1>4 DEF Requests, RequestFits
<1> QED
  BY <1>1, <1>5, OnlyStep DEF r

LEMMA RotateInvariant ==
  ASSUME IInv, NEW w \in Worker, Rotate(w)
  PROVE  IInv'
<1> DEFINE old == {t \in tokens : t.id = req[w].id}
<1>1. /\ req[w].op = "rotate" /\ serial < MaxSerial /\ serial' = serial + 1
      /\ UNCHANGED <<log, shown, edit, session, codes>>
  BY DEF Rotate
<1>2. /\ serial' \in 0 .. MaxSerial
      /\ NewToken(w, serial') \in Token /\ Within(NewToken(w, serial').grant)
  BY <1>1, TokenFits
<1>3. CASE old # {}
  <2>1. tokens' = (tokens \ old) \cup {NewToken(w, serial')} /\ Tell(w, Claims(req[w].grant.scope))
    BY <1>3 DEF Rotate
  <2>2. tokens' \subseteq Token /\ \A t \in tokens' : Within(t.grant)
    BY <1>2, <2>1 DEF IInv, TypeOK, RowsWithin
  <2> QED
    BY <1>1, <1>2, <2>1, <2>2, TellStep
<1>4. CASE old = {}
  <2>1. tokens' \subseteq tokens /\ Become(w, Idle)
    BY <1>4 DEF Rotate
  <2>2. /\ codes' \subseteq Code /\ tokens' \subseteq Token /\ session' \in BOOLEAN
        /\ RowsWithin'
    BY <1>1, <2>1 DEF IInv, TypeOK, RowsWithin
  <2> QED
    BY <1>1, <1>2, <2>1, <2>2, IdleFits, RequestStep
<1> QED
  BY <1>3, <1>4

LEMMA TellInvariant ==
  ASSUME IInv, NEW w \in Worker,
         UserInfo(w) \/ \E s \in Secret \cup {NoSecret} : Introspect(w, s)
  PROVE  IInv'
<1>1. /\ req[w].op = "bearer"
      /\ UNCHANGED <<log, shown, edit, session, codes, tokens, serial>>
  BY DEF UserInfo, Introspect
<1>2. PICK what \in {Claims(req[w].grant.scope), req[w].grant.scope} : Tell(w, what)
  BY DEF UserInfo, Introspect
<1>3. /\ serial' \in 0 .. MaxSerial /\ tokens' \subseteq Token
      /\ \A t \in tokens' : Within(t.grant)
  BY <1>1 DEF IInv, TypeOK, RowsWithin
<1> QED
  BY <1>1, <1>2, <1>3, TellStep

-----------------------------------------------------------------------------
(* Every step. *)

LEMMA AdministerInvariant ==
  ASSUME IInv, Administer
  PROVE  IInv'
<1>1. ASSUME NEW f \in ClientForm, NEW s \in Secret \cup {NoSecret}, NEW a \in Admin,
             PutClient(a, f, s)
      PROVE  IInv'
  BY <1>1, BeginEditInvariant DEF PutClient
<1>2. ASSUME NEW p \in UserForm, NEW s \in Secret \cup {NoSecret}, NEW a \in Admin,
             PutUser(a, p, s)
      PROVE  IInv'
  BY <1>2, BeginEditInvariant DEF PutUser
<1>3. CASE \E f \in ClientForm, s \in Secret \cup {NoSecret} :
             PostClient(f, s) \/ \E a \in Admin : PutClient(a, f, s)
  BY <1>1, <1>3, PostInvariant
<1>4. CASE \E p \in UserForm, s \in Secret \cup {NoSecret} :
             PostUser(p, s) \/ \E a \in Admin : PutUser(a, p, s)
  BY <1>2, <1>4, PostInvariant
<1>5. CASE \E a \in Admin : SaveEdit(a) \/ FailEdit(a)
  BY <1>5, EndEditInvariant
<1>6. CASE \E id \in {"client", "user"} : DeleteAccount(id)
  BY <1>6, DeleteInvariant
<1> QED
  BY <1>3, <1>4, <1>5, <1>6 DEF Administer

LEMMA ServeInvariant ==
  ASSUME IInv, NEW w \in Worker, Serve(w)
  PROVE  IInv'
<1>1. CASE \E q \in Query : BeginAuthorize(w, q) \/ BeginDeny(w, q)
  BY <1>1, BeginAuthorizeInvariant, BeginDenyInvariant
<1>2. CASE Refuse(w) \/ FindOwner(w) \/ Issue(w) \/ Deny(w)
  BY <1>2, RefuseInvariant, FindOwnerInvariant, IssueInvariant, DenyInvariant
<1>3. CASE \E s \in Secret \cup {NoSecret} : Login(w, s)
  BY <1>3, SessionInvariant DEF Login
<1>4. CASE \E s \in Secret \cup {NoSecret} : \E k \in codes : PresentCode(w, k, s)
  <2>1. PICK s \in Secret \cup {NoSecret}, k \in codes : PresentCode(w, k, s)
    BY <1>4
  <2>2. k.id \in 1 .. MaxSerial
    BY DEF IInv, TypeOK, Code
  <2> QED
    BY <2>1, <2>2, PresentInvariant DEF PresentCode
<1>5. CASE \E s \in Secret \cup {NoSecret} : \E t \in tokens : PresentToken(w, t, s)
  <2>1. PICK s \in Secret \cup {NoSecret}, t \in tokens : PresentToken(w, t, s)
    BY <1>5
  <2>2. t.id \in 1 .. MaxSerial /\ t.family \in 1 .. MaxSerial
    BY DEF IInv, TypeOK, Token
  <2> QED
    BY <2>1, <2>2, PresentInvariant DEF PresentToken
<1>6. CASE UserInfo(w) \/ \E s \in Secret \cup {NoSecret} : Introspect(w, s)
  BY <1>6, TellInvariant
<1>7. CASE Redeem(w) \/ Answer(w) \/ Rotate(w)
  BY <1>7, RedeemInvariant, AnswerInvariant, RotateInvariant
<1>8. CASE \E asked \in Asked \cup {{}} : Refresh(w, asked)
  BY <1>8, RefreshInvariant
<1>9. CASE End(w)
  BY <1>9, IdleFits, OnlyStep DEF End
<1> QED
  BY <1>1, <1>2, <1>3, <1>4, <1>5, <1>6, <1>7, <1>8, <1>9 DEF Serve

LEMMA NextInvariant == IInv /\ [Next]_vars => IInv'
<1> SUFFICES ASSUME IInv, [Next]_vars PROVE IInv'
  OBVIOUS
<1>1. CASE Administer
  BY <1>1, AdministerInvariant
<1>2. CASE Replay
  BY <1>2, ReplayInvariant
<1>3. CASE EndSession
  BY <1>3, SessionInvariant DEF EndSession
<1>4. CASE \E w \in Worker : Serve(w)
  BY <1>4, ServeInvariant
<1>5. CASE UNCHANGED vars
  BY <1>5, SessionInvariant DEF vars, IInv, TypeOK
<1> QED
  BY <1>1, <1>2, <1>3, <1>4, <1>5 DEF Next

\* The inductive invariant of the registrations and of what goes back to them
\* holds in every reachable state.
THEOREM Invariance == Spec => []IInv
<1>1. Init => IInv
  BY InitInvariant
<1>2. IInv /\ [Next]_vars => IInv'
  BY NextInvariant
<1> QED
  BY <1>1, <1>2, PTL DEF Spec

-----------------------------------------------------------------------------
(* The properties. *)

\* Every variable keeps its type; in particular a user never loses the password
\* to an update that leaves it blank.
THEOREM TypeCorrect == Spec => []TypeOK
<1>1. IInv => TypeOK
  BY DEF IInv
<1> QED
  BY <1>1, Invariance, PTL

\* No redirect of /authorize or /consent, with a code or with an error, goes
\* to a URI that was not registered in the version last validated against,
\* however the admin API changes the client and however late the reader is.
THEOREM RedirectsRegistered == Spec => []RedirectRegistered
<1>1. IInv => RedirectRegistered
  BY DEF IInv, RequestsFit, RequestFits, Registered, RedirectRegistered
<1> QED
  BY <1>1, Invariance, PTL

\* What comes of a code, through any number of exchanges, refreshes and changes
\* of the registration, stays within the scope that the code was issued with,
\* and so does what is told of the user.
THEOREM GrantsWithin == Spec => []GrantsStayWithin
<1>1. IInv => GrantsStayWithin
  BY DEF IInv, RowsWithin, RequestsFit, RequestFits, Within, Tellable, GrantsStayWithin
<1> QED
  BY <1>1, Invariance, PTL

-----------------------------------------------------------------------------
(* Blank secrets. *)

\* SaveEdit with a blank secret writes back the secret that it has read.
LEMMA BlankAfterEdit ==
  ASSUME IInv, NEW a \in Admin, SaveEdit(a), edit[a].secret = NoSecret
  PROVE  AfterEdit(a).secret = SecretOf(log[edit[a].read][edit[a].id])
<1> DEFINE existing == log[edit[a].read][edit[a].id]
<1>1. edit[a] # NoEdit /\ edit[a].id \in {"client", "user"}
  BY SaveEditWrites
<1>2. existing # None
  BY <1>1 DEF IInv, EditsFit, EditFits
<1>3. CASE edit[a].id = "client"
  <2>1. AfterEdit(a) = IF IsConfidential(existing)
                       THEN Confidential(edit[a].form, existing.secret)
                       ELSE Public(edit[a].form)
    BY <1>3 DEF AfterEdit, ClientAfter
  <2> QED
    BY <1>2, <2>1 DEF SecretOf, IsConfidential, Confidential, Public
<1>4. CASE edit[a].id = "user"
  <2>1. AfterEdit(a) = NewUser(edit[a].form, existing.secret)
    BY <1>4 DEF AfterEdit, UserAfter
  <2> QED
    BY <1>2, <2>1 DEF SecretOf, NewUser
<1> QED
  BY <1>1, <1>3, <1>4

LEMMA SaveKeepsSecret ==
  ASSUME IInv, NEW a \in Admin, SaveEdit(a), edit[a].secret = NoSecret, Undisturbed(a)
  PROVE  SecretOf(log'[Len(log')][edit[a].id]) = SecretOf(Stored(edit[a].id))
<1> DEFINE id  == edit[a].id
           row == AfterEdit(a)
<1>1. /\ id \in {"client", "user"} /\ Write(id, row) /\ edit[a] # NoEdit
      /\ id = "client" => row \in ClientRow
      /\ id = "user" => row \in UserRow
  BY SaveEditWrites
<1>2. log'[Len(log')][id] = row
  BY <1>1, WriteLog DEF IInv
<1>3. row # None
  BY <1>1, RowTypes
<1>4. row.secret = SecretOf(log[edit[a].read][id])
  BY BlankAfterEdit
<1>5. SecretOf(log[Len(log)][id]) = SecretOf(log[edit[a].read][id])
  <2>1. edit[a].read \in 1 .. Len(log)
    BY <1>1 DEF IInv, EditsFit, EditFits
  <2>2. Len(log) \in edit[a].read .. Len(log)
    BY <2>1, Bounds DEF IInv
  <2> QED
    BY <2>2 DEF Undisturbed
<1> QED
  BY <1>2, <1>3, <1>4, <1>5 DEF SecretOf, Stored

\* Only the end of an update ends it.
LEMMA EditEnds ==
  ASSUME IInv, [Next]_vars, NEW a \in Admin, edit[a] # NoEdit, edit'[a] = NoEdit
  PROVE  SaveEdit(a) \/ FailEdit(a)
<1>1. edit \in [Admin -> Edit \cup {NoEdit}] /\ edit' # edit
  BY DEF IInv, TypeOK
<1>2. Administer
  BY <1>1 DEF Next, vars, Replay, EndSession, Serve, BeginAuthorize, BeginDeny, WriteError,
     Refuse, FindOwner, Issue, SaveCode, Deny, Login, PresentCode, PresentToken, Present,
     Introspect, Redeem, Answer, Rotate, Refresh, UserInfo, End, Only
<1>3. ASSUME NEW b \in Admin, NEW id, NEW f, NEW s, BeginEdit(b, id, f, s) PROVE FALSE
  BY <1>1, <1>3 DEF BeginEdit, NoEdit
<1>4. PICK b \in Admin : SaveEdit(b) \/ FailEdit(b)
  BY <1>1, <1>2, <1>3 DEF Administer, PostClient, PostUser, PutClient, PutUser, DeleteAccount
<1>5. b = a
  BY <1>1, <1>4 DEF SaveEdit, FailEdit
<1> QED
  BY <1>4, <1>5

LEMMA StepKeepsSecret ==
  ASSUME IInv, [Next]_vars, NEW a \in Admin
  PROVE  KeepsSecret(a)
<1> SUFFICES ASSUME edit[a] # NoEdit, edit[a].secret = NoSecret, Undisturbed(a),
                    edit'[a] = NoEdit
             PROVE  SecretOf(log'[Len(log')][edit[a].id]) = SecretOf(Stored(edit[a].id))
  BY DEF KeepsSecret
<1>1. CASE SaveEdit(a)
  BY <1>1, SaveKeepsSecret
<1>2. CASE FailEdit(a)
  BY <1>2 DEF FailEdit, Stored
<1> QED
  BY <1>1, <1>2, EditEnds

\* An update of a client or a user that leaves the secret blank keeps it, for
\* any number of concurrent updates and any lag of the reader, unless another
\* commit has changed it since the update read the row.
THEOREM BlankSecretsKept == Spec => BlankKeepsSecret
<1>1. IInv /\ [Next]_vars => [\A a \in Admin : KeepsSecret(a)]_vars
  BY StepKeepsSecret
<1> QED
  BY <1>1, Invariance, PTL DEF Spec, BlankKeepsSecret

=============================================================================
