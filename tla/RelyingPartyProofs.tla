-------------------------- MODULE RelyingPartyProofs --------------------------
(***************************************************************************)
(* Proofs about those who rely on the provider's tokens: the API, which    *)
(* verifies them by the keys of the provider (AccessTokens), and the web   *)
(* client, which keeps a session with them (WebSession).                   *)
(*                                                                         *)
(* AccessTokens.  The argument about the file: it only grows, every ring   *)
(* was once the file, and so whatever signed a token is in the newest      *)
(* file.  The argument about the cache: a document that lacks a key or     *)
(* that has a withdrawn one was served after its fetch began, which is     *)
(* FetchTimeout ago at most; so the cache is wrong about no key for longer *)
(* than that before fetchedAt, and a request that looks at it again does   *)
(* so at fetchedAt.                                                        *)
(*                                                                         *)
(* WebSession.  The argument: a token or a verifier is in one place, the   *)
(* storage of one tab, one of its requests, or an answer on its way, and   *)
(* every step moves it from one to the next; it is in two places only if   *)
(* an answer was lost or a storage was copied, and the history has that.   *)
(* So what is presented twice was lost or copied.                          *)
(***************************************************************************)
EXTENDS AccessTokens, WebSession, FiniteSetTheorems, TLAPS

-----------------------------------------------------------------------------
(* The inductive invariant. *)

\* A ring that was read from the file or is written to it signs with a key
\* that it publishes.
Signs(r) == r # NoRing => r.active \in r.keys

\* With SIGNING_KEYS_FILE set: what is stored, loaded and signed, and the file.
FileGrows ==
  fromFile =>
    /\ file.status = "absent" => current = {}
    /\ file.status = "whole" => file.ring.keys = current /\ Signs(file.ring)
    /\ draft # NoRing => current \subseteq draft.keys /\ Signs(draft)
    /\ \A p \in Proc : ring[p].keys \subseteq current /\ Signs(ring[p])
    /\ signed \subseteq current

\* The times the API and the history keep, and the key a request is after.
TimesInv ==
  /\ fetchedAt <= now
  /\ \A k \in Kid : withdrawn[k] <= now
  /\ \A r \in Req :
       /\ ~ At(r, "idle") =>
            /\ req[r].kid \in Kid
            /\ req[r].sent <= now /\ now <= req[r].sent + FetchTimeout
       /\ At(r, "reread") => fetchedAt = now

\* A key that was published at some time since t.
SeenSince(k, t) == Published(k) \/ t <= withdrawn[k]

\* Documents under way and the cache have no key that was withdrawn before.
NoOldKeys ==
  /\ \A r \in Req : At(r, "served") =>
       \A k \in req[r].doc : SeenSince(k, req[r].sent)
  /\ \A k \in keys : SeenSince(k, fetchedAt - FetchTimeout)

SettledInv ==
  \A k \in Kid : (\E p \in Running : k \notin ring[p].keys) => settled[k] = MaxTime + 1

\* Documents under way and the cache lack no key that was settled before.
NoGaps ==
  /\ \A r \in Req : At(r, "served") =>
       \A k \in Kid \ req[r].doc : req[r].sent <= settled[k]
  /\ \A k \in Kid \ keys : fetchedAt - FetchTimeout <= settled[k]

IInv == TypeOK /\ FileGrows /\ TimesInv /\ NoOldKeys /\ SettledInv /\ NoGaps

-----------------------------------------------------------------------------
(* The initial states. *)

LEMMA NoRingIsNone == NoRing \notin Ring
  BY AccessTokensAssumption DEF NoRing, Ring

LEMMA InitInvariant == Init => IInv
<1> SUFFICES ASSUME Init PROVE IInv
  OBVIOUS
<1>1. TypeOK
  <2>1. Idle \in Request
    BY DEF Idle, Request
  <2>2. NoRing \in Ring \cup {NoRing} /\ file \in File
    BY DEF Init, File
  <2>3. 0 \in 0..MaxTime /\ 0 \in 0..MaxTime + 1 /\ - CacheTTL \in Int
    BY AccessTokensAssumption
  <2> QED
    BY <2>1, <2>2, <2>3 DEF Init, TypeOK
<1>2. FileGrows
  BY DEF Init, FileGrows, Signs, NoRing
<1>3. TimesInv
  BY AccessTokensAssumption DEF Init, TimesInv, At, Idle
<1>4. NoOldKeys
  BY DEF Init, NoOldKeys, At, Idle
<1>5. SettledInv
  BY DEF Init, SettledInv, Running
<1>6. NoGaps
  BY AccessTokensAssumption DEF Init, NoGaps, At, Idle
<1> QED
  BY <1>1, <1>2, <1>3, <1>4, <1>5, <1>6 DEF IInv

-----------------------------------------------------------------------------
(* keygen and signatures. *)

\* Steps that leave the published keys and the requests alone.
LEMMA CacheStays ==
  ASSUME IInv, UNCHANGED <<now, provider, api>>
  PROVE  TimesInv' /\ NoOldKeys' /\ SettledInv' /\ NoGaps'
BY DEF IInv, TimesInv, NoOldKeys, SettledInv, NoGaps, provider, api, At,
       SeenSince, Published, JWKS, Running

LEMMA GenerateInvariant ==
  ASSUME IInv, NEW k \in Kid, Generate(k)
  PROVE  IInv'
<1>1. UNCHANGED <<now, fromFile, signed, current, provider, api>>
  BY DEF Generate, BeginWrite
<1>2. /\ file' = [status |-> "partial", ring |-> NoRing]
      /\ draft' = NewRing(k) /\ fromFile /\ file.status = "absent"
      /\ minted' = minted \cup {k}
  BY DEF Generate, BeginWrite, Mint
<1>3. NewRing(k) \in Ring /\ Signs(NewRing(k))
  BY DEF NewRing, Ring, Signs
<1>4. file' \in File
  BY <1>2 DEF File
<1>5. TypeOK'
  BY <1>1, <1>2, <1>3, <1>4 DEF IInv, TypeOK, provider, api
<1>6. FileGrows'
  BY <1>1, <1>2, <1>3 DEF IInv, FileGrows, provider
<1> QED
  BY <1>1, <1>5, <1>6, CacheStays DEF IInv

LEMMA RotateInvariant ==
  ASSUME IInv, NEW k \in Kid, Rotate(k)
  PROVE  IInv'
<1> DEFINE new == Demote(file.ring, k)
<1>1. UNCHANGED <<now, fromFile, signed, current, provider, api>>
  BY DEF Rotate, BeginWrite
<1>2. /\ file' = [status |-> "partial", ring |-> NoRing]
      /\ draft' = new /\ fromFile /\ file.status = "whole"
      /\ minted' = minted \cup {k}
  BY DEF Rotate, BeginWrite, Mint
<1>3. file.ring \in Ring
  BY <1>2 DEF IInv, TypeOK, File
<1>4. new \in Ring /\ Signs(new) /\ file.ring.keys \subseteq new.keys
  BY <1>3 DEF Demote, Ring, Signs
<1>5. file' \in File
  BY <1>2 DEF File
<1> HIDE DEF new
<1>6. TypeOK'
  BY <1>1, <1>2, <1>4, <1>5 DEF IInv, TypeOK, provider, api
<1>7. FileGrows'
  BY <1>1, <1>2, <1>4 DEF IInv, FileGrows, provider
<1> QED
  BY <1>1, <1>6, <1>7, CacheStays DEF IInv

LEMMA EndWriteInvariant ==
  ASSUME IInv, EndWrite
  PROVE  IInv'
<1>1. UNCHANGED <<now, fromFile, minted, signed, provider, api>>
  BY DEF EndWrite
<1>2. /\ draft \in Ring /\ draft' = NoRing /\ current' = draft.keys
      /\ file' = [status |-> "whole", ring |-> draft]
  BY DEF EndWrite, IInv, TypeOK
<1>3. file' \in File /\ draft.keys \subseteq Kid
  BY <1>2 DEF File, Ring
<1>4. TypeOK'
  BY <1>1, <1>2, <1>3 DEF IInv, TypeOK, provider, api
<1>5. FileGrows'
  BY <1>1, <1>2, NoRingIsNone DEF IInv, FileGrows, provider
<1> QED
  BY <1>1, <1>4, <1>5, CacheStays DEF IInv

LEMMA KeygenStopsInvariant ==
  ASSUME IInv, KeygenStops
  PROVE  IInv'
<1>1. UNCHANGED <<now, fromFile, file, minted, signed, current, provider, api>>
      /\ draft' = NoRing
  BY DEF KeygenStops
<1>2. TypeOK'
  BY <1>1 DEF IInv, TypeOK, provider, api
<1>3. FileGrows'
  BY <1>1 DEF IInv, FileGrows, provider
<1> QED
  BY <1>1, <1>2, <1>3, CacheStays DEF IInv

LEMMA SignInvariant ==
  ASSUME IInv, NEW p \in Proc, Sign(p)
  PROVE  IInv'
<1>1. UNCHANGED <<now, fromFile, minted, keygen, provider, api>>
      /\ ring[p] # NoRing /\ signed' = signed \cup {ring[p].active}
  BY DEF Sign
<1>2. ring[p] \in Ring
  BY <1>1 DEF IInv, TypeOK
<1>3. TypeOK'
  BY <1>1, <1>2 DEF IInv, TypeOK, keygen, provider, api, Ring
<1>4. FileGrows'
  BY <1>1 DEF IInv, FileGrows, Signs, keygen, provider
<1> QED
  BY <1>1, <1>3, <1>4, CacheStays DEF IInv

-----------------------------------------------------------------------------
(* The processes of the provider. *)

\* Whoever publishes what after the step, withdrawn and settled keep track.
LEMMA PublishInvariant ==
  ASSUME IInv, NEW rings \in [Proc -> Ring \cup {NoRing}], Publish(rings),
         UNCHANGED <<now, fromFile, signed, keygen, api>>,
         minted' \in SUBSET Kid,
         fromFile => \A p \in Proc : rings[p].keys \subseteq current /\ Signs(rings[p])
  PROVE  IInv'
<1>1. /\ ring' = rings
      /\ withdrawn' = [k \in Kid |->
           IF \E p \in Proc : k \in ring[p].keys \ rings[p].keys
           THEN now ELSE withdrawn[k]]
      /\ settled' = [k \in Kid |->
           IF \E p \in Proc : rings[p] # NoRing /\ k \notin rings[p].keys
           THEN MaxTime + 1
           ELSE IF settled[k] <= now THEN settled[k] ELSE now]
  BY DEF Publish
<1>2. now \in 0..MaxTime /\ MaxTime \in Nat
  BY AccessTokensAssumption DEF IInv, TypeOK
<1>3. \A k \in Kid : withdrawn[k] \in 0..MaxTime /\ settled[k] \in 0..MaxTime + 1
  BY DEF IInv, TypeOK
<1>4. \A k \in Kid : withdrawn'[k] \in 0..MaxTime /\ withdrawn[k] <= withdrawn'[k]
                     /\ withdrawn'[k] <= now
  BY <1>1, <1>2, <1>3 DEF IInv, TimesInv
<1>5. \A k \in Kid : settled'[k] \in 0..MaxTime + 1
  BY <1>1, <1>2, <1>3
<1>6. TypeOK'
  <2>1. withdrawn' \in [Kid -> 0..MaxTime]
    BY <1>1, <1>4
  <2>2. settled' \in [Kid -> 0..MaxTime + 1]
    BY <1>1, <1>5
  <2> QED
    BY <1>1, <2>1, <2>2 DEF IInv, TypeOK, keygen, api
<1>7. FileGrows'
  BY <1>1 DEF IInv, FileGrows, keygen
<1>8. TimesInv'
  BY <1>4 DEF IInv, TimesInv, api, At
<1>9. ASSUME NEW k \in Kid, NEW t \in Int, t <= now, SeenSince(k, t)
      PROVE  SeenSince(k, t)'
  <2>1. CASE Published(k)'
    BY <2>1 DEF SeenSince
  <2>2. CASE Published(k) /\ ~ Published(k)'
    <3>1. PICK p \in Proc : k \in ring[p].keys
      BY <2>2 DEF Published, JWKS
    <3>2. k \notin rings[p].keys
      BY <1>1, <2>2 DEF Published, JWKS
    <3>3. withdrawn'[k] = now
      BY <1>1, <3>1, <3>2
    <3> QED
      BY <1>9, <3>3 DEF SeenSince
  <2>3. CASE ~ Published(k)
    <3>1. t <= withdrawn[k]
      BY <1>9, <2>3 DEF SeenSince
    <3>2. t <= withdrawn'[k]
      BY <1>3, <1>4, <3>1
    <3> QED
      BY <3>2 DEF SeenSince
  <2> QED
    BY <2>1, <2>2, <2>3
<1>10. NoOldKeys'
  <2>1. ASSUME NEW r \in Req, At(r, "served")', NEW k \in req'[r].doc
        PROVE  SeenSince(k, req[r].sent)'
    <3>1. k \in Kid /\ req[r].sent \in Int /\ req[r].sent <= now
      BY <2>1 DEF IInv, TypeOK, TimesInv, Request, At, api
    <3> QED
      BY <1>9, <2>1, <3>1 DEF IInv, NoOldKeys, At, api
  <2>2. ASSUME NEW k \in keys'
        PROVE  SeenSince(k, fetchedAt - FetchTimeout)'
    <3>1. k \in Kid /\ fetchedAt - FetchTimeout \in Int
          /\ fetchedAt - FetchTimeout <= now
      BY <1>2, <2>2, AccessTokensAssumption DEF IInv, TypeOK, TimesInv, api
    <3> QED
      BY <1>9, <2>2, <3>1 DEF IInv, NoOldKeys, api
  <2> QED
    BY <2>1, <2>2 DEF NoOldKeys, SeenSince, Published, JWKS, api
<1>11. SettledInv'
  BY <1>1 DEF SettledInv, Running
<1>12. ASSUME NEW k \in Kid, NEW t \in Int, t <= now, t <= settled[k]
       PROVE  t <= settled'[k]
  BY <1>1, <1>2, <1>3, <1>12
<1>13. NoGaps'
  <2>1. ASSUME NEW r \in Req, At(r, "served")', NEW k \in Kid \ req'[r].doc
        PROVE  req'[r].sent <= settled'[k]
    <3>1. req[r].sent \in Int /\ req[r].sent <= now
      BY <2>1 DEF IInv, TypeOK, TimesInv, Request, At, api
    <3> QED
      BY <1>12, <2>1, <3>1 DEF IInv, NoGaps, At, api
  <2>2. ASSUME NEW k \in Kid \ keys'
        PROVE  fetchedAt - FetchTimeout <= settled'[k]
    <3>1. fetchedAt - FetchTimeout \in Int /\ fetchedAt - FetchTimeout <= now
      BY <1>2, AccessTokensAssumption DEF IInv, TypeOK, TimesInv, api
    <3> QED
      BY <1>12, <2>2, <3>1 DEF IInv, NoGaps, api
  <2> QED
    BY <2>1, <2>2 DEF NoGaps, api
<1> QED
  BY <1>6, <1>7, <1>8, <1>10, <1>11, <1>13 DEF IInv

LEMMA StartFromFileInvariant ==
  ASSUME IInv, NEW p \in Proc, StartFromFile(p)
  PROVE  IInv'
<1> DEFINE rings == [ring EXCEPT ![p] = file.ring]
<1>1. fromFile /\ file.status = "whole" /\ Publish(rings)
      /\ UNCHANGED <<now, fromFile, minted, signed, keygen, api>>
  BY DEF StartFromFile
<1>2. file.ring \in Ring
  BY <1>1 DEF IInv, TypeOK, File
<1>3. rings \in [Proc -> Ring \cup {NoRing}]
  BY <1>2 DEF IInv, TypeOK
<1>4. \A q \in Proc : rings[q].keys \subseteq current /\ Signs(rings[q])
  BY <1>1, <1>2 DEF IInv, TypeOK, FileGrows
<1>5. minted' \in SUBSET Kid
  BY <1>1 DEF IInv, TypeOK
<1> HIDE DEF rings
<1> QED
  BY <1>1, <1>3, <1>4, <1>5, PublishInvariant

LEMMA StartEphemeralInvariant ==
  ASSUME IInv, NEW p \in Proc, NEW k \in Kid, StartEphemeral(p, k)
  PROVE  IInv'
<1> DEFINE rings == [ring EXCEPT ![p] = NewRing(k)]
<1>1. ~ fromFile /\ Publish(rings) /\ Mint(k)
      /\ UNCHANGED <<now, fromFile, signed, keygen, api>>
  BY DEF StartEphemeral
<1>2. rings \in [Proc -> Ring \cup {NoRing}]
  BY DEF IInv, TypeOK, NewRing, Ring
<1>3. minted' \in SUBSET Kid
  BY <1>1 DEF IInv, TypeOK, Mint
<1> HIDE DEF rings
<1> QED
  BY <1>1, <1>2, <1>3, PublishInvariant

LEMMA StopInvariant ==
  ASSUME IInv, NEW p \in Proc, Stop(p)
  PROVE  IInv'
<1> DEFINE rings == [ring EXCEPT ![p] = NoRing]
<1>1. Publish(rings) /\ UNCHANGED <<now, fromFile, minted, signed, keygen, api>>
  BY DEF Stop
<1>2. rings \in [Proc -> Ring \cup {NoRing}]
  BY DEF IInv, TypeOK
<1>3. fromFile => \A q \in Proc : rings[q].keys \subseteq current /\ Signs(rings[q])
  BY DEF IInv, TypeOK, FileGrows, Signs, NoRing
<1>4. minted' \in SUBSET Kid
  BY <1>1 DEF IInv, TypeOK
<1> HIDE DEF rings
<1> QED
  BY <1>1, <1>2, <1>3, <1>4, PublishInvariant

-----------------------------------------------------------------------------
(* The requests of the API. *)

\* Steps that change one request only.
LEMMA RequestStep ==
  ASSUME IInv, NEW r \in Req, NEW q \in Request, Become(r, q),
         UNCHANGED <<now, fromFile, minted, signed, keygen, provider, keys, fetchedAt>>,
         q.step # "reread",
         q.step # "idle" =>
           q.kid \in Kid /\ q.sent <= now /\ now <= q.sent + FetchTimeout,
         q.step = "served" =>
           /\ \A k \in q.doc : SeenSince(k, q.sent)
           /\ \A k \in Kid \ q.doc : q.sent <= settled[k]
  PROVE  IInv'
<1>1. req' = [req EXCEPT ![r] = q] /\ req \in [Req -> Request]
  BY DEF Become, IInv, TypeOK
<1>2. \A s \in Req : req'[s] = IF s = r THEN q ELSE req[s]
  BY <1>1
<1>3. req' \in [Req -> Request]
  BY <1>1
<1>4. TypeOK'
  BY <1>3 DEF IInv, TypeOK, keygen, provider
<1>5. FileGrows'
  BY DEF IInv, FileGrows, keygen, provider
<1>6. TimesInv'
  <2>1. ASSUME NEW s \in Req
        PROVE  /\ req'[s].step # "idle" =>
                    /\ req'[s].kid \in Kid
                    /\ req'[s].sent <= now /\ now <= req'[s].sent + FetchTimeout
               /\ req'[s].step = "reread" => fetchedAt = now
    BY <1>2 DEF IInv, TimesInv, At
  <2> QED
    BY <2>1 DEF IInv, TimesInv, At, provider
<1>7. NoOldKeys'
  <2>1. ASSUME NEW s \in Req, req'[s].step = "served", NEW k \in req'[s].doc
        PROVE  SeenSince(k, req'[s].sent)
    BY <1>2, <2>1 DEF IInv, NoOldKeys, At
  <2> QED
    BY <2>1 DEF IInv, NoOldKeys, At, SeenSince, Published, JWKS, provider
<1>8. SettledInv'
  BY DEF IInv, SettledInv, Running, provider
<1>9. NoGaps'
  <2>1. ASSUME NEW s \in Req, req'[s].step = "served", NEW k \in Kid \ req'[s].doc
        PROVE  req'[s].sent <= settled[k]
    BY <1>2, <2>1 DEF IInv, NoGaps, At
  <2> QED
    BY <2>1 DEF IInv, NoGaps, At, provider
<1> QED
  BY <1>4, <1>5, <1>6, <1>7, <1>8, <1>9 DEF IInv

LEMMA IdleIsRequest == Idle \in Request /\ Idle.step = "idle"
  BY DEF Idle, Request

LEMMA LookupInvariant ==
  ASSUME IInv, NEW r \in Req, NEW k \in Kid, Lookup(r, k)
  PROVE  IInv'
<1> DEFINE q == [step |-> "fetch", kid |-> k, sent |-> now, doc |-> {}]
<1>1. Become(r, q)
      /\ UNCHANGED <<now, fromFile, minted, signed, keygen, provider, keys, fetchedAt>>
  BY DEF Lookup
<1>2. now \in Nat /\ now <= now + FetchTimeout
  BY AccessTokensAssumption DEF IInv, TypeOK
<1>3. q \in Request /\ q.step = "fetch" /\ q.kid = k /\ q.sent = now
  BY <1>2 DEF Request
<1> HIDE DEF q
<1> QED
  BY <1>1, <1>2, <1>3, RequestStep

LEMMA ServeInvariant ==
  ASSUME IInv, NEW r \in Req, NEW p \in Proc, Serve(r, p)
  PROVE  IInv'
<1> DEFINE q == [req[r] EXCEPT !.step = "served", !.doc = JWKS(p)]
<1>1. At(r, "fetch") /\ ring[p] # NoRing /\ Become(r, q)
      /\ UNCHANGED <<now, fromFile, minted, signed, keygen, provider, keys, fetchedAt>>
  BY DEF Serve
<1>2. req[r] \in Request /\ req[r].sent \in Nat
  BY DEF IInv, TypeOK, Request
<1>3. JWKS(p) \subseteq Kid
  BY <1>1 DEF IInv, TypeOK, Ring, JWKS
<1>4. /\ q \in Request /\ q.step = "served" /\ q.doc = JWKS(p)
      /\ q.kid = req[r].kid /\ q.sent = req[r].sent
  BY <1>2, <1>3 DEF Request
<1>5. req[r].kid \in Kid /\ req[r].sent <= now /\ now <= req[r].sent + FetchTimeout
  BY <1>1 DEF IInv, TimesInv, At
<1>6. \A k \in JWKS(p) : SeenSince(k, req[r].sent)
  BY DEF SeenSince, Published
<1>7. ASSUME NEW k \in Kid \ JWKS(p)
      PROVE  req[r].sent <= settled[k]
  <2>1. settled[k] = MaxTime + 1
    BY <1>1, <1>7 DEF IInv, SettledInv, Running, JWKS
  <2>2. now \in 0..MaxTime /\ MaxTime \in Nat
    BY AccessTokensAssumption DEF IInv, TypeOK
  <2> QED
    BY <1>2, <1>5, <2>1, <2>2
<1> HIDE DEF q
<1> QED
  BY <1>1, <1>4, <1>5, <1>6, <1>7, RequestStep

LEMMA RereadInvariant ==
  ASSUME IInv, NEW r \in Req, Reread(r)
  PROVE  IInv'
BY IdleIsRequest, RequestStep DEF Reread

LEMMA FetchFailsInvariant ==
  ASSUME IInv, NEW r \in Req, FetchFails(r)
  PROVE  IInv'
BY IdleIsRequest, RequestStep DEF FetchFails

\* The document was served after its fetch began, FetchTimeout ago at most.
LEMMA InstallInvariant ==
  ASSUME IInv, NEW r \in Req, Install(r)
  PROVE  IInv'
<1> DEFINE q == [req[r] EXCEPT !.step = "reread"]
<1>1. /\ At(r, "served") /\ keys' = req[r].doc /\ fetchedAt' = now
      /\ req' = [req EXCEPT ![r] = q]
      /\ UNCHANGED <<now, fromFile, minted, signed, keygen, provider>>
  BY DEF Install, Become
<1>2. /\ req[r] \in Request /\ req[r].sent \in Nat /\ req[r].doc \subseteq Kid
      /\ req \in [Req -> Request]
  BY DEF IInv, TypeOK, Request
<1>3. q \in Request /\ q.step = "reread" /\ q.kid = req[r].kid /\ q.sent = req[r].sent
  BY <1>2 DEF Request
<1>4. /\ now \in Nat /\ req[r].kid \in Kid
      /\ req[r].sent <= now /\ now <= req[r].sent + FetchTimeout
  BY <1>1 DEF IInv, TypeOK, TimesInv, At
<1>5. now - FetchTimeout \in Int /\ now - FetchTimeout <= req[r].sent
  BY <1>2, <1>4, AccessTokensAssumption
<1> HIDE DEF q
<1>6. \A s \in Req : req'[s] = IF s = r THEN q ELSE req[s]
  BY <1>1, <1>2
<1>7. TypeOK'
  BY <1>1, <1>2, <1>3, <1>4 DEF IInv, TypeOK, keygen, provider
<1>8. FileGrows'
  BY <1>1 DEF IInv, FileGrows, keygen, provider
<1>9. TimesInv'
  <2>1. ASSUME NEW s \in Req
        PROVE  req'[s].step # "idle" =>
                 /\ req'[s].kid \in Kid
                 /\ req'[s].sent <= now /\ now <= req'[s].sent + FetchTimeout
    BY <1>3, <1>4, <1>6 DEF IInv, TimesInv, At
  <2> QED
    BY <1>1, <1>4, <2>1 DEF IInv, TimesInv, At, provider
<1>10. NoOldKeys'
  <2>1. ASSUME NEW s \in Req, req'[s].step = "served", NEW k \in req'[s].doc
        PROVE  SeenSince(k, req'[s].sent)
    BY <1>3, <1>6, <2>1 DEF IInv, NoOldKeys, At
  <2>2. ASSUME NEW k \in req[r].doc
        PROVE  SeenSince(k, now - FetchTimeout)
    <3>1. SeenSince(k, req[r].sent)
      BY <1>1, <2>2 DEF IInv, NoOldKeys
    <3>2. withdrawn[k] \in Nat
      BY <1>2, <2>2 DEF IInv, TypeOK
    <3> QED
      BY <1>2, <1>5, <3>1, <3>2 DEF SeenSince
  <2> QED
    BY <1>1, <2>1, <2>2 DEF NoOldKeys, At, SeenSince, Published, JWKS, provider
<1>11. SettledInv'
  BY <1>1 DEF IInv, SettledInv, Running, provider
<1>12. NoGaps'
  <2>1. ASSUME NEW s \in Req, req'[s].step = "served", NEW k \in Kid \ req'[s].doc
        PROVE  req'[s].sent <= settled[k]
    BY <1>3, <1>6, <2>1 DEF IInv, NoGaps, At
  <2>2. ASSUME NEW k \in Kid \ req[r].doc
        PROVE  now - FetchTimeout <= settled[k]
    <3>1. req[r].sent <= settled[k]
      BY <1>1, <2>2 DEF IInv, NoGaps
    <3>2. settled[k] \in Nat
      BY AccessTokensAssumption DEF IInv, TypeOK
    <3> QED
      BY <1>2, <1>5, <3>1, <3>2
  <2> QED
    BY <1>1, <2>1, <2>2 DEF NoGaps, At, provider
<1> QED
  BY <1>7, <1>8, <1>9, <1>10, <1>11, <1>12 DEF IInv

-----------------------------------------------------------------------------
(* The clock, and all steps. *)

LEMMA TickInvariant ==
  ASSUME IInv, Tick
  PROVE  IInv'
<1>1. /\ now < MaxTime /\ now' = now + 1
      /\ \A r \in Req : /\ ~ At(r, "reread")
                        /\ ~ At(r, "idle") => now < req[r].sent + FetchTimeout
      /\ UNCHANGED <<fromFile, minted, signed, keygen, provider, api>>
  BY DEF Tick
<1>2. now \in Nat /\ now' \in 0..MaxTime /\ MaxTime \in Nat
  BY <1>1, AccessTokensAssumption DEF IInv, TypeOK
<1>3. TypeOK'
  BY <1>1, <1>2 DEF IInv, TypeOK, keygen, provider, api
<1>4. FileGrows'
  BY <1>1 DEF IInv, FileGrows, keygen, provider
<1>5. TimesInv'
  <2>1. fetchedAt' <= now'
    BY <1>1, <1>2 DEF IInv, TypeOK, TimesInv, api
  <2>2. \A k \in Kid : withdrawn'[k] <= now'
    BY <1>1, <1>2 DEF IInv, TypeOK, TimesInv, provider
  <2>3. ASSUME NEW r \in Req, ~ At(r, "idle")
        PROVE  /\ req[r].kid \in Kid
               /\ req[r].sent <= now' /\ now' <= req[r].sent + FetchTimeout
    <3>1. /\ req[r].kid \in Kid
          /\ req[r].sent \in Nat /\ req[r].sent <= now /\ now < req[r].sent + FetchTimeout
      BY <1>1, <2>3 DEF IInv, TypeOK, TimesInv, Request
    <3> QED
      BY <1>1, <1>2, <3>1, AccessTokensAssumption
  <2> QED
    BY <1>1, <2>1, <2>2, <2>3 DEF TimesInv, At, api
<1>6. NoOldKeys' /\ SettledInv' /\ NoGaps'
  BY <1>1 DEF IInv, NoOldKeys, SettledInv, NoGaps, provider, api, At, SeenSince,
              Published, JWKS, Running
<1> QED
  BY <1>3, <1>4, <1>5, <1>6 DEF IInv

LEMMA NextInvariant == IInv /\ [Next]_vars => IInv'
<1> SUFFICES ASSUME IInv, [Next]_vars PROVE IInv'
  OBVIOUS
<1>1. ASSUME NEW k \in Kid, Generate(k) \/ Rotate(k)
      PROVE  IInv'
  BY <1>1, GenerateInvariant, RotateInvariant
<1>2. CASE EndWrite
  BY <1>2, EndWriteInvariant
<1>3. CASE KeygenStops
  BY <1>3, KeygenStopsInvariant
<1>4. ASSUME NEW p \in Proc,
             \/ StartFromFile(p)
             \/ \E k \in Kid : StartEphemeral(p, k)
             \/ Stop(p)
             \/ Sign(p)
      PROVE  IInv'
  BY <1>4, StartFromFileInvariant, StartEphemeralInvariant, StopInvariant, SignInvariant
<1>5. ASSUME NEW r \in Req,
             \/ \E k \in Kid : Lookup(r, k)
             \/ \E p \in Proc : Serve(r, p)
             \/ Install(r) \/ Reread(r) \/ FetchFails(r)
      PROVE  IInv'
  BY <1>5, LookupInvariant, ServeInvariant, InstallInvariant, RereadInvariant,
     FetchFailsInvariant
<1>6. CASE Tick
  BY <1>6, TickInvariant
<1>7. CASE UNCHANGED vars
  BY <1>7 DEF vars, IInv, TypeOK, FileGrows, TimesInv, NoOldKeys, SettledInv, NoGaps,
              keygen, provider, api, At, Signs, SeenSince, Published, JWKS, Running
<1> QED
  BY <1>1, <1>2, <1>3, <1>4, <1>5, <1>6, <1>7 DEF Next

-----------------------------------------------------------------------------
(* The theorems. *)

\* The invariant holds for any number of keys, processes and requests, any
\* validity of the cache and any timeout of the HTTP client.
THEOREM Invariance == Spec => []IInv
  BY InitInvariant, NextInvariant, PTL DEF Spec

\* Every reachable state of keygen, the processes and the cache is well typed.
THEOREM TypeCorrect == Spec => []TypeOK
<1>1. IInv => TypeOK
  BY DEF IInv
<1> QED
  BY <1>1, Invariance, PTL

\* A process that has loaded the newest file verifies every token that any
\* process has signed, whatever number of rotations, failed ones too, and
\* restarts lies between (rotateKeyFile keeps all the public keys).
THEOREM OldTokensStayVerifiable == Spec => []OldTokensVerify
<1>1. IInv => OldTokensVerify
  BY DEF IInv, FileGrows, OldTokensVerify, Verifies
<1> QED
  BY <1>1, Invariance, PTL

\* A key that no process publishes any more is honoured for less than CacheTTL
\* and FetchTimeout, whatever fetches overlap and in whatever order they end.
THEOREM StalenessIsBounded == Spec => []BoundedStaleness
<1>1. IInv => BoundedStaleness
  <2> SUFFICES ASSUME IInv, NEW k \in keys,
                      Fresh \/ \E r \in Req : At(r, "reread") /\ req[r].kid = k,
                      ~ Published(k)
               PROVE  now - withdrawn[k] < CacheTTL + FetchTimeout
    BY DEF BoundedStaleness
  <2>1. now \in Nat /\ fetchedAt \in Int /\ withdrawn[k] \in Nat
    BY DEF IInv, TypeOK
  <2>2. now - fetchedAt < CacheTTL
    BY <2>1, AccessTokensAssumption DEF Fresh, IInv, TimesInv
  <2>3. fetchedAt - FetchTimeout <= withdrawn[k]
    BY DEF IInv, NoOldKeys, SeenSince
  <2> QED
    BY <2>1, <2>2, <2>3, AccessTokensAssumption
<1> QED
  BY <1>1, Invariance, PTL

\* Once every running process has published a key for longer than a fetch may
\* take, a request whose fetch succeeded finds the key, even if an older answer
\* has replaced its own (fetchJWKS installs answers in the order they end).
THEOREM RolloutsComplete == Spec => []RolloutCompletes
<1>1. IInv => RolloutCompletes
  <2> SUFFICES ASSUME IInv, NEW r \in Req, At(r, "reread"), req[r].kid \notin keys
               PROVE  now <= settled[req[r].kid] + FetchTimeout
    BY DEF RolloutCompletes
  <2>1. now \in Nat /\ fetchedAt = now
    BY DEF IInv, TypeOK, TimesInv
  <2>2. req[r].kid \in Kid
    BY DEF IInv, TimesInv, At
  <2>3. settled[req[r].kid] \in Nat
    BY <2>2, AccessTokensAssumption DEF IInv, TypeOK
  <2>4. fetchedAt - FetchTimeout <= settled[req[r].kid]
    BY <2>2 DEF IInv, NoGaps
  <2> QED
    BY <2>1, <2>3, <2>4, AccessTokensAssumption
<1> QED
  BY <1>1, Invariance, PTL

-----------------------------------------------------------------------------
(* The session of the web client. *)

(***************************************************************************)
(* The inductive invariant.  SentOnce is not inductive: what is going to   *)
(* be presented once more is in a storage, with a request of a page that   *)
(* was left, or in an answer that is stored later, and which of them holds *)
(* a token that is redeemed by then is what the invariant has to say.      *)
(***************************************************************************)

\* The page of a tab has one refresh under way, or none: a page that does not
\* run has none.  What is left of the pages that are gone is at the provider,
\* and its answer will not be heard.  An answer is a later token of the family.
OneFetch(k) ==
  IF k \in refreshInFlight THEN Runs(k) /\ \E f \in fetches : Own(k) = {f}
                           ELSE Own(k) = {}

FetchFits(f) ==
  /\ f.tab = NoTab => f.step = "sent" /\ f.old \in lost
  /\ f.new # NoToken =>
       f.step = "answered" /\ Family(f.new) = Family(f.old) /\ f.new[2] > 1

Fetches ==
  /\ \A k \in Tab : OneFetch(k)
  /\ \A f \in fetches : FetchFits(f)

\* Pages go to logins that were begun, and come back from them with a code.
PageFits(k) ==
  /\ page[k].login \in begun \cup {NoLogin} /\ page[k].to \in begun \cup {NoLogin}
  /\ page[k].at = "provider" => page[k].login \in begun
  /\ page[k].at = "callback" => page[k].login \in issued
  /\ going[k] \subseteq begun
  /\ job[k].does = "callback" =>
       /\ job[k].login \in begun /\ job[k].verifier = job[k].login
       /\ job[k].token \in {NoToken, <<job[k].login, 1>>}

Pages == \A k \in Tab : PageFits(k)

\* Where a login's verifier can be: in the storage of a tab, with a callback
\* that has not sent it, or with the provider.
keptIn == [k \in Tab |-> {pkce[k]} \ {NoLogin}]
takenIn == [k \in Tab |-> IF job[k].does = "callback" /\ job[k].step = "discover"
                          THEN {job[k].login} ELSE {}]
presented == {p[1] : p \in sent}

\* It is in two places only if the storage was copied.
OnePlace(V, X, P, C) ==
  /\ \A j, k \in Tab : j # k => V[j] \cap V[k] \subseteq C /\ X[j] \cap X[k] \subseteq C
  /\ \A j, k \in Tab : V[j] \cap X[k] \subseteq C
  /\ \A k \in Tab : V[k] \cap P \subseteq C /\ X[k] \cap P \subseteq C

\* A code was presented with its own verifier, and again only by a copy.
Verifiers ==
  /\ \A k \in Tab : keptIn[k] \subseteq begun /\ takenIn[k] \subseteq begun
  /\ \A p \in sent : p[1] = p[2] /\ p[1] \in begun
  /\ OnePlace(keptIn, takenIn, presented, copied)
  /\ again \subseteq copied

\* The tokens of a tab: those it may present, those that an answer brings it,
\* and those that it has presented and got the answer for.
kept == [k \in Tab |-> ({stored[k]} \cup {f.old : f \in Own(k)}) \ {NoToken}]
carried == [k \in Tab |-> ({f.new : f \in Own(k)} \cup
                           (IF job[k].does = "callback" THEN {job[k].token} ELSE {}))
                          \ {NoToken}]
spending == [k \in Tab |-> {f.old : f \in {g \in Own(k) : g.new # NoToken}}]

Root(t) == <<Family(t), 1>>
FamilyIn(lv, t) == \E p \in lv : p[1] = Root(t)

\* It was redeemed, and the family is there still to be lost by it.
Stale(lv, t) == FamilyIn(lv, t) /\ <<Root(t), t>> \notin lv

\* K, C and S are kept, carried and spending, L the lost tokens, H those
\* handed out and lv the redeemable ones.  A token that an answer carries is
\* nowhere else and is not stale; one that a tab keeps is in another tab, or was
\* redeemed, only if it is lost or its answer is just coming back.
HeldOnce(K, C, S, L, H, lv) ==
  /\ L \subseteq H
  /\ \A t \in H : Root(t) \in H
  /\ \A p \in lv : p[1] \in H /\ p[2] \in H
  /\ \A k \in Tab : K[k] \subseteq H /\ C[k] \subseteq H
  /\ \A k \in Tab : C[k] \cap L = {}
  /\ \A j, k \in Tab : C[k] \cap K[j] = {}
  /\ \A j, k \in Tab : j # k => C[k] \cap C[j] = {} /\ K[k] \cap K[j] \subseteq L
  /\ \A k \in Tab : \A t \in C[k] : ~ Stale(lv, t)
  /\ \A k \in Tab : \A t \in K[k] : Stale(lv, t) => t \in L \cup S[k]

Holders ==
  /\ HeldOnce(kept, carried, spending, lost, handed, live)
  /\ reused \subseteq lost

\* What a tab may present is of its last login, or of the refresh it met.
Sessions ==
  \A k \in Tab : \A t \in kept[k] : Family(t) \in {given[k], raced[k]}

WebTypes ==
  /\ live \subseteq Token \X Token /\ heir \subseteq Token \X Token
  /\ handed \subseteq Token
  /\ issued \subseteq begun /\ spent \subseteq issued
  /\ stored \in [Tab -> Token \cup {NoToken}]
  /\ pkce \in [Tab -> Login \cup {NoLogin}] /\ begun \subseteq Login
  /\ going \in [Tab -> SUBSET Login]
  /\ page \in [Tab -> Page] /\ job \in [Tab -> Job]
  /\ fetches \subseteq Fetch /\ rejected \subseteq refreshInFlight
  /\ refreshInFlight \subseteq Tab
  /\ given \in [Tab -> Login \cup {NoLogin}] /\ raced \in [Tab -> Login \cup {NoLogin}]

WebInv == WebTypes /\ Fetches /\ Pages /\ Verifiers /\ Holders /\ Sessions

-----------------------------------------------------------------------------

\* Nobody is given a token, some are lost or left, and families may end.
LEMMA HeldLess ==
  ASSUME NEW K, NEW C, NEW S, NEW L, NEW H, NEW lv,
         NEW K2, NEW C2, NEW S2, NEW L2, NEW lv2,
         HeldOnce(K, C, S, L, H, lv),
         \A k \in Tab : K2[k] \subseteq K[k] /\ C2[k] \subseteq C[k],
         L \subseteq L2,
         \A t \in L2 \ L : \E k \in Tab : t \in K[k],
         \A k \in Tab : S[k] \cap K2[k] \subseteq L2 \cup S2[k],
         lv2 \subseteq lv,
         \A t : Stale(lv2, t) => Stale(lv, t)
  PROVE  HeldOnce(K2, C2, S2, L2, H, lv2)
<1>1. L2 \subseteq H
  BY DEF HeldOnce
<1>2. ASSUME NEW k \in Tab PROVE C2[k] \cap L2 = {}
  BY <1>2 DEF HeldOnce
<1>3. ASSUME NEW k \in Tab, NEW t \in K2[k], Stale(lv2, t)
      PROVE  t \in L2 \cup S2[k]
  BY <1>3 DEF HeldOnce
<1>4. ASSUME NEW k \in Tab, NEW t \in C2[k] PROVE ~ Stale(lv2, t)
  BY <1>4 DEF HeldOnce
<1>5. /\ \A j, k \in Tab : C2[k] \cap K2[j] = {}
      /\ \A j, k \in Tab : j # k => C2[k] \cap C2[j] = {} /\ K2[k] \cap K2[j] \subseteq L2
  BY DEF HeldOnce
<1> QED
  BY <1>1, <1>2, <1>3, <1>4, <1>5 DEF HeldOnce

\* An answer is stored.
LEMMA HeldStored ==
  ASSUME NEW K, NEW C, NEW S, NEW L, NEW H, NEW lv, NEW k \in Tab, NEW t \in C[k],
         K = [j \in Tab |-> K[j]], C = [j \in Tab |-> C[j]],
         HeldOnce(K, C, S, L, H, lv)
  PROVE  HeldOnce([K EXCEPT ![k] = @ \cup {t}], [C EXCEPT ![k] = @ \ {t}], S, L, H, lv)
<1> DEFINE K2 == [K EXCEPT ![k] = @ \cup {t}]
           C2 == [C EXCEPT ![k] = @ \ {t}]
<1>1. /\ K2[k] = K[k] \cup {t} /\ C2[k] = C[k] \ {t}
      /\ \A j \in Tab : j # k => K2[j] = K[j] /\ C2[j] = C[j]
  OBVIOUS
<1> HIDE DEF K2, C2
<1>2. \A j \in Tab : K2[j] \subseteq H /\ C2[j] \subseteq H /\ C2[j] \cap L = {}
  BY <1>1 DEF HeldOnce
<1>3. \A i, j \in Tab : C2[j] \cap K2[i] = {}
  BY <1>1 DEF HeldOnce
<1>4. \A i, j \in Tab : i # j => C2[j] \cap C2[i] = {} /\ K2[j] \cap K2[i] \subseteq L
  BY <1>1 DEF HeldOnce
<1>5. \A j \in Tab : \A u \in C2[j] : ~ Stale(lv, u)
  BY <1>1 DEF HeldOnce
<1>6. \A j \in Tab : \A u \in K2[j] : Stale(lv, u) => u \in L \cup S[j]
  BY <1>1 DEF HeldOnce
<1>7. HeldOnce(K2, C2, S, L, H, lv)
  BY <1>2, <1>3, <1>4, <1>5, <1>6 DEF HeldOnce
<1> QED
  BY <1>7 DEF K2, C2

\* A storage is copied.
LEMMA HeldCopied ==
  ASSUME NEW K, NEW C, NEW S, NEW L, NEW H, NEW lv, NEW k \in Tab, NEW j \in Tab,
         NEW T \in SUBSET K[k],
         K = [i \in Tab |-> K[i]],
         HeldOnce(K, C, S, L, H, lv)
  PROVE  HeldOnce([K EXCEPT ![j] = @ \cup T], C, S, L \cup T, H, lv)
<1> DEFINE K2 == [K EXCEPT ![j] = @ \cup T]
           L2 == L \cup T
<1>1. K2[j] = K[j] \cup T /\ \A i \in Tab : i # j => K2[i] = K[i]
  OBVIOUS
<1> HIDE DEF K2
<1>2. \A i \in Tab : K2[i] \subseteq H /\ C[i] \cap L2 = {}
  BY <1>1 DEF HeldOnce
<1>3. \A h, i \in Tab : C[i] \cap K2[h] = {}
  BY <1>1 DEF HeldOnce
<1>4. \A h, i \in Tab : h # i => C[i] \cap C[h] = {} /\ K2[i] \cap K2[h] \subseteq L2
  BY <1>1 DEF HeldOnce
<1>5. \A i \in Tab : \A u \in K2[i] : Stale(lv, u) => u \in L2 \cup S[i]
  BY <1>1 DEF HeldOnce
<1>6. L2 \subseteq H
  BY DEF HeldOnce
<1>7. HeldOnce(K2, C, S, L2, H, lv)
  BY <1>2, <1>3, <1>4, <1>5, <1>6 DEF HeldOnce
<1> QED
  BY <1>7 DEF K2

\* A family starts, and its first token is on the way to a tab.
LEMMA HeldStarted ==
  ASSUME NEW K, NEW C, NEW S, NEW L, NEW H, NEW lv, NEW k \in Tab, NEW t,
         C = [i \in Tab |-> C[i]],
         t \notin H, Root(t) = t,
         HeldOnce(K, C, S, L, H, lv)
  PROVE  HeldOnce(K, [C EXCEPT ![k] = @ \cup {t}], S, L, H \cup {t}, lv \cup {<<t, t>>})
<1> DEFINE C2 == [C EXCEPT ![k] = @ \cup {t}]
           H2 == H \cup {t}
           lv2 == lv \cup {<<t, t>>}
<1>1. C2[k] = C[k] \cup {t} /\ \A i \in Tab : i # k => C2[i] = C[i]
  OBVIOUS
<1>2. ASSUME NEW u \in H, Stale(lv2, u) PROVE Stale(lv, u)
  <2>1. Root(u) # t
    BY DEF HeldOnce
  <2> QED
    BY <1>2, <2>1 DEF Stale, FamilyIn
<1>3. ~ Stale(lv2, t)
  BY DEF Stale
<1> HIDE DEF C2
<1>4. /\ H \subseteq H2 /\ t \in H2
      /\ \A p \in lv2 : p[1] \in H2 /\ p[2] \in H2
      /\ \A u \in H2 : Root(u) \in H2
  BY DEF HeldOnce
<1>5. \A i \in Tab : K[i] \subseteq H2 /\ C2[i] \subseteq H2 /\ C2[i] \cap L = {}
  BY <1>1, <1>4 DEF HeldOnce
<1>6. \A h, i \in Tab : C2[i] \cap K[h] = {}
  BY <1>1 DEF HeldOnce
<1>7. \A h, i \in Tab : h # i => C2[i] \cap C2[h] = {} /\ K[i] \cap K[h] \subseteq L
  BY <1>1 DEF HeldOnce
<1>8. \A i \in Tab : \A u \in C2[i] : ~ Stale(lv2, u)
  BY <1>1, <1>2, <1>3 DEF HeldOnce
<1>9. \A i \in Tab : \A u \in K[i] : Stale(lv2, u) => u \in L \cup S[i]
  BY <1>2 DEF HeldOnce
<1>10. L \subseteq H2
  BY DEF HeldOnce
<1> HIDE DEF H2, lv2
<1>11. HeldOnce(K, C2, S, L, H2, lv2)
  BY <1>4, <1>5, <1>6, <1>7, <1>8, <1>9, <1>10 DEF HeldOnce
<1> QED
  BY <1>11 DEF C2, H2, lv2

\* A token is redeemed, for one that nobody gets to see ...
LEMMA HeldRedeemed ==
  ASSUME NEW K, NEW C, NEW S, NEW L, NEW H, NEW lv, NEW old, NEW next,
         HeldOnce(K, C, S, L, H, lv),
         <<Root(old), old>> \in lv, next \notin H, Root(next) = Root(old),
         NEW S2, \A k \in Tab : S[k] \subseteq S2[k],
         \A k \in Tab : old \notin C[k],
         \A k \in Tab : old \in K[k] => old \in L \cup S2[k]
  PROVE  HeldOnce(K, C, S2, L, H \cup {next},
                  (lv \ {<<Root(old), old>>}) \cup {<<Root(old), next>>})
<1> DEFINE H2 == H \cup {next}
           lv2 == (lv \ {<<Root(old), old>>}) \cup {<<Root(old), next>>}
<1>1. Root(old) \in H /\ old \in H
  BY DEF HeldOnce
<1>2. /\ H \subseteq H2 /\ L \subseteq H2
      /\ \A p \in lv2 : p[1] \in H2 /\ p[2] \in H2
      /\ \A u \in H2 : Root(u) \in H2
  BY <1>1 DEF HeldOnce
<1>3. ASSUME NEW u, u # old, Stale(lv2, u) PROVE Stale(lv, u)
  <2>1. FamilyIn(lv, u)
    BY <1>3 DEF Stale, FamilyIn
  <2> QED
    BY <1>3, <2>1 DEF Stale
<1>4. \A k \in Tab : \A u \in C[k] : ~ Stale(lv2, u)
  BY <1>3 DEF HeldOnce
<1>5. \A k \in Tab : \A u \in K[k] : Stale(lv2, u) => u \in L \cup S2[k]
  BY <1>3 DEF HeldOnce
<1>6. \A k \in Tab : K[k] \subseteq H2 /\ C[k] \subseteq H2
  BY <1>2 DEF HeldOnce
<1> HIDE DEF H2, lv2
<1>7. HeldOnce(K, C, S2, L, H2, lv2)
  BY <1>2, <1>4, <1>5, <1>6 DEF HeldOnce
<1> QED
  BY <1>7 DEF H2, lv2

\* ... or that is on the way to the tab that has presented it.
LEMMA HeldAnswered ==
  ASSUME NEW K, NEW C, NEW S, NEW L, NEW H, NEW lv, NEW k \in Tab, NEW t \in H,
         C = [i \in Tab |-> C[i]],
         HeldOnce(K, C, S, L, H, lv),
         t \notin L, \A i \in Tab : t \notin K[i] /\ t \notin C[i], ~ Stale(lv, t)
  PROVE  HeldOnce(K, [C EXCEPT ![k] = @ \cup {t}], S, L, H, lv)
<1> DEFINE C2 == [C EXCEPT ![k] = @ \cup {t}]
<1>1. C2[k] = C[k] \cup {t} /\ \A i \in Tab : i # k => C2[i] = C[i]
  OBVIOUS
<1> HIDE DEF C2
<1>2. \A i \in Tab : C2[i] \subseteq H /\ C2[i] \cap L = {}
  BY <1>1 DEF HeldOnce
<1>3. \A h, i \in Tab : C2[i] \cap K[h] = {}
  BY <1>1 DEF HeldOnce
<1>4. \A h, i \in Tab : h # i => C2[i] \cap C2[h] = {}
  BY <1>1 DEF HeldOnce
<1>5. \A i \in Tab : \A u \in C2[i] : ~ Stale(lv, u)
  BY <1>1 DEF HeldOnce
<1>6. HeldOnce(K, C2, S, L, H, lv)
  BY <1>2, <1>3, <1>4, <1>5 DEF HeldOnce
<1> QED
  BY <1>6 DEF C2
-----------------------------------------------------------------------------

LEMMA TokensAre ==
  /\ NoToken \notin Token /\ NoTab \notin Tab /\ NoLogin \notin Login
  /\ \A n \in Login : <<n, 1>> \in Token
  /\ \A t \in Token : Family(t) \in Login
BY WebSessionAssumption DEF NoToken, Token, Family

LEMMA PlacesAre ==
  /\ \A n \in Login \cup {NoLogin} :
       \A at \in {"closed", "app", "callback", "provider"} : PageAt(at, n) \in Page
  /\ Closed \in Page /\ NoJob \in Job
BY DEF PageAt, Closed, Page, NoJob, Job

LEMMA PageEdits ==
  ASSUME NEW p \in Page, NEW n \in Login \cup {NoLogin}
  PROVE  /\ [p EXCEPT !.leaving = TRUE, !.to = n] \in Page
         /\ [p EXCEPT !.at = "app", !.login = NoLogin] \in Page
<1>1. /\ \A q \in Page : [q EXCEPT !.leaving = TRUE] \in Page
      /\ \A q \in Page : [q EXCEPT !.to = n] \in Page
  BY DEF Page
<1>2. /\ \A q \in Page : [q EXCEPT !.at = "app"] \in Page
      /\ \A q \in Page : [q EXCEPT !.login = NoLogin] \in Page
  BY DEF Page
<1> QED
  BY <1>1, <1>2

LEMMA WebInit == SessionInit => WebInv
<1> SUFFICES ASSUME SessionInit PROVE WebInv
  OBVIOUS
<1> USE DEF SessionInit, Chain!Init
<1>0. \A k \in Tab : Own(k) = {} /\ job[k].does = "none"
  BY DEF Own, NoJob
<1>1. WebTypes
  BY PlacesAre DEF WebTypes
<1>2. Fetches
  BY <1>0 DEF Fetches, OneFetch
<1>3. Pages
  BY <1>0 DEF Pages, PageFits, PageAt, Closed
<1>4. Verifiers
  BY <1>0 DEF Verifiers, OnePlace, keptIn, takenIn, presented
<1>5. \A k \in Tab : kept[k] = {} /\ carried[k] = {}
  BY <1>0 DEF kept, carried
<1>6. Holders
  BY <1>5 DEF Holders, HeldOnce
<1>7. Sessions
  BY <1>5 DEF Sessions
<1> QED
  BY <1>1, <1>2, <1>3, <1>4, <1>6, <1>7 DEF WebInv

\* A change of the session is remembered with the refresh it has met.
LEMMA MeetsOwn ==
  ASSUME WebTypes, Fetches, NEW k \in Tab, Meets(k)
  PROVE  /\ \A f \in Own(k) : Family(f.old) = raced'[k]
         /\ \A j \in Tab \ {k} : raced'[j] = raced[j]
         /\ raced' \in [Tab -> Login \cup {NoLogin}]
<1>1. CASE k \in refreshInFlight
  <2>1. PICK f \in fetches : Own(k) = {f}
    BY <1>1 DEF Fetches, OneFetch
  <2>2. (CHOOSE g \in Own(k) : TRUE) = f
    BY <2>1
  <2>3. raced' = [raced EXCEPT ![k] = Family(f.old)]
    BY <1>1, <2>2 DEF Meets
  <2>4. Family(f.old) \in Login
    BY TokensAre DEF WebTypes, Fetch
  <2> QED
    BY <2>1, <2>3, <2>4 DEF WebTypes
<1>2. CASE k \notin refreshInFlight
  <2>1. Own(k) = {} /\ raced' = [raced EXCEPT ![k] = NoLogin]
    BY <1>2 DEF Fetches, OneFetch, Meets
  <2> QED
    BY <2>1 DEF WebTypes
<1> QED
  BY <1>1, <1>2

\* What a page that is loaded does to the types.
LEMMA LoadTypes ==
  ASSUME WebTypes, NEW k \in Tab, NEW p \in Page, Load(k, p)
  PROVE  /\ page' \in [Tab -> Page] /\ job' \in [Tab -> Job]
         /\ going' \in [Tab -> SUBSET Login]
         /\ fetches' \subseteq Fetch /\ rejected' \subseteq refreshInFlight'
         /\ refreshInFlight' \subseteq Tab
<1>1. Strays(k) \subseteq Fetch
  BY DEF WebTypes, Strays, Own, Fetch
<1> QED
  BY <1>1, PlacesAre DEF WebTypes, Load

LEMMA TypesStep ==
  ASSUME WebInv, [SessionNext]_sessionVars
  PROVE  WebTypes'
<1> USE TokensAre, PlacesAre DEF providerVars, tabs, history
<1>0. WebTypes /\ Fetches
  BY DEF WebInv
<1>1. ASSUME NEW k \in Tab, Leave(k) PROVE WebTypes'
  <2>1. page[k] \in Page
    BY <1>0 DEF WebTypes
  <2> DEFINE p == IF page[k].to = NoLogin THEN PageAt("app", NoLogin)
                                          ELSE PageAt("provider", page[k].to)
  <2>2. p \in Page
    BY <2>1 DEF Page
  <2>3. Load(k, p)
    BY <1>1 DEF Leave
  <2> HIDE DEF p
  <2> QED
    BY <1>0, <1>1, <2>2, <2>3, LoadTypes DEF WebTypes, Leave
<1>2. ASSUME NEW k \in Tab, Reload(k) PROVE WebTypes'
  <2>1. page[k] \in Page
    BY <1>0 DEF WebTypes
  <2> DEFINE p == IF Runs(k) THEN PageAt(page[k].at, page[k].login) ELSE PageAt("app", NoLogin)
  <2>2. p \in Page
    BY <2>1 DEF Page, Runs
  <2>3. Load(k, p)
    BY <1>2 DEF Reload
  <2> HIDE DEF p
  <2> QED
    BY <1>0, <1>2, <2>2, <2>3, LoadTypes DEF WebTypes, Reload
<1>3. ASSUME NEW k \in Tab, Close(k) PROVE WebTypes'
  BY <1>0, <1>3, LoadTypes DEF WebTypes, Close
<1>4. ASSUME NEW k \in Tab, NEW j \in Tab, Duplicate(k, j) PROVE WebTypes'
  <2>1. page[k] \in Page
    BY <1>0 DEF WebTypes
  <2>2. PageAt(page[k].at, page[k].login) \in Page
    BY <2>1 DEF Page
  <2> QED
    BY <1>0, <1>4, <2>2 DEF WebTypes, Duplicate
<1>5. ASSUME NEW k \in Tab, StartFetch(k), stored[k] # NoToken
      PROVE  fetches' \subseteq Fetch /\ refreshInFlight' = refreshInFlight \cup {k}
  <2>1. stored[k] \in Token
    BY <1>0, <1>5 DEF WebTypes
  <2>2. [tab |-> k, old |-> stored[k], step |-> "discover", new |-> NoToken] \in Fetch
    BY <2>1 DEF Fetch
  <2> QED
    BY <1>0, <1>5, <2>2 DEF WebTypes, StartFetch
<1>6. ASSUME NEW k \in Tab, Refresh(k) PROVE WebTypes'
  <2>1. fetches' \subseteq Fetch /\ refreshInFlight' = refreshInFlight \cup {k}
    BY <1>5, <1>6 DEF Refresh, MayRefresh
  <2> QED
    BY <1>0, <1>6, <2>1 DEF WebTypes, Refresh
<1>7. ASSUME NEW k \in Tab, ClearAll(k)
      PROVE  /\ stored' \in [Tab -> Token \cup {NoToken}]
             /\ pkce' \in [Tab -> Login \cup {NoLogin}] /\ page' \in [Tab -> Page]
             /\ given' \in [Tab -> Login \cup {NoLogin}]
  <2>1. [page[k] EXCEPT !.leaving = TRUE, !.to = NoLogin] \in Page
    BY <1>0, PageEdits DEF WebTypes
  <2> QED
    BY <1>0, <1>7, <2>1 DEF WebTypes, ClearAll
<1>8. ASSUME NEW k \in Tab, Unauthorized(k) PROVE WebTypes'
  <2>1. CASE stored[k] # NoToken /\ StartFetch(k) /\ rejected' = rejected \cup {k} /\
             UNCHANGED <<stored, pkce, page>>
    <3>1. fetches' \subseteq Fetch /\ refreshInFlight' = refreshInFlight \cup {k}
      BY <1>5, <2>1
    <3> QED
      BY <1>0, <1>8, <2>1, <3>1 DEF WebTypes, Unauthorized
  <2>2. CASE k \in refreshInFlight /\ rejected' = rejected \cup {k} /\
             UNCHANGED <<stored, pkce, page, refreshInFlight, fetches>>
    BY <1>0, <1>8, <2>2 DEF WebTypes, Unauthorized
  <2>3. CASE ClearAll(k) /\ UNCHANGED <<refreshInFlight, fetches, rejected>>
    BY <1>0, <1>7, <1>8, <2>3 DEF WebTypes, Unauthorized
  <2> QED
    BY <1>8, <2>1, <2>2, <2>3 DEF Unauthorized, MayRefresh
<1>9. ASSUME NEW k \in Tab, NEW n \in Login, BeginLogin(k, n) PROVE WebTypes'
  BY <1>0, <1>9 DEF WebTypes, BeginLogin
<1>10. ASSUME NEW k \in Tab, NEW n \in Login, Redirect(k, n) PROVE WebTypes'
  <2>1. [page[k] EXCEPT !.leaving = TRUE, !.to = n] \in Page
    BY <1>0, PageEdits DEF WebTypes
  <2> QED
    BY <1>0, <1>10, <2>1 DEF WebTypes, Redirect
<1>11. ASSUME NEW k \in Tab, NEW n \in Login, FailLogin(k, n) PROVE WebTypes'
  BY <1>0, <1>11 DEF WebTypes, FailLogin
<1>12. ASSUME NEW k \in Tab, IssueCode(k) PROVE WebTypes'
  <2>1. page[k].login \in begun /\ begun \subseteq Login
    BY <1>0, <1>12 DEF WebInv, WebTypes, Pages, PageFits, IssueCode
  <2>2. PageAt("callback", page[k].login) \in Page
    BY <2>1
  <2> QED
    BY <1>0, <1>12, <2>1, <2>2, LoadTypes DEF WebTypes, IssueCode
<1>13. ASSUME NEW k \in Tab, SkipCallback(k) PROVE WebTypes'
  <2>1. [page[k] EXCEPT !.at = "app", !.login = NoLogin] \in Page
    BY <1>0, PageEdits DEF WebTypes
  <2> QED
    BY <1>0, <1>13, <2>1 DEF WebTypes, SkipCallback
<1>14. ASSUME NEW k \in Tab, Callback(k) PROVE WebTypes'
  <2>1. [NoJob EXCEPT !.does = "callback", !.login = page[k].login,
                      !.verifier = pkce[k]] \in Job
    <3>1. page[k] \in Page /\ pkce[k] \in Login \cup {NoLogin}
      BY <1>0 DEF WebTypes
    <3> QED
      BY <3>1 DEF Page, Job, NoJob
  <2> QED
    BY <1>0, <1>14, <2>1 DEF WebTypes, Callback, TakeVerifier
<1>15. ASSUME NEW k \in Tab, SendCode(k) PROVE WebTypes'
  <2>1. [job[k] EXCEPT !.step = "sent"] \in Job
    BY <1>0 DEF WebTypes, Job
  <2> QED
    BY <1>0, <1>15, <2>1 DEF WebTypes, SendCode
<1>16. ASSUME NEW k \in Tab, ServeCode(k) PROVE WebTypes'
  <2> DEFINE n == job[k].login
             good == n \in issued \ spent /\ job[k].verifier = n
             token == IF good THEN <<n, 1>> ELSE NoToken
  <2>1. good => n \in Login /\ <<n, 1>> \in Token
    BY <1>0 DEF WebTypes
  <2>2. [job[k] EXCEPT !.step = "answered", !.token = token] \in Job
    BY <1>0, <2>1 DEF WebTypes, Job
  <2>3. job' \in [Tab -> Job]
    BY <1>0, <1>16, <2>2 DEF WebTypes, ServeCode
  <2>4. live' \subseteq Token \X Token /\ heir' = heir /\ handed' \subseteq Token
        /\ spent' \subseteq issued
    BY <1>0, <1>16, <2>1 DEF WebTypes, ServeCode, Chain!Start
  <2> QED
    BY <1>0, <1>16, <2>3, <2>4 DEF WebTypes, ServeCode
<1>17. ASSUME NEW k \in Tab, EndCallback(k) PROVE WebTypes'
  <2>1. [page[k] EXCEPT !.leaving = TRUE, !.to = NoLogin] \in Page /\ job[k] \in Job
    BY <1>0, PageEdits DEF WebTypes
  <2>2. job[k].token \in Token
    BY <1>17, <2>1 DEF EndCallback, Job
  <2> QED
    BY <1>0, <1>17, <2>1, <2>2, MeetsOwn DEF WebTypes, EndCallback, Job
<1>18. ASSUME NEW k \in Tab, FailCallback(k) PROVE WebTypes'
  BY <1>0, <1>18 DEF WebTypes, FailCallback
<1>19. ASSUME NEW k \in Tab, Logout(k) PROVE WebTypes'
  <2>1. [NoJob EXCEPT !.does = "logout", !.token = stored[k]] \in Job
    BY <1>0 DEF WebTypes, Job, NoJob
  <2> QED
    BY <1>0, <1>19, <2>1 DEF WebTypes, Logout
<1>20. ASSUME NEW k \in Tab, Revoke(k) PROVE WebTypes'
  <2>1. [job[k] EXCEPT !.step = "answered"] \in Job
    BY <1>0 DEF WebTypes, Job
  <2> QED
    BY <1>0, <1>20, <2>1 DEF WebTypes, Revoke, Chain!Drop
<1>21. ASSUME NEW k \in Tab, ClearOut(k) PROVE WebTypes'
  BY <1>0, <1>7, <1>21, MeetsOwn DEF WebTypes, ClearOut
<1>22. ASSUME NEW f \in fetches, SendRefresh(f) PROVE WebTypes'
  <2>1. [f EXCEPT !.step = "sent"] \in Fetch
    BY <1>0 DEF WebTypes, Fetch
  <2> QED
    BY <1>0, <1>22, <2>1 DEF WebTypes, SendRefresh
<1>23. ASSUME NEW f \in fetches, ServeRefresh(f) PROVE WebTypes'
  <2>1. f \in Fetch /\ f.old \in Token
    BY <1>0 DEF WebTypes, Fetch
  <2>2. \A t \in Token \cup {NoToken} :
          [f EXCEPT !.step = "answered", !.new = t] \in Fetch
    BY <2>1 DEF Fetch
  <2>3. fetches' \subseteq Fetch
    <3> DEFINE answer(t) ==
          fetches' = (fetches \ {f}) \cup
            (IF f.tab = NoTab THEN {} ELSE {[f EXCEPT !.step = "answered", !.new = t]})
    <3>1. \E t \in Token \cup {NoToken} : answer(t)
      BY <1>23 DEF ServeRefresh
    <3> QED
      BY <1>0, <2>2, <3>1 DEF WebTypes
  <2>4. live' \subseteq Token \X Token /\ heir' \subseteq Token \X Token
        /\ handed' \subseteq Token
    BY <1>0, <1>23, <2>1 DEF WebTypes, ServeRefresh, Chain!Redeem, Chain!Drop
  <2> QED
    BY <1>0, <1>23, <2>3, <2>4 DEF WebTypes, ServeRefresh
<1>24. ASSUME NEW f \in fetches, StoreRefresh(f) PROVE WebTypes'
  <2>1. f.new \in Token
    BY <1>0, <1>24 DEF WebTypes, Fetch, StoreRefresh
  <2> QED
    BY <1>0, <1>24, <2>1 DEF WebTypes, StoreRefresh, Settled
<1>25. ASSUME NEW f \in fetches, FailRefresh(f) PROVE WebTypes'
  <2>1. f \in Fetch /\ f.tab \in Tab
    BY <1>0, <1>25 DEF WebTypes, Fetch, FailRefresh
  <2>2. [f EXCEPT !.tab = NoTab] \in Fetch
    BY <2>1 DEF Fetch
  <2>3. /\ stored' \in [Tab -> Token \cup {NoToken}]
        /\ pkce' \in [Tab -> Login \cup {NoLogin}] /\ page' \in [Tab -> Page]
        /\ given' \in [Tab -> Login \cup {NoLogin}]
        /\ raced' \in [Tab -> Login \cup {NoLogin}]
    BY <1>0, <1>7, <1>25, <2>1 DEF WebTypes, FailRefresh
  <2> QED
    BY <1>0, <1>25, <2>2, <2>3 DEF WebTypes, FailRefresh, Settled
<1>26. CASE UNCHANGED sessionVars
  BY <1>0, <1>26 DEF WebTypes, sessionVars
<1> QED
  BY <1>1, <1>2, <1>3, <1>4, <1>6, <1>8, <1>9, <1>10, <1>11, <1>12, <1>13, <1>14, <1>15, <1>16,
     <1>17, <1>18, <1>19, <1>20, <1>21, <1>22, <1>23, <1>24, <1>25, <1>26 DEF SessionNext
-----------------------------------------------------------------------------

\* The refresh of a page that runs is the only one.
LEMMA OwnFetch ==
  ASSUME Fetches, NEW f \in fetches, f.tab \in Tab
  PROVE  f.tab \in refreshInFlight /\ Own(f.tab) = {f} /\ Runs(f.tab)
BY DEF Fetches, OneFetch, Own

\* The refreshes of the tabs after each kind of step.
LEMMA LoadOwn ==
  ASSUME WebTypes, NoTab \notin Tab, NEW k \in Tab, NEW p, Load(k, p)
  PROVE  Own(k)' = {} /\ \A j \in Tab \ {k} : Own(j)' = Own(j)
<1>1. \A g \in Strays(k) : g.tab = NoTab
  BY DEF Strays, Own, WebTypes, Fetch
<1> QED
  BY <1>1 DEF Load, Own

Started(k) == [tab |-> k, old |-> stored[k], step |-> "discover", new |-> NoToken]

LEMMA StartOwn ==
  ASSUME Fetches, NEW k \in Tab, k \notin refreshInFlight, StartFetch(k)
  PROVE  Own(k)' = {Started(k)} /\ \A j \in Tab \ {k} : Own(j)' = Own(j)
<1>1. Own(k) = {}
  BY DEF Fetches, OneFetch
<1>2. Started(k).tab = k /\ fetches' = fetches \cup {Started(k)}
  BY DEF StartFetch, Started
<1> QED
  BY <1>1, <1>2 DEF Own

LEMMA GoesOnOwn ==
  ASSUME Fetches, NEW f \in fetches, NEW g, g.tab = f.tab,
         fetches' = (fetches \ {f}) \cup {g}
  PROVE  \A j \in Tab : Own(j)' = IF j = f.tab THEN {g} ELSE Own(j)
<1>1. ASSUME NEW j \in Tab, j = f.tab PROVE Own(j)' = {g}
  <2>1. Own(j) = {f}
    BY <1>1, OwnFetch
  <2> QED
    BY <1>1, <2>1 DEF Own
<1>2. ASSUME NEW j \in Tab, j # f.tab PROVE Own(j)' = Own(j)
  BY <1>2 DEF Own
<1> QED
  BY <1>1, <1>2

LEMMA EndsOwn ==
  ASSUME Fetches, NoTab \notin Tab, NEW f \in fetches, NEW G,
         \A g \in G : g.tab = NoTab,
         fetches' = (fetches \ {f}) \cup G
  PROVE  \A j \in Tab : Own(j)' = IF j = f.tab THEN {} ELSE Own(j)
<1>1. ASSUME NEW j \in Tab, j = f.tab PROVE Own(j)' = {}
  <2>1. Own(j) = {f}
    BY <1>1, OwnFetch
  <2> QED
    BY <1>1, <2>1 DEF Own
<1>2. ASSUME NEW j \in Tab, j # f.tab PROVE Own(j)' = Own(j)
  BY <1>2 DEF Own
<1> QED
  BY <1>1, <1>2

-----------------------------------------------------------------------------

\* Steps that touch no refresh.
LEMMA FetchesSame ==
  ASSUME Fetches, UNCHANGED <<refreshInFlight, fetches>>, lost \subseteq lost',
         \A k \in Tab : Runs(k) => Runs(k)'
  PROVE  Fetches'
<1>1. \A k \in Tab : Own(k)' = Own(k)
  BY DEF Own
<1>2. \A f \in fetches : FetchFits(f) => FetchFits(f)'
  BY DEF FetchFits
<1> QED
  BY <1>1, <1>2 DEF Fetches, OneFetch

LEMMA LoadFetches ==
  ASSUME WebTypes, Fetches, NEW k \in Tab, NEW p, Load(k, p)
  PROVE  Fetches'
<1>1. \A j \in Tab \ {k} : Runs(j)' = Runs(j)
  BY DEF Load, Runs, WebTypes
<1>2. \A j \in Tab : OneFetch(j)'
  <2>1. OneFetch(k)'
    BY LoadOwn, TokensAre DEF OneFetch, Load
  <2>2. ASSUME NEW j \in Tab \ {k} PROVE OneFetch(j)'
    <3>1. Own(j)' = Own(j) /\ (j \in refreshInFlight' <=> j \in refreshInFlight)
      BY LoadOwn, TokensAre DEF Load
    <3>2. \A f : Own(j) = {f} => f \in fetches'
      BY <3>1 DEF Own
    <3> QED
      BY <1>1, <3>1, <3>2 DEF Fetches, OneFetch
  <2> QED
    BY <2>1, <2>2
<1>3. ASSUME NEW g \in Strays(k) PROVE FetchFits(g)'
  <2>1. PICK f \in fetches : f.tab = k /\ f.step = "sent" /\ g = [f EXCEPT !.tab = NoTab]
    BY DEF Strays, Own
  <2>2. f \in Fetch /\ FetchFits(f)
    BY DEF WebTypes, Fetches
  <2>3. f.old \in lost'
    BY <2>1 DEF Load, Own
  <2>4. g.tab = NoTab /\ g.step = "sent" /\ g.old = f.old /\ g.new = f.new
    BY <2>1, <2>2 DEF Fetch
  <2> QED
    BY <2>1, <2>2, <2>3, <2>4 DEF FetchFits
<1>4. \A f \in fetches : FetchFits(f)'
  BY DEF Fetches, FetchFits, Load
<1> QED
  BY <1>2, <1>3, <1>4 DEF Fetches, Load

LEMMA StartFetches ==
  ASSUME Fetches, NEW k \in Tab, Runs(k), k \notin refreshInFlight,
         StartFetch(k), UNCHANGED <<page, lost>>
  PROVE  Fetches'
<1>1. Started(k) \in fetches' /\ fetches' = fetches \cup {Started(k)}
      /\ refreshInFlight' = refreshInFlight \cup {k}
  BY DEF StartFetch, Started
<1>2. OneFetch(k)'
  BY <1>1, StartOwn DEF OneFetch, Runs
<1>3. ASSUME NEW j \in Tab \ {k} PROVE OneFetch(j)'
  BY <1>1, StartOwn DEF Fetches, OneFetch, Runs
<1>4. \A g : g = Started(k) => FetchFits(g)'
  BY TokensAre DEF FetchFits, Started
<1>5. \A f \in fetches : FetchFits(f)'
  BY DEF Fetches, FetchFits
<1>6. \A j \in Tab : OneFetch(j)'
  BY <1>2, <1>3
<1>7. \A f \in fetches' : FetchFits(f)'
  BY <1>1, <1>4, <1>5
<1> QED
  BY <1>6, <1>7 DEF Fetches

LEMMA GoesOnFetches ==
  ASSUME Fetches, NEW f \in fetches, NEW g, g.tab = f.tab, FetchFits(g),
         fetches' = (fetches \ {f}) \cup {g},
         UNCHANGED <<page, lost, refreshInFlight>>
  PROVE  Fetches'
<1>1. ASSUME NEW j \in Tab PROVE OneFetch(j)'
  <2>1. CASE j = f.tab
    BY <2>1, GoesOnOwn, OwnFetch DEF OneFetch, Runs
  <2>2. CASE j # f.tab
    <3>1. Own(j)' = Own(j)
      BY <2>2, GoesOnOwn
    <3>2. \A h : Own(j) = {h} => h \in fetches'
      BY <3>1 DEF Own
    <3> QED
      BY <3>1, <3>2 DEF Fetches, OneFetch, Runs
  <2> QED
    BY <2>1, <2>2
<1>2. \A h \in fetches' : FetchFits(h)'
  BY DEF Fetches, FetchFits
<1> QED
  BY <1>1, <1>2 DEF Fetches

LEMMA EndsFetches ==
  ASSUME Fetches, NEW f \in fetches, NEW G,
         \A g \in G : g.tab = NoTab /\ FetchFits(g)',
         fetches' = (fetches \ {f}) \cup G,
         Settled(f), lost \subseteq lost', \A k \in Tab : Runs(k) => Runs(k)'
  PROVE  Fetches'
<1>1. ASSUME NEW j \in Tab PROVE OneFetch(j)'
  <2>1. CASE j = f.tab
    BY <2>1, EndsOwn, TokensAre DEF OneFetch, Settled
  <2>2. CASE j # f.tab
    <3>1. Own(j)' = Own(j)
      BY <2>2, EndsOwn, TokensAre
    <3>2. \A h : Own(j) = {h} => h \in fetches'
      BY <3>1 DEF Own
    <3> QED
      BY <2>2, <3>1, <3>2 DEF Fetches, OneFetch, Settled
  <2> QED
    BY <2>1, <2>2
<1>2. \A h \in fetches : FetchFits(h)'
  BY DEF Fetches, FetchFits
<1> QED
  BY <1>1, <1>2 DEF Fetches

\* The page of a tab that goes on from its callback.
LEMMA Skipping ==
  ASSUME WebTypes, NEW k \in Tab,
         page' = [page EXCEPT ![k].at = "app", ![k].login = NoLogin]
  PROVE  \A j \in Tab : /\ page'[j].at = IF j = k THEN "app" ELSE page[j].at
                        /\ page'[j].login = IF j = k THEN NoLogin ELSE page[j].login
                        /\ page'[j].to = page[j].to
BY DEF WebTypes, Page

LEMMA FetchesStep ==
  ASSUME WebInv, [SessionNext]_sessionVars
  PROVE  Fetches'
<1> USE DEF providerVars, tabs, history
<1>0. WebTypes /\ Fetches
  BY DEF WebInv
<1>1. ASSUME NEW k \in Tab,
             \/ Leave(k) \/ Reload(k) \/ Close(k) \/ IssueCode(k)
      PROVE  Fetches'
  BY <1>0, <1>1, LoadFetches DEF Leave, Reload, Close, IssueCode
<1>2. ASSUME UNCHANGED <<refreshInFlight, fetches>>, lost \subseteq lost',
             \A j \in Tab : Runs(j) => Runs(j)'
      PROVE  Fetches'
  BY <1>0, <1>2, FetchesSame
<1>3. ASSUME UNCHANGED <<refreshInFlight, fetches, page, lost>> PROVE Fetches'
  BY <1>0, <1>3, FetchesSame DEF Runs
<1>4. ASSUME NEW k \in Tab, NEW j \in Tab, Duplicate(k, j) PROVE Fetches'
  BY <1>0, <1>2, <1>4 DEF Duplicate, PageAt, Runs, WebTypes
<1>6. ASSUME NEW k \in Tab, Refresh(k) PROVE Fetches'
  BY <1>0, <1>6, StartFetches DEF Refresh, MayRefresh
<1>7. ASSUME NEW k \in Tab, ClearAll(k), UNCHANGED <<refreshInFlight, fetches, lost>>
      PROVE  Fetches'
  BY <1>0, <1>2, <1>7 DEF WebTypes, Page, ClearAll, Runs
<1>8. ASSUME NEW k \in Tab, Unauthorized(k) PROVE Fetches'
  <2>1. CASE MayRefresh(k) /\ StartFetch(k) /\ UNCHANGED page
    BY <1>0, <1>8, <2>1, StartFetches DEF Unauthorized, MayRefresh, Runs
  <2>2. CASE UNCHANGED <<refreshInFlight, fetches>> /\ (ClearAll(k) \/ UNCHANGED page)
    BY <1>3, <1>7, <1>8, <2>2 DEF Unauthorized
  <2> QED
    BY <1>8, <2>1, <2>2 DEF Unauthorized
<1>9. ASSUME NEW k \in Tab, NEW n \in Login,
             BeginLogin(k, n) \/ Redirect(k, n) \/ FailLogin(k, n)
      PROVE  Fetches'
  <2>1. CASE Redirect(k, n)
    BY <1>0, <1>2, <2>1 DEF WebTypes, Page, Redirect, Runs
  <2> QED
    BY <1>3, <1>9, <2>1 DEF BeginLogin, FailLogin
<1>10. ASSUME NEW k \in Tab, SkipCallback(k) PROVE Fetches'
  <2>1. \A j \in Tab : page'[j].at = IF j = k THEN "app" ELSE page[j].at
    BY <1>0, <1>10, Skipping DEF SkipCallback
  <2>2. \A j \in Tab : Runs(j) => Runs(j)'
    BY <2>1 DEF Runs
  <2> QED
    BY <1>2, <1>10, <2>2 DEF SkipCallback
<1>11. ASSUME NEW k \in Tab, EndCallback(k) PROVE Fetches'
  BY <1>0, <1>2, <1>11 DEF WebTypes, Page, EndCallback, Runs
<1>12. ASSUME NEW k \in Tab, ClearOut(k) PROVE Fetches'
  BY <1>7, <1>12 DEF ClearOut
<1>13. ASSUME NEW k \in Tab,
              \/ Callback(k) \/ SendCode(k) \/ ServeCode(k) \/ FailCallback(k)
              \/ Logout(k) \/ Revoke(k)
       PROVE  Fetches'
  BY <1>3, <1>13
     DEF Callback, SendCode, ServeCode, FailCallback, Logout, Revoke
<1>14. ASSUME NEW f \in fetches PROVE f \in Fetch /\ FetchFits(f)
  BY <1>0 DEF WebTypes, Fetches
<1>15. ASSUME NEW f \in fetches, SendRefresh(f) PROVE Fetches'
  <2> DEFINE g == [f EXCEPT !.step = "sent"]
  <2>1. g.tab = f.tab /\ FetchFits(g)
    BY <1>14, <1>15 DEF Fetch, FetchFits, SendRefresh
  <2> HIDE DEF g
  <2>2. fetches' = (fetches \ {f}) \cup {g}
    BY <1>15 DEF SendRefresh, g
  <2> QED
    BY <1>0, <1>15, <2>1, <2>2, GoesOnFetches DEF SendRefresh
<1>16. ASSUME NEW f \in fetches, ServeRefresh(f) PROVE Fetches'
  <2> DEFINE next == <<Family(f.old), f.old[2] + 1>>
             answer(t) == [f EXCEPT !.step = "answered", !.new = t]
  <2>1. f.tab \in Tab \cup {NoTab} /\ f.old \in Token
    BY <1>14 DEF Fetch
  <2>2. Family(next) = Family(f.old) /\ next[2] > 1
    BY <2>1, TokensAre DEF Family, Token
  <2>3. CASE f.tab = NoTab
    <3>1. fetches' = (fetches \ {f}) \cup {}
      BY <1>16, <2>3 DEF ServeRefresh
    <3>2. Settled(f)
      BY <1>0, <1>16, <2>3, TokensAre DEF WebTypes, Settled, ServeRefresh
    <3> QED
      BY <1>0, <1>16, <3>1, <3>2, EndsFetches DEF ServeRefresh, Runs
  <2>4. CASE f.tab # NoTab
    <3>1. PICK t \in {NoToken, next} : fetches' = (fetches \ {f}) \cup {answer(t)}
      BY <1>16, <2>4 DEF ServeRefresh
    <3>2. /\ answer(t).tab = f.tab /\ answer(t).old = f.old /\ answer(t).new = t
          /\ answer(t).step = "answered"
      BY <1>14 DEF Fetch
    <3>3. FetchFits(answer(t))
      BY <2>2, <2>4, <3>1, <3>2 DEF FetchFits
    <3> HIDE DEF answer
    <3> QED
      BY <1>0, <1>16, <3>1, <3>2, <3>3, GoesOnFetches DEF ServeRefresh
  <2> QED
    BY <2>3, <2>4
<1>17. ASSUME NEW f \in fetches, StoreRefresh(f) PROVE Fetches'
  <2> DEFINE G == {}
  <2>1. fetches' = (fetches \ {f}) \cup G /\ \A g \in G : g.tab = NoTab /\ FetchFits(g)'
    BY <1>17 DEF StoreRefresh
  <2> HIDE DEF G
  <2>2. Settled(f) /\ lost \subseteq lost' /\ \A k \in Tab : Runs(k) => Runs(k)'
    BY <1>17 DEF StoreRefresh, Runs
  <2> QED
    BY <1>0, <2>1, <2>2, EndsFetches
<1>18. ASSUME NEW f \in fetches, FailRefresh(f) PROVE Fetches'
  <2> DEFINE g == [f EXCEPT !.tab = NoTab]
             G == IF f.step = "sent" THEN {g} ELSE {}
  <2>1. fetches' = (fetches \ {f}) \cup G
    BY <1>18 DEF FailRefresh
  <2>2. g.tab = NoTab /\ g.step = f.step /\ g.old = f.old /\ g.new = f.new
    BY <1>14 DEF Fetch
  <2>3. f.step = "sent" => f.old \in lost' /\ f.new = NoToken
    BY <1>14, <1>18 DEF FailRefresh, FetchFits
  <2> HIDE DEF g
  <2>4. \A h \in G : h.tab = NoTab /\ FetchFits(h)'
    <3> SUFFICES ASSUME f.step = "sent" PROVE g.tab = NoTab /\ FetchFits(g)'
      OBVIOUS
    <3> QED
      BY <2>2, <2>3 DEF FetchFits
  <2>5. \A k \in Tab : Runs(k) => Runs(k)'
    <3>1. f.tab \in Tab
      BY <1>14, <1>18 DEF Fetch, FailRefresh
    <3>2. CASE ClearAll(f.tab)
      <4>1. /\ page'[f.tab].at = page[f.tab].at
            /\ \A k \in Tab \ {f.tab} : page'[k] = page[k]
        BY <1>0, <3>1, <3>2 DEF WebTypes, Page, ClearAll
      <4> QED
        BY <4>1 DEF Runs
    <3>3. ClearAll(f.tab) \/ page' = page
      BY <1>18 DEF FailRefresh
    <3> QED
      BY <3>2, <3>3 DEF Runs
  <2>6. Settled(f) /\ lost \subseteq lost'
    BY <1>18 DEF FailRefresh
  <2> HIDE DEF G
  <2> QED
    BY <1>0, <2>1, <2>4, <2>5, <2>6, EndsFetches
<1>19. CASE UNCHANGED sessionVars
  BY <1>3, <1>19 DEF sessionVars
<1> QED
  BY <1>1, <1>4, <1>6, <1>8, <1>9, <1>10, <1>11, <1>12, <1>13, <1>15, <1>16, <1>17, <1>18, <1>19
     DEF SessionNext
-----------------------------------------------------------------------------

LEMMA PagesBut ==
  ASSUME Pages, NEW k \in Tab, PageFits(k)', begun \subseteq begun', issued \subseteq issued',
         \A j \in Tab \ {k} : /\ page'[j] = page[j] /\ going'[j] = going[j]
                              /\ job'[j] = job[j]
  PROVE  Pages'
<1>1. ASSUME NEW j \in Tab \ {k} PROVE PageFits(j)'
  BY <1>1 DEF Pages, PageFits
<1> QED
  BY <1>1 DEF Pages

LEMMA LoadPages ==
  ASSUME WebTypes, Pages, NEW k \in Tab, NEW at, NEW n, Load(k, PageAt(at, n)),
         begun' = begun, issued \subseteq issued', n \in begun \cup {NoLogin},
         at = "provider" => n \in begun, at = "callback" => n \in issued'
  PROVE  Pages'
<1>1. /\ page'[k].at = at /\ page'[k].login = n /\ page'[k].to = NoLogin
      /\ going'[k] = {} /\ job'[k].does = "none"
  BY DEF WebTypes, Load, PageAt, NoJob
<1>2. PageFits(k)'
  BY <1>1 DEF PageFits
<1> QED
  BY <1>2, PagesBut DEF WebTypes, Load

\* The page, the logins that wait and the job change one at a time.
LEMMA PageChanges ==
  ASSUME WebTypes, Pages, NEW k \in Tab, UNCHANGED <<begun, issued, going>>,
         \A j \in Tab : /\ page'[j].at \in {page[j].at, "app"}
                        /\ page'[j].login \in {page[j].login, NoLogin}
                        /\ page'[j].to \in begun \cup {NoLogin}
                        /\ page'[j].at # "app" => page'[j].login = page[j].login,
         \A j \in Tab : job'[j].does = "callback" => job'[j] = job[j]
  PROVE  Pages'
<1> SUFFICES ASSUME NEW j \in Tab PROVE PageFits(j)'
  BY DEF Pages
<1>1. PageFits(j)
  BY DEF Pages
<1>2. /\ page'[j].login \in begun \cup {NoLogin}
      /\ page'[j].at = "provider" => page'[j].login \in begun
      /\ page'[j].at = "callback" => page'[j].login \in issued
  BY <1>1 DEF PageFits
<1> QED
  BY <1>1, <1>2 DEF PageFits

LEMMA PagesStep ==
  ASSUME WebInv, [SessionNext]_sessionVars
  PROVE  Pages'
<1> USE DEF providerVars, tabs, history
<1> WebTypes
  BY DEF WebInv
<1>0. Pages /\ (\A j \in Tab : PageFits(j))
  BY DEF WebInv, Pages
<1>1. ASSUME NEW k \in Tab, Leave(k) PROVE Pages'
  <2>1. PageFits(k)
    BY <1>0
  <2>2. CASE page[k].to = NoLogin
    BY <1>0, <1>1, <2>2, LoadPages DEF Leave
  <2>3. CASE page[k].to # NoLogin
    <3>1. Load(k, PageAt("provider", page[k].to)) /\ page[k].to \in begun
      BY <1>1, <2>1, <2>3 DEF Leave, PageFits
    <3> QED
      BY <1>0, <1>1, <3>1, LoadPages DEF Leave
  <2> QED
    BY <2>2, <2>3
<1>2. ASSUME NEW k \in Tab, Reload(k) PROVE Pages'
  <2>1. PageFits(k)
    BY <1>0
  <2>2. CASE Runs(k)
    <3>1. /\ Load(k, PageAt(page[k].at, page[k].login)) /\ page[k].at # "provider"
          /\ page[k].login \in begun \cup {NoLogin}
          /\ page[k].at = "callback" => page[k].login \in issued
      BY <1>2, <2>1, <2>2 DEF Reload, PageFits, Runs
    <3> QED
      BY <1>0, <1>2, <3>1, LoadPages DEF Reload
  <2>3. CASE ~ Runs(k)
    BY <1>0, <1>2, <2>3, LoadPages DEF Reload
  <2> QED
    BY <2>2, <2>3
<1>3. ASSUME NEW k \in Tab, Close(k) PROVE Pages'
  BY <1>0, <1>3, LoadPages DEF Close, Closed
<1>4. ASSUME NEW k \in Tab, NEW j \in Tab, Duplicate(k, j) PROVE Pages'
  <2>1. /\ page'[j].at = page[k].at /\ page'[j].login = page[k].login
        /\ page'[j].to = NoLogin /\ page[k].at # "provider"
    BY <1>0, <1>4 DEF WebTypes, Duplicate, PageAt, Runs
  <2>2. PageFits(j)'
    BY <1>0, <1>4, <2>1 DEF PageFits, Duplicate
  <2> QED
    BY <1>0, <1>4, <2>2, PagesBut DEF WebTypes, Duplicate
<1>5. ASSUME UNCHANGED <<begun, issued, going, page, job>> PROVE Pages'
  BY <1>0, <1>5 DEF Pages, PageFits
<1>6. ASSUME NEW k \in Tab, ClearAll(k), UNCHANGED <<begun, issued, going>>,
             \A j \in Tab : job'[j].does = "callback" => job'[j] = job[j]
      PROVE  Pages'
  <2>1. page' = [page EXCEPT ![k].leaving = TRUE, ![k].to = NoLogin]
    BY <1>6 DEF ClearAll
  <2>2. \A j \in Tab : /\ page'[j].at = page[j].at /\ page'[j].login = page[j].login
                       /\ (j = k => page'[j].to = NoLogin) /\ (j # k => page'[j].to = page[j].to)
    BY <2>1 DEF WebTypes, Page
  <2>3. \A j \in Tab : page'[j].to \in begun \cup {NoLogin}
    BY <1>0, <2>2 DEF PageFits
  <2> QED
    BY <1>0, <1>6, <2>2, <2>3, PageChanges
<1>7. ASSUME NEW k \in Tab, Unauthorized(k) PROVE Pages'
  BY <1>5, <1>6, <1>7 DEF Unauthorized
<1>8. ASSUME NEW k \in Tab, NEW n \in Login, BeginLogin(k, n) PROVE Pages'
  <2>1. PageFits(k)'
    BY <1>0, <1>8 DEF WebTypes, PageFits, BeginLogin
  <2> QED
    BY <1>0, <1>8, <2>1, PagesBut DEF WebTypes, BeginLogin
<1>9. ASSUME NEW k \in Tab, NEW n \in Login, Redirect(k, n) PROVE Pages'
  <2>1. n \in begun /\ going'[k] \subseteq begun
    BY <1>0, <1>9 DEF WebTypes, PageFits, Redirect
  <2>2. \A j \in Tab : /\ page'[j].at = page[j].at /\ page'[j].login = page[j].login
                       /\ (j = k => page'[j].to = n) /\ (j # k => page'[j].to = page[j].to)
    <3>1. page' = [page EXCEPT ![k].leaving = TRUE, ![k].to = n]
      BY <1>9 DEF Redirect
    <3> QED
      BY <3>1 DEF WebTypes, Page
  <2>3. PageFits(k)'
    <3>1. /\ page'[k].at = page[k].at /\ page'[k].login = page[k].login
          /\ page'[k].to \in begun
      BY <2>1, <2>2
    <3>2. PageFits(k) /\ UNCHANGED <<begun, issued, job>>
      BY <1>0, <1>9 DEF Redirect
    <3> QED
      BY <2>1, <3>1, <3>2 DEF PageFits
  <2> QED
    BY <1>0, <1>9, <2>3, PagesBut DEF WebTypes, Redirect
<1>10. ASSUME NEW k \in Tab, NEW n \in Login, FailLogin(k, n) PROVE Pages'
  <2>1. PageFits(k)'
    BY <1>0, <1>10 DEF WebTypes, PageFits, FailLogin
  <2> QED
    BY <1>0, <1>10, <2>1, PagesBut DEF WebTypes, FailLogin
<1>11. ASSUME NEW k \in Tab, IssueCode(k) PROVE Pages'
  <2>1. page[k].login \in begun /\ page[k].login \in issued'
    BY <1>0, <1>11 DEF PageFits, IssueCode
  <2> QED
    BY <1>0, <1>11, <2>1, LoadPages DEF IssueCode
<1>12. ASSUME NEW k \in Tab, SkipCallback(k) PROVE Pages'
  <2>1. \A j \in Tab : /\ page'[j].at = IF j = k THEN "app" ELSE page[j].at
                       /\ page'[j].login = IF j = k THEN NoLogin ELSE page[j].login
                       /\ page'[j].to = page[j].to
    BY <1>0, <1>12, Skipping DEF SkipCallback
  <2>2. \A j \in Tab : page[j].to \in begun \cup {NoLogin}
    BY <1>0 DEF PageFits
  <2> QED
    BY <1>0, <1>12, <2>1, <2>2, PageChanges DEF SkipCallback
<1>13. ASSUME NEW k \in Tab, Callback(k) PROVE Pages'
  <2>1. page[k].login \in issued /\ issued \subseteq begun /\ pkce[k] = page[k].login
    BY <1>0, <1>13 DEF WebTypes, PageFits, Callback
  <2>2. /\ job'[k].login = page[k].login /\ job'[k].verifier = page[k].login
        /\ job'[k].token = NoToken
    BY <1>0, <1>13, <2>1 DEF WebTypes, Callback, NoJob
  <2>3. PageFits(k)'
    BY <1>0, <1>13, <2>1, <2>2 DEF PageFits, Callback
  <2> QED
    BY <1>0, <1>13, <2>3, PagesBut DEF WebTypes, Callback
<1>14. ASSUME NEW k \in Tab, SendCode(k) PROVE Pages'
  <2>1. /\ job'[k].login = job[k].login /\ job'[k].verifier = job[k].verifier
        /\ job'[k].token = job[k].token /\ job'[k].does = job[k].does
    BY <1>0, <1>14 DEF WebTypes, SendCode, Job
  <2>2. PageFits(k)'
    BY <1>0, <1>14, <2>1 DEF PageFits, SendCode
  <2> QED
    BY <1>0, <1>14, <2>2, PagesBut DEF WebTypes, SendCode
<1>15. ASSUME NEW k \in Tab, ServeCode(k) PROVE Pages'
  <2>1. /\ job'[k].login = job[k].login /\ job'[k].verifier = job[k].verifier
        /\ job'[k].token \in {NoToken, <<job[k].login, 1>>} /\ job'[k].does = job[k].does
    BY <1>0, <1>15 DEF WebTypes, ServeCode, Job
  <2>2. PageFits(k)'
    BY <1>0, <1>15, <2>1 DEF PageFits, ServeCode
  <2> QED
    BY <1>0, <1>15, <2>2, PagesBut DEF WebTypes, ServeCode
<1>16. ASSUME NEW k \in Tab, EndCallback(k) PROVE Pages'
  <2>1. \A j \in Tab : /\ page'[j].at = page[j].at /\ page'[j].login = page[j].login
                       /\ (j = k => page'[j].to = NoLogin) /\ (j # k => page'[j].to = page[j].to)
    <3>1. page' = [page EXCEPT ![k].leaving = TRUE, ![k].to = NoLogin]
      BY <1>16 DEF EndCallback
    <3> QED
      BY <3>1 DEF WebTypes, Page
  <2>3. \A j \in Tab : page'[j].to \in begun \cup {NoLogin}
    BY <1>0, <2>1 DEF PageFits
  <2>2. \A j \in Tab : job'[j].does = "callback" => job'[j] = job[j]
    BY <1>0, <1>16 DEF WebTypes, EndCallback, NoJob
  <2> QED
    BY <1>0, <1>16, <2>1, <2>2, <2>3, PageChanges DEF EndCallback
<1>17. ASSUME NEW k \in Tab, FailCallback(k) PROVE Pages'
  <2>1. job'[k].does = "none"
    BY <1>0, <1>17 DEF WebTypes, FailCallback, NoJob
  <2>2. PageFits(k)'
    BY <1>0, <1>17, <2>1 DEF PageFits, FailCallback
  <2> QED
    BY <1>0, <1>17, <2>2, PagesBut DEF WebTypes, FailCallback
<1>18. ASSUME NEW k \in Tab, Logout(k) PROVE Pages'
  <2>1. job'[k].does = "logout"
    BY <1>0, <1>18 DEF WebTypes, Logout, NoJob
  <2>2. PageFits(k)'
    BY <1>0, <1>18, <2>1 DEF PageFits, Logout
  <2> QED
    BY <1>0, <1>18, <2>2, PagesBut DEF WebTypes, Logout
<1>19. ASSUME NEW k \in Tab, Revoke(k) PROVE Pages'
  <2>1. job'[k].does = "logout"
    BY <1>0, <1>19 DEF WebTypes, Revoke, Job
  <2>2. PageFits(k)'
    BY <1>0, <1>19, <2>1 DEF PageFits, Revoke
  <2> QED
    BY <1>0, <1>19, <2>2, PagesBut DEF WebTypes, Revoke
<1>20. ASSUME NEW k \in Tab, ClearOut(k) PROVE Pages'
  <2>1. \A j \in Tab : job'[j].does = "callback" => job'[j] = job[j]
    BY <1>0, <1>20 DEF WebTypes, ClearOut, NoJob
  <2> QED
    BY <1>6, <1>20, <2>1 DEF ClearOut
<1>21. ASSUME NEW f \in fetches, FailRefresh(f) PROVE Pages'
  <2>1. f.tab \in Tab
    BY <1>0, <1>21 DEF WebTypes, Fetch, FailRefresh
  <2> QED
    BY <1>5, <1>6, <1>21, <2>1 DEF FailRefresh
<1>22. ASSUME NEW k \in Tab, Refresh(k) PROVE Pages'
  BY <1>5, <1>22 DEF Refresh
<1>23. ASSUME NEW f \in fetches, SendRefresh(f) \/ ServeRefresh(f) \/ StoreRefresh(f)
       PROVE  Pages'
  BY <1>5, <1>23 DEF SendRefresh, ServeRefresh, StoreRefresh
<1>24. CASE UNCHANGED sessionVars
  BY <1>5, <1>24 DEF sessionVars
<1> QED
  BY <1>1, <1>2, <1>3, <1>4, <1>7, <1>8, <1>9, <1>10, <1>11, <1>12, <1>13, <1>14, <1>15, <1>16,
     <1>17, <1>18, <1>19, <1>20, <1>21, <1>22, <1>23, <1>24 DEF SessionNext
-----------------------------------------------------------------------------

\* Steps that bring no verifier anywhere.
LEMMA VerifiersLess ==
  ASSUME Verifiers, UNCHANGED <<sent, again>>, copied \subseteq copied', begun \subseteq begun',
         \A k \in Tab : keptIn'[k] \subseteq keptIn[k] /\ takenIn'[k] \subseteq takenIn[k]
  PROVE  Verifiers'
<1>1. presented' = presented
  BY DEF presented
<1>2. \A k \in Tab : keptIn'[k] \subseteq begun' /\ takenIn'[k] \subseteq begun'
  BY DEF Verifiers
<1>3. \A p \in sent' : p[1] = p[2] /\ p[1] \in begun'
  BY DEF Verifiers
<1>4. again' \subseteq copied'
  BY DEF Verifiers
<1>5. OnePlace(keptIn, takenIn, presented, copied)
  BY DEF Verifiers
<1>6. OnePlace(keptIn', takenIn', presented', copied')
  BY <1>1, <1>5 DEF OnePlace
<1> QED
  BY <1>2, <1>3, <1>4, <1>6 DEF Verifiers

\* A login is begun: its verifier is new.
LEMMA VerifierNew ==
  ASSUME WebTypes, Verifiers, NEW k \in Tab, NEW n \in Login, n \notin begun,
         begun' = begun \cup {n}, pkce' = [pkce EXCEPT ![k] = n],
         UNCHANGED <<job, sent, again, copied>>
  PROVE  Verifiers'
<1>1. takenIn' = takenIn /\ presented' = presented
  BY DEF takenIn, presented
<1>2. \A j \in Tab : keptIn'[j] \subseteq IF j = k THEN {n} ELSE keptIn[j]
  BY DEF WebTypes, keptIn
<1>3. \A j \in Tab : n \notin keptIn[j] /\ n \notin takenIn[j]
  BY DEF Verifiers
<1>4. n \notin presented
  BY DEF Verifiers, presented
<1>5. OnePlace(keptIn, takenIn, presented, copied)
  BY DEF Verifiers
<1>6. OnePlace(keptIn', takenIn, presented, copied)
  BY <1>2, <1>3, <1>4, <1>5 DEF OnePlace
<1>7. \A j \in Tab : keptIn'[j] \subseteq begun' /\ takenIn'[j] \subseteq begun'
  BY <1>1, <1>2 DEF Verifiers
<1> QED
  BY <1>1, <1>6, <1>7 DEF Verifiers

\* A storage is copied.
LEMMA VerifierCopied ==
  ASSUME Verifiers, NEW k \in Tab, NEW j \in Tab,
         \A i \in Tab : keptIn'[i] \subseteq IF i = j THEN keptIn[k] ELSE keptIn[i],
         copied' = copied \cup keptIn[k],
         UNCHANGED <<job, begun, sent, again>>
  PROVE  Verifiers'
<1>1. takenIn' = takenIn /\ presented' = presented
  BY DEF takenIn, presented
<1>2. OnePlace(keptIn, takenIn, presented, copied)
  BY DEF Verifiers
<1>3. OnePlace(keptIn', takenIn, presented, copied')
  BY <1>2 DEF OnePlace
<1>4. \A i \in Tab : keptIn'[i] \subseteq begun' /\ takenIn'[i] \subseteq begun'
  BY <1>1 DEF Verifiers
<1> QED
  BY <1>1, <1>3, <1>4 DEF Verifiers

\* A callback takes the verifier out of the storage ...
LEMMA VerifierTaken ==
  ASSUME Verifiers, NEW k \in Tab, NEW n, n \in keptIn[k],
         \A i \in Tab : keptIn'[i] \subseteq IF i = k THEN {} ELSE keptIn[i],
         \A i \in Tab : takenIn'[i] \subseteq IF i = k THEN {n} ELSE takenIn[i],
         UNCHANGED <<begun, sent, again, copied>>
  PROVE  Verifiers'
<1>1. presented' = presented
  BY DEF presented
<1>2. OnePlace(keptIn, takenIn, presented, copied)
  BY DEF Verifiers
<1>3. OnePlace(keptIn', takenIn', presented, copied)
  BY <1>2 DEF OnePlace
<1>4. \A i \in Tab : keptIn'[i] \subseteq begun' /\ takenIn'[i] \subseteq begun'
  BY DEF Verifiers
<1> QED
  BY <1>1, <1>3, <1>4 DEF Verifiers

\* ... and sends it.
LEMMA VerifierSent ==
  ASSUME Verifiers, NEW k \in Tab, NEW n, n \in takenIn[k],
         \A i \in Tab : takenIn'[i] \subseteq IF i = k THEN {} ELSE takenIn[i],
         sent' = sent \cup {<<n, n>>},
         again' = IF <<n, n>> \in sent THEN again \cup {n} ELSE again,
         UNCHANGED <<begun, pkce, copied>>
  PROVE  Verifiers'
<1>1. presented' = presented \cup {n} /\ keptIn' = keptIn
  BY DEF presented, keptIn
<1>2. OnePlace(keptIn, takenIn, presented, copied)
  BY DEF Verifiers
<1>3. <<n, n>> \in sent => n \in copied
  BY <1>2 DEF OnePlace, presented
<1>4. OnePlace(keptIn, takenIn', presented', copied)
  BY <1>1, <1>2 DEF OnePlace
<1>5. \A i \in Tab : keptIn'[i] \subseteq begun' /\ takenIn'[i] \subseteq begun'
  BY <1>1 DEF Verifiers
<1>6. \A p \in sent' : p[1] = p[2] /\ p[1] \in begun'
  BY DEF Verifiers
<1>7. again' \subseteq copied'
  BY <1>3 DEF Verifiers
<1> QED
  BY <1>1, <1>4, <1>5, <1>6, <1>7 DEF Verifiers

LEMMA VerifiersStep ==
  ASSUME WebInv, [SessionNext]_sessionVars
  PROVE  Verifiers'
<1> USE DEF providerVars, tabs, history
<1>0. WebTypes /\ Pages /\ Verifiers
  BY DEF WebInv
<1>1. ASSUME UNCHANGED <<sent, again>>, copied \subseteq copied', begun \subseteq begun',
             \A k \in Tab : pkce'[k] \in {pkce[k], NoLogin},
             \A k \in Tab : \/ job'[k] = job[k]
                            \/ job'[k].does # "callback" \/ job'[k].step # "discover"
      PROVE  Verifiers'
  <2>1. \A k \in Tab : keptIn'[k] \subseteq keptIn[k] /\ takenIn'[k] \subseteq takenIn[k]
    BY <1>1 DEF keptIn, takenIn
  <2> QED
    BY <1>0, <1>1, <2>1, VerifiersLess
<1>2. ASSUME UNCHANGED <<sent, again, copied, begun, pkce, job>> PROVE Verifiers'
  BY <1>1, <1>2
<1>3. \A k \in Tab : job[k] \in Job
  BY <1>0 DEF WebTypes
<1>4. ASSUME NEW k \in Tab, NEW p, Load(k, p), UNCHANGED <<pkce, begun, sent, again, copied>>
      PROVE  Verifiers'
  <2>1. \A j \in Tab : job'[j] = job[j] \/ job'[j].does # "callback"
    BY <1>0, <1>4 DEF WebTypes, Load, NoJob
  <2> QED
    BY <1>1, <1>4, <2>1
<1>5. ASSUME NEW k \in Tab, Leave(k) \/ Reload(k) \/ IssueCode(k) PROVE Verifiers'
  BY <1>4, <1>5 DEF Leave, Reload, IssueCode
<1>6. ASSUME NEW k \in Tab, Close(k) PROVE Verifiers'
  <2>1. \A j \in Tab : job'[j] = job[j] \/ job'[j].does # "callback"
    BY <1>0, <1>6 DEF WebTypes, Close, Load, NoJob
  <2>2. \A j \in Tab : pkce'[j] \in {pkce[j], NoLogin}
    BY <1>0, <1>6 DEF WebTypes, Close
  <2> QED
    BY <1>1, <1>6, <2>1, <2>2 DEF Close
<1>7. ASSUME NEW k \in Tab, NEW j \in Tab, Duplicate(k, j) PROVE Verifiers'
  <2>1. \A i \in Tab : keptIn'[i] \subseteq IF i = j THEN keptIn[k] ELSE keptIn[i]
    BY <1>0, <1>7 DEF WebTypes, Duplicate, keptIn
  <2>2. copied' = copied \cup keptIn[k]
    BY <1>7 DEF Duplicate, keptIn
  <2> QED
    BY <1>0, <1>7, <2>1, <2>2, VerifierCopied DEF Duplicate
<1>8. ASSUME NEW k \in Tab, ClearAll(k), UNCHANGED <<begun, sent, again, copied>>,
             \A j \in Tab : job'[j] = job[j] \/ job'[j].does # "callback"
      PROVE  Verifiers'
  <2>1. \A j \in Tab : pkce'[j] \in {pkce[j], NoLogin}
    BY <1>0, <1>8 DEF WebTypes, ClearAll
  <2> QED
    BY <1>1, <1>8, <2>1
<1>9. ASSUME NEW k \in Tab, Unauthorized(k) PROVE Verifiers'
  BY <1>2, <1>8, <1>9 DEF Unauthorized
<1>10. ASSUME NEW k \in Tab, NEW n \in Login, BeginLogin(k, n) PROVE Verifiers'
  BY <1>0, <1>10, VerifierNew DEF BeginLogin
<1>11. ASSUME NEW k \in Tab, NEW n \in Login, Redirect(k, n) \/ FailLogin(k, n)
       PROVE  Verifiers'
  BY <1>2, <1>11 DEF Redirect, FailLogin
<1>12. ASSUME NEW k \in Tab, Callback(k) PROVE Verifiers'
  <2> DEFINE n == pkce[k]
  <2>1. n \in issued /\ issued \subseteq begun /\ begun \subseteq Login
    BY <1>0, <1>12 DEF WebTypes, Pages, PageFits, Callback
  <2>2. n \in keptIn[k]
    BY <2>1, TokensAre DEF keptIn
  <2>3. \A i \in Tab : keptIn'[i] \subseteq IF i = k THEN {} ELSE keptIn[i]
    BY <1>0, <1>12 DEF WebTypes, Callback, TakeVerifier, keptIn
  <2>4. job'[k].login = n /\ \A i \in Tab : i # k => job'[i] = job[i]
    BY <1>0, <1>12 DEF WebTypes, Callback, NoJob
  <2>5. \A i \in Tab : takenIn'[i] \subseteq IF i = k THEN {n} ELSE takenIn[i]
    BY <2>4 DEF takenIn
  <2> HIDE DEF n
  <2> QED
    BY <1>0, <1>12, <2>2, <2>3, <2>5, VerifierTaken DEF Callback
<1>13. ASSUME NEW k \in Tab, SendCode(k) PROVE Verifiers'
  <2> DEFINE n == job[k].login
  <2>1. job[k].verifier = n /\ n \in takenIn[k]
    BY <1>0, <1>13 DEF Pages, PageFits, SendCode, takenIn
  <2>2. job'[k].step = "sent" /\ \A i \in Tab : i # k => job'[i] = job[i]
    BY <1>0, <1>13 DEF WebTypes, Job, SendCode
  <2>3. \A i \in Tab : takenIn'[i] \subseteq IF i = k THEN {} ELSE takenIn[i]
    BY <2>2 DEF takenIn
  <2>4. /\ sent' = sent \cup {<<n, n>>}
        /\ again' = IF <<n, n>> \in sent THEN again \cup {n} ELSE again
        /\ UNCHANGED <<begun, pkce, copied>>
    BY <1>13, <2>1 DEF SendCode
  <2> HIDE DEF n
  <2> QED
    BY <1>0, <2>1, <2>3, <2>4, VerifierSent
<1>14. ASSUME NEW k \in Tab, ServeCode(k) PROVE Verifiers'
  <2>1. \A j \in Tab : job'[j] = job[j] \/ job'[j].step # "discover"
    BY <1>0, <1>3, <1>14 DEF WebTypes, Job, ServeCode
  <2> QED
    BY <1>1, <1>14, <2>1 DEF ServeCode
<1>15. ASSUME NEW k \in Tab, EndCallback(k) \/ FailCallback(k) PROVE Verifiers'
  <2>1. \A j \in Tab : job'[j] = job[j] \/ job'[j].does # "callback"
    BY <1>0, <1>15 DEF WebTypes, NoJob, EndCallback, FailCallback
  <2> QED
    BY <1>1, <1>15, <2>1 DEF EndCallback, FailCallback
<1>16. ASSUME NEW k \in Tab, Logout(k) PROVE Verifiers'
  <2>1. \A j \in Tab : job'[j] = job[j] \/ job'[j].does # "callback"
    BY <1>0, <1>16 DEF WebTypes, NoJob, Logout
  <2> QED
    BY <1>1, <1>16, <2>1 DEF Logout
<1>17. ASSUME NEW k \in Tab, Revoke(k) PROVE Verifiers'
  <2>1. \A j \in Tab : job'[j] = job[j] \/ job'[j].step # "discover"
    BY <1>0, <1>3, <1>17 DEF WebTypes, Job, Revoke
  <2> QED
    BY <1>1, <1>17, <2>1 DEF Revoke
<1>18. ASSUME NEW k \in Tab, ClearOut(k) PROVE Verifiers'
  <2>1. \A j \in Tab : job'[j] = job[j] \/ job'[j].does # "callback"
    BY <1>0, <1>18 DEF WebTypes, NoJob, ClearOut
  <2> QED
    BY <1>8, <1>18, <2>1 DEF ClearOut
<1>19. ASSUME NEW f \in fetches, FailRefresh(f) PROVE Verifiers'
  <2>1. f.tab \in Tab
    BY <1>0, <1>19 DEF WebTypes, Fetch, FailRefresh
  <2> QED
    BY <1>2, <1>8, <1>19, <2>1 DEF FailRefresh
<1>20. ASSUME NEW k \in Tab, Refresh(k) \/ SkipCallback(k) PROVE Verifiers'
  BY <1>2, <1>20 DEF Refresh, SkipCallback
<1>21. ASSUME NEW f \in fetches, SendRefresh(f) \/ ServeRefresh(f) \/ StoreRefresh(f)
       PROVE  Verifiers'
  BY <1>2, <1>21 DEF SendRefresh, ServeRefresh, StoreRefresh
<1>22. CASE UNCHANGED sessionVars
  BY <1>2, <1>22 DEF sessionVars
<1> QED
  BY <1>5, <1>6, <1>7, <1>9, <1>10, <1>11, <1>12, <1>13, <1>14, <1>15, <1>16, <1>17, <1>18,
     <1>19, <1>20, <1>21, <1>22 DEF SessionNext
-----------------------------------------------------------------------------

\* Steps that bring no token anywhere.
LEMMA HoldersLess ==
  ASSUME Holders, UNCHANGED <<handed, reused>>,
         \A k \in Tab : kept'[k] \subseteq kept[k] /\ carried'[k] \subseteq carried[k],
         lost \subseteq lost', \A t \in lost' \ lost : \E k \in Tab : t \in kept[k],
         \A k \in Tab : spending[k] \cap kept'[k] \subseteq lost' \cup spending'[k],
         live' \subseteq live, \A t : Stale(live', t) => Stale(live, t)
  PROVE  Holders'
<1>1. HeldOnce(kept, carried, spending, lost, handed, live) /\ reused' \subseteq lost'
  BY DEF Holders
<1>2. HeldOnce(kept', carried', spending', lost', handed, live')
  BY <1>1, HeldLess
<1> QED
  BY <1>1, <1>2 DEF Holders

LEMMA SessionsLess ==
  ASSUME Sessions,
         \A k \in Tab : \/ kept'[k] = {}
                        \/ /\ kept'[k] \subseteq kept[k]
                           /\ given'[k] = given[k] /\ raced'[k] = raced[k]
  PROVE  Sessions'
<1> SUFFICES ASSUME NEW k \in Tab, NEW t \in kept'[k]
             PROVE  Family(t) \in {given'[k], raced'[k]}
  BY DEF Sessions
<1> QED
  BY DEF Sessions

\* What a tab holds, by its refresh.
LEMMA HeldBy ==
  ASSUME WebTypes, NEW k \in Tab
  PROVE  /\ Own(k) = {} =>
              kept[k] = {stored[k]} \ {NoToken} /\ spending[k] = {}
         /\ \A f \in Own(k) : f.old \in kept[k] /\ f.old \in Token
         /\ stored[k] # NoToken => stored[k] \in kept[k]
<1>1. \A f \in Own(k) : f.old \in Token
  BY DEF WebTypes, Own, Fetch
<1> QED
  BY <1>1, TokensAre DEF kept, spending

LEMMA SameHolders ==
  ASSUME Holders, Sessions, UNCHANGED <<stored, fetches, lost, handed, reused, given, raced>>,
         live' \subseteq live, \A t : Stale(live', t) => Stale(live, t),
         \A k \in Tab : \/ job'[k].does # "callback" \/ job'[k].token = NoToken
                        \/ job[k].does = "callback" /\ job'[k].token = job[k].token
  PROVE  Holders' /\ Sessions'
<1>1. \A k \in Tab : Own(k)' = Own(k)
  BY DEF Own
<1>2. \A k \in Tab : kept'[k] = kept[k] /\ spending'[k] = spending[k]
  BY <1>1 DEF kept, spending
<1>3. \A k \in Tab : carried'[k] \subseteq carried[k]
  BY <1>1 DEF carried
<1> QED
  BY <1>2, <1>3, HoldersLess, SessionsLess

LEMMA LoadHolders ==
  ASSUME WebTypes, Fetches, Holders, Sessions,
         NEW k \in Tab, NEW p, Load(k, p),
         UNCHANGED <<live, handed, reused>>,
         \A j \in Tab \ {k} : UNCHANGED <<stored[j], given[j], raced[j]>>,
         stored'[k] = NoToken \/ UNCHANGED <<stored[k], given[k], raced[k]>>
  PROVE  Holders' /\ Sessions'
<1>1. Own(k)' = {} /\ \A j \in Tab \ {k} : Own(j)' = Own(j)
  BY LoadOwn, TokensAre
<1>2. job'[k].does = "none" /\ \A j \in Tab \ {k} : job'[j] = job[j]
  BY DEF WebTypes, Load, NoJob
<1>3. /\ kept'[k] = {stored'[k]} \ {NoToken} /\ carried'[k] = {} /\ spending'[k] = {}
      /\ \A j \in Tab \ {k} : /\ kept'[j] = kept[j] /\ carried'[j] = carried[j]
                              /\ spending'[j] = spending[j]
  BY <1>1, <1>2 DEF kept, carried, spending
<1>4. kept'[k] \subseteq kept[k]
  BY <1>3, HeldBy
<1>5. lost' = lost \cup {f.old : f \in {g \in Own(k) : g.step # "discover"}}
  BY DEF Load
<1>6. \A t \in lost' \ lost : t \in kept[k]
  BY <1>5, HeldBy
<1>7. spending[k] \subseteq lost'
  BY <1>5 DEF spending, Fetches, FetchFits, Own
<1>8. Holders'
  BY <1>3, <1>4, <1>5, <1>6, <1>7, HoldersLess
<1> QED
  BY <1>3, <1>4, <1>8, SessionsLess


LEMMA DuplicateHolders ==
  ASSUME WebInv, NEW k \in Tab, NEW j \in Tab, Duplicate(k, j)
  PROVE  Holders' /\ Sessions'
<1>0. WebTypes /\ Fetches /\ Holders /\ Sessions
  BY DEF WebInv
<1> DEFINE T == {stored[k]} \ {NoToken}
           K2 == [kept EXCEPT ![j] = @ \cup T]
<1>1. Own(j) = {} /\ j # k
  BY <1>0 DEF Fetches, OneFetch, Duplicate, Runs
<1>2. /\ \A i \in Tab : Own(i)' = Own(i)
      /\ stored'[j] = stored[k] /\ (\A i \in Tab \ {j} : stored'[i] = stored[i])
      /\ lost' = lost \cup T /\ UNCHANGED <<job, live, handed, reused>>
  BY <1>0 DEF WebTypes, Duplicate, Own, providerVars
<1>3. /\ kept'[j] = T /\ (\A i \in Tab \ {j} : kept'[i] = kept[i])
      /\ \A i \in Tab : carried'[i] = carried[i] /\ spending'[i] = spending[i]
  BY <1>1, <1>2 DEF kept, carried, spending
<1>4. T \subseteq kept[k]
  BY DEF kept
<1>5. HeldOnce(K2, carried, spending, lost \cup T, handed, live)
  <2>1. kept = [i \in Tab |-> kept[i]]
    BY DEF kept
  <2> HIDE DEF T
  <2> QED
    BY <1>0, <1>4, <2>1, HeldCopied DEF Holders
<1>6. \A i \in Tab : kept'[i] \subseteq K2[i] /\ carried'[i] \subseteq carried[i]
  BY <1>3 DEF kept
<1> HIDE DEF T, K2
<1>7. HeldOnce(kept', carried', spending', lost', handed', live')
  BY <1>2, <1>3, <1>5, <1>6, HeldLess
<1>8. Holders'
  BY <1>0, <1>2, <1>7 DEF Holders
<1>9. /\ given'[j] = given[k] /\ raced'[j] = raced[k]
      /\ \A i \in Tab \ {j} : given'[i] = given[i] /\ raced'[i] = raced[i]
  BY <1>0 DEF WebTypes, Duplicate
<1>10. Sessions'
  BY <1>0, <1>3, <1>4, <1>9 DEF Sessions
<1> QED
  BY <1>8, <1>10

LEMMA StartHolders ==
  ASSUME WebInv, NEW k \in Tab, MayRefresh(k), StartFetch(k),
         UNCHANGED <<stored, job, live, handed, reused, lost, given, raced>>
  PROVE  Holders' /\ Sessions'
<1>0. WebTypes /\ Fetches /\ Holders /\ Sessions
  BY DEF WebInv
<1>1. Own(k) = {} /\ Own(k)' = {Started(k)} /\ \A j \in Tab \ {k} : Own(j)' = Own(j)
  BY <1>0, StartOwn DEF Fetches, OneFetch, MayRefresh
<1>2. Started(k).old = stored[k] /\ Started(k).new = NoToken
  BY DEF Started
<1>3. \A j \in Tab : kept'[j] = kept[j] /\ carried'[j] = carried[j]
  BY <1>1, <1>2 DEF kept, carried
<1>4. \A j \in Tab : spending'[j] = spending[j]
  BY <1>1, <1>2 DEF spending
<1> QED
  BY <1>0, <1>3, <1>4, HoldersLess, SessionsLess

\* The refresh of a tab goes on with the same token.
LEMMA GoesOnHeld ==
  ASSUME WebTypes, Fetches, NEW f \in fetches, f.tab \in Tab,
         NEW g, g.tab = f.tab, g.old = f.old, f.new = NoToken,
         fetches' = (fetches \ {f}) \cup {g},
         UNCHANGED <<stored, job>>
  PROVE  /\ kept' = kept
         /\ \A j \in Tab : carried'[j] \subseteq
              IF j = f.tab THEN carried[j] \cup ({g.new} \ {NoToken}) ELSE carried[j]
         /\ \A j \in Tab : spending'[j] =
              IF j = f.tab /\ g.new # NoToken THEN {f.old} ELSE spending[j]
<1>1. Own(f.tab) = {f} /\ \A j \in Tab : Own(j)' = IF j = f.tab THEN {g} ELSE Own(j)
  BY OwnFetch, GoesOnOwn
<1>2. \A j \in Tab : {h.old : h \in Own(j)'} = {h.old : h \in Own(j)}
  BY <1>1
<1>3. kept' = kept
  BY <1>2 DEF kept
<1>4. ASSUME NEW j \in Tab
      PROVE  carried'[j] \subseteq
               IF j = f.tab THEN carried[j] \cup ({g.new} \ {NoToken}) ELSE carried[j]
  BY <1>1 DEF carried
<1>5. ASSUME NEW j \in Tab
      PROVE  spending'[j] = IF j = f.tab /\ g.new # NoToken THEN {f.old} ELSE spending[j]
  BY <1>1 DEF spending
<1> QED
  BY <1>3, <1>4, <1>5

LEMMA SendHolders ==
  ASSUME WebInv, NEW f \in fetches, SendRefresh(f)
  PROVE  Holders' /\ Sessions'
<1>0. WebTypes /\ Fetches /\ Holders /\ Sessions
  BY DEF WebInv
<1> DEFINE g == [f EXCEPT !.step = "sent"]
<1>1. f \in Fetch /\ FetchFits(f) /\ f.step = "discover"
  BY <1>0 DEF WebTypes, Fetches, SendRefresh
<1>2. f.tab \in Tab /\ f.new = NoToken /\ g.tab = f.tab /\ g.old = f.old /\ g.new = NoToken
  BY <1>1 DEF Fetch, FetchFits
<1>3. fetches' = (fetches \ {f}) \cup {g}
      /\ UNCHANGED <<stored, job, live, handed, reused, lost, given, raced>>
  BY DEF SendRefresh, providerVars, tabs, history
<1> HIDE DEF g
<1>4. kept' = kept /\ \A j \in Tab : carried'[j] \subseteq carried[j] /\ spending'[j] = spending[j]
  <2>1. /\ kept' = kept
        /\ \A j \in Tab : carried'[j] \subseteq
             IF j = f.tab THEN carried[j] \cup ({g.new} \ {NoToken}) ELSE carried[j]
        /\ \A j \in Tab : spending'[j] =
             IF j = f.tab /\ g.new # NoToken THEN {f.old} ELSE spending[j]
    BY <1>0, <1>2, <1>3, GoesOnHeld
  <2> QED
    BY <1>2, <2>1
<1> QED
  BY <1>0, <1>3, <1>4, HoldersLess, SessionsLess

\* The end of a refresh, without its answer.
LEMMA EndsHeld ==
  ASSUME WebTypes, Fetches, NEW f \in fetches, f.tab \in Tab,
         NEW G, \A g \in G : g.tab = NoTab,
         fetches' = (fetches \ {f}) \cup G,
         UNCHANGED job
  PROVE  /\ kept'[f.tab] = {stored'[f.tab]} \ {NoToken}
         /\ spending'[f.tab] = {}
         /\ carried'[f.tab] = (IF job[f.tab].does = "callback" THEN {job[f.tab].token} ELSE {})
                              \ {NoToken}
         /\ \A j \in Tab \ {f.tab} :
              /\ carried'[j] = carried[j] /\ spending'[j] = spending[j]
              /\ stored'[j] = stored[j] => kept'[j] = kept[j]
<1>1. \A j \in Tab : Own(j)' = IF j = f.tab THEN {} ELSE Own(j)
  BY EndsOwn, TokensAre
<1> QED
  BY <1>1 DEF kept, carried, spending

LEMMA StoreHolders ==
  ASSUME WebInv, NEW f \in fetches, StoreRefresh(f)
  PROVE  Holders' /\ Sessions'
<1>0. WebTypes /\ Fetches /\ Pages /\ Holders /\ Sessions
  BY DEF WebInv
<1> DEFINE k == f.tab
           t == f.new
           K2 == [kept EXCEPT ![k] = @ \cup {t}]
           C2 == [carried EXCEPT ![k] = @ \ {t}]
           G == {}
<1>1. f \in Fetch /\ FetchFits(f) /\ f.step = "answered" /\ t # NoToken
  BY <1>0 DEF WebTypes, Fetches, StoreRefresh
<1>2. k \in Tab /\ Own(k) = {f} /\ t[2] > 1 /\ Family(t) = Family(f.old)
  BY <1>0, <1>1, OwnFetch DEF Fetch, FetchFits
<1>3. /\ stored' = [stored EXCEPT ![k] = t]
      /\ fetches' = (fetches \ {f}) \cup G /\ (\A g \in G : g.tab = NoTab)
      /\ UNCHANGED <<job, live, handed, reused, lost, given, raced>>
  BY DEF StoreRefresh, providerVars, tabs, history
<1>4. stored'[k] = t /\ \A j \in Tab \ {k} : stored'[j] = stored[j]
  BY <1>0, <1>2, <1>3 DEF WebTypes
<1>5. t \in carried[k]
  BY <1>1, <1>2 DEF carried
<1>6. HeldOnce(K2, C2, spending, lost, handed, live)
  <2>1. kept = [j \in Tab |-> kept[j]] /\ carried = [j \in Tab |-> carried[j]]
    BY DEF kept, carried
  <2> HIDE DEF k, t
  <2> QED
    BY <1>0, <1>2, <1>5, <2>1, HeldStored DEF Holders
<1> HIDE DEF G
<1>7. /\ kept'[k] = {t} /\ spending'[k] = {} /\ t \notin carried'[k]
      /\ carried'[k] \subseteq carried[k]
      /\ \A j \in Tab \ {k} : /\ carried'[j] = carried[j] /\ spending'[j] = spending[j]
                              /\ kept'[j] = kept[j]
  <2>1. /\ kept'[k] = {t} /\ spending'[k] = {}
        /\ \A j \in Tab \ {k} : /\ carried'[j] = carried[j] /\ spending'[j] = spending[j]
                                /\ kept'[j] = kept[j]
    BY <1>0, <1>1, <1>2, <1>3, <1>4, EndsHeld
  <2>2. carried'[k] = (IF job[k].does = "callback" THEN {job[k].token} ELSE {}) \ {NoToken}
    BY <1>0, <1>2, <1>3, EndsHeld
  <2>3. carried'[k] \subseteq carried[k]
    BY <1>2, <2>2 DEF carried
  <2>4. job[k].does = "callback" => job[k].token \in {NoToken, <<job[k].login, 1>>}
    BY <1>0, <1>2 DEF Pages, PageFits
  <2>5. t # <<job[k].login, 1>>
    BY <1>2
  <2> QED
    BY <2>1, <2>2, <2>3, <2>4, <2>5
<1>8. \A j \in Tab : kept'[j] \subseteq K2[j] /\ carried'[j] \subseteq C2[j]
  <2>1. kept'[k] \subseteq K2[k] /\ carried'[k] \subseteq C2[k]
    BY <1>2, <1>7 DEF kept, carried
  <2>2. ASSUME NEW j \in Tab \ {k} PROVE kept'[j] \subseteq K2[j] /\ carried'[j] \subseteq C2[j]
    BY <1>2, <1>7 DEF kept, carried
  <2> QED
    BY <2>1, <2>2
<1>9. \A j \in Tab : spending[j] \cap kept'[j] \subseteq lost' \cup spending'[j]
  <2>1. spending[k] = {f.old}
    BY <1>1, <1>2 DEF spending
  <2>2. f.old # t
    <3>1. f.old \in kept[k]
      BY <1>0, <1>2, HeldBy
    <3> HIDE DEF k, t
    <3> QED
      BY <1>0, <1>2, <1>5, <3>1 DEF Holders, HeldOnce
  <2> QED
    BY <1>7, <2>1, <2>2
<1> HIDE DEF K2, C2
<1>10. HeldOnce(kept', carried', spending', lost', handed', live')
  BY <1>3, <1>6, <1>8, <1>9, HeldLess
<1>11. Sessions'
  <2>1. Family(f.old) \in {given[k], raced[k]}
    BY <1>0, <1>2, HeldBy DEF Sessions
  <2> QED
    BY <1>0, <1>2, <1>3, <1>7, <2>1 DEF Sessions
<1> QED
  BY <1>0, <1>3, <1>10, <1>11 DEF Holders

LEMMA FailHolders ==
  ASSUME WebInv, NEW f \in fetches, FailRefresh(f)
  PROVE  Holders' /\ Sessions'
<1>0. WebTypes /\ Fetches /\ Holders /\ Sessions
  BY DEF WebInv
<1> DEFINE k == f.tab
<1>1. f \in Fetch /\ FetchFits(f)
  BY <1>0 DEF WebTypes, Fetches
<1>2. k \in Tab /\ Own(k) = {f}
  BY <1>0, <1>1, OwnFetch DEF Fetch, FailRefresh
<1> DEFINE G == IF f.step = "sent" THEN {[f EXCEPT !.tab = NoTab]} ELSE {}
<1>3. fetches' = (fetches \ {f}) \cup G /\ \A g \in G : g.tab = NoTab
  BY <1>1 DEF FailRefresh, Fetch
<1> HIDE DEF G
<1>4. /\ lost \subseteq lost' /\ lost' \subseteq lost \cup {f.old}
      /\ f.new # NoToken => f.old \in lost'
      /\ UNCHANGED <<job, live, handed, reused>>
  BY DEF FailRefresh, providerVars
<1>5. /\ \A j \in Tab \ {k} :
           stored'[j] = stored[j] /\ given'[j] = given[j] /\ raced'[j] = raced[j]
      /\ \/ stored'[k] = NoToken
         \/ stored'[k] = stored[k] /\ given'[k] = given[k] /\ raced'[k] = raced[k]
  BY <1>0, <1>2 DEF WebTypes, FailRefresh, ClearAll
<1>6. /\ kept'[k] = {stored'[k]} \ {NoToken}
      /\ carried'[k] = (IF job[k].does = "callback" THEN {job[k].token} ELSE {}) \ {NoToken}
      /\ \A j \in Tab \ {k} : /\ carried'[j] = carried[j] /\ spending'[j] = spending[j]
                              /\ stored'[j] = stored[j] => kept'[j] = kept[j]
  BY <1>0, <1>2, <1>3, <1>4, EndsHeld
<1>7. kept'[k] \subseteq kept[k] /\ carried'[k] \subseteq carried[k]
  <2>1. kept'[k] \subseteq kept[k]
    BY <1>0, <1>2, <1>5, <1>6, HeldBy
  <2>2. carried'[k] \subseteq carried[k]
    BY <1>2, <1>6 DEF carried
  <2> QED
    BY <2>1, <2>2
<1>8. f.old \in kept[k] /\ spending[k] \subseteq lost'
  <2>1. f.old \in kept[k]
    BY <1>0, <1>2, HeldBy
  <2>2. spending[k] \subseteq lost'
    BY <1>2, <1>4 DEF spending
  <2> QED
    BY <2>1, <2>2
<1> HIDE DEF k
<1>9. \A j \in Tab : kept'[j] \subseteq kept[j] /\ carried'[j] \subseteq carried[j]
  BY <1>5, <1>6, <1>7
<1>10. \A j \in Tab : spending[j] \cap kept'[j] \subseteq lost' \cup spending'[j]
  BY <1>6, <1>8
<1>11. \A t \in lost' \ lost : \E j \in Tab : t \in kept[j]
  BY <1>2, <1>4, <1>8
<1>12. Holders'
  BY <1>0, <1>4, <1>9, <1>10, <1>11, HoldersLess
<1>13. \A j \in Tab : \/ kept'[j] = {}
                      \/ /\ kept'[j] \subseteq kept[j]
                         /\ given'[j] = given[j] /\ raced'[j] = raced[j]
  BY <1>5, <1>6, <1>9
<1> QED
  BY <1>0, <1>12, <1>13, SessionsLess

\* A token is presented that cannot be redeemed, and its family may be lost.
LEMMA RefuseHolders ==
  ASSUME WebInv, NEW f \in fetches, f.step = "sent",
         <<Root(f.old), f.old>> \notin live,
         \/ /\ FamilyIn(live, f.old)
            /\ live' = {p \in live : p[1] # Root(f.old)} /\ reused' = reused \cup {f.old}
         \/ live' = live /\ reused' = reused,
         \/ f.tab = NoTab /\ fetches' = fetches \ {f}
         \/ f.tab # NoTab /\
            fetches' = (fetches \ {f}) \cup {[f EXCEPT !.step = "answered", !.new = NoToken]},
         UNCHANGED <<stored, job, handed, lost, given, raced>>
  PROVE  Holders' /\ Sessions'
<1>0. WebTypes /\ Fetches /\ Holders /\ Sessions
  BY DEF WebInv
<1> DEFINE g == [f EXCEPT !.step = "answered", !.new = NoToken]
<1>1. f \in Fetch /\ FetchFits(f)
  BY <1>0 DEF WebTypes, Fetches
<1>2. f.new = NoToken /\ g.tab = f.tab /\ g.old = f.old /\ g.new = NoToken
      /\ f.tab \in Tab \cup {NoTab} /\ NoTab \notin Tab
  BY <1>1, TokensAre DEF Fetch, FetchFits
<1> HIDE DEF g
<1>3. \A j \in Tab : /\ kept'[j] = kept[j] /\ carried'[j] \subseteq carried[j]
                     /\ spending'[j] = spending[j]
  <2>1. CASE f.tab = NoTab
    <3>1. fetches' = fetches \ {f}
      BY <2>1
    <3>2. \A j \in Tab : Own(j)' = Own(j)
      BY <1>2, <2>1, <3>1 DEF Own
    <3> QED
      BY <3>2 DEF kept, carried, spending
  <2>2. CASE f.tab # NoTab
    <3>1. fetches' = (fetches \ {f}) \cup {g}
      BY <2>2 DEF g
    <3>2. /\ kept' = kept
          /\ \A j \in Tab : carried'[j] \subseteq
               IF j = f.tab THEN carried[j] \cup ({g.new} \ {NoToken}) ELSE carried[j]
          /\ \A j \in Tab : spending'[j] =
               IF j = f.tab /\ g.new # NoToken THEN {f.old} ELSE spending[j]
      BY <1>0, <1>2, <2>2, <3>1, GoesOnHeld
    <3> QED
      BY <1>2, <3>2
  <2> QED
    BY <2>1, <2>2
<1>4. live' \subseteq live /\ \A t : Stale(live', t) => Stale(live, t)
  BY DEF Stale, FamilyIn
<1>5. HeldOnce(kept', carried', spending', lost', handed', live')
  BY <1>0, <1>3, <1>4, HeldLess DEF Holders
<1>6. reused' \subseteq lost'
  <2>1. ASSUME FamilyIn(live, f.old) PROVE f.old \in lost
    <3>1. CASE f.tab = NoTab
      BY <1>1, <3>1 DEF FetchFits
    <3>2. CASE f.tab # NoTab
      <4>1. f.tab \in Tab /\ Own(f.tab) = {f}
        BY <1>0, <1>2, <3>2, OwnFetch
      <4>2. f.old \in kept[f.tab]
        BY <1>0, <4>1, HeldBy
      <4>3. spending[f.tab] = {}
        BY <1>2, <4>1 DEF spending
      <4>4. Stale(live, f.old)
        BY <2>1 DEF Stale
      <4> QED
        BY <1>0, <4>1, <4>2, <4>3, <4>4 DEF Holders, HeldOnce
    <3> QED
      BY <3>1, <3>2
  <2> QED
    BY <1>0, <2>1 DEF Holders
<1>7. Holders'
  BY <1>5, <1>6 DEF Holders
<1> QED
  BY <1>0, <1>3, <1>7, SessionsLess

\* A token is redeemed.
LEMMA RedeemHolders ==
  ASSUME WebInv, NEW f \in fetches, f.step = "sent",
         NEW next, next \in Token, Family(next) = Family(f.old),
         <<Root(f.old), f.old>> \in live, next \notin handed,
         live' = (live \ {<<Root(f.old), f.old>>}) \cup {<<Root(f.old), next>>},
         handed' = handed \cup {next},
         \/ f.tab = NoTab /\ fetches' = fetches \ {f}
         \/ f.tab # NoTab /\
            fetches' = (fetches \ {f}) \cup {[f EXCEPT !.step = "answered", !.new = next]},
         UNCHANGED <<stored, job, reused, lost, given, raced>>
  PROVE  Holders' /\ Sessions'
<1>0. WebTypes /\ Fetches /\ Holders /\ Sessions
  BY DEF WebInv
<1> DEFINE g == [f EXCEPT !.step = "answered", !.new = next]
<1>1. f \in Fetch /\ FetchFits(f)
  BY <1>0 DEF WebTypes, Fetches
<1>2. f.new = NoToken /\ g.tab = f.tab /\ g.old = f.old /\ g.new = next
      /\ f.tab \in Tab \cup {NoTab} /\ NoTab \notin Tab /\ next # NoToken
  BY <1>1, TokensAre DEF Fetch, FetchFits
<1> HIDE DEF g
<1>3. HeldOnce(kept, carried, spending, lost, handed, live) /\ reused \subseteq lost
  BY <1>0 DEF Holders
<1>4. Root(next) = Root(f.old)
  BY DEF Root
<1>5. CASE f.tab = NoTab
  <2>1. fetches' = fetches \ {f}
    BY <1>5
  <2>2. \A j \in Tab : Own(j)' = Own(j)
    BY <1>2, <1>5, <2>1 DEF Own
  <2>3. kept' = kept /\ carried' = carried /\ spending' = spending
    BY <2>2 DEF kept, carried, spending
  <2>4. f.old \in lost
    BY <1>1, <1>5 DEF FetchFits
  <2>5. \A j \in Tab : f.old \notin carried[j]
    BY <1>3, <2>4 DEF HeldOnce
  <2>6. HeldOnce(kept, carried, spending, lost, handed', live')
    BY <1>3, <1>4, <2>4, <2>5, HeldRedeemed
  <2>7. Holders'
    BY <1>3, <2>3, <2>6 DEF Holders
  <2> QED
    BY <1>0, <2>3, <2>7, SessionsLess
<1>6. CASE f.tab # NoTab
  <2> DEFINE k == f.tab
             C2 == [carried EXCEPT ![k] = @ \cup {next}]
  <2>1. k \in Tab /\ Own(k) = {f}
    BY <1>0, <1>2, <1>6, OwnFetch
  <2>2. fetches' = (fetches \ {f}) \cup {g}
    BY <1>6 DEF g
  <2>3. /\ kept' = kept
        /\ \A j \in Tab : carried'[j] \subseteq
             IF j = f.tab THEN carried[j] \cup ({g.new} \ {NoToken}) ELSE carried[j]
        /\ \A j \in Tab : spending'[j] =
             IF j = f.tab /\ g.new # NoToken THEN {f.old} ELSE spending[j]
    BY <1>0, <1>2, <2>1, <2>2, GoesOnHeld
  <2>4. f.old \in kept[k] /\ spending[k] = {} /\ spending'[k] = {f.old}
        /\ \A j \in Tab \ {k} : spending'[j] = spending[j]
    <3>1. f.old \in kept[k]
      BY <1>0, <2>1, HeldBy
    <3>2. spending[k] = {}
      BY <1>2, <2>1 DEF spending
    <3> QED
      BY <1>2, <2>1, <2>3, <3>1, <3>2
  <2> HIDE DEF k
  <2>5. \A j \in Tab : f.old \notin carried[j]
    BY <1>3, <2>1, <2>4 DEF HeldOnce
  <2>6. \A j \in Tab : f.old \in kept[j] => f.old \in lost \cup spending'[j]
    BY <1>3, <2>1, <2>4 DEF HeldOnce
  <2>7. \A j \in Tab : spending[j] \subseteq spending'[j]
    BY <2>4
  <2>8. HeldOnce(kept, carried, spending', lost, handed', live')
    BY <1>3, <1>4, <2>5, <2>6, <2>7, HeldRedeemed
  <2>9. HeldOnce(kept, C2, spending', lost, handed', live')
    <3>1. carried = [j \in Tab |-> carried[j]]
      BY DEF carried
    <3>2. next \in handed' /\ next \notin lost
          /\ \A j \in Tab : next \notin kept[j] /\ next \notin carried[j]
      BY <1>3 DEF HeldOnce
    <3>3. ~ Stale(live', next)
      BY <1>4 DEF Stale
    <3> QED
      BY <2>1, <2>8, <3>1, <3>2, <3>3, HeldAnswered
  <2>10. \A j \in Tab : kept'[j] \subseteq kept[j] /\ carried'[j] \subseteq C2[j]
    BY <1>2, <2>3 DEF k, carried
  <2> HIDE DEF C2
  <2>11. HeldOnce(kept', carried', spending', lost', handed', live')
    BY <2>9, <2>10, HeldLess
  <2>12. Holders'
    BY <1>3, <2>11 DEF Holders
  <2> QED
    BY <1>0, <2>3, <2>12, SessionsLess
<1> QED
  BY <1>5, <1>6

LEMMA ServeHolders ==
  ASSUME WebInv, NEW f \in fetches, ServeRefresh(f)
  PROVE  Holders' /\ Sessions'
<1> DEFINE next == <<Family(f.old), f.old[2] + 1>>
           family == {p \in live : p[1] = Root(f.old)}
           answer(t) == fetches' = (fetches \ {f}) \cup
             (IF f.tab = NoTab THEN {} ELSE {[f EXCEPT !.step = "answered", !.new = t]})
<1>1. f.step = "sent" /\ UNCHANGED <<stored, job, lost, given, raced>>
  BY DEF ServeRefresh, tabs
<1>2. \/ /\ <<Root(f.old), f.old>> \in live /\ next \in Token /\ next \notin handed
         /\ live' = (live \ {<<Root(f.old), f.old>>}) \cup {<<Root(f.old), next>>}
         /\ handed' = handed \cup {next} /\ answer(next) /\ reused' = reused
      \/ /\ <<Root(f.old), f.old>> \notin live /\ family # {} /\ live' = live \ family
         /\ handed' = handed /\ reused' = reused \cup {f.old} /\ answer(NoToken)
      \/ family = {} /\ answer(NoToken) /\ UNCHANGED <<live, handed, reused>>
  BY DEF ServeRefresh, Chain!Redeem, Chain!Drop, Root
<1>3. \A t : answer(t) =>
        \/ f.tab = NoTab /\ fetches' = fetches \ {f}
        \/ f.tab # NoTab /\
           fetches' = (fetches \ {f}) \cup {[f EXCEPT !.step = "answered", !.new = t]}
  OBVIOUS
<1>4. family # {} <=> FamilyIn(live, f.old)
  BY DEF FamilyIn
<1>5. Family(next) = Family(f.old)
  BY DEF Family
<1>6. live \ family = {p \in live : p[1] # Root(f.old)}
  OBVIOUS
<1>7. <<Root(f.old), f.old>> \in live => family # {}
  OBVIOUS
<1> HIDE DEF next, family, answer
<1>8. CASE /\ <<Root(f.old), f.old>> \in live /\ next \in Token /\ next \notin handed
           /\ live' = (live \ {<<Root(f.old), f.old>>}) \cup {<<Root(f.old), next>>}
           /\ handed' = handed \cup {next} /\ answer(next) /\ reused' = reused
  <2>1. \/ f.tab = NoTab /\ fetches' = fetches \ {f}
        \/ f.tab # NoTab /\
           fetches' = (fetches \ {f}) \cup {[f EXCEPT !.step = "answered", !.new = next]}
    BY <1>3, <1>8
  <2> QED
    BY <1>1, <1>5, <1>8, <2>1, RedeemHolders
<1>9. CASE \/ /\ <<Root(f.old), f.old>> \notin live /\ family # {} /\ live' = live \ family
              /\ handed' = handed /\ reused' = reused \cup {f.old} /\ answer(NoToken)
           \/ family = {} /\ answer(NoToken) /\ UNCHANGED <<live, handed, reused>>
  <2>1. \/ f.tab = NoTab /\ fetches' = fetches \ {f}
        \/ f.tab # NoTab /\
           fetches' = (fetches \ {f}) \cup {[f EXCEPT !.step = "answered", !.new = NoToken]}
    BY <1>3, <1>9
  <2>2. /\ <<Root(f.old), f.old>> \notin live /\ handed' = handed
        /\ \/ /\ FamilyIn(live, f.old)
              /\ live' = {p \in live : p[1] # Root(f.old)} /\ reused' = reused \cup {f.old}
           \/ live' = live /\ reused' = reused
    BY <1>4, <1>6, <1>7, <1>9
  <2> QED
    BY <1>1, <2>1, <2>2, RefuseHolders
<1> QED
  BY <1>2, <1>8, <1>9

LEMMA ServeCodeHolders ==
  ASSUME WebInv, NEW k \in Tab, ServeCode(k)
  PROVE  Holders' /\ Sessions'
<1>0. WebTypes /\ Fetches /\ Pages /\ Holders /\ Sessions
  BY DEF WebInv
<1> DEFINE n == job[k].login
           t == <<n, 1>>
           good == n \in issued \ spent /\ job[k].verifier = n
           C2 == [carried EXCEPT ![k] = @ \cup {t}]
<1>1. UNCHANGED <<stored, fetches, given, raced, reused, lost>>
  BY DEF ServeCode, history
<1>2. /\ job'[k].does = "callback" /\ job'[k].token = IF good THEN t ELSE NoToken
      /\ \A j \in Tab \ {k} : job'[j] = job[j]
  BY <1>0 DEF WebTypes, Job, ServeCode
<1>3. CASE ~ good
  <2>1. live' = live /\ handed' = handed
    BY <1>3 DEF ServeCode
  <2>2. \A j \in Tab : \/ job'[j].does # "callback" \/ job'[j].token = NoToken
                       \/ job[j].does = "callback" /\ job'[j].token = job[j].token
    BY <1>2, <1>3
  <2> QED
    BY <1>0, <1>1, <2>1, <2>2, SameHolders
<1>4. CASE good
  <2>1. t \notin handed /\ live' = live \cup {<<t, t>>} /\ handed' = handed \cup {t}
    BY <1>4 DEF ServeCode, Chain!Start
  <2>2. job'[k].token = t /\ Root(t) = t
    BY <1>2, <1>4 DEF Root, Family
  <2>3. \A j \in Tab : Own(j)' = Own(j)
    BY <1>1 DEF Own
  <2>4. kept' = kept /\ spending' = spending
    BY <1>1, <2>3 DEF kept, spending
  <2> HIDE DEF t
  <2>5. \A j \in Tab : carried'[j] \subseteq C2[j]
    <3>1. carried'[k] \subseteq carried[k] \cup {t}
      BY <2>2, <2>3 DEF carried
    <3>2. \A j \in Tab \ {k} : carried'[j] = carried[j]
      BY <1>2, <2>3 DEF carried
    <3> QED
      BY <3>1, <3>2 DEF carried
  <2>6. HeldOnce(kept, C2, spending, lost, handed', live')
    <3>1. carried = [j \in Tab |-> carried[j]]
      BY DEF carried
    <3> QED
      BY <1>0, <2>1, <2>2, <3>1, HeldStarted DEF Holders
  <2> HIDE DEF C2
  <2>7. HeldOnce(kept', carried', spending', lost', handed', live')
    BY <1>1, <2>4, <2>5, <2>6, HeldLess
  <2>8. Holders'
    BY <1>0, <1>1, <2>7 DEF Holders
  <2> QED
    BY <1>0, <1>1, <2>4, <2>8, SessionsLess
<1> QED
  BY <1>3, <1>4

LEMMA EndCallbackHolders ==
  ASSUME WebInv, NEW k \in Tab, EndCallback(k)
  PROVE  Holders' /\ Sessions'
<1>0. WebTypes /\ Fetches /\ Pages /\ Holders /\ Sessions
  BY DEF WebInv
<1> DEFINE t == job[k].token
           K2 == [kept EXCEPT ![k] = @ \cup {t}]
           C2 == [carried EXCEPT ![k] = @ \ {t}]
<1>1. /\ job[k].does = "callback" /\ t # NoToken /\ t = <<job[k].login, 1>>
  BY <1>0 DEF EndCallback, Pages, PageFits
<1>2. /\ stored'[k] = t /\ job'[k].does = "none" /\ given'[k] = job[k].login
      /\ \A j \in Tab \ {k} : /\ stored'[j] = stored[j] /\ job'[j] = job[j]
                              /\ given'[j] = given[j]
  BY <1>0 DEF WebTypes, EndCallback, NoJob
<1>3. UNCHANGED <<fetches, live, handed, lost, reused>> /\ Meets(k)
  BY DEF EndCallback, providerVars
<1>4. \A j \in Tab : Own(j)' = Own(j)
  BY <1>3 DEF Own
<1>5. \A f \in Own(k) : f.new # t
  <2>1. \A f \in Own(k) : f.new # NoToken => f.new[2] > 1
    BY <1>0 DEF Fetches, FetchFits, Own
  <2>2. t[2] = 1
    BY <1>1
  <2> HIDE DEF t
  <2>3. ASSUME NEW f \in Own(k), f.new = t PROVE FALSE
    BY <1>1, <2>1, <2>2, <2>3
  <2> QED
    BY <2>3
<1>6. /\ spending' = spending /\ t \in carried[k]
      /\ kept'[k] \subseteq kept[k] \cup {t} /\ carried'[k] \subseteq carried[k] \ {t}
      /\ \A j \in Tab \ {k} : kept'[j] = kept[j] /\ carried'[j] = carried[j]
  <2>1. spending' = spending
    BY <1>4 DEF spending
  <2>2. t \in carried[k]
    BY <1>1 DEF carried
  <2>3. kept'[k] \subseteq kept[k] \cup {t} /\ \A j \in Tab \ {k} : kept'[j] = kept[j]
    BY <1>2, <1>4 DEF kept
  <2>4. carried'[k] \subseteq carried[k] \ {t} /\ \A j \in Tab \ {k} : carried'[j] = carried[j]
    BY <1>2, <1>4, <1>5 DEF carried
  <2> QED
    BY <2>1, <2>2, <2>3, <2>4
<1>7. HeldOnce(K2, C2, spending, lost, handed, live)
  <2>1. kept = [j \in Tab |-> kept[j]] /\ carried = [j \in Tab |-> carried[j]]
    BY DEF kept, carried
  <2> HIDE DEF t
  <2> QED
    BY <1>0, <1>6, <2>1, HeldStored DEF Holders
<1>8. \A j \in Tab : kept'[j] \subseteq K2[j] /\ carried'[j] \subseteq C2[j]
  <2> HIDE DEF t
  <2> QED
    BY <1>6 DEF kept, carried
<1> HIDE DEF K2, C2
<1>9. HeldOnce(kept', carried', spending', lost', handed', live')
  BY <1>3, <1>6, <1>7, <1>8, HeldLess
<1>10. Sessions'
  <2>1. /\ \A f \in Own(k) : Family(f.old) = raced'[k]
        /\ \A j \in Tab \ {k} : raced'[j] = raced[j]
    BY <1>0, <1>3, MeetsOwn
  <2>2. Family(t) = given'[k]
    BY <1>1, <1>2 DEF Family
  <2>3. kept'[k] \subseteq {t} \cup {f.old : f \in Own(k)}
    BY <1>2, <1>4 DEF kept
  <2>4. \A u \in kept'[k] : Family(u) \in {given'[k], raced'[k]}
    BY <2>1, <2>2, <2>3
  <2>5. \A j \in Tab \ {k} : \A u \in kept'[j] : Family(u) \in {given'[j], raced'[j]}
    BY <1>0, <1>2, <1>6, <2>1 DEF Sessions
  <2> QED
    BY <2>4, <2>5 DEF Sessions
<1> QED
  BY <1>0, <1>3, <1>9, <1>10 DEF Holders

\* The session is cleared: of the tab, or with what a refresh of it will bring.
LEMMA ClearHolders ==
  ASSUME WebInv, NEW k \in Tab, ClearAll(k),
         UNCHANGED <<fetches, live, handed, lost, reused>>,
         \A j \in Tab : job'[j] = job[j] \/ job'[j].does # "callback",
         \A f \in Own(k) : Family(f.old) = raced'[k],
         \A j \in Tab \ {k} : raced'[j] = raced[j]
  PROVE  Holders' /\ Sessions'
<1>0. WebTypes /\ Fetches /\ Holders /\ Sessions
  BY DEF WebInv
<1>1. \A j \in Tab : Own(j)' = Own(j)
  BY DEF Own
<1>2. /\ stored'[k] = NoToken
      /\ \A j \in Tab \ {k} : stored'[j] = stored[j] /\ given'[j] = given[j]
  BY <1>0 DEF WebTypes, ClearAll
<1>3. /\ kept'[k] \subseteq {f.old : f \in Own(k)} /\ kept'[k] \subseteq kept[k]
      /\ \A j \in Tab \ {k} : kept'[j] = kept[j]
  BY <1>1, <1>2 DEF kept
<1>4. spending' = spending /\ \A j \in Tab : carried'[j] \subseteq carried[j]
  BY <1>1 DEF spending, carried
<1>5. \A j \in Tab : kept'[j] \subseteq kept[j]
  BY <1>3
<1>6. Holders'
  BY <1>0, <1>4, <1>5, HoldersLess
<1>7. \A u \in kept'[k] : Family(u) = raced'[k]
  BY <1>3
<1>8. \A j \in Tab \ {k} : \A u \in kept'[j] : Family(u) \in {given'[j], raced'[j]}
  BY <1>0, <1>2, <1>3 DEF Sessions
<1> QED
  BY <1>6, <1>7, <1>8 DEF Sessions

LEMMA HoldersStep ==
  ASSUME WebInv, [SessionNext]_sessionVars
  PROVE  Holders' /\ Sessions'
<1> USE DEF providerVars, tabs, history
<1>0. WebTypes /\ Fetches /\ Pages /\ Holders /\ Sessions
  BY DEF WebInv
<1>1. ASSUME NEW k \in Tab, Leave(k) PROVE Holders' /\ Sessions'
  BY <1>0, <1>1, LoadHolders DEF Leave
<1>2. ASSUME NEW k \in Tab, Reload(k) PROVE Holders' /\ Sessions'
  BY <1>0, <1>2, LoadHolders DEF Reload
<1>3. ASSUME NEW k \in Tab, IssueCode(k) PROVE Holders' /\ Sessions'
  BY <1>0, <1>3, LoadHolders DEF IssueCode
<1>4. ASSUME NEW k \in Tab, Close(k) PROVE Holders' /\ Sessions'
  <2>1. /\ Load(k, Closed) /\ stored'[k] = NoToken
        /\ \A j \in Tab \ {k} : UNCHANGED <<stored[j], given[j], raced[j]>>
        /\ UNCHANGED <<live, handed, reused>>
    BY <1>0, <1>4 DEF WebTypes, Close
  <2> QED
    BY <1>0, <2>1, LoadHolders
<1>5. ASSUME NEW k \in Tab, NEW j \in Tab, Duplicate(k, j) PROVE Holders' /\ Sessions'
  BY <1>5, DuplicateHolders
<1>6. ASSUME NEW k \in Tab, Refresh(k) PROVE Holders' /\ Sessions'
  BY <1>6, StartHolders DEF Refresh
<1>7. ASSUME NEW k \in Tab, Unauthorized(k) PROVE Holders' /\ Sessions'
  <2>1. CASE /\ k \in refreshInFlight
             /\ UNCHANGED <<stored, fetches, given, raced>>
    BY <1>0, <1>7, <2>1, SameHolders DEF Unauthorized
  <2>2. CASE MayRefresh(k) /\ StartFetch(k) /\ UNCHANGED <<stored, given, raced>>
    BY <1>7, <2>2, StartHolders DEF Unauthorized
  <2>3. CASE /\ k \notin refreshInFlight /\ stored[k] = NoToken /\ ClearAll(k)
             /\ raced' = [raced EXCEPT ![k] = NoLogin] /\ UNCHANGED fetches
    <3>1. Own(k) = {} /\ \A j \in Tab \ {k} : raced'[j] = raced[j]
      BY <1>0, <2>3 DEF Fetches, OneFetch, WebTypes
    <3> QED
      BY <1>7, <2>3, <3>1, ClearHolders DEF Unauthorized
  <2> QED
    BY <1>7, <2>1, <2>2, <2>3 DEF Unauthorized
<1>8. ASSUME UNCHANGED <<stored, fetches, lost, handed, live, reused, given, raced>>,
             \A j \in Tab : \/ job'[j].does # "callback" \/ job'[j].token = NoToken
                            \/ job[j].does = "callback" /\ job'[j].token = job[j].token
      PROVE  Holders' /\ Sessions'
  BY <1>0, <1>8, SameHolders
<1>9. ASSUME UNCHANGED <<stored, fetches, lost, handed, live, reused, given, raced, job>>
      PROVE  Holders' /\ Sessions'
  BY <1>8, <1>9
<1>10. ASSUME NEW k \in Tab, NEW n \in Login,
              BeginLogin(k, n) \/ Redirect(k, n) \/ FailLogin(k, n)
       PROVE  Holders' /\ Sessions'
  BY <1>9, <1>10 DEF BeginLogin, Redirect, FailLogin
<1>11. ASSUME NEW k \in Tab, SkipCallback(k) PROVE Holders' /\ Sessions'
  BY <1>9, <1>11 DEF SkipCallback
<1>12. ASSUME NEW k \in Tab, Callback(k) PROVE Holders' /\ Sessions'
  <2>1. job'[k].token = NoToken /\ \A j \in Tab \ {k} : job'[j] = job[j]
    BY <1>0, <1>12 DEF WebTypes, Callback, NoJob
  <2> QED
    BY <1>8, <1>12, <2>1 DEF Callback
<1>13. ASSUME NEW k \in Tab, SendCode(k) PROVE Holders' /\ Sessions'
  <2>1. /\ job[k].does = "callback" /\ job'[k].token = job[k].token
        /\ \A j \in Tab \ {k} : job'[j] = job[j]
    BY <1>0, <1>13 DEF WebTypes, Job, SendCode
  <2> QED
    BY <1>8, <1>13, <2>1 DEF SendCode
<1>14. ASSUME NEW k \in Tab, ServeCode(k) PROVE Holders' /\ Sessions'
  BY <1>14, ServeCodeHolders
<1>15. ASSUME NEW k \in Tab, EndCallback(k) PROVE Holders' /\ Sessions'
  BY <1>15, EndCallbackHolders
<1>16. ASSUME NEW k \in Tab, FailCallback(k) PROVE Holders' /\ Sessions'
  <2>1. job'[k].token = NoToken /\ \A j \in Tab \ {k} : job'[j] = job[j]
    BY <1>0, <1>16 DEF WebTypes, FailCallback, NoJob
  <2> QED
    BY <1>8, <1>16, <2>1 DEF FailCallback
<1>17. ASSUME NEW k \in Tab, Logout(k) PROVE Holders' /\ Sessions'
  <2>1. job'[k].does = "logout" /\ \A j \in Tab \ {k} : job'[j] = job[j]
    BY <1>0, <1>17 DEF WebTypes, Logout, NoJob
  <2> QED
    BY <1>8, <1>17, <2>1 DEF Logout
<1>18. ASSUME NEW k \in Tab, Revoke(k) PROVE Holders' /\ Sessions'
  <2>1. job'[k].does = "logout" /\ \A j \in Tab \ {k} : job'[j] = job[j]
    BY <1>0, <1>18 DEF WebTypes, Job, Revoke
  <2>2. live' = {p \in live : Family(p[1]) # Family(job[k].token)} /\ handed' = handed
    BY <1>18 DEF Revoke, Chain!Drop
  <2>3. \A t : Family(Root(t)) = Family(t)
    BY DEF Root, Family
  <2>4. ASSUME NEW t, Stale(live', t) PROVE Stale(live, t)
    <3>1. PICK p \in live' : p[1] = Root(t)
      BY <2>4 DEF Stale, FamilyIn
    <3>2. Family(Root(t)) # Family(job[k].token)
      BY <2>2, <3>1
    <3>3. <<Root(t), t>>[1] = Root(t)
      OBVIOUS
    <3>4. <<Root(t), t>> \in live => <<Root(t), t>> \in live'
      BY <2>2, <3>2, <3>3
    <3> QED
      BY <2>2, <2>4, <3>1, <3>4 DEF Stale, FamilyIn
  <2> QED
    BY <1>0, <1>18, <2>1, <2>2, <2>4, SameHolders DEF Revoke
<1>19. ASSUME NEW k \in Tab, ClearOut(k) PROVE Holders' /\ Sessions'
  <2>1. /\ \A f \in Own(k) : Family(f.old) = raced'[k]
        /\ \A j \in Tab \ {k} : raced'[j] = raced[j]
    BY <1>0, <1>19, MeetsOwn DEF ClearOut
  <2>2. \A j \in Tab : job'[j] = job[j] \/ job'[j].does # "callback"
    BY <1>0, <1>19 DEF WebTypes, ClearOut, NoJob
  <2> QED
    BY <1>19, <2>1, <2>2, ClearHolders DEF ClearOut
<1>20. ASSUME NEW f \in fetches, SendRefresh(f) PROVE Holders' /\ Sessions'
  BY <1>20, SendHolders
<1>21. ASSUME NEW f \in fetches, ServeRefresh(f) PROVE Holders' /\ Sessions'
  BY <1>21, ServeHolders
<1>22. ASSUME NEW f \in fetches, StoreRefresh(f) PROVE Holders' /\ Sessions'
  BY <1>22, StoreHolders
<1>23. ASSUME NEW f \in fetches, FailRefresh(f) PROVE Holders' /\ Sessions'
  BY <1>23, FailHolders
<1>24. CASE UNCHANGED sessionVars
  BY <1>9, <1>24 DEF sessionVars
<1> QED
  BY <1>1, <1>2, <1>3, <1>4, <1>5, <1>6, <1>7, <1>10, <1>11, <1>12, <1>13, <1>14, <1>15, <1>16,
     <1>17, <1>18, <1>19, <1>20, <1>21, <1>22, <1>23, <1>24 DEF SessionNext
-----------------------------------------------------------------------------

\* The invariant above holds in every state: the client's own bookkeeping of its
\* requests, pages, verifiers and tokens.
THEOREM WebInvariance == SessionSpec => []WebInv
<1>1. SessionInit => WebInv
  BY WebInit
<1>2. WebInv /\ [SessionNext]_sessionVars => WebInv'
  BY TypesStep, FetchesStep, PagesStep, VerifiersStep, HoldersStep DEF WebInv
<1> QED
  BY <1>1, <1>2, PTL DEF SessionSpec

\* The types of the client's state; and refreshInFlight is set exactly while one
\* refresh of the page is under way (refreshStoredSession), so that its callers
\* share that one and the next can start.
THEOREM SessionTypeCorrect == SessionSpec => []SessionTypeOK
<1>1. ASSUME WebInv, NEW k \in Tab
      PROVE  Cardinality(Own(k)) = IF k \in refreshInFlight THEN 1 ELSE 0
  <2>1. CASE k \in refreshInFlight
    <3>1. PICK f \in fetches : Own(k) = {f}
      BY <1>1, <2>1 DEF WebInv, Fetches, OneFetch
    <3> QED
      BY <2>1, <3>1, FS_Singleton
  <2>2. CASE k \notin refreshInFlight
    <3>1. Own(k) = {}
      BY <1>1, <2>2 DEF WebInv, Fetches, OneFetch
    <3> QED
      BY <2>2, <3>1, FS_EmptySet
  <2> QED
    BY <2>1, <2>2
<1>2. WebInv => SessionTypeOK
  BY <1>1 DEF WebInv, WebTypes, SessionTypeOK
<1> QED
  BY <1>2, WebInvariance, PTL

\* A refresh token is presented after its redemption only where its answer may
\* have been lost or the browser has copied the storage; a code is presented
\* with the verifier of its own login, and twice only by a copy: the single
\* flight of domain/refresh.ts and the verifier that handleCallback takes out
\* of the storage keep to what the provider punishes otherwise.
THEOREM PresentedOnce == SessionSpec => []SentOnce
<1>1. WebInv => SentOnce
  BY DEF WebInv, Holders, Verifiers, SentOnce
<1> QED
  BY <1>1, WebInvariance, PTL

\* The session of a tab is of its last login, or of the refresh that was under
\* way when a login or a logout changed it.
THEOREM SessionsAreOfLastLogin == SessionSpec => []SessionOfLastLogin
<1>1. ASSUME WebInv, NEW k \in Tab, stored[k] # NoToken
      PROVE  Family(stored[k]) \in {given[k], raced[k]}
  <2>1. stored[k] \in kept[k]
    BY <1>1 DEF kept
  <2> QED
    BY <1>1, <2>1 DEF WebInv, Sessions
<1>2. WebInv => SessionOfLastLogin
  BY <1>1 DEF SessionOfLastLogin
<1> QED
  BY <1>2, WebInvariance, PTL

===============================================================================
