----------------------------- MODULE AccessTokens -----------------------------
(***************************************************************************)
(* The keys that sign access tokens and ID tokens, from keygen's file over *)
(* the key rings of the provider's processes (app/auth/infra/jwt) to the   *)
(* JWKS cache of the API (app/api/infra/jwt), which many requests read and *)
(* refresh at once.                                                        *)
(*                                                                         *)
(* A ring is read once, when its process starts: from the file, or, when   *)
(* SIGNING_KEYS_FILE is unset, as one fresh key.  keygen writes the file   *)
(* in place.  Keys never repeat and a kid names one key, signatures are    *)
(* perfect, and one clock serves all.  A step of a handler that waits for  *)
(* nothing takes no time; only an exchange with the JWKS endpoint does,    *)
(* and the HTTP client ends it after FetchTimeout.                         *)
(***************************************************************************)
EXTENDS Integers, FiniteSets

CONSTANTS
  Kid,           \* signing keys, by their key ids
  NoKid,
  Proc,          \* processes of the provider
  Req,           \* API requests being served at one time
  CacheTTL,      \* how long the API takes a key set for fresh
  FetchTimeout,  \* the timeout of the API's HTTP client
  MaxTime        \* bound of the clock

ASSUME AccessTokensAssumption ==
  /\ NoKid \notin Kid
  /\ CacheTTL \in Nat \ {0} /\ FetchTimeout \in Nat
  /\ MaxTime \in Nat

VARIABLES
  now,        \* the clock
  fromFile,   \* whether SIGNING_KEYS_FILE is set
  file,       \* the key ring file
  draft,      \* the ring that keygen is writing, if it is
  ring,       \* the key ring of each process
  minted,     \* the keys made so far
  signed,     \* the keys that have signed a token
  keys,       \* the API's cache: the keys of the document fetched last ...
  fetchedAt,  \* ... and when
  req,        \* what each request of the API is doing
  current,    \* history: the keys of the file as keygen last completed it
  withdrawn,  \* history: when a process that published a key last stopped
  settled     \* history: since when every running process publishes a key

vars == <<now, fromFile, file, draft, ring, minted, signed, keys, fetchedAt,
          req, current, withdrawn, settled>>

keygen == <<file, draft, current>>
provider == <<ring, withdrawn, settled>>
api == <<keys, fetchedAt, req>>

-----------------------------------------------------------------------------
(* Key rings, tokens, requests. *)

\* The active key has its private part; of the others the public one is left.
Ring == [active : Kid, keys : SUBSET Kid]

NoRing == [active |-> NoKid, keys |-> {}]

NewRing(k) == [active |-> k, keys |-> {k}]

\* A write truncates the file first; a keygen that stops then leaves it so,
\* and neither keygen nor a process can read it any more.
File == [status : {"absent", "partial"}, ring : {NoRing}]
          \cup [status : {"whole"}, ring : Ring]

Running == {p \in Proc : ring[p] # NoRing}

\* /.well-known/jwks.json: the active key and the retired ones.
JWKS(p) == ring[p].keys

Request == [step : {"idle", "fetch", "served", "reread"},
            kid  : Kid \cup {NoKid},  \* the key its token names
            sent : Nat,              \* when its fetch began
            doc  : SUBSET Kid]       \* the document served to it

Idle == [step |-> "idle", kid |-> NoKid, sent |-> 0, doc |-> {}]

At(r, step) == req[r].step = step

Become(r, q) == req' = [req EXCEPT ![r] = q]

-----------------------------------------------------------------------------
Init ==
  /\ now = 0
  /\ fromFile \in BOOLEAN
  /\ file = [status |-> "absent", ring |-> NoRing]
  /\ draft = NoRing
  /\ ring = [p \in Proc |-> NoRing]
  /\ minted = {}
  /\ signed = {}
  /\ keys = {}
  /\ fetchedAt = - CacheTTL      \* the zero time: never fresh
  /\ req = [r \in Req |-> Idle]
  /\ current = {}
  /\ withdrawn = [k \in Kid |-> 0]
  /\ settled = [k \in Kid |-> 0]

(* keygen. *)

\* generateKey: the key pair and the thumbprint that names it.
Mint(k) == k \notin minted /\ minted' = minted \cup {k}

\* Fault: the file passes for whole before it is.
BadBeginWrite(new) ==
  /\ file' = [status |-> "whole", ring |-> NoRing]
  /\ draft' = new
  /\ UNCHANGED <<now, fromFile, signed, current, provider, api>>

BeginWrite(new) ==
  /\ file' = [status |-> "partial", ring |-> NoRing]
  /\ draft' = new
  /\ UNCHANGED <<now, fromFile, signed, current, provider, api>>

\* generateNewKeyFile refuses to replace a file.
Generate(k) ==
  /\ fromFile /\ draft = NoRing
  /\ file.status = "absent"
  /\ Mint(k)
  /\ BeginWrite(NewRing(k))

\* Fault: only the key that is active now is kept for verification.
BadDemote(old, k) == [active |-> k, keys |-> {k, old.active}]

\* Every key of the file is kept, by its public part.
Demote(old, k) == [active |-> k, keys |-> old.keys \cup {k}]

\* rotateKeyFile
Rotate(k) ==
  /\ fromFile /\ draft = NoRing
  /\ file.status = "whole"
  /\ Mint(k)
  /\ BeginWrite(Demote(file.ring, k))

EndWrite ==
  /\ draft # NoRing
  /\ file' = [status |-> "whole", ring |-> draft]
  /\ current' = draft.keys
  /\ draft' = NoRing
  /\ UNCHANGED <<now, fromFile, minted, signed, provider, api>>

\* keygen stops, or the disk is full, before the file is whole.
KeygenStops ==
  /\ draft # NoRing
  /\ draft' = NoRing
  /\ UNCHANGED <<now, fromFile, file, minted, signed, current, provider, api>>

-----------------------------------------------------------------------------
(* The processes of the provider. *)

\* History: who publishes a key changes with the rings.
Publish(rings) ==
  /\ ring' = rings
  /\ withdrawn' = [k \in Kid |->
       IF \E p \in Proc : k \in ring[p].keys \ rings[p].keys
       THEN now ELSE withdrawn[k]]
  /\ settled' = [k \in Kid |->
       IF \E p \in Proc : rings[p] # NoRing /\ k \notin rings[p].keys
       THEN MaxTime + 1 \* not settled
       ELSE IF settled[k] <= now THEN settled[k] ELSE now]

\* FileLoader.Load refuses a file that is absent or cannot be parsed; the
\* process exits then.  NewKeyRingFromMaterial keeps the private key of the
\* active entry and the public keys of all.
StartFromFile(p) ==
  /\ fromFile
  /\ ring[p] = NoRing
  /\ file.status = "whole"
  /\ Publish([ring EXCEPT ![p] = file.ring])
  /\ UNCHANGED <<now, fromFile, minted, signed, keygen, api>>

\* EphemeralLoader.Load
StartEphemeral(p, k) ==
  /\ ~ fromFile
  /\ ring[p] = NoRing
  /\ Mint(k)
  /\ Publish([ring EXCEPT ![p] = NewRing(k)])
  /\ UNCHANGED <<now, fromFile, signed, keygen, api>>

Stop(p) ==
  /\ ring[p] # NoRing
  /\ Publish([ring EXCEPT ![p] = NoRing])
  /\ UNCHANGED <<now, fromFile, minted, signed, keygen, api>>

\* The token endpoint signs access tokens and ID tokens with the active key.
Sign(p) ==
  /\ ring[p] # NoRing
  /\ signed' = signed \cup {ring[p].active}
  /\ UNCHANGED <<now, fromFile, minted, keygen, provider, api>>

\* MultiKeyVerifier.Verify has the key that the token names.
Verifies(p, k) == k \in ring[p].keys

-----------------------------------------------------------------------------
(* The requests of the API. *)

Fresh == now - fetchedAt < CacheTTL

\* getKey's first look, under the read lock, finds the key in a fresh cache or
\* goes on to fetch.  A request whose key is found ends there.
Lookup(r, k) ==
  /\ At(r, "idle")
  /\ k \in signed
  /\ ~ (k \in keys /\ Fresh)
  /\ Become(r, [step |-> "fetch", kid |-> k, sent |-> now, doc |-> {}])
  /\ UNCHANGED <<now, fromFile, minted, signed, keygen, provider, keys, fetchedAt>>

\* The endpoint answers; the answer may be on its way for a while.
Serve(r, p) ==
  /\ At(r, "fetch")
  /\ ring[p] # NoRing
  /\ Become(r, [req[r] EXCEPT !.step = "served", !.doc = JWKS(p)])
  /\ UNCHANGED <<now, fromFile, minted, signed, keygen, provider, keys, fetchedAt>>

\* Fault: the documents are merged, and a withdrawn key stays.
BadInstallMerged(r) ==
  /\ At(r, "served")
  /\ keys' = keys \cup req[r].doc
  /\ fetchedAt' = now
  /\ Become(r, [req[r] EXCEPT !.step = "reread"])
  /\ UNCHANGED <<now, fromFile, minted, signed, keygen, provider>>

\* Fault: a cache that has keys is taken for complete.
BadInstallOnce(r) ==
  /\ At(r, "served")
  /\ keys' = IF keys = {} THEN req[r].doc ELSE keys
  /\ fetchedAt' = now
  /\ Become(r, [req[r] EXCEPT !.step = "reread"])
  /\ UNCHANGED <<now, fromFile, minted, signed, keygen, provider>>

\* fetchJWKS replaces the cache under the write lock.
Install(r) ==
  /\ At(r, "served")
  /\ keys' = req[r].doc
  /\ fetchedAt' = now
  /\ Become(r, [req[r] EXCEPT !.step = "reread"])
  /\ UNCHANGED <<now, fromFile, minted, signed, keygen, provider>>

\* getKey's second look, under the read lock again: the request is refused if
\* the cache lacks its key now.
Reread(r) ==
  /\ At(r, "reread")
  /\ Become(r, Idle)
  /\ UNCHANGED <<now, fromFile, minted, signed, keygen, provider, keys, fetchedAt>>

\* No process answers, the timeout passes, the caller goes away, or the
\* answer is not a key set.  The request ends with the key of the cache then,
\* however old, or is refused; neither the cache nor its time changes.
FetchFails(r) ==
  /\ req[r].step \in {"fetch", "served"}
  /\ Become(r, Idle)
  /\ UNCHANGED <<now, fromFile, minted, signed, keygen, provider, keys, fetchedAt>>

\* Time passes while exchanges with the endpoint are under way, and else only
\* between requests.
Tick ==
  /\ now < MaxTime
  /\ \A r \in Req :
       /\ ~ At(r, "reread")
       /\ ~ At(r, "idle") => now < req[r].sent + FetchTimeout
  /\ now' = now + 1
  /\ UNCHANGED <<fromFile, minted, signed, keygen, provider, api>>

Next ==
  \/ \E k \in Kid : Generate(k) \/ Rotate(k)
  \/ EndWrite
  \/ KeygenStops
  \/ \E p \in Proc :
       \/ StartFromFile(p)
       \/ \E k \in Kid : StartEphemeral(p, k)
       \/ Stop(p)
       \/ Sign(p)
  \/ \E r \in Req :
       \/ \E k \in Kid : Lookup(r, k)
       \/ \E p \in Proc : Serve(r, p)
       \/ Install(r) \/ Reread(r) \/ FetchFails(r)
  \/ Tick

Spec == Init /\ [][Next]_vars

-----------------------------------------------------------------------------
(* Properties. *)

TypeOK ==
  /\ now \in 0..MaxTime
  /\ fromFile \in BOOLEAN
  /\ file \in File
  /\ draft \in Ring \cup {NoRing}
  /\ ring \in [Proc -> Ring \cup {NoRing}]
  /\ minted \subseteq Kid
  /\ signed \subseteq Kid
  /\ keys \subseteq Kid
  /\ fetchedAt \in Int
  /\ req \in [Req -> Request]
  /\ current \subseteq Kid
  /\ withdrawn \in [Kid -> 0..MaxTime]
  /\ settled \in [Kid -> 0..MaxTime + 1]

\* Rotation keeps tokens valid: a process that has loaded the newest file
\* verifies every token of any process, however many rotations ago it was signed.
OldTokensVerify ==
  fromFile =>
    \A p \in Running, k \in signed : ring[p].keys = current => Verifies(p, k)

Published(k) == \E p \in Proc : k \in JWKS(p)

\* A key that no process publishes any more (a restart without the file) is
\* honoured for less than CacheTTL and FetchTimeout together, whatever answers
\* were under way when it went, but by requests whose own fetch failed.
BoundedStaleness ==
  \A k \in keys :
    Fresh \/ (\E r \in Req : At(r, "reread") /\ req[r].kid = k) =>
      Published(k) \/ now - withdrawn[k] < CacheTTL + FetchTimeout

\* A rotation gets through to the API without a restart: once every process
\* has published a key for longer than a fetch may take, no request is refused
\* for want of it, in whatever order fetches end, but for requests whose own
\* fetch failed.
RolloutCompletes ==
  \A r \in Req :
    At(r, "reread") /\ req[r].kid \notin keys =>
      now <= settled[req[r].kid] + FetchTimeout

=============================================================================
