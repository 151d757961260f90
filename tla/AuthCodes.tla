------------------------------ MODULE AuthCodes ------------------------------
(***************************************************************************)
(* The authorization codes of app/auth: the authorization_codes table and  *)
(* the token requests that redeem its codes concurrently (POST /token with *)
(* grant_type=authorization_code), at the grain of their SQL statements:   *)
(*                                                                         *)
(*   FindByCode, Verify -> Consume's DELETE ... RETURNING -> Consume's     *)
(*   look at the clock -> the user, the signatures -> Save of the refresh  *)
(*   token, when offline_access was granted -> the answer                  *)
(*                                                                         *)
(* Each statement commits alone.  Codes never repeat, a code_challenge is  *)
(* met by one verifier, and the service and the database read one clock.   *)
(*                                                                         *)
(* Each operator Bad... is a form that the definition it stands before     *)
(* could have by mistake; it shows that the properties can fail.           *)
(***************************************************************************)
EXTENDS Naturals, FiniteSets, Functions

CONSTANTS
  Code,
  NoCode,
  Client,       \* clients registered for the authorization_code grant
  Refresher,    \* those of them registered for refresh_token, too
  Redirect,     \* redirect URIs
  Verifier,     \* PKCE verifiers, standing for their challenges, too
  Worker,       \* token requests being served at one time
  TTL,          \* the lifetime of a code, in ticks
  MaxTime       \* bound of the clock

ASSUME AuthCodesAssumption ==
  /\ NoCode \notin Code
  /\ Refresher \subseteq Client
  /\ TTL \in Nat \ {0} /\ MaxTime \in Nat

VARIABLES
  now,       \* the clock
  codes,     \* the table: a function on the codes stored in it
  req,       \* what each worker is doing
  issued,    \* history: the row of every code that was ever stored
  granted,   \* history: <<code, binding presented>> of the answers with tokens
  answers,   \* history: how often each code was answered with tokens
  families   \* history: how many refresh tokens were saved for each code

vars == <<now, codes, req, issued, granted, answers, families>>

-----------------------------------------------------------------------------
(* The table. *)

Binding == [client : Client, redirect : Redirect, verifier : Verifier]

\* offline says whether the scope of the code has offline_access.
Row == [bound : Binding, offline : BOOLEAN, expires : Nat]

Stored == DOMAIN codes

\* The row the queries with "expires_at > now()" see ...
Active(c) == c \in Stored /\ codes[c].expires > now

\* ... and those with "expires_at <= now()" delete.
Expired == {c \in Stored : codes[c].expires <= now}

\* IsExpired, and Consume, compare with After: not yet at expires itself.
Late(expires) == now > expires

Delete(S) == codes' = Restrict(codes, Stored \ S)

-----------------------------------------------------------------------------
(* The requests. *)

Steps == {"idle", "consume", "judge", "save", "answer"}

Request == [step  : Steps,
            code  : Code \cup {NoCode},
            shown : Binding \cup {NoCode},  \* what the client presents
            found : Row \cup {NoCode}]      \* the row FindByCode returned

Idle == [step |-> "idle", code |-> NoCode, shown |-> NoCode, found |-> NoCode]

At(w, step) == req[w].step = step

Become(w, r) == req' = [req EXCEPT ![w] = r]

Goto(w, step) == Become(w, [req[w] EXCEPT !.step = step])

Finish(w) == Become(w, Idle)

\* The worker has deleted the row of its code and not yet answered.
Claims(w, c) == req[w].step \in {"judge", "save", "answer"} /\ req[w].code = c

-----------------------------------------------------------------------------
Init ==
  /\ now = 0
  /\ codes = [c \in {} |-> NoCode]
  /\ req = [w \in Worker |-> Idle]
  /\ issued = [c \in {} |-> NoCode]
  /\ granted = {}
  /\ answers = [c \in Code |-> 0]
  /\ families = [c \in Code |-> 0]

\* Fault: redirect_uri is not stored with the code.
BadIssue(c, b, offline) ==
  /\ c \notin DOMAIN issued
  /\ LET row == [bound |-> [b EXCEPT !.redirect = NoCode],
                 offline |-> offline, expires |-> now + TTL]
         With(f) == [d \in DOMAIN f \cup {c} |-> IF d = c THEN row ELSE f[d]]
     IN  codes' = With(codes) /\ issued' = With(issued)
  /\ UNCHANGED <<now, req, granted, answers, families>>

\* GET /authorize ends with Save of a new code.
Issue(c, b, offline) ==
  /\ c \notin DOMAIN issued
  /\ LET row == [bound |-> b, offline |-> offline, expires |-> now + TTL]
         With(f) == [d \in DOMAIN f \cup {c} |-> IF d = c THEN row ELSE f[d]]
     IN  codes' = With(codes) /\ issued' = With(issued)
  /\ UNCHANGED <<now, req, granted, answers, families>>

\* FindByCode finds no active row, and evicts the row if it is there.
FindNothing(w, c) ==
  /\ At(w, "idle")
  /\ c \in Expired
  /\ Delete({c})
  /\ UNCHANGED <<now, req, issued, granted, answers, families>>

\* Fault: redirect_uri is only compared when the code is issued.
BadVerify(row, b) == row.bound.client = b.client /\ row.bound.verifier = b.verifier

\* The transformed verifier is the stored challenge.
VerifyChallenge(row, verifier) == row.bound.verifier = verifier

\* Verify: redirect_uri, client_id and code_verifier are those of the code.
Verify(row, b) ==
  /\ row.bound.redirect = b.redirect
  /\ row.bound.client = b.client
  /\ VerifyChallenge(row, b.verifier)

\* FindByCode returns a row that passes Verify (and the client, which must
\* authenticate when it is confidential, may use the grant).
Find(w, c, b) ==
  /\ At(w, "idle")
  /\ Active(c)
  /\ Verify(codes[c], b)
  /\ Become(w, [step |-> "consume", code |-> c, shown |-> b, found |-> codes[c]])
  /\ UNCHANGED <<now, codes, issued, granted, answers, families>>

\* Fault: the request goes by the row it has read before.
BadConsume(w) ==
  /\ At(w, "consume")
  /\ Goto(w, "judge")
  /\ Delete({req[w].code})
  /\ UNCHANGED <<now, issued, granted, answers, families>>

\* Consume: DELETE ... RETURNING expires_at, one row or none.
Consume(w) ==
  /\ At(w, "consume")
  /\ IF req[w].code \in Stored THEN Goto(w, "judge") ELSE Finish(w)
  /\ Delete({req[w].code})
  /\ UNCHANGED <<now, issued, granted, answers, families>>

\* Consume: the row is gone; a code that is too old is refused all the same.
\* After that the user is looked up and the tokens are signed.
Judge(w) ==
  /\ At(w, "judge")
  /\ IF Late(req[w].found.expires) THEN Finish(w)
     ELSE Goto(w, IF req[w].found.offline /\ req[w].found.bound.client \in Refresher
                  THEN "save" ELSE "answer")
  /\ UNCHANGED <<now, codes, issued, granted, answers, families>>

\* The refresh token of a new family: see RefreshTokens.
Save(w) ==
  /\ At(w, "save")
  /\ families' = [families EXCEPT ![req[w].code] = @ + 1]
  /\ Goto(w, "answer")
  /\ UNCHANGED <<now, codes, issued, granted, answers>>

\* 200 with the tokens.
Answer(w) ==
  /\ At(w, "answer")
  /\ granted' = granted \cup {<<req[w].code, req[w].shown>>}
  /\ answers' = [answers EXCEPT ![req[w].code] = @ + 1]
  /\ Finish(w)
  /\ UNCHANGED <<now, codes, issued, families>>

\* A request ends half way: a lookup, a signature or a statement returns an
\* error, the caller's context is cancelled or the process dies.
Fail(w) ==
  /\ ~ At(w, "idle")
  /\ Finish(w)
  /\ UNCHANGED <<now, codes, issued, granted, answers, families>>

\* PurgeExpired, run by the purge ticker.
Purge ==
  /\ Expired # {}
  /\ Delete(Expired)
  /\ UNCHANGED <<now, req, issued, granted, answers, families>>

Tick ==
  /\ now < MaxTime
  /\ now' = now + 1
  /\ UNCHANGED <<codes, req, issued, granted, answers, families>>

\* The steps of a request that has found its code.
Proceed(w) == Consume(w) \/ Judge(w) \/ Save(w) \/ Answer(w)

Next ==
  \/ \E c \in Code, b \in Binding, offline \in BOOLEAN : Issue(c, b, offline)
  \/ \E w \in Worker :
       \/ \E c \in Code : FindNothing(w, c) \/ \E b \in Binding : Find(w, c, b)
       \/ Proceed(w)
       \/ Fail(w)
  \/ Purge
  \/ Tick

Spec == Init /\ [][Next]_vars

-----------------------------------------------------------------------------
(* Properties. *)

TypeOK ==
  /\ now \in Nat
  /\ Stored \subseteq Code
  /\ \A c \in Stored : codes[c] \in Row
  /\ req \in [Worker -> Request]
  /\ DOMAIN issued \subseteq Code
  /\ \A c \in DOMAIN issued : issued[c] \in Row
  /\ granted \subseteq Code \X Binding
  /\ answers \in [Code -> Nat]
  /\ families \in [Code -> Nat]

\* However many requests present a code at once, or again later, at most one
\* is answered with tokens, and at most one refresh token family begins.
SingleUse ==
  \A c \in Code : answers[c] <= 1 /\ families[c] <= 1

\* A code that can still be redeemed has not led to any token, and is being
\* redeemed by nobody who has got past Consume.
OpenIsUnused ==
  \A c \in Stored :
    answers[c] = 0 /\ families[c] = 0 /\ \A w \in Worker : ~ Claims(w, c)

\* Tokens are only given to a request that presents the client, redirect_uri
\* and verifier that the code was bound to when it was issued.
GrantedAsBound ==
  \A g \in granted : g[1] \in DOMAIN issued /\ issued[g[1]].bound = g[2]

\* The table and the requests implement the contract of SingleGrant.  A code
\* whose row is gone is still open while the request that took it proceeds.
Contract == INSTANCE SingleGrant WITH
  open <- {<<c, issued[c].bound>> :
             c \in {d \in DOMAIN issued :
                      d \in Stored \/ \E w \in Worker : Claims(w, d)}},
  used <- DOMAIN issued

ContractSpec == Contract!Spec

=============================================================================
