---------------------------- MODULE Registrations ----------------------------
(***************************************************************************)
(* What app/auth has on record about a client and a user, how the admin    *)
(* API changes it, and what the endpoints grant by it while it changes:    *)
(* redirects and codes of /authorize and /consent, tokens of /token, what  *)
(* /userinfo and /introspect tell.                                         *)
(*                                                                         *)
(* Writes go through the writer pool; every read of a client or a user     *)
(* goes through the reader pool, whose server may lag behind.  A handler   *)
(* reads a registration more than once, and it may differ each time.       *)
(*                                                                         *)
(* There is one client and one user.  Whose code a code is and how often   *)
(* it is redeemed are matters of AuthCodes, the chains of refresh tokens   *)
(* of RefreshTokens, consents and sessions of AuthorizeFlow, and the       *)
(* statements of a deletion of Accounts: each is one step here, or a       *)
(* choice.  Secrets and passwords stand for their hashes.  The fields      *)
(* from, seen, asked and fits are history: the versions that a request has *)
(* looked at, the scope of the code that a token goes back to, and whether *)
(* the registration allowed that code.                                     *)
(*                                                                         *)
(* Each operator Bad... is a form that the definition it stands before     *)
(* could have by mistake; it shows that the properties can fail.           *)
(***************************************************************************)
EXTENDS Naturals, Sequences, FiniteSets

CONSTANTS
  Admin,        \* updates that may be under way at one time
  Worker,       \* requests that may be under way at one time
  Uri, BadUri,  \* absolute http(s) URIs, and anything else
  Secret,       \* client secrets and passwords
  NoSecret,     \* left blank; of a stored client: it is public
  None,         \* no row
  ClientForm,   \* what the bodies of the admin API say of the client
  UserForm,     \* ... and of the user: username, name and email
  Asked,        \* the scopes that requests ask for
  MaxVersions,  \* bound: versions of the tables
  MaxSerial,    \* bound: codes and refresh tokens
  MaxCodes      \* bound: codes, the first of them

Scope == {"openid", "offline_access", "profile", "email"}

GrantType == {"authorization_code", "refresh_token"}

Form == [uris   : SUBSET (Uri \cup {BadUri}),
         scopes : SUBSET Scope,
         types  : SUBSET {"code"},
         grants : SUBSET GrantType]

ASSUME RegistrationsAssumption ==
  /\ NoSecret \notin Secret /\ BadUri \notin Uri
  /\ None \notin [form : Form, secret : Secret \cup {NoSecret}]
                 \cup [form : UserForm, secret : Secret]
  /\ ClientForm \subseteq Form /\ Asked \subseteq SUBSET Scope
  /\ MaxVersions \in Nat \ {0} /\ {MaxSerial, MaxCodes} \subseteq Nat

VARIABLES
  log,      \* the versions of the two rows, in the order of the commits
  shown,    \* the version that the reader pool shows
  edit,     \* the updates under way
  req,      \* the requests under way
  session,  \* whether the browser has a session of the user
  codes,    \* the table auth_codes
  tokens,   \* the live rows of refresh_tokens
  serial    \* how many codes and refresh tokens were issued

vars == <<log, shown, edit, req, session, codes, tokens, serial>>

-----------------------------------------------------------------------------
(* The domain: clients, users, redirect URIs and scopes. *)

ClientRow == [form : Form, secret : Secret \cup {NoSecret}]

UserRow == [form : UserForm, secret : Secret]

Tables == [client : ClientRow \cup {None}, user : UserRow \cup {None}]

Public(f) == [form |-> f, secret |-> NoSecret]

Confidential(f, s) == [form |-> f, secret |-> s]

NewUser(p, s) == [form |-> p, secret |-> s]

IsConfidential(c) == c.secret # NoSecret

\* A public client needs no secret; a blank one is never right.
VerifySecret(c, s) == IsConfidential(c) => s = c.secret

VerifyPassword(u, s) == s # NoSecret /\ s = u.secret

NewRedirectURI(uri) == uri # BadUri

ValidateRedirectURI(c, uri) == uri \in c.form.uris

SupportsResponseType(c) == "code" \in c.form.types

SupportsGrantType(c, g) == g \in c.form.grants

\* openid is asked for by every request and allowed to every client.
ParseScope(s) == "openid" \in s

AllowsScope(c, s) == s \ {"openid"} \subseteq c.form.scopes

\* The scopes that a refresh may end with: none if it asks for too much.
Narrow(s, asked) ==
  IF asked = {} THEN {s} ELSE {asked} \cap SUBSET s

\* What an ID token and /userinfo say of the user.
Claims(s) ==
  {"sub"} \cup {claim \in {"name", "email"} :
                  IF claim = "name" THEN "profile" \in s ELSE "email" \in s}

-----------------------------------------------------------------------------
(* The tables and the reader pool. *)

Stored(id) == log[Len(log)][id]

Shown(id) == log[shown][id]

\* INSERT ... ON CONFLICT (id) DO UPDATE, or the DELETE of the account.
Write(id, row) ==
  /\ row # Stored(id) => Len(log) < MaxVersions
  /\ log' = IF row = Stored(id) THEN log
            ELSE Append(log, [log[Len(log)] EXCEPT ![id] = row])

Content == [scope : SUBSET Scope, asked : SUBSET Scope, fits : BOOLEAN]

Code == [id : 1 .. MaxSerial, grant : Content]

Token == [id : 1 .. MaxSerial, family : 1 .. MaxSerial, grant : Content]

NoEdit == [id |-> None]

Edit == [id : {"client", "user"}, form : ClientForm \cup UserForm,
         secret : Secret \cup {NoSecret}, read : 1 .. MaxVersions]

\* code: whether response_type is code; s256: whether a challenge of that method
\* comes along.
Query == [uri : Uri \cup {BadUri}, scope : Asked, code : BOOLEAN, s256 : BOOLEAN]

Idle == [op |-> "idle"]

Authorizing == [op : {"authorize", "issue", "deny"}, query : Query,
                from : 1 .. MaxVersions]

Granting == [op : {"code", "answer", "refresh", "rotate"}, grant : Content,
             id : 1 .. MaxSerial, family : 1 .. MaxSerial,
             seen : 1 .. MaxVersions]

Redirected == [op : {"redirect"}, uri : Uri, seen : 1 .. MaxVersions]

\* The client or a resource server with an access token, and what it was told.
Bearing == [op : {"bearer"}, grant : Content, told : SUBSET (Scope \cup {"sub", "name"})]

Become(w, r) == req' = [req EXCEPT ![w] = r]

\* The demo client is public; main.go seeds both before the server listens.
Init ==
  /\ \E f \in ClientForm, p \in UserForm, s \in Secret :
       log = <<[client |-> Public(f), user |-> NewUser(p, s)]>>
  /\ shown = 1
  /\ edit = [a \in Admin |-> NoEdit]
  /\ req = [w \in Worker |-> Idle]
  /\ session = FALSE
  /\ codes = {} /\ tokens = {}
  /\ serial = 0

-----------------------------------------------------------------------------
(* The admin API. *)

WellFormed(f) == \A uri \in f.uris : NewRedirectURI(uri)

PostClient(f, s) ==
  /\ WellFormed(f)
  /\ Write("client", IF s = NoSecret THEN Public(f) ELSE Confidential(f, s))
  /\ UNCHANGED <<shown, edit, req, session, codes, tokens, serial>>

PostUser(p, s) ==
  /\ s # NoSecret
  /\ Write("user", NewUser(p, s))
  /\ UNCHANGED <<shown, edit, req, session, codes, tokens, serial>>

\* PUT reads the account first, and answers 404 when the reader pool shows none.
BeginEdit(a, id, f, s) ==
  /\ edit[a] = NoEdit
  /\ Shown(id) # None
  /\ edit' = [edit EXCEPT ![a] = [id |-> id, form |-> f, secret |-> s,
                                  read |-> shown]]
  /\ UNCHANGED <<log, shown, req, session, codes, tokens, serial>>

PutClient(a, f, s) == WellFormed(f) /\ BeginEdit(a, "client", f, s)

PutUser(a, p, s) == BeginEdit(a, "user", p, s)

\* Fault: a blank secret makes the client public, as it does in POST.
BadClientAfter(f, s, existing) ==
  IF s = NoSecret THEN Public(f) ELSE Confidential(f, s)

ClientAfter(f, s, existing) ==
  CASE s # NoSecret -> Confidential(f, s)
    [] s = NoSecret /\ IsConfidential(existing) -> Confidential(f, existing.secret)
    [] OTHER -> Public(f)

\* Fault: a blank password is stored.
BadUserAfter(p, s, existing) == NewUser(p, s)

UserAfter(p, s, existing) ==
  NewUser(p, IF s = NoSecret THEN existing.secret ELSE s)

SaveEdit(a) ==
  /\ edit[a] # NoEdit
  /\ LET e        == edit[a]
         existing == log[e.read][e.id]
     IN  Write(e.id, IF e.id = "client" THEN ClientAfter(e.form, e.secret, existing)
                                        ELSE UserAfter(e.form, e.secret, existing))
  /\ edit' = [edit EXCEPT ![a] = NoEdit]
  /\ UNCHANGED <<shown, req, session, codes, tokens, serial>>

FailEdit(a) ==
  /\ edit[a] # NoEdit
  /\ edit' = [edit EXCEPT ![a] = NoEdit]
  /\ UNCHANGED <<log, shown, req, session, codes, tokens, serial>>

\* Codes and tokens go with their client and with their user.
DeleteAccount(id) ==
  /\ Stored(id) # None
  /\ Write(id, None)
  /\ codes' = {} /\ tokens' = {}
  /\ UNCHANGED <<shown, edit, req, session, serial>>

Replay ==
  /\ shown < Len(log)
  /\ shown' = shown + 1
  /\ UNCHANGED <<log, edit, req, session, codes, tokens, serial>>

-----------------------------------------------------------------------------
(* Requests of a browser. *)

Only(w, r) ==
  /\ Become(w, r)
  /\ UNCHANGED <<log, shown, edit, session, codes, tokens, serial>>

\* The session outlives changes of the password and the account.
Login(w, s) ==
  /\ req[w] = Idle
  /\ Shown("user") # None
  /\ VerifyPassword(Shown("user"), s)
  /\ session' = TRUE
  /\ UNCHANGED <<log, shown, edit, req, codes, tokens, serial>>

\* /logout, expiry, or a restart.
EndSession ==
  /\ session
  /\ session' = FALSE
  /\ UNCHANGED <<log, shown, edit, req, codes, tokens, serial>>

\* isUnverifiedAuthorizeError: no redirect may answer.
Unverified(c, uri) ==
  \/ c = None
  \/ ~ NewRedirectURI(uri)
  \/ ~ ValidateRedirectURI(c, uri)

NewCodeChallenge(q) == q.s256

Valid(c, q) ==
  /\ ~ Unverified(c, q.uri)
  /\ q.code /\ SupportsResponseType(c)
  /\ ParseScope(q.scope) /\ AllowsScope(c, q.scope)
  /\ NewCodeChallenge(q)

\* An error is sent to the verified URI, and to a page when there is none.
WriteError(w, q) ==
  Only(w, IF Unverified(Shown("client"), q.uri) THEN Idle
          ELSE [op |-> "redirect", uri |-> q.uri, seen |-> shown])

\* Whether there is a session is looked up after the validation.
BeginAuthorize(w, q) ==
  /\ req[w] = Idle
  /\ IF Valid(Shown("client"), q)
     THEN Only(w, [op |-> "authorize", query |-> q, from |-> shown])
     ELSE WriteError(w, q)

\* login_required or consent_required, to the URI verified at the beginning.
Refuse(w) ==
  /\ req[w].op = "authorize"
  /\ Only(w, [op |-> "redirect", uri |-> req[w].query.uri, seen |-> req[w].from])

\* The owner of the session is looked up, and the consent is on record.
FindOwner(w) ==
  /\ req[w].op = "authorize"
  /\ session /\ Shown("user") # None
  /\ Only(w, [op |-> "issue", query |-> req[w].query, from |-> shown])

\* The registration allowed query q in a version from i on.
Allowed(q, i) ==
  \E j \in i .. shown :
    LET c == log[j]["client"]
    IN  c # None /\ ValidateRedirectURI(c, q.uri) /\ AllowsScope(c, q.scope)

SaveCode(w) ==
  /\ serial < MaxSerial /\ serial < MaxCodes
  /\ serial' = serial + 1
  /\ codes' = codes \cup
       {[id |-> serial + 1,
         grant |-> [scope |-> req[w].query.scope, asked |-> req[w].query.scope,
                    fits |-> Allowed(req[w].query, req[w].from)]]}
  /\ Become(w, [op |-> "redirect", uri |-> req[w].query.uri, seen |-> shown])
  /\ UNCHANGED <<log, shown, edit, session, tokens>>

\* Fault: the handler's validation is taken to be enough.
BadIssue(w) ==
  /\ req[w].op = "issue"
  /\ SaveCode(w)

\* Authorize validates the request, with its client, once more.
Issue(w) ==
  /\ req[w].op = "issue"
  /\ IF Valid(Shown("client"), req[w].query) THEN SaveCode(w)
     ELSE WriteError(w, req[w].query)

\* The form of /consent, whose own errors are pages.
BeginDeny(w, q) ==
  /\ req[w] = Idle
  /\ session /\ Shown("user") # None
  /\ Valid(Shown("client"), q)
  /\ Only(w, [op |-> "deny", query |-> q, from |-> shown])

\* Fault: the error of the second validation is not looked at.
BadDeny(w) ==
  /\ req[w].op = "deny"
  /\ Only(w, [op |-> "redirect", uri |-> req[w].query.uri, seen |-> shown])

\* access_denied, or what the second validation finds.
Deny(w) ==
  /\ req[w].op = "deny"
  /\ WriteError(w, req[w].query)

-----------------------------------------------------------------------------
(* Requests of the client and of its resource servers. *)

\* Public clients send no secret, or any.
Authenticated(s) == Shown("client") # None /\ VerifySecret(Shown("client"), s)

\* The grant reads the client once and goes on with its copy.
Present(w, op, g, k, family, s) ==
  /\ req[w] = Idle
  /\ Authenticated(s) /\ SupportsGrantType(Shown("client"), g)
  /\ Only(w, [op |-> op, grant |-> k.grant, id |-> k.id, family |-> family,
              seen |-> shown])

PresentCode(w, k, s) == Present(w, "code", "authorization_code", k, k.id, s)

PresentToken(w, t, s) == Present(w, "refresh", "refresh_token", t, t.family, s)

Redeem(w) ==
  /\ req[w].op = "code"
  /\ \E k \in codes : k.id = req[w].id /\ codes' = codes \ {k}
  /\ Become(w, [req[w] EXCEPT !.op = "answer"])
  /\ UNCHANGED <<log, shown, edit, session, tokens, serial>>

\* The access token of a grant is out, with an ID token beside it.
Tell(w, what) == Become(w, [op |-> "bearer", grant |-> req[w].grant, told |-> what])

NewToken(w, id) == [id |-> id, family |-> req[w].family, grant |-> req[w].grant]

\* offline_access asks for a refresh token; the client must be registered for it.
Answer(w) ==
  /\ req[w].op = "answer"
  /\ Shown("user") # None
  /\ IF /\ SupportsGrantType(log[req[w].seen]["client"], "refresh_token")
        /\ "offline_access" \in req[w].grant.scope
     THEN /\ serial < MaxSerial
          /\ serial' = serial + 1
          /\ tokens' = tokens \cup {NewToken(w, serial')}
     ELSE UNCHANGED <<serial, tokens>>
  /\ Tell(w, Claims(req[w].grant.scope))
  /\ UNCHANGED <<log, shown, edit, session, codes>>

Refresh(w, asked) ==
  /\ req[w].op = "refresh"
  /\ Shown("user") # None
  /\ \E s \in Narrow(req[w].grant.scope, asked) :
       Only(w, [req[w] EXCEPT !.op = "rotate", !.grant.scope = s])

\* A token that was rotated meanwhile takes its family with it.
Rotate(w) ==
  /\ req[w].op = "rotate"
  /\ serial < MaxSerial
  /\ serial' = serial + 1
  /\ LET old == {t \in tokens : t.id = req[w].id} IN
       IF old # {}
       THEN /\ tokens' = (tokens \ old) \cup {NewToken(w, serial')}
            /\ Tell(w, Claims(req[w].grant.scope))
       ELSE /\ tokens' = {t \in tokens : t.family # req[w].family}
            /\ Become(w, Idle)
  /\ UNCHANGED <<log, shown, edit, session, codes>>

\* The claims of the user that the token's scope lets out, if the user is there.
UserInfo(w) ==
  /\ req[w].op = "bearer"
  /\ Shown("user") # None
  /\ Tell(w, Claims(req[w].grant.scope))
  /\ UNCHANGED <<log, shown, edit, session, codes, tokens, serial>>

\* active, with the scope of the token, whatever became of the user.
Introspect(w, s) ==
  /\ req[w].op = "bearer"
  /\ Authenticated(s)
  /\ Tell(w, req[w].grant.scope)
  /\ UNCHANGED <<log, shown, edit, session, codes, tokens, serial>>

\* A page instead of a redirect, a lookup that fails, an answer that is sent, an
\* access token that has expired.
End(w) == req[w] # Idle /\ Only(w, Idle)

-----------------------------------------------------------------------------
Administer ==
  \/ \E f \in ClientForm, s \in Secret \cup {NoSecret} :
       PostClient(f, s) \/ \E a \in Admin : PutClient(a, f, s)
  \/ \E p \in UserForm, s \in Secret \cup {NoSecret} :
       PostUser(p, s) \/ \E a \in Admin : PutUser(a, p, s)
  \/ \E a \in Admin : SaveEdit(a) \/ FailEdit(a)
  \/ \E id \in {"client", "user"} : DeleteAccount(id)

Serve(w) ==
  \/ \E q \in Query : BeginAuthorize(w, q) \/ BeginDeny(w, q)
  \/ Refuse(w) \/ FindOwner(w) \/ Issue(w) \/ Deny(w)
  \/ \E s \in Secret \cup {NoSecret} :
       \/ Login(w, s)
       \/ \E k \in codes : PresentCode(w, k, s)
       \/ \E t \in tokens : PresentToken(w, t, s)
       \/ Introspect(w, s)
  \/ Redeem(w) \/ Answer(w) \/ Rotate(w)
  \/ \E asked \in Asked \cup {{}} : Refresh(w, asked)
  \/ UserInfo(w)
  \/ End(w)

Next ==
  \/ Administer \/ Replay \/ EndSession
  \/ \E w \in Worker : Serve(w)

Spec == Init /\ [][Next]_vars

-----------------------------------------------------------------------------
(* What registrations promise. *)

\* Every variable stays in its type: a user always has a password.
TypeOK ==
  /\ log \in Seq(Tables) /\ Len(log) \in 1 .. MaxVersions
  /\ shown \in 1 .. Len(log)
  /\ edit \in [Admin -> Edit \cup {NoEdit}]
  /\ req \in [Worker -> {Idle} \cup Authorizing \cup Granting \cup Redirected \cup Bearing]
  /\ session \in BOOLEAN
  /\ codes \subseteq Code /\ tokens \subseteq Token
  /\ serial \in 0 .. MaxSerial

SecretOf(row) == IF row = None THEN None ELSE row.secret

\* The secret did not change since a's update read it.
Undisturbed(a) ==
  \A i \in edit[a].read .. Len(log) :
    SecretOf(log[i][edit[a].id]) = SecretOf(log[edit[a].read][edit[a].id])

KeepsSecret(a) ==
  (edit[a] # NoEdit /\ edit[a].secret = NoSecret /\ Undisturbed(a)) =>
    (edit'[a] = NoEdit =>
       SecretOf(log'[Len(log')][edit[a].id]) = SecretOf(Stored(edit[a].id)))

\* "Leave client secret blank to keep the current confidential-client hash", and
\* the same of passwords: an update that leaves it blank keeps it, unless it was
\* changed after the version that the update has read.
BlankKeepsSecret == [][\A a \in Admin : KeepsSecret(a)]_vars

\* Every redirect, with a code or an error, goes to a URI that the registration
\* had when the request was last validated.
RedirectRegistered ==
  \A w \in Worker : req[w].op = "redirect" =>
    LET c == log[req[w].seen]["client"]
    IN  c # None /\ ValidateRedirectURI(c, req[w].uri)

\* A code fits a registration that the reader pool showed between the lookup of
\* its user and its issue; whatever comes of it, through exchanges, refreshes,
\* changes of the registration and of the user, has no more than its scope; and
\* nobody is told more of the user than that scope lets out.
GrantsStayWithin ==
  /\ \A k \in codes \cup tokens : k.grant.fits /\ k.grant.scope \subseteq k.grant.asked
  /\ \A w \in Worker : req[w].op = "bearer" =>
       /\ req[w].grant.fits
       /\ req[w].told \subseteq req[w].grant.asked \cup Claims(req[w].grant.asked)

=============================================================================
