---------------------------- MODULE AuthorizeFlow ----------------------------
(***************************************************************************)
(* How app/auth gets from an authorization request to an authorization     *)
(* code: /authorize, /login, /consent and /logout, the store of IdP        *)
(* sessions and pending requests (one mutex, so one step per call), the    *)
(* consents table, and a browser with several tabs and one cookie jar.     *)
(*                                                                         *)
(* A tab sends a request with the cookies of that moment.  The handler     *)
(* makes one call in each step, and other handlers run in between.  The    *)
(* cookies it sets travel with its answer, and reach the jar when the      *)
(* answer does, in whatever order answers arrive.  An answer may redirect  *)
(* to /authorize or /consent: that is a new request, with the cookies of   *)
(* that moment.  An answer that sets no cookie and redirects to neither    *)
(* needs no step of its own.                                               *)
(*                                                                         *)
(* Session and pending ids are random and never repeat: here, they are     *)
(* numbered.  The queries of two requests differ in their state parameter, *)
(* which n stands for.  ruledOut is not in the query: it records which     *)
(* logins the request does not allow.                                      *)
(*                                                                         *)
(* Each operator Bad... is a form that the definition it stands before     *)
(* could have by mistake; it shows that the properties can fail.           *)
(***************************************************************************)
EXTENDS Integers, Sequences, FiniteSets

CONSTANTS
  User,
  App,          \* client_id and scope of a request that is valid
  Tab,
  None,         \* no user, no app, no max_age, or a cookie left alone
  Ages,         \* values of max_age
  SessionTTL,   \* defaultSessionTTL, in ticks
  PendingTTL,   \* defaultPendingAuthorizeTTL, in ticks
  MaxTime,      \* bound of the clock
  MaxRequests,  \* bound: requests to /authorize and /logout that clients send
  MaxLogins,    \* bound: logins
  MaxPending    \* bound: pending records

ASSUME AuthorizeFlowAssumption ==
  /\ None \notin User \cup App \cup Nat
  /\ Ages \subseteq Nat
  /\ {SessionTTL, PendingTTL} \subseteq Nat
  /\ {MaxTime, MaxRequests, MaxLogins, MaxPending} \subseteq Nat

VARIABLES
  now,       \* the clock
  sessions,  \* every session so far, with whether the store still has it
  pendings,  \* every pending request so far, Gone when it was taken
  consents,  \* the consents table: <<user, app>>
  jar,       \* the cookies idp_session and idp_pending, 0 when unset
  tabs,      \* what each tab shows or waits for
  sent,      \* how many requests to /authorize and /logout clients sent
  codes,     \* history: the codes issued, in order
  denied     \* history: the requests whose pending record a "deny" took

vars == <<now, sessions, pendings, consents, jar, tabs, sent, codes, denied>>

-----------------------------------------------------------------------------
Session == [user : User, at : Nat, stored : BOOLEAN]

Query == [app : App, n : Nat, ruledOut : SUBSET Nat]

Pending == [query : Query, at : Nat]

Code == [user : User, at : Nat, query : Query, session : Nat]

\* The pages, where a tab waits for nothing; "idle" is any but the consent page.
Pages == {"idle", "consent_form"}

\* A request is on its way, or a handler is about to make its first call.
Requests == {"session", "login", "logout", "to_consent", "user"}

\* A handler is about to make a later call.
Working == {"expel", "owner", "consent", "issue", "park", "resume", "peek", "grant", "deny"}

Steps == Pages \cup Requests \cup Working \cup {"answer"}

NoQuery == [app |-> None, n |-> 0, ruledOut |-> {}]

Gone == [query |-> NoQuery, at |-> 0]

\* The cookies of an answer: an id, 0 to clear it, None to leave it alone.
NoCookies == [session |-> None, pending |-> None]

Blank == [step |-> "idle", goes |-> "idle", query |-> NoQuery, prompt |-> "absent",
          maxAge |-> None, session |-> 0, pending |-> 0, user |-> None, at |-> 0,
          set |-> NoCookies]

TabState == [step    : Steps,
             goes    : {"idle", "authorize", "to_consent",  \* where an answer leads
                        "grant", "deny"},                   \* the button clicked
             query   : Query \cup {NoQuery},
             prompt  : {"absent", "none", "login"},
             maxAge  : Ages \cup {None},
             session : Nat, pending : Nat,     \* the cookies sent
             user    : User \cup {None},       \* who logs in, or the owner
             at      : Nat,                    \* AuthenticatedAt, as read
             set     : [session : Nat \cup {None}, pending : Nat \cup {None}]]

\* FindSession and FindPendingAuthorize: an expired entry is as good as gone
\* (they delete it, as PurgeExpired does; no one can tell when).
LiveSession(s) ==
  s # 0 /\ sessions[s].stored /\ now <= sessions[s].at + SessionTTL

LivePending(p) ==
  p # 0 /\ pendings[p] # Gone /\ now <= pendings[p].at + PendingTTL

\* ConsumePendingAuthorize.
ConsumePending(p) == pendings' = [pendings EXCEPT ![p] = Gone]

Become(t, state) == tabs' = [tabs EXCEPT ![t] = state]

At(t, step) == tabs[t].step = step

\* The handler is done: where its answer goes, and the cookies it sets.
Answer(t, goes, query, cookies) ==
  Become(t, [Blank EXCEPT !.step = "answer", !.goes = goes, !.query = query,
                          !.set = cookies])

\* GET /authorize leaves the browser.
Send(t, query, prompt, maxAge, session) ==
  Become(t, [Blank EXCEPT !.step = "session", !.query = query, !.prompt = prompt,
                          !.maxAge = maxAge, !.session = session])

\* GET or POST /consent leaves the browser.
SendConsent(t, step, goes, cookies) ==
  Become(t, [Blank EXCEPT !.step = step, !.goes = goes, !.session = cookies.session,
                          !.pending = cookies.pending])

\* The logins whose cookies are on their way, in some answer.
Coming == {tabs[t].set.session : t \in Tab} \ {None, 0}

-----------------------------------------------------------------------------
Init ==
  /\ now = 0
  /\ sessions = <<>>
  /\ pendings = <<>>
  /\ consents = {}
  /\ jar = [session |-> 0, pending |-> 0]
  /\ tabs = [t \in Tab |-> Blank]
  /\ sent = 0
  /\ codes = <<>>
  /\ denied = {}

\* The logins that prompt=login or max_age rule out: those of before the
\* request that are too old, unless their cookie is still on its way.
RuledOut(prompt, maxAge) ==
  {s \in DOMAIN sessions \ Coming :
     prompt = "login" \/ (maxAge # None /\ sessions[s].at < now - maxAge)}

\* A client sends the browser to /authorize in a tab that waits for nothing.
Start(t, app, prompt, maxAge) ==
  /\ tabs[t].step \in Pages
  /\ sent < MaxRequests
  /\ sent' = sent + 1
  /\ Send(t, [app |-> app, n |-> sent + 1, ruledOut |-> RuledOut(prompt, maxAge)],
          prompt, maxAge, jar.session)
  /\ UNCHANGED <<now, sessions, pendings, consents, jar, codes, denied>>

TooOld(t, s) == tabs[t].maxAge # None /\ now - sessions[s].at > tabs[t].maxAge

\* Fault: prompt=login is only for those who have no session.
BadForced(t, s) == TooOld(t, s)

\* prompt=login, or a session older than max_age, wants a new login.
Forced(t, s) == tabs[t].prompt = "login" \/ TooOld(t, s)

\* The request will be parked, and the browser sent to /login or /consent.
ToPark(t, goes, cookies) ==
  Become(t, [Blank EXCEPT !.step = "park", !.goes = goes, !.query = tabs[t].query,
                          !.set = cookies])

\* handle, FindSession finds none: login_required, or on to /login.
NoSession(t) ==
  /\ At(t, "session")
  /\ ~ LiveSession(tabs[t].session)
  /\ IF tabs[t].prompt = "none" THEN Become(t, Blank) ELSE ToPark(t, "idle", NoCookies)
  /\ UNCHANGED <<now, sessions, pendings, consents, jar, sent, codes, denied>>

\* handle, the session must not be used.  With prompt=none, there is nothing
\* to come back to.
ForceLogin(t) ==
  /\ At(t, "session")
  /\ LiveSession(tabs[t].session)
  /\ Forced(t, tabs[t].session)
  /\ Become(t, [Blank EXCEPT !.step = "expel", !.session = tabs[t].session,
                             !.query = IF tabs[t].prompt = "none" THEN NoQuery
                                       ELSE tabs[t].query])
  /\ UNCHANGED <<now, sessions, pendings, consents, jar, sent, codes, denied>>

\* AuthenticationService.Logout deletes the session; the cookie is cleared.
EndSession(t) ==
  LET s == tabs[t].session
      cleared == [NoCookies EXCEPT !.session = 0]
  IN
  /\ tabs[t].step \in {"expel", "logout"}
  /\ sessions' = IF s = 0 THEN sessions ELSE [sessions EXCEPT ![s].stored = FALSE]
  /\ IF tabs[t].query = NoQuery THEN Answer(t, "idle", NoQuery, cleared)
                                ELSE ToPark(t, "idle", cleared)
  /\ UNCHANGED <<now, pendings, consents, jar, sent, codes, denied>>

UseSession(t) ==
  LET s == tabs[t].session IN
  /\ At(t, "session")
  /\ LiveSession(s)
  /\ ~ Forced(t, s)
  /\ Become(t, [tabs[t] EXCEPT !.step = "owner", !.maxAge = None, !.at = sessions[s].at])
  /\ UNCHANGED <<now, sessions, pendings, consents, jar, sent, codes, denied>>

\* Fault: the owner is looked up by the cookie the browser has by now.
BadOwner(t) ==
  LET s == jar.session IN
  /\ At(t, "owner")
  /\ LiveSession(s)
  /\ Become(t, [tabs[t] EXCEPT !.step = "consent", !.user = sessions[s].user])
  /\ UNCHANGED <<now, sessions, pendings, consents, jar, sent, codes, denied>>

\* handle, UserFromSession reads the session again.
Owner(t) ==
  LET s == tabs[t].session IN
  /\ At(t, "owner")
  /\ LiveSession(s)
  /\ Become(t, [tabs[t] EXCEPT !.step = "consent", !.user = sessions[s].user])
  /\ UNCHANGED <<now, sessions, pendings, consents, jar, sent, codes, denied>>

\* handle: "Session vanished between FindSession and UserFromSession".
SessionVanished(t) ==
  /\ At(t, "owner")
  /\ ~ LiveSession(tabs[t].session)
  /\ ToPark(t, "idle", NoCookies)
  /\ UNCHANGED <<now, sessions, pendings, consents, jar, sent, codes, denied>>

HasGrant(user, app) == <<user, app>> \in consents

\* handle, after HasGrant.
Granted(t) ==
  /\ At(t, "consent")
  /\ HasGrant(tabs[t].user, tabs[t].query.app)
  /\ Become(t, [tabs[t] EXCEPT !.step = "issue"])
  /\ UNCHANGED <<now, sessions, pendings, consents, jar, sent, codes, denied>>

\* handle: consent_required, or on to /consent.
AskConsent(t) ==
  /\ At(t, "consent")
  /\ ~ HasGrant(tabs[t].user, tabs[t].query.app)
  /\ IF tabs[t].prompt = "none" THEN Become(t, Blank)
                                ELSE ToPark(t, "to_consent", NoCookies)
  /\ UNCHANGED <<now, sessions, pendings, consents, jar, sent, codes, denied>>

\* handle, Authorize: a code for the owner, with the session's login time.
IssueCode(t) ==
  /\ At(t, "issue")
  /\ codes' = Append(codes, [user |-> tabs[t].user, at |-> tabs[t].at,
                             query |-> tabs[t].query, session |-> tabs[t].session])
  /\ Become(t, Blank)
  /\ UNCHANGED <<now, sessions, pendings, consents, jar, sent, denied>>

\* Fault: the cookie is set although the record was not saved.
BadPark(t) ==
  /\ At(t, "park")
  /\ Answer(t, tabs[t].goes, NoQuery, [tabs[t].set EXCEPT !.pending = Len(pendings) + 1])
  /\ UNCHANGED <<now, sessions, pendings, consents, jar, sent, codes, denied>>

\* SavePendingAuthorize (without prompt and max_age), and its cookie.  When
\* the save fails, an error goes out with the cookies set so far, if any.
Park(t) ==
  /\ At(t, "park")
  /\ \/ /\ Len(pendings) < MaxPending
        /\ pendings' = Append(pendings, [query |-> tabs[t].query, at |-> now])
        /\ Answer(t, tabs[t].goes, NoQuery,
                  [tabs[t].set EXCEPT !.pending = Len(pendings) + 1])
     \/ /\ tabs[t].set # NoCookies
        /\ Answer(t, "idle", NoQuery, tabs[t].set)
        /\ UNCHANGED pendings
  /\ UNCHANGED <<now, sessions, consents, jar, sent, codes, denied>>

-----------------------------------------------------------------------------
(* /login and /logout *)

\* The user submits the login form, which any tab may show.
SubmitLogin(t, u) ==
  /\ tabs[t].step \in Pages
  /\ Become(t, [Blank EXCEPT !.step = "login", !.user = u, !.pending = jar.pending])
  /\ UNCHANGED <<now, sessions, pendings, consents, jar, sent, codes, denied>>

\* handlePost, AuthenticationService.Login: a new session.
Login(t) ==
  LET cookies == [NoCookies EXCEPT !.session = Len(sessions) + 1] IN
  /\ At(t, "login")
  /\ Len(sessions) < MaxLogins
  /\ sessions' = Append(sessions, [user |-> tabs[t].user, at |-> now, stored |-> TRUE])
  /\ IF tabs[t].pending = 0
     THEN Answer(t, "idle", NoQuery, cookies)
     ELSE Become(t, [Blank EXCEPT !.step = "resume", !.pending = tabs[t].pending,
                                  !.set = cookies])
  /\ UNCHANGED <<now, pendings, consents, jar, sent, codes, denied>>

\* Fault: the request is resumed from the record, which stays.
BadResume(t) ==
  LET p == tabs[t].pending
      cookies == [tabs[t].set EXCEPT !.pending = 0]
  IN
  /\ At(t, "resume")
  /\ IF LivePending(p) THEN Answer(t, "authorize", pendings[p].query, cookies)
                       ELSE Answer(t, "idle", NoQuery, cookies)
  /\ UNCHANGED <<now, sessions, pendings, consents, jar, sent, codes, denied>>

\* The end of a login, and resumeAuthorize: the pending request is taken up
\* again, unless another handler was faster.
Resume(t) ==
  LET p == tabs[t].pending
      cookies == [tabs[t].set EXCEPT !.pending = 0]
  IN
  /\ At(t, "resume")
  /\ ConsumePending(p)
  /\ IF LivePending(p) THEN Answer(t, "authorize", pendings[p].query, cookies)
                       ELSE Answer(t, "idle", NoQuery, cookies)
  /\ UNCHANGED <<now, sessions, consents, jar, sent, codes, denied>>

\* The browser is sent to /logout.
Logout(t) ==
  /\ tabs[t].step \in Pages
  /\ sent < MaxRequests
  /\ sent' = sent + 1
  /\ Become(t, [Blank EXCEPT !.step = "logout", !.session = jar.session])
  /\ UNCHANGED <<now, sessions, pendings, consents, jar, codes, denied>>

-----------------------------------------------------------------------------
(* /consent *)

\* handleGet only reads, and what it finds gone stays gone: one step.
ShowConsent(t) ==
  /\ At(t, "to_consent")
  /\ Become(t, IF LiveSession(tabs[t].session) /\ LivePending(tabs[t].pending)
               THEN [Blank EXCEPT !.step = "consent_form"]
               ELSE Blank)
  /\ UNCHANGED <<now, sessions, pendings, consents, jar, sent, codes, denied>>

\* The user clicks "accept" or "deny"; the form has no more than that.
SubmitConsent(t, action) ==
  /\ At(t, "consent_form")
  /\ SendConsent(t, "user", action, jar)
  /\ UNCHANGED <<now, sessions, pendings, consents, jar, sent, codes, denied>>

\* loadPendingConsentRequest: UserFromSession, or on to /login.
LoadUser(t) ==
  LET s == tabs[t].session IN
  /\ At(t, "user")
  /\ Become(t, IF LiveSession(s)
               THEN [tabs[t] EXCEPT !.step = "peek", !.session = 0,
                                    !.user = sessions[s].user]
               ELSE Blank)
  /\ UNCHANGED <<now, sessions, pendings, consents, jar, sent, codes, denied>>

\* loadPendingConsentRequest: PeekPendingAuthorize, or an error.
Peek(t) ==
  LET p == tabs[t].pending IN
  /\ At(t, "peek")
  /\ Become(t, IF LivePending(p)
               THEN [tabs[t] EXCEPT !.step = tabs[t].goes, !.query = pendings[p].query]
               ELSE Blank)
  /\ UNCHANGED <<now, sessions, pendings, consents, jar, sent, codes, denied>>

\* handlePost "accept".
Grant(t) ==
  /\ At(t, "grant")
  /\ consents' = consents \cup {<<tabs[t].user, tabs[t].query.app>>}
  /\ Become(t, [Blank EXCEPT !.step = "resume", !.pending = tabs[t].pending])
  /\ UNCHANGED <<now, sessions, pendings, jar, sent, codes, denied>>

\* Fault: the cookie is cleared, and the record stays.
BadDeny(t) ==
  LET p == tabs[t].pending IN
  /\ At(t, "deny")
  /\ denied' = IF LivePending(p) THEN denied \cup {pendings[p].query.n} ELSE denied
  /\ Answer(t, "idle", NoQuery, [NoCookies EXCEPT !.pending = 0])
  /\ UNCHANGED <<now, sessions, pendings, consents, jar, sent, codes>>

\* handlePost "deny", clearPending: the record is taken, if it is still there,
\* and the client is told access_denied in any case.
Deny(t) ==
  LET p == tabs[t].pending IN
  /\ At(t, "deny")
  /\ ConsumePending(p)
  /\ denied' = IF LivePending(p) THEN denied \cup {pendings[p].query.n} ELSE denied
  /\ Answer(t, "idle", NoQuery, [NoCookies EXCEPT !.pending = 0])
  /\ UNCHANGED <<now, sessions, consents, jar, sent, codes>>

-----------------------------------------------------------------------------
\* An answer arrives: its cookies go into the jar, and the browser follows its
\* redirect with what the jar then has.
Arrive(t) ==
  LET Cookie(name) == IF tabs[t].set[name] = None THEN jar[name] ELSE tabs[t].set[name]
      cookies == [session |-> Cookie("session"), pending |-> Cookie("pending")]
  IN
  /\ At(t, "answer")
  /\ jar' = cookies
  /\ CASE tabs[t].goes = "authorize" ->
            Send(t, tabs[t].query, "absent", None, cookies.session)
       [] tabs[t].goes = "to_consent" -> SendConsent(t, "to_consent", "idle", cookies)
       [] OTHER -> Become(t, Blank)
  /\ UNCHANGED <<now, sessions, pendings, consents, sent, codes, denied>>

\* A handler fails (the database, a cancelled request), or its answer is lost.
\* A request that fails before its first step is as good as never sent.
Abandon(t) ==
  /\ tabs[t].step \in Working \cup {"answer"}
  /\ Become(t, Blank)
  /\ UNCHANGED <<now, sessions, pendings, consents, jar, sent, codes, denied>>

\* The process of the provider is replaced by another, whose store is empty;
\* the database and the cookies stay.  What a handler is in the middle of is
\* lost; requests and answers on their way are not.
Restart ==
  /\ sessions' = [s \in DOMAIN sessions |-> [sessions[s] EXCEPT !.stored = FALSE]]
  /\ pendings' = [p \in DOMAIN pendings |-> Gone]
  /\ tabs' = [t \in Tab |-> IF tabs[t].step \in Working THEN Blank ELSE tabs[t]]
  /\ UNCHANGED <<now, consents, jar, sent, codes, denied>>

Tick ==
  /\ now < MaxTime
  /\ now' = now + 1
  /\ UNCHANGED <<sessions, pendings, consents, jar, tabs, sent, codes, denied>>

Authorize(t) ==
  \/ NoSession(t) \/ ForceLogin(t) \/ EndSession(t) \/ UseSession(t)
  \/ Owner(t) \/ SessionVanished(t)
  \/ Granted(t) \/ AskConsent(t) \/ IssueCode(t)
  \/ Park(t)

Consent(t) ==
  \/ ShowConsent(t)
  \/ \E action \in {"grant", "deny"} : SubmitConsent(t, action)
  \/ LoadUser(t) \/ Peek(t) \/ Grant(t) \/ Deny(t)

Next ==
  \/ \E t \in Tab :
       \/ \E app \in App, prompt \in {"absent", "none", "login"}, maxAge \in Ages \cup {None} :
            Start(t, app, prompt, maxAge)
       \/ Authorize(t)
       \/ \E u \in User : SubmitLogin(t, u)
       \/ Login(t) \/ Resume(t) \/ Logout(t)
       \/ Consent(t)
       \/ Arrive(t) \/ Abandon(t)
  \/ Restart
  \/ Tick

Spec == Init /\ [][Next]_vars

-----------------------------------------------------------------------------
(* Properties. *)

\* /authorize is at work on the request of the tab.
Serves(t) == tabs[t].step \in {"session", "owner", "consent", "issue"}

TypeOK ==
  /\ now \in Nat
  /\ sessions \in Seq(Session)
  /\ pendings \in Seq(Pending \cup {Gone})
  /\ consents \subseteq User \X App
  /\ jar \in [session : 0 .. Len(sessions), pending : 0 .. Len(pendings)]
  /\ tabs \in [Tab -> TabState]
  /\ sent \in Nat
  /\ codes \in Seq(Code)
  /\ denied \subseteq Nat

\* A code names a user and a login time that belong to one login, also when
\* others log in and out in the same browser while the request is served.
CodeOfOneLogin ==
  \A i \in DOMAIN codes :
    LET c == codes[i]
        s == sessions[c.session]
    IN  c.user = s.user /\ c.at = s.at

\* A code that answers a request with prompt=login or max_age never rests on a
\* login that these rule out, although neither is kept while the request is
\* pending, and the cookie jar changes meanwhile.  A login that was made before
\* the request counts as one it allows while its cookie is still on its way:
\* the provider cannot tell the two orders apart.
LoginIsFresh ==
  \A i \in DOMAIN codes : codes[i].session \notin codes[i].query.ruledOut

\* A request is answered with one code at most, and it is at /authorize in one
\* tab at most, and no more when it has its code: a pending request is taken up
\* once, from however many tabs.
OneCodePerRequest ==
  /\ \A i, j \in DOMAIN codes : codes[i].query.n = codes[j].query.n => i = j
  /\ \A t, u \in Tab :
       Serves(t) /\ Serves(u) /\ tabs[t].query.n = tabs[u].query.n => t = u
  /\ \A t \in Tab, i \in DOMAIN codes : Serves(t) => tabs[t].query.n # codes[i].query.n

\* When "deny" has taken a pending request, no tab that shares its cookie
\* gets a code for it, before or after, or brings it to /authorize again.
DeniedIsFinal ==
  /\ \A i \in DOMAIN codes : codes[i].query.n \notin denied
  /\ \A t \in Tab : Serves(t) => tabs[t].query.n \notin denied

=============================================================================
