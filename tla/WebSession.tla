------------------------------ MODULE WebSession ------------------------------
(***************************************************************************)
(* The session of the web client (app/web features/auth): what a tab keeps *)
(* in its sessionStorage, the page that is loaded in it, and the requests  *)
(* that the page has sent to the provider.  The provider is the contract   *)
(* of RotationChain, with the detection of reuse on top of it.             *)
(*                                                                         *)
(* The script of a page runs one handler at a time and gives way at each   *)
(* await: an action is what runs between two of them.  A page that has     *)
(* assigned window.location runs on until it is left; what it has sent is  *)
(* served all the same, and nobody hears the answer.                       *)
(*                                                                         *)
(* Whether the access token of a session is near its end is left open: a   *)
(* tick, a guard or a request may find it so at any time, or never.        *)
(*                                                                         *)
(* A stored session is named by its refresh token: the n-th token of the   *)
(* family that a login has started is <<login, n>>.  Every login gets one, *)
(* as the scopes of config.ts ask for offline_access.                      *)
(***************************************************************************)
EXTENDS Naturals, FiniteSets

CONSTANTS
  Tab,
  NoTab,
  Login,     \* the logins begun; each names its state and its verifier
  NoLogin,
  MaxChain   \* bound of the tokens of a family

ASSUME WebSessionAssumption ==
  /\ IsFiniteSet(Tab) /\ NoTab \notin Tab
  /\ NoLogin \notin Login
  /\ MaxChain \in Nat \ {0}

Token == Login \X (1..MaxChain)
NoToken == <<NoLogin, 0>>
Family(t) == t[1]

VARIABLES
  live, heir, handed,  \* the provider's refresh tokens, as in RotationChain
  issued, spent,       \* the logins whose code was issued, and redeemed
  stored,          \* auth.session of each tab
  pkce,            \* auth.pkce of each tab
  page,            \* the page of each tab
  refreshInFlight, \* the tabs whose page has set it
  fetches,         \* the refreshes under way, those of pages that were left included
  rejected,        \* the tabs whose page waits for a refresh after a 401
  begun,           \* the logins begun so far
  going,           \* those of a page that wait for the discovery, to redirect
  job,             \* the callback or the logout that a page is carrying out
  given,           \* history: the family that a tab was signed in with last
  raced,           \* history: the family of a refresh that a change of the session met
  reused,          \* history: tokens that were presented after their redemption
  lost,            \* history: tokens whose answer may have been lost, or that were copied
  sent, again,     \* history: codes presented, with the verifier; those presented twice
  copied           \* history: logins whose verifier was in a storage that was copied

providerVars == <<live, heir, handed, issued, spent>>
tabs == <<stored, pkce, page, refreshInFlight, rejected, begun, going, job>>
history == <<given, raced, reused, lost, sent, again, copied>>
sessionVars == <<providerVars, tabs, fetches, history>>

Chain == INSTANCE RotationChain

\* "to" says where a page that has assigned window.location goes: into the
\* application again, or to the provider with a login.
Page == [at : {"closed", "app", "callback", "provider"}, login : Login \cup {NoLogin},
         leaving : BOOLEAN, to : Login \cup {NoLogin}]

PageAt(place, n) == [at |-> place, login |-> n, leaving |-> FALSE, to |-> NoLogin]
Closed == PageAt("closed", NoLogin)

Fetch == [tab : Tab \cup {NoTab}, old : Token, step : {"discover", "sent", "answered"},
          new : Token \cup {NoToken}]

\* "login" is the code that a callback exchanges, "verifier" what it read from
\* the storage, "token" the one that a logout revokes, or the answer.
Job == [does : {"none", "callback", "logout"}, step : {"discover", "sent", "answered"},
        login : Login \cup {NoLogin}, verifier : Login \cup {NoLogin},
        token : Token \cup {NoToken}]

NoJob == [does |-> "none", step |-> "discover", login |-> NoLogin, verifier |-> NoLogin,
          token |-> NoToken]

\* The page of a tab whose script runs.
Runs(k) == page[k].at \in {"app", "callback"}

Own(k) == {f \in fetches : f.tab = k}

SessionInit ==
  /\ Chain!Init
  /\ issued = {} /\ spent = {}
  /\ stored = [k \in Tab |-> NoToken]
  /\ pkce = [k \in Tab |-> NoLogin]
  /\ \E k \in Tab : page = [j \in Tab |-> IF j = k THEN PageAt("app", NoLogin) ELSE Closed]
  /\ refreshInFlight = {} /\ fetches = {} /\ rejected = {}
  /\ begun = {} /\ going = [k \in Tab |-> {}]
  /\ job = [k \in Tab |-> NoJob]
  /\ given = [k \in Tab |-> NoLogin] /\ raced = [k \in Tab |-> NoLogin]
  /\ reused = {} /\ lost = {} /\ sent = {} /\ again = {} /\ copied = {}

-----------------------------------------------------------------------------
(* Pages. *)

\* What is left of the refreshes of a page that is gone: those at the provider.
Strays(k) == {[f EXCEPT !.tab = NoTab] : f \in {g \in Own(k) : g.step = "sent"}}

\* Another page in the tab, or none: the script of the old one is gone with
\* its variables and its requests.
Load(k, p) ==
  /\ page' = [page EXCEPT ![k] = p]
  /\ job' = [job EXCEPT ![k] = NoJob] /\ going' = [going EXCEPT ![k] = {}]
  /\ refreshInFlight' = refreshInFlight \ {k}
  /\ rejected' = rejected \ {k}
  /\ fetches' = (fetches \ Own(k)) \cup Strays(k)
  /\ lost' = lost \cup {f.old : f \in {g \in Own(k) : g.step # "discover"}}

\* window.location takes effect.
Leave(k) ==
  /\ Runs(k) /\ page[k].leaving
  /\ Load(k, IF page[k].to = NoLogin THEN PageAt("app", NoLogin)
                                     ELSE PageAt("provider", page[k].to))
  /\ UNCHANGED <<providerVars, stored, pkce, begun, given, raced, reused, sent, again, copied>>

\* The user reloads the page, or returns from the provider without an answer.
Reload(k) ==
  /\ Runs(k) \/ page[k].at = "provider"
  /\ Load(k, IF Runs(k) THEN PageAt(page[k].at, page[k].login) ELSE PageAt("app", NoLogin))
  /\ UNCHANGED <<providerVars, stored, pkce, begun, given, raced, reused, sent, again, copied>>

\* The storage of a tab goes with it.
Close(k) ==
  /\ page[k].at # "closed"
  /\ Load(k, Closed)
  /\ stored' = [stored EXCEPT ![k] = NoToken]
  /\ pkce' = [pkce EXCEPT ![k] = NoLogin]
  /\ given' = [given EXCEPT ![k] = NoLogin]
  /\ raced' = [raced EXCEPT ![k] = NoLogin]
  /\ UNCHANGED <<providerVars, begun, reused, sent, again, copied>>

\* The browser duplicates a tab with its storage.
Duplicate(k, j) ==
  /\ Runs(k) /\ page[j].at = "closed"
  /\ page' = [page EXCEPT ![j] = PageAt(page[k].at, page[k].login)]
  /\ stored' = [stored EXCEPT ![j] = stored[k]]
  /\ pkce' = [pkce EXCEPT ![j] = pkce[k]]
  /\ given' = [given EXCEPT ![j] = given[k]]
  /\ raced' = [raced EXCEPT ![j] = raced[k]]
  /\ lost' = lost \cup ({stored[k]} \ {NoToken})
  /\ copied' = copied \cup ({pkce[k]} \ {NoLogin})
  /\ UNCHANGED <<providerVars, refreshInFlight, fetches, rejected, begun, going, job, reused, sent,
                 again>>

-----------------------------------------------------------------------------
(* Refreshing: domain/refresh.ts. *)

\* A change of the session by something else than a refresh: one that is under
\* way will overwrite it.
Meets(k) ==
  raced' = [raced EXCEPT ![k] = IF k \in refreshInFlight
                                THEN Family((CHOOSE f \in Own(k) : TRUE).old) ELSE NoLogin]

\* Fault: concurrent callers do not share one refresh.
BadMayRefresh(k) == stored[k] # NoToken

\* refreshStoredSession starts a refresh, unless one is under way or there is
\* nothing to refresh.
MayRefresh(k) == k \notin refreshInFlight /\ stored[k] # NoToken

StartFetch(k) ==
  /\ refreshInFlight' = refreshInFlight \cup {k}
  /\ fetches' = fetches \cup {[tab |-> k, old |-> stored[k], step |-> "discover",
                               new |-> NoToken]}

\* The tick, a guard of a route, or a request to the API finds that the access
\* token has ended or is about to.
Refresh(k) ==
  /\ Runs(k) /\ MayRefresh(k)
  /\ StartFetch(k)
  /\ UNCHANGED <<providerVars, stored, pkce, page, rejected, begun, going, job, history>>

SendRefresh(f) ==
  /\ f.step = "discover"
  /\ fetches' = (fetches \ {f}) \cup {[f EXCEPT !.step = "sent"]}
  /\ UNCHANGED <<providerVars, tabs, history>>

\* The provider answers with the next token; a token that was redeemed before
\* costs its family; any other is refused.
ServeRefresh(f) ==
  LET root == <<Family(f.old), 1>>
      family == {p \in live : p[1] = root}
      next == <<Family(f.old), f.old[2] + 1>>
      answer(t) == fetches' = (fetches \ {f}) \cup
                     (IF f.tab = NoTab THEN {} ELSE {[f EXCEPT !.step = "answered", !.new = t]})
  IN
  /\ f.step = "sent"
  /\ \/ /\ <<root, f.old>> \in live /\ next \in Token
        /\ Chain!Redeem(root, f.old, next)
        /\ answer(next)
        /\ UNCHANGED reused
     \/ /\ <<root, f.old>> \notin live /\ family # {}
        /\ live' = live \ family /\ Chain!Drop
        /\ reused' = reused \cup {f.old}
        /\ answer(NoToken)
     \/ /\ family = {}
        /\ answer(NoToken)
        /\ UNCHANGED <<live, heir, handed, reused>>
  /\ UNCHANGED <<issued, spent, tabs, given, raced, lost, sent, again, copied>>

\* Fault: the end of a refresh leaves refreshInFlight set.
BadSettled(f) == refreshInFlight' = refreshInFlight

\* The finally of refreshStoredSession.
Settled(f) == refreshInFlight' = refreshInFlight \ {f.tab}

\* performRefresh stores the answer, whatever the storage holds by now.
StoreRefresh(f) ==
  /\ f.step = "answered" /\ f.new # NoToken
  /\ stored' = [stored EXCEPT ![f.tab] = f.new]
  /\ fetches' = fetches \ {f}
  /\ Settled(f)
  /\ rejected' = rejected \ {f.tab}
  /\ UNCHANGED <<providerVars, pkce, page, begun, going, job, history>>

\* clearAllAuthStorage, and the page leaves for /login.
ClearAll(k) ==
  /\ stored' = [stored EXCEPT ![k] = NoToken]
  /\ pkce' = [pkce EXCEPT ![k] = NoLogin]
  /\ given' = [given EXCEPT ![k] = NoLogin]
  /\ page' = [page EXCEPT ![k].leaving = TRUE, ![k].to = NoLogin]

\* The refresh is refused, or one of its requests fails or its answer is lost:
\* performRefresh returns null and leaves the session; a caller that wanted
\* it after a 401 clears it.
FailRefresh(f) ==
  LET k == f.tab IN
  /\ k # NoTab
  /\ Settled(f)
  /\ fetches' = (fetches \ {f}) \cup (IF f.step = "sent" THEN {[f EXCEPT !.tab = NoTab]} ELSE {})
  /\ lost' = IF f.step = "sent" \/ f.new # NoToken THEN lost \cup {f.old} ELSE lost
  /\ rejected' = rejected \ {k}
  /\ IF k \in rejected
     THEN ClearAll(k) /\ raced' = [raced EXCEPT ![k] = NoLogin]
     ELSE UNCHANGED <<stored, pkce, page, given, raced>>
  /\ UNCHANGED <<providerVars, begun, going, job, reused, sent, again, copied>>

\* The API answers 401: client.ts joins the refresh under way or starts one,
\* and gives up where there is nothing to refresh.
Unauthorized(k) ==
  /\ page[k].at = "app" /\ k \notin rejected
  /\ \/ /\ k \in refreshInFlight
        /\ rejected' = rejected \cup {k}
        /\ UNCHANGED <<stored, pkce, page, refreshInFlight, fetches, given, raced>>
     \/ /\ MayRefresh(k)
        /\ StartFetch(k)
        /\ rejected' = rejected \cup {k}
        /\ UNCHANGED <<stored, pkce, page, given, raced>>
     \/ /\ k \notin refreshInFlight /\ stored[k] = NoToken
        /\ ClearAll(k)
        /\ raced' = [raced EXCEPT ![k] = NoLogin]
        /\ UNCHANGED <<refreshInFlight, fetches, rejected>>
  /\ UNCHANGED <<providerVars, begun, going, job, reused, lost, sent, again, copied>>

-----------------------------------------------------------------------------
(* Signing in: login, CallbackPage and handleCallback. *)

\* The verifier and the state are stored before the discovery is fetched.
BeginLogin(k, n) ==
  /\ Runs(k) /\ n \notin begun
  /\ begun' = begun \cup {n}
  /\ pkce' = [pkce EXCEPT ![k] = n]
  /\ going' = [going EXCEPT ![k] = @ \cup {n}]
  /\ UNCHANGED <<providerVars, stored, page, refreshInFlight, rejected, job, fetches, history>>

\* Of two logins of one page, the last to fetch the discovery is gone to.
Redirect(k, n) ==
  /\ n \in going[k]
  /\ going' = [going EXCEPT ![k] = @ \ {n}]
  /\ page' = [page EXCEPT ![k].leaving = TRUE, ![k].to = n]
  /\ UNCHANGED <<providerVars, stored, pkce, begun, refreshInFlight, rejected, job, fetches,
                 history>>

FailLogin(k, n) ==
  /\ n \in going[k]
  /\ going' = [going EXCEPT ![k] = @ \ {n}]
  /\ UNCHANGED <<providerVars, stored, pkce, begun, page, refreshInFlight, rejected, job, fetches,
                 history>>

\* The provider answers a request with a code; one code is as good as many.
IssueCode(k) ==
  /\ page[k].at = "provider" /\ page[k].login \notin issued
  /\ issued' = issued \cup {page[k].login}
  /\ Load(k, PageAt("callback", page[k].login))
  /\ UNCHANGED <<live, heir, handed, spent, stored, pkce, begun, given, raced,
                 reused, sent, again, copied>>

\* A tab that is signed in, by a token that has not expired yet, goes on.
SkipCallback(k) ==
  /\ page[k].at = "callback" /\ stored[k] # NoToken
  /\ page' = [page EXCEPT ![k].at = "app", ![k].login = NoLogin]
  /\ UNCHANGED <<providerVars, stored, pkce, begun, going, refreshInFlight, rejected, job,
                 fetches, history>>

\* Fault: the stored verifier is left until the exchange is over.
BadTakeVerifier(k) == pkce' = pkce

\* The verifier is of use once.
TakeVerifier(k) == pkce' = [pkce EXCEPT ![k] = NoLogin]

\* The effect of the page, which may run again: the state of the callback must
\* be that of the storage.
Callback(k) ==
  /\ page[k].at = "callback" /\ job[k] = NoJob
  /\ pkce[k] = page[k].login
  /\ TakeVerifier(k)
  /\ job' = [job EXCEPT ![k] = [NoJob EXCEPT !.does = "callback", !.login = page[k].login,
                                             !.verifier = pkce[k]]]
  /\ UNCHANGED <<providerVars, stored, begun, going, page, refreshInFlight, rejected, fetches,
                 history>>

SendCode(k) ==
  LET p == <<job[k].login, job[k].verifier>> IN
  /\ job[k].does = "callback" /\ job[k].step = "discover"
  /\ job' = [job EXCEPT ![k].step = "sent"]
  /\ sent' = sent \cup {p}
  /\ again' = IF p \in sent THEN again \cup {p[1]} ELSE again
  /\ UNCHANGED <<providerVars, stored, pkce, begun, going, page, refreshInFlight, rejected,
                 fetches, given, raced, reused, lost, copied>>

\* A code is redeemed once, with its verifier, and starts a family.
ServeCode(k) ==
  LET n == job[k].login
      good == n \in issued \ spent /\ job[k].verifier = n
  IN
  /\ job[k].does = "callback" /\ job[k].step = "sent"
  /\ job' = [job EXCEPT ![k].step = "answered", ![k].token = IF good THEN <<n, 1>> ELSE NoToken]
  /\ IF good THEN Chain!Start(<<n, 1>>) /\ spent' = spent \cup {n}
             ELSE UNCHANGED <<live, heir, handed, spent>>
  /\ UNCHANGED <<issued, stored, pkce, begun, going, page, refreshInFlight, rejected,
                 fetches, history>>

\* handleCallback stores the session, and the page leaves for where the login
\* came from.
EndCallback(k) ==
  /\ job[k].does = "callback" /\ job[k].token # NoToken
  /\ stored' = [stored EXCEPT ![k] = job[k].token]
  /\ given' = [given EXCEPT ![k] = job[k].login]
  /\ Meets(k)
  /\ page' = [page EXCEPT ![k].leaving = TRUE, ![k].to = NoLogin]
  /\ job' = [job EXCEPT ![k] = NoJob]
  /\ UNCHANGED <<providerVars, pkce, begun, going, refreshInFlight, rejected, fetches,
                 reused, lost, sent, again, copied>>

\* A request fails or is refused, or its answer is lost.
FailCallback(k) ==
  /\ job[k].does = "callback"
  /\ job' = [job EXCEPT ![k] = NoJob]
  /\ UNCHANGED <<providerVars, stored, pkce, begun, going, page, refreshInFlight, rejected,
                 fetches, history>>

-----------------------------------------------------------------------------
(* Signing out: logout. *)

Logout(k) ==
  /\ Runs(k) /\ job[k] = NoJob
  /\ job' = [job EXCEPT ![k] = [NoJob EXCEPT !.does = "logout", !.token = stored[k]]]
  /\ UNCHANGED <<providerVars, stored, pkce, begun, going, page, refreshInFlight, rejected,
                 fetches, history>>

\* The revocation is sent and served; one that fails is as good as none.
Revoke(k) ==
  /\ job[k].does = "logout" /\ job[k].step = "discover" /\ job[k].token # NoToken
  /\ job' = [job EXCEPT ![k].step = "answered"]
  /\ live' = {p \in live : Family(p[1]) # Family(job[k].token)} /\ Chain!Drop
  /\ UNCHANGED <<issued, spent, stored, pkce, begun, going, page, refreshInFlight, rejected,
                 fetches, history>>

\* Fault: only the session is cleared that the logout has revoked.
BadClearOut(k) ==
  /\ job[k].does = "logout"
  /\ stored' = IF stored[k] = job[k].token THEN [stored EXCEPT ![k] = NoToken] ELSE stored
  /\ pkce' = [pkce EXCEPT ![k] = NoLogin]
  /\ given' = [given EXCEPT ![k] = NoLogin]
  /\ page' = [page EXCEPT ![k].leaving = TRUE, ![k].to = NoLogin]
  /\ Meets(k)
  /\ job' = [job EXCEPT ![k] = NoJob]
  /\ UNCHANGED <<providerVars, begun, going, refreshInFlight, rejected, fetches,
                 reused, lost, sent, again, copied>>

\* Whatever became of the discovery and of the revocation, everything is
\* cleared, and the page leaves, for the provider's logout if there is one,
\* which comes back to /login.
ClearOut(k) ==
  /\ job[k].does = "logout"
  /\ ClearAll(k)
  /\ Meets(k)
  /\ job' = [job EXCEPT ![k] = NoJob]
  /\ UNCHANGED <<providerVars, begun, going, refreshInFlight, rejected, fetches,
                 reused, lost, sent, again, copied>>

-----------------------------------------------------------------------------
(* Specification. *)

SessionNext ==
  \/ \E k \in Tab :
       \/ Leave(k) \/ Reload(k) \/ Close(k) \/ \E j \in Tab : Duplicate(k, j)
       \/ Refresh(k) \/ Unauthorized(k)
       \/ \E n \in Login : BeginLogin(k, n) \/ Redirect(k, n) \/ FailLogin(k, n)
       \/ IssueCode(k) \/ SkipCallback(k) \/ Callback(k) \/ SendCode(k) \/ ServeCode(k)
       \/ EndCallback(k) \/ FailCallback(k)
       \/ Logout(k) \/ Revoke(k) \/ ClearOut(k)
  \/ \E f \in fetches :
       SendRefresh(f) \/ ServeRefresh(f) \/ StoreRefresh(f) \/ FailRefresh(f)

SessionSpec == SessionInit /\ [][SessionNext]_sessionVars

-----------------------------------------------------------------------------
(* Correctness. *)

\* Types; and refreshInFlight is set exactly while one refresh of the page is
\* under way, so that its callers wait for that one and the next can start.
SessionTypeOK ==
  /\ live \subseteq Token \X Token /\ heir \subseteq Token \X Token /\ handed \subseteq Token
  /\ issued \subseteq begun /\ spent \subseteq issued
  /\ stored \in [Tab -> Token \cup {NoToken}]
  /\ pkce \in [Tab -> Login \cup {NoLogin}] /\ begun \subseteq Login
  /\ going \in [Tab -> SUBSET Login]
  /\ page \in [Tab -> Page] /\ job \in [Tab -> Job]
  /\ fetches \subseteq Fetch /\ rejected \subseteq refreshInFlight
  /\ \A k \in Tab : Cardinality(Own(k)) = IF k \in refreshInFlight THEN 1 ELSE 0

\* What serves once is sent once.  A token is presented after its redemption,
\* which costs the family, only where the answer may have been lost or the
\* browser has copied the storage, however many callers want a refresh; a code
\* is presented with the verifier of its own login, and twice only by a copy.
SentOnce ==
  /\ reused \subseteq lost
  /\ again \subseteq copied
  /\ \A p \in sent : p[1] = p[2]

\* The session of a tab is of its last login, and gone after a logout, but for
\* a refresh that was under way when the one or the other changed it: that one
\* brings back the session it began with.
SessionOfLastLogin ==
  \A k \in Tab :
    stored[k] # NoToken => Family(stored[k]) \in {given[k], raced[k]}

=============================================================================
