# cc-orchestrator in TLA+

This directory models the program logic of the repository's servers and of the
commands around them: the OpenID Connect provider `app/auth` with its key
generator, the task API `app/api`, the migrator `app/migrator`, and of the
web client `app/web` its session and its walk through the task list.  Each module
is written from the source, statement by statement where several requests meet in a table.  TLC checks
every module on a small instance; TLAPS proves what matters most for every value of
the constants.  `PROJECT.json` lists the runs, the theorems, the hazards and, for
every definition, the lines it models.

To check a module and a proof:

    tlc -workers 2 -config Accounts.cfg MCAccounts.tla
    tlapm AccountsProofs.tla

## 1. The system

### Parts, state, operations

| part | state | operations | hard behaviour |
|---|---|---|---|
| refresh tokens (`app/auth`) | table `refresh_tokens`: hash, family, client, user, scope, expiry, consumed | save at the code exchange, rotate, revoke a family, evict, purge | two grants and a revocation in each other's transactions |
| authorization codes (`app/auth`) | table `authorization_codes` | save, find, consume, evict, purge | several requests have verified one code before one consumes it; a failure after that |
| authorize flow (`app/auth/route`, `idpsession`) | sessions and parked requests in memory, table `consents`, two cookies | /authorize, /login, /consent, /logout, purge, restart | tabs that share cookies; the session is read twice; a request is parked and taken up by other handlers |
| accounts (`app/auth`, admin API) | tables `clients`, `users` | POST, PUT, DELETE, the seed at the start, the lookups of all other requests | a deletion of several statements beside requests that store rows; a PUT that saves what it read before; a lagging reader pool; locks |
| what accounts allow (`app/auth/service`) | none of its own | validation of requests, scopes, secrets, claims; userinfo, introspection | a registration that changes between the readings of one handler |
| signing keys (`app/auth/infra/jwt`, `cmd/keygen`) | the key ring file, the ring of each process | generate, rotate, load, sign, verify, publish JWKS | a file that is half written; processes with different rings |
| bearer tokens (`app/api/infra/jwt`) | JWKS cache | verify, fetch | fetches that overlap and end in any order; stale keys; an endpoint that fails |
| migrator (`app/migrator`) | databases, roles, grants, goose versions | up, down, status | several at once; failures between statements; bounded retries |
| processes (`cmd/authz`, `cmd/api`) | pools, HTTP server, its goroutine | start, seed, serve, signal, drain, close | a signal at any moment; two goroutines that must both end |
| tasks (`app/api`) | table `tasks` | create, start, complete, change priority, list a page | read from a replica, save of whole rows, check and save apart, count and page apart |
| web session (`app/web/features/auth`) | `sessionStorage`: session, PKCE state | login, callback, refresh, logout, tick | refresh under way at a logout; lost answers; duplicated tabs |
| web task list (`app/web/features/tasks`) | offset of the page | next, previous | pages of a changing list |
| admin web, generated clients, iac, hooks | | | not state of the program |

### How they interact

A deployment starts tasks; in each the migrator runs first and prepares the
database, its migrations and the role, and the server starts if it succeeded.  The
browser holds the cookies of the provider and the session of the web client.
`/authorize` leaves a code (a row), the client's callback exchanges it at `/token`
for an access token, an ID token and, with `offline_access`, a refresh token (the
first row of a family); the client presents the access token to the API, which
verifies it with keys fetched from the provider, and rotates the refresh token
before the access token ends.  All processes of one kind share PostgreSQL: codes,
consents and refresh tokens are read and written through the writer pool; clients,
users and tasks are written through it and read through the reader pool, which
may lead to a replica that lags.  Sessions and parked requests live in the memory
of one process.  The admin API changes clients and users while everything else runs.

### What makes each part correct

* refresh tokens: one redeemable token per family; a token is redeemed once; a
  family keeps its client and user, and scopes only shrink; nothing revives a
  family; no failure loses a live token; a revocation that was called for, by
  /revoke, reuse or a lost race, is carried out.
* codes: answered once at most, only to who is bound to them; whatever is still
  stored has led to nothing.
* authorize flow: a code rests on one login, fresh enough for its request; a
  request gets one code at most, and none when its user has denied it.
* accounts: deletions do not wait for each other in a circle, leave nothing that
  was there when they began, take nothing when they are rolled back, and new
  requests store nothing for who is gone; a
  blank secret keeps the stored one; redirects, codes and what is told of a user
  keep to a registration of the time.
* keys: a rotation invalidates no token and gets through to the API; a key that
  nobody publishes is not honoured for long.
* deployment: no server runs on a database that is not ready for it; a race of
  migrators costs at most a rerun; a signalled process ends, its requests first.
* tasks: unique titles, no skipped status, pages that agree with their totals.
* web session: one refresh at a time, no code or token sent twice without cause; a
  session is that of the last login and ends with a logout, but for a refresh that
  was under way.

## 2. Modules

| module | about | composed with |
|---|---|---|
| `RefreshTokens` | table and requests of refresh tokens | `RotationChain` (contract), implemented by it: `ContractSpec` |
| `AuthCodes` | table and requests of codes | `SingleGrant` (contract), implemented by it: `ContractSpec` |
| `AuthorizeFlow` | handlers, session store, cookies, tabs | |
| `Accounts` | who is stored, deletions, and all requests that store rows for accounts | |
| `Registrations` | what is stored of a client and a user, and what is granted by it | |
| `AccessTokens` | keygen, key rings, JWKS, the API's cache | |
| `Migrator` | runs of the migrator | extended by `Deployment` |
| `Deployment` | tasks: a migrator, then a server, from start to exit | `Migrator` |
| `Tasks` | task requests, replica, paging client | |
| `WebSession` | tabs, pages, storage and requests of the web client | on `RotationChain`, whose actions are the provider's |
| `...Proofs` | theorems and proofs of a module | the module |
| `RelyingPartyProofs` | theorems and proofs of those who rely on the tokens | `AccessTokens`, `WebSession` |
| `MC...` | instances and symmetry for TLC | the module |

Operators `Bad...` are faulty forms of the definition they stand before.  Nothing
uses them: with one of them in the place of that definition, TLC finds the property
named under "mutants" in `PROJECT.json` violated.

### RefreshTokens

A worker serves one request.  `Find...` is `FindByTokenHash` with the checks that
follow it in `refreshTokenGrant` or `Revoke`; `BeginRotate`, `ConsumeRow` /
`ConsumeNoRow`, `ProbeReused` / `ProbeNotFound` and `CommitRotate` are the
statements of `Rotate`; `BeginRevoke` and `RevokeFamily` the two halves of the
DELETE.  Under READ COMMITTED a DELETE takes its snapshot when it starts and then
waits for locked rows: rows committed meanwhile are not in it.  That is why
`BeginRevoke` records the rows it sees.  `Fail` is an error or a stop of the
process at any step, with its rollback.  `Purge` is the ticker's statement.
INSERT and COMMIT are one step, since no other transaction can tell them apart.
`doomed` is history: the tokens that the family had when a request came to know
that it must be revoked.
`RotationChain` states what the repository contract tests (`infra/repotest`) ask of
any implementation.

### AuthCodes

`Find` is the lookup and `Verify` (client, redirect URI, verifier), `Consume` the
`DELETE ... RETURNING`, `Judge` the comparison of the returned expiry, `Save` the
first refresh token, `Answer` the response.  `FindNothing` evicts an expired row.
SQL and Go treat the boundary `expires_at = now` differently; both forms are kept
(`Expired`, `Late`).

### AuthorizeFlow

A handler is a sequence of steps, one per call of the session store, of the
consent repository or of the code repository; other handlers run between any two.
A tab sends the cookies of the moment its request starts.  The cookies that a
handler sets (`set`) travel with its answer and reach the cookie jar when the answer
does (`Arrive`): a session exists before the browser has its cookie, answers overtake
each other, and two tabs overwrite each other's `idp_pending`.  `NoSession`,
`ForceLogin` and `UseSession` are the outcomes of `FindSession`, `Owner` and
`SessionVanished` those of `UserFromSession`, `Granted` and `AskConsent` those of
`HasGrant`; `Park` is `SavePendingAuthorize`.  `/login` is `Login` (the session), then
`Resume` (`ConsumePendingAuthorize`), which is the end of an accepted `/consent` as
well; that is `LoadUser`, `Peek`, and `Grant` or `Deny`.  `ShowConsent` is the page,
one step since it changes nothing.  An answer may be lost, with its cookies
(`Abandon`).  `Restart` empties the store under everything that is going on; the
browser keeps its cookies.  `codes` is the sequence of the codes issued, so that two
codes for one request are two; a request has a number, for its `state` parameter,
and `ruledOut` remembers which logins its `prompt` and `max_age` do not allow.

### Accounts

The tables of clients and users are a sequence of versions, of which the reader
pool shows one.  A deletion is one action per statement and holds the rows it has
deleted until `CommitDelete`; a statement waits for rows that others hold.
`CreateAccount`, `SaveUpdate` and `SeedAccount` are upserts, which wait for a
deletion of their row.  The other requests look the account up in the version
shown, in the order of the code (client, row, owner; `/authorize` reads the client
once more), and store or delete one row.

### Registrations

`log` has the versions of one client and one user, `shown` is the one the reader
pool shows.  A PUT is `PutClient` or `PutUser`, which read, and `SaveEdit`, which
writes what `ClientAfter` or `UserAfter` make of the body and of what was read.  A
request of a browser is `BeginAuthorize` (the handler's validation), `FindOwner`,
`Issue` (the second validation and the code) or a redirect with an error; `Deny`
is the other button of `/consent`.  The client goes on with `PresentCode`, `Redeem`,
`Answer`, `PresentToken`, `Refresh` and `Rotate`, and whoever has the access token
with `UserInfo` and `Introspect`.  What other modules are about is one step here or
a choice: consents, sessions, whose code it is.

### AccessTokens

`file` is keygen's file, which `BeginWrite` truncates and `EndWrite` completes;
`KeygenStops` leaves it unreadable, its keys lost.  Each process has the ring it loaded at its
start, or, without a file, one of its own.  A request of the API that does not find
its key in a fresh cache goes through `Lookup`, `Serve` (the endpoint answers),
`Install` (under the write lock) and `Reread` (under the read lock again); two
requests interleave at each of these.  `FetchFails` is the timeout, an error or a
client that has gone.  Only one keygen runs at a time: it is a command of an
operator.  `withdrawn` and `settled` remember since when no process publishes a key,
and since when all do.

### Migrator and Deployment

A run of the migrator goes through `FindDatabase` and `CreateDatabase`, goose's
advisory lock, one transaction per migration, and the role: `FindRole`,
`CreateRole`, then the password, REVOKE and the GRANTs, each of which reads a
catalog row (`ReadRow`) and writes it back (`WriteRow`), and fails if another
statement wrote the row in between.  The password is retried (`RetryPassword`),
the rest is not (`LoseRow`).  `FailRun` ends a run at any step.  In `Deployment` a
task is such a run and then a server: pools, seeds, the goroutine that listens,
requests in flight, the signal, `Shutdown` with its timeout, the closing of the
pools.

### Tasks

`tables` is the sequence of versions between the replica's and the primary's.
`Create`, `Move` (Start and Complete) and `ChangePriority` read the replica and
remember what they will save; `Save` is the upsert, refused when the title is taken.
A client walks through the pages: `CountTasks` and `ListTasksPage` are the two
statements of `ListPage`, `NextPage` is the client's `hasNextPage` and `nextOffset`;
a limit above the maximum is cut, an offset above it is refused (`RefusePage`).

### WebSession

`stored` and `pkce` are the `sessionStorage` of each tab; `page` is what is loaded in
it, `refreshInFlight` and `going` are variables of its script, `fetches` and `job`
the requests it waits for.  An action is what the script runs between two awaits.
`performRefresh` is `StartFetch`, `SendRefresh`, `ServeRefresh` (the provider) and
`StoreRefresh` or `FailRefresh`; a login is `BeginLogin` and `Redirect`; the callback
is `Callback` (state and verifier), `SendCode`, `ServeCode` and `EndCallback`; a
logout is `Logout`, `Revoke` and `ClearOut`; `Unauthorized` is the interceptor's 401.
The browser may leave, reload, close or duplicate a page at any step (`Load`): its
requests are served, and nobody hears the answer.  `ServeRefresh` takes the actions
of `RotationChain`, which `RefreshTokens` implements, and adds the detection of
reuse.  Its `Session...` names let `RelyingPartyProofs` extend it together with
`AccessTokens`.

## 3. Runs

| run | shows | bounds |
|---|---|---|
| `refresh_tokens` | safety of the table; it implements `RotationChain` | 3 tokens (a family with two rotations, or two families), 2 workers, 2 users, a public and a confidential client, 2 ticks of life |
| `refresh_tokens_live` | requests end, revocations are carried out | 3 tokens, 2 workers, no failures |
| `revocation_misses_child` | finding: a revocation misses the row of a rotation under way | as `refresh_tokens` |
| `auth_codes` | safety of codes; they implement `SingleGrant` | 2 codes, 3 workers, 2 clients, redirect URIs and verifiers |
| `authorize_flow` | what a code rests on, one answer per request | 2 tabs, 2 users, 1 application, 2 requests to /authorize or /logout, 2 logins, 2 parked records, any number of restarts |
| `tasks` | titles, status, paging | 2 tasks, 2 workers, replica 1 version behind, pages of one, the second of two refused beyond the largest offset |
| `priority_keeps_status` | finding: ChangePriority undoes a change of status | 2 tasks, 2 workers, no lag |
| `accounts` | locks, cascade, nothing for the dead | a user and a client, both seeded, 2 workers, 3 versions, 3 rows |
| `registrations` | secrets, redirects, scopes and claims under changing registrations | 2 forms of the client, 2 secrets, 3 versions, one update and one request under way, one code and two refresh tokens |
| `access_tokens` | rotations invalidate nothing, get through, and withdrawn keys go | 3 keys (two rotations), 2 processes, 2 requests, 2 ticks |
| `web_session` | what is sent once, and whose session a tab holds | 2 tabs with one login, or one tab with 2 logins; 2 tokens a family; 2 requests under way |
| `deployment` | migration races, readiness, shutdown | 2 tasks, 2 migrations, 3 runs of the migrator, 2 attempts at the password, one request in flight |

Why the bounds are enough.  Every property of the tables is about two requests
that meet in one row, or about one request and a purge; two workers give every
interleaving of two requests, a second object (token, code, tab, task) tells
"the same" from "another".  One application is enough in
`authorize_flow`: only the consents tell applications apart, and no property is about them.
Two logins give an older and a newer session, or two users.  Three workers on one code let two lose to one.  Three
tokens are needed for a rotation that is rotated again while an old request still
holds the first; three versions of the accounts for a deletion and a new creation,
or for an update that reads the first and saves the third.  Three keys are needed
for a key that was retired twice; two requests for an answer that replaces a newer
one between the fetch and the second look of the other.  Two tasks race for the
database, the role and each catalog row; a third run is one that comes back after a
failure; two migrations let a newer image run beside an older one.  Two tabs share
one copied storage, two logins of one tab share its PKCE key; two requests are a
refresh beside another, or beside a callback or a logout.  Lifetimes of
one or two ticks and a clock of two let everything be live, at its boundary, and
expired.  What only the number of actors could break is proved for any number
where section 5 says so.  Every `MaxTime`, `MaxRequests`, `MaxLogins`, `MaxPending`,
`MaxVersions`, `MaxRows`, `MaxLag`, `MaxSerial`, `MaxCodes`, `MaxRuns`, `MaxChain`
and `MaxInFlight`, and the constraint `Few` of `MCWebSession`, is a bound of the model
and not of the program (`MaxLimit`, `MaxOffset` and `MaxTries` are the program's, made
small); runs that stop at a bound of the clock or of the runs, or whose tabs may all be
closed, say `CHECK_DEADLOCK FALSE`.  `accounts`, `registrations` and `tasks` check for
deadlock as well.  `registrations` starts from the demo accounts, and
`deployment` from three settings of the environment.

Symmetry is used in safety runs only, over sets whose members the module does not
tell apart.

### Fairness

`RefreshTokens!Fairness`: weak for steps that never wait, since a request under way
goes on (each handler runs in a goroutine of its own); strong for statements that
wait for row locks, since PostgreSQL serves the waiters of a row lock in their
order, so a statement that could go on again and again does.  No request has to
arrive, and neither the clock nor the purge has to run.  Liveness is checked with
`MayFail = FALSE`: a request that fails is answered with an error, and promises
nothing else.

`Deployment!Fairness`: weak for what the main goroutine of a server does by itself
(it goes on, or its step fails, or Shutdown's timeout passes) and for the goroutine
that listens.  Nothing is assumed of the database, of clients, of signals or of the
migrator.  The other modules state no fairness and no liveness.

## 4. Findings

Each has a run of its own that ends in a counterexample.

* `RevokeFamily` misses a row that a rotation inserts while the DELETE waits for
  the row the rotation has locked: the new token outlives the revocation.  Nothing
  revokes it later unless a token of the chain is replayed again.
* `ChangePriority` saves the whole row it has read, and undoes a Start or Complete
  saved in between.

Smaller disagreements between the code and what is written about it, without a run:

* `/authorize` with `prompt=none` answers with the login page when the session ends
  between `FindSession` and `UserFromSession` (`SessionVanished`), although
  `authorize_handler.go:116-117` says it never does.
* A refresh of the web client that is under way at a logout stores its session after
  the storage was cleared (`refresh.ts:41`), so the tab is signed in again until the
  access token ends; `AuthProvider.tsx:40` says a logout clears the session.
  `SessionOfLastLogin` says that nothing else brings one back.
* The comment of `CallbackPage` (`router.tsx:166-168`) says a second run of its effect
  finds the session of the first; it finds none yet, and no verifier either, and
  shows an error while the first goes on (`TakeVerifier`).
* The comment of `FindByTokenHash` takes the family of an expired row for dead, but
  rotation gives every token a full lifetime.
* `cmd/authz/main.go:306` says clients and users are never written at run time, which
  the admin API does.
* The accept form of `/consent` does not name its request: with two tabs, the consent
  recorded (`consent_handler.go:83`) is for the request that the shared cookie names
  by then, and not the one `consent_service.go:39` speaks of as approved.
* `authorize_handler.go:123-124` says prompt=login forces a re-authentication even if
  a session exists.  If a login of another tab has made a session whose cookie has
  not reached the browser, the request finds no cookie and is parked without its
  `prompt`; the cookie arrives, and `/login` or `/consent` resumes the request with
  that older session.  `LoginIsFresh` leaves out exactly such logins (`Coming`).
* When an accept and a deny of one parked request race, `clearPending` ignores that
  the record is gone (`consent_handler.go:172`), and the client is told access_denied
  although the accept has resumed the request and may bring it a code as well.
  `DeniedIsFinal` is about the denies that have taken the record.
* A refresh grant that has lost its token to a request which then revoked the family
  finds no row in `Rotate`'s second look, answers ErrNotFound
  (`refreshtoken_repository.go:145`) and revokes nothing, although, as the finding above has
  it, a token of the family may be left.  `RevocationsComplete` exempts that case.
* `DeleteUser` and `DeleteClient` leave rows that requests under way store between
  the statements (`user_writer.go:49`, `domain/user/repository.go:38-39` say all
  dependent rows go); they are usable again once the id exists again.
* A PUT brings a deleted account back.  The admin client says "leave blank to keep"
  of secrets; what is kept is what the PUT has read (`admin_handler.go:396`,
  `502-510`), so a change made meanwhile, or not yet replayed to the reader, is
  undone.  The POST form of the same handler is an upsert, in which a blank secret
  makes a confidential client public.
* `authcode/scope.go:13-17` ties refresh tokens to `offline_access` in the granted
  scope; a refresh that narrows it away still gets a next refresh token.
* `/userinfo` answers 500 for the token of a user who was deleted
  (`route/response.go:244`).
* `role.go:47-49` calls EnsureAppRole safe under concurrent invocations: only the
  password is retried after a concurrent catalog update, a REVOKE or GRANT that
  meets one fails the run.  A rerun repairs it (`RacesCostOnlyGrants`).
* `router.tsx:42-45` says an out-of-range offset still makes a request the server
  accepts, but its schema has no upper bound, and the API refuses offsets above
  10,000 (`domain/task/page.go:59`); the pager leads there in a list that long.

## 5. Proofs

The modules `...Proofs` prove their theorems for every set of workers, tokens,
codes, clients, users, tasks, keys, processes and tabs and every bound, from the
assumption named in the module they are about (the special values are not
members of the sets; bounds are naturals; users are not clients).  Each has an
inductive invariant `IInv`, the three facts about it, and one lemma per action.

* `RefreshTokens`.  "One live token per family" is not inductive: a rotation has
  consumed its row before it commits.  `IInv` adds that a request past its UPDATE
  owns the lock of an unconsumed row that stays (`InFlight`, `LockedRowStays`), that
  locks have one holder (`OneLockHolder`), that redeemed means consumed, and that
  what is stored was handed out.  From it: types, `OneLivePerFamily`, `RedeemedOnce`,
  `ChainKeepsGrant`, `DeadFamilyStaysDead`, `LiveTokenLeavesByRevocation`,
  and that the module implements `RotationChain`, the initial states mapped to
  initial states and each step to a step or a stutter.  `RevocationsComplete` needs an
  invariant of its own (`DoomedInv`): of the tokens a request has to see gone, those
  still stored are rows of the family it names, and in the snapshot of its DELETE
  once that is taken; for a row that is gone does not come back and none changes its
  family (`TableKeeps`).  It is proved also where requests fail.
* `AuthCodes`.  A stored row has led to nothing; the DELETE hands a code to one
  request (`ClaimIsExclusive`); rows are as issued.  From it: `SingleUse`,
  `OpenIsUnused`, `GrantedAsBound`, and that it implements `SingleGrant`.
* `Tasks`.  What holds of the primary holds of every version that readers may still
  see, because versions are only added by `Save`; a request about to save a status
  has read its predecessor in some version (`SaveJustified`).  From it: types,
  `TitlesUnique`, `NoStatusSkipped`.  The client that lists the tasks has an invariant
  of its own (`LInv`).  A later version of the table keeps every task of an earlier
  one, with its `created_at` (`Growing`); `ORDER BY created_at, id` puts a table in one
  order only, since the place of a task is the number of tasks before it
  (`PlaceInOrder`, `OneOrder`); so as long as no task was added since the walk began,
  what the client has read is a beginning of that order (`SeenBefore`, `SeenWith`),
  and the total lies between the tasks there were at first and those there are now
  (`TotalBetween`).  From it: `PageHoldsTotal` and, at the last page, `PagesPartition`.
* `AuthorizeFlow`.  What a tab, a parked request or a code has learnt of a login stays
  true, since logins are never changed and the store only forgets (`Onward`); a request
  that may still be answered is held by one tab, one parked record or one code, and
  by none once it is denied (`OneHolder`).  Freshness is the hard part: a parked
  request keeps neither `prompt` nor `max_age`.  A tab that /authorize works for may
  have sent a session that its request rules out, but such a session is dead or is
  refused (`Judged`); no cookie of a ruled-out login is on its way (`Held`), so the jar
  keeps the session that was sent, loses it, or gets one that the request allows
  (`JarMoved`); and when the request is parked, that session is dead, or was never
  there, so whatever live session the jar has from then on is allowed (`JarFits`).
  From it: types, `CodeOfOneLogin`, `LoginIsFresh`, `OneCodePerRequest`, `DeniedIsFinal`.
* `Registrations`.  The log only grows (`Extends`), so what a request has found in a
  version stays true of that version (`FitsLater`); an update names a version that had
  the row; a grant is judged when its code is issued and only narrowed afterwards.  From
  it: types, `RedirectRegistered`, `GrantsStayWithin`, and the action property
  `BlankKeepsSecret`.
* `Migrator` and `Deployment`.  What a run has passed stays done, whatever other runs
  do, unless a migration is taken back: the database and the role exist, the
  migrations of its image are applied and granted, and each right it has given is in
  the catalogs (`Bootstrapped`, `Provisioned`).  A run that lost a race had passed all
  that comes before (`Lost`): `RacesCostOnlyGrants`.  A server lives only after a
  finished run, so it inherits that: `StartsReady`.  Its listener is open only while it
  serves, it serves only with all pools, and a start has no requests (`ServerOf`):
  `DrainBeforeClose`.
* `Accounts`.  A deletion has every row of its account in the tables it has passed,
  but for those stored since it began, and none of a table ahead (`DeletionInv`).  So
  a deletion waits only for one that is further on, and of any set of deletions the
  furthest waits for none (`NoCircularWait`); and at the commit nothing old is left.
  What it has locked is of its account, and the account at its last step is stored
  and held by no other deletion (`HoldInv`), so rows go only together with it
  (`CascadeComplete`).  A request that stores a row has seen the account in a version
  no older than the one shown when it began (`GrantInv`), hence `NothingForTheDead`.
* `AccessTokens`.  The file only grows and every ring was once the file, so what
  signed a token is in the newest file (`FileGrows`): `OldTokensVerify`.  A document
  was served after its fetch began, `FetchTimeout` ago at most, so it has no key that
  was withdrawn before (`NoOldKeys`) and lacks none that was published by all before
  (`NoGaps`); the cache is a document, and a second look happens at the time of an
  installation (`TimesInv`): `BoundedStaleness`, `RolloutCompletes`.
* `WebSession`.  `SentOnce` is not inductive: a token that will be presented once more
  may still be in a storage, with a request of a page that was left, or in an answer
  that is stored later.  The invariant (`WebInv`) says where each token and each
  verifier is: with one tab, as what it keeps or as what an answer brings it, and
  every step moves it on from there; two tabs keep one only if its answer was lost or
  the storage was copied, and one that was redeemed while its family is alive is
  lost or has its answer just coming back (`HeldOnce`, for verifiers `OnePlace`).  It
  rests on one refresh per page (`OneFetch`): what a page that was left has sent, no
  page hears.  A tab presents only tokens of its last login, or of the refresh that a
  change of the session has met (`Sessions`).  From it: types, `SentOnce`,
  `SessionOfLastLogin`.

`RedeemedOnce`, `OpenIsUnused`, `DeadFamilyStaysDead` and `GrantedAsBound` are proved
and in no run.  Only model-checked: liveness (`RequestsEnd`, `SignalledExits`), which
is out of the prover's reach.

## 6. What is abstracted, and what is left out

* Tokens, codes, names, scopes, keys and redirect URIs are model values; random
  values do not repeat; hashes are one to one.  Signatures and HTML are left out.
* One clock for the services and the database.
* A statement locks all its rows at once; PostgreSQL locks them in the order of its
  scan, so two statements over several rows of one table may deadlock and one of
  them be aborted, which the models show as `Fail`.
* In `AuthorizeFlow` an answer that never reaches the browser is `Abandon`, with its
  cookies.  Consents are not taken away there: the deletion of accounts, and with
  them of consents, is in `Accounts`.  Which query keys a parked request keeps
  (`pendingAuthorizeLocation`) is left out but for `prompt` and `max_age`.
* `Accounts` leaves out what an account contains, which `Registrations` has, and the
  expiry and reuse of the rows, which `RefreshTokens` and `AuthCodes` have.
* `AccessTokens`: one keygen at a time; the claims of a token (issuer, audience,
  expiry) are checked on the token alone and left out; a fetch takes `FetchTimeout`
  at most, and what waits for nothing takes no time.
* `Deployment`: the ticker's goroutine ends with the signal's context and is not in
  the model, nor is its deadline of 30 seconds for all three purges.
* `updated_at` and the formatting of tasks are left out.
* `WebSession`: whether an access token is near its end is open at every step; a
  login gets one code at most; a page carries out one callback or logout at a time;
  React's `user` state, the return-to path and the display are left out.
* Not modelled: the admin web client (forms over the admin API), the generated API
  clients, Terraform, hooks, images and health checks (no state of the program).

## 7. Plan

Done: tokens and codes, what leads to them, accounts and their contents, tasks, keys
and their caches, migration, start and shutdown, the session of the web
client.  Left, in this order:

1. The ticker of the provider with its deadline, and two processes behind one
   balancer in `AuthorizeFlow`.
