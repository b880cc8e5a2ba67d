# NEXUS identity platform: verification project

TLA+ models, TLC runs and TLAPS proofs for the NEXUS repository: a Go backend
(`backend/`) that authenticates users, decides access by policy and keeps an
audit trail, and a React single-page application (`frontend/`) that uses it.
Paths and line numbers refer to the repository.

## 1. Inventory

| Component | State it keeps | Operations | Interacts with |
|---|---|---|---|
| Policy engine `internal/policy/engine.go` | map of policies behind an RWMutex, in memory only | Evaluate, Create, List, Get, Update, Delete | called by the policy handlers |
| Policy handlers `internal/policy/handler.go` | none | access check, list, create, delete | engine, then audit logger, one after the other |
| Audit logger in memory `internal/audit/logger.go` | slice of events behind an RWMutex | Log, List (a page) | every handler logs; the audit page lists |
| Audit logger in PostgreSQL `internal/audit/logger_postgres.go` | table `audit_logs` | Log (INSERT in a goroutine nobody awaits), List (COUNT, then SELECT) | database |
| User store in memory `internal/auth/store.go` | two maps, by id and by username, behind an RWMutex | CreateUser, GetUserByUsername, GetUserByID, ListUsers, UpdateUser | auth service |
| User store in PostgreSQL `internal/auth/store_postgres.go` | table `users`, UNIQUE(username) | the same five | auth service |
| Auth service and handlers `internal/auth/{service,handler,middleware}.go` | signing key | Register, Login, ValidateToken, RequireAuth, RequireRole, RequireAnyRole | user store, audit logger |
| MFA `internal/auth/{totp,mfa_handler}.go`, `security/totp_verify.py` | none: no secret and no verification is stored | setup, verify | audit logger |
| Rate limiter `internal/security/ratelimit.go`, `main.go:201-244` | a Redis counter with a time to live per key | IsRateLimited, RecordFailedLogin, ResetFailedLogins | wraps the login handler |
| RBAC matrix `internal/rbac/permissions.go` | constant table | HasPermission | used by tests only |
| Migrations `internal/database` | schema | ConnectPostgres, RunMigrations | PostgreSQL |
| Server `cmd/server/main.go` | process | start, route, shut down | everything above |
| SPA session `frontend/src/hooks/useAuth.tsx`, `services/api.ts` | token, user, loading flag | fetchProfile, login, register, logout | backend over HTTP |
| Audit page `pages/AuditPage.tsx` | page, rows, spinner, error | fetch, next, previous, refresh | `GET /audit` |
| Policies page `pages/PoliciesPage.tsx` | table, form, sandbox inputs and result | create, delete, list after each; evaluate | policy routes, `POST /access/check` |
| Applications page `pages/ApplicationsPage.tsx` | chosen application, decision | launch | `POST /access/check` |
| Users page `pages/UsersPage.tsx` | list, two filters | refresh | `GET /users` |
| Dashboard `pages/DashboardPage.tsx` | events, number of users, test result | fetch both in turn, test an endpoint | `GET /audit`, `GET /users`, two demonstration routes |
| Roles page `pages/RolesPage.tsx` | none, a table in the source | show | |
| Navigation `components/{Navbar,Sidebar}.tsx`, `App.tsx` | health badge, open page | poll every 30 s, go to a page | `GET /health` |

How they meet: `net/http` runs one goroutine per request. Goroutines share the
policy map, the user store and the audit logger, each behind a lock of its own,
and no lock is held across two of them: a handler changes the store, gives the
lock back, logs, and answers. Without `DATABASE_URL` all state dies with the
process; with it users and events survive, policies do not. The browser sends
requests without cancelling or ordering them.

What is hard here, and what correctness means:

- **Policy engine.** Loops over a shared map under a reader-writer lock;
  iteration order is unspecified. Correct: no access races with a write, each
  call behaves as one step, a grant is unanimous at the moment it is given,
  every change has exactly one event, every call returns.
- **Audit trail.** Stamping and appending are two steps; pages are counted from
  a growing end, in wrapping `int` arithmetic. Correct: no event lost or
  doubled, order right for calls that do not overlap, pages partition the trail,
  a reader who waits sees everything.
- **Auth.** Registration hashes between validation and insertion; login works on
  a copy; tokens outlive requests, accounts and processes; on PostgreSQL the
  event is written by a detached goroutine. Correct: one account per name, true
  events, tokens that tell the truth and are on record, a second factor judged
  on the stored secret.
- **Browser session.** Requests of the loading, of logins and of logouts overlap,
  and each answer changes the one session there is. Correct: the copies of the
  token agree, the user on the screen owns it, pages open for those the server
  serves, spinners end.
- **Pages.** A page asks again while it still waits, is left while a write is on
  its way, and shows whatever came last. Correct: after the dust has settled it
  shows what its last question asked for, including the user's own writes; no
  ALLOW appears that the engine did not give; spinners stop; and the four places
  that say what a role may do agree, but for named exceptions.
- **Limiter.** The limit is asked and a failure recorded in two calls of Redis
  with a password comparison between; INCR and EXPIRE can be torn apart.
  Correct: failures stay near the limit and a lockout ends.
- **Two stores, two TOTP implementations, two loggers.** Correct: each pair tells
  the same, up to what is named in the property.

Every hazard is listed at its line in `PROJECT.json`, with the properties that
would catch it or the reason why none does.

## 2. Plan

Done, in this order; an arrow reads "is built on":

| Module | About | Built on |
|---|---|---|
| `PolicyRules` | Evaluate on one policy, refusals, events | |
| `PolicyService` | abstract: every policy call is one step | `PolicyRules` |
| `PolicyEngine` | the engine with its lock and loops; implements `PolicyService` | `PolicyRules` |
| `PolicyEngineProofs` | its proofs | `PolicyEngine` |
| `AuditPaging` | a page of the trail | |
| `MemoryLogger` | concurrent calls of Log | `AuditPaging` |
| `MemoryLoggerProofs` | its proofs | `MemoryLogger` |
| `AuditQueries` | API clients ask for pages meanwhile | `MemoryLogger` |
| `AuditQueriesProofs` | its proofs | `AuditQueries`, `MemoryLoggerProofs` |
| `AuditPage` | the browser pages through the trail meanwhile | `MemoryLogger` |
| `AuditPageProofs` | its proofs | `AuditPage`, `MemoryLoggerProofs` |
| `AuthService` | accounts, tokens, events, restarts | |
| `AuthServiceProofs` | its proofs | `AuthService` |
| `BrowserSession` | one tab: token, user, pages, requests in flight | |
| `BrowserSessionProofs` | its proofs | `BrowserSession` |
| `Permissions` | what a role may do, in its four places | |
| `Requests` | requests of the pages, in flight and over | `Permissions` |
| `PoliciesPage` | its table and form, over an atomic policy service | `Requests` |
| `AccessChecks` | applications page, and sandbox of the policies page | `Requests` |
| `UserDirectory`, `UsersPage`, `DashboardPage` | who is there, and the pages that show it | `Requests` |
| `Navbar` | the health badge | |
| `Console` | the pages behind one router, over one backend | the six above |
| `ConsoleProofs` | its proofs | `Console` |
| `RateLimiter` | the login limiter and its fallback | |
| `AuditTable` | the PostgreSQL logger under a reader | |
| `UserStores` | both stores under the same calls | |
| `TOTPWindow` | both verifications of one-time codes | |
| `Backend` | those four, one watched at a time | the four above |
| `BackendProofs` | their proofs | `Backend` |

Every safety property of a passing run is now a theorem as well. What is left
would widen the model, not the proofs:

1. `AuthService` behind the `RateLimiter`, once a handler feeds the limiter.
2. `Console` over the session of `BrowserSession`, where a logout meets requests
   of a page.

The project keeps about a dozen runs: new modules take the place of runs that a
proof or a stronger run has made unnecessary. `EngineInv`, `WalkInv` are left
to the proofs that use them, and so is each `TypeOK` but that of the engine, which
also says that the map holds ids of this boot only: TLC had found none violated
before they were proved.

## 3. Modules and code

**PolicyRules / PolicyEngine / PolicyService.** A policy keeps the fields
`Evaluate` reads; a UUID is a number drawn in increasing order. `PolicyEngine`
has one program counter per connection. `RLock` … `AllPassed`/`ReturnList`/
`ReturnOne` are the readers, one map entry a step (`Visit`, `CheckOne`), in any
order. `AnnounceLock` and `AcquireLock` are the two halves of `mu.Lock()`: a
waiting writer blocks new readers. `Lookup` and `Apply…` are the writers,
`Audit` the event and the response, `Restart` a process that starts over with
`seedDefaults`. GetPolicy and UpdatePolicy have no route; their calls stand for
any future caller in the package. The abstract `PolicyService` serves each call
in one step; `PolicyEngine` maps `pc` to its `stage`.

**AuditPaging / MemoryLogger / AuditQueries.** `Stamp` is `Log` up to the lock
(UUID, clock), `AppendEvent` the rest. The clock may stand still or advance and
is not set back. `known` and `since` are history: how long the trail was when a
call began. `List` is `MemoryLogger.List` with the offset wrapped to the width
of `int`; a negative slice bound is `Panicked`. `Ask` is the whole handler of
`GET /api/v1/audit`. The RWMutex makes `List` and the append single steps.

**AuditPage.** `Fetch` is `fetchLogs` up to its `await`, `Serve` the backend's
part, `Deliver` and `Fail` the two ways it comes back, in any order.
`walk` and `rowsPage` are history: what a reader has seen who started at page 1,
and which page the rows are of. The action filter works on the rows in view and
is left out, and so is the catch branch for an error that is not an `Error`,
which `fetch` does not raise.

**AuthService.** One goroutine per connection again. `Validate`, `Create` are
Register around the hash; `Lookup`, `Verify` are Login around the password
comparison; `Authorize` is RequireAuth and RequireRole, `ReadStore` and
`MFAVerify` the handlers behind them; `Log` hands the event to the logger, and
`Answer` lets the response go, with a crash or another call between if so be. (A
refused registration is written before it is logged; `net/http` holds so short a
body back until the handler returns, so the client sees the same order.) With
`Durable` the event goes to a goroutine (`writing`), whose `Insert` may fail; any query may
fail (`Outage`); a CreateUser that fails may still have been committed. `Crash`,
`Terminate`, `Exit` end the process; the next start seeds memory stores, finds
the database as it was, and finds some signing key. Abstracted: bcrypt is
equality of passwords, the signature of a token is its key, a TOTP code is the
secret it was made from, names are a base with or without blanks around it, time
is a few ticks. `via` of an event is history: the token a login issued, or the
secret whose code was presented. Left out: a stored secret that is not Base32 (500), failures of
the random source, and the rate limiter in front of Login, which never refuses
because nothing feeds it.

**BrowserSession.** An action is one JavaScript task: a click, the loading of the
document, or the settling of one request with the continuations behind it.
`Load` builds `ApiClient` and `AuthProvider` from `sessionStorage` and starts
`fetchProfile`; `Submit…` are the handlers of LoginPage, RegisterPage and
SecurityPage up to their first `await`; a slot of `calls` then walks through the
requests of its handler (register, login, me; verify, profile), `Refused` being
every way they fail. `Render` is what React does at the end of a task: redirect
of ProtectedRoute, and forms that go with their page. A token is the account it
was issued to; the server may refuse any request. A 200 whose body cannot be
read is `null` and no error (api.ts:53-58): `ProfileUnreadable` and
`MeUnreadable` keep the token and store nobody; the other handlers trip over it
and show an error (`Refused`). `strayed` is history: the profile stored last is
not that of the token, or a login lost its own. Left out:
a password refused before it is sent, the second effect that StrictMode runs in
development builds only, and the history buttons, whose states `Load` reaches.

**Permissions.** The table of `permissions.go`, the middleware of each route, the
table `RolesPage` shows and `hasRole`, each copied from its place as sets of
roles and rights. `OneTruth` says where they agree and lists, exhaustively,
where they do not.

**Requests / Console.** A request in flight is a record of `waiting`; `Handle` is
the backend, `Answered` and `Failing` are the two ways its `await` goes on. The
backend may handle any request in any order, and a request may fail whether it
was handled or not. `late` is history: a newer request of the same kind is over.
Leaving a page forgets its state and its requests, except writes the backend has
yet to handle (`Left`): those still take effect (`orphan`). What an orphaned
continuation does to state that is gone has no visible effect. `Navigate` is the
router, with the roles of `App.tsx`. The sandbox card and the badge share no
state with what is around them and are watched as if they were pages of their
own (`"sandbox"`, `"frame"`).

**PoliciesPage / AccessChecks / UserDirectory / UsersPage / DashboardPage /
Navbar.** One action per
handler up to its `await`, and one per way it goes on. `past` is the sequence of
policy sets the backend has gone through; an answer is an index into it. This is
what `PolicyService` promises: every call takes effect in one step between request
and answer (`PolicyEngine` is proved to keep that promise). `Elsewhere` is another
administrator, or a restart. `members` is the same for accounts: `Register` adds
one, `RestartInMemory` leaves those of `seedDevUsers`. A trail may have no
events: after such a restart, or while the INSERT of the user's own login is
pending or lost. An access check whose 200 cannot be read leaves no decision
(`Read`). `acked`, `lapsed`, `crossed`, `edited`,
`asked`, `overtaken`, `unheard`, `lost` and `clicked` are history. An access
decision is ALLOW or not; a device, MFA and risk are one posture. The poll of
the badge is at most `Polls` requests in flight.

**RateLimiter.** One key. `Admit` is `IsRateLimited` behind `withRateLimit`;
`AdmitBlindly` the error that is logged and the `NilRateLimiter` of a start
without Redis; `RecordFailedLogin` and `RecordBreaks` the pipeline that succeeds
and the one that breaks at either command. `auth.Handler.Login` calls neither
`RecordFailedLogin` nor `ResetFailedLogins`, so in the server only `LoginEnds`
happens; the model has both, called as interview_prep.md:80 describes, so that
the package is checked for the use it was written for. `Tick` is Redis.

**AuditTable.** `LogEvent` stamps, `InsertRow` is the goroutine, `Count` and `Select`
the two statements. Rows of one timestamp come in an order chosen anew each
time. The reader asks for the next page as long as the total says so.

**UserStores.** The maps and the table get the same calls; `alike` remembers
whether they answered alike. `UpdateUser` has no caller in the server and stands for
any. An account is its id, its name, `created_at` and a value for everything
else. The table refuses an organization that does not exist
(002_create_users.sql:7) and leaves `created_at` (store_postgres.go:163), where
the maps take any record; `clashed` remembers that a call was one of these.

**TOTPWindow.** A code is its counter; the device's clock and the server's go at
their own pace. `PyVerdict` is `verify_totp` of `security/totp_verify.py`.

Operators that begin with the comment *Fault* are not part of any behaviour:
each is the mutated form of the definition that follows it, and shows that a
property notices.

## 4. Runs

| Run | Bounds | Shows |
|---|---|---|
| `engine_linear` | 2 connections, 3 calls over all six operations and every refusal, 1 restart, fairness | each call is one atomic step of `PolicyService`; no map race, one event per change, store and trail agree, unanimous grants; every call is answered, because nobody waits at the lock in vain and its holder gives it back |
| `engine_most_restrictive` | 2 connections, 2 calls | **violated**: engine.go:74 |
| `audit_queries` | 2 writers, 4 events, pages of at most 3, `int` of 5 bits | nothing lost, order, pages, answers |
| `page_walk` | 4 events, 2 rows a page, 4 requests | a patient reader sees all |
| `page_stale` | 3 events, 1 row a page, 4 requests | **violated**: AuditPage.tsx:175 |
| `auth_memory` | 2 connections, 4 calls, 1 restart, memory | one account per name, trail matches, tokens true and on record |
| `auth_database` | 2 connections, 3 calls, 1 restart, PostgreSQL | true events through outages; MFA takes codes of the stored secret only |
| `auth_shutdown` | 1 call, 1 restart | **violated**: interview_prep.md:13 |
| `auth_enrolment` | 3 calls | **violated**: interview_prep.md:86 |
| `browser_session` | 3 accounts, 2 requests in flight, 2 loadings, fairness | copies of the token agree, who is shown and let in, spinners end, each having a request to wait for |
| `console` | 3 roles, 3 requests, 3 policy ids, 3 versions of the policies and of the accounts, 2 applications, 2 names, 2 polls, fairness | each page at rest shows what it should; own writes are seen; roles agree; spinners stop, each having a request to wait for; the badge converges, and stays right once it is |
| `backend` | 3 attempts, limit 2, lockout of 3 ticks, 2 Redis errors; 3 rows, 1 a page; 2 accounts, 3 names, 2 dates; steps of 3 s | failures bounded; lockouts end, put off at most once by each attempt under way; a reader sees all; stores agree; the window of codes |

Why the bounds are enough to be interesting. Two connections are the least at
which calls interleave and at which a waiting writer blocks the next reader;
what holds for more is proved (section 5). The policy calls are chosen against the built-in
policies: the created policy denies the request the built-in one grants. Four
events over pages of one, two and three rows give full, partly filled and empty
last pages; page 8 with rows of 3 overflows an `int` of 5 bits, as page
2^63 / 50 does the real one. Four requests let a reader start, go on, and be
overtaken. Register, login and a token's use are three calls; a fourth races
with one of them. Two requests in flight and two loadings let a login overtake
the profile request of the loading, and a request outlive a logout; the three
accounts are one every door is open to, one App and the server judge differently,
and one neither lets in. Three requests are an opening, a
write and the list behind it, or two launches and a third; they overlap, and a
page can be left and opened again between them. Three versions are the policies before
an own write, after it, and after somebody else's; three of the accounts are a
seeded one, another registered, and a restart without it. Two polls can answer in the
other order. Three attempts at a limit of two pass the check together; a lockout
of three ticks can be started anew in the middle; two errors can lose every
EXPIRE of a key. Three rows on pages of one are inserted late, between two
statements, and behind newer ones. Two accounts and three names suffice
for a rename to a free, a taken and an own name. A drift of seven seconds at steps of
three passes two steps either way. One restart is the least at which something from before meets
something from after. Deadlock is checked for the policy engine and the queries;
the pages, the auth service and the parts of the backend stop when their bounds
are reached.

**Fairness.** Four runs need it. `engine_linear`: every runnable goroutine is run
(weak fairness of `Handle`), and the two steps that take the lock are strongly
fair, because `sync.RWMutex` admits waiting readers after each writer and queues
writers on a fair mutex. `browser_session`: every request settles (weak fairness
of `Settle`), because the server's read and write timeouts (main.go:99-101) or the
loss of the connection end it. `console`: the same of the requests of each page, and
the interval of the badge fires (Navbar.tsx:23); no fairness is asked of the
backend. `backend`: time passes (`Tick`), because Redis expires keys by itself. Clients
and users need not send requests and the process need not restart.

**Documented promises that do not hold.** The violated runs above are the ones
found by interleaving or by a sequence of calls. Others are plain from one line
and have no run: policies are in no database (README.md:105), role `user` is no
alias of `viewer` in `Evaluate` (users/model.go:28), a blank around a username
registers and does not log in, tokens do not survive a new signing key
(interview_prep.md:137) and, in memory, outlive their accounts, an INSERT of an
event that fails is only printed (interview_prep.md:64), and a page number whose
offset wraps below zero panics in `List` (the model's `Panicked`, which
`AnswerIsThePage` confines to offsets that overflow). In the browser, the user on
the screen is not always the owner of the token: an answer that was
on its way at a logout shows its user again without a token, a login whose profile
request fails leaves the earlier user under the new token, and a profile whose
body cannot be read leaves nobody under it (useAuth.tsx:30-31, 47-49,
api.ts:53-58); `SessionAgrees` names these three and no other. Besides, the failure
of an older profile request ends a newer session (useAuth.tsx:32-35).
Analysts view audit logs by README.md:159 and may open the audit page
(App.tsx:44), and are refused its list (main.go:194); `DoorsAgree` names that
exception.

Further, each named in the property that would otherwise fail:

- A list of policies or users that was asked for earlier may come later and stays
  (`lapsed`, `overtaken`); on the applications page a decision about one
  application may stand under the name of another (`crossed`).
- Not every right of permissions.go:39 ("single source of truth") is granted by
  its route: `audit.read` of analysts; `users.read` of security managers,
  developers and analysts; and `GET /policies` serves viewers and users, who lack
  `policies.read`. No handler reads the table.
- The dashboard shows 4 users to whoever may not ask (DashboardPage.tsx:22), and
  the prover shows "403 / 401" for a connection that failed.
- A failed query at login is answered 401 and recorded as LOGIN_FAILED, though
  service.go:144 speaks of authentication failures (service.go:148).
- No login is ever counted by the limiter (interview_prep.md:80 describes a
  lockout after five failures); its key is `r.RemoteAddr`, address and port, so
  another connection is another key; MFA verification is not behind it
  (interview_prep.md:146). Used as described, attempts that overlap pass the
  limit by their number, and a key whose every EXPIRE was lost never expires.
- A reader of the PostgreSQL trail misses a row that comes between COUNT and
  SELECT of his last page, and may miss rows of equal timestamps.
- Renaming to a taken name succeeds in the memory store and overwrites the
  other's entry; PostgreSQL refuses. It also refuses an organization that does not
  exist, and an update leaves its `created_at` as it was.
- `verify_totp` raises in the first time step of all, where `VerifyTOTP` answers.

## 5. Proofs

All for any sets of connections, writers and calls and any bounds. Every module
has its theorem `Spec => []TypeOK`, which the others rest on. The
assumptions are the named `ASSUME`s of the modules, which TLC evaluates.

**PolicyEngineProofs.** `EngineInv` ties the lock to the program counters
(`LockInv`), the calls to the places they can stand at (`CallInv`), and what a
loop has collected to the store as it is (`LoopInv`). None of the results is
inductive alone: `NoMapRace` needs `LockInv`, and `GrantIsUnanimous` needs that
nothing changed since the first loop, which is `LoopInv`, preserved because a
writer inside the lock excludes readers. From it:
`TypeCorrect`, `MapRaceFree`, `GrantsAreUnanimous`, and
`EngineImplementsService` (every step is a step of `PolicyService` or a stutter:
the last step of each call under the lock is the one that serves it).
The ledger has an invariant of its own, `LedgerInv`: `LedgerMatchesStore` and
`NoSecondEvent` are inductive together (a second deletion is refused because the
first has taken the policy out of the store, which the ledger says), once it is
known that ids of this boot begin at `firstID` and that nothing older is deleted.
Most steps are `Beside` the ledger; the rest draw an id, answer, or log.
Two results are the safety half of `EveryCallAnswered`. `NobodyWaitsInVain`: who
cannot go on waits at the lock, and one of those who hold or have announced it can
(from `LockInv`). `LockAlwaysReturns`: `TurnsLeft` counts the
turns a holder has before he unlocks, and every step of his lowers it while
nobody else's changes it; that the entries of the map are finitely many follows
from their ids being drawn since `firstID`.

**MemoryLoggerProofs.** `NothingLost` is inductive with the types.
`OrderedUpToOverlap` needs `OrderInv`: a stamped draft is not earlier than any
event its call found on the trail, since the clock has not gone back.

**AuditQueriesProofs.** Three facts of `List`, for any width of `int`:
`AnswerTyped` (whatever the offset wraps to), `AnswerListed` (an offset that does
not wrap gives exactly the rows of that page) and `PagesJoin` (the pages offered,
one after another, are the trail). The last is an induction over pages, by least
counterexample (`LeastMember`, from the well-foundedness of the natural numbers):
`Flattened` says that a sequence of partial results that satisfies the recursion
is what the recursion computes, and the partial results are the slices up to the
end of each page (`SlicesJoin`, `OfferedRows`). `TrailAssumption` says that the
trail and one page of it fit an `int`: in Go the trail is a slice in memory. From
these and the proofs of the log: `QueriesTypeCorrect`, `AnswersArePages`,
`PagesAreTheTrail`.

**AuditPageProofs.** `PatientReaderSeesAll`: pages are counted from the newest
event, so new events only push unseen ones to later pages. `WalkInv` says where
each event of the walk is: seen, on the page asked for, or on a later page of
the trail as it was when the answer was computed; `Covered` is monotone in the
length of the trail. The page arithmetic (`PageStarts`, `LastPage`,
`ListedPage`) and the bound on the trail come first; `NoWrapAssumption` says
that the trail and one page of it fit an `int`.

**AuthServiceProofs.** `AuthInv` joins the properties to what they lean on.
`StandInv`: a goroutine has what it needs where it stands; one that has looked up
an account holds a copy of one in the store, since no handler changes an account.
`DueInv`: who has replied with a token owes the LOGIN_SUCCESS that names it, or
has logged it already.
`FreshInv`: accounts, events and tokens have ids below the next one, so that
what is made next cannot be mistaken for what is there, also after a crash
between the insertion and the event. `MemoryInv`: without a database nothing is
being written, tokens are on record and registrations match accounts. None
of the results is inductive without these. Each action is first shown to be one
of a few kinds of step (`StepKinds`: nothing recorded, an event noted, an
account made with or without its event, a login, an event logged, an answer
given, an INSERT done, a restart), and each conjunct is proved for each kind once. The seeded
accounts are assumed to have distinct names (`AccountsAssumption`), as those of
main.go:255-260 do. `TokensRecorded` and
`AccountsRecorded` have `~Durable` as hypothesis, because over PostgreSQL both are
false: an INSERT may fail, and CreateUser may fail with its row in the table.

**BackendProofs.** One invariant for each part. `LimiterInv`: Redis counts at least
the recent failures and keeps the key as long as the youngest of them, so an
attempt is admitted only below the limit, and each admitted attempt can add one.
`TableInv`: a row that was meant and not seen lies behind the pages shown
(`BehindInv`): rows that come late only push it further back; and the total is that
of the rows to be selected unless one came between (`CountInv`). `StoresInv`: each
map holds the rows of the table, under their ids and under their names; it is
`StoresAgree` made inductive. `TOTPInv`: a code carries the counter of the time
it was read at. The proof of `WindowAlwaysKept` showed that the property needs
the last counter to be below the largest (`StepAssumption`): in the first step of
all the counter before it wraps, and a device that had reached the largest
counter would be accepted. At 30 s a step and 64 bits no clock gets there.
`LockoutsRunOut`, the safety half of `LockoutEnds`, needs `DeadlineInv`: once an
EXPIRE was confirmed the key has a deadline as long as it exists. So a lockout has
at most `LockoutDuration` to go, and only an attempt under way can put its end
off, by ending itself.

**BrowserSessionProofs.** `SessionAgrees` is inductive with the types. The
argument is about who may still be asked for: as long as a profile request for the
present token is in flight nothing is claimed; the step that ends the last of them
either stores its owner, or clears token and user, or is one of the three ways to
stray; and every change of the token comes with such a request or with nobody on
the screen. One lemma says what a rendering leaves of the requests (`Rendered`),
one when a step keeps the claim (`SettledKept`).
`DoorsAlwaysAgree` follows with a comparison of the three role tables.
`SpinnersAlwaysOwed` is the safety half of `SpinnersEnd`: a spinner has a request
in flight that will stop it, and a form has one request and never a second.

**ConsoleProofs.** All eight invariants of the console and its action property, for any
roles, policies, accounts and number of requests. The first part is about requests alone: what a
step makes of those in flight (`KeptLate`, `WithoutOK`, `HandleIs`, `AskIs`), that
their numbers stay distinct, and from where each one comes (`Sources`); with it
`TypeCorrect`. Then one inductive invariant per promise:
`OwnWritesAreRead` needs `TimelyListIsOwed` (among the lists in flight that nothing
newer has overtaken, one is such that it and every later one will hold the last
acknowledged write: the answer of an older list makes older ones late, so that list
stays or is the one that came);
`DirectoryStaysFresh` needs `LastRefreshCounts` (an answer stands for an edition
since its refresh, and the last one, if it has come, is what is shown) and that a
spinner has a request to wait for; `VerdictsStayInPlace` needs `CatalogInv` (the last launch is in flight and
timely, or all that are in flight are late) and `SandboxInv` (one evaluation at a
time); `AllowIsGranted` needs `AllowInv` (also the answers on their way are the
engine's); `DashboardIsHonest` needs `FeedInv` and `ProverInv` (one number and one
endpoint at a time, and an answer that is not a refusal is for a role the route
serves); `RolesAreOneTruth` compares the tables role by role (`RolesAgree`) and
needs that the form is open only for a manager (`FormInv`). The safety halves of
the liveness properties: `SpinnersAlwaysOwed` is inductive with `SpinInv` (where no
second request can be sent there is a single one), and `BadgeKept` says that no
answer takes back a badge that is right while nothing older is on its way.

**Model-checked only.** Liveness (`EveryCallAnswered`, `SpinnersEnd`,
`SpinnersStop`, `BadgeConverges`, `LockoutEnds`), which needs fairness and
ENABLED. Their safety halves are proved, as said above: what is waited for exists,
its end comes nearer with each step of who owes it, and what puts it off is
bounded. That somebody takes those steps is what TLC checks. All
invariants and action properties of the passing runs, and the refinement of
`PolicyService`, are proved. No module of a proof has a recursive operator.

## 6. Not modelled

- The settings page renders the user and the payload of his token; the roles page
  and the cards of the dashboard render constants and what is modelled.
- Migrations: every script is one implicit transaction of `IF NOT EXISTS`
  statements, run again at every start. What may go wrong when two processes run
  one at once is inside PostgreSQL.
- CORS, security headers, body limits, timeouts and the text of the health check:
  stateless, or a way for a request to fail, which every request here may.
- The order in which vault, environment and refusal to start give the signing
  key: one step of a start; `AuthService` lets each start find any key.
- Terraform, Docker and CI files: deployment.
- HMAC, Base32, bcrypt, JWT encoding, JSON, Redis and the database engine are
  libraries and services, modelled by what they decide for this code.

`AuthService` takes the user store as one set because CreateUser and the lookups
each hold the lock once; that both stores are such a set is `StoresAgree`.
`Console` takes the session as given and the engine as `PolicyService`
promises it. React's StrictMode, which runs effects twice in development builds, is
left out.
