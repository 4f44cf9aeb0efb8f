# TLA+ models of SafeScholar

This directory specifies the stateful core of the gateway and of its web
interface: what the gateway's handlers do to Postgres, Redis, Kafka and to
in-process state when they run concurrently, fail half-way or are restarted, and
what the pages of the browser show and send while their requests, timers and
sockets overlap. TLC checks the specifications on small instances; TLAPS
proves most of their safety properties, and that the sign-in code implements its
abstract specification, for every instance.

## 1. The system

The gateway (Go, `cmd/server/main.go`) terminates HTTP and WebSocket traffic,
authenticates users, authorises and rate-limits requests and forwards them to
back-end services. It keeps its state in three places outside the process
(Postgres, Redis, Kafka) and in a few structures inside it. The web interface
(React, `ui/src`) is the larger program: it keeps its own state in components,
in module-level services, in the browser's storage and in sockets, and talks to
the gateway through `apiFetch`.

| Part | State | Operations | Interacts with |
| --- | --- | --- | --- |
| Session lifecycle (`internal/auth`, `internal/oauth`) | rows of `users`, `sessions`, `jwt_tokens`; Redis `session:<id>`, `jwt:blacklist:<jti>`, `pwd_reset_token:<t>` | Login, OAuth callback, Validate, Logout, IsolateUser, DeleteUser, ForgotPassword, ResetPassword, ChangePassword, ApproveUser, RevokeAllUserSessions | Postgres transactions and Redis commands, none of them atomic together; audit logger |
| Login lockout (`authService.go:453-533`) | Redis failure counters and lockout keys per account and per address | allowAttempt, recordFailure, clearFailures | called by Login around the password check |
| Circuit breaker (`internal/plugins/circuitBreaker.go`) | state, two counters, last failure, parameters under a mutex | AllowRequest, RecordSuccess, RecordFailure, Reset, UpdateParams | ExecuteWithResilience calls it before and after an upstream call that runs without a lock |
| Plugin registry (`internal/plugins/registry.go`) | map of plugins, tenant overrides; tables `system_plugins`, `tenant_plugin_overrides` | toggle, update, create, delete, override, load | memory is changed first, the database afterwards |
| Audit pipeline (`internal/security/auditLogger.go`, `infrastructure/messaging`) | asynchronous Kafka writer, fallback channel, topic, consumer batch, offsets, table `audit_logs` | Log, Publish, drain, fetch, flush, commit, Stop, Close | main's shutdown sequence, the process context |
| Load balancer and proxy (`internal/gateway`) | pools of endpoints with health and connection counts | RegisterService, Select, release, ResolveURL, Forward | every proxied request |
| Rate limiter (`internal/security/rateLimiter.go`) | Redis hash of tokens and timestamp per key | one Lua script | clocks of all gateway instances |
| Caches (`infrastructure/cache`) | Redis copies of users, institutions, permissions | get, fill, invalidate | Me, IsolateUser, role changes |
| Registration, approvals, trial quota | users, approval requests, institutions | Register, ApproveUser, ReviewInstitutionRequest, ValidateTrialQuota | session lifecycle through the account status |
| RBAC (`internal/rbac`) | roles, role permissions, user roles, delegations | grant, revoke, create, delegate | permissions copied into tokens at login |
| Oversight (`wsRouter.go`, `oversightStream.go`) | freeze flag, pub/sub events | student prompt loop, freeze, stream | AI and moderation clients |
| Telemetry (`tenantTelemetryMiddleware.go`) | channel, worker batch | increment, flush, Close | detached goroutines, shutdown |
| Middleware, clients, contracts, crypto, configuration | none or read-only | one request at a time | - |
| AI orchestrator, LMS integration | separate programs | - | HTTP |
| Sign-in state and guards (`ui/src/services/authService.ts`, `AuthGuard`, `RoleGuard`, `LoginPage`, `ResetPasswordPage`) | tokens in session storage, user, permissions, status, the forms | login, OAuth popup, logout, the `/me` effect, registration, reset | overlapping requests whose answers are not tied to the token in force |
| Tutor chat (`wsTutorService.ts`, `SocraticTutorPage`, `StudentChatHub`) | socket, reconnect timer, attempts | connect, disconnect, send, reconnect | gateway's prompt loop |
| Oversight dashboard (`StudentOversightDashboard.tsx`) | socket, timer, list of sessions, freeze switch | connect, reconnect, toggle freeze | gateway's stream and freeze request |
| Test environment (`StudentTestEnvironmentPage.tsx`, `assessmentAssignmentService.ts`) | local storage of tests and submissions, countdown, answers | enter, answer, finish, retake, countdown | other tabs through local storage |
| Super administrator's console (`SuperAdminDashboard.tsx`) | lists of tenants, plugins, roles; open form; calls and loads under way | some thirty handlers and `loadData` | trial, plugin and RBAC operations of the gateway |
| Approvals (`TeacherManagementPage`, `StudentManagementPage`, `InstitutionAdminDashboard`, `UserManagement`, `ProfilePage`) | lists, roster in local storage, reject dialog, pending request banner | approve, reject, isolate, delete, assign, request a change, save | ApproveUser, IsolateUser, RequestProfileChange, UpdateProfile |
| Other pages | the last answer of the AI, static text | one request each | AI service |

What makes these parts hard: a handler is a chain of separate transactions and
commands with other handlers between any two of them; almost every error of
Redis and many of Postgres are ignored, so a chain may go on with a step
missing; results of upstream calls arrive late and out of order; asynchronous
writers and in-memory batches meet crashes and shutdown. In the browser every
handler resumes after an `await` in a page that may show something else by then,
lists are out of date, timers and close events outlive their page, and two tabs
share one local storage. `PROJECT.json` lists
each such place under `hazards`, with the property that covers it.

What correctness means, per part:

* sessions: a revoked or deleted session stops validating, stays dead, and every
  way in which Redis and Postgres may disagree about it is known; no token of a
  deleted user exists; logins end although they hold row locks, unless the
  connection pool jams;
* lockout: counters end, limits lock, guesses are bounded under concurrency;
* breaker: opens and closes on exactly the runs of results its parameters name,
  and recovers;
* audit: an event is stored, on its way, or lost through a known window, and does
  not wait for ever;
* sign-in: the screen shows the owner of the token, guarded pages are open to that
  user, waiting ends; in the abstract, nobody is shown without a grant;
* sockets: "connected" is true, pages that are gone stay silent, prompts are
  counted once, "frozen" is true;
* tests: results are recorded, answers arrive, lateness and repetition have known
  causes, a sitting ends;
* console: a quiet page is fresh, a switch inverts, a created role is whole;
* approvals: a decision acts on what was decided on, approved changes and only
  those are in the profile, seats of a trial are kept, active members have roles;
* load balancer: requests go to replicas of their own service, unhealthy ones are
  avoided, connection counts return to zero;
* rate limiter: no more than capacity plus refill in any window;
* caches and permissions: no stale entry survives an invalidation for ever.

## 2. Modules

| Module | Models | Depends on |
| --- | --- | --- |
| `SessionLifecycle` | sessions, keys, tokens, revocation | - |
| `SessionLifecycleProofs` | five theorems about it | `SessionLifecycle`, `TLAPS` |
| `LoginLockout` | failure counters and locks | - |
| `LoginLockoutProofs` | four theorems about it | `LoginLockout`, `TLAPS` |
| `CircuitBreaker` | breaker and its callers | - |
| `CircuitBreakerProofs` | three theorems about it | `CircuitBreaker`, `TLAPS` |
| `AuditPipeline` | audit events from Log to `audit_logs` | - |
| `AuditPipelineProofs` | three theorems about it | `AuditPipeline`, `TLAPS` |
| `SignIn` | what the interface promises about who is signed in (abstract) | - |
| `ClientAuth` | AuthProvider, guards, login, registration and reset forms, links; refines `SignIn` | `SignIn` |
| `ClientAuthProofs` | five theorems about it, the refinement among them | `ClientAuth`, `TLAPS` |
| `TutorSocket` | chat pages over the reconnecting socket | - |
| `OversightStream` | dashboard socket and freeze switch | - |
| `LiveLessons` | both, composed with the gateway's prompt loop | `TutorSocket`, `OversightStream` |
| `TestChamber` | the student's test environment in several tabs | - |
| `TestChamberProofs` | four theorems about it | `TestChamber`, `TLAPS` |
| `SuperConsole` | the super administrator's console and the effect of its calls | - |
| `PageProofs` | six theorems about `LiveLessons`, four about `SuperConsole` | `LiveLessons`, `SuperConsole`, `TLAPS` |
| `Approvals` | administration pages, profile pages and the gateway's decisions | - |
| `ApprovalsProofs` | six theorems about it | `Approvals`, `TLAPS` |
| `MCSessions`, `MCLockout`, `MCBreaker`, `MCAudit`, `MCClientAuth`, `MCTestChamber`, `MCApprovals` | constants for TLC | one each |

A definition that no specification uses and that stands before an operation with
a similar name is a mutant: a plausible bug of that operation (its comment says
"Mutant" or "The same, ..."). Each checked property is known to fail with one.

### SessionLifecycle

A member of `Sids` is one login attempt together with the session id it draws; a
member of `Ops` is one IsolateUser, DeleteUser or ResetPassword request. `row`
is the `sessions` row, `key` the Redis key, `jwt` the `jwt_tokens` rows, `blk`
the blacklist. A login walks through `pc`: `LoginRead` (status and password),
`LoginTouch` (the `last_login` update that locks the user's row until the outer
transaction ends), `CreateRow` and `CreateKey` (SessionManager.Create),
`IssueUserTokens`, `SetTokenIDRow`, `SetTokenIDGet`, `SetTokenIDSet` (a read and
a write back of the key with other handlers in between) and `LoginCommit` or
`LoginAbort`. The OAuth callback enters at `FindUser` and holds no row lock.
`Revoke...` are the steps of Logout, `RevokeAll...` those of
RevokeAllUserSessions, shared by isolation, deletion and password reset.
`EvictKey`, `BlacklistExpires` and `ResetTokenExpires` are what time and Redis
do.

A password login keeps the connection of its outer transaction (`OuterTx`) while
Create, each recordToken and SetTokenID take another from the same pool, without a
deadline (`authService.go:112`, `config.dev.yaml:19`). Every step that begins a
transaction therefore needs `PoolFree`. Transactions that end in the step that
begins them are not counted between steps; the select and update of
RevokeAllUserSessions share one, which is. `WaitForRow` and `WaitOver` are the other
requests that update a row of `users` (ApproveUser, ChangePassword, IsolateUser and
the like) while they wait for a login's row lock with a connection in hand.

With `DbMayFail` a transaction may fail where the code handles it; with
`RedisMayFail` a command may be lost, or carried out and reported as failed.

Two history variables serve the properties: `doomed` holds the sessions a
completed revocation had to end, `excuse` the windows a session went through.

Passwords are versions, times are events (a key may expire whenever its TTL
could), users are approved before they start. `InstitutionColumn` says whether
table `sessions` still has the column that SessionManager.Create inserts and
that the migrations drop.

### LoginLockout

One action per Redis command: two EXISTS, the verdict, and for the account and
then the address INCR, EXPIRE (only when INCR answered 1), SET and DEL (only at
the limit), or one DEL of all four keys after a success. `fail` is the counter,
`ttl` the counters that carry an expiry, `lock` the locked keys. `MaxLost`
bounds the commands that are lost; an INCR that is lost, or whose reply is
(`CountUnseen`), ends recordFailure, unless go-redis sends it again; the other
losses are ignored as in the code. `tried` counts wrong guesses since a key was
last cleared, expired or unlocked. Key names and durations are abstracted: a
key with an expiry may expire at any step.

### CircuitBreaker

Each caller passes `CheckEnabled`, `AllowRequest`, an upstream call that ends
well or badly, and `RecordSuccess` or `RecordFailure`, each a critical section;
the administrator takes `UpdateParams`, `Reset` and `TogglePlugin` steps; `Tick`
ages the last failure. `calm` is the environment: while it holds, calls that
start end well. The counters of the code that only feed statistics, and the
choice between fallback payload and error, are left out: no later step reads
them. `streak` and `goodRun` are history variables.

### AuditPipeline

`LogDirect` is Log without Kafka; `Publish` hands the event to the asynchronous
writer, `PublishFallback` to the bounded channel, whose reader (`DrainFallback`)
drops what it receives. `Fetch`, `FlushFull`, `CommitMessages`, `TickFlush` and
`AutoCommit` are the consumer loop and its reader, with the offset noted before
the batch is stored. `Signal`, `StopConsumer`, `ConsumerStops`, `CloseProducer`
and `Exit` are main's shutdown in its order; the signal cancels the context
that requests, flushes and commits use. `Crash` may strike anywhere; the next
process reads from the committed offset. The batch is a sequence of offsets, so a
message given twice is in it twice; `msg` is the one the loop handles.

The reader belongs to a consumer group (`kafkaConsumer.go:46`), so it can also be
set back while the process lives: `Rebalance` is a change of the group, or a
reader that was taken for dead and joins again. It sends the noted offset if it
still may, forgets it and resumes at the committed one, while the loop keeps its
batch and the message in hand and may then commit a lower offset than before
(`AutoCommit`). `seen` and `reread` (history) are the highest offset ever given
and the events of messages given again. One gateway reads the partition; events
are opaque, and `Poison` events are the ones Postgres rejects. `why` records every
discarded copy. The writer sends an event at most twice, a bound.

### ClientAuth and SignIn

A token is the number of the sign-in that obtained it. `flows` are the sign-ins,
each with its phase: the request, the popup of a provider, the `/me` request of
`login()` itself; `effect` is the token whose `/me` effect is not answered. Pages
are grouped by the permission their route asks for, and `Landed` sends a visitor
where AuthGuard and RoleGuard send them. `late` (history) says that `login()` set
its user although the token had been replaced or dropped meanwhile: that window
exists, and the two invariants name it. `SignIn` is the abstract promise, with
the user shown, the accounts that asked and those that were granted;
`KeepsPromise` is the refinement.

### TutorSocket, OversightStream, LiveLessons

Every visit of a page has a service, or references, of its own, and earlier ones
live on unseen: their timers fire and their close events arrive. `orphans` counts
timers whose id was overwritten; `stranded` (history) says that Retry was pressed
while a reconnect was pending. A dashboard visit keeps the list of its sockets,
since the clean-up leaves the close handler of an open one in place. Freeze
requests are handled and answered in any order and may be lost either way; one
that the page gave up after two minutes may be carried out later (`abandoned`).
The gateway's flag also runs out (twelve hours, `FreezeExpires`) and is changed
by other dashboards. Two histories: `doubt` says that opposite requests
overlapped, `apart` that the flag last changed without an answer to this page;
the next request that the gateway carries out clears `apart`. `LiveLessons` lets
the gateway check the freeze flag, moderate, ask the AI, answer and publish; the
flag is read once per prompt, before the AI is asked, and an error of Redis at
that check lets the prompt of a frozen session pass, so `PassPrompt` does not
depend on the flag.

### TestChamber

A tab works on the roster and the submissions it read; `tests`, `subs` and
`storedYear` are the local storage, in which the service finds no submission yet or
that of a seed (`SeedSubmissions`). `Second` lets time pass and makes ticks due,
`Tick` is the countdown with the answers of the render before, and an open
confirm or alert box stops a tab. A tick may come as late as it likes, in any tab:
every render arms a new interval, so delays add up, a hidden tab is throttled and a
sleeping device has no ticks. `gap` is the time since the last tick and `missed` says
that one was skipped. Time is relative and saturates at `LongPast`. The result of a
submission (percentage and band) is computed as the page does, with its rounding. A
write that the browser refuses (`kept`) is swallowed as in `submitTest`, and the
result is shown all the same. What the browser stored it keeps: clearing the site's
data is not modelled.

### SuperConsole

`server` is what the gateway holds, `view` the lists on the page. A call is sent,
carried out or refused, and answered; a load asks for every list of the tab and
is shown when all are settled, in whatever order loads end. The tenant of a load
is the one selected when its handler started. Forms keep what they were opened
with. An instance works in one tab of the page at a time, because handlers of a
tab change its lists only. `UnseenCall` is a call the page does not wait for:
another administrator's, or one of its own that `apiFetch` gave up after two
minutes and the gateway carries out all the same. `TrialExpires` is the end of a
trial, by which the list shows it. `InForce` is IsPluginEnabled, `Shown` what the
card says. `lag` (history) says that the page missed a change: a list that failed
or was overtaken, a lost answer, or one of these changes.

### Approvals

A desk is an open administration page; its list is what it last loaded. A call
(`calls`) goes through the quota check, the reads and the writes of ApproveUser,
which are separate steps because the quota is checked in a transaction of its
own and no row is locked between read and write. `k` is the request the
administrator clicked (0: an account of UserManagement); the gateway never sees
it and takes the newest pending request instead. `profile[u]` is the set of
change requests contained in the user's metadata. Profile pages (`Tabs`) send
change requests and direct saves, each a read and a write of the metadata. The
roster pages keep a roster in local storage. Other members of the institution are
a number (`crowd`) that moves within the seats. `overlap`, `late` and `rush` are
history variables that name what the code is open to: overlapping transactions on
one user, decisions after a decision, and a seat that was taken between check and
use, by AssignRoleToUser, or by an approval that was let through uncounted.
Uncounted means that the call carried another role, or none while students are
approved (`CountsAsked`), or that the user, the role or the count could not be read:
validateUserApprovalAgainstTrial and ValidateTrialQuota then let the approval go
on, the third disjunct of `QuotaCheck`. The role that is granted (`grant`) is the one
asked for, another or none: UserManagement sends what the administrator selected,
the dashboard the first role of its list when it does not find the one asked for
or nothing when it has no list, and the roster pages nothing, in which case
ApproveUser takes the role of the newest pending request (`GrantedRole`). `granted`
are the users with the role that candidates ask for, `holders` those with any role,
`hired` those who have ever been active.

## 3. Runs

Passing runs:

* `sessions`: one user, a password login and an OAuth login, a logout each and
  one isolation, deletion or password reset, with Postgres failures (3.5 million
  states). Two sessions are needed for one login to survive or to miss what is
  done to the other; one user suffices because no operation reads two users.
  - `StaleKeyExplained`: a Redis key outlives its row only while a DEL is pending
    or through one of four windows: a login in flight wrote it back, the row was
    inserted between select and update, DeleteUser's cascade removed the row, the
    DEL was lost.
  - `RevocationTakesEffect`: with Redis answering, sessions that were complete
    when a revocation selected them are dead when it is over.
  - `RevocationFinal`: a finished session that stops validating never validates
    again.
  - `DeletedUserHasNoToken`: the `jwt_tokens` foreign key stops either the delete
    or the login that raced with it.
* `login_progress`: two password logins and an OAuth login of one user and a request
  that waits for the row share three connections. `LoginEnds`: each login that has
  started ends, unless the pool stays jammed (`PoolJammed`). Three connections are
  the least with which two logins can contend for the row without a jam, and the
  waiting request makes the jam reachable. Failures only let a login end sooner, so
  this run has none.
* `lockout`: three attempts on one account and one address, limits 2 and 3, one
  lost command. `CounterExpires`: a counter without expiry has an EXPIRE coming
  or lost, or the reply of an INCR was. `NoMissedLock`: a counter at its limit has
  a lock or restart coming, with the same exceptions.
  `GuessesBounded`: at most limit times concurrency guesses. `MaxCount` is one
  above that product, so the bound never hides a violation; the tighter
  "limit - 1 + concurrency" fails, because a late DEL wipes a newer count.
* `breaker`: three callers, thresholds and cooldowns 1 and 2 changed while they
  run. `TripsExactly`, `ClosesExactly` relate each transition to the results
  reported since; `Recovers` is liveness. Three callers allow a late success and
  a late failure around a probe; `MaxThreshold` is above every threshold and
  `MaxAge` equals the longest cooldown, so saturation loses nothing.
* `audit_faults`: two events, one poisoned, batches of two, a fallback buffer of
  one, every fault, one rebalance. `LossExplained`: an event is stored, on its way,
  or discarded for a recorded cause. `DuplicateExplained`: two rows only for an event
  that was sent twice or whose very message the reader gave again.
  `EventuallyStored`: once gateway and brokers keep running, nothing waits for ever.
  `MaxTopic` = 3 holds two copies of one event and one of the other, so a full topic
  holds both; one rebalance, and any number of restarts, set the reader back with
  the batch kept and with it lost.
* `client_auth`: two accounts with different permissions, two sign-ins and a page
  load; a member signs in or a newcomer registers and resets.
  `ScreenMatchesToken`, `PageAllowed`, `ConfirmationTrue`, `WaitingEnds`
  (liveness) and `KeepsPromise` (refinement of `SignIn`). Two sign-ins are the
  least that overlap, and one page load meets all of them.
* `live_lessons`: one visit of a chat page with two reconnects and one visit of the
  dashboard with three sockets, one prompt and two freeze requests. A left page's
  service lives on, so one visit shows what comes after leaving. `ShownConnected`,
  `SilentAfterLeave`, `LiveKept`, `Settles`, `EventsOnce`, `FreezeHonest` (a page
  is wrong about "frozen" only after overlapping opposite requests, a lost answer,
  expiry, another dashboard or a request carried out late).
* `test_chamber`: two tabs of one student, ticks of either come late, a seed whose
  deadline has passed and whose submission can be reviewed, a published test, two
  attempts, writes that fail. `ResultsRecorded` (what is shown is stored, unless that
  very write failed), `AnswersArrive` (only the countdown can submit without the last
  answer), `TimeKept` (the countdown takes no time from the student, and gives some
  only past a box or a missed tick), `RepeatExplained`, `AttemptEnds`. The seed's
  submission stays in the list, so no list is empty when the published test is
  submitted; the proofs hold for every seed and for a student without one.
* `super_console`: each tab with two calls and two loads under way.
  `QuietViewFresh`, `SwitchInverts`, `CreatedWhole`, `BusyEnds`. Two of each are
  what it takes for one to overtake another. `MaxClicks` counts the changes from
  elsewhere too: one of them beside one call of the page, or two calls.
* `approvals`: one person with two profile pages, two desks with each kind of page
  beside another that can outdate it, one seat, three clicks. `DecisionOnTarget`,
  `RecordsMatchReviews`, `SeatsKept`, `ActiveHasRole`, `RosterHonest`. Three clicks are a request and two decisions on it. The
  exception of `RosterHonest` is real: an account deleted between the read and the
  write of an approval is not activated, the call is answered as a success when no
  role is to be granted, and the page enrols the person all the same. One person
  suffices because decisions on two people share nothing but the seats, for
  which `crowd` stands.

The type invariants of the modules describe their states; those of
`SessionLifecycle`, `LoginLockout`, `CircuitBreaker`, `AuditPipeline`,
`ClientAuth`, `LiveLessons`, `SuperConsole` and `Approvals` are theorems.

Runs that show a disagreement between the code and what is written about it (the
quotations are in `PROJECT.json` under `findings`): `isolation_wipes_keys` (a
login in flight keeps its key through an isolation) and `unreviewed_edit` (a
second or late decision on a sign-up commits a profile change nobody reviewed).

More divergences are visible in the models without a run of their own.

* `SessionLifecycle`: on a database where the migrations have dropped
  `sessions.institution_id` (`InstitutionColumn = FALSE`) the insert of
  `sessionManager.go:68` fails and no login gets a session; the runs use the
  schema the code was written for. Logins can block each other for ever: ten that
  hold their outer connection at once, or one and nine requests that wait for its
  row, leave none for the sessions they are to create. Until a client gives up
  (`LoginAbort`), no login proceeds; `LoginEnds` names this as the only obstacle.
  Isolation blacklists refresh tokens only
  (`RevokeAllBlacklist`), and ChangePassword revokes nothing (`ChangePassword`).
* `LoginLockout`: a login verified before a lock was set removes the lock when it
  succeeds (`ClearFailures`). A counter whose first INCR lost its reply has no
  expiry at all (`CountUnseen`): nothing sends EXPIRE to it later.
* `CircuitBreaker`: the late success of a request admitted before the circuit
  opened counts as a probe's, although `circuitBreaker.go:78` speaks of canaries.
* `AuditPipeline`: README.md promises delivery at least once; the causes in `why`
  are the exceptions: a writer that gives up, a fallback buffer that is drained
  into nothing, an offset committed before its event is stored. After the signal
  the consumer's ticker may also flush with the cancelled context (`CtxOutcome`).
* `TestChamber`: the Retake button starts a test again that the page's comment
  says can be attempted once; `RepeatExplained` names it. The results view (`StudentTestEnvironmentPage.tsx:746`) says the
  responses were recorded, although `submitTest` only logs a write that failed
  (`kept`). Two seeds carry percentages that their answers do not score (80 and 60
  for 70 and 50, `assessmentAssignmentService.ts:307`): `ResultsRecorded` exempts
  seeds from the agreement with the review.
* `OversightStream`: the clean-up closes an open socket but leaves its close
  handler, so a left dashboard opens a connection that nobody closes; the comment
  in `connectWebSocket` speaks of a singleton.
* `SuperConsole`: the permissions form keeps showing the role as it was opened, so
  a second click on a switch repeats the call instead of undoing it. When no tenant
  is selected any more, the cards show the overrides of the last one until the load
  arrives, while their switches are global again at once
  (`SuperAdminDashboard.tsx:365`, `1413`): such a switch inverts the flag behind the
  override and not what is on the screen. Two such clicks in a row contradict a plain
  reading of `SwitchInverts`, four clicks in all and more than the run has; the proof
  found it, and the property excepts it. A tenant's switch on a plugin that is
  disabled globally reports ENABLED (`SuperAdminDashboard.tsx:361`) and the card
  shows it, but IsPluginEnabled looks at overrides only when the plugin is enabled
  (`registry.go:318`): nothing is in force, which the property excepts as well.
  Saving a custom plugin's form disables the plugin, because the form sends no
  `enabled` and UpdatePlugin copies it (`registry.go:697`).
* `Approvals`: the roster pages send no role, so the approval of a student is
  checked against the seats of teachers (`router.go:1394`); a query of the check that
  fails lets the approval go on (`router.go:1389`, `trialService.go:436`); a profile change
  cannot be approved while the seats are full, since it passes the same check; a
  late rejection of a reviewed change rejects the account; IsolateUser writes
  `ISOLATED` while UserManagement offers "Activate" only for `isolated`, so an
  isolated account cannot be activated from there.

Deadlock is checked for `breaker` and `lockout`, whose systems never stop. In the
others clicks, logins or events are bounded, so they come to rest and say so with
`CHECK_DEADLOCK FALSE`.

## 4. Fairness

* `SessionLifecycle!FairSpec`: strong fairness of each login once it has begun, weak
  fairness of RevokeAllUserSessions between its select and its update and of a
  waiting request whose row is free. A handler goroutine is scheduled, and its
  statements end, by answer or by error, once they have a connection. Strong
  fairness is that of the queues: pgxpool hands out connections and Postgres a row
  lock in the order in which they were asked for, so a login that can proceed again
  and again does. Nobody is obliged to send a request or to cancel one, and no
  connection is assumed to become free.
* `CircuitBreaker!FairSpec`: time passes, each call ends (the plugin timeout
  bounds it) and callers keep calling. Without callers an open breaker stays open
  by design.
* `AuditPipeline!FairSpec`: weak fairness of the writer, the drain worker and the
  consumer's steps, strong fairness of the ticker branch: Go's `select` chooses at random
  among ready cases, so a ticker that is ready again and again is chosen.

* `ClientAuth!Spec`, `SuperConsole!ConsoleSpec`: weak fairness of answers. `apiFetch`
  aborts a request after its time-out, so each one ends; a provider's popup is left
  to the user and has no fairness.
* `LiveLessons!LiveSpec`: a connection attempt ends in an open or a close event and
  timers fire, both guaranteed by the browser.
* `TestChamber!FairSpec`: time passes and a due tick runs at some time in a tab that
  responds, however late; nothing is assumed of the student.

## 5. Proofs

All constants are arbitrary up to the named assumptions, which TLC evaluates in
every run.

* `SessionLifecycleProofs` (`ConstantsAssumption`). `TypeCorrect` is by induction.
  `StaleKeysExplained` needs three strengthenings: a logout starts only after its
  login is done (`LogoutAfterLogin`), an attempt that has not created its row has
  no key (`EarlyClean`), and a login in flight without a live row is already
  marked as raced or cascaded (`RacedMarked`); without the last one, the write
  back of a key would be unexplained. `DeletedUsersHoldNoToken` rests on tokens
  being recorded before the client gets them and on recorded tokens blocking the
  delete (`TokenInv`). `RevocationEffective` follows what RevokeAllUserSessions
  knows of the sessions it selected between select and DEL (`SettledInv`) and that
  doomed sessions stay dead (`DoomedDead`). `RevocationIsFinal` is an action
  property, from `DoneStable`.
* `LoginLockoutProofs` (`LockoutAssumption`). `CountersExpire` is inductive given
  types: whoever starts a counter is the one at EXPIRE. `NoLockMissed` needs
  `LockComing`: the attempt that reached the limit, and not just some attempt at
  EXPIRE, is at SET or DEL, unless the limit is one. `GuessesAreBounded` needs an
  account of every guess that can still come (`Budget`): while a key is locked,
  the guesses made and the attempts that passed its check before stay within the
  limit times the number of attempts; while it is open, so do the guesses made,
  the room left in the counter, the limit less one for each restart of the counter
  that is under way, and one guess for each attempt that holds none yet. The
  restarts pay for a slow DEL that wipes a newer count. An attempt works on keys of
  its own account and address only (`OnPath`). The sets of attempts are counted
  with the library's cardinality facts, for which `Attempts` is finite.
* `CircuitBreakerProofs` (`BreakerAssumption`). `BreakerTripsExactly` and
  `BreakerClosesExactly` follow from `CountersAgree`: in the state that consults
  it, each counter equals the history of reported results.
* `PageProofs`, `LiveLessons` (`TutorAssumption`, `DashAssumption`). The chat page:
  `TutorInv` says that the page shows the state of its own service, that a service
  which says connected has a socket (`ConnectedIsShownTruly`), that a timer beside
  a socket, or one the service lost track of, was stranded by Retry
  (`OpenSocketsAreKept`), and that pages that were left have neither
  (`LeftPagesAreSilent`). The freeze switch: `FrozenIsShownTruly` needs `Agreed`:
  without doubt, all requests under way want the same, the flag is what the carried
  out ones asked for unless it changed behind the page's back, and a session shown
  as frozen that no longer is then has an answer coming, to this very visit; without the last clause the answer would reach
  a page that is gone and the wrong flag would stay on the screen. The stream:
  `PromptsAreCountedOnce` needs `Single`: the one socket of a visit that is
  connecting or open is the one `wsRef` holds, so that an event is received by
  one handler. `LivePagesTypeCorrect` bounds the reconnects of both sockets by their
  limits; that the timers the chat service lost track of stay within the model's
  bound needs `Bounded`: a timer beside a socket leaves room for one more.
* `PageProofs`, `SuperConsole` (`ConsoleAssumption`). Each step is first shown to be
  one of fourteen kinds (`ConsoleCases`): a handler sends a well-formed call
  (`NewCall`), a form opens or closes, everything is loaded again, a load or a
  call gets one step further, or a change comes from elsewhere (`Elsewhere`,
  `TrialExpires`). `ConsoleShape` says of every call under way what the
  handlers of its tab put into it (`Fits`); `ConsoleTypeCorrect` is this with
  `OneSubmit`: one form at a time waits for its call, so that `isSubmitting` is on
  exactly while one does. `QuietPagesAreFresh` needs `FreshInv`. Until a call that was
  carried out has been followed by its load, a load is owed (`Owed`). If none is,
  the lists the newest load has received so far are what the gateway holds
  (`LastFresh`), and once no load is left that could still be shown as the newest,
  so is the page (`PageFresh`). Loads are overtaken and lose the power to make up
  for a missed change in the order in which they were sent (`FlagOrder`).
  `SwitchesInvert` follows from `Fits`, since a call's value differs from what the
  switch showed, and from what the gateway does with it (`PluginTurns`,
  `RoleTurns`); an override is in force because the plugin stays enabled globally. `CreatedRolesAreWhole` needs `BuiltInv`: the role of a creation that
  was not disturbed has exactly the permissions assigned so far.
* `AuditPipelineProofs` (`PipelineAssumption`). `PipeInv` adds to the types that
  only a consumer about to flush holds a full batch and that a stopped or dead one
  holds nothing. `NothingLostSilently` is then inductive: each step keeps an event
  stored, queued or in the topic (`Somewhere`), or records a cause, and every
  message the reader has passed is in the batch, stored or discarded (`Behind`).
  A rebalance or a restart only lowers the reader's position, so it keeps `Behind`;
  what a crash takes from the batch at or below the committed offset has its cause.
  `NothingStoredTwiceSilently` needs `OnceInv`: an event that was neither sent
  twice nor given again is in one place only (writer, one copy of the topic, one
  entry of the batch, one row), and a row of it means that its copy is at or below
  `seen` and out of the batch: a message above `seen` was never given.
* `ClientAuthProofs` (`ClientAssumption`). `ShapeInv` is the type invariant with
  `TokenInv`: storage and effect agree with the token of the context, which some
  sign-in obtained. `ScreenShowsTokensOwner` and `PagesAreGuarded` are proved
  together (`ScreenInv`), since a page is guarded with the permissions, and these
  are those of the user shown only once the token's profile has arrived.
  `ConfirmationsAreTrue` follows from what a step can put on the form
  (`Truthful`). `SignInIsImplemented` maps the user on the screen and the accounts
  of the sign-ins in each phase to the variables of `SignIn` (`ShownUser`,
  `AskedFor`, `GrantedTo`) and shows each action to be a step of it or a stutter.
* `TestChamberProofs` (`TestAssumption`). All four theorems come from one inductive
  invariant. Per tab (`PageInv`): the page knows stored tests and copies of stored
  submissions only (`Copied`), what is shown is one of them unless its write failed (`Shown`), a box is open
  only in a test whose clock it stopped (`Boxed`), a test that was entered had no
  submission then and has since been submitted by other tabs only (`Entered`), and
  the countdown and the time spent add up to at least the limit but for the tick that
  is due, and to exactly that where no tick was missed (`OnTime`). `OnTime` gives
  `TimeKept`; the ledger of submissions satisfies the two properties about it, where
  `Entered` is what explains a repetition. A result that could not be stored is shown
  with the percentage of its answers as well (`ShownFor`).
* `ApprovalsProofs` (`ApprovalsAssumption`). The steps of the pages are shown once
  to open no transaction (`Quiet`); what is left are the steps of the gateway. For
  a user whose transactions did not overlap, `Undisturbed` says that at most one
  is open, that what it has read is still so (`Fresh`), that at most one request is
  pending and that the records agree with the reviews (`Records`);
  `RecordsAgreeWithReviews` is its last part. The single pending request is what
  makes "the newest pending request" the one the administrator clicked, hence
  `DecisionsHitTheirTarget`; for a decision on an account it also needs that a
  candidate has asked for no change yet (`Candidate`). `ActiveUsersHaveRoles` needs
  that a call without a role is about a request (`SoundCall`), which is still
  pending when the account is written; ApproveUser then takes the role from it. `SeatsAreKept` needs `SeatInv`: while
  nothing was rushed, one approval at a time is past the quota check and the seat
  it was promised is free; members are counted with the library's cardinality
  facts, for which `Users` is finite. `RostersAreHonest` needs that who was
  never active has no profile page and no request for a change (`Stranger`), so that
  an approval of such a person that is carried out makes the account active, and
  that no approval of such a person is answered as a success unless the account was
  deleted under it (`Untouched`). That the newest pending request exists comes from the library's
  theorem on well-founded relations.

Only model-checked: the liveness properties `LoginEnds`, `Recovers`,
`EventuallyStored`, `WaitingEnds`, `Settles`, `AttemptEnds` and `BusyEnds`
(fairness and ENABLED are out of the prover's reach), and the type invariant of
`TestChamber`, whose percentages come from a fold over the questions, so that their
range would need an induction over data. Every safety property of the passing runs
is a theorem.

## 6. Plan

1. `LoadBalancer` and its use by the proxy: `ResolveURL` drops the release function
   (`loadBalancer.go:186`), and all proxied services share one pool name
   (`serviceProxy.go:44`).
2. `RateLimiter`: the token bucket with the clocks of several gateways, one of which
   may be behind (`rateLimiter.go:132`).
3. `PluginRegistry`: memory is changed before the table (`registry.go:492`), and
   deletion leaves tenant overrides in memory (`registry.go:770`).
4. User cache filled from a row read before an invalidation (`authService.go:352`);
   telemetry channel closed while requests still send
   (`tenantTelemetryMiddleware.go:90`).

## 7. Not modelled

Stateless middleware (headers, CORS, sanitising, moderation patterns, logging),
clients and contracts (marshalling around one call), cryptography (its verdicts
are inputs of the models), configuration and service lookup (read-only), the
Python services (programs of their own). Of the web interface: static pages, the
generators and studios (one request to the AI each), layout, texts, search
filters and counters, the onboarding forms that add an entry to the local roster
without an account, and the permission matrix of the institution's dashboard,
whose calls are those of `SuperConsole`. Times are events without durations
except where the breaker, the countdown or a deadline compares them; message and
payload contents are opaque throughout.
