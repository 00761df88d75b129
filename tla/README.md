# Verification of the NexusCore enterprise platform

TLA+ models of the parts of the platform that keep state and meet more than one
caller, timer or request at a time; TLC configurations that check them on small
instances; and theorems checked by TLAPS. Everything is translated from the
code: the Go services under `enterprise-platform/`, and the TypeScript console
(`src/`) with its demonstration server (`server.ts`, `securityEngine.ts`,
`aiEngine.ts`). Where a document or a comment says something else, the code is
what is modelled and the difference is noted or is a run of its own.

Paths are those of the repository; `EP/` stands for `enterprise-platform/` and
`IP/` for `enterprise-platform/identity-platform/`.

Contents: 1 the system, 2 the modules and the code, 3 what the runs check,
4 what is proved, 5 what is not modelled, 6 what could come next.

## 1. The system

The platform has two halves that share no state.

*The Go services* keep their data in memory, behind one mutex per store (the
"mock" databases that stand for PostgreSQL and Redis); a gateway forwards
requests to them. Every HTTP request runs in a goroutine of its own, and a
handler is *several* calls of a store: read a copy, decide, write the whole
record back. One pattern explains most of what can go wrong, so the unit of
interleaving is the store call (or the code between two lock operations), never
the handler.

*The console* is a React page over one Node process. The process runs a handler
up to its next `await` without interruption; the page runs clicks, timers and
answers one at a time, but each goes on with the values it captured when it was
created. The unit of interleaving is the stretch between two `await`s, and what
a closure captured is part of the state.

### Inventory

| Component | State | Operations | What is hard | What makes it correct | Module |
|---|---|---|---|---|---|
| compute-engine event store (`EP/compute-engine/internal/repository/event_driven_impl.go` 15–103) | streams of versioned events, a snapshot per stream | AppendEvents with optimistic concurrency, ReadStream, ReplayEvents, SaveSnapshot | concurrent appenders that read the same version | a stream belongs to one create; versions are consecutive | `EventStore` |
| compute-engine CQRS service (`usecase/event_driven_service.go`, `usecase/transaction.go`) | query store of projections; requests; projection goroutines | create, replay, snapshot, projection handler | check and append are two sections; one goroutine per event, unordered; replay races with live dispatch | at most one create wins; the read side shows only what was appended; replay repairs | `TransactionCQRS`, `TransactionLedger` |
| compute-engine broker (same file, 105–445) | topics, consumers, retry queue, dead letters | topics, subscribe, publish, retry loop | failures of several subscribers and of the loop routed for one event | no failed event is forgotten; dead letters are earned; failing ends | `KafkaCluster` |
| api-gateway breaker (`EP/api-gateway/internal/proxy/breaker.go`) | state, three counters, timestamp | Allow, RecordResult | results recorded in another state than they were admitted in | trips when it should, holds a whole cooldown, recovers | `CircuitBreaker` |
| api-gateway proxy (`proxy.go`) | round-robin index, response cache, requests in flight | Handle, NextTarget | retries, cancelled callers, partial failure | every request ends with one answer and its result recorded | `ReverseProxy` |
| api-gateway limiter (`middleware/limiter.go`) | a token bucket per client | Allow, clean-up goroutine | lazy refill, deletion of buckets | rate bounded over any window; retry-after is honoured | `RateLimiter`, `TokenBucket` |
| auth-service sessions (`IP/auth-service/service/auth.go` 193–262, 449–539; `IP/shared-security-library/redis.go`) | token families, revoked families, session entries | login issue, refresh, logout | check and mark of a refresh token are two calls | revocation is final; rotation is single use | `AuthSessions` |
| auth-service accounts (`auth.go` 60–190, 267–447) | users, MFA tickets, one-time codes | login with lockout, MFA, password reset, confirmations | whole-record writes from old copies | nobody enters under a lock; a reset token works once; what a handler decides stands | `AuthAccounts` |
| organization-service hierarchy (`IP/organization-service/service/org_service.go` 60–173, 347–413) | nodes with parent and owner; transfers | create, move, transfer | the cycle check is a walk of store calls; whole-record writes | a forest; ownership changes only by handover | `OrgHierarchy` |
| organization-service members (`org_service.go` 175–345) | workspaces, teams, members, invitations | create, change, delete, invite, accept, revoke, expire | accept and revoke overlap; stale whole-record writes | an invitation ends one way; deleted stays deleted | `OrgMembership` |
| user-service (`IP/user-service/`) | users, confirmations, audit trail | create, change a field, (de)activate, archive, erase, search | whole-record writes against archiving; uniqueness on one path only; the trail is written last | what was removed stays removed; confirmations are earned; the trail tells the truth | `UserDirectory` |
| tenant-service (`IP/tenant-service/`) | tenants with their keys | provision, suspend, reactivate, crypto-shred | the key is zeroed in place before the record is updated and deleted | no tenant outlives its key | `TenantVault` |
| authorization-service (`IP/authorization-service/`) | roles with inheritance, API keys, rules | create role, key life cycle, evaluate | inheritance that closes circles; three mutexes in one evaluation; order of the rules | a grant is earned by key, role and context | `Authorization` |
| Zero Trust engine (`securityEngine.ts`, `server.ts` 180–381) | certificates, secrets, keys, policies, API keys, audit trail | every route under `/api/security` | the trail is capped; several routes write one table | every change is audited | `SecurityEngine` |
| Zero Trust console (`src/components/ZeroTrustDashboard.tsx`) | its copies of the tables, spinners, calls in flight | first load, every button | answers overtake each other, get lost, or come after the page was left | the page shows what the server has; a button waits for its own call | `ZeroTrust` |
| AI engine (`aiEngine.ts`, `server.ts` under `/api/ai`) | settings, sessions with a message window, prompts, vectors, log | chat, retrieval, indexing, failover, settings | chats of one session interleave at every `await` | questions and replies pair up; the log tells the outcome | `AIEngine` |
| AI console (`src/components/AIPlatformDashboard.tsx`) | its copies of settings and conversations | loads, settings, prompts, documents, chat | each change sends all settings as the page knows them | a setting sticks; the page shows the server's conversation | `AIPlatform` |
| cluster console (`src/App.tsx`, `TopologyView`, `Playground`, `ServiceDesigner`, `MetricsDashboard`, `LogsAndTraces`) | nodes and pods, restart timers, telemetry, traces, generated services | scale, power, restart, send, generate, deploy | timers write what they captured | a status tells its pods; a deployment is registered | `ClusterConsole` |
| event console (`src/components/EventDrivenDashboard.tsx`) | streams, rows, snapshots, topics, retry and dead letter queues | command, retry tick, redeliver, purge, replay, schemas | replay clears a row and restores it later; ticks move what clicks remove | rows tell their streams; nothing is lost | `EventConsole` |
| GitOps console (`src/components/GitOpsDashboard.tsx`) | Terraform, pipeline, ArgoCD, autoscaler, roll-outs, alerts, scan | plan, apply, run, sync, scale, roll out, roll back | chains of timers no click cancels | what is shown as done is current; a roll-out keeps its guards | `GitOpsConsole` |
| testing console (`src/components/TestingDashboard.tsx`) | runs, console lines, switches, notes, curves | run a suite or all, clear, inject faults | a delayed start that no lock covers | a locked panel has its run; notes tell the switches | `TestingConsole` |
| the rest (section 5) | – | – | – | – | not modelled |

Three places of the Go source do not build as they stand (`IP/auth-service/cmd/server/main.go`
uses `errors` without importing it, `EP/api-gateway/cmd/server/main.go` calls a
`State` method the proxy does not have, one file of the compute-engine's
`usecase` refers to `repository` without importing it). They are wiring; the
handlers and stores the modules are translated from are unaffected.

`PROJECT.json` lists the hazards of this code at the line where each bites, with
the properties that watch it, and for every definition of a module the lines it
stands for.

## 2. Modules and the code

Each module names the source's own operations. Definitions whose comment begins
with "Fault:" are deliberately wrong variants of the definition that follows
them; no specification uses them, they document which slip a property catches.
Variables commented "history" record the past for properties and no guard reads
them.

### EventStore, TransactionCQRS, TransactionLedger

`streams` and `snapshots` are the two maps of `MemoryEventStore`. Every Go method
runs under one mutex, so reads are operators and writes are action operators the
service conjoins with its own step. `AppendEvents` numbers the events from the
stream's own version and refuses a wrong expected version.

A request is a goroutine with a label (`pc`): `ExecuteCreateTransaction` is
validate – read the stream – build events – append – publish – read the query
store; `ExecuteReplay` and `ExecuteSnapshot` are split the same way.
`PublishEvent` adds one element to `deliveries` per event, the projection
goroutine, which for `TransactionProcessed` checks the version in one section
and saves in the next, as `Handle` does. The query store is `models`, seeded as
`NewMemoryQueryStore` does with identifiers that have no stream. The broker's
retry path is left to `KafkaCluster`: the projection handler fails only on a
payload that is not JSON, which the service never publishes.

`TransactionLedger` is what callers are promised: an identifier is taken at most
once, "accepted" is answered to exactly the one who took it, refusal needs a
reason that holds at that moment, and the read model shows an accepted entry as
PENDING or with its final status. `TransactionCQRS!ImplementsLedger` is the
refinement; the append is the step that maps to `Accept`.

### KafkaCluster

`running` holds the goroutines `PublishEvent` spawns, one per subscriber;
`retryQueue` and `deadLetter` are the cluster's slices; `loop` is the goroutine
of `startRetryLoop`: it takes all due entries out of the queue in one section
(`Collect`), then runs handlers with no lock (`StartEntry`, `RetrySucceeds`,
`RetryFails`) and routes a failure back (`RouteRetry`). `RouteToRetry` continues
a count only from an entry found in the queue, as the code does. Handlers are the
subscribers' own code: `Broken` ones always fail, `Flaky` ones may.

### CircuitBreaker, ReverseProxy

`CircuitBreaker` holds `Allow` (`Admit`, `Reject`) and `RecordResult`
(`RecordHalfOpen`, `RecordClosed`, `RecordOpen`) as action operators;
`ReverseProxy` extends it and conjoins them with the steps of `Handle`: cache
lookup, breaker, `NextTarget`, body, attempts, recording, cache store. Requests
interleave between these steps, so a result may be recorded in another breaker
state than the one the request was admitted in. Targets (`health`) and callers
(`BrokenClients`) are the environment. A tick stands for the unit in which
cooldown and time-to-live are measured.

### RateLimiter, TokenBucket

`RateLimiter` keeps the map of lazily refilled buckets and the clean-up
goroutine; amounts are exact fractions of a token where the code has floating
point. `TokenBucket` is the limiter a caller has in mind: every client has a
bucket from the start and all are refilled at every tick. The refinement mapping
is the level a request would find now (`Level`).

### AuthSessions

Each call of the Redis stand-in is atomic; a refresh is check – user status –
mark – extend – session, a login issue – session. A logout names a family and a session, each of its
own (`main.go:204-214` takes both from the client, and a refresh does not answer
the session's identifier, 259–264): it deletes that session if it exists, then revokes that family
if one is named, whether or not the two belong together, and answers success. `closed` is
the history of families logged out together with their own session.
`held` is what clients were answered, so a client may present any token any
client holds, with any family. `AddTokenToFamily` refuses a revoked family and
its callers drop the error, as in the code. The account's status is changed by
the environment here: login failures belong to `AuthAccounts`.

### AuthAccounts

One account of the auth-service; nothing a handler does to one account touches
another, and the loop of `ResetPassword` over two fixed addresses becomes the
comparison with this one. `record` is the stored user, `req[r].copy` the one a
handler holds between `GetUserBy...` and `UpdateUser`. `Store` is `UpdateUser`: the
whole copy, whatever has happened to the record meanwhile. A login that finds an
expired lock stores its own pointer (line 93) and afterwards writes the stored
record in place, without the lock of the store, before it stores it once more:
`alias` is that login, and `again` the place between the two writes. The fields one
verdict writes in place are taken together.

Locks and reset tokens are numbered as they are made and lapse in that order, so
that `lock > lapsedLocks` is "LOCKED and before LockedUntil". A reset compares the
presented token with the record's; a request without a token meets a record
without one, and what stops it is `ResetTokenExpires`, which a used token leaves
behind. Codes are counts of tries left; the right code or a wrong one is the
caller's choice. The histories are `meant` (the record, had every handler written
only the fields it is about), `clobbered` (the fields last written from a copy
older than what others had written), `late` and `uses` per reset token, and `asOf`
(how many locks had been made when a login or its challenge began).

### OrgHierarchy

`UpdateNodeParent` reads a copy of the node, walks up from the new parent with one
`GetNodeByID` per step, and stores the whole record; a transfer is opened after
an ownership check, and completing it reads the request, reads the node, stores
the whole node with the new owner, and closes the request. Hence a move stores
the *owner* it read and a transfer the *parent* it read. The histories `tainted`
and `clobbered` name exactly the nodes whose place (owner) was last written from
such an old copy. Paths are left out: a move rewrites only the moved node's path
and no decision reads one.

### OrgMembership

The same store, with teams, members, invitations and workspaces; it starts from
`seedDemoOrg`. Judging an invitation is two steps, the read (`Hold`) and the
write, and an acceptance enrols with a third (`Enrol`) whose error
is dropped. `came` is the history of who was let in by an invitation, `crossed` what
two requests held at once, `wanted` the status last asked for.

### UserDirectory

A handler reads a copy, changes one field in it (`Change`) and stores it whole
(`Update`, `Replace`); `DeleteSoft` (`Shred`) and `DeleteHard` (`Erase`) work on the
stored record; `CreateAuditLog` comes last. `Fields` are the status, the channels
(e-mail, phone) and other attributes; a new address is unconfirmed in the copy. The histories are
`meant` (the record, had every handler written only its field),
`clobbered` (fields last written from an older copy), and who was archived, erased,
moved or the subject of two requests at once.

### TenantVault

`CryptoShredTenant` is read – zero the key in place – `Update` to TERMINATED –
`Delete`; suspending and reactivating are read – `Update`. The key is zeroed
through a slice the copy shares with the record, outside the mutex: `ZeroKey`.

### Authorization

`handleEvaluate` is three steps with a mutex each: `Authenticate` (token or API
key), `CheckRole`, `CheckPolicy`; between them roles are created and keys made,
revoked or lapse. `GetEffectivePermissions` is the walk over parents as a
recursion over roles not yet visited; `Inherited` is its reference definition. The three
rules are the ones loaded at start, over every context that can be told apart by them.

### SecurityEngine, ZeroTrust

`SecurityEngine` is the store of `securityEngine.ts`: a handler runs without an
`await`, so each is one action. Rows carry the number of their issue in place of
serials and dates. `ZeroTrust` is the page: a call goes out with the lists its
closure saw (`seen`), is handled by the server at some moment, is answered or lost, and changes the page's
copy, by a function of the present list or by the old one as the code has it. `raced`
names the lists about which two calls overlapped, an answer was lost or another
client wrote. Nothing on the page calls `handleRotateTransitKey` (374–389).

### AIEngine, AIPlatform

A chat keeps the question, awaits the model, awaits the failover model if that is on
*now*, keeps the reply, makes a recap of a long session (499–501) and logs; a retrieval and
the indexing of a document are split the same way. The session keeps all its messages: only the
context sent to the model is cut to the window (429–439). Texts are known by what the
routing reads of them. `AIPlatform` adds the page: it sends the whole
configuration for each change, shows a message before the server has it,
appends the reply to what it shows, and puts the routing of the call in the place of the
summary (`Answered`, `AIPlatformDashboard.tsx:405-408`).

### ClusterConsole, EventConsole, GitOpsConsole, TestingConsole

These views keep their state in the browser. Every `setTimeout` and `setInterval` is an element of a
sequence or set (`restarts`, `sends`, `builds`, `replays`, `syncs`, `scalings`, `runs`) that
fires in an action of its own; what it captured is stored with it. The event view keeps its topics by name
and its rows by transaction, each newest or oldest first as in the code: nothing reads the order across names. Timers that
only print are left out. `ClusterConsole` includes leaving a view while its call is under way and
coming back. The console is modelled as built for production: in development
React's StrictMode (`src/main.tsx`) runs updaters twice.

### MC modules and proof modules

Five modules compose components that share no state: `ComputeEngine` (service, broker),
`Access` (limiter, proxy, sessions), `Identity` (accounts, directory, tenants, members,
authorization), `Platforms` (Zero Trust, AI) and `Consoles` (the views). A variable (`part`, in
`Consoles` `screen`), chosen initially, says which one the behaviour is of, and the
variables of the others stay as they were. The state spaces add up instead of multiplying, and nothing
is lost, because no action of one reads a variable of another. An invariant there
that speaks of one component names the properties of its module it stands for.

`MC<Module>` gives a module its instance for TLC. Two of them put compositions side by side in the same way:
`MCEngine` the compute engine and the organisation hierarchy (`backend`), `MCConsole` `Platforms` and `Consoles`
(`panel`). They also divide further, for TLC only: the hierarchy into behaviours with three moves and behaviours
with two moves and a transfer; the Zero Trust page into calls that change tables and calls behind spinners; the
views into thirteen panels, three of the cluster, three of the event view, five of the GitOps view, two of the testing view.

`<Module>Proofs` extends the module and `TLAPS` and holds its theorems. The proofs about a
composition speak of each component through the instance the composition makes of it
(`Broker!`, `Proxy!`, `Vault!`, ...), so what they prove is what the run checks. `UserDirectory` has
a proof module of its own, which `IdentityProofs` instantiates; the proofs about `Consoles` are in two.

## 3. What the runs check

| Run | Instance | Distinct states | Shows |
|---|---|---|---|
| `engine_service` | *service*: 2 requests on 2 identifiers (one seeded), amounts 0, 2, 3 around a limit of 2, replay from 1, 2, 3; *broker*: 2 events (1 invalid), 3 subscribers that may fail at any call, 2 retries; *hierarchy*: 2 requests, 2 users, 3 nodes (2 seeded) with 3 moves, or a chain of 3 with 2 moves and a transfer | 209 759 | event store, read side and broker are sound; the ledger is implemented; accepted becomes visible, sent is settled; cycles and lost owners need an overlap; requests end unless under a cycle |
| `access_service` | *limiter*: 2 clients, a bucket of 2 tokens of 3 units, 2 units a tick, stale after 3 ticks; *proxy*: 2 requests (one of a caller that may break off), 1 target, 1 cache key, window 3, sample 2, 2 probes; *sessions*: 2 requests, 2 families, 3 tokens | 127 610 | rate bound and retry-after; breaker and recovery; what rotation and revocation guarantee |
| `identity_service` | 2 requests on one account (5 in all, locked after 2 failures); on 2 users; on 2 tenants; on an invitation and 2 workspaces (4 requests in all each); 2 evaluations with 2 new roles and 2 keys | 945 260 | what locks, resets, archiving, shredding, invitations and grants are worth under overlapping handlers |
| `console_service` | *Zero Trust*: 3 calls of the page or of another client, 2 secrets, 4 key identifiers, trail capped at 3; *AI*: 2 jobs in 2 sessions, window 2, log capped at 2; *views*: each group of panels that share state, with two or three timers of a kind pending | 521 191 | the pages agree with the engines, the trail and the log with both; the views stay consistent under every order of clicks and timers |
| `cqrs_regress` | 1 request | – | *violated*: `ProjectionNeverRegresses` |
| `kafka_dlq` | the code's 3 retries, 1 subscriber that always fails | – | *violated*: `AlwaysFailingIsDeadLettered` |
| `proxy_dropout` | a target that may answer 5xx for ever | – | *violated*: `DropoutsTrip` |
| `auth_breach` | 1 request, 3 tokens | – | *violated*: `BreachPurgesSessions` |
| `org_transfer` | 1 request, 2 nodes, 3 users, 2 transfers | – | *violated*: `OnlyOwnersGiveAway` |
| `gitops_resync` | 1 pending synchronisation, 2 pipeline runs | – | *violated*: `NewVersionCanBeSynced` |
| `gitops_uptime` | one rolling update | – | *violated*: `UptimeIsContinuous` |
| `authorization_deny` | 2 evaluations of a change asked for from inside and outside | – | *violated*: `DenyTakesPrecedence` |

### The properties

An escape in a property ("unless an older copy ...") is always a history variable that
names the overlap, never a weaker guard, and TLC reaches states in which it is
the only thing that saves the property. These histories (`clobbered`, `tainted`, `raced`, `crossed`)
therefore *exempt* the race they name: where the code loses an update, closes a cycle or shows an older
list, the property does not fail. What it says is that nothing but this race can do so, and what stays true
in spite of it; `PROJECT.json` says at each such hazard which part is exempted.

*compute-engine.* `StoreIsSound`: the existence check of a create and its append are
two sections, so two creates may both have seen no stream; the expected version
of the append is what keeps the second out. Its last part shows that the version
check of the projection handler guards nothing the service can produce.
`ReadSideIsCurrent` and `ShownIsOwnAndFinal` say what the read side, snapshots and
answers may show while goroutines, replays and creates overlap (a seeded
identifier may be answered with the seed's state), and `ImplementsLedger` that callers
cannot tell the service from the ledger. `BrokerIsSound` and `SentIsSettled`: no failed
delivery is forgotten, a dead letter stands for its failures, and every
event sent ends handled or dead-lettered; they speak of "some subscriber",
because a retry entry does not record who failed.

*api-gateway.* `BreakerIsSound` and `OpenHolds` survive results that arrive in another
state than they were admitted in; `FailureRunsTrip` says how long a run of failures
the restart of the window can hide, exactly `TrippingRun - 1`. `ProxyGoesOn`:
admitted requests end, and the breaker closes for good once the targets are back.
`LimitsHold` (with `RateBounded` over every window, although buckets are deleted and made
anew, and `RetryHonoured`) and the refinement `ImplementsTokenBucket` need that a bucket is full
before it is stale, which the defaults satisfy (100 tokens at 10 per second, ten
minutes) and other settings need not.

*auth-service.* `SessionsAreSound`: check and mark of a refresh are two calls, so one
token may win twice; the surplus of good tokens is exactly the number of marks
that came second, and without an overlap a token is good once and the client
answered last can go on. A logout that names the family together with its own session leaves no session;
one that names another session, or none, revokes the family and leaves its session
alive, and the property promises nothing there. `OrphansExpire`:
a revocation is final although refreshes under way still write. `FieldsHold` is the
frame of every account handler: the record differs from what the handlers decided
only in fields last written from an outdated copy. `ResetsCounted`: a reset token
changes the password once, plus once for each store from a copy that still had
it when it had been used or replaced. `NoEntryUnderLock` joins the login, the
challenge and the lock: `VerifyMFA` does not look at the status, so a ticket issued
before a lock is good during it; one issued under it cannot exist unless the lock
was overwritten.

*user-service and tenant-service*, `DirectoriesAreSound`: what is archived or erased stays so
whichever handler still holds a copy (`ArchivedForGood`); an address is shared only
after `UpdateEmail`, which does not check it (`SharedOnlyByMoving`); no order of
stores confirms a changed address (`ConfirmedIsSeeded`; archiving by `DeleteSoft` keeps the
flags, of an address that is no longer there); a field is lost only to an overlap
(`ChangesHold`); the trail tells the status of users whose requests did not overlap
(`TrailTellsStatus`). A tenant whose key is zeroes is about to be deleted
(`NoTenantWithoutKey`), though a suspension may overwrite TERMINATED meanwhile (`TerminatedIsPassing`).

*organization-service.* `CyclesAreTainted`: every cycle contains a node written by a move
during whose walk somebody else wrote, or by a transfer that put an old parent
back. `HandoversHold`: the same for owners. `OnlyTheEntitled`: no overlap makes an owner
of somebody who neither founded the node nor was handed it. `RequestsEnd`: a
walk may go round a cycle for ever, everything else ends. `MembershipHolds`: an
invitation two requests never judged at once is settled once; a deleted
workspace stays deleted although an update may store a copy of it.

*authorization-service*, `AccessIsDecided`: the walk over inherited roles finds what its
reference definition says, however tenants shadow roles and close circles; the three
rules in their order allow the secret only to those cleared for it and come to the stated condition on every
other context; and who was
allowed held a key that was good when the request came, a role that had the
permission when it was looked up, and a context the rules accept.

*Zero Trust and AI.* `ViewsAgree`: with the answers of two calls in either order, a list
on the page is the server's once no call about it is pending, unless such calls
overlapped, an answer was lost or another client wrote. `SpinnersMatchCalls`:
behind a disabled button runs exactly one call, also after leaving and coming
back (the buttons at 698, 938 and 1527; the one at 1160 is not among them). `ChangesAreAudited`: no handler changes a table without its event at the head of the capped
trail. `SettingsStick`, `ChatsAreTold`: a setting stays as last chosen; the page shows the
messages the server kept of a conversation (of the summary nothing is said); questions and replies pair up in sessions no
two chats were in at once; every call is logged once, by its outcome.

*The other views.* `ClusterIsTold`: a node's status agrees with its pods whatever scaling,
power and restart timers did; a deployed service has its node and its port; a
spinner has its timer. `StreamsAreTold`: rows, snapshots and rebuilds say what the streams
say, and no event, failure or count is lost between retry queue, quarantine and
replay. `DeliveryIsCurrent`: plan, synchronisation and replicas on view are the latest, unless
the overlap it names occurred. `RolloutsAreSafe`: a canary in error has its rollback on
the way, a completed rolling update leaves six new pods that serve, traffic is cut over to ready
replicas only. How many pods serve meanwhile is the matter of `gitops_uptime`. A rollback of an earlier
run may stop a fresh canary; the property allows that.
`SuitesAreOnView`: a locked panel has its run, and notes and curves tell the switches.

### Where code and text disagree

The eight runs marked *violated* each check one sentence of the repository against
what the code does; `PROJECT.json` quotes the sentence and the line.

1. `cqrs_regress`: the comment at `event_driven_service.go:157` promises no
   out-of-order update; the goroutine of `TransactionProcessed` may overtake that
   of `TransactionCreated`, whose save is unconditional, and the projection is
   PENDING for good.
2. `kafka_dlq`: a retry is taken out of the queue before it runs
   (`event_driven_impl.go:404`), so the count starts at 1 again after each failure and
   the event never reaches the dead letter list line 355 announces.
3. `proxy_dropout`: a 5xx on the last attempt leaves `lastErr` nil (`proxy.go:206`) and is
   recorded as a success, so "service dropouts must immediately trigger circuit
   breakers" (`docs/governance/QUALITY_GATES.md:188`) fails for a target that answers 5xx.
4. `auth_breach`: reuse of a refresh token revokes the family (`auth.go:214`); its session
   entry lives on, against "full family-wide session purge" one line above.
5. `org_transfer`: two transfers of a node are opened, the first completes, and the
   second completes (`org_service.go:399`) although its initiator is no longer the owner.
6. `gitops_resync`: the end of the pipeline sets ArgoCD out of sync "to let user triggers sync"
   (`GitOpsDashboard.tsx:828`); a synchronisation of the previous version that ends later
   sets it Synced (864), the button is disabled (1486), and the new version cannot be
   synchronised.
7. `gitops_uptime`: a rolling update is announced with "MaxUnavailable: 0" (`GitOpsDashboard.tsx:923`) and
   "Uptime continuity: 100% Guaranteed" (1719); its fourth step (971) terminates two pods for
   one that has become ready, and five of six serve.
8. `authorization_deny`: "explicit deny takes precedence" (`policy_engine.go:115`); the first ALLOW rule that
   matches answers (152), so a cleared member of finance may change a highly confidential
   resource from outside the internal zone, which the DENY rule behind it forbids (61).

Noted while modelling, without a run of their own; where an operator is named it
states the text's claim and is defined in the module:

- `App.tsx:120` says playground requests are mapped to traces; a request the playground
  answers with 401 is traced as a success (`TracesTellAnswers` in `ClusterConsole`).
- The policy text at `securityEngine.ts:286` lets engineers use GET, POST and PUT; the code
  at 618 allows them DELETE too (`AllowFollowsRego` in `ZeroTrust`).
- "Route to failover model if principal model errors" (`AIPlatformDashboard.tsx:583`): the
  retrieval pipeline has no failover, and neither has a chat's simulated provider
  (`FailoverCovers` in `AIPlatform`).
- "Replace with real returned history and summary from backend" (`AIPlatformDashboard.tsx:399`): the page appends
  the reply to its own history and shows the routing of the call as the summary (408), which the server never
  keeps there (`SummariesAgree` in `AIPlatform`).
- "Run all tests simultaneously" (`TestingDashboard.tsx:487`) runs the unit suite only.
- The scopes of an API key are compared with the scope a request names, never with the
  permission it requires: a key passes the role check only if somebody makes a role `API_CLIENT`.
- A suspension may be stored after TERMINATED, and a tenant may be reactivated while it is shredded.

### Bounds

- Two concurrent requests: every race in these handlers is between a read and a
  write of one request and the writes of one other. The theorems cover any number.
- Identifiers, amounts, versions, settings: one value on each side of every
  comparison (amount 0, at and above the limit; replay before, at and after the
  last event; a seeded and an unseeded identifier).
- The breaker's 10/100/5 become 2/3/2: a restart of the window, a trip on the first
  full sample and a probe that is not the last all occur. The rate 1/2 is the
  code's own.
- The broker's 3 retries are kept where the number matters (`kafka_dlq`); two
  suffice for "reschedule, then exhaust". `FailureCap` only stops a history counter
  past what `DeadLettersAreEarned` compares with.
- `MaxFamilies`, `MaxTokens`, `MaxTransfers`, `MaxMoves`, `MaxBegun` (5 for the account, 4 in the
  directories and for members), `MaxEvaluations`, `MaxRoles`, `MaxCalls`, `MaxLoads` and the console's
  `MaxSyncs`, `MaxScalings`, `MaxRollbacks`, `MaxRuns`, `MaxNotes`, `MaxReplays`, `MaxSends`, `MaxRestarts` bound how
  much is *begun*, never what something in progress may do. Five requests lock
  an account with two, read it with a third, let the lock lapse or be overwritten
  by a fourth, and enter with a fifth.
- Caps of lists: trail 200 → 3, message window → 2, log → 2, telemetry 40 → 1, traces 20 → 1;
  each is reached, so that the oldest entry does leave.
- `IdleCap`, `MaxSpan` and the caps on clocks stop them after the last value any guard
  distinguishes.
- Three nodes give every shape of two overlapping moves that closes a cycle, and with the third move a
  cycle that does not contain the moved node. Two moves under a transfer of the lowest node of a
  chain close one through the parent the transfer puts back.
- Three tokens in two families let one token be refreshed twice at once, and a token of one family
  be presented with another.
- `MCConsole` moves one group of panels at a time: panels of different groups share no
  variable, and `PanelTabs` keeps the cluster to the views whose state meets.
- Requests and passwords are symmetric in `identity_service`, which checks no liveness.

### Fairness

Weak fairness is assumed of goroutines in progress (the Go scheduler is fair to
runnable goroutines, store calls hold a mutex for a bounded time, HTTP calls of a
target end at the request timeout), of the background goroutines (clean-up,
retry loop) and of time. No caller is assumed to ask anything, and no target to
work; where a property needs it (`BreakerRecovers`, `DropoutsTrip`) it is a premise.
Only `FairHandlersSpec` has strong fairness: a handler that is not broken, called
again and again, succeeds in the end. `SentIsSettled` needs it, because the code's
retry count restarts; `kafka_dlq` is checked without it. Of the directories and of
the console only safety is checked: clicks are free, and what must happen is said by
invariants over pending timers and calls.

Deadlock is checked except in `identity_service`, `console_service` and `cqrs_regress`, where a
bounded number of requests is served and the system comes to rest; `engine_service` names
that rest (`Served`).

## 4. What is proved

Theorems hold for every value of the constants that satisfies the named
assumptions, which TLC evaluates in the runs. The assumptions of a component that a composition
takes as an instance are a definition of the component, which the composition assumes
(`BrokerAssumption`, `AccessAssumption`, `IdentityAssumption`, `PlatformAssumption`). They are
facts of the code or name sentinels apart from values, with two exceptions. `ClusterAssumption` lists the
powers of two up to `MaxRetries`, since the provers know nothing of exponents; it is
true of every number of retries. `AuthorizationAssumption` has finitely many role names and asks for at
least one evaluation, `ConsoleAssumption` of `ZeroTrust` for at least one method; without them there is nothing to ask.

Each composition has a theorem that its specification implies the specification of every part
(`EngineRunsItsParts`, `AccessRunsItsParts`, `IdentityRunsItsParts`, `PlatformsRunTheirParts`), so a
theorem about `Broker!Spec`, say, holds of the composition the run checks.

**`ComputeEngineProofs`** – of the service: `TypeCorrect`, `StoreStaysSound`, `ReadSideStaysCurrent` and their
parts, `ServiceIsLedger`, `ShownStaysOwnAndFinal`. That a stream has one owner depends on what each request knows at
each label, so `Inv` adds `RequestsInv` (per label: what the request read is still a
prefix of the stream, what it is about to publish or replay is in it),
`UniqueCreates`, `DeliveriesInv`, `ModelsInv` and `SnapshotsInv`. The argument rests on one
fact, `Grown`: a non-empty stream never changes again, since a create expects
version 0 and nothing else appends. So whatever was taken from a non-empty
stream stays true, and only the action that moves a request from one label to
the next needs an argument.
`ServiceIsLedger` is the refinement, initial states and steps. The mapping is read pointwise
(`LedgerAt`, `AskedAt`, `OutcomeAt`, `ViewAt`): decoding a create is `Ask`, the append that finds the
stream empty is `Accept`, an answer of failure is `Refuse` with a reason the stream
gives, a saved projection is `Project`, everything else stutters. `ShownStaysOwnAndFinal`
adds `Repaired`: a projection a replay saved last is final, or that replay still goes
on. No event is ever obsolete, so a replay skips nothing and its last save is final.
Of the broker: `BrokerStaysSound`. `NoFailureForgotten` is inductive once `LoopShape` says what the
retry loop holds at each of its places, because the loop takes an entry out of the queue before it calls
the subscribers. `DeadLettersAreEarned` is not: `OnePerEvent` (one retry of an event is
scheduled at a time) and `Earned` (the dead letters of an event and the count of its scheduled retry
stand for failures that were counted) make it so. A failed retry starts its count anew, which
loses failures and never invents one.

**`AccessProofs`** – of the limiter: `TypeCorrect`, `LimitsStayHeld` with its parts, `LazyIsEager`. The invariant
is stated over `Level`, not over the stored fields: `Supply` (what a window was
granted plus the level is at most the capacity plus the window's refill)
and `Promise` (the level and what is left of the promised wait make a token). Deleting
a stale bucket leaves `Level` unchanged, because it has had time to fill: the one
place where `IdleLimit * Rate >= Capacity` is needed. `LazyIsEager` is the whole
refinement, initial states and steps.

Of the proxy and its breaker: `BreakerStaysSound`, `OpenStaysOpen`. Any number of requests record their
results in whatever state the breaker has by then, so a step of the proxy is first
shown to be one `BreakerStep` (admit, refuse, record, tick), and the invariant speaks of the
breaker alone. `ClosedMeansHealthy` and `HalfOpenIsClean` are nearly inductive; that failures in a
row trip it is not, because the window restarts: `StreakInWindow` adds that the row is in
the window, or fills it and brought from before no more than the rate allows (`RateRun`).
`OpenIsStamped` ties the cooldown to the moment of opening.
Of the sessions: `SessionsStaySound`. A family is *overlapped* once two requests worked on it
together. In the others `Sole` leaves one worker at a time, so what the worker found
when it checked still holds at its writes (`Marks`), a token that has been spent is spent once
(`Uses`), the last one answered is good (`LatestIsGood`) and a logout of a family with its own session has the last
word (`Logouts`).
Tokens are random, so one belongs to one family (`Belongs`, `OneFamily`) and a new one to none
(`Names`). In overlapped families `Forks` counts good tokens together with the refreshes between
the mark and the new token: a mark moves one to the other, a second mark of
the same token adds one and is a fork. `Reserve` keeps the bound on tokens from stopping
a refresh halfway.

**`OrgHierarchyProofs`** – `TypeCorrect`, `CyclesNeedARace`, `OwnersAreAppointed`, `StrangersNeverOwn`.
The invariant has a part for the store (`TypeInv`), one for walks (`WalkSound`: if nothing was
written since a walk began, the nodes it passed form a path that leads to where
it stands) and one for copies (`CopyFresh`, `CopyEntitled`). A cycle is a non-empty set of
nodes closed under `parent`; if a clean move closed one through its node, the set would
hold every node of the walk, hence the root where it ended, whose parent is none.

**`IdentityProofs`** – of the accounts: `TypeCorrect`, `DecisionsHold`, `ResetsAreCounted`, `LocksKeepOut`. Every step of
a request is either a `StoreStep` or a `MoveStep`, and each of the four parts of `Inv`
is shown once for either. `TypeInv` adds that a record without a lock has failures to
spare (`Sane`); `FieldsInv` extends `FieldsHold` to copies (`Knows`: whoever holds one holds what was
meant, but for what it missed); `LockInv` says that only the last lock can be in
force, and that then no login and no ticket is as late as it; `ResetInv` that a token
in the record, or in a copy that missed nothing, has a use left (`Spare`).
Of the tenants: `TenantsStaySound`. `RequestsFit` says what a request knows of its tenant at each place,
`OneAtATime` that the shredding of a tenant no two requests met on finds what it left,
`NothingReturns` that identifiers, domains and keys are not used twice.
Of members: `MembersStaySound`. What a request holds is of one kind (`HoldsFit`); an invitation or
workspace not in `crossed` has one holder (`OneHolder`), and then record, holder and history fit
(`InvitationsFit`, `SpacesFit`).
Of authorization: `AccessStaysDecided`. `AuthInv` carries through a request what each check
established when it was made; later changes of roles and keys do not matter, as the property
speaks of those moments. The walk over inherited roles is a recursive function of the set of
visited names. `Gathered` states what it collects without recursion (the permissions of all names in every
set that holds the name and the unvisited parents of its members). `Gathered` satisfies the equation
of the walk (`WalkIsDefined`) and is its only solution (`WalkIsGathered`: take a disagreement with the fewest
unvisited names; the next step of the walk has fewer). That is what finitely many names are
needed for; no induction principle is used.
Of the directory and the tenants together: `UsersStaySound`, `DirectoriesStaySound`.

**`UserDirectoryProofs`** – `DirectoryTypes`, `RemovedStaysRemoved`, `AddressesStayApart`,
`ConfirmationsStayEarned`, `ChangesStayUnlessOverlapped`, `TrailStaysTrue`. The steps fall into seven
kinds (a request starts, creates, ends, replaces, shreds, erases, writes its entry), and
each part of `Inv` is shown once per kind. `Privacy`: archived users are anonymous and
only they are; `Mail` and `Confirmations` say the same of the copies in handlers as of the
records; `Changes` says what a copy may have missed; `Entries` and `Trail` relate the last
entry about a user to the record and to the one request that is about to log.

**`ConsolesProofs`** – of the GitOps view: `TypeCorrect`, `DeliveryStaysCurrent`, `RolloutsStaySafe`. The invariant
has one conjunct per panel (what the pending timers of the panel will do, given what is on view),
and since no action moves two panels each is left alone by the actions of the
others. The pods of the rolling update are the tables of its seven steps.
Of the testing view: `SuitesStayOnView`. `OnView` says of uncrossed runs that there is one at most and
that the console ends with what it printed; once two starts crossed, only the lock is left to show.
Of the cluster: `ClusterStaysTold`. A click or a timer sets one node (`SetsOneNode`), to counts that agree with its
status or, under a restart that is pending, that the restart will set (`Told`). `Registered` carries that
generations which never overlapped take the ports in turn (`InTurn`), `DesignerWaits` and
`PlaygroundWaits` that a view waits for one call or timer of its own, those of a view that was left being no longer its.
Of the composition: `ConsolesRunTheirParts`.

**`EventConsoleProofs`** – `StreamsStayTold`, of the event view. A stream only grows by the command that
starts it, so what it folds to never changes (`StreamsTell`) and rows, snapshots and rebuilds need not be followed
afterwards (`RowsTell`). `CommandTells` and `QueuesTell` keep an event in one place of: the command, the retry queue, the
quarantine. Upon these `Facts`, each shown once for every step, rest `CrossingsTold` (whatever will
make a second row is marked before it does), `CountsTell` (counters against the sizes of the queues) and
`NoneLost` (whoever takes an event from one place puts it in another). Coming back to the view is `Init`
again, so the proof of the first state serves there too.

**`PlatformsProofs`** – of the Zero Trust page over its engine: `ConsoleTypes`, `ViewsStayAgreed`,
`SpinnersStayMatched`, `ChangesStayAudited`. The page sees the engine through answers, so the
invariant relates three things for every list that is not raced: `OneAtATime` (one call of
the page shown concerns it), `AnswersAgree` (what an answer under way carries is the table; the
copy its closure saw, patched with the row it brings, is the table too; with no call under way
the list shown is), and `LoadsOnce`. A handler changes one row of one table, its own call
concerns that table, and a list that two calls concern is raced from then on: that is why the
closures lose nothing else. `OneSpins` has one call behind each disabled button. The audit trail needs
its types only: each handler that writes a table writes one event, and the cap drops the oldest.
Of the AI platform: `SettingsStayChosen`, `ChatsStayTold`. `JobFits` ties a request on the server to the
stage of its call, also when the caller has given up. Of a copy of the page that is not raced
`OneAsks` says that one call concerns it and no fetch is on the way; then `PolicyAgrees` and
`SessionsAgree` need only say, per stage of that call, what the page lacks or has ahead
(`CallTold`: the question is shown before the server has it, the reply after). `Spoken` places the
question and the reply of every request in its session for good, `Turns` adds that an uncrowded
session waits for one reply or none, `Entry` finds the log entry of a finished request or
a full log without it. A step of the server is first shown to be one of nine effects (`Goes`,
`Asks`, `Quiet`), so that the last three parts never look into a handler.

Only model-checked: all liveness and what else needs fairness, since fairness is out of the prover's reach.
Every invariant of a passing run is a theorem.

## 5. What is not modelled

- *compute-engine relational repository*: a guarded map that `main.go` does not wire.
- *The shells of gateway and compute-engine*, *identity-service* and *main.tsx*: wiring,
  fixed answers, no state that two actors share.
- *Token validation and the shared libraries for hashing, signing and parsing*: functions
  of one string. `CheckPermission` is modelled where the authorization-service calls it.
- *shared-event-library*: the auth-service publishes to a broker nobody subscribes to, so
  every publication returns at `event.go:225` and the delivery code never runs.
- *enterprise auth-service* (`EP/auth-service`): does not build; `usecase/identity.go:15` names an
  unexported type of a package it does not import.
- *Documentation view* (`EnterpriseDocsDashboard.tsx`): text with a selected chapter.
- *Deployment*: charts, manifests, Terraform, pipelines.
- *Crash and restart*: every store is memory of one process or page; a restart begins
  at `Init` with nothing to recover.
- *Operations without a caller*: `AddRule`, `DeleteTeam`, `UpdateTeam`, `DeleteNode`, `GetSnapshot`,
  `RegisterSchema`, `handleRotateTransitKey`.
- *Logging, headers, drawing, wording*: nothing the modelled code decides depends on them.
  The `Retry-After` header truncates the wait to whole seconds (`limiter.go:105`); the wait `Allow`
  computes is what is modelled.
- *Strings, hashes, signatures* are values that are equal or not; *floating point* in the
  limiter is exact.

## 6. What could come next

1. The safety half of the liveness properties: that every step of a handler, a session or a delivery
   decreases a measure, as theorems, so that only fairness itself is left to TLC.
2. `TracesTellAnswers`, the one claim about traces the code breaks, restricted to the requests for which it holds.
