# TLA+ verification of orbeat-community

orbeat-community is a self-hosted catalog for AI coding tools. An API server
keeps artifacts (skills, subagents, rules, memory seeds), MCP servers, roles and
entitlements in Postgres; a gateway lets an authenticated person call the tools
of the MCP servers they are entitled to; a publisher pushes the approved
artifacts to a git marketplace; and `orbeat-sync` writes them into a developer's
home directory. The modules here model the parts of that system in which
goroutines, processes, crashes, lost answers or separately committed statements
meet, check them with TLC on small instances and prove the central results for
every instance with TLAPS.

## 1. Inventory

### Components

| Component | Source | State it keeps | Operations | Module |
|---|---|---|---|---|
| Session cache | `internal/gateway/session.go`, `server.go` | sessions by principal, `Mcp-Session-Id` index with tombstones, the singleflight group, `closed` | get-or-build, put, drop of a dirty session, reap, tenant invalidation, closeAll, check and bind of a transport id | `SessionCache` |
| Session build | `server.go`, `broker.go`, `internal/rbac` | dial outcomes, watchdog timers, slug owners, registered tools | parallel dials, registration in name order, skip | `SessionBuild` |
| Call pipeline | `rbac_middleware.go`, `intercept.go`, `broker.go` | none of its own | limit, authorize, audit, check revocation, scan, count, dispatch, scan the result | `ToolCall` |
| Rate limiter | `internal/ratelimit/ratelimit.go`, `mcp.go`, `http.go` | token buckets by principal, LRU and idle bounds | allow, refuse, evict, sweep | `RateLimiter` |
| Concurrency limiter | `internal/ratelimit/concurrency.go`, `mcp.go` | in-flight count by principal | acquire, release (`sync.Once`), sweep | `ConcurrencyLimiter` |
| Identity and seat cap | `internal/authz`, `internal/store/user.go` | the users table | resolve, count, upsert, delete | `SeatCap` |
| Marketplace publisher | `internal/publish/publish.go`, `cmd/api/main.go` | a channel of one token, the clone, the remote branch, `publish_state` | enqueue, debounce, publish, retry, shutdown, restart | `PublishWorker`, `Marketplace` |
| Sync client, files | `internal/syncclient/reconcile.go`, `lock.go`, `cmd/orbeat-sync/main.go` | files under `~/.claude`, the ledger, the run lock | fetch, write, remove, save | `SyncReconcile` |
| Sync client, rules and seeds, doctor | `internal/syncclient/rules.go`, `rules_global.go`, `seed.go`, `projects.go`, `doctor.go`, `cmd/orbeat-sync/main.go` | managed blocks in files the developer owns, three ledgers, `projects.json` | merge, strip, seed, add and remove a project, diagnose | `SyncBlocks` |
| Artifact store and workflow | `internal/store/artifact*.go`, `internal/api/admin_artifacts.go` | artifacts with `row_version`, revisions | create, update (scan, If-Match, approval on save, revision and prune), delete | `Distribution` |
| Artifact sync endpoint | `internal/api/sync.go` | none: two reads | list the entitled artifacts, list the org rules, answer | `Distribution` |
| Roles and entitlements | `internal/store/rbac.go`, `artifact_entitlement.go`, `internal/api/admin_roles.go`, `admin_entitlements.go`, `admin_artifact_entitlements.go` | roles, both grant tables, row locks | create, rename and delete a role, grant, revoke, each with its audit row | `RoleGrants` |
| Entitlement nudge | `internal/store/notify.go`, `internal/gateway/nudge.go` | the LISTEN connection | notify, lose, drop a tenant's sessions | `Catalog`; the drop among the other evictions in `SessionCache` |
| MCP server catalog, edition caps | `internal/api/admin_servers.go`, `caps.go` | servers, their slugs, row versions | check slug, check cap, create, update, delete | `Catalog` |
| Audit log and retention | `internal/store/audit.go`, `internal/api/retention.go` | append-only rows | append, list, prune in batches | `Paging` |
| Paging | `internal/store/paging.go`, `internal/api/paging.go` | none on the server: the cursor carries it | list after a cursor, mint the next | `Paging` |
| Token validation, secrets, governance scanner, portal, configuration, telemetry, migrations, formula generator | see `PROJECT.json` | none that is shared | | not modelled |

### How they interact

A gateway request passes the rate limiter, the concurrency limiter and the
RBAC middleware and is served by a session of the cache; a miss builds one, which
resolves the caller (seat cap included), reads entitlements and dials upstreams. An
admin's change of a role or entitlement commits in Postgres and notifies the
gateway, which drops that tenant's sessions. An admin's change of an
artifact commits and then enqueues the publisher, which re-reads the catalog,
renders it into a clone and pushes. `orbeat-sync` fetches what the caller is
entitled to and reconciles with it the files it owns, and then the blocks it keeps inside
files the developer owns.

### What is hard here

* Eviction from five sides. A cached session can be removed by a request that
  finds it expired, a request that finds it dirty, the reaper, the nudge and
  shutdown, while builds are shared, finish late, and closes run outside the lock.
* Work finishing in any order whose outcome must not depend on it (dials,
  watchdogs, concurrent first sign-ins).
* State kept apart and updated one after the other: the remote branch and
  `publish_state`; the files and the ledger; the lookup, the count and the insert
  of a user.
* Admin handlers that lock rows one statement at a time, read what they will report
  before they change it, and meet each other's cascades; a sync answered from two
  statements with no transaction around them.
* Crashes between those updates, pushes whose answer is lost, retries of what was
  already done, shutdown during a push.
* Closing an upstream is itself a request to it, with no timeout, and comes before
  anything is cancelled: an upstream that does not answer can hold a request, a build
  or the reaper, and only those.
* Maps bounded by sweeping, where forgetting must not give anything away.
* Blocks inside files somebody else edits, on volumes that come and go, found again only
  through a ledger that is saved once, at the end of a pass.
* Checks made by one statement and relied on by another: slugs, caps, seats; a list
  that is written between two of its pages; a notification sent while nobody listens.

`PROJECT.json` lists the hazards by line, with the properties aimed at each.

### What makes each component correct

* **Session cache**: an open session always has somebody who will close it; nobody
  is served by a closed session or another principal's; staleness is bounded without the nudge; shutdown
  releases even late builds; an upstream that never answers a close holds only those who run into
  that very close.
* **Session build**: a tool call is authorized against the server that runs it; no
  connection leaks; the result is a function of names and outcomes, not timing.
* **Limiters**: the cap holds and no slot leaks; forgetting an idle entry is
  invisible; hammering gains nothing.
* **Call pipeline**: only what was entitled, allowed and scanned is forwarded, and exactly that
  is counted; the audit trail tells what happened; no part of a blocked result is delivered;
  a hanging upstream does not keep a slot once its connection is cut.
* **Seat cap**: a known person is never turned away (`seat_known` shows that this fails);
  the limit is overrun at most by what was written between the count and the insert.
* **Roles and grants**: what an audit row says was destroyed, replaced or affected is
  what the transaction destroyed, replaced or affected; no grant outlives its role or
  target; no two admins wait for each other, but for two that swap names.
* **Artifacts**: a revision number names one payload for ever; a sync serves each artifact
  once, as saved.
* **Server catalog**: an update, of a server or an entitlement, replaces what its author was
  shown; a slug clash or an overrun of the cap is always the doing of a concurrent writer; the
  nudge misses a session only if nobody listened or the session was still being built.
* **Paging**: a walk returns every row that stayed exactly once.
* **Publisher**: no committed change is forgotten; the target never goes back to an
  older catalog; it converges, unless its work-dir was left without an origin.
* **Sync client**: the developer's files are left alone; every file orbeat wrote is
  in the ledger, unless the run that wrote it ended without saving it; a clean exit means the
  files are there.
* **Blocks and doctor**: no block is lost from the ledger but through the faults and edits the
  property names; a removed project is left clean; what is served is never stripped
  (`blocks_global` shows that this fails for user-level files); doctor names every block the next
  sync cannot strip, if a seed still has its BEGIN line or an entry.

## 2. Modules, state and actions

**SessionCache.** One action per critical section of `sessionCache.mu`, or per step
between two of them. `m`, `bound`, `closed` are the fields of those names; `flight`
is the singleflight group; `req` and `reaper` are the goroutines; `sess` holds each
session's connections, ages, `dirty` flag and reverse index. A request goes
`GetHit` / `GetExpired` / `GetMiss` / `GetClosed` (getOrBuild), `Join` (singleflight.Do),
the flight goes `FlightRecheck`, `BuildResolve`, `BuildFail` or `Put` / `PutClosed`,
`FlightReturn`, and the request is then checked (`CheckPass`, `CheckReject`) and served
(`ServeInitialize`, `ServeDone`, `ServeDirty`). `Reap`, `InvalidateTenant` and `CloseAll`
evict; `SessionClose` is the `close()` that runs after the unlock. A close asks each upstream to
end its session, without a timeout and before it cancels anything, so it may never finish;
`BuildHangs` is the build whose skip of an upstream stands at such a close. Instants are ages,
since the code only ever compares differences.

**SessionBuild.** The body of `buildSession`: `Dial*` and `WatchdogFires` in any order
under the semaphore, then `SkipDialed`, `Collide`, `RegisterTool` (tool by tool, since a
listing can fail half-way), `RegisterFail`, `RegisterRace`, `RegisterOK` in name order. The skip of
a candidate that has a connection takes two steps, `SkipUpstream` (the watchdog is stopped and the
close begins) and `SkipClosed`, which may never come.
Names are their rank; slugs may collide, as `naming.Slugify` lets them. The audit row of each
outcome is left out.

**ToolCall** extends `ConcurrencyLimiter`: one request inside a session as the middlewares and the
proxy take it, each with its refusals. `frame` is a request's place and what it has left behind
(decisions, findings, whether it was forwarded and counted); `dirty`, `revoked` and `known` are
the flags of those names. A payload is the set of scanner rules it trips; a result has the three
parts that can carry it. A session closed under a request fails its call, which is what ends a
call whose upstream hangs: nothing else bounds one. `conn` is that session's connection: `Severed`
is the beginning of its close, and `Sever` the cancel that comes only once the upstream has
answered it, if it ever does. Virtual keys, quota and usage are seams that
this edition fills with stubs; the pipeline is modelled against all a seam may answer.

**RateLimiter** and **ConcurrencyLimiter.** One action per critical section. The bucket
arithmetic of `golang.org/x/time/rate` is external and kept in fractions of a token. The
history variable `ideal` is the bucket a key would have if nothing were ever forgotten.
Which refusals are logged, and the retry hint, are left out.

**SeatCap.** `Resolve` as the sequence of statements it is (`CheckExists`,
`CountBelowLimit` or `Reject`, `UpsertUnchanged` or `UpsertMustWrite`, `UpsertWrite`), each
of which may fail, with deletes and time in between.

**Marketplace** is the abstract promise of the publisher: the catalog advances, and the
publisher replaces the target only by a version the catalog has had that is no older
than the last one it published. **PublishWorker** is the worker, its channel, its
clone, its retries and the process around it. It implements `Marketplace` under the
mapping `target <- remote`. A first clone that dies half-way, or a `CreateRemote` that fails
(`CreateRemoteFails`), may leave `NoOrigin`, a repository that opens and cannot fetch.

**SyncReconcile.** `syncOnce` and `Reconcile` path by path: `Unchanged`, `Skip`,
`DecideWrite` and `Rename` (check and rename are separate steps) or `WriteFails`, then
`Remove` or `RemoveFails`, then `SaveManifest` or `SaveFails`, with `Crash` anywhere and the
developer acting at any time; every run is served something of its own. `Link` is a link of the
developer's that `stat` fails on, which counts as nothing there. The ledger can be edited too: an
entry that escapes the root (`Outside`) ends a run in its removal loop (`AbortRemoval`), with its
writes done and nothing saved. `touched` records what the developer changed
behind the run's back; `unsaved` what a run wrote and did not record.

**RoleGrants.** The admin handlers as READ COMMITTED transactions. `tx` is each request's
place in its handler, with what it has read (`report`, `from`), what its DELETE takes
(`gone`) and the rows it holds (`share`, `own`); `role`, `version` and `grants` are the
committed tables. `RoleExistsInTenant` and `TargetExistsInTenant` share their rows,
`LockRole` and `LockArtifact` own them, `Abort` is `InTx`'s rollback, and
each `Commit*` makes the writes visible and lets go. The lock manager is Postgres's and external:
a request that cannot have a row has no step. The cascade of a deletion (`CascadeRow`) and the
locking read of an artifact's grants (`LockOneRow`) take their rows one after another, in any
order. A unique index makes a request wait for whoever has an uncommitted entry of the same key:
`TakeName` for a role's name, `InsertGrant` for a grant's pair, `WriteArtifact` for an artifact's
identity, of which the model knows only that any two may clash. An edit of an artifact counts one version here, since only
its equality matters to the If-Match. Ids are never used twice (`spent`).

**Distribution.** One caller's `handleSyncArtifacts` against the artifact handlers. An
editor's GET and PUT are separate steps; the PUT's transaction holds the artifact row
`FOR UPDATE` from its first statement and is one step. `Save` is the write with
`maybeAutoApprove`; `WithRevision` and `Pruned` are `insertRevision`. `ListEntitledArtifacts`
and `ListActiveOrgRules` are the two statements of the answer. `named` records what every
revision number was ever given for, `touched` what changed while a sync was being answered.
Pins, which this edition ignores, and unique names are left out.

**SyncBlocks.** `ReconcileSeeds` and `ReconcileRules` pass by pass and file by file (`WriteSeed`,
`StripSeed`, `WriteRulesToProject`, `StripRulesFromProject`, `WriteGlobalRules`,
`StripGlobalRules`, each of which may fail), with the ledger saved at the end of a pass,
`project add` and `project remove` (`StripProjectSeeds`, `StripProjectRules`, `DropProject`), and
`Crash` anywhere. A block is its rendered body, `Edited` (its sha no longer matches), `Broken`
(markers duplicated, or a BEGIN without END) or, for a seed, `Headless`: an END whose BEGIN line is
gone. Merges refuse both, but strips and doctor find a seed by its BEGIN (`HasBegin`), so a
headless one is passed by and its entry goes (`Overlooked`). `Scanned` may miss directories that
cannot be read, in a sync and in a removal. `present` is what can be reached: volumes come and go.
Reading, merging and renaming one file is one step. `untracked`, `left` and `unseen` record what
faults and the developer did, so that a property can say that nothing else has the same effect.
Doctor is a set of files and projects (`Named`) computed from the state between runs.

**Catalog.** Admin requests over the server table: `BeginCreate` or `BeginUpdate`, the slug
check, the cap check and `CommitCreate` or `CommitUpdate` are separate steps, since each is a
statement of its own; an entitlement's edit goes straight to its transaction. `raced` is what other admins
wrote since a request's first check, `touched` that somebody wrote the row a request was shown.
`gw` is one gateway replica: its listener, notifications on their way, and one session that is
being built or cached. A statement that fails, the notification among them, fails the transaction.

**Paging.** A table of rows with sort keys, a client that walks it with any limit and either order,
everybody else who inserts, renames and deletes, and the retention pass in batches. `list` says
which table: server names are unique and change, an entitlement's role is shared and fixed,
audit rows are only appended and pruned.

**MCEdge** and **MCTenancy** put components that share no variable into one run. `side` says
which is explored; the others rest in their initial state. The sum of their state spaces is
explored, and a property of a component is checked where that component moves.

## 3. Runs

| Run | What it shows | Bounds |
|---|---|---|
| `session_safety` | who owns a session, who is served by it, and staleness under every interleaving of two requests with builds, evictions, reaper, nudge and shutdown | two keys in two tenants, two sessions, one transport id; ages saturate above every threshold |
| `session_live` | requests are answered unless they stand behind a close that hangs, shutdown releases everything, the index drains while the reaper lives | two requests, two keys, one session, closes and builds that may hang |
| `edge` | of requests: the cap holds and the count is exact, only cleared calls are forwarded, the trail is true, nothing blocked is delivered, every call ends once its connection is cut; of buckets: transparency of the sweep, no gain from displacing one; of a build: authorization against the serving server, no leaked connection, termination unless an upstream never answers a close | two requests of one principal under a cap of one, two tools, two rules of which one blocks; three principals over a map of two, a token that takes two refills; four servers of which three share a slug, two dials at a time |
| `build_listed` | *finding*: tools of a failed registration stay listed | the build of `edge` |
| `tenancy` | of seats: a recent user holds one, the overrun is bounded; of the catalog: each write commits as if alone but for what others really wrote in between, the nudge misses only for the two known reasons; of lists: a finished walk is complete | three subjects, two requests, two seats; two admins, two servers, three names of which two share a slug, a cap of one; one entitlement; lists of three rows over three keys, pages of one or two |
| `seat_known` | *finding*: a person who has just been seated gets a 402 | one seat |
| `publish` | no change forgotten, refinement of `Marketplace`, convergence unless the work-dir has no origin | two catalog changes; failures saturate at two |
| `sync_safety` | the ledger, delivery and the developer's files through crashes, failures, links and an edited ledger | two paths, two contents, two processes |
| `blocks` | ledgers, project removal, settled files and doctor through three faults, unreadable directories, edits, mounts or changes of entitlement | one project beside the home directory and `~/.codex`, two entitlements of which each takes away what the other serves, two processes |
| `blocks_global` | *finding*: a failed write of a user-level file is followed, in the same run, by the removal of its block | one event |
| `grants` | the audit rows of deletions, updates and renames are true; no mutual wait but between two that swap names | two roles, a server, two artifacts, two names, two requests at once besides revokes, rows edited once, a new grant joins at most one other (two inserted at once make three) |
| `distribution` | revision numbers never reused, untouched artifacts served once | one artifact (artifacts share no row), two editors, four revisions of which two are kept |

*Why these bounds are enough to be interesting.* Each race modelled here needs at most
two actors of a kind plus the background ones: a second principal is what can be served
the wrong session, a second request is what shares a build, a third rate-limited key is
what displaces one of two, a third server of a slug is what wins after a loser failed,
a second catalog change is what a stale attempt could undo, a second
admin request is what races a deletion or an update, a third revision is what prunes the first,
a second project-level file or a second pass is what a failed write of the first meets, a row that
ties on the key is what a page boundary could lose. Ages saturate above
every threshold the code compares with, so no bound on time hides a case. The
passing runs of each module fire every action. The theorems below do not
depend on any bound.

*Deadlock.* It is checked except for `SessionCache` (the process stops after shutdown); a
finished build stutters (`Built`).

*Types.* Every `TypeOK` documents the shape of a state and is proved, on its own or as part of an
inductive invariant; no run spends itself on one.

*Symmetry* is used only in runs without temporal properties over fairness.

Comments of the code that are stronger than what it does, met while modelling; the properties
state what holds instead:

* `internal/publish/publish.go:201` to `219` clone, or initialize and then add the remote; a process that
  dies in between, or a `CreateRemote` that fails, leaves a repository that `PlainOpen` accepts for
  ever after and that has no origin to fetch from, so every attempt fails until somebody deletes
  the directory. `Converges` excepts that state and no other;
* `internal/gateway/session.go:296` closes off the mutex so that one hung upstream cannot block
  every other key; that holds (`RequestsAnswered`), but the requests that run into that close, and the
  reaper if it is the one who closes, wait for as long as the upstream likes, and with the
  reaper the sweep of the index (`IndexDrains`). `server.go:1003` skips an upstream with its
  watchdog stopped and the same kind of close, so a build can be held too (`BuildEnds`), and a call whose
  upstream hangs is cut off only when that upstream answers its close (`CallsEnd`);
* `internal/syncclient/reconcile.go` says that Reconcile "NEVER modifies or deletes a file it
  does not manage"; an error of `stat` counts as absence (line 218), so a link that leads nowhere is
  replaced, as `containment_test.go:179` pins. `UnmanagedUntouched` is about what `stat` can see;
* an entry of the file ledger that escapes the root ends the run in its removal loop
  (`reconcile.go:303`), with files written and the ledger not saved, as `cmd/orbeat-sync/main.go:580`
  notes of another effect; the files are adopted by a later run that serves the same bytes,
  and are nobody's otherwise. `NothingForgotten` excepts them (`unsaved`);
* `internal/syncclient/seed.go:675` says that a seed with an orphan END is left alone and
  reported; `stripUndesired` goes through BEGIN markers only, so such a seed is left alone without a
  word, the run may call itself clean, its ledger entry is dropped, and doctor
  (`doctor.go:826`), which lists seeds the same way, does not name it either. `BlocksTracked`,
  `CleanRunSettles` and `DoctorComplete` except a `Headless` seed, each no further than that;
* `seed.go:554` takes a directory that cannot be read for one without seeds; a seed in it that the
  ledger does not name survives a clean run (`unseen`) and a removal of its project (`left`);
* `internal/store/artifact_entitlement.go:284` leaves uncovered, "on purpose", a role deletion that
  cascades a grant away after the read. The code does better: the cascade must delete the grant
  row the read has locked, and waits for the update's commit, so `UpdateReportExact` holds without
  that exception;
* two admins who swap the names of two roles (or of two artifacts) wait for each other's old index
  entry; Postgres ends one of them with 40P01, which its handler reports as an error. `NoMutualWait` excepts it;
* the age of a session counts from the end of its build, so `StalenessBounded` says
  `MaxAge + BuildBound` where comments say `sessionMaxAge`;
* a file the developer saves between Reconcile's check and its rename is replaced, so
  `UnmanagedUntouched` excepts exactly that window;
* `cmd/api/main.go:236` says that a SIGTERM must not kill a publish mid-push; it cancels the
  context the push runs under, and `Converges` shows that the next process makes up for it;
* `cmd/orbeat-sync/main.go:156` calls exit code 0 "clean — everything synced"; a crash between a
  rename and the save of the ledger leaves a file that later clean runs do not own, which
  `NothingForgotten` excepts (`unsaved`);
* `internal/store/rbac.go:722` says that a role deletion reports exactly what it destroys; a
  grant revoked between the read and the DELETE is reported too, so the property is
  `RevokedReportComplete`, one inclusion and not two;
* `internal/api/sync.go:329` calls the two lists of a sync disjoint by construction; they are two
  snapshots, and an artifact whose visibility flips between them is in both or in neither, so
  `UntouchedServedOnce` is about the others;
* `internal/api/admin_audit_helper.go:57` says that a nudge that fails is swallowed and does not
  fail the write; in Postgres a failed statement aborts the transaction it is in, so the commit
  fails with it (`Fails` in `Catalog`);
* nothing is invalidated when the LISTEN connection comes back, so a change announced meanwhile
  is served until the session expires: `NudgeCatches` excepts it, `StalenessBounded` bounds it;
* an argument scan that fails denies the call, and leaves the "allow" row written before it as
  the only decision on record; `TrailTruthful` requires one decision, and that a "deny" reached nobody;
* a result that could not be marshalled would be scanned as an empty text; since a result arrives
  as JSON there is none, as the comment there says, and the model has none;
* a project that is mounted between the seed pass and the rules pass of one run gets its rules and
  waits for its seeds until the next; the run has warned about it and does not call itself clean.

## 4. Fairness

* `SessionCache`: the goroutines of requests and builds are scheduled, the reaper's ticker fires while
  it runs, time passes. A close owes nothing: any set of them may stay pending for ever. A build ends
  or hangs in such a close, which is what `edge` shows of `SessionBuild` from its timers alone.
  Nothing is assumed of new requests, of the MCP handler that serves an admitted one, of the
  nudge or of shutdown.
* `SessionBuild`: dials, listings and closes may hang for ever. Only timers, the error return
  of an operation whose watchdog fired, and the loop's own steps are owed.
* `ToolCall`: a handler's own steps are taken, a cut connection fails the call that waits on it, and
  the listen bound's timer fires. An upstream owes nothing, not even an answer to its close, and
  nothing says that a session is ever retired.
* `PublishWorker`: the worker and its timers run, a handler that committed goes on to
  Enqueue, a step of a publish ends (by `Config.Timeout` if not before), a stopped process is
  restarted by its supervisor. Strong fairness says that a step retried for ever succeeds at
  some time, without which no retry can help. `Converges` excepts behaviours disturbed for
  ever by foreign pushes, shutdowns or crashes, and a work-dir without an origin.

The other modules state safety only and assume none.

## 5. Proofs

Every invariant and every action property that a passing run checks is also proved by TLAPS, for
every value of the constants, and so is the refinement of `Marketplace`. Few of these properties are
inductive; for each component the strengthening that is, and why it is needed:

**`SessionCache_proofs`** (any number of requests, keys, sessions and ids). `NoLeak` and
`CacheHoldsOpenSessions` need each other: that put stores an open session needs to know that a
build's session is its own, and that an eviction leaks nothing needs to know that a cached session
is open. `OwnInv` is their conjunction with `FlightOwnsKey`; `OwnQuiet` covers the steps that evict
nothing, `OwnEvict` the five ways of evicting. `ServedByOwn` adds that a live binding of a transport
id names the session that minted it (`IndexTrue`), and that builds and requests carry sessions of their
own key; a key never changes while somebody still refers to the session. `HitsAreFresh` follows from
`AgeInv`: the two ages of a session, since its entitlements were read and since it was put, differ by the
length of its build.

**`Edge_proofs`** holds four components.
The *concurrency limiter*: `CountsAreExact` (each counter is the cardinality of the set of running
calls) is inductive with the types, and `CapIsNeverExceeded` follows from it and a bound on the counters,
which only an admission below `Max` raises.
The *call pipeline*: `Good` says of a request at each middleware what those before it have
established, which makes `ForwardedIsCleared`, `TrailIsTruthful` and `BlockedIsWithheld` what it says
of a forwarded or answered one. `LimiterImplemented` shows that the pipeline's steps are steps
of the limiter or leave it alone, which carries the cap over (`PipelineKeepsCap`).
The *rate limiter*: `BucketGood` says of one key that its bucket's idle age is the time since its
last call and that a bucket holds at least what was refilled while it was idle. So a bucket idle for more than
a ttl is full when it is swept (`SweepingGivesNothing`), and the least recently used bucket is the one of
the key that has been silent longest (`CallersAreKept`).
The *session build*: `BuildInv` says that a candidate done with either joined the session or holds no
connection (`Settled`), that an upstream of the session alone owns its slug and its timer is stopped
(`Joined`), and that a registered name belongs to a server of its slug, if perhaps one whose
registration failed (`Named`). `CallsAreAuthorized` and `OwnsItsConnections` follow.

**`RoleGrants_proofs`** (any number of roles, servers, artifacts and concurrent requests).
What a report says at the commit holds because of the rows its request has owned since it read
them. `IInv` gives every request a frame, by handler: a deletion past its lock owns the role row, and
what it has read so far covers the grants of that kind, and past its cascade it owns every row that goes;
an update past its lock owns the artifact
row, and past its read every grant row it reports; a rename has read the name of the version it
asks for, or of a later one which its update will refuse; a creation's id is nobody else's
(`FreshIds`). A step that writes no table is handled by `QuietStep`. A commit disturbs the frame of
another request only if both hold the same row, which `OneOwner` and the types exclude, or have an
entry for the same name, which `NamesApart` excludes; `FewerGrants` covers revocations. `NoTwoWait` needs in addition
which rows a request can hold at each place (`AllHeld`) and which ones it can ask for. Two requests that
gather grant rows do so under a role or a target each of its own, so two of a kind never want the same
row, and one of each kind want a single grant's, which one of them holds (`GatherersApart`). One that
gathers, or a grant that waits for its target, makes no such pair with a request at any other place
(`GathererAlone`, `GranterAlone`). Two that wait for names are the exception the property states. It speaks of pairs. Longer rings exist in
Postgres, of two role deletions and two target deletions over four grants for instance, whose cascades
meet row by row; Postgres breaks those as well.

**`Tenancy_proofs`** holds three components.
The *seat cap*: `RowKeepsUp` bounds how far `last_seen_at` may lag behind the last request, and
`CountStands` says of a request between its count and its insert that the active users nobody wrote
since are fewer than the seats. `OverrunIsBounded` is then a fact about cardinalities.
The *catalog*: `HandlerGood` says what a request's slug check and cap check are still worth: they stand but
for rows others wrote since (`raced`), and an untouched row still has the version its author was shown,
versions only grow. `NudgeInv` follows a change to the session that must be told.
*Paging*: a page is the first rows after the cursor in a total order (`FirstOf`; its least and
last elements exist because the table is finite), so every row that stayed is either seen once or
lies ahead of the cursor (`WalkGood`), and none is ahead of the last page.

**`PublishWorker_proofs`**. `Remembered` lists every place that can remember an unpublished change: a
handler, the token, the worker before its snapshot or after a failure, a snapshot that is current,
the next process. `AheadOfTarget` keeps a snapshot between the last version pushed and the catalog,
which is also why a push that lands, answered or not, is a step of `Marketplace`, and every other
step a stutter (`Refinement`).

**`Distribution_proofs`** (any number of artifacts and editors, any retention). `MAX + 1` is fresh because the newest
revision of a row is never pruned (`Filed`) and no number above it was ever given out (`Numbered`).
Each statement of a sync was right about an untouched artifact, and nothing it read has moved since
(`Current`).

**`SyncReconcile_proofs`** (any number of paths and processes). The frame of the one process that
holds the lock says, place by place, where each file orbeat wrote is remembered (`Recalled`: the old
ledger, what the run manages, or lost to a failed save) and which paths are settled.

**`SyncBlocks_proofs`** (any number of projects, processes and faults). As before a frame of the one
process that runs (`RunInv`): what its `todo`, `keep` and `hold` are worth in each pass. `PassInv`
says that every block is in the old ledger, in the new one being put together, or excused;
`HeldInv` that what the run failed to write is held back from the strip, which is `EntitledIsKept`;
`ScopeInv` and `RemovalInv` that a sync works on registered projects only and a removal drops its project
after the strip; `SeedsSettle` and `RulesSettle` which files a run
that is still clean has settled, leftovers included. `DoctorNames` follows between runs from the ledger's completeness.

*Assumptions* are those stated, named, in the modules, and TLC evaluates them on the instances:
`None` and the like are no key, row or path; parameters are naturals and some of them positive; the sets of calls, subjects,
servers and rows are finite; ages saturate above the thresholds they are compared with; the files and
places of `SyncBlocks` are distinct. `SweepIsTransparent` carries its own hypothesis, that a ttl
refills a bucket, which is what `main.go` sizes it for. Components that share no variable are
proved from their own specifications; `EachIsItself`, in both modules, shows that the runs that put
them together (`edge`, `tenancy`) explore behaviours of each.

*Only model-checked.* What must eventually happen (`RequestsAnswered`, `ShutdownReleases`,
`IndexDrains`, `CallsEnd`, `BuildEnds`, `Converges`): liveness under fairness is out of this
prover's reach. The three findings are counterexamples and stay with TLC.

## 6. Not modelled, and why

The MCP wire format and tool schemas, Keycloak, Postgres and git internals are external and
appear by what the code relies on. The portal is a user interface. Configuration, logging,
telemetry, migrations and the formula generator are start-up plumbing and text. The
governance scanner is regular expressions. Token validation is a function of one token; the
keys it checks against are refreshed inside a library. Resolving a secret is a lookup. Signing
in, the writers of editor configuration and doctor's probes of the environment are I/O.
Virtual keys, quota and usage are stubs in this edition. Plan (dry-run) mode of `orbeat-sync`
writes nothing. The retry hint of the rate limiter changes no state. The audit export streams
what a walk would return. The fallback lock for platforms without `flock` is documented as weaker
and is not modelled. The local-directory marketplace target has no push and is left out.

## 7. Plan

Proofs: what is left is liveness, which stays with TLC, and stronger statements about what is proved
already: that `Catalog` refines a table of atomic writes but for `raced`, that a build's outcome is a
function of names and dial outcomes alone.

Model: the roles list and the artifact list join `Paging` if their orders ever differ from the ones
modelled; the writers of editor configuration (`connect.go`) merge into files the developer owns and
would be a smaller `SyncBlocks`.
