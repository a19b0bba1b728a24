# iowap-server: verification development

TLA+ models of the IOWAP relay server (`relay_server`, the Python package in
the repository root), the TLC configurations that model-check them, and TLAPS
proofs about them. Source names in this file are relative to `src/`.

## 1. The system

A relay server keeps a cluster of worker nodes in one SQL database (SQLite in
WAL mode by default). Nodes register, are approved by an administrator, send
heartbeats with their load, capabilities, routes and slots, claim stages of
tasks that others submit, report progress and results, and exchange artifacts.
Watchdogs repair what silent nodes leave behind. An in-memory event bus tells
subscribers.

### Inventory

| Component | State | Operations | Interacts with | Hard behaviour | What makes it correct |
|---|---|---|---|---|---|
| task scheduler `core/scheduler.py`, `api/v2/scheduler.py` | `tasks`, `task_stages`, `task_notes` | create, claim, note, complete; the claim-TTL, orphan and lease watchdogs | nodes and their capability index, event bus, maintenance | handlers race with sweeps between a read and a write; retries, takeovers, three failure policies | retry budget, finality, dependencies, claim order, a task's status fits its stages, nothing waits for ever |
| discovery `core/discovery.py` | `nodes`, `node_routes` | heartbeat, offline watchdog, queries | scheduler (fails claims of silent nodes), routes, slots | a heartbeat against the offline pass, two commits in each | silent nodes go offline, heard ones stay, index and routes follow the node |
| node administration `api/v2/admin.py` | `nodes` and everything that refers to it | approve, issue token, delete | scheduler, tokens, artifacts, forward | deletion across eight tables | no dangling reference, no stage lost |
| authentication `core/auth.py`, `api/v2/auth.py` | `node_tokens`, registration secrets, seeds | register, approve, refresh, recover, rotate, purge | every handler's gate | a request is several transactions, its answer may get lost, a heartbeat changes the status in between | a new token replaces the old ones, the secret is not lost, a node gets back in |
| status registry `core/status.py` | none | categories, transitions | all | statuses by name in SQL text and by category in Python | the sets agree |
| schema `core/db.py` | the schema, `schema_migrations`, default roles | `init_db` at every start | everything | schema changes are durable before the ledger rows that record them | what serves has the full schema, a start gives no right back |
| maintenance `core/maintenance.py`, `main.py` | registered sweeps, `last_run` | `run_due`, `run_all` | every sweep | own thread; the final `run_all` may overlap a running `run_due` | every sweep gets its turns, two at once do no harm |
| event bus `core/events.py` | subscriber queues, history | publish, subscribe | all publishers | bounded queues, drops, delivery across threads | drops are counted and announced, order |
| chunked uploads `core/chunked_upload.py` | sessions in memory, chunks on disk | init, store, complete, discard, prune | storage API, maintenance thread | a restart loses sessions, the prune races with requests, a write fails half-way | sessions match the disk, limit kept, whole artifacts |
| artifacts `core/artifacts.py`, `api/v2/storage.py` | rows and files | store, read, delete, expire | tasks, nodes | file and row are written separately | a row goes after its file |
| forward `core/forward.py`, `api/v2/forward.py` | declared slots, mappings | declare, map, bind, redirect | submit path, heartbeat, node deletion | a mapping is checked once and used later | references resolve, stale mappings do no harm, payloads arrive |
| routes `core/route_registry.py`, `core/net_guard.py` | `node_routes` | declare, bridge, replace, expire, look up | heartbeat, offline watchdog, reaper | replacement against expiry, two commits, key clashes | routes of one declaration, bridges live until they lapse |
| users `core/users.py`, `core/session.py` | users, groups, permissions | bootstrap, manage | dashboard, schema | default roles at every start | revoked stays revoked |
| dashboard, cluster API, metrics, models, config, CLI, mDNS, PostgreSQL adapter | mostly derived | rendering, validation, I/O | all | little | not modelled, see section 8 |

## 2. How the program runs, and how that is modelled

* **One event loop.** FastAPI handlers are `async def` and call the synchronous
  core without an `await` in between: the loop serves one request from its
  first SELECT to its last COMMIT. A request that has read and not yet written
  is the variable `loop` (`handler` in `Credentials`); while it is not `Idle` no
  other request starts.
* **Maintenance threads.** `_maintenance_loop` (`main.py`) runs
  `MaintenanceScheduler.run_due` in a thread, one sweep after another. At
  shutdown the loop's task is cancelled, which does not stop a thread that is
  still in `run_due`, and `run_all` starts in a second one. `maint[w]` is the
  pending sweep of thread `w` (`watch` in `NodeRoutes`, which models one);
  `Sweepers` is the set of threads. The runs have one thread, the theorems any
  number.
* **Transactions.** The SQLite driver opens a transaction at the first DML
  statement; SELECTs before it see the database as it is at each moment, and
  from the first DML to the COMMIT the handler holds the only write lock. So
  every handler that reads first is a *read* action, which puts what it selected
  into `loop` or `maint[w]`, and a *write* action, atomic, which applies it to a
  database the other thread may have changed. A predicate that the code repeats
  in its UPDATE is evaluated again in the write; one it does not repeat is not.
  Handlers whose first effective statement is already DML (`create_task`,
  `admin_delete_node`) are one action. A handler that commits several times has
  one action per commit. CREATE and ALTER open no transaction, which is what
  `SchemaMigration` is about.
* **Crashes, restarts, lock timeouts, retries.** `LoopAborts`, `SweepAborts`,
  `Interrupt`, `Crash` and `Restart` drop what is pending. What was committed
  stays; `_retry_db_write` shows up as an abort followed by the same read again.
* **Lost answers.** In `Credentials` a client may give up (`Timeout`) wherever its
  request or the answer is; the server may still serve it.
* **Time** is an environment step: a claim expires, a note ages past the
  long-run TTL and then past the orphaned TTL, `last_seen` passes the offline
  timeout and then the grace period, a token, a secret or a bridge lapses, an
  upload is an hour old. The order of the thresholds is that of the defaults in
  `config.py` (claim 60 s, long run 2 h, orphaned 24 h, offline timeout 50 s, grace
  600 s). `NodeAges` and `FallSilent` wait while an offline pass has the node
  selected, because that pass computes its threshold before its query.

## 3. Modules

| Module | Contents | Code |
|---|---|---|
| `StatusRegistry` | node, task and stage statuses with categories and transitions; `StatusesIn` | `core/status.py` |
| `TaskScheduler` | the task tables as variables, one read and one write action per handler and sweep, time, aborts, fairness, properties | `core/scheduler.py`, `core/discovery.py`, `api/v2/admin.py`, `core/db.py` (capability index) |
| `WorkQueue` | abstract specification: items are submitted, leased to one worker for a bounded number of tries, kept, finished by the holder, or given up | what the scheduler promises |
| `TaskSchedulerRefines` | refinement mapping and `ImplementsWorkQueue` | |
| `TaskSchedulerProofs` | proofs about these three: types; retries, finality, held work; references, claims, dependencies, task status, claim order, refinement | |
| `EventBus` | publishers on several threads, callbacks in the loop, bounded queues, streams, history | `core/events.py`, `api/v2/events.py` |
| `EventBusProofs` | proofs about it | |
| `ArtifactStore` | files and rows of artifacts, and the handlers and the sweep that change them in steps | `core/artifacts.py`, `api/v2/storage.py` |
| `ChunkedUpload` | extends `ArtifactStore`: sessions in memory, chunks on disk, the prune sweep, restarts | `core/chunked_upload.py`, `api/v2/storage.py` |
| `ChunkedUploadSafety` | proofs about both | |
| `Credentials` | tokens and secrets of nodes, each request a list of transactions; clients that give up and come back | `core/auth.py`, `api/v2/auth.py`, `api/v2/admin.py` |
| `CredentialsProofs` | proofs about it | |
| `NodeRoutes` | declared and temporary routes, the heartbeat that syncs them, the offline pass that clears them, the reaper, the target guard, the lookup | `core/route_registry.py`, `core/net_guard.py`, `core/discovery.py`, `core/maintenance.py` |
| `NodeRoutesProofs` | proofs about it | |
| `Forward` | slots, mappings, bindings, the redirect at submit, deletions | `core/forward.py`, `core/db.py`, `api/v2/admin.py` |
| `ForwardProofs` | proofs about it | |
| `SchemaHistory` | the tables, indexes and numbered migrations of the code, as data | `core/db.py` |
| `SchemaMigration` | a start: statements under SQLite's transactions, the ledger, default roles, crashes anywhere | `core/db.py`, `core/users.py` |
| `SchemaMigrationProofs` | proofs about it, for any history | |
| `Sublists` | the list comprehension `[x for x in xs if ...]`, used by the bus, the route loader and the redirects | `core/events.py` |
| `DataLemmas` | induction over the numbers, stated for sets, and what it gives for `Sublists` | |
| `MC...` | one small instance per specification | |

### TaskScheduler

`node` is `nodes.status` **by category** ("deleted" when the row is gone), since
every condition the scheduler tests is a category; `seen` is the age of
`last_seen`; `caps` and `index` are the JSON column and `node_capabilities`;
`tStatus`, `owner`, `prio` are columns of `tasks` and `earlier` is the order of
`created_at`; `st`, `by`, `retry`, `pin`, `deps` are columns of `task_stages`;
`expired` is `claim_expires_at < now`; `claims` counts the claims of a stage and
stands for `claimed_at`, which every claim rewrites, so that equal counts mean
"still the claim that was read"; `note` is the age of `last_note_at` and of the
long-run lease written with it.

`CreateTask` = `create_task`; `ClaimRead`, `ClaimWrite` = `claim_stage`;
`CompleteRead`, `CompleteWrite` = `complete_stage`; `NoteRead`, `NoteWrite` =
`add_note`; `HeartbeatRead`, `HeartbeatWrite`, `SyncCapabilities` = `heartbeat`;
`AdminApprove`, `AdminDelete` = the admin handlers; `OfflineRead`, `OfflineWrite`
= `mark_offline_nodes`; `ReleaseRead`, `ReleaseWrite` = `release_or_fail_claims`;
`OrphanRead`, `OrphanWrite` = `fail_orphaned_stages`; `LeaseRead`, `LeaseWrite` =
`enforce_longrun_leases`. The two failure policies are `DoneTasks` (all stages
done) and `FailedTasks` (linear policy), used by each sweep with the arguments
the code passes.

Three abstractions deserve a word. `HeartbeatWrites(c)` is the set of categories
a heartbeat may write for a node it read in category `c` (the explicit status
checked by the registry, auto-busy, its revert, and the return of an offline
node), so load figures are not modelled; TLC checks it against the registry's
transitions (`HeartbeatAssumption` in `MCTaskScheduler`). `LeaseRead` takes the
first of the three rules that selects rows; the later ones run inside the
transaction that its UPDATE opened and are therefore evaluated in `LeaseWrite`. A
read that selects nothing ends the handler without effect and is not a step.

### EventBus

One variable per thing a publisher or a stream holds: `pub[th]` is the
`publish_sync` call thread `th` is in (append, compare the length, pop and
snapshot, then one `call_soon_threadsafe` per subscriber, each its own step),
`ready` is the loop's callback list, `queue`, `hand` and `dropped` belong to a
stream, and `sent` and `got` record what was scheduled for it and what it
yielded. Steps of the loop wait until the loop is not inside a publish
(`LoopFree`); a maintenance thread never waits. Keepalive comments are left out:
they change nothing.

### ArtifactStore and ChunkedUpload

No lock exists between the loop and a maintenance thread there, so each access
to the session dictionary or the directory is a step: `InitMkdir`,
`InitRegister` = `init_upload`; `StoreRead`, `StoreWrite` = `store_chunk`;
`CompleteRead`, `Assemble` = `complete_upload`; `CompleteCheck`, `CompleteCopy`,
`CompleteCopyFails`, `InsertRow`, `InsertRefused`, `CompleteDiscard` = the rest of
`chunked_complete`; `PruneRead`, `PrunePop`, `PruneOrphan`, `PruneEnd` and the
three `Rmtree` actions = `prune_stale`; `Upload`, `Delete...` and `Cleanup...` = the
functions of `core/artifacts.py`. `age` of an upload is *fresh* for the hour of
`prune_stale`, *stale* when `created_at` is older and *old* when the directory's
mtime is older as well; a new directory entry renews the mtime. A write may fail
before it opens its file, or half-way: `Torn` stands for whatever it leaves, in
the slot of a chunk (`Written`), in the assembled file, which the next attempt
writes anew, or in an artifact's file (`StoreFails`), which then has no row. The
chunk it tore may be one that was acknowledged before: the session's books are
written afterwards and stay as they are. The database is only a lock: `HoldsLock` is a
sweep between its first DELETE and its commit.

### Credentials

`rows` is `nodes` as far as credentials go (status, registration secret,
whether it expired), `tokens` is `node_tokens`; tokens and secrets are numbers
in the order of their issue. `handler` is the request the event loop is in: the
operation, its node, whether the client still waits, and `todo`, the transactions
left (`Script`): `register` is `insert`, `temporary`; an approval is `approve`,
`runtime`; a refresh or an issue is `invalidate`, `runtime` (the two halves of
`_replace_runtime_token`); a rotation is `rotate`; a recovery is `invalidate`,
`runtime`, `rotate`. `Interrupt` may come before each. `requests`, `inbox`, `held`
and `unseen` are the network and the clients: what is on its way, what a node
last received, which secrets were in an answer that got lost. `Operation` is the
decision of `auth_register` and `auth_refresh`; a bearer that comes along
decides alone. A heartbeat (`HeartbeatWrites`) writes any status the registry
allows from the current one, with a temporary token as well: a pending node
calls itself approved, an offline one pending. A status is one of *pending*,
*approved*, *online* and *offline*, the first two by name and the others by
category. `MarkOffline` and the heartbeat leave an admin node's role out of
account, so the model has more behaviours than the program.

### NodeRoutes

`status` by category, `fresh` (`last_seen` within the timeout), `endpoint`, and
`routes[n]`, the rows of `node_routes` by key (path and method), of kind permanent,
temporary or expired (a temporary row after `expires_at` that the reaper has not met). A heartbeat is
`HeartbeatRead`, `HeartbeatWrite` (the first commit) and `SyncNodeRoutes` (the
second, rolled back as a whole when an INSERT meets a row with its key);
`mark_offline_nodes` is `SelectCandidates`, `MarkOffline` (first commit) and
`ClearRoutes` (second). An upstream is an origin, a path or bare text; `Storable`
is the guard when a route is stored, `Target` the one when a request is sent.
`config` is the node's own file, from which it heartbeats.

### Forward

`slots`, `mappings` and `index` are `forward_slots`, `forward_mappings` and
`node_capabilities` with their schemas as field sets; `stages` are the redirected
stages stored. Every operation runs to its end on the event loop, so each is
one action: `ReplaceForwardSlots` = `replace_forward_slots`; `UpsertForwardMapping`
= the ladder of `upsert_forward_mapping`; `Submit` = `resolve_forward_stages` and
the store; `SyncCapabilities`, `DeleteNode`, `Register`. `ApplyBinding` is
`apply_binding` as a recursive function over the rules. A text is a sequence of
letters, so that joining is concatenation and one can see where a letter went;
`Texts` are the letters of constants.

### SchemaHistory and SchemaMigration

`SchemaHistory` has every table, column a migration mentions, index and
migration (m001 to m018) as statements: the object it names, all it adds, what
the guards around it look for, whether it is IF NOT EXISTS, whether it changes
rows. `SchemaMigration` runs such scripts, for any history: `store` is what a
crash leaves, `view` what the starting process reads; a statement that changes
the schema is durable at once until the first DML of the start has begun a
transaction, and afterwards everything waits for the one commit (`Write`).
`BaselineDone` seeds the default roles, `MigrationDone` appends the ledger row,
`Finish` fills the capability index and commits. `Init` is a new database, one
from before the ledger, one left by each released version, and one of a newer
build.

The definitions named `X_Variant` (`NewTotal_Cumulative` beside `NewTotal`, say)
are faulty variants of the operators `X`; no action uses them. Each is a
plausible mistake at that place, and with it some property of a run fails.

## 4. Properties

Each property is stated, with the code it is about, in a comment at its
definition. A name that combines others is a conjunction.

| Module | Property | What it says |
|---|---|---|
| `TaskScheduler` | `RetryAccounting` | every return to pending costs one retry; a stage is handed out at most `max_retries + 1` times |
| | `DepsRespected` | a stage is handed out only after what it depends on is completed, and that stays so |
| | `NoDanglingReference` | no owner, pin or claim of a deleted node |
| | `ClaimsAreSound` | claims are made and released as a whole (`ClaimIsWhole`) and held by a node they are addressed to (`HolderIsAddressed`) |
| | `TaskFollowsStages` | a completed task has no open stage, a spent retry budget fails the task, a task is pending exactly until a stage is handed out |
| | `TerminalIsFinal` | no step changes a completed or failed stage or an ended task |
| | `HeldWorkIsKept` | a long run is never handed out again (`LongRunIsNotReclaimed`), only an expired claim is taken back (`OnlyExpiredClaimsReturn`) |
| | `NoQueueJumping` | a stage is never handed out while one that came first, asks for no more and is open to every node has not been |
| | `ClaimsEnd`, `AbandonedLongRunFails`, `UncoveredStagesFail`, `SilentNodesGoOffline` | what each watchdog brings about, given its own turns |
| `TaskSchedulerRefines` | `ImplementsWorkQueue` | the scheduler is a leased work queue with a bounded number of tries |
| `EventBus` | `LossIsReported` | nothing is lost without being counted, and the count comes with the next event that is read |
| | `HistoryIsRecent` | the history is a run of the newest events without a hole, up to what publishers are trimming |
| | `StreamsDrain` | what is queued for a connected client is yielded or dropped |
| `ChunkedUpload` | `SessionsMatchDisk` | a session's slots and total agree with the chunks on disk, within the limits, but for slots in which a later write failed half-way |
| | `ArtifactIsWholeUpload` | an artifact made of chunks has every slot of a fully received upload, in order, as the slots were when it was assembled and still are; no other file is made of the upload |
| | `YoungUploadsSurvive` | a prune takes nothing of an upload less than an hour old |
| | `StagingIsReaped` | what an upload leaves in the staging area is removed in the end |
| | `RowsGoAfterTheirFiles`, `YoungArtifactsSurvive` | a row is deleted after its file; before its TTL a file goes by a delete request only |
| | `ExpiredArtifactsGo` | expired artifacts lose file and row in the end |
| `Credentials` | `TokensAreReplaced` | a new token leaves no other token of the node that it is meant to replace, across the transactions of its handler |
| | `SecretIsReachable` | the secret in a node's row is with the node, on its way, or was in an answer that got lost |
| | `NodesRegainAccess` | a node that is approved and whose valid secret did not get lost gets back to a working token |
| `Forward` | `RefsResolve`, `NoDanglingForward` | stored references lead to a forward slot and its field; nothing refers to a deleted node |
| | `SentFieldsSurvive` | what was sent is in the stage: every field without a binding, the reserved fields no rule touches with one |
| | `BindingMovesValues` | every text of a payload ends in at most one place, only targets and reserved fields remain, a constant stays where nothing reads it again |
| | `StaleMappingsAreSafe` | a mapping that outlived its check makes no stage for a value slot and no pin on a node that is gone |
| `NodeRoutes` | `RoutesAreOneDeclaration` | a node's permanent routes come from one declaration, none from another mixed in |
| | `BridgesSurvive` | no heartbeat and no reaper ends a bridge before it lapses |
| | `OnlySilentNodesAreMarked` | the offline pass marks no node heard of since its query |
| | `RoutesCatchUp` | a node that goes on heartbeating ends with the routes of its own configuration, and each leads somewhere |
| `SchemaMigration` | `LedgerIsTruthful` | no recorded version covers a missing object |
| | `ServesFullSchema` | a server that serves has every table and column, and the capability index |
| | `RevokedStaysRevoked` | once seeded, a start changes no grant |
| | `StartsUp` | the server comes up in the end |

Each specification but `NodeRoutes` also states its types as `TypeOK`
(`NodeRoutesProofs` has them as `Tables`). The theorems prove it for
`TaskScheduler`, `EventBus`, `Credentials` and `SchemaMigration`, and as much of it
as they need for the others; TLC finds it true of the instances, but no run repeats that:
they spend their time on the properties above.

## 5. Runs

`tlc -config X.cfg M` with the configuration `M_run.cfg` of the module without
its `MC` prefix.

| Run | Instance | Checks | Distinct states |
|---|---|---|---|
| `work` | 1 node, a task of 2 stages, chained or side by side, no retry | `DepsRespected`, `TaskFollowsStages`, `NoQueueJumping`, `TerminalIsFinal`, `ImplementsWorkQueue` | 921,416 |
| `priority` | 1 node, 2 single-stage tasks of two priorities, no maintenance | `NoQueueJumping` | 411,987 |
| `nodes` | 2 interchangeable nodes, a stage that is free, owned or pinned | `NoDanglingReference`, `ClaimsAreSound` | 1.08 million |
| `watchdogs` | 1 node that may lose its capability, 1 stage, 1 retry | `RetryAccounting`, `HeldWorkIsKept`, the four liveness properties | 196,094 |
| `events` | 2 streams, 2 threads, queues and history of one, lag report at 1, 2 events | the `EventBus` properties | 96,149 |
| `storage` | 1 upload of up to 2 chunks of two sizes, 1 plain artifact, 1 maintenance thread | the storage safety properties | 2.19 million |
| `storage_ends` | the same with 1 chunk of one size | `StagingIsReaped`, `ExpiredArtifactsGo` | 171,952 |
| `access` | 1 node, 4 disturbances | the `Credentials` properties | 936,713 |
| `slots` | 2 nodes, 2 slots, 4 names, 2 stages; every list of up to 2 rules | the `Forward` properties | 445,351 |
| `routes` | 1 node, 2 keys, 2 origins, 6 configurations, 5 disturbances | the `NodeRoutes` properties | 145,093 |
| `starts` | the code's own tables and 18 migrations, 2 groups, 2 permissions, 2 crashes | the `SchemaMigration` properties | 12,677 |
| `ended` | 1 node, 2 independent stages | finds `TaskEndsWithItsStages` violated, section 6 | stops at depth 13 |

**Bounds, and why they are enough.** Two stages are the least that have a
dependency, a task status that differs from a stage's, and a task half failed.
Two tasks are the least that have an order between tasks; `work` has
the order within one, against the sweeps, and `NobodyOvertakes` proves both together. Two nodes are the
least that compete, of which one can be deleted or hold what is addressed to the
other. One retry gives a first return that is granted and a second that is not;
`RetryBudget` proves the rest. One maintenance thread runs beside the loop; two
at once, at shutdown, are covered by the theorems, which hold for any set
`Sweepers`. Queues of one event are full at once, and a loss needs a second
event. Two chunks of sizes 1 and 2 with a limit of 3 let a chunk be sent again
larger or smaller, on either side of the limit. `MaxDisturbances` bounds what no
code bounds: expiries, timeouts, failures, voluntary requests, silences,
reconfigurations and crashes; four reach a lost answer, its retry, an expiry and
a failure between transactions, five reach a bridge, a silence, a
reconfiguration, a return and a crash. `MaxCrashes = 2` has a start cut short
that follows a start cut short. Where a behaviour is proved, the
bound does not matter.

**Deadlock.** The runs `slots` and `starts` check it. The others say
`CHECK_DEADLOCK FALSE` because the program may come to rest there: all stages
ended, every artifact deleted and no id left, all events of the bound
published, all disturbances spent.

**Fairness**, always as weak as the property allows:

* `TaskScheduler`: a sweep that has read writes or is given up (`SweepsEnd`). For
  each liveness property, the turns of one watchdog only (`ReleaseTurns`,
  `LeaseTurns`, `OrphanTurns`, `OfflineTurns`): `run_due` gives a sweep its turn
  again and again while it has work to do, and since a sweep may be given up for
  a locked database, its reads and writes are strongly fair: not every attempt is
  given up. Time passes (weak fairness of `ClaimExpires`, `NoteAges`). Nothing is
  assumed of nodes: none has to claim, note, complete or heartbeat.
* storage: `Runs` (the server is not restarted for ever, requests and sweeps
  under way end), and with it `PruneTurns` or `CleanupTurns`: the turns of that
  sweep, and that not every unlink fails for ever.
* `EventBus`: a publish under way, the loop's callbacks and a connected stream
  go on.
* `Credentials`: the event loop serves, answers arrive unless they get lost, and a
  node without access keeps trying to recover with its secret; since a failed or
  lost attempt disables and enables the retry, that one is strong.
* `NodeRoutes`: the loop ends its heartbeat, the maintenance loop runs its tasks,
  lifetimes end, and nodes heartbeat periodically (strong, for the loop is busy
  in between).
* `SchemaMigration`: a start that is not cut short goes on; crashes are bounded.

`MCTaskScheduler` also has `HeartbeatAssumption`, which TLC evaluates: the set of
categories a heartbeat writes is what the transitions in `core/status.py` allow.
`ASSUME`s over the parameters are evaluated by the runs as well.

## 6. Where the code and its words differ

**A completed task with a failed stage** (run `ended`, property
`TaskEndsWithItsStages`). `mark_offline_nodes` (`core/discovery.py:789`) fails the
claimed stages of a silent node and then applies `_fail_tasks_if_all_stages_done`
only, not the linear failure policy that every other sweep applies; if the
task's other stage is completed later, the task is completed.
`core/scheduler.py:1366-1367` says that a single failed stage fails the whole
task, even while other stages are pending. There is a second way: the lease
watchdog passes a set of terminal statuses without `completed`
(`core/scheduler.py:1287`), so a task of one completed and one lease-failed stage
stays running, while `core/scheduler.py:1312-1313` has it failed as soon as all of its
stages have ended.

The following were met while modelling. The first six are stated in the modules as
properties that no run checks, because TLC refutes them; they are kept as the
precise form of what the words say.

* **Grace period** (`GraceRespected`). A long-run stage of a silent node should be
  failed only after `node_offline_grace_seconds` (docstring,
  `core/scheduler.py:1176-1177`), but leaving the live statuses is enough for rule 3
  (`core/scheduler.py:1258`): the grace period is shortened to what the offline
  watchdog takes.
* **Recovery** (`RecoveryIsGranted`). The docstring of `auth_refresh`
  (`api/v2/auth.py:153-158`) grants recovery when the bearer is omitted or invalid;
  the code (173-180) refuses a request whose bearer does not resolve, also when its
  secret is right.
* **Two runtime tokens** (`OneRuntimeToken`). A refresh invalidates all runtime tokens of
  the node "so that only one runtime token is valid at any time" (docstring of
  `refresh_token`, `core/auth.py:526-527`). A node
  that was approved goes offline, heartbeats with the status `pending`, which
  `core/status.py:53` allows, and is approved again: `approve_node`
  (`core/auth.py:431-433`) deletes its temporary tokens only and a second runtime
  token is created beside the first. In the same way a pending node that
  heartbeats `approved` is live with a temporary token, and the one that became
  pending again has a runtime token: kinds of tokens do not follow the status.
  What holds is `TokensAreReplaced`.
* **Total on disk** (`TotalIsSumOnDisk`). `total_bytes` "is the sum of the CURRENT
  on-disk slot sizes" (docstring of `store_chunk`, `core/chunked_upload.py:113`). When
  a chunk is sent again and `write_bytes` (line 150) fails half-way, the slot is
  truncated while `received`, `total_bytes` and `chunk_sizes` describe the chunk
  that was there. `complete_upload` counts the received chunks only, so without a
  checksum the artifact contains the torn slot. What holds is `SessionsMatchDisk`
  and `ArtifactIsWholeUpload`, which except such slots.
* **Cleared routes** (`OnlyOfflineAreCleared`). The comment T-075
  (`core/discovery.py:797`) clears the routes of offline nodes; the second
  transaction does not look at the status again, so a node that has come
  back in between loses the routes it just declared, until its next heartbeat.
* **Lost indexes** (`ServesEveryIndex`, `KnownGaps`). m013 and m015 create a table and
  then its index behind one guard that looks for the table. A crash between the two
  statements makes the table durable, and the next start records the migration as
  applied without the index. `ServesFullSchema` excepts these two, and
  `RestorationAssumption` says that there are no others.
* The orphan watchdog repeats only the status of a stage in its UPDATE
  (`core/scheduler.py:1099`), so a provider that comes back within the sweep does not
  count.
* The backfill of m001 (`core/db.py:748`, `WHERE status IS NULL`) matches no row: the
  column was added with a default in the same migration.
* "A value slot has no mapping by definition" (`core/forward.py:615`, 701) is not
  so: a re-declaration may turn a mapped slot into a value slot. The gate at submit
  comes before the lookup, so nothing is routed (`StaleMappingsAreSafe`).
* An empty schema lets every binding pass `check_binding_schema`, unlike the
  comment at `core/forward.py:1298`.
* A route list whose INSERT meets the key of a bridge, or names a key twice, rolls
  the whole sync back, and every heartbeat repeats that until the row is gone. The
  regular heartbeat drops an empty route list. An upstream without a leading slash
  may be stored and never resolves.
* A node deleted between the offline pass's query for candidates and its query for
  their status ends the pass with an exception; so does a pass of which every
  candidate heartbeated in the window (`core/discovery.py:827`, a name that was never
  bound). No table is affected.
* `node_offline` may be published after the `node_online` of the same node's return.

`LagIsReportedOnce` in `EventBus` (a laggard sets off one report) is proved; it is
close to the one comparison it is about, so no run spends its time on it.

## 7. Proofs

TLAPS checks every theorem for every value of the constants, from these
assumptions and no others: `NoNode` is not a node, a stage belongs to one task
at one position, requests are well typed, the retry limit is a natural number
(`NoNodeAssumption`, `ShapeAssumption`, `SeqAssumption`, `RequestAssumption`,
`RetryAssumption`); an upload is not the plain-upload marker, stored files are not
empty, sizes and limits are natural numbers (`DirectAssumption`, `FileAssumption`,
`ChunkAssumption`, `LimitAssumption`), and what a torn write leaves is no chunk
(`TornAssumption`); queues and the history hold at least one
event and the report is not a published type (`SizeAssumption`, `FilterAssumption`); `None` is neither an id nor an answer (`NoneAssumption`);
submitters are nodes (`SubmittersAreNodes`). Others give the data of the code its
shape: declarations and lists of rules are lists (`DeclarationsAreLists`,
`BindingsAreLists`), the texts of constants can be told from those of fields
(`TextsAreApart`), configurations are what the form admits (`ConfigAssumption`),
migrations and the baseline are lists of well-formed statements
(`HistoryAssumption`, `ParametersAssumption`). Two say more. `ThreadAssumption` of
`EventBus` has finitely many threads, because `HistoryIsRecent` counts them; no
other set is assumed finite. `RestorationAssumption` of `SchemaMigration` is about
the history: every object outside `KnownGaps` is added by a statement whose guard,
if any, looks for that object. TLC evaluates all of them in the runs, this one on the code's
18 migrations, where a migration written against the rule would fail it.

| Module | Theorems | Argument |
|---|---|---|
| `TaskSchedulerProofs` | `TypeInvariant`; `InductiveInvariant`, `RetryBudget`, `Finality`, `LongRunsAreKept`, `LiveClaimsAreKept`, `HeldWorkKept`; `StrongInvariant`, `ReferencesHold`, `ClaimsSound`, `DependenciesHold`, `TaskStatusIsTrue`, `NobodyOvertakes`, `SchedulerIsWorkQueue` | see below |
| `EventBusProofs` | `BusKeepsItsInvariant`, `TypesHold`, `HistoryStaysRecent`, `LossIsAlwaysReported`, `LagReportedOnce` | see below |
| `ChunkedUploadSafety` | `InductiveInvariant`, `RowsGoLast`, `YoungFilesStay`, `WholeUploads`, `YoungUploadsStay`, `SessionsMatch` | see below |
| `CredentialsProofs` | `TypeCorrect`, `TokensReplaced`, `SecretsStayReachable` | see below |
| `ForwardProofs` | `ReferencesResolve`, `NothingDangles`, `StaleMappingsSafe`, `SentFieldsStay`, `BindingsMoveValues` | `ForwardInv`: the shape of the tables with the two invariants, since a pin a stage copies is live because its mapping's is; the other two see below |
| `NodeRoutesProofs` | `BridgesKept`, `SilentNodesMarked`, `OneDeclaration` | `Tables`: the shape of the rows, and that a pending heartbeat belongs to a node; `SyncedRows` says what a sync leaves; `Declarations`, see below |
| `SchemaMigrationProofs` | `TypeCorrect`, `LedgerTruthful`, `FullSchemaServed`, `GrantsStay` | see below |

*Retries, finality and held work.* `RetryAccounting` is not inductive: the
write of the claim-TTL sweep uses a retry counter it read earlier. `Inductive`
adds types, `StagesAreCreated` (a stage without a row is untouched) and
`SweepsReadClaims`: what a pending sweep read of a stage is what the row holds as
long as `claims` has not moved, which is what the repeated `claimed_at`
predicate is for. `StageMove` lists all that a step can do to a stage;
each action makes such moves (`NextMoves`), and the action properties follow from
the list.

*References, dependencies, claims.* `Strong` adds `References`, `DepsRespected`,
`CountFromZero` and `LoopIsCurrent` (the node of a pending request exists).
`Truthful` is `TaskFollowsStages` with `StagesComeTogether`. `NobodyOvertakes`
carries the past: `Ordered` is `Strong` with `Truthful`, `SnapshotIsComplete` and
`NoQueueJumping` itself. A claim takes the first of the rows its read selected, so
the argument is that an earlier stage which was pending and free at that moment is among them
(`SnapshotIsComplete`), that sweeps between the read and the write only take rows
away, by failing them, and that a stage is pending again only after it was handed
out. `earlier` is a strict order (`EarlierIsOrder`), which the lexicographic order
of the candidates needs. The refinement
maps every step to one of `WorkQueue` or a stutter; it relies on
`NoDanglingReference`, without which the branch of `claim_stage` for a
missing owner would be a step the abstract queue does not have.

*The bus.* `HistoryInv` is the argument for a history that threads append to,
compare and pop without a lock: each thread that has yet to compare, or has
decided to pop, accounts for one event, which bounds the excess and shows that
nobody pops an empty list. `SentInv` has that no event goes to a subscriber
twice, from what a thread in each step still owes whom (`Owes`). `LossInv` states
`LossIsReported` by positions: what a stream has yielded, holds and has queued is
the sent sequence without as many events as were counted, in order, and no event
is further back than the losses counted by then explain (`Follows`). That last
part is what each drop from the front of a queue, and each count read with an
event, has to preserve.

*Storage.* `Inductive` relates what a pending delete or cleanup has read to the
rows: ids are spent, sessions have their chunks, the loop and the sweep know what
they read (`Structure`, `IdsAreSpent`, `SessionsHaveChunks`, `LoopKnows`,
`SweepKnows`). `UploadInv` adds that tables match (`UploadTables`), that whatever
exists of an upload stems from an `init` (`OriginsAreBegun`), that a session the
loop completes has been given to nothing else and was complete when it was read,
so that the file whose row is about to be inserted is whole (`LoopIsFirst`, `Whole`;
a file whose writing failed never gets a row), and that a prune
acts on uploads that were already an hour old (`PrunesLapsed`): the age of an
upload never decreases below that. `SessionInv` adds what `SessionsMatchDisk` needs
across the two steps of `store_chunk`: the new total was computed from a session
that has not changed since (`LoopCounts`), which holds because only the loop
changes sizes and the prune only removes whole sessions, and no prune is at work
on a session that is still known (`Intact`); a write that fails leaves the books
and makes the slot `Torn`, which `Intact` excepts. That the total kept by differences is
the sum over the slots is induction over the chunks.

*Credentials.* `TokensReplaced` needs to know that the handler which is about to
create a token has just deleted the others, and that no other request ran in
between (`HandlerReady` in `TokensInv`). `SecretIsReachable` needs four more: tokens
are the node's own (`TokensAreOwn`), at most one exchange of a node is under way
(`OneExchange`), what the handler carries is what is in the row (`Carried`), and the
answer in the inbox is the newest (`InboxIsNewest`).

*Redirects.* `SentFieldsStay` and `BindingsMoveValues` are about every list of rules.
Both go by induction over the rules that have been applied: a field that none of
them touches still holds what was sent; and no text that was once a field stands
twice (`Tidy`, `Once`), because what a rule writes comes from the fields it
removes. Both clauses of the form check are used: no field is the target of two
rules, and none is named twice among the sources of one (`Disjoint`).

*Routes.* `Declarations` carries one fact through the three steps of a heartbeat:
the list that was read came from one whole configuration of the node, so what the
sync stores does. Every other step removes permanent rows or touches bridges only
(`FewerRows`).

*Schema.* `IInv` says, besides types, that the ledger has no gap (`NoGap`), that a
version in the ledger has its objects in what the start reads (`Complete`), and
that the statements before the current one have had their effect (`Progress`). The
theorem is about any history of statements that satisfies the assumptions, not
only the code's. `FullInv` then says what of the baseline a start has restored by
its position; a start that serves has passed every statement or found its version
in the ledger, whose truthfulness gives the rest.

*Induction over data.* The theorems of the library take a predicate as parameter,
which the provers cannot instantiate. `SetInduction` states induction for a set
instead: one that has 0 and every successor has all numbers, which follows from
the well-foundedness of `<`. With it `DataLemmas` proves what `Sublist` returns, and
the proofs above what the recursive functions over chunks and rules return.

**Only model-checked.** The ten liveness properties: `ClaimsEnd`,
`AbandonedLongRunFails`, `UncoveredStagesFail`, `SilentNodesGoOffline`, `StreamsDrain`,
`StagingIsReaped`, `ExpiredArtifactsGo`, `NodesRegainAccess`, `RoutesCatchUp` and
`StartsUp`; fairness and ENABLED are out of the prover's reach. Every invariant and
every action property of the passing runs is a theorem. No module that is proved
about has a RECURSIVE operator.

## 8. Not modelled

* In modelled components: the idempotency key of `create_task`, payloads and results,
  the artifact wrappers at the end of the scheduler, load counters (their outcome is
  a choice), the asynchronous `publish`, which no handler calls, keepalives,
  downloads and ownership checks of artifacts, `cleanup_orphaned_artifacts`, which no
  maintenance task runs, settings overrides, the audit log, the static registry of
  `node_registry.py`, the streaming of proxied requests, URL parsing and name
  resolution, the interval bookkeeping and the readiness flag of maintenance.
* User accounts, password hashing and cookies: single-statement writes and
  cryptography; no order of steps to get wrong.
* The cluster API: reads over modelled tables and one upsert for presence.
* Dashboard, metrics, request models, configuration, CLI, logging, mDNS, the smoke
  test: rendering, validation without state, input and output.
* The PostgreSQL adapter. The models are of SQLite with one writer at a time; row
  locks would split every write action, and DDL would be transactional.
* The composition of `EventBus` with `TaskScheduler`: publishing before a commit
  concerns both, and their product is far out of TLC's reach.

## 9. Plan

The modules were written in the order of what matters to the system: scheduler
with its watchdogs, event bus, storage, credentials, forward, routes, schema;
each with its runs first and its proofs afterwards. All of them are done as
described above. What is left, by worth:

1. a coarse scheduler (tasks and commits only) composed with a coarse bus, for the
   order of events and commits;
2. the safety steps of the liveness arguments (what a sweep's turn does to the rows
   it selects, for every instance), which need no fairness;
3. PostgreSQL's locking as a second instance of the read and write actions;
4. user accounts, for the checks between a request and the roles at that moment.
