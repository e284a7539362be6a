# Verification of Elara

Elara is a config store in one Go binary: an etcd v3 gRPC API and a
ConnectRPC/Web API over one bbolt file, with watches, webhooks, role-based
access, sessions and tokens, and a monitor of connected clients. This directory
holds TLA+ models of it, the TLC runs that check them, and TLAPS proofs.

## The system and its models

Paths are under `src/internal` unless they start with `src`.

| Part | Code | Model |
|---|---|---|
| Config and namespace repositories | `storage/bbolt/config`, `storage/bbolt/namespace` | `ConfigRepo`, reads in `ConfigReads` and `EtcdKV` |
| Write use cases, transactions | `usecase/config`, `usecase/namespace`, `src/pkg/bbolt` | `ConfigStore`; whole requests in `ConfigApi` |
| What the store promises | | `VersionedMap` |
| Notifications, publisher, etcd watch server | `usecase/config/kv_events.go`, `transport/watch`, `handler/etcdv3/watch_server.go` | `WatchPipeline`; several streams of a connection in `WatchStreams` |
| etcd KV server, Txn, key encoding | `handler/etcdv3` | `EtcdKeys`, `EtcdWire`, `EtcdKV` |
| Web reads, dashboard | `handler/v2/{config,namespace,dashboard}`, `usecase/dashboard` | `WebReads`, `ConfigReads` |
| Schemas | `usecase/schema`, `service/schemavalidator`, `storage/bbolt/schema` | `Schemas` |
| Import and export | `usecase/transfer`, `util/archive` | `Transfer` |
| Policy: Casbin, PDP, PAP, scopes | `service/auth/casbin`, `service/authz`, `storage/bbolt/policy`, `usecase/filter` | `Policy` |
| Users and groups | `usecase/user`, `usecase/group`, their repositories and handlers | `UserRepo`, `GroupRepo`, `Access`, composed in `Rbac` |
| Seeding at start | `service/auth/bootstrap.go`, `service/auth/users.go` | `Bootstrap` |
| Logins, sessions, tokens | `usecase/auth`, `usecase/token`, `service/auth/sessions`, their repositories and handlers | `SessionRepo`, `TokenRepo`, composed in `Accounts` |
| Webhooks | `transport/webhook`, `usecase/webhook`, `util/ringbuffer` | `Webhooks` |
| Client monitor | `service/monitor`, `storage/bbolt/client_history`, `transport/grpc`, `usecase/clients` | `Monitor` |
| Start, signal, shutdown | `src/cmd/service/main.go`, `di/service` | `Background` composes `Webhooks`, `Monitor`, `WatchStreams` |

A request on either API becomes a use case. The use case opens a bbolt write
transaction (one writer at a time), calls repositories, collects
notifications, commits, and then publishes them. The publisher hands them to
subscriptions: etcd watchers, UI streams and the webhook dispatcher. A call
outside a transaction is a transaction of its own and gets an empty cursor.

## How the models are written

Repositories, services and pure algorithms are operators on a database (a
record with one field per bucket). For a call `X`, `canX` says that no error
return is taken and `X` is the result; `XRequest` is the handler in front of
it. State machines are built from these operators, with **one step for each
transaction or lock-protected section**: whatever the code reads in one and uses
in another may be stale in the model too. Operators named `X_fault` are faulty
variants that show a property can fail. Constants and variables are explained in
each module.

- **`ConfigStore`**: a use case with one repository write is a step; a KV
  transaction is a sequence of steps on `staged` ended by `TxnCommit`,
  `TxnRollback` (operation error, panic, failed commit) or `Crash`. It has the
  writes only, so that proofs can be about all of them.
- **`ConfigApi`**: two requests at a time out of 25. The checks of the handler and of
  the use case that precede the transaction (namespace, schema, version) are
  steps before the write; an import is a read and a write per config. Its action
  properties also evaluate all reads on every database that is reached.
- **`WatchPipeline`**: writers that operate, commit or roll back, and publish
  after the commit; one watcher that is created, subscribes, replays the
  changelog in batches, forwards live events and is cancelled. The replay looks
  up each value; a lookup that fails is only logged, and the event goes out with
  an empty value (`replayEntry`, `watch_server.go:491`).
- **`Rbac`**: a request passes its handler, runs in one transaction, and then
  replays its changes on the enforcer's cache one by one, with the lock free.
  While others replay, a use case reads the cache at two instants: `Read` keeps
  what its first reads saw, and its last checks see that or the cache at the
  commit. A replay that fails reads the policy from disk and replaces the cache
  with it, in two steps (`ApplyFails`, `Reload`). A restart seeds again and
  reloads the cache.
- **`Accounts`**: a web request validates its session, refreshes it (a read and,
  later, a write), and runs its use case; a login checks the password before its
  transaction; token calls run in no transaction, so each bucket operation is a
  step, and so does the log of a refresh, whose index by session and index by user
  are two steps. A crash ends all requests.
- **`Background`**: goroutines of the dispatcher, history writer, registry and UI
  streams, from start through signal and ordered shutdown to restart. A delivery
  finds its history buffer and pushes into it in two steps, between which the
  history may be cleared; a call is tagged when it starts and counted when it
  ends.

`ConfigRepo`'s `asOf`, `Rbac`'s and `Accounts`'s `aux`, `ConfigApi`'s `origin`,
`WatchPipeline`'s `blank`, `Monitor`'s `lost` and `overlapped`, and `Webhooks`'s
`ended` and the revision of its attempts are auxiliary: they record what happened
for the properties, and no action depends on them but for bounds and fresh ids.

## Runs

| Run | Bounds | What it shows |
|---|---|---|
| `config_history` | 3 keys in 2 namespaces, 2 contents, 3 revisions, 3 lock events | agreement of buckets, versions, point-in-time reads, the audit trail, immutable past, frozen configs, writes stopped by a namespace lock, refinement of `VersionedMap`, the inductive invariant |
| `watch_order` | 2 keys, 2 writers, 3 revisions, channel 1, batch 1, two tokens | committed events only (with empty values where a lookup failed), revisions in order, losses explained, events in the token's scope |
| `watch_delivery` | 2 writers, 2 revisions, 1 lock request, transactions of 2, batch 2 | `EventuallySent` under fairness |
| `config_api` | 4 keys, 3 contents, 3 requests of 25, 2 at a time, 2 callers and a token | no lost update, true import reports, stored contents as checked; on every database: exact ranges, right responses, bundles that predict and restore, views that agree |
| `rbac` | 4 users, 3 groups, 2 commits, 2 requests in flight, 1 failed replay or restart, 3 modes | cache and disk agree, the superadmin group is closed and keeps a member, scans and lists agree with single answers, no escalation, stale edits refused |
| `accounts` | 3 users, 3 requests, 2 at a time, 4 sessions, 2 tokens, time 4..5, 1 crash, 2 modes | revocations hold, audit trail, no session on old credentials, sliding expiry, indexes, complete token lists |
| `background` | budgets of up to 2 webhook stimuli, 5 client stimuli, 6 watch stimuli, 1 signal and restart; buffers and slots of 1 | true delivery histories, every disconnect accounted, watches tracked; every event handled and streams catch up, under fairness |
| `namespace_lock`, `deleted_read`, `watch_resume`, `watch_range`, `client_history` | as the runs above | the disagreements 1 to 5 below |

Why the bounds are enough: three revisions and three lock events allow create,
update or lock, delete and re-create of one key beside another key, and the
config properties are also proved for all bounds. Channels, batches, slots and
ring buffers of one or a few entries make full queues, batch boundaries and
evictions happen at once. Two writers, requests or streams give every order of
two; three requests add what the races leave behind, such as a refresh around a
revocation around a login. A hazard that takes two overlapping requests and a
restart is within `rbac`'s bounds; so are a grant handed over before it is
replayed, and a new group that inherits rules. (With three commits, and without
`ScansAgree` and `ListShowsWhatGetShows`, TLC finds no error in 2.9 million
states; this takes too long to be a run.) Sessions that began at 0 and 1, with
a TTL of 4, a cap of 7 and a least extension of 2, expire at times 4 and 5, slide,
meet their cap, or have slid too recently to slide again. The budgets of
`background` are chosen at the start, one combination per group of components that
interact, since dispatcher and monitor share only the phase.

All runs but `config_history` and the two violations on `MCConfigStore` switch
deadlock checking off: with the bound on requests reached, the system stops.
Symmetry is used only where no liveness property is checked.

### Where code and documentation disagree

Each of the first five is a run that TLC refutes.

1. **Namespace lock.** A range delete checks only the lock of the namespace it
   starts in (`storage/bbolt/config/etcd.go:427`);
   `docs/concepts/namespaces-configs.md:21` says every write is rejected.
   `NamespaceLockStopsWrites` is the part that does hold.
2. **Reads of deleted configs.** Deletes leave no history entry, so a read at a
   later revision returns the old value (`etcd.go:183`). `PointInTime` is the
   part that does hold.
3. **Resumed watches.** Events are published outside the write lock; when a
   higher revision comes first the lower one is dropped as a duplicate
   (`watch_server.go:407`); `docs/concepts/watch-revisions.md:25` says no write
   is missed. `LossIsExplained` names the only three ways a live watcher loses
   an event it is owed: a full channel, a later event published first, and a range
   delete whose keys share one revision.
4. **Open ranges.** A watch from a key on receives earlier keys too
   (`watch_server.go:535`); `docs/concepts/watch-revisions.md:32` says only
   requested keys are received.
5. **Client history.** The history store and the clients use case use cursors
   outside a transaction (`service/monitor/history.go:122`, `:194`, `:214`,
   `usecase/clients/service_list.go:47`, `:84`), where a cursor is empty: the
   History view shows nobody and retention deletes nothing, against
   `docs/concepts/clients-observability.md:34` and
   `docs/deployment/configuration.md:100`.

Others are exceptions that a passing property names, so that everything beyond
them is checked:

- `RevocationHolds`, `CredentialsCurrent`: a refresh that read a session before its
  revocation revives it (`service_refresh.go:17` calls a re-check after that read
  the defence); a login in flight outlives a reset or a deactivation, and so does
  the session of a password change whose request was let in before.
- `EventsAreCommitted`: a replay that cannot read a value sends the write with an
  empty one, which nobody committed.
- `TokenRevocationHolds`, `IndexesAgree`: the stamp of a last use brings a
  revoked token back; a crash between two token writes leaves a token that cannot be
  found by its id. `storage/bbolt/token/repository.go:10` says that
  UpdateLastUsed "wraps its own WithTx"; it does not, and no caller opens a
  transaction.
- `CacheFollowsDisk`: two administrators' changes of one name may reach the cache
  in the opposite order and stay apart until a restart; permissions of a
  deleted group stay on disk, return at a restart and reach the members of a new
  group of that name. A change committed while a failed replay reloads the cache
  may be lost from it.
- `NoEscalation`: what a commit writes to disk is compared with what its actor
  held when it was checked. The checks read the cache, which the replay reaches
  after the lock is free (`enforcer.go:150`): an actor who adds a member to a group
  between another's grant and its replay hands on a permission they do not
  hold. The same goes for rules a deleted group left on disk, and managers of a
  new group get write access to it. `docs/auth/rbac-groups.md:66` says "you cannot
  grant a group (or its members) any permission you do not yourself already hold"
  and knows none of these exceptions.
- `AdminRemains`: two overlapping deletions, or a deletion that overlaps a reload,
  may pass the last-admin guard, which reads the cache.
- `StaleEditsRefused`: a membership changed from the user's side does not move
  the group's counter, and the reverse.
- `ListShowsWhatGetShows`: a caller with a wildcard Group:Read lists users that Get
  refuses (`usecase/user/service_list.go:32`).
- `NoLostUpdate`: versions start over after delete and re-create.
- `StoredAsChecked`: copy and import are not validated, and a schema may change
  between the check and the write.
- `RangesExact`, `KVResponses`: wire order and bucket order differ for namespaces
  like `a` and `a-b`; `more` may refer to a key beyond the range.
- `BundlesPredictAndRestore`: the archive with one file per namespace restores
  only the first; a file of all namespaces with a target imports nothing, while
  `transfer_service.proto:42` says it is rejected. A dry run does not foresee that
  the second of two equal configs in a bundle will find the first.
- `SnapshotsAccounted`: a snapshot may be lost to a full channel, a history that has
  shut down or a store that is closed. Eviction is a named reason too, but as the
  code stands it never happens (disagreement 5), so nothing is claimed of how many
  are kept, which `history.go:38` and `docs/concepts/clients-observability.md:38` do.
- `AuditTrail`: a refresh logged while the process stops may be missing from the
  log of its user.
- `ViewsAgree`: configs put through etcd, or by a Create racing the namespace's
  deletion, into a namespace that does not exist are in no count.
- `WatchesTracked`: the counter of watches may be older than the list; watches of
  two streams of one connection overwrite each other (`registry.go:271` asks for
  ids unique per connection). `clients.proto:25` says `active_watches` equals
  `len(active_watch_list)`, without these exceptions.

One page is behind the code: `docs/reference/etcd-compatibility.md:31` says a Txn is
"not guaranteed all-or-nothing under concurrent writes". A Txn that writes runs in
one transaction (`usecase/config/service_txn.go:155`); `ConfigStore` stages and
commits it as a whole, and `KVResponses` says that one that fails leaves nothing.
The reads of a Txn that only reads are not one snapshot (`service_txn.go:136`);
`ConfigApi` takes them at one instant, and no property relates them.

### Fairness

`WatchPipeline` assumes weak fairness of the end of an open transaction
(commit or rollback), of publication, and of the watcher's goroutine
(subscribe, replay, forward). `Background` assumes weak fairness of the
dispatcher's goroutines taken together, of the monitor's (history writer, ends of
connections), and of each UI stream. None of these waits for another party in the
code, except for a client's stream, which is assumed to accept messages, and for a
webhook endpoint, which answers or meets the HTTP timeout; tickers tick. Nothing
is assumed of new writes or requests, of creating or cancelling a watch, of
connecting or disconnecting, of the end of a call, of failures, signals or restarts. The other modules
have no liveness property: their requests run straight through.


## Proofs

TLAPS proves two groups of theorems, each for every value of the constants.

**The config store** (`ConfigStoreProofs`): for every set of keys, contents
and descriptions and every bound, `Spec` implies `[]IInv`, `[]TypeOK`,
`[]BucketsAgree`, `[]Versions`, `[]PointInTime`, `[]LockAudit`, the action
properties `PastImmutable`, `LockedConfigFrozen` and
`NamespaceLockStopsWrites`, and `ImplementsVersionedMap`.

Assumptions: `KeysAssumption` (keys are pairs of naturals with a positive
path), `AbsentAssumption` (a missing value is not a content),
`BoundsAssumption`. TLC evaluates them in the runs.

The properties are not inductive by themselves. `IInv` adds:
- `PastEndsNow`: history ends at the current revision, and a live config has
  had its present content since its last write. Without it a new write could
  meet a stray history entry above the counter.
- `Evolves(db, staged)`: the open transaction has only appended writes to the
  committed database. Without it nothing is known of what a commit does in one
  step; with it, a commit maps to one `Commit` of `VersionedMap`.
- both `db` and `staged` satisfy every database predicate.

The argument: `MaxTheorems` gives facts about the maximum of a finite set of
naturals; `ConfigRepoProofs` proves that writing and removing preserve
`DBInv`; `ConfigOpsProofs` does this for each repository call, locks and
namespaces included; `StepLemma` has one step per action; the theorems
combine it with temporal logic.

**The watch pipeline** (`WatchPipelineProofs`): for any number of writers, any
watch requests, channel capacity and batch size, `Spec` implies `[]TypeOK`,
`[]EventsAreCommitted`, `[]RevisionsInOrder` and `[]WatchInScope`, also when
lookups of the replay fail. The further
assumption is `PipelineAssumption` (ranges over keys, positive capacities, at
least one description). The inductive invariant has two halves:
- `StoreInv`: both databases satisfy what `ConfigRepoProofs` proves of them,
  deletes in the changelog are deletes of their key (`DeletesLogged`), one writer
  holds the lock, and every collected event is true of the database its writer
  sees: the open transaction's until the commit, the committed one afterwards.
  This is what makes events collected before a commit safe.
- `WatchInv`: channel and sent messages are true of the committed database, or,
  of the revisions in `blank`, tell of a committed write without its value;
  while the replay runs, `lastSent <= since` and every revision of the batch lies
  between them, in increasing order. Without this the seam between replay
  and live delivery could repeat a revision.

An event, once true, stays true since databases only grow (`HappenedStays`). The
lemmas on the repository calls are those of the config store. `SortExists`
gives the existence of the sorted listings the replay and a range delete use.

## Only model-checked

- Liveness under fairness (`EventuallySent`, `EventuallyHandled`, `StreamsCatchUp`):
  out of the prover's reach.
- `LossIsExplained`, and everything about `Rbac`, `Accounts`, `Background`.
- `ConfigApi`: its modules use recursive operators (nested transactions, byte
  strings), about which TLAPS cannot reason. What a recursive definition computes
  is checked on bounded inputs instead.

## What is left out

Of the modelled parts: Range reads its header's revision in a second transaction
and a read-only Txn reads without a snapshot; export of all namespaces, statistics
and the page of namespaces read each namespace in a transaction of its own. The
models take one snapshot for each of these. Imports publish no events in the code
and none in the model. Progress notifications, fragments, `PrevKv` and filters of
watch requests, `UpdateTimestamp` (a display timestamp), and the paged listings
`ListConfigPage` and `ListSummaryPage` are left out. Times of configs, hashes,
formats and metadata are abstracted.

Not modelled: dependency injection and configuration loading, the UI and its
static files, the command line, generated protobuf code, telemetry, logging and
metrics (no state of the system); the OIDC code exchange, password hashing and
the evaluation of JSON schemas (libraries or outside parties: their answers are
inputs of the models); demo seeding; the etcd cluster and maintenance
services, whose answers are constants and the current revision. Other etcd
services are not registered.
