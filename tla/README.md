# Formal models of the banner service

TLA+ models of the banner service in `src/` (a Go HTTP service backed by
Postgres, Redis and RabbitMQ). They are checked with TLC, and some theorems are
proved with TLAPS.

## The system and its parts

| Part | Code | Modelled by |
|---|---|---|
| Banner repository: three tables `banners`, `banner_mappings` and `banners_history`; one transaction per method | `internal/repo/banner.go`, `models/unixtime.go` | `BannerStore`, `BannerStoreProofs`; its promise `BannerCatalog`, refined in `BannerStoreRefinement` |
| Asynchronous delete: `BannerService.DeleteBanner` checks existence and publishes a `DeleteBannerTask`. `BannerQueue`/`RabbitMQQueue` carry it. `DeleteBannerWorker` goroutines consume it and call the repository's `DeleteBanner`, retrying and re-publishing on failure | `services/banner/banner.go`, `deleteworker.go`, `queue.go`, `storage/rabbitmq/rabbitmq.go` | `DeletePipeline`, `DeletePipelineProofs` |
| Read path: `GetBannerForUser.Handle`, `BannerService.GetBanner` with the Redis-backed `BannerCache` | `transport/banner.go:38-104`, `services/banner/banner.go:82-104`, `cache.go`, `storage/redis/redis.go` | `BannerRead` |
| Management API: `CreateBanner`, `UpdateBanner`, `DeleteBanner` and `RestoreVersion` handlers, `AuthService.ValidateToken`, composed with the repository | `transport/banner.go:201-380`, `transport/versions.go:91-139`, `services/auth/auth.go`, `services/banner/banner.go:110-140` | `BannerAPI` |
| Read-only listings, JSON decoding, config, logging, wiring | `transport/` (list handlers), `nullable/`, `config/`, `logger/`, `app/` | not modelled (see below) |

How the parts interact:
- Two parts of the code run concurrently. In the delete pipeline, HTTP request
  handlers, a pool of worker goroutines (`DeleteWorkersNum` of them, sharing one
  `DeleteBannerWorker`) and the broker interleave. On the read path, every
  store read of `GetBanner` starts a fire-and-forget `Cache.Push` goroutine
  that runs at any later time, interleaved with other requests and with
  management writes (`BannerRead`).
- The store's transactions are the shared state. `GetBannerByID` (used by
  `DeleteBanner`'s existence check) joins `banners` with `banner_mappings`, so
  it finds a banner only when it has a mapping row. `MappingsConsistent`, checked
  on `BannerStore`, is what makes "has a row" and "is found" the same thing. That
  is why `DeletePipeline` models the check as `id \in banners`.
- The management handlers call the repository's transactions directly.
  `BannerAPI` composes them: it instantiates `BannerStore` with its own
  variables, so each handler step is a `BannerStore` action plus the response.

## Modules

### `DeletePipeline` (with `MC_DeletePipeline`)

State:
- `banners` and `nextId`: the banner rows and the id sequence.
- `client[c]`: a request handler between `GetBannerByID` and `Publish`.
- `queue`: the broker queue, a sequence of task ids. Gob round-trips the
  int64, so a message is the id it carries.
- `buf[w]`: what worker `w`'s current consumer has received.
- `stale`: an abandoned consumer exists.
- `wpc[w]`, `task[w]`, `retries[w]`: the worker's place in `Run` /
  `retryDeleteBanner` and its locals.
- `stopped`: `workerStopCh` is closed.
- `faults` and `published`: bounded counters of store faults and broker
  publishes.
- Auxiliary: `requested`, `accepted`, `attempts`.

Actions, each translating one piece of the code:
- `CreateBanner`: the id sequence in `insertBanner`.
- `CheckExists`, then `PublishTask`: the two halves of
  `BannerService.DeleteBanner`. A publish may fail, and the handler then returns
  500.
- `DeliverToWorker` and `DeliverToStale`: the broker dispatching to a live or an
  abandoned consumer.
- `RunLoop`: the `select` at the top of `Run`, then `Consume` registering a new
  consumer.
- `Receive`: `<-messages`. The consumer stays registered, so `stale` becomes
  TRUE and the rest of its buffer is lost.
- `FirstDelete`: `deleteBanner`. `DeleteOk`/`DeleteFails` are the outcomes of
  the repository's `DeleteBanner`: it commits, returns `ErrNotFound`, or hits a
  transient SQL fault.
- `RetryDelete`: one iteration of the `retryDeleteBanner` loop: delete,
  `retries++`, re-publish, and return on a publish error.
- `GiveUp`: the loop exits at `maxRetries`.
- `Shutdown`: closes the stop channel.

### `BannerRead` (with `MC_BannerRead`)

State:
- `db[k]`: the row `BannerRepository.GetBanner` sees under a (tag, feature)
  key `k`. The unique index makes it at most one.
- `cache`: Redis, as a function over the keys present. `fmt.Sprintf("%d_%d")`
  is injective, so a key is the pair itself. Gob round-trips a `Banner`, so an
  entry is the banner.
- `rd[r]`: handler `r`'s place in `Handle`/`GetBanner`, the role and
  `onlyActive` it chose, and its response.
- `pushes`: the `go Cache.Push(...)` goroutines not yet run. A set is enough:
  a push always writes the same value, so two identical ones reach no state
  that one does not.

Actions:
- `Request`: the early returns of `Handle`, in the code's order
  (`Rejection`): malformed query parameters are 400, a token
  `ValidateToken` rejects is 401, and a non-admin asking for
  `use_last_revision` gets 403. A request past them reads, and a user reads
  with `onlyActive`. A
  `user_type` that is neither `admin` nor `user` (`ValidateToken` accepts any
  string) reads without `onlyActive`, as in the code. With it, readers of
  that role can get inactive banners, contrary to spec section 6, which
  knows only admin and everyone else. This is listed as a hazard that no run
  checks: `NoInactiveToUser` states the guarantee the code makes, for the user
  role, and TLC finds a reader of the other role receiving an inactive banner
  as soon as the property names every non-admin.
- `CacheGet`: `Cache.Get`. Any error, not only `redis.Nil`, falls through to
  the store.
- `StoreGet`: the store query (`Found`, `StoreBanner`). It answers found, 404
  or 500, and on success starts a push. The banner it returns carries
  `FeatureID` 0 and no `TagIds`, exactly as the query selects it.
- `RunPush`: one `Set` per tag. A failing `Set` ends the loop, so only part of
  the keys are written.
- `Write`: management writes. They go to the store with no cache involvement.

### `BannerStore` (with `MC_BannerStore`)

State:
- `rows` and `content`: the `banners` table.
- `mappings`: a set of records `[banner, tag, feature, active]`.
- `history`: records `[banner, content, at, row]`.
- `nextId`, `nextRow` and `clock`.
- `req`: the last request and its outcome, used by the action properties.

Each repository method is one atomic action. Each runs in a transaction with a
deferred `Rollback`, so on an error none of its statements survives:
- `CreateBanner`
- `UpdateBanner`: its outcome (`UpdateOutcome`) follows the order of the code's
  early returns. For a banner that does not exist, the first `INSERT` of a
  new mapping fails. Postgres checks the unique index as the row is inserted
  and the foreign key at the end of the statement, so a clash of that first
  tag is a Conflict and anything else is a plain SQL failure. Tags are a set
  in the model, and the tag inserted first is any of them (`FirstTags`). It
  uses `Resolutions` (the `LIMIT 1` read of the missing
  feature/activity, falling back to Go's zero values when there is no row) and
  `MappingsAfter` (delete-and-insert when tags are given, an in-place `UPDATE`
  otherwise).
- `DeleteBanner`
- `RestoreVersion`: deletes every matching history row and restores the first.
  It does not check whether the banner exists.

The schema is not in the repository. The model assumes the one the code and its
tests rely on:
- a unique index on `(tag_id, feature_id)`;
- a foreign key from `banner_mappings.banner_id`;
- no constraint on history.

Further abstractions:
- Tag lists are sets. Duplicate tags in one request are not modelled.
- Feature ids are positive. This makes the fallback feature 0 distinguishable.

### `BannerCatalog` and the refinement mapping

`BannerCatalog` is what the repository promises, without tables: a function
`banners` from id to a banner (non-empty tag set, one feature, activity,
content) or `Null`. Its actions are `Create`, `Update` and `Delete` of one id,
each allowed only when no other banner holds one of the new banner's (tag,
feature) keys (`Free`). `Create` and `Update` are written over the new value
`banners'[id]` rather than quantifying over all banners, so TLC does not
enumerate the banner set for each step. The module states the promise of
spec sections 3 and 4.1, not any one piece of code. Of its definitions only
`Banner` (the `models.Banner` record) is mapped to source lines.

`BannerStore` defines the mapping `Catalog`. For each id, `BannerOf` reads what
`GetBannerByID` reads: whether the row exists, its content, and the tags of its
mapping rows with the feature and activity of one of them (the query's
`LIMIT 1`). `CatalogRefined == Cat!Spec`, with
`Cat == INSTANCE BannerCatalog WITH banners <- Catalog`, states that the
repository implements the catalogue. Version history is below the catalogue's
level of detail, so `RestoreVersion` maps to an `Update` or to no change.

### `BannerAPI` (with `MC_BannerAPI`)

`BannerAPI` EXTENDS `BannerStore`. Its handlers call the store's transactions
directly, so the proofs about the store apply to the composed model
unchanged. Its own specification is `APISpec`, with `APIInit`, `APINext`,
`APITick`, `apiVars` and `APITypeOK`; the prefix keeps these apart from the
store's `Init`, `Next`, `Tick`, `vars` and `TypeOK`.

State: the variables of `BannerStore`, plus:
- `resp`: the last response, with the outcome the repository reported;
- `tasks`: delete tasks published and not yet run;
- `served`: the number of requests so far, bounded by `MaxRequests`.

A request is abstracted to what the handlers tell apart:
- Its token is one of `invalid`, `admin`, `user` or `other`. Every error of
  `ValidateToken` (empty, bad signature, expired, no claim) is the same 401,
  so one value stands for them all. A valid token yields its `user_type`,
  which can be any string; `other` stands for the roles that are neither.
- Its path and body are valid, or one of them fails validation (`Bad`).

Actions:
- `HandleCreate`, `HandleUpdate`, `HandleRestore`: the early returns in the
  code's order (`EarlyStatus`: path 400, token 401, role 403, body 400). Then
  the `BannerStore` transaction, and the status the handler maps its error to
  (`CreateStatus`, `UpdateStatus`, `RestoreStatus`).
- `HandleDelete`: `Found` is `GetBannerByID`'s join. The handler answers 404,
  or publishes a task (204), or fails to publish (500). The tables do not
  change. The pipeline's delivery and retries are `DeletePipeline`'s subject.
- `RunTask`: a worker runs the repository's `DeleteBanner` for a task.
- `APITick`: time passes.

## Runs

| Run | Expect | What it shows |
|---|---|---|
| `pipeline` | pass | `TypeOK`, `NoForeignDelete` and the inductive invariant `IInv` hold over 2 workers, 2 handlers, 2 ids, one store fault, `maxRetries` = 5 and 7 publishes. This is enough for a duplicated task to outlive its banner and for a worker to exhaust its retries (`GiveUp` fires). About 178k distinct states. |
| `pipeline_shutdown` | violation | `WorkersStop` under `FairSpec`: after `Shutdown`, a worker blocked in `Consume` on an empty queue never stops. One request, no faults, no symmetry (symmetry is unsound for liveness). |
| `pipeline_lost` | violation | `TaskNotLost`: a 204'd delete whose task went to a consumer nobody reads. |
| `pipeline_amplify` | violation | `AttemptsBounded`: with no store faults, a task for a banner already gone is re-published on every failed attempt, and the attempts outgrow `(1 + maxRetries)` per request. |
| `read` | pass | `TypeOK`, `NoInactiveToUser` and its inductive strengthening `ReadInv`: 2 handlers, every role, valid and invalid tokens and query parameters, 2 keys, 4 requests, 2 writes. About 372k distinct states. |
| `read_populate` | violation | `CachePopulated`: a healthy push after a store read leaves the key uncached. |
| `store` | pass | `TypeOK`, `MappingsConsistent`, its inductive strengthening `StoreInv`, and the refinement `CatalogRefined`: every behaviour of the tables maps to a behaviour of `BannerCatalog`. Over 2 tags, 2 features, 2 contents and 2 ids, with every combination of optional PATCH fields. About 10k distinct states. |
| `store_versions` | violation | `VersionRestorable`: a content update at a sub-second `time.Now()` writes a history row that is listed under its whole second, and `RestoreVersion` by that key finds no row. |
| `store_missing` | violation | `MissingNotFound`: a PATCH of a missing banner with only `is_active` or `feature_id` returns 200 (the shortest trace). A restore of a deleted banner's version is the other way to violate it. |
| `store_update_classified` | violation | `UpdateFailuresClassified`: an in-place `feature_id` change colliding with another banner is a 500, not a Conflict. |
| `api` | pass | `APITypeOK`, `FailedRequestChangesNothing` and `AdminOnlyWrites`: 4 requests of every kind, token and validity, interleaved with task runs and time, over 2 ids, 2 tags and 2 features. About 269k distinct states. |
| `api_status` | violation | `StatusFollowsOutcome`: a `POST /banner` that hits the unique index answers 500, not 400. |

### Findings

The violation runs are findings; `PROJECT.json` holds the details.

- **Abandoned consumers lose tasks.** `RabbitMQQueue.Consume` registers a fresh
  auto-ack consumer on every call and never cancels it. Once a worker has
  consumed one message, the broker keeps dispatching to that consumer, and those
  tasks are acknowledged and dropped.
- **Shutdown does not stop a waiting worker.** `Run` reads `stopCh` only in the
  `select` at the top of its loop. `BannerQueue.Consume` blocks in
  `<-messages` (`queue.go:40`) with no `select` on `stopCh`. So a worker that
  is waiting when `Shutdown` closes the channel stays blocked for as long as
  the queue is empty, contrary to spec section 3.
- **Retries multiply tasks.** `retryDeleteBanner` retries locally and also
  re-publishes after each failure.
- **A listed version cannot be restored.** `createBannerHistory` stamps
  `updated_at` with `time.Now()`, which has sub-second precision.
  `ListBannerVersions` reports the stamp as whole seconds (`UnixTime.Scan`).
  `RestoreVersion` then asks for `updated_at = time.Unix(key, 0)` exactly, so
  unless the row was written on a whole second it finds nothing and answers
  NotFound.
- **The cache is never written.** `GetBanner` does not select the tag ids or
  the feature, so `Push` has no key to write. Every read goes to the store.
  This also means the onlyActive leak of spec section 9 cannot happen.
  `NoInactiveToUser` holds, and would stop holding as soon as the query is
  fixed to return the tags.
- **Two update outcomes are misclassified.** This happens in the in-place
  mapping update path.
- **A restore of a deleted banner succeeds.** `DeleteBanner` leaves the
  history rows behind, and `restoreBannerVersion` ignores the rows its
  `UPDATE` affected. The restore deletes the version and answers 200, with no
  banner updated. Spec 4.1 calls a zero-row update NotFound. This and the
  PATCH case above violate the same property, `MissingNotFound`; the run's
  shortest trace is the PATCH case.
- **A create conflict is a 500.** `CreateBanner.Handle` maps every error to 500,
  including `ErrUniqueViolation`. `UpdateBanner.Handle` maps the same error to
  400, and spec section 6 says a Conflict is a 400.

### Bounds and why they suffice

- **`pipeline`**:
  - Two workers are the least that lets one worker's duplicated task overtake
    another's.
  - Two ids are the least for a task of one banner to meet another banner.
  - `MaxRetries` is the code's own 5.
  - `MaxPublishes` = 7 lets one task be re-published until a worker gives up.
    At the bound, a publish fails; that is the code's error path, not a cut-off.
  - `MaxFaults` = 1 lets a delete of an existing banner fail once.
  - Symmetry over workers and over clients is sound: no action distinguishes
    them.
- **`store`**:
  - Two tags and two features are the least that allow a (tag, feature)
    collision between two banners.
  - `TicksPerSecond` = 2 and `MaxTime` = 1 in every store and API run. The
    clock then takes a tick on a whole second (0) and a sub-second tick (1).
    `time.Now()` has sub-second precision, so most real history rows are of
    the second kind. Their listed key does not match them, and
    `RestoreVersion` answers NotFound.
  - Symmetry over tags and contents.
  - `MaxHistory` = 1 in the pass run, 2 in the violation runs. The refinement
    mapping is evaluated on both states of every step, which makes the pass
    run costlier. One history row is enough for a restore to map to an
    `Update`, and to run after a `DeleteBanner`.
- **`api`**:
  - Four requests are enough for create, create-with-conflict, delete and
    restore to follow one another. With two ids, a second banner can hold the
    key the first wants.
  - Symmetry over tags and contents is sound: the properties name neither.
  - `CHECK_DEADLOCK FALSE`: after the last request and the last task, only
    `Tick` is left, and then nothing. An idle server is a real resting state.

### Coverage of the read path

The cache-hit branch of `CacheGet` never fires in `read`, because the cache
stays empty; it is dead in this code. That is the content of the
`read_populate` finding, not a gap in the bounds. For the same reason, Redis
TTL expiry (the `ttl` of `Redis.Push`, `redis.go:35`) is not an action: with no
entry ever written, nothing can expire. It would become an action, deleting a
present key at any time, together with a fix of `GetBanner`.

### Fairness

`FairSpec` (in `DeletePipeline`) adds weak fairness on each worker's steps
(`RunLoop`, `Receive`, `FirstDelete`, `RetryDelete`, `GiveUp`) and on
`DeliverToWorker`:
- The workers are goroutines, and the Go scheduler runs a runnable goroutine
  eventually.
- RabbitMQ pushes a queued message to a registered consumer.

Request handlers and `Shutdown` get no fairness, because clients may stop
sending. Only `pipeline_shutdown` uses `FairSpec`. Even with this fairness, the
counterexample ends with a worker in `wait` and an empty queue forever.

The `pipeline` run sets `CHECK_DEADLOCK FALSE`: workers blocked in `Consume` on an empty queue
after the bounds are reached is the program's resting state.

## Proofs

### `DeletePipelineProofs`

Proved with TLAPS for every value of the constants, from `ConstantsAssumption`
(`Workers` non-empty, the bounds natural numbers):
- `IInvInvariant`: `Spec => []IInv`.
- `TypeCorrect`: `Spec => []TypeOK`.
- `NoForeignDeleteSafe`: `Spec => []NoForeignDelete`.

`NoForeignDelete` alone is not inductive: a step that deletes `task[w]` keeps it
only if that id's deletion was requested. `IInv` strengthens it in three ways:
- Every task in flight names a requested id: `QueueRequested`, `BufRequested`,
  `HeldRequested` and `ClientRequested`.
- Only handed-out ids are live or requested: `OnlyCreated`.
- Because of `OnlyCreated`, a freshly created banner's id is not requested, so
  no task in flight can name it.

The proof has one lemma per action, and within each lemma one step per conjunct
the action can disturb. Small lemmas on `Range` cover `Append`, `Tail` and the
empty sequence. `IInv` is also checked by TLC in the `pipeline` run.

### `BannerStoreProofs`

Proved for every value of the constants, from `StoreAssumption` (feature ids
positive, `Null` distinct from every feature, content and Boolean, the bounds
natural numbers):
- `StoreInvInvariant`: `Spec => []StoreInv`.
- `StoreTypeCorrect`: `Spec => []TypeOK`.
- `MappingsConsistentSafe`: `Spec => []MappingsConsistent`.

`MappingsConsistent` is not inductive. An `UpdateBanner` of a banner with no
row, given only `feature_id` or `is_active`, resolves the missing field from
zero mapping rows. It gets Go's zero value (feature 0), and would write it if
there were rows to update. `StoreInv` adds two conjuncts:
- `NoOrphanMappings`: every mapping row belongs to a live banner. It holds
  because `DeleteBanner` deletes the mappings with the row, and the foreign key
  rejects the insert of new tags for a missing banner.
- `FreshIds`: every live id is below the sequence. Together with
  `NoOrphanMappings`, it gives a created banner no pre-existing rows.

With these, the update of a live banner resolves a real feature from one of its
rows (lemma `ResolutionsType`). The update of a missing banner touches no rows
at all. The proof has one lemma per transaction, with a case for each outcome
of `UpdateOutcome`. Lemmas on `NewMappings` and `MappingsAfter` state the shape
of the rows written. The `store` run checks `StoreInv` too. Its mutant, a
`DeleteBanner` that leaves the mapping rows behind, breaks `StoreInv` while
`MappingsConsistent` still holds on the live banners.

### `BannerStoreRefinement`

Proved for every value of the constants:
- `RefInvInvariant`: `Spec => []RefInv`.
- `StoreRefinesCatalog`: `Spec => CatalogRefined`. The repository implements
  `BannerCatalog` under `Catalog`.

The assumption `StoreAssumption` gains one conjunct: `Null` is not a banner
record.

The step argument needs two facts beyond `StoreInv`, added as `RefInv`:
- `KeysUnique`: no two mapping rows of different banners share a (tag,
  feature). The unique index gives it: `CreateBanner` and `UpdateBanner`
  commit only when `Clash` is false against the other banners' rows.
- `LiveContent`: every live banner has a content.

The proof is organised as follows:
- `BannerOf` takes what it reads as arguments (row present, content, the id's
  rows). So lemma `BannerOfLive` (the value is a catalogue banner whose keys
  are the keys of its rows) applies to the states before and after a step.
  `CatalogFrame` does the same for an id whose row, content and mappings a
  step leaves alone.
- Lemma `ChangeOne` is the core: a step between two `RefInv` states that
  leaves every id but one alone is a `Create`, `Update` or `Delete` of that
  id, or no change. `Free` follows from `KeysUnique` in the new state.
- Each transaction then only shows that it touches at most one id. Together
  with `Init => Cat!Init`, `PTL` concludes.

`RefInv` was checked by TLC on the `store` instance before it was proved. The
mutant of `Clash` without the unique index breaks `CatalogRefined` in the
`store` run.

### `BannerStoreRefinement`: unique keys

- `CatalogKeysUnique`: `Spec => []Cat!UniqueKeys`. The catalogue that the
  tables represent never has two live banners under one (tag, feature) key.
  This is what makes `GetBanner`'s `LIMIT 1` query name a single banner.

The argument is lemma `RefInvUniqueKeys`. The keys of a live id are the pairs
of its mapping rows (`CatalogLive`). `KeysUnique` forbids two rows of
different banners with the same pair.

### `BannerReadProofs`

Proved for every number of handlers, tags, features and contents, and for all
bounds, from `ReadAssumption`. The assumption gained one conjunct: `Tags` and
`Features` are non-empty, so an idle handler's placeholder key is a key.
- `ReadInvInvariant`: `Spec => []ReadInv`.
- `ReadTypeCorrect`: `Spec => []TypeOK`.
- `NoInactiveToUserSafe`: `Spec => []NoInactiveToUser`.

`NoInactiveToUser` is not inductive. A cache hit returns whatever is cached,
and the cache key has no onlyActive dimension. An admin read could therefore
cache an inactive banner that a user read then hits. `ReadInv` states why this
never happens in the code:
- the cache is empty;
- every pending `Push` carries a banner with no tags, because `GetBanner`
  selects no `tag_id`, so `Push` sets no key;
- every user request in flight reads with onlyActive.

The proof therefore rests on the defect that the `read_populate` run shows.
The theorem holds for the code as it is. It would stop holding once the query
returns the banner's tags: the `StoreBannerKeyed` mutant breaks `ReadInv` in
the `read` run.

There is one lemma per action. `FinishFacts` covers the record update of a
handler that finishes. `ReadInv` was checked by TLC in the `read` run before it
was proved.

### `BannerAPIProofs`

Proved for every value of the constants, from `StoreAssumption` and
`APIAssumption`:
- `APIInvInvariant`: `APISpec => []APIInv`, where `APIInv` is
  `StoreInv /\ APITypeOK`.
- `APITypeCorrect`: `APISpec => []APITypeOK`.
- `FailedRequestChangesNothingSafe`: `APISpec => FailedRequestChangesNothing`.
- `AdminOnlyWritesSafe`: `APISpec => AdminOnlyWrites`.

`APITypeOK` needs the store's invariant: a response carries the outcome of the
store's `req`, which is typed only under `StoreInv`. `BannerAPIProofs` EXTENDS
`BannerStoreProofs`, so it cites the store's per-transaction lemmas
(`CreateBannerInv`, `UpdateBannerInv` and the rest) as they are. `APIInv` was
checked by TLC on the `api` instance (265k states) before it was proved.

The two action properties need no invariant. Lemma `ServedStep` says that a
step serving a request either changes neither the tables nor the task queue,
or carries an admin token and answers 200, 201 or 204. It rests on three kinds
of fact:
- `EarlyStatusFacts`: only an admin passes the early returns.
- `StatusFacts`: a success status means the outcome was "ok".
- `CreateFailedUnchanged`, `UpdateFailedUnchanged` and
  `RestoreFailedUnchanged`: a transaction that reports anything but "ok"
  rolls back.

Each action property follows from `ServedStep` by `PTL`.

### Only model-checked

- The liveness property `WorkersStop` (and its violation). TLAPS cannot reason
  about `ENABLED` or fairness.
- `CachePopulated`, `TaskNotLost`, `AttemptsBounded`, `VersionRestorable`,
  `MissingNotFound`, `UpdateFailuresClassified` and `StatusFollowsOutcome`.
  These are the properties the code violates. TLC's counterexamples are the
  result; there is nothing to prove.

## Not modelled, and why

- **The read-only handlers** (`ListBanners`, `ListVersions`). They change
  nothing. `VersionKey` models the key `ListVersions` reports.
- **JSON decoding and the nullable types.** A body is valid or invalid. Two
  decoding details are not modelled: a create body without `feature_id` gets
  feature 0, and a JSON `null` content in a PATCH.
- **Token minting** (`GenerateToken`). It is used by no handler.
- **Config, logger, wiring, and the Postgres and Redis clients.** Plumbing.
- **Consume errors and the hot loop in `Run`.** A failed `Consume` takes no
  message, and the loop goes back to its `select` on `stopCh`. The busy loop
  costs CPU while the broker is down, but it changes no state a property could
  observe.
- **The non-atomic read-then-write of `updateBannerMappings` under
  READ COMMITTED.** Planned.
