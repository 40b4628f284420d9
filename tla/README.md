# A TLA+ verification of pg-shard-router

pg-shard-router is an application-level router for a sharded PostgreSQL. A shard key is hashed to a
virtual bucket, a bucket is mapped to a shard by records that live in etcd, and requests are sent to
the shard, through a pool and a circuit breaker, while buckets may be migrating. This directory models
the parts whose correctness depends on the order in which things happen, checks them with TLC and
proves their main invariants with TLAPS.

## 1. The system

| Component | State it keeps | Operations | Talks to |
|---|---|---|---|
| etcd registry (`registry/etcd.go`, `keys.go`) | resume revision, in-flight load | `Start`, `loadAll`, `watchLoop`, `reconcileLoop`, `applyKV`, `Close` | gateway client (calls, channel), store (Load/Swap) |
| gateway client (`registry/etcdhttp.go`) | bearer token, open stream | `rangePrefix`, `watchPrefix` and its producer goroutine, `authenticate`, `postAny` | etcd over HTTP |
| mapping store (`cache/mapping.go`) | atomic pointer to an immutable `Mapping` | `Load`, `Swap`, `Clone` | shared by the registry's loops and every request |
| router (`router/router.go`, `model/types.go`) | none | `Resolve`, `PrimaryWriteShard`, `ReadEndpoint` | store |
| circuit breaker (`breaker/breaker.go`) | state, consecutive failures, time of opening, per shard | `Allow`, `Success`, `Failure`, `Registry.For` | called by the pool |
| pool manager (`pool/manager.go`) | map of pools with time of last use | `Acquire`, `poolFor`, `reapOnce`, `Close` | breaker, secrets, PostgreSQL |
| HTTP API (`api/server.go`) | none of its own; goroutines of secondary writes | `handleQuery`, `handleRead`, `handleWrite`, `handleRoute`, `handleHealth`, `handleMetrics` | router, pool, metrics |
| file registry (`registry/file.go`) | store | `Start` | store |
| hashing, secrets, metrics, config, entry point | (counters, environment) | pure functions and wiring | |

What is hard in it:

* **Three goroutines share the store.** `watchLoop` does Load, Clone, apply, Swap; `reconcileLoop` does
  Range, Swap. Each access is atomic, the sequences are not.
* **The watch is a distributed protocol**: streams that break at any point, cancellations after
  compaction, gateway messages without a result, headers ahead of their events, a producer goroutine
  behind an unbuffered channel, shutdown in the middle of all that.
* **Requests resolve once and execute later**, while a migration publishes new states.
* **Breaker outcomes arrive late**, from calls that were allowed in an earlier state.
* **Pools** are created, reaped and closed concurrently; **secondary writes** run detached.

The properties that make each part correct: the store is some revision's content and does not go back
(registry); nothing is invented and nothing older than the first load is served (registry, under
reconciliation); the map converges to etcd; goroutines end; routing follows the migration table and
hands a bucket over without losing the writer; the shard that serves reads has the last write that a
primary executed, as far as the router can see to it; the breaker is open exactly when it should be,
stays open for its full timeout and comes back; pools neither leak nor
multiply, and are closed in the end; an expired token is survived. `PROJECT.json` lists the hazards line by line with the properties aimed at each.

## 2. Modules

| Module | Models |
|---|---|
| `EtcdRegistry` | the registry's goroutines, the watch stream, the store; etcd as an external log of writes |
| `ShardMapView` | abstract specification: a view that is always one revision's content and only advances |
| `Router` | `Resolve` and the domain types as pure operators |
| `Migration` | the shard map edited by operator and orchestrator (external), with `Router` deciding on it |
| `ShardRouting` | composition of `EtcdRegistry` and `Router` under a healthy control plane |
| `Breaker` | one circuit breaker with overlapping calls in the order of `pool.Manager.Acquire` |
| `WritePath` | requests of the HTTP API that resolve and execute while `Migration` goes on; secondaries |
| `PoolManager` | pools under concurrent requests, the reaper and `Close` |
| `EtcdClient` | requests, endpoints and the token of the gateway client |
| `KeyRange`, `FileRegistry` | `getPrefixRangeEnd` and the file registry's `Start` as pure operators |
| `RegistryLoads` | what both registries compute from the same key-space, the loops of the code against their closed forms, and the range that is asked for |
| `MCEtcdRegistry`, `MCShardRouting`, `MCPoolManager`, `MCRegistryLoads` | instances for TLC |
| `EtcdRegistryProofs`, `EtcdRegistryWatchProofs` | theorems about `EtcdRegistry`: with both loops; and with the watch as the only writer, there also about `ShardRouting` |
| `RegistryLoadsProofs`, `EtcdClientProofs`, `MigrationProofs`, `WritePathProofs`, `BreakerProofs`, `PoolManagerProofs` | theorems about the module they are named after |

`EtcdRegistry` and `Router` are composed in `ShardRouting`, `Router` and `Migration` and the API in
`WritePath`. `Breaker` and `PoolManager` both model `pool.Manager.Acquire`, each with the other's part
left open: in `Breaker` a call ends in any outcome, in `PoolManager` every call may be let through.

Definitions whose comment begins with "Faulty:" are variants of the definition that follows them, with a
bug a programmer might have written. No specification uses them; each is paired in `PROJECT.json` with a
property that fails when it takes the place of the original.

### EtcdRegistry

etcd is `log`, whose n-th element is the write that made revision n, and `compacted`. `Foreign` stands
for all keys outside `/sharding/`: they advance the revision but are never sent to the watch. Each code
location between two atomic accesses to shared state is a control state:

| Variable | Code |
|---|---|
| `lpc`: start, startSwap, wait, due, swap, done, failed | `Start` up to its Swap, then `reconcileLoop`; `built` is `loadAll`'s `m` |
| `wpc`: off, open, recv, apply, sleep, done | `watchLoop`; apply lies between Load and Swap with locals `cur` and `batch` |
| `prod`: none, reading, sending | the producer goroutine of `watchPrefix`; `msg` is what it is sending |
| `sent` | how far etcd has served the open stream |
| `ctxDone` | the context that a signal or `Close` cancels |

`LoadMap(n)` is the result of `loadAll`'s loop at revision n, `ApplyEvents` that of the loop over a
batch. They are closed forms (the last applicable write wins), which the provers can handle.
`LoopsAgree` in `RegistryLoads` says that they equal the loops, including two keys that stand for the
same bucket.
Decoding a record is "is the value in `Defs`". `Completed` says what `applyKV` makes of a decoded record
before it stores it: an omitted `shard_id` is filled in from the key, the `bucket_id` always is
(`Stored`). Otherwise values are opaque. One `Mapping` holds shards and buckets under disjoint ids.

### Router, Migration, ShardRouting

`Resolve` is translated branch by branch; errors are a field of the outcome. The bucket is an input (the
hash is not modelled). The migration orchestrator is not in the repository. `Migration` gives it the
freedom the router has to cope with: any shard may change status at any time, a destination may be
missing until CUTOVER, the source may be unregistered after it, a migration may be aborted until
CUTOVER. It keeps one rule that the router's error comments presume: the shard that serves a bucket's
reads is not unregistered. `TableRead` and `TableWrites` are the table of the repository's `README.md`,
written out independently of the state sets in `Resolve`'s switch. `Replicated` (the shards that have a
reader endpoint) and `SetStatuses` (the statuses the operator uses) bound the runs. `ShardRouting` replaces the opaque values
of the registry by shard and bucket records and lets the control plane make only writes after which no
record dangles: the source of every bucket is registered, and its destination once the bucket is cut
over (`References`). A destination that is missing during the dual write is not dangling: `Resolve`
writes to the source alone.

### Breaker

`Allow`, `Success` and `Failure` are atomic under the mutex. A call is allowed, holds no lock while it
acquires a connection, then reports. Time is a counter since the last opening that stops at
`ResetTimeout`; the count of failures stops at the threshold, since no test tells larger ones apart.
`sinceFailure` is a history variable, the time since anyone last reported a failure. `Detached` calls are the secondaries of dual writes, which acquire with
`context.Background()` and may never report.

### WritePath

One row of one bucket is followed; its value on a shard is the last write executed there. `HandleQuery`
takes the `Resolved` of the current map; the write (`HandleWrite`, or `WriteFails`, or `WriteReplyLost`
when the primary executed it but `Exec` returned an error) happens later, under whatever map is current
then, and spawns `Secondaries`, which execute or fail in any order at any time. CDC (`CatchUp`) and the
verification before CUTOVER (`Verified`) belong to the orchestrator, which is not in the repository.
They do what the comment of `handleWrite` expects of them and no more: CUTOVER is published when the two
copies are equal. Requests and secondaries may be in flight at that moment, since the router gives the
orchestrator no means to see them or to hold them off.

`latest` and `overtaken` are history variables. `overtaken` records what CUTOVER overtook since the last
write that executed at home (on the shard that serves the bucket's reads): "write" if a primary executed
on a shard that is no longer home, "secondary" if a secondary executed on the shard that has become home.

### PoolManager

A call goes through idle, lookup, create, install, acquire and holding, which are the places between the
critical sections of `poolFor` and around `p.Acquire`. `stale[e]` abstracts the clock: the entry of `e`
has not been looked up for `IdlePoolTTL`. `toClose` is `reapOnce`'s list, whose pools are closed one
after the other outside the lock. `Close` is the only one to block inside its critical section; the lock
is held exactly while `mgr` = "closing", and `LockFree` guards the others. Pools are identified by
`PoolIds`, and an identity is used again once its pool is closed and no call refers to it; when none is
left, creation waits or fails. pgxpool is external: at most
`MaxConns` connections per pool, no connection from a closed pool, `Close` returns when all are released.

### EtcdClient

`postAny` steps from endpoint to endpoint (`at`), with `authenticate`'s own loop (`authAt`) nested in it
after a 401. `epoch` is the token generation etcd accepts. The assignment of `c.token` is not
synchronised with the watch's read, so it takes two steps with `Torn` in between. `watchPrefix` uses the
first endpoint and the stored token. RBAC is on; without it there are no tokens and nothing to check.
`quiet` is a history variable, which no guard and no other variable depends on: how many reconciliations have begun since an
endpoint or the accepted token last changed.

### KeyRange, FileRegistry

Keys are sequences of bytes below `MaxByte` + 1, and the increment wraps like a byte. The file registry's `Start`
yields the set of mappings that Go's random map iteration allows. It takes shards as they were decoded and
sets the id of buckets (`Taken`), and reads a bucket's key with `Sscanf` (`ParsedId`), which accepts
trailing text that the etcd registry's `Atoi` refuses (`IdOf`). `RegistryLoads` compares it with `LoadMap`,
and compares `LoadMap` and `ApplyEvents` with the folds of `applyKV` that the code computes: over the pairs of
a Range response (`Listings`, in key order, one pair for each key with a value) and over a batch.

## 3. Model checking

Deadlock checking is off for the registry and the composition: after shutdown, or after a failed
`Start`, the program stops.

| Run | Checks | Shows |
|---|---|---|
| `registry_full` | `TypeOK`, `NeverBehindStart`, `Converges`, `WatchKeepsUpUncompacted`, `ShutsDown` | with all races, malformed values, delayed headers, compaction and shutdown: each entry served was in etcd at a revision since `Start`'s load; reconciliation repairs everything once etcd is quiet, with a watch that owes nothing; with a fair watch, it keeps up unless its revision was compacted, and shutdown is clean |
| `registry_loads` | `LoopsAgree`, `RegistriesAgree`, `RangeIsPrefix` | closed forms against the loops of `applyKV`; the file registry serves what a load serves, up to the `shard_id` it does not fill in and the keys that only it reads; the range asked for is the prefix |
| `routing_watch_only` | `HealthyResolves`, `SnapshotExact`, `ProducerNotOrphaned`, `ImplementsView` | when only the watch writes the store, it is exact, refines `ShardMapView`, and no `ErrUnknownShard` is answered, with compaction and every kind of stream failure |
| `client_recovers` | `RecoversByTheSecond`, `ReconcileRecovers`, `WatchRecovers` | three endpoints that fail and recover, expiring tokens: reconciliation and watch come back, by the second reconciliation after the last change |
| `breaker_calls` | `ClosedIffBelowThreshold`, `CooldownHonoured`, `Recovers` | the breaker under overlapping calls: it is closed exactly below the threshold, leaves a failing shard alone for a full timeout since the last failure reported, and comes back, even if a probe hangs |
| `pool_manager` | `NoPoolLeaks`, `MappedPoolsOpen`, `ConnsBounded`, `IdlePoolsClosed`, `CloseReturns` | creation races, reaping of pools in use, `Close` with requests running |
| `write_path` | `PrimaryIsAuthoritative`, `FailedWritesLeaveNoTrace`, `FollowsMigrationTable`, `ServesThroughoutMigration`, `ReadsSeePrimary`, `HandoverKeepsWriter` | routing, and reads and writes that overlap a migration, with lost, late and reordered secondaries |

Five runs show where the program departs from what its own comments say (`findings` in
`PROJECT.json` quotes them):

* `routing_reconcile_race`: a reconciliation swaps in a response that the watch has overtaken, or falls
  between the watch's Load and Swap. A shard registration that the watch had applied is dropped, the
  watch then applies the bucket's move to that shard, and the bucket is answered `ErrUnknownShard` until
  the next reconciliation. (With `Reconciling = TRUE`, `SnapshotExact` fails for the same reason: the
  store carries a revision it does not have the content of.)
* `registry_compacted_watch`: a canceled watch is reopened at the same compacted revision for ever; from
  then on only the reconciliation updates the map.
* `client_single_endpoint`: after a 401, `postAny` re-authenticates and goes on to the next endpoint. With
  one endpoint the request fails, as "no endpoints configured", and only the next reconciliation uses the new token.
  `RecoversByTheSecond` shows that this is as long as it takes: the second reconciliation succeeds.
* `write_late_secondary`: a secondary that is in flight at CUTOVER overwrites a newer write on the shard
  that has become authoritative (`AuthoritativeDespiteSecondaries`). It is one of two ways in which a read
  can miss the last write of a primary. The other is a write that was resolved before CUTOVER and
  executes on the old source after it; no comment speaks of that one. `write_path` shows that there is
  no third: `PrimaryIsAuthoritative` holds whatever else is lost, late or reordered.
* `migration_draining_source`: `router.go:174` says that a MAINTENANCE or DRAINING source during a
  migration is not treated as an outage. Until CUTOVER it is: the source is among the write shards, and
  the loop that follows refuses every shard that is not ACTIVE. `ServesThroughoutMigration` in
  `write_path` says exactly which buckets the code serves.

Further departures that the models exhibit and no run is spent on: while the breaker is half-open every call
passes (`breaker.go:47` speaks of a single probe; with detached calls that may hang, a strict single
probe could keep a healthy shard out of service); a registered destination that is not ACTIVE refuses
reads and writes during the dual write (`README.md` calls it best-effort); a bucket that was cut over
is answered `ErrUnknownShard` once its source is unregistered; without the premise `ConnsComeBack`,
`IdlePoolsEvicted` fails, because a secondary that never returns its connection blocks the reaper in
`Close`; a request that was creating its pool during `Close` installs it afterwards; and the file
registry leaves an omitted `shard_id` empty, by which pools and breakers are keyed, and accepts bucket
keys with trailing text.

**Bounds.** Registry: `registry_full` and `registry_compacted_watch` use one key and `MaxRev` = 2 writes,
some of which may be to foreign keys; the routing runs three keys (two shards and a bucket) and two or
three writes; `registry_loads` five keys and four writes. One key suffices for
`registry_full`, since its properties speak of one entry at a time, and two writes for one before, between or
after two accesses of a loop, lost, skipped or malformed. The counterexample to `HealthyResolves`
needs two writes. Nothing else in the registry is bounded: reconnects, loads,
ticks and gateway errors repeat freely. Client: three endpoints, so that one can fail on either side of the one that
re-authenticates, and two expiries, so that one can fall into a re-authentication. Breaker: four calls, one of them
detached, threshold 3, timeout 2. Pools: two requests that race for one endpoint, one of
them detached, and one for another endpoint; one connection per pool, so that a second pool would
exceed the bound at once; three pools, so that an evicted one, its successor and a racing one coexist.
Write path: two shards, one of them with a reader endpoint (either may be source or destination), and one bucket (buckets do not
influence each other's routing), two writes, which can be reordered, and a reader, which can be in flight
across a publication. The operator uses ACTIVE and DRAINING there, since `Resolve` tells no others apart,
and all four statuses in `migration_draining_source`. The number of publications is not bounded.

**Fairness.** Goroutines that can step do (weak). Requests to etcd may fail any number of times but not
for ever, so a successful load or opening is strongly fair; a stream is ended by the 30 s timeout of the
`http.Client` that `newEtcdClient` sets; a `select` that again and again finds `ctx.Done()` ready takes it once (Go
picks ready cases at random). The control plane, compaction and the signal have no fairness. `registry_full` is run under
`ReconcileSpec`, which assumes only the loads to be fair, so `Converges` owes nothing to the watch; it
needs messages without events to stop: each makes `watchLoop` swap in a clone and, were there one at
every reconciliation, each could undo it. `WatchKeepsUpUncompacted` and `ShutsDown` state the
fairness of the watch's goroutines as their premise (`WatchFairness`). In `registry_compacted_watch`
etcd also cancels a compacted watch again and again (`FairSpec`). Breaker:
the clock ticks, requests for the shard keep arriving and report (handlers run under a 30 s context);
detached calls owe nothing. Pools: the reaper and `Close` run on, requests complete and release;
detached calls owe nothing, so what depends on them is stated under `ConnsComeBack`. Client: the ticker
fires, requests end, streams time out, the watch retries; endpoints and tokens owe nothing, so recovery
is stated from the point where they settle. The write path has only safety properties.

## 4. Proofs

All theorems hold for every value of the constants that satisfies the named assumptions
`ConstantsAssumption`, `BytesAssumption`, `OrderAssumption`, `FileAssumption`, `RouterAssumption`, `RoutingAssumption`,
`MigrationAssumption`, `WritePathAssumption`, `BreakerAssumption`, `PoolAssumption` and `ClientAssumption`:
distinct tokens for absent, malformed and missing things, a place of its own in the key order for every key,
`Sscanf` reading what `Atoi` reads as the same number, a threshold, timeout, pool size and number of endpoints above zero, finitely many requests. Each inductive invariant was checked by TLC on the constants of the component's run first.

### The registry with both loops: `EtcdRegistryProofs`

* `RegistryTypeCorrect`. `TypeOK` is not inductive: `TypeInv` adds that a message refers to revisions the
  log has, that a load about to be swapped in is a mapping, and that the resume revision is positive.
* `RegistryProducerNotOrphaned` needs that neither a `watchLoop` nor a mapping exists before `Start` has
  finished.
* `RegistryNeverBehindStart`: with reconciliation, late headers, malformed values and compaction,
  every entry of the store is one that a load at some revision since `Start`'s would have given. The
  store as a whole need not be (run `routing_reconcile_race`); this is what is left of its exactness.
  `FreshInv` says it of the store, of the mapping a load is about to swap in and of the one
  `watchLoop` has cloned, and says of the stream that nothing in it is older than `Start`'s load:
  without that, a replayed event could bring back what was replaced before the process started. It
  assumes `OneKeyPerId`: if `buckets/527` and `buckets/0527` both exist, deleting one removes the
  bucket, which no load would do.

### The registry with one writer: `EtcdRegistryWatchProofs`

Under `WatchOnly`: no reconciliation within the behaviour, headers that carry the revision of their last
event, values that decode, one key per id. Where one of these fails, only the reconciliation brings the
store back (`Converges`).

* `RegistrySnapshotExact`. The invariant `ExactInv` follows the revision through the pipeline: the
  store is exact, the cursor is one past the store, the batch held by `watchLoop` continues the store,
  and the message held by the producer continues the batch. Three lemmas carry it: `EventsAdvance`
  (applying the events p+1..e to the content of p gives the content of e), `HistoryIsStable` (a write
  does not change the content of an earlier revision) and `SwapExact`.
* `RegistryImplementsView`, the refinement of `ShardMapView`: a write to etcd publishes a revision, a Swap
  advances the view to the content of a revision that is not older (`SwapAdvances`, from `ExactInv`),
  and every other step leaves etcd and the store alone.
* `RoutingHealthyResolves`: the control plane never publishes a revision with a dangling reference
  (`HealthyHistory`, for all revisions at once), the store is one of these revisions, and on a map
  without dangling references no branch of `Resolve` answers `ErrUnknownShard` (`IntegrityResolves`).

### Loads: `RegistryLoadsProofs`

* `PrefixRangeExact` is about `getPrefixRangeEnd` alone, for keys and prefixes of any length: a key in the
  range has the prefix, and conversely. The argument is about the first position at which a key departs
  from the prefix, and the last byte of the prefix that can be incremented. `RegistryRangeIsPrefix`
  states it of the keys in etcd.
* `RegistryLoadsAgree`, for any `Completed`: of a document that the file registry accepts both registries
  take the same keys for every id without a key that only `Sscanf` reads (`SameKeys`), and the key that `loadAll` comes to last is one that Go's iteration may come to last.
* `RegistryLoopsAgree`: `LoadMap` and `ApplyEvents`, on which every theorem about the registry rests, are what
  the loops of `applyKV` compute. A fold is a recursive function over the set of positions still to be
  processed. `Folded`, the closed form for such a set, satisfies its equation (`FoldedStep`), so the
  function exists; and no other function does, since at the set with the least maximum at which one
  differed it would agree on the rest (`LoopIsFolded`). The library's induction theorems are not needed:
  each induction is an argument about a least counterexample (`LeastNatural`). `BatchLoop` then renumbers
  the positions of a batch; `LoadLoop` uses that the last pair that applies to an id belongs to the key of the
  id that is listed last. `ListingExists` shows that there is a Range response to speak of: any finite set
  of keys can be listed in key order.

### The gateway client: `EtcdClientProofs`

* `ClientRecoversByTheSecond`, for any number of endpoints. A single reconciliation need not succeed: the 401 of
  the last endpoint that is up renews the token when no endpoint is left. `FirstInv` says what the first one
  after etcd's last change achieves all the same: the endpoints passed over are down, or the token is
  renewed, and at its end, if an endpoint is up, the token is the accepted one. `SecondInv` says that the
  second one therefore never re-authenticates, passes over endpoints that are down only, and returns "ok".
  The token stays accepted from then on, which is what the watch needs.

### Migration and the write path: `MigrationProofs`, `WritePathProofs`

* `MigrationTableFollowed`, `MigrationServes`, `MigrationReadsSeePrimary`, `MigrationHandover`. The first
  two rest on what `Resolve` returns in each of the three groups of states (`RoutedPaths`,
  `RoutesExactly`); that a shard's endpoints are its own is an invariant; the hand-over is proved per
  control-plane action, the only interesting one being the advance from VERIFYING to CUTOVER.
* `WriteImplementsMigration`: the specification with requests in flight implies `Migration`'s, so that
  the theorems above hold of it too, and its proofs may use them.
* `WriteFailuresLeaveNoTrace`. `TraceInv` says it of every write that is not done: it is on no shard and
  in no secondary.
* `WritePrimaryIsAuthoritative`. It assumes of the orchestrator that CUTOVER is published with equal
  copies, and nothing of the requests in flight. `HomeInv` speaks of the bucket's home, the shard
  that serves its reads: unless a CUTOVER has overtaken something (`overtaken`), the home has the latest
  write (`HomeIsLatest`); a bucket moves to another shard than its own (`MovesAway`), so CDC never
  writes to the home; before the bucket is assigned there is nothing (`NothingYet`). The home moves at
  CUTOVER only (`HomeMoves`), where the copies are equal. Both exceptions are real: `write_late_secondary`
  reaches one, and TLC reaches the other when `PrimaryIsAuthoritative` is strengthened to except secondaries
  only.

### Breaker and pools: `BreakerProofs`, `PoolManagerProofs`

* `BreakerClosedIffBelowThreshold`, and `BreakerHonoursCooldown`, which needs `OpenedAtLastFailure`: in an open
  breaker the time since the opening is the time since the last failure, since every failure that finds
  it open stamps it anew.
* `PoolsDoNotLeak`, `PoolsMappedAreOpen`, `PoolConnsBounded`. None of the three is
  inductive. `Inv` says who may know a pool: its creator alone until it is installed (`InstallInv`), one
  entry of the map (`MapInv`), the reaper's list (`EvictedInv`), and calls that use it, which, while it is
  open and not evicted, is the one in the map (`UseInv`). With that, the connections to an endpoint
  that count are those of one pool, and pgxpool's own bound (`CapInv`) carries over.

### Only model-checked

Liveness (`Converges`, `WatchKeepsUpUncompacted`, `ShutsDown`, `Recovers`, `ReconcileRecovers`,
`WatchRecovers`, `IdlePoolsClosed`, `CloseReturns`), because the prover does not handle fairness. Of
`ReconcileRecovers` and `WatchRecovers` the safety part is proved: `RecoversByTheSecond`. The five properties
that the program violates are TLC's as well.

## 5. Not modelled

* hashing: SHA-256 and the formatting of floating-point shard keys are out of a model checker's reach;
  the bucket is an input of the models;
* JSON and base64 decoding in detail, environment parsing, secrets, metrics: no state that anything depends on;
* `handleRoute`, `handleHealth`, `handleMetrics`, which format what `Resolve` and the counters return, and
  `breaker.Registry`, which hands out independent breakers from a map under a lock;
* `main`'s wiring; its shutdown appears as `CancelContext` (registry) and `CloseStopsReaper` (pools);
* the watch's creation acknowledgement, which the producer skips without effect, and progress
  notifications, which are never requested.

## 6. Status and plan

Every invariant and action property of a passing run, and the refinement of `ShardMapView`, is a theorem. What
is left is the eight liveness properties, for a prover with fairness, and what could be said of the store as a
whole when headers run ahead of their events: per entry, `RegistryNeverBehindStart` already holds there.
