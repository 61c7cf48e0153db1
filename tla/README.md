# A TLA+ verification project for `vsa`

`vsa` is a rate limiter built on a *Vector-Scalar Accumulator*: requests change a
volatile, striped counter (the vector), and a background worker folds it into a
durable total (the scalar) now and then. The repository also holds adapters for
durable stores and `plugin/tfd`, which splits a stream of operations into a lane
whose deltas may be merged and a lane that keeps its order.

The modules in this directory model the state and the control of these parts.
TLC checks them on small instances; TLAPS proves every safety property and every
refinement that the runs check, for every value of the constants. `PROJECT.json` lists the runs, the source lines behind
every definition, a faulty variant of the code for every property, the findings
and the hazards. To repeat a run:

    tlc -config MCVSA_exact.cfg MCVSA
    tlapm VSAProofs.tla

## 1. The system

| Component | State | Operations | Talks to |
|---|---|---|---|
| VSA core, `vsa.go` | `scalar`, `committedOffset`, stripes, group sums, `approxNet`, `cachedNet`, `tryMu`, choosers | `Update`, `TryConsume`, `TryRefund`, `Commit`, `Available`, `State`, `Close`; the aggregator goroutine | called by handlers and worker |
| Store, `core/store.go` | `sync.Map` of key to VSA, `lastAccessed`, `armed` | `GetOrCreate`, `ForEach`, `Delete`, `CloseAll` | shared by handlers and both loops |
| Worker, `core/worker.go` | its batch, `stopChan` | commit loop, final flush, eviction loop, `Stop` | State and Commit of every VSA, `Persister` |
| HTTP API, `api/server.go` | none | `/check`, `/release` | store, VSA |
| Main, `cmd/ratelimiter-api` | none | start, signal, shutdown order | worker, store, HTTP server |
| Persistence, `persistence/` | durable counters and commit markers | `CommitBatch` of the Redis, Postgres and Kafka adapters; `IdemShim` | the database |
| TFD S-lane, `plugin/tfd` | open-addressed tables, bounded channel, flush requests | `Handle`, `FlushS`, `Stop`; ticks | producers, sink |
| TFD V-lane, `vactors.go` | a map of actors, a queue each | `Route`, `Enqueue`, `Drain` | `Pipeline.Handle` |
| File sinks, `internal/sinks` | a buffer and a file per lane | `OnSBatches`, `Append`, `Flush`, `Close`, `ReadAll...` | both lanes, `/state` |
| `tfd-proxy`, `tfd-sim` | none | `/consume`, `/set_limit`, `/reverse`, `/state`; a generator; shutdown | classifier, pipeline, sinks, replay |
| Churn telemetry, `telemetry/churn` | global counters, aggregates per key, a window of points, configuration | `Enable`, `Observe...`; the exporter loop | handlers and worker |
| Mock persister, metrics, benchmarks, load generators | counters | recording, printing | - |

What is hard here, and hard to test:

* **The gate.** `TryConsume` adds up stripes one load at a time and admits on the
  result. The lock makes that safe; the cached, grouped and fast gates give up
  some of it for speed.
* **Stale vectors.** A vector is read, written to a database, and only then folded
  with `Commit`. Requests, refunds and the other loop run in between.
* **`State` is not atomic.** It loads the stripes one by one, without the lock, while
  requests add to them, and then subtracts an offset: the result may be a vector that
  the instance never had.
* **Two writers.** The commit loop and the eviction loop write the same instance,
  and the eviction loop drops instances others hold pointers to.
* **Failure.** A batch that returned an error may have been applied in part or as a
  whole, replies get lost, the process crashes between a write and its fold, and
  shuts down in a certain order.
* **Channels.** A full buffer, a full table, `Flush` and `Stop` that meet, a drain loop
  that producers keep busy.
* **Logs.** Acknowledged requests wait in a channel, in a table and in a write buffer
  before they are in a file; a crash can cut a line in two; the programs go on
  accepting requests while they shut down.
* **No locks.** The V-lane's map and lists have none, the telemetry only atomics, and
  its loop is replaced while it may be running.

`PROJECT.json` lists the hazards one by one, at the line where each bites.

## 2. The modules

| Module | Models | Notes |
|---|---|---|
| `Quota` | the budget a VSA promises | abstract: `Consume`, `Refund`, `Commit` |
| `VSA` | `vsa.go` | one atomic access of shared memory per step |
| `RateLimiter` | store, worker, HTTP API, main | composes them; a VSA is used through `Quota`'s view |
| `Ledger` | `persistence/types.go` | abstract: a commit counts once |
| `Persistence` | `factory.go`, `shim.go`, the loop of `CommitBatch` | base of the adapters |
| `RedisPersister`, `KafkaPersister`, `PostgresPersister` | `redis.go`, `kafka.go`, `postgres.go` | extend `Persistence` |
| `Adapters` | the three adapters, one of them chosen | shown to implement `Ledger` |
| `SShard` | `saccumulator.go` | the table, with its probe loop |
| `Lane` | what the S-lane promises | abstract: take, hand on in order, `FlushS` as a barrier, `Stop` |
| `SLane` | `sservice.go`, `pipeline.go`, `SimpleVSA.Compress` | extends `SShard`, implements `Lane` |
| `FileSinks` | `internal/sinks` | buffers and files |
| `TFDProxy` | `tfd-proxy`, `tfd-sim`, `classifier.go`, `vactors.go`, `reconstruct.go` | composes `Lane` and `FileSinks` |
| `Churn` | `telemetry/churn` | hot path, exporter loop, `Enable` |
| `Sums` | - | the sum of a function over a finite set |
| `SumProofs` | - | the laws of sums |
| `VSAProofs`, `RateLimiterProofs`, `AdaptersProofs`, `SShardProofs`, `SLaneProofs`, `TFDProxyProofs`, `ChurnProofs` | - | theorems about the module each is named after |
| `MC...` | - | instances for TLC |

Operators named `X_Something` and marked "Faulty variant" are mutations of `X` that
a plausible mistake in the code would make. No specification uses them; each
property is known to fail when one of them takes the place of `X`.

**VSA.** `pc` is the place of a goroutine in the call `op`, and `n`, `s`, `net`, `i`
are the call's locals: the argument (later the amount it adds), the scalar it
loaded, the running sum, the index. Loads of variables that only the lock holder
writes are merged with the holder's next step, and the unlock with the last store
of the call; everything else is a step of its own. A call whose argument makes it
return at once stutters. `CheckCommit` reads like `State` and is covered by it.
`used` is a history variable: all that was ever added to the cells that
`currentVector` scans. `rr`, `chooser` and `groupRR` are kept modulo the number of
stripes, the only way they are used. int64 overflow is left out: every caller in
the repository passes 1, and a scalar near 2^63 is no rate limit.

**RateLimiter.** Instances are numbered as they are published. An operation of a VSA
is one step here, which `ExactGateImplementsQuota` justifies for the default
options. `State` takes no lock: from the step that begins it to the one that reads the
offset, its sum is in progress, and each update of the instance in between is seen or
missed (`AddToStripe`, `Seen`), since the stripe it goes to may lie ahead of the scan or
behind it. So a sum may be one that never was, and negative when refunds are seen and the
admissions before them are not; `MaxTear` bounds how far it is from the true one.
`CommitBatch` applies its entries one by one (`CommitSend`, `cSent`) and may fail after
any of them, which is what `RedisPersister` does: the entries that were applied stay
applied, and the next pass finds their units in the vectors again and sends them under
new CommitIDs. The history variable `stray` counts what such calls left in the store;
`Acknowledged` is the rest, written by calls that returned nil or still run. `counters`
is the `sync.Map`; handlers go through Load, LoadOrStore, the store of `lastAccessed` and
the operation as separate steps. `age` abstracts the clock to the three cases the
code tells apart. A visit of `ForEach` reads a key whenever it comes to it, so a key
stored meanwhile is seen or missed. The first pass of the eviction cycle collects
its candidates in one step: it decides nothing that the re-check does not decide
again. `persisted` keeps the vectors written apart by instance, so that a key's
durable total is the sum over its instances. A crash forgets everything else.
`conf` holds the flags of the service and whether its clients use `/release`; a
behaviour begins by choosing one of `Configs`, and a property says under which of
them it is claimed. `drained` is chosen when the signal comes: nothing in `main`
makes the clients go away first, but whoever sends the signal may.

**Adapters.** `BuildPersister` chooses an adapter once (Postgres is wired by the
application). `acked` is what some call has returned nil for. Writers send overlapping
batches, and a client error may come before or after the effect; then the whole batch
is sent again. `stable` tells CommitIDs kept across retries, as `types.go` asks for,
from `IdemShim`, which draws new ones for each call; the ledger counts CommitIDs.
A Redis marker may expire once its commit is acknowledged and nobody is sending it,
which is what `redis.go` asks of the TTL. A Kafka message goes to the partition its
CommitID hashes to; `Reads` are the orders in which a consumer can see the topic, and
`Materialized` is the consumer that `kafka.go:44` asks for. In `PostgresPersister` a
statement sees the committed rows and those of its own transaction, and an INSERT
waits for an open transaction that has inserted the same key; row locks of UPDATE are
left out, since no UPDATE matches a row.

**SShard, SLane.** A slot is a record with the packed id, the cell, the sum and the
greatest SeqEnd. `Probe` and `Place` are the steps of `Ingest`. `Pack` is any function
to ids other than 0 (`ShardAssumption`); cells with the same id share a slot under the
first one's name, so `DeltasConserved` and `SinkHoldsPrefix` are about the cells with
one id together. An envelope comes with any of `SeqEnds`: the callers stamp it with
`time.Now().UnixNano()`, so two may have the same and a later one a smaller; the history
variable `stamps` counts how many came with a packed id and a SeqEnd. The batches of a
flush are a family with one member per slot (after `Compress`, per cell), so that two
equal ones are two. The lane has one shard:
`shardIndex` sends a cell always to the same one. The service goroutine's `select` is
nondeterministic, the drain loops receive until the channel is empty, and `Flush` is a
request through a channel of capacity 1. `quiet` is chosen when `Stop` is called: the
last caller was gone, or not. `alog` and `handed` are history variables, and the
refinement mapping to `Lane`: `spc = "done"` is `stopped`.

**FileSinks, TFDProxy.** A line of a log is two chunks; a `bufio.Writer` of `BufChunks`
chunks writes itself out when it is full, also between the two. A reader gets the
records of the lines that parse. `TFDProxy` uses the lane through `Lane`, as `SLane` is
shown to implement it. A request is a record with its kind, key, bucket and amount,
made at most once; a step is a call of the lane, one access of the router's map, one
push to a list or one call of a sink (each holds a mutex). Concurrent pushes to one
`container/list` may lose one of them, and a stale actor may be overwritten: that is
what the races in `vactors.go` can do to the queues (that Go may also stop the program
on concurrent map writes is covered by `Crash`). The deferred calls of `main` are steps
of their own, and requests come until the process is gone. `must` holds what was
acknowledged before a signal, `safe` the part of it that a `/state` has shown or an
orderly exit has saved; after a crash only `safe` is due. SeqEnd is left out: it only
sorts the V envelopes before they are added. `OnSBatches` gives the batches of one flush
to the S log in any order, since the order of the slots depends on hashes. A record
carries, in `of`, the requests it stands for, and `void` holds those of batches that
summed to 0 and were dropped: both are history, for the properties and the proofs.
`Mirrors` compares a queue with the lines of its key one by one, through the positions
of the lines in the log.

**Churn.** `threshold` is the set of sampled keys. `getAgg` is a load and a
`LoadOrStore`; the update of an aggregate and its time stamp are steps of their own,
and what is done to an aggregate that is no longer in the map is lost. `Stamp` also
adds to the global sum, and the last of the four counter loads is taken with the
window's mutex: no step of another goroutine reads what lies between. The loop's ticks,
the age of keys and of points are arbitrary. `panicked` ends the process.

## 3. What the runs show

| Run | Shows | Bounds |
|---|---|---|
| `vsa_exact` | `NoOversubscription`, `NetNonNegative`, `ScalarLaw`, `CommitPreservesAvailability`, `DenyJustified`: a denial was right; `ImplementsQuota`; `TypeOK` | 3 goroutines, 2 stripes, limit 4, amounts 1 and 2, commits of 1 and 3 (stale on purpose) |
| `vsa_options` | `SumsAgree`: with the fast path, the grouped scan, hierarchical sums and readers at once, stripes, group sums and `approxNet` agree at rest | 2 goroutines, 4 stripes, 2 groups for scan and sums, guard 1 |
| `vsa_live` | `CallsReturn`, `CacheConverges`: with the cached gate, `Update` with any chooser and `Close`, every call returns and the cache reaches the true net | 2 goroutines, 1 stripe |
| `rl_writes` | `KeyWithinLimit`: one budget per key for racing first requests; without `/release`, `CommittedIsDurable`: memory never counts as folded what no successful call wrote, and `NoPhantomWrites`: only failed calls leave copies, at most one each; `FlushLosesNothing`: the final flush writes everything if the clients are gone and no batch fails; `TypeOK` | 2 handlers, 2 keys, limit 2, with and without hysteresis, sums torn by up to 2, 2 failing batches, a crash |
| `rl_loops` | `ThresholdCommits`, `MaxAgeFlushes`: over-threshold vectors, and the rest of keys left by traffic, are written by calls that succeed; `ShutdownCompletes`: a signal ends the process | 1 handler, 1 key, sums torn by 1, a failing batch, four sets of flags, eviction and refunds among them |
| `adapters` | `ImplementsLedger`: Redis and the Kafka topic implement `Ledger`; `ConsumersConverge`: behind `IdemShim`, a consumer of the topic gets its scalars in every order; `BatchesAtomic`: a Postgres batch is marked as a whole or not at all; `CallsReturn`; `TypeOK` | 2 writers, 3 commits of 2 keys, 2 partitions, an error, 2 calls through `IdemShim`, batches in opposite orders |
| `shard` | `DeltasConserved`; `RepeatedIdsWereGiven`: two batches have the same (key, bucket, SeqEnd) only if two envelopes came with it; `IngestReturns` while a slot is free | 4 slots, 4 cells, 3 packed ids, 3 cells in one probe sequence, 4 envelopes, 2 SeqEnds |
| `lane` | `ImplementsLane`; `SinkHoldsPrefix`: the sink has the effect of a prefix of what was taken; `FlushReturns` once the producers pause, unless it meets `Stop`; `EverythingReachesSink`, under the same condition; `TypeOK` | 2 producers, 2 callers of `Flush`, buffer 1, 2 envelopes with one SeqEnd, deltas that cancel out |
| `proxy` | `StateReflectsAcknowledged`: `/state` is what one log would give for what was acknowledged; `ShutdownKeepsAcknowledged`; `VQueueIsLog`: in the simulator the actor of a key holds what the V log holds, in its order; `TypeOK` | 2 callers, both programs, requests of every kind, buffer of a line and a half, a crash or exit at any moment and a restart |
| `churn` | `KPIsNonNegative`: points enter the window in order, so what it sums up never falls (the ratio of rows saved, made of it, is negative when commits outnumber naive writes); `KeysAddUp`: aggregates, with what evicted ones had, add up to the global sums; `LoopMatchesConfig`: one loop, if the configuration asks for it; `ExporterReleased`; `TypeOK` | 2 observers with 2 calls, 2 calls of `Enable`, a window of 2 points |

The bounds are chosen so that what makes each case interesting happens: three
goroutines are the least with one in the critical section, one stalled before it and
one ahead; two stripes make a scan non-atomic; a limit of 4 with amounts of 2 leaves
room for a refund between two commits; a threshold of 2 under a limit of 4 lets a key
be disarmed and go over the threshold again; a buffer of 1 with two producers blocks
one; sums torn by 2 can miss both units of a limit of 2; two failing batches can leave two
copies, and a failure before a crash both kinds of surplus; three cells in one probe sequence let a hole appear before a displaced cell; a
buffer of three chunks overflows within the second line; amounts that are powers of two
let a sum tell which requests are in it; a second `Enable` meets the loop of the first
at every point.
`MaxUsed`, `MaxStripe`, `MaxInstances`, `MaxTear`, `MaxWritten`, `MaxFailures`, `MaxCrashes`,
`MaxCalls`, `MaxErrors`, `MaxEnvelopes`, `MaxRestarts`, `MaxEnables` and `MaxPoints` bound what would grow without end. They
stand in the guards of the environment's actions (calls, requests, faults), or limit what
these do to a sum (`MaxTear`), never in those of the loops. They do make traffic end.
Where the code needs that, the property says so itself: `FlushReturns` and
`EverythingReachesSink` are about lanes whose producers stop sending (`TrafficEnds`),
`MaxAgeFlushes` about keys that traffic has left, and `CacheConverges` about the time
after the last call. The other liveness properties do not need it: what they wait for
is a call or a pass that makes a bounded number of rounds, and in `ThresholdCommits` an
instance that, without refunds, admits no more than `rate_limit` units anyway.

### Divergences

Two runs are refuted by TLC, each against a sentence of the repository (quoted under
`findings`):

| Run | The code | The sentence |
|---|---|---|
| `postgres_v_applied` | commits are marked and never applied | `persistence/postgres.go:125` |
| `churn_v_interval` | a loop reads its interval after the next `Enable` has replaced it by 0, and `time.NewTicker` panics | `telemetry/churn/exporter.go:98` |

Three more sentences are stated as properties that TLC refutes when they are added to
a run's configuration:

* `ShutdownLosesNothing` of `RateLimiter`, in `MCRateLimiter_writes.cfg`: admissions
  after the final flush are lost (`cmd/ratelimiter-api/main.go:225`).
* `FlushAlwaysReturns` of `SLane`, in `MCSLane_lane.cfg`: a `Flush` that meets `Stop`
  hangs, because `flushReqCh` is buffered and nobody answers any more
  (`plugin/tfd/sservice.go:90`). A `/state` during the shutdown of `tfd-proxy` does so.
* `StateExact` of `TFDProxy`, in `MCTFDProxy_proxy.cfg` with one more Vector request,
  `MCRequest("reverse", "k", "b", 64)`, in `MCEnvelopes`: a full buffer is written with half a line at its end; if the process dies before the
  other half follows, the first record of the next life is appended to that line and
  neither is read again, although the later request was acknowledged
  (`cmd/tfd-proxy/main.go:52-53`, "You can always replay state exactly").

The conditions in the passing properties mark further places where the code does less
than a sentence of the repository says. Each can be seen by dropping the condition
or by changing the constants as given:

* The fast, grouped and cached gates oversubscribe (`docs/invariants.md:85-93`):
  check `NoOversubscription` of `VSA` with `FastPathGuard`, `GroupCount` or
  `UseCachedGate` on. The cached gate also denies what fits, without the exact scan
  (`DenyJustified`; `docs/invariants.md:84`).
* A negative commit lowers the scalar (`ScalarLaw` with `UpdateAmounts` and
  `CommitAmounts` of -1; `docs/invariants.md:30`), and `Update` between the scan
  and the stores of `Commit` changes the availability
  (`CommitPreservesAvailability` with updates of -2 and 1; `vsa.go:290`).
* Hysteresis leaves a vector over the threshold for good (`ThresholdCommits` without
  `conf.low = 0`; `docs/invariants.md:27`).
* The eviction loop beside the commit loop writes a vector twice
  (`NoPhantomWrites` without `~conf.evict`), persists as a refund a vector whose sum is
  older than its offset (`CommittedIsDurable` with `maxAge` and `evict`), and drops
  what a handler consumes through a pointer it still holds (`core/worker.go:252`).
* With `/release`, a scan of `State` can miss an admission in a stripe that it has passed and
  see the refund that followed in one that it has not (`vsa.go:429`). The vector
  is then too small, even negative. It is persisted as it is, but `Commit` folds its
  absolute value, so memory counts units as durable that the store has not
  (`CommittedIsDurable` without `~conf.release`); and a vector over the threshold can look
  smaller in every pass and never be written (`ThresholdCommits` without
  `~conf.release`; `docs/invariants.md:27`).
* A refund between write and fold leaves the data store ahead (`NoPhantomWrites`
  without `~conf.release`), and a restart renews every budget (`KeyWithinLimit`
  without `crashes = 0`; `docs/math_cs_model.md:96`).
* Behind `IdemShim` a retry has new CommitIDs, so the commit it repeats counts again
  (`persistence/types.go:19`): the ledger of CommitIDs is kept, the intent is not. In the
  service this means that a batch that fails at the Redis adapter after some of its
  entries were applied (`redis.go:85-94`) leaves these entries in the store, and the next
  pass of the worker writes the same units again (`shim.go:47`). The durable total
  stays too high by that: `stray` in `NoPhantomWrites` and `MaxAgeFlushes`.
* The idempotency key of an S batch, (KeyID, BucketID, SeqEnd), is only as good as the
  SeqEnds of the callers. `tfd-proxy` and `tfd-sim` use `time.Now().UnixNano()`
  (`cmd/tfd-proxy/main.go:197`), which may repeat or go back; `plugin/tfd/readme.md:134`
  says that it is for the demo. Two batches can then have the same key with different
  deltas, and a sink that drops the second as a replay loses it. `RepeatedIdsWereGiven`
  says what is left: the table itself repeats none.
* `Flush` returns only when its drain loop finds the channel empty
  (`plugin/tfd/sservice.go:151-162`). Producers that refill it as fast as it is drained
  keep the caller waiting, and `/state` with it; `FlushReturns` is therefore stated
  under `TrafficEnds`. The drain of `Stop` has the same loop.
* After `FlushKey` a cell can occupy two slots (`plugin/tfd/readme.md:105`), so a
  table with a slot for every cell can fill up, and `Ingest` into a full table never
  returns (`IngestReturns` without `used = NumSlots`); on the lane's goroutine that
  also ends flushing (`plugin/tfd/sservice.go:42`). The count threshold flushes
  nothing: the result of `maybeFlush` is dropped (`plugin/tfd/readme.md:107`).
* An envelope accepted while `Stop` drains stays in the channel (`EverythingReachesSink`
  without `quiet`; `plugin/tfd/sservice.go:84`): what `tfd-proxy` acknowledges after the
  signal may be lost (`Ack` without `phase = "up"`, with `ShutdownKeepsAcknowledged`).
* Concurrent `/reverse` calls race on the router's map: queue and log of a key differ
  (`VQueueIsLog` without `prog = "sim"`). No program drains the queues, so they only
  grow.
* `VActor.Enqueue` sets `HashPrev` in its own copy of the envelope: what `persistV` logs
  does not carry it (`plugin/tfd/vactors.go:34`, "updates the prev-hash link"), and the
  hash is taken of the envelope's own SeqEnd.
* With stable CommitIDs a consumer that remembers only the last CommitID of a key counts
  a repeated message twice when another commit of the key came in between
  (`ConsumersConverge` without `~stable`; `persistence/kafka.go:44`), and messages keyed
  by CommitID are not ordered per key (`persistence/kafka.go:33`).
* An aggregate that is evicted while an observer holds it loses what that is about to
  add (`KeysAddUp` without `~raced`), so that the churn ratio of a key can be lower than
  it was.

## 4. Fairness

* *VSA*: weak fairness of each goroutine's steps (preemptive scheduling), strong
  fairness of taking `tryMu` (Go's mutex hands over to a waiter of more than 1 ms),
  weak fairness of the aggregator's tick.
* *RateLimiter*: weak fairness of handlers in a call, of both loops, of the passing of
  time and of main's shutdown steps; strong fairness of choosing a closed `stopChan`
  (`select` picks uniformly among the ready cases). Requests, signals, failures and
  crashes are never forced.
* *Adapters*: weak fairness of each call: the client answers or fails, a statement runs
  or the call runs into its deadline. Retries are never forced.
* *Churn*: weak fairness of a call of `Enable` and of the loop; strong fairness of
  choosing the closed stop channel. Observers and callers are never forced.
* *TFDProxy* has safety properties only.
* *SShard, SLane*: the service goroutine runs, each ready case of its `select` is
  chosen sooner or later, and a channel serves blocked senders in turn.

## 5. What is proved

Every theorem holds for any values of the constants that satisfy the `ASSUME`s of the
module: any sets of goroutines, keys and requests, any sizes, limits and amounts, and
any bounds. To repeat the proofs, run `tlapm` on the seven modules below and on
`SumProofs`.

| Module | Theorem | Statement |
|---|---|---|
| `VSAProofs` | `TypeCorrect` | `Spec => []TypeOK` |
| | `NetStaysNonNegative`, with `NoUpdates` | `Spec => []NetNonNegative` |
| | `ScalarLawHolds`, with `NoUpdates` | `Spec => []ScalarLaw` |
| | `CommitsPreserveAvailability`, with `NoUpdates` | `Spec => CommitPreservesAvailability` |
| | `DenialsJustified`, with `ScannedGate` | `Spec => DenyJustified` |
| | `ExactGateNeverOversubscribes`, with `ExactMode` | `Spec => []NoOversubscription` |
| | `ExactGateImplementsQuota`, with `ExactMode` | `Spec => ImplementsQuota` |
| | `RedundantSumsAgree` | `Spec => []SumsAgree` |
| `RateLimiterProofs` | `ServiceTypeCorrect` | `Spec => []TypeOK` |
| | `OneBudgetPerKey` | `Spec => []KeyWithinLimit` |
| | `FoldsFollowWrites` | `Spec => []CommittedIsDurable` |
| | `WritesWereTaken` | `Spec => []NoPhantomWrites` |
| | `FlushIsComplete` | `Spec => []FlushLosesNothing` |
| `AdaptersProofs` | `AdaptersTypeCorrect` | `Spec => []TypeOK` |
| | `BatchesAreAtomic` | `Spec => []BatchesAtomic` |
| | `AdaptersImplementLedger` | `Spec => ImplementsLedger` |
| | `ConsumerArrives` | `Spec => []ConsumersConverge` |
| `SShardProofs` | `ShardTypeCorrect` | `ShardSpec => []ShardTypeOK` |
| | `ShardConservesDeltas` | `ShardSpec => []DeltasConserved` |
| | `ShardRepeatsOnlyGivenIds` | `ShardSpec => []RepeatedIdsWereGiven` |
| `SLaneProofs` | `LaneTypeCorrect` | `Spec => []TypeOK` |
| | `SinkIsPrefix` | `Spec => []SinkHoldsPrefix` |
| | `ServiceImplementsLane` | `Spec => ImplementsLane` |
| `TFDProxyProofs` | `ProxyTypeCorrect` | `Spec => []TypeOK` |
| | `StateIsExact` | `Spec => []StateReflectsAcknowledged` |
| | `ShutdownIsOrderly` | `Spec => []ShutdownKeepsAcknowledged` |
| | `QueueMirrorsLog` | `Spec => []VQueueIsLog` |
| `ChurnProofs` | `ChurnTypeCorrect` | `Spec => []TypeOK` |
| | `OneLoopAsConfigured` | `Spec => []LoopMatchesConfig` |
| | `KPIsGrow` | `Spec => []KPIsNonNegative` |
| | `AggregatesAddUp` | `Spec => []KeysAddUp` |

**Assumptions.** They give the constants their types, and besides say what the code has by
itself: goroutines, callers, keys, partitions and requests are finitely many (without
that a sum means nothing), a packed id is never the 0 of an empty slot, a mark for
"nobody" (`NoThread`, `"none"`, `"free"`) is not one of the goroutines. The modes of
`VSAProofs` are hypotheses on the options: `NoUpdates` (the rate limiter never calls
`Update`; the fast path, the cached and the grouped gate may be on), `ScannedGate` (and no
cached gate), `ExactMode` (and no grouped scan or fast path: the default options). The
other conditions are part of the properties; section 3 says what happens without them.

**Sums.** `SumOver` is a fold over a set in an order that nobody knows. `SumProofs` shows
that the table behind the fold exists and is unique, and from it that the order does
not matter: any element can be taken out first (`SumRemove`). The usual laws follow (one
value changes, disjoint sets, renamed elements, sums by classes). Where one would use
induction, a set that is minimal among the counterexamples is taken
(`MinimalSet`: proper inclusion is well-founded on the subsets of a finite set), and one
element is removed from it. `MaxExists` and the lemmas about reading orders and logs in
the other modules go the same way.

None of the properties is inductive by itself. The invariants:

**VSA.** A consumer that is about to add has decided some steps ago, so the invariant has
to say what its decision is still worth:

* `ControlInv`: only the holder of `tryMu` is inside the critical section, and which
  call can be at which point.
* `AmountInv`: what a call in flight may still do to the totals. A refund about to be
  added leaves the net non-negative, a commit half way stays within the net, and in
  `ExactMode` a consumption about to be added fits.
* `LedgerInv`: the scalar has lost what the offset has gained, except for the commit
  between its two stores.
* `CellInv`: there is a function of prefix sums of the cells that ends in `used`, and
  every scan under the lock is at most the prefix it has passed, and together with
  what is still to come covers the offset. Scans lag behind consumers on the fast
  path, and only consumers write without the lock, so a scan is never too high, and
  without lock-free writers it is exact.
* `SumsInv`: stripes, cells and `approxNet` differ from `used` by exactly what the calls
  between two of the three stores still have to add.

`ExactGateImplementsQuota` maps `committed` to `committedOffset`; every step is a
`Consume`, `Refund` or `Commit` of `Quota`, or leaves both variables alone.

**RateLimiter** (`Inv`). `PointersInv` and `FoldInv`: pointers lead to published
instances, and an instance has committed no more than it holds. `NoEviction`: without
eviction the store keeps what it has, and has one instance per key. The next two are for
`Steady` configurations, without eviction and refunds. `CommitInv`: the batch holds
vectors of instances in the store, none of a key that is still to be visited, and a fold is
of an entry that was sent (`BatchInv`); a sum in progress lies between what is folded and
what is taken, whichever admissions it has missed (`VisitInv`). `WriteInv` (`WriteParts`):
what successful calls have written is what is folded or, for the entries in `cSent`, about
to be, and no more than what was taken; `stray` is at most one copy of that for each
failed call. The bound is a product, which the solvers do not do by themselves: the lemma
`Copies` says that another failed call makes room for another copy. After a crash the
first part is an inequality, since what was written and not yet folded is never folded.
`FlushInv`: in the final pass without clients a sum is exact, and a key that was visited
has no unit outside its offset and the batch.

**Adapters** (`AdaptersInv`). `WrittenInv`: nothing is acknowledged or taken off the
loop's list before the store has it. `MarkerInv`: a commit that may be sent once more
still has its marker, although acknowledged ones expire. `TopicInv`: with fresh
CommitIDs no CommitID has two messages, nor two senders. `TxInv`: an open transaction has
inserted the entries before its index, or somebody has committed them. In the refinement,
a script or a message is `Apply` or, when the CommitID is known, a stutter, and the
return of nil is `Acknowledge`. `ConsumerArrives` needs more: each of `Reads` is a
bijection with the messages, so no CommitID comes twice, the consumer skips nothing, and
its sums are those of the topic.

**SShard** (`ShardInv`). `TableInv`: an occupied slot has the name and the id of one of its
cells, and `used` counts the occupied slots. `Stamped`: what is at the probe, in a slot or
handed on has a packed id and a SeqEnd that some envelope came with, and what is in two of
these places came twice. A slot has the greatest SeqEnd of its envelopes, and nothing of
the ones before them, because it is cleared as a whole. `DeltasConserved` does
not depend on it: the batches of a flush are one per slot.

**SLane** (`LaneInv`). The shard's invariant, and: `ChannelInv`, the channel holds the last
envelopes that were taken, and if the table is empty and none is being placed, the sink
has all the others; `FlushCallInv`, a call of `Flush` is in one place, sending, in the
request channel or being served; `SumInv`, shard and sink were given prefixes of
`alog`. `ServiceImplementsLane` maps `spc = "done"` to `stopped`: the reply to a `Flush`
finds channel and table drained since the call, so `handed` has reached `asked`.

**TFDProxy** (`ProxyInv`). `LogInv`: unless a life began on a torn file, a log is whole
lines (but for its end after a crash), each request is in at most one record and is in
one place: on its way, waiting in the lane, logged, or void. `MustInv`: what was
acknowledged is waiting or logged, and what is `safe` is in the files. `StateInv` follows
a `/state` through its flushes: what it must show has left the lane, then the buffers, and
is then in what it has read, for the logs only grow (`Growing`). `ReplayIs` is the heart:
replaying a sound log is applying, in any order and once, the requests that its records
stand for, and `SettleSplits` says that a full buffer moves to the file without
changing the log. `PhaseInv`: what the order of the deferred calls leaves behind.
`QueueInv`: in the simulator only the generator uses the router, its actors stay, and
a queue is ahead of its log by the request that is about to be logged.

**Churn** (`ChurnInv`). `MadeInv`: loops are made one by one, and no more than calls of
`Enable`. `MutexInv`: only the holder of `exporterMu` touches `exporterStop`; only its loop
can be running, and a loop ends only when its channel is closed. `PointsInv`: the points
grow, and the counters that a loop has loaded lie between the last point and their
present values; that no two loops run is what makes a new point the greatest.
`KeysInv`: aggregates and the global sums differ by what observers have counted for a key
and not yet in total.

**Only model-checked.** Liveness, which is out of the prover's reach, as is `ENABLED`:
`CallsReturn` of `VSA` and of `Adapters`, `CacheConverges`, `ThresholdCommits`,
`MaxAgeFlushes`, `ShutdownCompletes`, `IngestReturns`, `FlushReturns`,
`EverythingReachesSink`, `ExporterReleased`. That a step of `TFDProxy` with the lane of
`Lane` stands for what happens with `SLane` is argued by `ServiceImplementsLane` for the
lane by itself; the composition of `TFDProxy` with `SLane` is not stated. The same is
true of `RateLimiter` and `VSA`.

## 6. What is not modelled

* `Drain`/`DrainV` of the V-lane: no program calls them. The audit hash: see Divergences.
* The inside of `SimpleVSA.Compress`, whose table is modelled by its result.
* Errors of the file system: after one, a `bufio.Writer` refuses every later write.
* The top-N ranking, rendering and colours of the telemetry, and everything else that
  only prints: the mock persister, the event counters, the logging clients.
* int64 overflow; a packed id of 0; collisions of `HashKey`.
* Benchmarks and the load generator, which only call what is modelled; flags, response
  headers, `/healthz` and `/metrics`.

## 7. Plan

Done, in this order: `VSA` with `Quota` and its proofs, `RateLimiter`, `Ledger` with the
three adapters, `SShard`, `Lane` with `SLane`, `FileSinks` with `TFDProxy`, `Churn`; then the
proofs of all their safety properties and refinements. What is left:

1. An abstract specification of the commit protocol (take, write, fold) that
   `RateLimiter` without eviction implements.
2. What holds of `RateLimiter` with the eviction loop or with refunds: by how much a store
   may be behind or ahead of memory when both loops write, or when a sum is torn.
3. What `/state` shows after a life that began on a torn file.
4. The table of `SimpleVSA.Compress` against its result.
