# Verification of distributed-cache-lab

TLA+ models of the cache laboratory in this repository, the TLC runs that check
them on small instances, and the proofs, checked by TLAPS, of the properties of
its write path, its cache store, its read path, its circuit breaker, its reset, its
console and its event feed for every number of keys, callers, browsers, events and
faults.

## 1. The system

Two API replicas behind nginx, two workers, one PostgreSQL and one Redis.

| Component | Source | State | Operations |
|---|---|---|---|
| Cache store | `packages/platform/src/cache-store.ts` | in Redis: a string per entry, the set of members, one sorted set per eviction policy, the hash of version watermarks ("fences") | `get`, `touch`, `put`, `invalidate`, `invalidateThroughVersion`, `flush`, `trim`, `list` |
| Write path and outbox | `apps/api/src/resources.service.ts`, `apps/worker/src/outbox-processor.ts` | tables `resources` and `cache_outbox` (status, attempts, next_attempt_at, updated_at); the event a worker is processing | `write`; `claim`, `processNext`, `complete`, `retry`, `run` |
| Read path | `apps/api/src/resource-cache.service.ts` | local state of each request | `read`, `fetchAndFill`, `readBypass`, `enqueueRefresh` |
| Distributed lock | `packages/platform/src/distributed-lock.ts` | one Redis string per key, with a 2 s expiry | `acquire`, `release` |
| Circuit breaker | `packages/platform/src/circuit-breaker.ts` | `failures`, `openUntil`, per API process | `execute`, `isOpen` |
| Refresh queue and worker | `apps/worker/src/refresh-worker.ts`, `apps/api/src/infrastructure.module.ts` | BullMQ job, deduplication id, attempts | `add`, `refresh` |
| Lab settings and clock | `packages/platform/src/lab-state.ts`, `apps/api/src/lab.service.ts` | settings hash, clock offset, metrics, trace, heartbeats | `ensureDefaults`, `getSettings`, `patchSettings`, `now`, `advanceClock` |
| Lab reset | `apps/api/src/lab.service.ts`, `packages/platform/src/seeds.ts`, `lab-state.ts` | none of its own: it rewrites PostgreSQL and Redis step by step | `reset`, `resetSeedData` |
| Fault injection | `apps/api/src/lab.service.ts`, `apps/api/src/toxiproxy.service.ts` | the toxics of two proxies | `setFault`, `getFaults` |
| Event stream | `packages/platform/src/event-bus.ts`, `apps/api/src/events.controller.ts` | a capped Redis stream, an SSE cursor per browser | `emit`, `recent`, `stream` |
| Web console | `apps/web/src/useLab.ts`, `App.tsx` and components | state on display, last 30 events, `busy`, `error` | poll, subscribe, act |

How they interact. A read goes through the breaker to the cache store; on a miss
it takes the lock, reads PostgreSQL and puts the result; a stale answer queues a
refresh job, which a worker executes with the same `put`. A write never touches
Redis: it commits a new version and an outbox event, and a worker applies the
event later by `invalidateThroughVersion` or `put`. An operator changes
settings, advances the clock, flushes or resets, from the console. All of them
meet in five Redis structures, and only Lua scripts and MULTI blocks are atomic.

What is hard in it: puts computed from an origin read, a clock and settings of
long ago; calls that are several Redis commands; commands that time out and are
executed all the same; leases, of the outbox and of the lock, that run out under
a slow owner; retries of what was already done; events of one key applied out of
order; a logical clock that jumps while requests are under way.

What makes each part correct:

- cache store: no version older than the fence is ever stored; the indexes name
  the same keys and exactly the live ones; the pool keeps its slot budget; an
  eviction takes the lowest-ranked entry;
- outbox: every committed write is reconciled; a completed event stays completed
  and its effect is never undone; only the latest claim settles an event;
- read path: no answer is older than what was reconciled before the request; its
  staleness is bounded; one origin read per lease; every request is answered;
- lock: only its owner or its expiry removes it; breaker: it opens in an outage
  whatever overlaps, each time for a bounded period, and closes for good after it;
- event stream: a browser gets each event once and in order, misses none once it
  has received one, and in the end has and displays the newest;
- settings: a patch changes no setting but its own, unless another write came
  between its read and its write;
- reset: once Redis is swept nothing in it is ahead of the new rows but what a
  caller, or another reset, carried over the reseed;
- console: it ends up displaying what is there, with its controls enabled; what it
  says of version drift is true; an outage is announced before it begins.

## 2. Modules

| Module | Models | Relation |
|---|---|---|
| `VersionedCache` | what the cache promises, in two variables per key: the version held and the fence | abstract specification |
| `Reconciliation` | API writes, outbox workers, fills, flushes | EXTENDS `VersionedCache`: every cache command of an actor is an action of it |
| `CacheStore` | the pool in Redis with its indexes, expiry, trim, the multi-command calls and the settings patch | implements `VersionedCache` (`ImplementsVersionedCache`) |
| `ReadPath` | one key of `GET /resources/:key` with lock, breaker and refresh job | uses the effects of the two above on one entry; implements `VersionedCache` for that key (`ImplementsVersionedCache`, proved) |
| `LabReset` | a reset while fills, refresh jobs, outbox workers and settings patches go on | EXTENDS `VersionedCache` |
| `CircuitBreaker` | the breaker of one replica under overlapping calls, with time | separate; `ReadPath` takes a guarded call as one step |
| `LabConsole` | polls and actions of `useLab`, `GET /lab/state`, what each action does on the server, the redis-outage drill | separate, over one resource |
| `EventStream` | the Redis stream, the SSE loop, an EventSource that reconnects, the list of events on display | separate: nothing else reads the stream |
| `ReconciliationProofs`, `CacheStoreProofs`, `ReadPathProofs`, `CircuitBreakerProofs`, `LabResetProofs`, `LabConsoleProofs`, `EventStreamProofs` | the theorems about the module of that name | EXTEND it and TLAPS |
| `NumberLemmas` | induction, least and greatest elements, stated of sets of numbers | cited by three of the proofs |
| `MCReconciliation`, `MCCacheStore`, `MCReadPath`, `MCEventStream`, `MCLabReset`, `MCCircuitBreaker`, `MCLabConsole` | values for TLC, symmetry | EXTEND their module |

Definitions named "mutant of ..." are not part of the model: each is a plausible
bug in the definition that follows it, and shows that some property notices.

### VersionedCache and Reconciliation

`cached[k]` is the version of the entry of `k`, `watermark[k]` the field of
`cacheVersionWatermarks`; -1 (`Nil`) is the absent entry and the `or '-1'` of the
scripts. `Put` is PUT_SCRIPT seen through versions: `Store`, which may cost any
other keys their entries (pruning and eviction), or `Refuse`, which changes
nothing. `InvalidateThrough`, `Drop` (expiry, trim, eviction by `get`) and
`Clear` (flush) are the other calls.

An event id is its place in the order of `created_at`, the transaction's start
time; since the row lock is granted later, the order of versions may differ, and
`Write` picks any free id. `due[e]` stands for the time conditions of the claim
query: `next_attempt_at` has come for a pending row, the lease has run out for a
processing one; `Elapse` and `Stall` set it. `late` holds the cache commands whose
sender timed out or died: they may be executed at any later time, or never. A
SQL statement of `complete` or `retry` that reports an error was executed or not
(`CompleteFails`, `RetryFails`). Fills read the origin in one step and put in
another, however much later. `Flush` picks the set of entries its SMEMBERS had
seen; `torn` remembers that the latest flush missed one.

### CacheStore

One action per script or MULTI; `get`, `list`, `flush` and the settings patch are
processes (`client[c]`) with an action per command. A script's caller may have
been slow: `now` is any time already past and the settings any that have been in
force (`configured`). Keys are numbers so that equal scores are ordered by
member, as Redis orders them. The loop of TRIM_SCRIPT is written as a set
(`TrimVictims`) and compared with the loop, a recursive function (`TrimLoop`). `Expire` is the PX
expiry, which removes the string and leaves the indexes. `overtaken` remembers
that a put landed between the two commands of somebody's `list` or `flush`.

### ReadPath

`req[r].pc` is the place of request `r` in `read`: settings, get (with drop, its
second command), touch, enqueue, lock, poll, origin, put, release, bypass. A step
is one awaited command. A command that goes through `breaker.execute` is refused
when the breaker is open (`Refused`), and otherwise may fail with its effect done
or not (`CommandFails`); the commands outside the breaker (the queue, `now()` in
the waiting loop, the release) fail by `UnguardedFails`. `job` is the BullMQ job
that owns the deduplication id of the key and `exec[w]` what a worker slot is
executing, which may be a job BullMQ has given away already (`Stall`). The
outbox shows as `Reconcile`: any committed version, any order, either policy.
Different keys share only the breaker and the pool; the first is what several
requests of one key share as well, the second is `Evict`. Histories: `superseded`,
when each version was replaced; `started` and `floor`, the clock and the fence when a
request began; `older`, that the record `touch` returned was of an older version than
the one the lookup before it had found.

### EventStream

Stream ids ascend, so an event is its place in the stream, which holds
`trimmed + 1 .. appended`. `sse[b].pc` is the place of the server's loop for
browser `b`: about to XREAD, blocked, with a reply, or in the half-second pause
after an error; `Latest` is the cursor `$`, which every XREAD resolves anew.
`wire[b]` is what was written and not yet received, and is lost with the
connection. `lastId` is the EventSource's own, set only by events that carry an
id. `recent` is the console's one request for the last 30 events, whose reply
replaces the display; `overwritten` remembers that it lacked an event shown.

### CircuitBreaker

A call of `execute` is `Begin` (the guard has let it pass) and, any time up to
`Timeout` later, `Succeed` or `Fail`; `Refuse` is the guard's throw. `openFor` is
`openUntil - Date.now()`. An operation may succeed when Redis has been reachable
at some time during it, and fail when it has been unreachable (`saw`). `openSpan`
is history, the ticks since the breaker was last closed; it saturates at `TooLong`.

### LabReset

`caller[p]` is a request or refresh job that fills (`default`, `row`, `put`), a
worker with an event (`apply`, `settle`) or a settings patch (`default`, `values`,
`write`), each step one command, with `GiveUp` at every one. `settings` is the hash:
whether it exists, and which fields differ from the defaults. A fill's steps before
its settings read have no effect and are left out; which worker may claim what is in
`Reconciliation`, here any open event may be taken again and again.

`reset[x].pc` is the next step of operator `x`'s `LabService.reset`: `scan`, `delete`
(with what the SCAN found), `defaults`, `settings` (with `ensure` when another reset's
DEL has taken the hash away again), `find`, `warm` (with the rows of `findBy` and the
puts that are left). Nothing in the code keeps two consoles or two replicas from
resetting together, so the steps of the resets interleave freely; only the reseeds, two
transactions that TRUNCATE the same tables, exclude each other. A command that its
reset, or its caller, has given up (`commandTimeout`) may be executed all the same: until
it is executed or lost whoever sent it stays where it is, as a slow one does, and when
it is executed the reset may go on or be over (`Then`). A console that starts again after
a failure is another operator.

Histories: `carried`, the callers and operators that held a row or an event at the latest
reseed; `sweeping`, the operators whose SCAN is later than that reseed and than all that
those of `carried` have written; `swept`, that such a SCAN has been followed by its DEL;
`overtaken`, the callers whose settings others have written since they read them.

### LabConsole

`fetch[x]` is a `GET /lab/state`, asked by a poll or at the end of an action: first
the versions and the faults are read, then the settings and the entries, then the
answer arrives and replaces the display, in whatever order the answers come.
With Redis cut the answer shows default settings and no entries (`Defaults`).
`act[a]` is a call of `run()`: sent, half done where the server does two things, or
refreshing. A click needs the control to be enabled, which `busy` decides, and a
switch sends the opposite of what is displayed, even of the fallback's defaults. The
drill announces itself and then adds the toxic; ending it does the opposite.

Worth knowing, and visible in this model: `busy` holds one name and the end of any
action clears it, so that the switch of a drill is enabled while the drill is under
way; two drills may cross and leave Redis cut under the event CLEARED
(`OutageAnnounced` excepts exactly that). A switch clicked during an outage sends the
opposite of the default rather than of the setting, and a failed action's message
lasts until the next poll.

## 3. Runs

| Run | Instance | Shows |
|---|---|---|
| `reconciliation_safety` | 1 key, 2 events, 2 workers, 1 filler, 2 faults, 1 flush | every safety and action property of `Reconciliation` |
| `reconciliation_liveness` | the same, no flush | `EveryEventReconciled`, `CacheConverges` |
| `reconciliation_torn_flush` | the same, no fault | finding: `FloorHoldsSinceFlush` fails |
| `cache_index` | 3 keys, capacity 2, LRU and LFU, 1 client, put/touch/get/list/flush | index, evictions and the trim are exact |
| `cache_windows` | 2 keys, 2 versions, capacities 1 and 2, LRU, 2 clients between the commands of get, flush and a patch, with puts and invalidations | `PolicyIndexesAgree`, `SlotBudget`, `TrimReachesCapacity`, `ImplementsVersionedCache` |
| `read_requests` | 2 requests under three settings, 1 refresh worker, 2 faults, 1 expired lease | `OneFetchPerLease`, `OnlyTheOwnerReleases`, `EveryRequestIsAnswered`, `EveryRefreshSettles` |
| `read_staleness` | 2 requests, 1 worker, 2 versions, clock 0 to 2, 1 eviction or flush | `AnswersSeeTheFence`, `BoundedStaleness` |
| `event_feed` | 1 browser, 5 events, stream, page and display of 2, 2 faults, 1 reset | `DeliveredOnceInOrder`, `NoGapOnceFollowing`, `StreamCatchesUp`, `DisplayCatchesUp` |
| `breaker` | 4 calls, threshold 2, reset 3 ticks, timeout 2 | `OpenPeriodBounded`, `ClosesAfterOutage`, `OpensInLastingOutage` |
| `lab_reset` | 1 warm key, 2 versions, 2 settings, 2 callers, 2 resets at once | `ResetLeavesNoOldData`, `PatchesKeepOtherSettings` |
| `lab_reset_ghost` | the same, 1 reset | finding: `ResetIsDeterministic` fails |
| `lab_console` | 1 poll and 2 actions at a time, 3 inputs, 1 failure | `DriftIsReal`, `OutageAnnounced`, `DisplayConverges` |

Deadlock is checked everywhere but in `ReadPath` and `EventStream`. In `ReadPath`
the requests are finitely many and each is answered once, so the system does stop; that none of them is stuck is `EveryRequestIsAnswered`.
In `EventStream` the emitting is bounded and an EventSource that a reconnect
refused stays closed, so it stops too; its liveness properties say where.

### Bounds and why they are enough

- Keys: one in `Reconciliation` and `ReadPath`, because no two keys share a row,
  event, fence or lock; eviction by others is an action that needs no second
  key. The proofs hold for any set of keys. Three in `cache_index` with
  capacity 2: the smallest pool in which a victim is chosen among two. Two in
  `cache_windows` with capacities 1 and 2, enough for a patch to shrink a full
  pool; evictions among more are proved.
- Two events and two workers: a lease can be stolen, an older event can be
  applied after a newer one, and a third version is the seed. `MaxFaults = 2` is
  one fault to lose an answer or a worker and one more on the way of the retry.
- `Calls` chooses the operations a run of `CacheStore` exercises: all of them at
  once are beyond TLC, and each run contains those its properties depend on.
- `MaxClock`, `MaxHits`: one tick separates fresh from expired, one hit separates
  the LFU scores. In `read_staleness` two ticks exceed the shortest life.
- `Threshold` is 2 in the code; `read_requests` takes 1, so that two requests are
  enough to open a breaker and find it open, the other runs take 2. `MaxPolls` (20 in the code) is 1 or 2,
  since the loop carries nothing from one poll to the next but the counter;
  `MaxTries = 2` for 4 likewise.
- `MaxLen`, `Page` and `Keep` of `EventStream` stand for 250, 50 and 30. Two makes
  every page, trim and display overflow with five events. Browsers share nothing
  but the stream, which they do not change, so one is enough.
- `breaker`: four calls are twice the threshold, so that failures of calls begun
  before an opening can open it anew; `Reset` and `Timeout` are close together, as
  the 3 s and the two or three commands of 800 ms are.
- `lab_reset`: keys share no row, fence or entry, and the steps between them are
  those of the reset, which treats its keys alike. One caller reads, refreshes and
  works on events, the other one patches: each overtakes the other, and resets overtake
  both; that two patches overtake each other is left to the proof. Two versions bring
  a carried one above the seed; with two resets at once the first may fail halfway, or
  be in the middle of its warm puts, when the second one sweeps.
- `lab_console`: two actions and a poll give three answers in any order; three inputs
  are enough to cross two drills. The names of actions are interchangeable, so a
  click takes the first free one.
- `MaxFlushes`, `MaxLeases`, `MaxLosses`, `MaxResets` bound how often a behaviour is disturbed.

Symmetry is used only in runs without liveness, over clients, workers, requests
and replicas, which the specifications never compare.

### Fairness

`Reconciliation`: weak fairness of each worker's next step, because `run()` loops
until the process is stopped and catches every error, and of time passing for
each event. `ReadPath`: weak fairness of each request's next step, because every
await settles (`commandTimeout` in `redis.ts`, timers in the loop, the breaker
throws at once), and of a refresh worker's, because BullMQ hands queued jobs to
free slots. Writes, fills, faults, late commands, expiry of a lock and recovery
of a breaker are never promised; no liveness property needs them. `EventStream`:
weak fairness of the server's loop (`XREAD` blocks at most 5 s, and only on an
empty page), of the browser receiving what is on the wire, and of the console's
request, which its timeout settles. Emitting and giving up are not promised, and
the liveness properties leave out a browser whose EventSource has given up.
`CircuitBreaker`: time passes and every call settles; that clients call, and that an
outage ends or lasts, are hypotheses of the properties. `LabConsole`: the timer of
`useLab` fires, and each step of an answer or an action is taken, or fails, since
every command of a handler settles. Clicks, failures and changes by others are
bounded and not promised.

## 4. What the code does not keep

Two statements of the repository's documents fail in a run.

1. *Retries and out-of-order completion are safe* (`docs/architecture.md:95`), run
   `reconciliation_torn_flush`. `flush` deletes every fence but only the entries
   its earlier SMEMBERS saw. An entry stored in between survives with no fence; it
   refuses the older put of an event, which is then completed although no fence
   was raised; when the entry leaves, an older fill is admitted. Everything proved
   in section 5 therefore carries `~torn` where it needs it.
2. *Restore deterministic origin, cache, metrics, and clock state*
   (`lab.controller.ts:46`), run `lab_reset_ghost`. A worker that has claimed an
   invalidation of version 2 executes it after the DEL of the reset: the fence is 2,
   the row is back at 1, and the warm entry as well as every later fill is refused
   until the row has been written again. A second reset does the same to the first:
   the first has read version 2 with its `findBy`, the second reseeds and sweeps, and
   the first one's warm put of 2, slow or timed out, comes after that. What does hold is
   `ResetLeavesNoOldData`: a DEL whose SCAN came after the latest reseed, and after all
   that had been read before that reseed and was written since, by a caller, a late
   command or another reset, leaves nothing ahead of the rows.

Four more disagree with the code in the same models; each is a small predicate over
a model here, and what holds instead is a property of a run.

3. *The set is the authoritative entry index* (`docs/architecture.md:55`):
   `Live \subseteq index` fails in `CacheStore` when a put lands between the MGET and
   the sweep of a `list`. What holds: `IndexExact`.
4. *Changing capacity trims immediately* (`:61`): a put prepared before the patch
   refills the pool past the new capacity. What holds: `SlotBudget`, never more than
   the largest capacity ever configured, and `TrimReachesCapacity`.
5. *Only the lock owner reports a cold miss* (`scripts/e2e.mjs:47`): there is no second
   lookup under the lock, so a request that looked before the fill and takes the lock
   after it reports another MISS. What holds: `OneFetchPerLease`.
6. *The browser consumes a resumable SSE endpoint* (`docs/architecture.md:99`): until
   the first event is delivered the cursor is `$`, so an event emitted between two
   reads of an open connection is skipped for good. What holds: `NoGapOnceFollowing`.

`BoundedStaleness` excepts entries stored by write-through events: such an event
may be applied long after a later write has superseded its version, and until the
later event arrives the entry looks fresh. The property speaks of data, not of
entries: *after hard expiration it is a miss* (`docs/architecture.md:47`) is true of
`get`, which checks, but the record `touch` returns replaces the checked one
(`resource-cache.service.ts:84`) and is served stale without a look at its own hard
expiry. As long as fences last that record is a fill of the same version or a newer
one, so its data are as recent as the checked one's. After a flush it may be the fill of
a request of long ago, older than the entry the lookup found; the attempt to prove the
bound found this case, TLC needs three requests to show it, and the property excepts
it (`older`).

## 5. Proofs

`ReconciliationProofs` proves, for every `Key`, `Version`, `Event`, `Worker`,
`Filler` and every bound, the safety and action properties that
`reconciliation_safety` checks. Assumed are only `VersionAssumption` and
`ReconciliationAssumption`: versions, events, seeds and bounds are natural numbers.

None of the safety properties is inductive alone. `IndInv` adds to them:

- `EventsKnown`, `VersionsBounded`: everything on its way to the cache, in an
  outbox row, a worker, a late command or a fill, refers to a committed write and
  carries a version between the seed and the origin; this gives
  `NeverAheadOfOrigin`, hence a fence never refuses the current version;
- `OutboxCoversOrigin`: the newest version of a written key has an event; with
  the next part this gives `QuiescentCacheIsCurrent`;
- `EffectsFenced`: unless the latest flush was torn, an entry has a fence at least
  as high, and so has every effect since that flush, applied or completed. With
  `FenceHolds` this gives `ReconciledFloor`;
- `TokensIssued`, `TokensDiffer`, `EpochsPast`: tokens in use were issued by
  `attempts` and no two workers share one, which gives the two action properties.

The proof takes each action through each part it can disturb; the put, the
invalidation and the settling of an event are lemmas that several actions cite.

`CacheStoreProofs` proves, for every `Key`, `Version`, `Capacity`, `Eviction`,
`Lifetime` and `Client`, everything that `cache_index` and `cache_windows` check of
`CacheStore` itself, from `CacheStoreAssumption`: keys and versions are natural
numbers, the keys finitely many, capacities positive. The argument in its order:

- `TypeOK` and `PolicyIndexesAgree` are inductive as they stand, action by action;
- the refinement: a put that is refused changes nothing, an admitted one is
  `Store` with the pruned and evicted keys as the ones it costs, and all that
  remains are drops, a `Clear`, and steps that touch no version;
- `IndexExact` is not inductive: a sweep or a flush could remove a live entry from
  the indexes. `ExactInv` adds `WindowsHarmless`: as long as no put has overtaken
  anybody, what a client is about to sweep has no live entry, and what it is about
  to flush has all of them;
- every nonempty part of a sorted set has a first member (`FirstExists`, from the
  well-foundedness of the naturals), so a full pool has exactly one victim, which
  is live and ranked lowest (`VictimIsOne`). This gives `SlotBudget` by counting,
  `EvictionIsExact`, and `TrimReachesCapacity`: the first key a trim leaves shows
  how many it left.

`CircuitBreakerProofs` proves `TypeOK` and `OpenPeriodBounded` for every `Call`,
`Threshold`, `Reset` and `Timeout` that satisfy `BreakerAssumption` (positive
naturals). `AdmittedBefore` carries the argument: while the breaker is open every
call still running was let in before it opened, so that `left + openSpan` is at
most `Timeout`; only such a call can open it anew, hence before `Timeout` is over.

`LabResetProofs` proves `TypeOK`, `ResetLeavesNoOldData` and
`PatchesKeepOtherSettings` from `LabResetAssumption` (versions are naturals, the
warm keys have a seed, callers and operators are disjoint), for any number of resets
that overlap in any way. `ResetInv` says of every row, event and version under way,
those of the warm puts of each reset among them, that it is not ahead of the origin
unless it was carried over the reseed (`SafeSources`), and of Redis that what each DEL
that counts is going to leave, and what one has left, is clean (`CacheClean`). The DEL of
another reset, whatever it had found, only takes away. The settings need one
invariant more, `RelyInv`: what a caller has read and no other write has overtaken is
what the hash still holds.

`ReadPathProofs` proves the four safety properties of `ReadPath`, its `TypeOK` and its
refinement, for every `Request`, `Instance`, `Worker`, set of `Modes` and bound, from
`ReadPathAssumption`: finitely many modes, with positive times to live, and naturals.

- Locks: `OneFetchPerLease` is not inductive, since it forgets who holds the lock.
  `LeaseInv` says that the owners fetching without the lock are at most the leases
  that ran out, and that a lease is held from the lock to its release and no longer;
  only an expiry adds to those owners, one at a time (`ExpiryLease`).
- Answers: `AnswerInv` describes each request, refresh and the entry by itself. A row
  somebody has read is committed and at least the fence he began from (`Row`); it was
  current when he took the clock he will date it with (`Since`); hence an entry that no
  event replayed was current a lifetime before its hard expiry (`Aged`), and a record
  returned by the lookup less than `MaxLife` before the lookup (`Fresh`). `Since` speaks
  of the version and of all after it, so that a newer entry never makes an answer
  older. With `HistoryInv` (a version is superseded once, in the past, and row 0 never)
  this gives `AnswersSeeTheFence` and `BoundedStaleness`. `MaxLife` is a maximum over
  the modes, which exists because they are finitely many (`FiniteMaximum`).
- Refinement: with the entry's version and its fence for the two variables, a put, an
  invalidation and a flush are `Put`, `InvalidateThrough` and `Clear`; an expiry, an eviction
  and the second command of `get` are `Drop`; the rest stutters. TLC agrees on the
  instances of both runs.

`LabConsoleProofs` proves `TypeOK`, `DriftIsReal` and `OutageAnnounced` from
`LabConsoleAssumption`: polls and actions are disjoint, bounds are naturals. The first rests on the order
of reads in one answer, the rows before the entries, and on rows that only a reset
moves back; the second on there being one drill at a time as long as none crosses,
which has announced itself before it cuts Redis.

`EventStreamProofs` proves `TypeOK`, `DeliveredOnceInOrder` and `NoGapOnceFollowing` from
`EventStreamAssumption`: positive lengths of stream, page and display. `FeedInv`
says of each browser that the wire continues the last event it received and skips
only what has been trimmed (`WireInv`), that the server's cursor stands where the
wire ends (`CursorInv`), that a page continues the cursor and a blocked read has
nothing beyond it (`ReadInv`), and that the browser has received all from its first
event to its latest but what was trimmed (`GotInv`). That trimming and emitting keep
the four, that writing a page extends the wire, and that receiving a row shortens
it, are lemmas about values, without a state (`WireLasts`, `RowsWritten`,
`RowReceived`).

Its `TypeOK` needs `ConsoleInv` besides: that the answer of `recent()`, which is going
to replace the display, is no longer than the display.

Two definitions are recursive: the loop of TRIM_SCRIPT (`TrimLoop`) and the filter of
the display (`Others`), both written as recursive functions. The library's induction
theorems cannot be cited, so `NumberLemmas` derives from the well-foundedness of the
naturals a form that can, induction over a set of numbers. That the function exists is
shown by giving one: the closed form for `TrimLoop` (`VictimsOneByOne`), a function for
each length for `Others`. `LoopIsClosedForm` then proves that no other function
satisfies the equation of the loop, because two would differ on a set of victims with
fewest keys left, and `OthersTyped` bounds what the filter keeps.

Every invariant and action property that a passing run checks is proved. Out of the
prover's reach and left to TLC: the liveness properties and everything about ENABLED.

## 6. What is not modelled

Metrics, traces, logging, response headers, the texts of events; the views of
`list` but for the drift; TTL jitter (a constant per key); heartbeats and health;
rendering. Of the reset: the clock offset set to 0 (entries dated with the clock of
before stay fresh for the rest of their PX life), the locks and index names among the
deleted keys, a keyspace of more than the 500 keys one SCAN page is asked for. Of the
SSE endpoint: a browser that leaves before the close handler is registered. Of the
console: the trace, sliders and segments, which behave as the switch that is
modelled. Of a drill: slow-origin, which only delays; that a reset also deletes the
stream its events are on, or that a CLEARED sent by a command that timed out is
appended late (`announced` is the drill event emitted last, not what the stream
still holds). Of the start of a replica: the seeding of an empty table
(`SEED_ON_START`). A command that ioredis sends again after a reconnect, its answer
lost, is executed once in the models; sent again, a put or an invalidation is a second
call with the same row. PostgreSQL is taken to be
serialisable for the statements used (row locks, one-row updates), Redis to execute
scripts and MULTI blocks atomically and, in these models, not to lose data except by
a flush or a reset. The versions and the faults of a `/lab/state` answer are read in
one step, and so are its settings and entries: no property relates the two of a pair.

## 7. Plan

1. Done: the modules of section 2 and the proofs of section 5.
2. `LabReset` with the clock offset, and with the locks the DEL takes from their owners.
3. An invariant from which the liveness properties follow by fairness alone (a request
   that waits has polls left, a job that runs has an executor), proved as far as it goes
   without ENABLED.
