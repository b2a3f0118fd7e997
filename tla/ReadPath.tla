------------------------------ MODULE ReadPath ------------------------------
(***************************************************************************)
(* How a GET /resources/:key is answered (resource-cache.service.ts).      *)
(*                                                                         *)
(* A request looks its key up in the cache, and then serves the entry,     *)
(* serves it stale and queues a refresh, takes the per-key lock and fills  *)
(* the cache from the origin, polls behind the holder of that lock, or     *)
(* goes around Redis altogether when a command fails or the circuit        *)
(* breaker of its API instance is open.  The refresh job runs in a worker  *)
(* (refresh-worker.ts) under BullMQ's deduplication and retries.           *)
(*                                                                         *)
(* Everything here is about one key: lock, deduplication id, entry and     *)
(* fence are per key, and other keys show only by evicting this one.  What *)
(* the scripts do to the indexes is in CacheStore, what the outbox does is *)
(* in Reconciliation; of both only the effect on this entry is kept.       *)
(***************************************************************************)
EXTENDS Integers, FiniteSets

CONSTANTS
  Request,      \* client requests, each read at most once
  Instance,     \* API replicas behind nginx, a circuit breaker each
  Worker,       \* slots of the refresh workers
  Modes,        \* the settings a read may find in force
  Seeds,        \* versions the row may have at first, 0: no row
  Threshold,    \* failures that open a breaker
  MaxPolls,     \* polls of a waiter before it gives up
  MaxTries,     \* attempts of a refresh job
  MaxVersion,   \* bound: versions of the row
  MaxClock,     \* bound: the clock stops here
  MaxFaults,    \* bound: failed commands, failed queries, crashes, stalls
  MaxLeases,    \* bound: leases that run out
  MaxLosses     \* bound: evictions and flushes

Nil == -1
Nobody == "nobody"

ASSUME ReadPathAssumption ==
  /\ Modes \subseteq [swr : BOOLEAN, coalescing : BOOLEAN, ttl : Nat \ {0},
                      window : Nat, negativeTtl : Nat \ {0}]
  /\ Modes # {} /\ IsFiniteSet(Modes)
  /\ Seeds \subseteq 0 .. MaxVersion
  /\ Nobody \notin Request
  /\ Threshold \in Nat \ {0} /\ MaxTries \in Nat \ {0}
  /\ {MaxPolls, MaxVersion, MaxClock, MaxFaults, MaxLeases, MaxLosses}
       \subseteq Nat

VARIABLES
  origin,      \* version of the row
  superseded,  \* history: clock at which a version was replaced, or Nil
  clock,       \* what labState.now() returns
  entry,       \* the record of the key in Redis
  fence,       \* its watermark
  lock,        \* who set dcl:lock:key, or Nobody
  failures,    \* CircuitBreaker.failures of each instance
  open,        \* CircuitBreaker.isOpen of each instance
  req,         \* the state of each request
  job,         \* the refresh job that owns the deduplication id
  exec,        \* what each worker slot is executing
  faults,      \* failures so far
  expired,     \* leases that ran out so far
  losses       \* evictions and flushes so far

originVars == <<origin, superseded>>
cacheVars == <<entry, fence>>
breakerVars == <<failures, open>>
refreshVars == <<job, exec>>
boundVars == <<faults, expired, losses>>
vars == <<origin, superseded, clock, entry, fence, lock, failures, open, req,
          job, exec, faults, expired, losses>>

-----------------------------------------------------------------------------
NoEntry == [version |-> Nil]
Idle == [pc |-> "idle"]
NoJob == [state |-> "none"]

Entry == [version : Nat, soft : Nat, hard : Nat, replayed : BOOLEAN]

(* A request in progress: started and floor are the clock and the fence    *)
(* when it began; now is its first clock reading, at the latest one; got   *)
(* the record it holds; lease whether it must release the lock; older is   *)
(* history: touch has returned an older version than the lookup before it. *)
Running ==
  [pc : {"settings", "get", "drop", "touch", "enqueue", "lock", "poll",
         "origin", "put", "release", "bypass"},
   via : Instance, started : Nat, floor : Nat \cup {Nil},
   mode : Modes, now : Nat, at : Nat, got : Entry \cup {NoEntry},
   tries : Nat, polling : BOOLEAN, lease : BOOLEAN, older : BOOLEAN,
   version : Nat \cup {Nil}, result : {"MISS", "BYPASS", "ERROR", "none"}]

Answered ==
  [pc : {"done"}, result : {"HIT", "STALE", "MISS", "BYPASS", "ERROR"},
   version : Nat \cup {Nil}, started : Nat, floor : Nat \cup {Nil},
   replayed : BOOLEAN, older : BOOLEAN]

Dead == [pc |-> "dead"]

Job == [state : {"queued"}, tries : Nat]
         \cup [state : {"active"}, tries : Nat, by : Worker]

Exec == [pc : {"origin", "put", "report"}, now : Nat, mode : Modes,
         version : Nat \cup {Nil}]

TypeOK ==
  /\ origin \in Nat
  /\ superseded \in [0 .. MaxVersion -> Nat \cup {Nil}]
  /\ clock \in Nat
  /\ entry \in Entry \cup {NoEntry}
  /\ fence \in Nat \cup {Nil}
  /\ lock \in Request \cup {Nobody}
  /\ failures \in [Instance -> 0 .. Threshold - 1]
  /\ open \in [Instance -> BOOLEAN]
  /\ req \in [Request -> Running \cup Answered \cup {Idle, Dead}]
  /\ job \in Job \cup {NoJob}
  /\ exec \in [Worker -> Exec \cup {Idle}]
  /\ {faults, expired, losses} \subseteq Nat

Init ==
  /\ origin \in Seeds
  /\ superseded = [v \in 0 .. MaxVersion |-> Nil]
  /\ clock = 0
  /\ entry = NoEntry
  /\ fence = Nil
  /\ lock = Nobody
  /\ failures = [i \in Instance |-> 0]
  /\ open = [i \in Instance |-> FALSE]
  /\ req = [r \in Request |-> Idle]
  /\ job = NoJob
  /\ exec = [w \in Worker |-> Idle]
  /\ faults = 0
  /\ expired = 0
  /\ losses = 0

-----------------------------------------------------------------------------
(* Redis.                                                                  *)

(* The record a put writes: an absent row is cached without stale window.  *)
NewEntry(v, now, mode, replayed) ==
  LET soft == now + (IF v = 0 THEN mode.negativeTtl ELSE mode.ttl) IN
  [version |-> v, soft |-> soft,
   hard |-> soft + (IF v = 0 THEN 0 ELSE mode.window), replayed |-> replayed]

Raised(v) == IF v > fence THEN v ELSE fence

(* Mutant of PutEntry: the fence is not consulted.                         *)
PutUnfenced(v, now, mode, replayed) ==
  IF entry.version > v THEN UNCHANGED cacheVars
  ELSE /\ entry' = NewEntry(v, now, mode, replayed)
       /\ fence' = Raised(v)

PutEntry(v, now, mode, replayed) ==
  IF fence > v \/ entry.version > v THEN UNCHANGED cacheVars
  ELSE /\ entry' = NewEntry(v, now, mode, replayed)
       /\ fence' = Raised(v)

SetAlways(r) == lock' = r   \* mutant of SetNX: no NX

(* SET key token PX 2000 NX, by a request *)
SetNX(r) == lock' = IF lock = Nobody THEN r ELSE lock

DelAlways(r) == lock' = Nobody   \* mutant of DelIfMine: no comparison

(* DEL if the token is still the caller's. *)
DelIfMine(r) == lock' = IF lock = r THEN Nobody ELSE lock

(* BullMQ drops a job whose deduplication id is taken. *)
AddJob == job' = IF job = NoJob THEN [state |-> "queued", tries |-> 0] ELSE job

-----------------------------------------------------------------------------
(* The circuit breaker.                                                    *)
Closed(r) == ~open[req[r].via]

Succeeds(r) ==
  /\ failures' = [failures EXCEPT ![req[r].via] = 0]
  /\ UNCHANGED open

FailsOn(r) ==   \* mutant of Fails: the count is not reset when it trips
  LET i == req[r].via
  IN /\ failures' = [failures EXCEPT ![i] = @ + 1]
     /\ open' = [open EXCEPT ![i] = @ \/ failures[i] + 1 >= Threshold]

Fails(r) ==
  LET i == req[r].via
      trips == failures[i] + 1 >= Threshold
  IN /\ failures' = [failures EXCEPT ![i] = IF trips THEN 0 ELSE @ + 1]
     /\ open' = [open EXCEPT ![i] = @ \/ trips]

(* resetAfterMs has passed since the breaker opened. *)
Recover(i) ==
  /\ open[i]
  /\ open' = [open EXCEPT ![i] = FALSE]
  /\ UNCHANGED <<originVars, clock, cacheVars, lock, failures, req,
                 refreshVars, boundVars>>

Fault == faults < MaxFaults /\ faults' = faults + 1 /\ UNCHANGED <<expired, losses>>

-----------------------------------------------------------------------------
(* A request.                                                              *)
Goes(r, pc) == req' = [req EXCEPT ![r].pc = pc]

Answer(r, result, v, replayed) ==
  req' = [req EXCEPT ![r] =
            [pc |-> "done", result |-> result, version |-> v,
             started |-> req[r].started, floor |-> req[r].floor,
             replayed |-> replayed, older |-> req[r].older]]

Begin(r, i) ==
  /\ req[r] = Idle
  /\ req' = [req EXCEPT ![r] =
       [pc |-> "settings", via |-> i, started |-> clock, floor |-> fence,
        mode |-> CHOOSE m \in Modes : TRUE, now |-> 0, at |-> 0,
        got |-> NoEntry, tries |-> 0, polling |-> FALSE, lease |-> FALSE,
        older |-> FALSE,
        version |-> Nil, result |-> "none"]]
  /\ UNCHANGED <<originVars, clock, cacheVars, lock, breakerVars, refreshVars,
                 boundVars>>

(* Promise.all of now() and getSettings() *)
ReadSettings(r) ==
  /\ req[r].pc = "settings" /\ Closed(r)
  /\ \E m \in Modes :
       req' = [req EXCEPT ![r].pc = "get", ![r].mode = m,
                          ![r].now = clock, ![r].at = clock]
  /\ Succeeds(r)
  /\ UNCHANGED <<originVars, clock, cacheVars, lock, refreshVars, boundVars>>

(* Where read goes once the lookup has left it with record, not fresh. *)
After(q, record) ==
  IF q.polling THEN "poll"
  ELSE IF record # NoEntry /\ q.mode.swr THEN "enqueue"
  ELSE IF q.mode.coalescing THEN "lock" ELSE "origin"

(* Mutant of Holding: a waiter that finds nothing forgets that it waits.   *)
HoldingAnew(r, record, pc) ==
  req' = [req EXCEPT ![r].pc = pc, ![r].got = record, ![r].tries = 0]

Holding(r, record, pc) ==
  req' = [req EXCEPT ![r].pc = pc, ![r].got = record]

(* CacheStore.get: GET, and a second command when the record is past its   *)
(* hard expiry.                                                            *)
Lookup(r) ==
  LET q == req[r] IN
  /\ q.pc = "get" /\ Closed(r)
  /\ IF entry = NoEntry THEN Holding(r, NoEntry, After(q, NoEntry))
     ELSE IF entry.hard <= q.at THEN Goes(r, "drop")
     ELSE IF entry.soft > q.at THEN Holding(r, entry, "touch")
     ELSE Holding(r, entry, After(q, entry))
  /\ IF entry # NoEntry /\ entry.hard <= q.at
     THEN UNCHANGED breakerVars ELSE Succeeds(r)
  /\ UNCHANGED <<originVars, clock, cacheVars, lock, refreshVars, boundVars>>

(* CacheStore.invalidate, within the same breaker call as the GET *)
DropExpired(r) ==
  /\ req[r].pc = "drop"
  /\ entry' = NoEntry
  /\ Holding(r, NoEntry, After(req[r], NoEntry))
  /\ Succeeds(r)
  /\ UNCHANGED <<originVars, clock, fence, lock, refreshVars, boundVars>>

(* CacheStore.touch returns the record that is there by now.  HIT stands   *)
(* for NEGATIVE_HIT too.                                                   *)
Touch(r) ==
  LET q == req[r] IN
  /\ q.pc = "touch" /\ Closed(r)
  /\ IF entry # NoEntry /\ entry.soft > q.at
     THEN Answer(r, "HIT", entry.version, entry.replayed)
     ELSE req' = [req EXCEPT ![r].pc = After(q, entry),
                    ![r].got = IF entry = NoEntry THEN NoEntry
                               ELSE [entry EXCEPT !.replayed = @ \/ q.got.replayed],
                    ![r].older = entry # NoEntry /\ entry.version < q.got.version]
  /\ Succeeds(r)
  /\ UNCHANGED <<originVars, clock, cacheVars, lock, refreshVars, boundVars>>

(* enqueueRefresh, outside the breaker, and the stale answer *)
EnqueueRefresh(r) ==
  LET q == req[r] IN
  /\ q.pc = "enqueue"
  /\ AddJob
  /\ Answer(r, "STALE", q.got.version, q.got.replayed)
  /\ UNCHANGED <<originVars, clock, cacheVars, lock, breakerVars, exec, boundVars>>

Acquire(r) ==
  /\ req[r].pc = "lock" /\ Closed(r)
  /\ SetNX(r)
  /\ req' = [req EXCEPT ![r].pc = IF lock' = r THEN "origin" ELSE "poll",
                        ![r].lease = (lock' = r)]
  /\ Succeeds(r)
  /\ UNCHANGED <<originVars, clock, cacheVars, refreshVars, boundVars>>

(* The head of the waiter's loop: after the delay it reads the clock,      *)
(* outside the breaker, and looks again; at the end of its patience it     *)
(* fills the cache itself.                                                 *)
Poll(r) ==
  /\ req[r].pc = "poll"
  /\ req' = IF req[r].tries < MaxPolls
            THEN [req EXCEPT ![r].pc = "get", ![r].at = clock,
                             ![r].tries = @ + 1, ![r].polling = TRUE]
            ELSE [req EXCEPT ![r].pc = "origin"]
  /\ UNCHANGED <<originVars, clock, cacheVars, lock, breakerVars, refreshVars,
                 boundVars>>

(* fetchAndFill: findOneBy ... *)
ReadOrigin(r) ==
  /\ req[r].pc = "origin"
  /\ req' = [req EXCEPT ![r].pc = "put", ![r].version = origin]
  /\ UNCHANGED <<originVars, clock, cacheVars, lock, breakerVars, refreshVars,
                 boundVars>>

(* Leaving read: the holder of a lease releases it before the answer. *)
Finish(r, result, v) ==
  IF req[r].lease
  THEN req' = [req EXCEPT ![r].pc = "release", ![r].result = result,
                          ![r].version = v]
  ELSE Answer(r, result, v, FALSE)

FillLate(r) ==   \* mutant of Fill: the entry ages from the put, not the read
  LET q == req[r] IN
  /\ q.pc = "put" /\ Closed(r)
  /\ PutEntry(q.version, clock, q.mode, FALSE)
  /\ Finish(r, "MISS", q.version)
  /\ Succeeds(r)
  /\ UNCHANGED <<originVars, clock, lock, refreshVars, boundVars>>

(* ... and the fill, with the clock and settings of the start of the read. *)
Fill(r) ==
  LET q == req[r] IN
  /\ q.pc = "put" /\ Closed(r)
  /\ PutEntry(q.version, q.now, q.mode, FALSE)
  /\ Finish(r, "MISS", q.version)
  /\ Succeeds(r)
  /\ UNCHANGED <<originVars, clock, lock, refreshVars, boundVars>>

Release(r) ==
  LET q == req[r] IN
  /\ q.pc = "release"
  /\ DelIfMine(r)
  /\ Answer(r, q.result, q.version, FALSE)
  /\ UNCHANGED <<originVars, clock, cacheVars, breakerVars, refreshVars, boundVars>>

(* readBypass *)
Bypass(r) ==
  /\ req[r].pc = "bypass"
  /\ Answer(r, "BYPASS", origin, FALSE)
  /\ UNCHANGED <<originVars, clock, cacheVars, lock, breakerVars, refreshVars,
                 boundVars>>

-----------------------------------------------------------------------------
(* What goes wrong in a request.                                           *)
BreakerGuards == {"settings", "get", "touch", "lock", "put"}

(* An open breaker fails the command before it is sent. *)
Refused(r) ==
  /\ req[r].pc \in BreakerGuards /\ ~Closed(r)
  /\ IF req[r].pc = "put" THEN Finish(r, "BYPASS", req[r].version)
     ELSE Goes(r, "bypass")
  /\ UNCHANGED <<originVars, clock, cacheVars, lock, breakerVars, refreshVars,
                 boundVars>>

(* A guarded command times out or its connection breaks, before or after   *)
(* Redis has executed it.                                                  *)
CommandFails(r) ==
  LET q == req[r] IN
  /\ \/ q.pc \in BreakerGuards /\ Closed(r)
     \/ q.pc = "drop"
  /\ Fault
  /\ Fails(r)
  /\ CASE q.pc = "put" ->
            /\ PutEntry(q.version, q.now, q.mode, FALSE) \/ UNCHANGED cacheVars
            /\ Finish(r, "BYPASS", q.version)
            /\ UNCHANGED lock
       [] q.pc = "lock" ->
            /\ SetNX(r) \/ UNCHANGED lock
            /\ Goes(r, "bypass")
            /\ UNCHANGED cacheVars
       [] q.pc = "drop" ->
            /\ entry' \in {entry, NoEntry}
            /\ Goes(r, "bypass")
            /\ UNCHANGED <<fence, lock>>
       [] OTHER -> Goes(r, "bypass") /\ UNCHANGED <<cacheVars, lock>>
  /\ UNCHANGED <<originVars, clock, refreshVars>>

(* The commands outside the breaker: queue.add, now() of a waiter, and the *)
(* release, whose failure is swallowed.                                    *)
UnguardedFails(r) ==
  LET q == req[r] IN
  /\ Fault
  /\ CASE q.pc = "enqueue" ->
            /\ AddJob \/ UNCHANGED job
            /\ Goes(r, "bypass")
            /\ UNCHANGED lock
       [] q.pc = "poll" /\ q.tries < MaxPolls ->
            /\ Goes(r, "bypass")
            /\ UNCHANGED <<job, lock>>
       [] q.pc = "release" ->
            /\ DelIfMine(r) \/ UNCHANGED lock
            /\ Answer(r, q.result, q.version, FALSE)
            /\ UNCHANGED job
       [] OTHER -> FALSE
  /\ UNCHANGED <<originVars, clock, cacheVars, breakerVars, exec>>

(* PostgreSQL fails the read: an error, still with the lease released. *)
OriginFails(r) ==
  /\ req[r].pc \in {"origin", "bypass"}
  /\ Fault
  /\ Finish(r, "ERROR", Nil)
  /\ UNCHANGED <<originVars, clock, cacheVars, lock, breakerVars, refreshVars>>

(* An API process dies with its requests; a lock it holds stays.           *)
Crash(i) ==
  LET lost == {r \in Request : req[r].pc \notin {"idle", "done", "dead"}
                                 /\ req[r].via = i}
  IN /\ lost # {}
     /\ Fault
     /\ req' = [r \in Request |-> IF r \in lost THEN Dead ELSE req[r]]
     /\ failures' = [failures EXCEPT ![i] = 0]
     /\ open' = [open EXCEPT ![i] = FALSE]
     /\ UNCHANGED <<originVars, clock, cacheVars, lock, refreshVars>>

(* Two seconds pass: PX expires the lock under its holder or after it.     *)
LeaseExpires ==
  /\ lock # Nobody
  /\ expired < MaxLeases
  /\ lock' = Nobody
  /\ expired' = expired + 1
  /\ UNCHANGED <<originVars, clock, cacheVars, breakerVars, req, refreshVars,
                 faults, losses>>

-----------------------------------------------------------------------------
(* The refresh worker.                                                     *)
Runs(w) == job.state = "active" /\ job.by = w

RefreshBegin(w) ==
  /\ job.state = "queued" /\ exec[w] = Idle
  /\ job' = [state |-> "active", tries |-> job.tries + 1, by |-> w]
  /\ \E m \in Modes :
       exec' = [exec EXCEPT ![w] = [pc |-> "origin", now |-> clock,
                                    mode |-> m, version |-> Nil]]
  /\ UNCHANGED <<originVars, clock, cacheVars, lock, breakerVars, req, boundVars>>

RefreshRead(w) ==
  /\ exec[w].pc = "origin"
  /\ exec' = [exec EXCEPT ![w].pc = "put", ![w].version = origin]
  /\ UNCHANGED <<originVars, clock, cacheVars, lock, breakerVars, req, job,
                 boundVars>>

RefreshPut(w) ==
  /\ exec[w].pc = "put"
  /\ PutEntry(exec[w].version, exec[w].now, exec[w].mode, FALSE)
  /\ exec' = [exec EXCEPT ![w].pc = "report"]
  /\ UNCHANGED <<originVars, clock, lock, breakerVars, req, job, boundVars>>

(* Metrics and event are out; the job completes, unless BullMQ gave it to  *)
(* another worker meanwhile.                                               *)
RefreshEnd(w) ==
  /\ exec[w].pc = "report"
  /\ exec' = [exec EXCEPT ![w] = Idle]
  /\ job' = IF Runs(w) THEN NoJob ELSE job
  /\ UNCHANGED <<originVars, clock, cacheVars, lock, breakerVars, req, boundVars>>

Requeue == job' = [state |-> "queued", tries |-> job.tries]

RetryForgotten ==   \* mutant of RetryJob: the failed job keeps its id
  job' = [job EXCEPT !.tries = @]

RetryJob == IF job.tries < MaxTries THEN Requeue ELSE job' = NoJob

(* Any of its commands fails, the last ones after the put was done.        *)
RefreshFails(w) ==
  /\ exec[w] # Idle
  /\ Fault
  /\ \/ UNCHANGED cacheVars
     \/ exec[w].pc = "put"
          /\ PutEntry(exec[w].version, exec[w].now, exec[w].mode, FALSE)
  /\ exec' = [exec EXCEPT ![w] = Idle]
  /\ IF Runs(w) THEN RetryJob ELSE UNCHANGED job
  /\ UNCHANGED <<originVars, clock, lock, breakerVars, req>>

(* The worker dies or does not renew its lock of the job: BullMQ queues    *)
(* the job again, or fails it when it has stalled before.                  *)
Stall(w) ==
  /\ Runs(w)
  /\ Fault
  /\ exec' \in {exec, [exec EXCEPT ![w] = Idle]}
  /\ Requeue \/ job' = NoJob
  /\ UNCHANGED <<originVars, clock, cacheVars, lock, breakerVars, req>>

-----------------------------------------------------------------------------
(* The rest of the system.                                                 *)
Write ==
  /\ origin # 0 /\ origin < MaxVersion
  /\ origin' = origin + 1
  /\ superseded' = [superseded EXCEPT ![origin] = clock]
  /\ UNCHANGED <<clock, cacheVars, lock, breakerVars, req, refreshVars, boundVars>>

(* The outbox applies a committed write, in any order and any number of    *)
(* times, by either policy.                                                *)
Invalidated(v) ==
  /\ entry' = IF entry.version <= v THEN NoEntry ELSE entry
  /\ fence' = Raised(v)
  /\ UNCHANGED <<originVars, clock, lock, breakerVars, req, refreshVars, boundVars>>

WrittenThrough(v, now, mode) ==
  /\ PutEntry(v, now, mode, TRUE)
  /\ UNCHANGED <<originVars, clock, lock, breakerVars, req, refreshVars, boundVars>>

Reconcile(v) ==
  /\ v > 0 /\ superseded[v - 1] # Nil
  /\ \/ Invalidated(v)
     \/ \E now \in 0 .. clock, m \in Modes : WrittenThrough(v, now, m)

(* Another key, a trim or the expiry takes the entry. *)
Evict ==
  /\ entry # NoEntry
  /\ losses < MaxLosses
  /\ entry' = NoEntry
  /\ losses' = losses + 1
  /\ UNCHANGED <<originVars, clock, fence, lock, breakerVars, req, refreshVars,
                 faults, expired>>

(* A flush lifts the fence, and may miss an entry put meanwhile.  Requests *)
(* under way lose the floor they started from.                             *)
Flush ==
  /\ losses < MaxLosses
  /\ entry' \in {entry, NoEntry}
  /\ fence' = Nil
  /\ req' = [r \in Request |->
               IF req[r].pc \in {"idle", "done", "dead"} THEN req[r]
               ELSE [req[r] EXCEPT !.floor = Nil]]
  /\ losses' = losses + 1
  /\ UNCHANGED <<originVars, clock, lock, breakerVars, refreshVars, faults, expired>>

Tick ==
  /\ clock < MaxClock
  /\ clock' = clock + 1
  /\ UNCHANGED <<originVars, cacheVars, lock, breakerVars, req, refreshVars,
                 boundVars>>

-----------------------------------------------------------------------------
Proceed(r) ==
  \/ ReadSettings(r) \/ Lookup(r) \/ DropExpired(r) \/ Touch(r)
  \/ EnqueueRefresh(r) \/ Acquire(r) \/ Poll(r) \/ ReadOrigin(r) \/ Fill(r)
  \/ Release(r) \/ Bypass(r) \/ Refused(r)

Trouble(r) == CommandFails(r) \/ UnguardedFails(r) \/ OriginFails(r)

RefreshProceeds(w) ==
  RefreshBegin(w) \/ RefreshRead(w) \/ RefreshPut(w) \/ RefreshEnd(w)

Next ==
  \/ \E r \in Request : \/ \E i \in Instance : Begin(r, i)
                        \/ Proceed(r) \/ Trouble(r)
  \/ \E i \in Instance : Recover(i) \/ Crash(i)
  \/ \E w \in Worker : RefreshProceeds(w) \/ RefreshFails(w) \/ Stall(w)
  \/ \E v \in 1 .. origin : Reconcile(v)
  \/ Write \/ Evict \/ Flush \/ LeaseExpires \/ Tick

Spec == Init /\ [][Next]_vars

(* A request is an async function whose every await settles (commandTimeout *)
(* in redis.ts, timers in the loop), and BullMQ hands a queued job to a     *)
(* free slot.  No request, write or fault is promised.                      *)
Fairness ==
  /\ \A r \in Request : WF_vars(Proceed(r))
  /\ \A w \in Worker : WF_vars(RefreshProceeds(w))

FairSpec == Spec /\ Fairness

-----------------------------------------------------------------------------
Fetching(r) == req[r].pc \in {"origin", "put"} /\ req[r].lease

(* At most one lock owner reads the origin and fills the cache at a time,  *)
(* and one more for each lease that ran out under a slow owner.            *)
OneFetchPerLease ==
  Cardinality({r \in Request : Fetching(r)}) <= 1 + expired

(* The lock is taken away by its owner or by its expiry, never by an owner *)
(* whose own lease ran out before its release arrived.                     *)
OnlyTheOwnerReleases ==
  [][\A r \in Request : lock = r /\ lock' # r =>
        req[r].pc = "release" \/ expired' > expired]_vars

Done(r) == req[r].pc = "done"

(* What a request returns, from the cache stale or fresh, from the origin  *)
(* or around Redis, is never older than what was reconciled before it      *)
(* began: no client reads back behind an invalidation.                     *)
AnswersSeeTheFence ==
  \A r \in Request : Done(r) /\ req[r].result # "ERROR" =>
    req[r].version >= req[r].floor

MaxLife ==
  CHOOSE n \in {m.ttl + m.window : m \in Modes} :
    \A m \in Modes : m.ttl + m.window <= n

(* An answer is stale by less than ttl plus stale window: the version it   *)
(* returns was still the committed one at some moment that recent, and     *)
(* after the request began when the origin was read for it.  The entries   *)
(* of write-through events are excepted: their version may have been       *)
(* replaced long before the outbox stores it.  So is a stale answer with   *)
(* an older version than the lookup found: touch returns the record that   *)
(* is there by now, and once a flush has lifted the fence that may be the  *)
(* fill of a request of long ago.                                          *)
BoundedStaleness ==
  \A r \in Request : Done(r) /\ req[r].result # "ERROR" =>
    LET gone == superseded[req[r].version] IN
    gone # Nil =>
      IF req[r].result \in {"MISS", "BYPASS"} THEN gone >= req[r].started
      ELSE \/ req[r].replayed
           \/ req[r].result = "STALE" /\ req[r].older
           \/ gone > req[r].started - MaxLife

(* Every request that began is answered, whatever holds the lock, unless   *)
(* its process dies.                                                       *)
EveryRequestIsAnswered ==
  \A r \in Request : (req[r].pc = "settings") ~> (req[r].pc \in {"done", "dead"})

(* A queued refresh completes or uses up its attempts, so that its         *)
(* deduplication id is free again for the next stale read.                 *)
EveryRefreshSettles == (job.state = "queued") ~> (job.state = "none")

-----------------------------------------------------------------------------
(* Seen through versions, whatever requests, refreshes, the outbox and the *)
(* losses do to this entry and its fence is a step of VersionedCache, for  *)
(* a single key.                                                           *)
Abstract == INSTANCE VersionedCache WITH
              Key <- {"key"}, Version <- 0 .. MaxVersion,
              cached <- [k \in {"key"} |-> entry.version],
              watermark <- [k \in {"key"} |-> fence]

ImplementsVersionedCache == Abstract!CacheSpec
=============================================================================
