--------------------------- MODULE Reconciliation ---------------------------
(***************************************************************************)
(* How the cache follows the origin.                                       *)
(*                                                                         *)
(* An API write bumps the version of a row and inserts an outbox event in  *)
(* one transaction (resources.service.ts).  Workers compete for the events *)
(* under a lease, apply them to the cache and settle them, fenced by the   *)
(* attempt number of their claim (outbox-processor.ts).  Meanwhile reads   *)
(* and background refreshes fill the cache with what they read from the    *)
(* origin some time ago (resource-cache.service.ts, refresh-worker.ts),    *)
(* entries expire or are evicted, and an operator may flush the cache.     *)
(*                                                                         *)
(* Workers crash, stall past their lease, lose the answer of a cache       *)
(* command or of an SQL statement; a cache command its sender has given up *)
(* may still reach Redis later.                                            *)
(***************************************************************************)
EXTENDS VersionedCache

CONSTANTS Seed,        \* version of each key's row after seeding, 0: no row
          Event,       \* outbox ids; their order is the order of created_at
          Worker,      \* worker replicas, one outbox loop each
          Filler,      \* reads and refresh jobs that fill the cache
          MaxFaults,   \* bound: errors, crashes and stalls in a behaviour
          MaxFlushes   \* bound: flushes in a behaviour

ASSUME ReconciliationAssumption ==
  /\ Seed \in [Key -> Nat]
  /\ Event \subseteq Nat
  /\ MaxFaults \in Nat
  /\ MaxFlushes \in Nat

VARIABLES
  origin,     \* committed version of each key in table resources
  row,        \* row[e]: what the write of event e inserted in cache_outbox
  status,     \* column status, "absent" before the insert
  attempts,   \* column attempts: the fencing token of the latest claim
  due,        \* the time condition of the claim query holds for the row
  job,        \* job[w]: what worker w is doing
  late,       \* <<event, token>> of cache commands whose sender gave up
  fill,       \* fill[f]: what filler f has read from the origin
  epoch,      \* how many times the cache has been flushed
  torn,       \* history: the latest flush left an entry in the cache
  reached,    \* history: epoch in which the settled effect of e took place
  faults      \* errors, crashes and stalls so far

originVars == <<origin, row>>
outboxVars == <<status, attempts, due, reached>>
flushVars == <<epoch, torn>>
vars == <<cached, watermark, origin, row, status, attempts, due, job, late,
          fill, epoch, torn, reached, faults>>

-----------------------------------------------------------------------------
Policy == {"invalidate", "write-through"}
Row == [key : Key, policy : Policy, version : Nat]
Job == [pc : {"claimed", "applied", "failed"},
        event : Event, token : Nat, epoch : Nat]
Fill == [key : Key, version : Nat]

Idle == [pc |-> "idle"]
NoFill == [version |-> Nil]
NoRow == [version |-> Nil]

TypeOK ==
  /\ CacheTypeOK
  /\ origin \in [Key -> Nat]
  /\ row \in [Event -> Row \cup {NoRow}]
  /\ status \in [Event -> {"absent", "pending", "processing", "completed"}]
  /\ attempts \in [Event -> Nat]
  /\ due \in [Event -> BOOLEAN]
  /\ job \in [Worker -> Job \cup {Idle}]
  /\ late \subseteq Event \X Nat
  /\ fill \in [Filler -> Fill \cup {NoFill}]
  /\ epoch \in Nat
  /\ torn \in BOOLEAN
  /\ reached \in [Event -> Nat \cup {Nil}]
  /\ faults \in Nat

Init ==
  /\ CacheInit
  /\ origin = Seed
  /\ row = [e \in Event |-> NoRow]
  /\ status = [e \in Event |-> "absent"]
  /\ attempts = [e \in Event |-> 0]
  /\ due = [e \in Event |-> FALSE]
  /\ job = [w \in Worker |-> Idle]
  /\ late = {}
  /\ fill = [f \in Filler |-> NoFill]
  /\ epoch = 0
  /\ torn = FALSE
  /\ reached = [e \in Event |-> Nil]
  /\ faults = 0

-----------------------------------------------------------------------------
(* The API.                                                                *)

(* ResourcesService.write: lock the row, bump its version, insert the      *)
(* event, in one transaction.  created_at is the start of the transaction, *)
(* taken before the row lock is granted, so the place of the event in the  *)
(* claim order need not follow its version.                                *)
NextVersion(k) == origin[k] + 1

(* Mutant of Write: the event is inserted outside the transaction, and the *)
(* transaction that bumps the row is rolled back.                          *)
WriteTwice(k, policy, e) ==
  /\ Seed[k] # 0
  /\ NextVersion(k) \in Version
  /\ status[e] = "absent"
  /\ row' = [row EXCEPT ![e] =
               [key |-> k, policy |-> policy, version |-> NextVersion(k)]]
  /\ status' = [status EXCEPT ![e] = "pending"]
  /\ due' = [due EXCEPT ![e] = TRUE]
  /\ UNCHANGED <<cacheVars, origin, attempts, reached, job, late, fill,
                 flushVars, faults>>

Write(k, policy, e) ==
  /\ Seed[k] # 0
  /\ NextVersion(k) \in Version
  /\ status[e] = "absent"
  /\ origin' = [origin EXCEPT ![k] = NextVersion(k)]
  /\ row' = [row EXCEPT ![e] =
               [key |-> k, policy |-> policy, version |-> NextVersion(k)]]
  /\ status' = [status EXCEPT ![e] = "pending"]
  /\ due' = [due EXCEPT ![e] = TRUE]
  /\ UNCHANGED <<cacheVars, attempts, reached, job, late, fill, flushVars, faults>>

(* A read that misses, or a refresh job, reads the origin ...              *)
FillRead(f, k) ==
  /\ fill[f] = NoFill
  /\ fill' = [fill EXCEPT ![f] = [key |-> k, version |-> origin[k]]]
  /\ UNCHANGED <<cacheVars, originVars, outboxVars, job, late, flushVars, faults>>

(* ... and puts what it read, however much later.                          *)
FillPut(f) ==
  /\ fill[f] # NoFill
  /\ Put(fill[f].key, fill[f].version)
  /\ fill' = [fill EXCEPT ![f] = NoFill]
  /\ UNCHANGED <<originVars, outboxVars, job, late, flushVars, faults>>

(* Or it never does: the process died or the command was lost.             *)
FillLost(f) ==
  /\ fill[f] # NoFill
  /\ fill' = [fill EXCEPT ![f] = NoFill]
  /\ UNCHANGED <<cacheVars, originVars, outboxVars, job, late, flushVars, faults>>

(* Expiry, trim, or a read that finds its entry expired.                   *)
Leave(k) ==
  /\ cached[k] # Nil
  /\ Drop({k})
  /\ UNCHANGED <<originVars, outboxVars, job, late, fill, flushVars, faults>>

Flush ==
  /\ epoch < MaxFlushes
  /\ \E seen \in SUBSET Key :
       /\ Clear(seen)
       /\ torn' = (\E k \in Key \ seen : cached[k] # Nil)
  /\ epoch' = epoch + 1
  /\ UNCHANGED <<originVars, outboxVars, job, late, fill, faults>>

-----------------------------------------------------------------------------
(* The outbox worker.                                                      *)

Fault == faults < MaxFaults /\ faults' = faults + 1

(* The WHERE clause of claim: a pending row whose next_attempt_at has come *)
(* or a processing row whose lease has run out.                            *)
PendingOnly(e) == status[e] = "pending" /\ due[e]   \* mutant: no lease

Claimable(e) == status[e] \in {"pending", "processing"} /\ due[e]

SameAttempt(e) == attempts[e]   \* mutant of NextAttempt: no new token

NextAttempt(e) == attempts[e] + 1

(* ORDER BY created_at ... FOR UPDATE SKIP LOCKED LIMIT 1, then the update *)
(* that takes the lease and raises attempts.                               *)
Claim(w) ==
  /\ job[w] = Idle
  /\ \E e \in Event :
       /\ Claimable(e)
       /\ \A older \in Event : Claimable(older) => e <= older
       /\ status' = [status EXCEPT ![e] = "processing"]
       /\ attempts' = [attempts EXCEPT ![e] = NextAttempt(e)]
       /\ due' = [due EXCEPT ![e] = FALSE]
       /\ job' = [job EXCEPT ![w] = [pc |-> "claimed", event |-> e,
                                     token |-> NextAttempt(e),
                                     epoch |-> epoch]]
  /\ UNCHANGED <<cacheVars, originVars, reached, late, fill, flushVars, faults>>

(* The cache command of an event: the two branches of processNext.         *)
Effect(e) ==
  IF row[e].policy = "invalidate"
  THEN InvalidateThrough(row[e].key, row[e].version)
  ELSE Put(row[e].key, row[e].version)

Moved(w, pc) == job' = [job EXCEPT ![w].pc = pc]

Apply(w) ==
  /\ job[w].pc = "claimed"
  /\ Effect(job[w].event)
  /\ job' = [job EXCEPT ![w].pc = "applied", ![w].epoch = epoch]
  /\ UNCHANGED <<originVars, outboxVars, late, fill, flushVars, faults>>

(* now(), getSettings() or the cache command fails; a command that timed   *)
(* out (or whose worker died) may still reach Redis.                       *)
Sent(w) == <<job[w].event, job[w].token>>

ApplyFails(w) ==
  /\ job[w].pc = "claimed"
  /\ Fault
  /\ late' = late \/ late' = late \cup {Sent(w)}
  /\ Moved(w, "failed")
  /\ UNCHANGED <<cacheVars, originVars, outboxVars, fill, flushVars>>

LateEffect(e, t) ==
  /\ <<e, t>> \in late
  /\ Effect(e)
  /\ late' = late \ {<<e, t>>}
  /\ UNCHANGED <<originVars, outboxVars, job, fill, flushVars, faults>>

(* WHERE id = $1 AND status = 'processing' AND attempts = $2               *)
HoldsByAttempts(w) ==   \* mutant of Holds: the status is not compared
  attempts[job[w].event] = job[w].token

HoldsByStatus(w) ==     \* mutant of Holds: the attempts are not compared
  status[job[w].event] = "processing"

Holds(w) ==
  /\ status[job[w].event] = "processing"
  /\ attempts[job[w].event] = job[w].token

(* UPDATE ... SET status = 'completed', when the fence lets it through.    *)
MarkCompleted(w) ==
  IF Holds(w)
  THEN /\ status' = [status EXCEPT ![job[w].event] = "completed"]
       /\ reached' = [reached EXCEPT ![job[w].event] = job[w].epoch]
       /\ UNCHANGED <<attempts, due>>
  ELSE UNCHANGED outboxVars

(* Mutant of MarkPending: a failed event gets a status of its own.         *)
MarkFailed(w) ==
  IF Holds(w)
  THEN /\ status' = [status EXCEPT ![job[w].event] = "failed"]
       /\ due' = [due EXCEPT ![job[w].event] = FALSE]
       /\ UNCHANGED <<attempts, reached>>
  ELSE UNCHANGED outboxVars

(* UPDATE ... SET status = 'pending', next_attempt_at later, same fence.   *)
MarkPending(w) ==
  IF Holds(w)
  THEN /\ status' = [status EXCEPT ![job[w].event] = "pending"]
       /\ due' = [due EXCEPT ![job[w].event] = FALSE]
       /\ UNCHANGED <<attempts, reached>>
  ELSE UNCHANGED outboxVars

Complete(w) ==
  /\ job[w].pc = "applied"
  /\ MarkCompleted(w)
  /\ job' = [job EXCEPT ![w] = Idle]
  /\ UNCHANGED <<cacheVars, originVars, late, fill, flushVars, faults>>

(* The statement reports an error, whether or not it was executed.         *)
CompleteFails(w) ==
  /\ job[w].pc = "applied"
  /\ Fault
  /\ MarkCompleted(w) \/ UNCHANGED outboxVars
  /\ Moved(w, "failed")
  /\ UNCHANGED <<cacheVars, originVars, late, fill, flushVars>>

Retry(w) ==
  /\ job[w].pc = "failed"
  /\ MarkPending(w)
  /\ job' = [job EXCEPT ![w] = Idle]
  /\ UNCHANGED <<cacheVars, originVars, late, fill, flushVars, faults>>

(* The retry throws: the loop logs it and the lease has to run out.        *)
RetryFails(w) ==
  /\ job[w].pc = "failed"
  /\ Fault
  /\ MarkPending(w) \/ UNCHANGED outboxVars
  /\ job' = [job EXCEPT ![w] = Idle]
  /\ UNCHANGED <<cacheVars, originVars, late, fill, flushVars>>

(* The process dies, with its cache command possibly under way, and comes  *)
(* back with nothing to do.                                                *)
Crash(w) ==
  /\ job[w] # Idle
  /\ Fault
  /\ \/ late' = late
     \/ job[w].pc = "claimed" /\ late' = late \cup {Sent(w)}
  /\ job' = [job EXCEPT ![w] = Idle]
  /\ UNCHANGED <<cacheVars, originVars, outboxVars, fill, flushVars>>

-----------------------------------------------------------------------------
(* Time.                                                                   *)

(* A worker is busy with the current claim of e.                           *)
Held(e) == \E w \in Worker : job[w] # Idle /\ job[w].event = e /\ Holds(w)

(* next_attempt_at comes, or the 30 s lease of a claim nobody works on any *)
(* more runs out.                                                          *)
Elapse(e) ==
  /\ status[e] = "pending" \/ (status[e] = "processing" /\ ~Held(e))
  /\ ~due[e]
  /\ due' = [due EXCEPT ![e] = TRUE]
  /\ UNCHANGED <<cacheVars, originVars, status, attempts, reached, job, late,
                 fill, flushVars, faults>>

(* A worker is so slow that its lease runs out under it.                   *)
Stall(e) ==
  /\ status[e] = "processing" /\ Held(e)
  /\ ~due[e]
  /\ Fault
  /\ due' = [due EXCEPT ![e] = TRUE]
  /\ UNCHANGED <<cacheVars, originVars, status, attempts, reached, job, late,
                 fill, flushVars>>

-----------------------------------------------------------------------------
WorkerStep(w) ==
  \/ Claim(w) \/ Apply(w) \/ ApplyFails(w) \/ Complete(w)
  \/ CompleteFails(w) \/ Retry(w) \/ RetryFails(w) \/ Crash(w)

FillerStep(f) ==
  (\E k \in Key : FillRead(f, k)) \/ FillPut(f) \/ FillLost(f)

Next ==
  \/ \E k \in Key, policy \in Policy, e \in Event : Write(k, policy, e)
  \/ \E f \in Filler : FillerStep(f)
  \/ \E k \in Key : Leave(k)
  \/ Flush
  \/ \E w \in Worker : WorkerStep(w)
  \/ \E e \in Event : Elapse(e) \/ Stall(e)
  \/ \E c \in late : LateEffect(c[1], c[2])

Spec == Init /\ [][Next]_vars

(* Each loop runs until its process is stopped, so a worker that can take  *)
(* its next step takes it, and time passes.  Faults, writes, fills and     *)
(* late commands are never promised.                                       *)
Progress(w) == Claim(w) \/ Apply(w) \/ Complete(w) \/ Retry(w)

Fairness ==
  /\ \A w \in Worker : WF_vars(Progress(w))
  /\ \A e \in Event : WF_vars(Elapse(e))

FairSpec == Spec /\ Fairness

-----------------------------------------------------------------------------
(* The cache, and the fence with it, never runs ahead of the origin, so a  *)
(* fence can never refuse the version the origin holds now.                *)
NeverAheadOfOrigin ==
  \A k \in Key : cached[k] <= origin[k] /\ watermark[k] <= origin[k]

(* An event whose effect counts: completed, and no flush since the effect. *)
Reconciled(e) == status[e] = "completed" /\ reached[e] = epoch

AtLeast(e) == cached[row[e].key] = Nil \/ cached[row[e].key] >= row[e].version

(* Once an event is completed the cache never again holds an older version *)
(* of its key, whatever retries, other events or fills are under way.  An  *)
(* entry that a flush left behind has no fence, and a put it refuses sets  *)
(* none: see FloorHoldsSinceFlush.                                         *)
ReconciledFloor == ~torn => \A e \in Event : Reconciled(e) => AtLeast(e)

(* The same without the exception, which is what docs/architecture.md      *)
(* claims: "Together these rules make retries and out-of-order completion  *)
(* safe".                                                                  *)
FloorHoldsSinceFlush == \A e \in Event : Reconciled(e) => AtLeast(e)

(* When every event has been completed the cache shows the origin: each    *)
(* entry is the committed version of its key, even the ones that fills of  *)
(* older reads were about to store.                                        *)
Settled == \A e \in Event : status[e] = "absent" \/ Reconciled(e)

QuiescentCacheIsCurrent ==
  ~torn /\ Settled => \A k \in Key : cached[k] \in {Nil, origin[k]}

(* attempts is a fencing token: two workers that believe they hold the     *)
(* same event carry different tokens, so at most one passes the WHERE of   *)
(* complete and retry.                                                     *)
TokensDiffer ==
  \A w, x \in Worker :
    /\ w # x /\ job[w] # Idle /\ job[x] # Idle
    /\ job[w].event = job[x].event
    => job[w].token # job[x].token

(* Nothing brings a completed event back: not the retry of a worker whose  *)
(* complete was executed but reported as failed, nor a worker that lost    *)
(* its lease.                                                              *)
CompletedIsFinal ==
  [][\A e \in Event : status[e] = "completed" =>
        status'[e] = "completed" /\ reached'[e] = reached[e]]_vars

(* A row leaves "processing" only by the hand of the worker whose claim is *)
(* the latest one, so a slow worker never revokes the claim that replaced  *)
(* its own.                                                                *)
OnlyTheHolderSettles ==
  [][\A e \in Event : status[e] = "processing" /\ status'[e] # "processing" =>
        \E w \in Worker : /\ job[w] # Idle /\ job[w].event = e
                          /\ job[w].token = attempts[e]
                          /\ job'[w] # job[w]]_vars

-----------------------------------------------------------------------------
(* What makes the properties above inductive.                              *)
Present(e) == status[e] # "absent"

(* Whoever refers to an event refers to one that has been committed.       *)
EventsKnown ==
  /\ \A e \in Event : Present(e) => row[e] \in Row
  /\ \A w \in Worker : job[w] # Idle => Present(job[w].event)
  /\ \A c \in late : Present(c[1])

(* Every version on its way to the cache lies between seed and origin.     *)
VersionsBounded ==
  /\ \A k \in Key : cached[k] = Nil \/ Seed[k] <= cached[k]
  /\ \A e \in Event : Present(e) => /\ Seed[row[e].key] < row[e].version
                                   /\ row[e].version <= origin[row[e].key]
  /\ \A f \in Filler : fill[f] # NoFill =>
       /\ Seed[fill[f].key] <= fill[f].version
       /\ fill[f].version <= origin[fill[f].key]

(* The latest version of a written row has an event. *)
OutboxCoversOrigin ==
  \A k \in Key : origin[k] # Seed[k] =>
    \E e \in Event : /\ Present(e)
                     /\ row[e].key = k /\ row[e].version = origin[k]

TokensIssued ==
  \A w \in Worker : job[w] # Idle => job[w].token <= attempts[job[w].event]

EpochsPast ==
  /\ \A w \in Worker : job[w] # Idle => job[w].epoch <= epoch
  /\ \A e \in Event : reached[e] <= epoch

(* Unless the latest flush left an entry behind, every entry has a fence   *)
(* at least as high, and so has every effect since that flush.             *)
EffectsFenced ==
  ~torn =>
    /\ \A k \in Key : cached[k] <= watermark[k]
    /\ \A e \in Event :
         Reconciled(e) => row[e].version <= watermark[row[e].key]
    /\ \A w \in Worker :
         job[w].pc = "applied" /\ job[w].epoch = epoch =>
           row[job[w].event].version <= watermark[row[job[w].event].key]

(* The inductive invariant of the reconciliation: the fence, the bounds on *)
(* versions, the coverage of the origin by the outbox, and the fencing     *)
(* tokens of outbox-processor.ts.                                          *)
IndInv ==
  /\ TypeOK /\ EventsKnown /\ VersionsBounded /\ NeverAheadOfOrigin
  /\ FenceHolds /\ OutboxCoversOrigin /\ TokensIssued /\ TokensDiffer
  /\ EpochsPast /\ EffectsFenced

-----------------------------------------------------------------------------
(* Every committed write is reconciled, through retries, crashes and lost  *)
(* answers.                                                                *)
EveryEventReconciled ==
  \A e \in Event : status[e] = "pending" ~> status[e] = "completed"

(* Without flushes the cache converges: from some point on each entry is   *)
(* the committed version of its key, for good.                             *)
CacheConverges ==
  <>[](\A k \in Key : cached[k] \in {Nil, origin[k]})
=============================================================================
