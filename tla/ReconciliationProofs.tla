------------------------ MODULE ReconciliationProofs ------------------------
(***************************************************************************)
(* Proofs about Reconciliation, for any keys, events, workers, fillers and *)
(* bounds.  The argument has two layers: TypeInv first, then, under it,    *)
(* what the fence, the outbox and the attempts keep true.                  *)
(***************************************************************************)
EXTENDS Reconciliation, TLAPS

TypeInv == TypeOK /\ EventsKnown

(* A put or an invalidation keeps cached and watermark well typed.         *)
LEMMA PutType ==
  ASSUME CacheTypeOK, NEW k \in Key, NEW v \in Nat, Put(k, v)
  PROVE  CacheTypeOK'
<1>1. CASE Store(k, v)
  BY <1>1 DEF Store, CacheTypeOK, WithoutEntries, RaisedFence, Nil
<1>2. CASE Refuse(k, v)
  BY <1>2 DEF Refuse, CacheTypeOK, cacheVars
<1>3. QED
  BY <1>1, <1>2 DEF Put

LEMMA InvalidateType ==
  ASSUME CacheTypeOK, NEW k \in Key, NEW v \in Nat, InvalidateThrough(k, v)
  PROVE  CacheTypeOK'
BY DEF InvalidateThrough, CacheTypeOK, WithoutEntries, RaisedFence, Nil

LEMMA EffectType ==
  ASSUME CacheTypeOK, NEW e \in Event, row[e] \in Row, Effect(e)
  PROVE  CacheTypeOK'
<1>1. row[e].key \in Key /\ row[e].version \in Nat
  BY DEF Row
<1>2. QED
  BY <1>1, PutType, InvalidateType DEF Effect

LEMMA InitTypeInv == Init => TypeInv
<1> SUFFICES ASSUME Init PROVE TypeInv
  OBVIOUS
<1>1. CacheTypeOK
  BY DEF Init, CacheInit, CacheTypeOK
<1>2. origin \in [Key -> Nat]
  BY ReconciliationAssumption DEF Init
<1>3. TypeOK
  BY <1>1, <1>2 DEF Init, TypeOK
<1>4. EventsKnown
  BY DEF Init, EventsKnown, Present
<1>5. QED
  BY <1>3, <1>4 DEF TypeInv

(* What a busy worker holds.                                               *)
LEMMA JobTaken ==
  ASSUME TypeInv, NEW w \in Worker, job[w] # Idle
  PROVE  /\ job[w] \in Job /\ job[w].event \in Event /\ job[w].token \in Nat
         /\ job[w].epoch \in Nat
         /\ row[job[w].event] \in Row
         /\ Present(job[w].event)
<1>1. job[w] \in Job
  BY DEF TypeInv, TypeOK
<1>2. QED
  BY <1>1 DEF TypeInv, EventsKnown, Job

-----------------------------------------------------------------------------
(* Every action keeps TypeInv.                                             *)
LEMMA TypeWrite ==
  ASSUME TypeInv, NEW k \in Key, NEW policy \in Policy, NEW e \in Event,
         Write(k, policy, e)
  PROVE  TypeInv'
<1>1. NextVersion(k) \in Nat
  BY DEF NextVersion, TypeInv, TypeOK
<1>2. row'[e] \in Row /\ row' \in [Event -> Row \cup {NoRow}]
  BY <1>1 DEF Write, Row, TypeInv, TypeOK
<1>3. TypeOK'
  BY <1>1, <1>2 DEF Write, TypeInv, TypeOK, CacheTypeOK, cacheVars, flushVars
<1>4. EventsKnown'
  BY <1>2 DEF Write, TypeInv, TypeOK, EventsKnown, Present, Job
<1>5. QED
  BY <1>3, <1>4 DEF TypeInv

LEMMA TypeFiller ==
  ASSUME TypeInv, NEW f \in Filler, FillerStep(f)
  PROVE  TypeInv'
<1>1. EventsKnown'
  BY DEF FillerStep, FillRead, FillPut, FillLost, TypeInv, EventsKnown,
         Present, originVars, outboxVars
<1>2. ASSUME NEW k \in Key, FillRead(f, k)
      PROVE  TypeOK'
  BY <1>2 DEF FillRead, TypeInv, TypeOK, CacheTypeOK, Fill, originVars,
              outboxVars, cacheVars, flushVars
<1>3. CASE FillPut(f)
  <2>1. fill[f].key \in Key /\ fill[f].version \in Nat
    BY <1>3 DEF FillPut, TypeInv, TypeOK, Fill
  <2>2. CacheTypeOK'
    BY <1>3, <2>1, PutType DEF FillPut, TypeInv, TypeOK
  <2>3. fill' \in [Filler -> Fill \cup {NoFill}]
    BY <1>3 DEF FillPut, TypeInv, TypeOK
  <2>4. UNCHANGED <<origin, row, status, attempts, due, reached, job, late,
                    epoch, torn, faults>>
    BY <1>3 DEF FillPut, originVars, outboxVars, flushVars
  <2>5. QED
    BY <1>1, <2>2, <2>3, <2>4 DEF TypeInv, TypeOK
<1>4. CASE FillLost(f)
  <2>1. fill' \in [Filler -> Fill \cup {NoFill}]
    BY <1>4 DEF FillLost, TypeInv, TypeOK
  <2>2. UNCHANGED <<cached, watermark, origin, row, status, attempts, due,
                    reached, job, late, epoch, torn, faults>>
    BY <1>4 DEF FillLost, cacheVars, originVars, outboxVars, flushVars
  <2>3. QED
    BY <1>1, <2>1, <2>2 DEF TypeInv, TypeOK, CacheTypeOK
<1>5. QED
  BY <1>1, <1>2, <1>3, <1>4 DEF FillerStep, TypeInv

LEMMA TypeCacheLoss ==
  ASSUME TypeInv, (\E k \in Key : Leave(k)) \/ Flush
  PROVE  TypeInv'
<1>1. EventsKnown'
  BY DEF Leave, Flush, TypeInv, EventsKnown, Present, originVars, outboxVars
<1>2. CacheTypeOK'
  BY DEF Leave, Drop, Flush, Clear, WithoutEntries, TypeInv, TypeOK,
         CacheTypeOK, Nil
<1>3. UNCHANGED <<origin, row, status, attempts, due, reached, job, late, fill,
                  faults>>
  BY DEF Leave, Flush, originVars, outboxVars
<1>4. epoch' \in Nat
  <2>1. CASE \E k \in Key : Leave(k)
    BY <2>1 DEF Leave, flushVars, TypeInv, TypeOK
  <2>2. CASE Flush
    BY <2>2 DEF Flush, TypeInv, TypeOK
  <2>3. QED
    BY <2>1, <2>2
<1>5. torn' \in BOOLEAN
  <2>1. CASE \E k \in Key : Leave(k)
    BY <2>1 DEF Leave, flushVars, TypeInv, TypeOK
  <2>2. CASE Flush
    <3>1. PICK seen \in SUBSET Key : torn' = (\E k \in Key \ seen : cached[k] # Nil)
      BY <2>2 DEF Flush
    <3>2. QED
      BY <3>1, Zenon
  <2>3. QED
    BY <2>1, <2>2
<1>6. QED
  BY <1>1, <1>2, <1>3, <1>4, <1>5 DEF TypeInv, TypeOK

LEMMA TypeTime ==
  ASSUME TypeInv, NEW e \in Event, Elapse(e) \/ Stall(e)
  PROVE  TypeInv'
<1>1. EventsKnown'
  BY DEF Elapse, Stall, TypeInv, EventsKnown, Present, originVars, outboxVars
<1>2. due' \in [Event -> BOOLEAN]
  BY DEF Elapse, Stall, TypeInv, TypeOK
<1>3. faults' \in Nat
  BY DEF Elapse, Stall, Fault, TypeInv, TypeOK
<1>4. UNCHANGED <<cached, watermark, origin, row, status, attempts, reached,
                  job, late, fill, epoch, torn>>
  BY DEF Elapse, Stall, cacheVars, originVars, flushVars
<1>5. QED
  BY <1>1, <1>2, <1>3, <1>4 DEF TypeInv, TypeOK, CacheTypeOK

LEMMA TypeLateEffect ==
  ASSUME TypeInv, NEW c \in late, LateEffect(c[1], c[2])
  PROVE  TypeInv'
<1>1. c[1] \in Event /\ row[c[1]] \in Row
  BY DEF TypeInv, TypeOK, EventsKnown
<1>2. CacheTypeOK'
  BY <1>1, EffectType DEF LateEffect, TypeInv, TypeOK
<1>3. TypeOK'
  BY <1>2 DEF LateEffect, TypeInv, TypeOK, originVars, outboxVars, flushVars
<1>4. EventsKnown'
  BY DEF LateEffect, TypeInv, EventsKnown, Present, originVars, outboxVars
<1>5. QED
  BY <1>3, <1>4 DEF TypeInv

LEMMA TypeClaim ==
  ASSUME TypeInv, NEW w \in Worker, Claim(w)
  PROVE  TypeInv'
<1>1. PICK e \in Event :
        /\ Claimable(e)
        /\ status' = [status EXCEPT ![e] = "processing"]
        /\ attempts' = [attempts EXCEPT ![e] = NextAttempt(e)]
        /\ due' = [due EXCEPT ![e] = FALSE]
        /\ job' = [job EXCEPT ![w] = [pc |-> "claimed", event |-> e,
                                      token |-> NextAttempt(e),
                                      epoch |-> epoch]]
  BY DEF Claim
<1>2. NextAttempt(e) \in Nat
  BY DEF NextAttempt, TypeInv, TypeOK
<1>3. [pc |-> "claimed", event |-> e, token |-> NextAttempt(e),
       epoch |-> epoch] \in Job
  BY <1>2 DEF Job, TypeInv, TypeOK
<1>4. TypeOK'
  BY <1>1, <1>2, <1>3 DEF Claim, TypeInv, TypeOK, CacheTypeOK, originVars,
                          cacheVars, flushVars
<1>5. EventsKnown'
  <2>1. Present(e) /\ job'[w].event = e
    BY <1>1 DEF Claimable, Present, TypeInv, TypeOK
  <2>2. \A x \in Event : Present(x)' <=> Present(x)
    BY <1>1, <2>1 DEF Present, TypeInv, TypeOK
  <2>3. row' = row /\ late' = late
    BY DEF Claim, originVars
  <2>4. \A x \in Worker : job'[x] # Idle => Present(job'[x].event)
    BY <1>1, <2>1 DEF TypeInv, TypeOK, EventsKnown
  <2>5. \A x \in Worker : job'[x] # Idle => job'[x].event \in Event
    BY <1>4 DEF TypeOK, Job
  <2>6. \A c \in late : c[1] \in Event
    BY DEF TypeInv, TypeOK
  <2>7. QED
    BY <2>2, <2>3, <2>4, <2>5, <2>6 DEF TypeInv, EventsKnown
<1>6. QED
  BY <1>4, <1>5 DEF TypeInv

(* The steps of a worker that holds an event.                              *)
LEMMA TypeMoved ==
  ASSUME TypeInv, NEW w \in Worker, job[w] # Idle,
         NEW pc \in {"claimed", "applied", "failed"}, Moved(w, pc)
  PROVE  /\ job' \in [Worker -> Job \cup {Idle}]
         /\ \A x \in Worker :
              job'[x] # Idle => job[x] # Idle /\ job'[x].event = job[x].event
<1>1. job[w] \in Job
  BY JobTaken
<1>2. [job[w] EXCEPT !.pc = pc] \in Job
  BY <1>1 DEF Job
<1>3. [job[w] EXCEPT !.pc = pc] # Idle
  BY <1>1 DEF Job, Idle
<1>4. [job[w] EXCEPT !.pc = pc].event = job[w].event
  BY <1>1 DEF Job
<1>5. job' = [job EXCEPT ![w] = [job[w] EXCEPT !.pc = pc]]
  BY DEF Moved
<1>6. job \in [Worker -> Job \cup {Idle}]
  BY DEF TypeInv, TypeOK
<1>7. QED
  BY <1>2, <1>3, <1>4, <1>5, <1>6

LEMMA TypeMarks ==
  ASSUME TypeInv, NEW w \in Worker, job[w] # Idle,
         MarkCompleted(w) \/ MarkPending(w) \/ UNCHANGED outboxVars
  PROVE  /\ status' \in [Event -> {"absent", "pending", "processing",
                                   "completed"}]
         /\ attempts' = attempts
         /\ due' \in [Event -> BOOLEAN]
         /\ reached' \in [Event -> Nat \cup {Nil}]
         /\ \A x \in Event : (status'[x] # "absent") <=> (status[x] # "absent")
<1>1. job[w].event \in Event /\ job[w].epoch \in Nat /\ Present(job[w].event)
  BY JobTaken
<1>2. QED
  BY <1>1 DEF MarkCompleted, MarkPending, Holds, TypeInv, TypeOK, outboxVars,
              Present

LEMMA TypeHolder ==
  ASSUME TypeInv, NEW w \in Worker,
         \/ Apply(w) \/ ApplyFails(w) \/ Complete(w) \/ CompleteFails(w)
         \/ Retry(w) \/ RetryFails(w) \/ Crash(w)
  PROVE  TypeInv'
<1>1. job[w] # Idle
  BY DEF Apply, ApplyFails, Complete, CompleteFails, Retry, RetryFails, Crash,
         Idle
<1>2. /\ job[w] \in Job /\ job[w].event \in Event /\ job[w].token \in Nat
      /\ row[job[w].event] \in Row /\ Present(job[w].event)
  BY <1>1, JobTaken
<1>3. UNCHANGED <<origin, row, fill, epoch, torn>>
  BY DEF Apply, ApplyFails, Complete, CompleteFails, Retry, RetryFails, Crash,
         originVars, flushVars
<1>4. faults' \in Nat
  <2>1. faults \in Nat
    BY DEF TypeInv, TypeOK
  <2>2. faults' = faults \/ faults' = faults + 1
    BY DEF Apply, ApplyFails, Complete, CompleteFails, Retry, RetryFails,
           Crash, Fault
  <2>3. QED
    BY <2>1, <2>2
<1>5. CacheTypeOK'
  <2>1. CASE Apply(w)
    BY <1>2, <2>1, EffectType DEF Apply, TypeInv, TypeOK
  <2>2. CASE ~Apply(w)
    <3>1. UNCHANGED <<cached, watermark>>
      BY <2>2 DEF ApplyFails, Complete, CompleteFails, Retry, RetryFails,
                  Crash, cacheVars
    <3>2. QED
      BY <3>1 DEF TypeInv, TypeOK, CacheTypeOK
  <2>3. QED
    BY <2>1, <2>2
<1>6. late' \subseteq Event \X Nat /\ \A c \in late' : Present(c[1])
  <2>1. late' = late \/ late' = late \cup {Sent(w)}
    BY DEF Apply, ApplyFails, Complete, CompleteFails, Retry, RetryFails, Crash
  <2>2. Sent(w) \in Event \X Nat /\ Sent(w)[1] = job[w].event
    BY <1>2 DEF Sent
  <2>3. QED
    BY <1>2, <2>1, <2>2 DEF TypeInv, TypeOK, EventsKnown
<1>7. /\ status' \in [Event -> {"absent", "pending", "processing", "completed"}]
      /\ attempts' \in [Event -> Nat]
      /\ due' \in [Event -> BOOLEAN]
      /\ reached' \in [Event -> Nat \cup {Nil}]
      /\ \A x \in Event : (status'[x] # "absent") <=> (status[x] # "absent")
  <2>1. MarkCompleted(w) \/ MarkPending(w) \/ UNCHANGED outboxVars
    BY DEF Apply, ApplyFails, Complete, CompleteFails, Retry, RetryFails, Crash
  <2>2. attempts' = attempts => attempts' \in [Event -> Nat]
    BY DEF TypeInv, TypeOK
  <2>3. QED
    BY <1>1, <2>1, <2>2, TypeMarks
<1>8. /\ job' \in [Worker -> Job \cup {Idle}]
      /\ \A x \in Worker :
           job'[x] # Idle => job[x] # Idle /\ job'[x].event = job[x].event
  <2>1. CASE job' = [job EXCEPT ![w] = Idle]
    BY <2>1 DEF TypeInv, TypeOK
  <2>2. CASE Apply(w)
    <3>1. [job[w] EXCEPT !.pc = "applied", !.epoch = epoch] \in Job
      BY <1>2 DEF Job, TypeInv, TypeOK
    <3>2. [job[w] EXCEPT !.pc = "applied", !.epoch = epoch].event = job[w].event
      BY <1>2 DEF Job
    <3>3. job' = [job EXCEPT ![w] = [job[w] EXCEPT !.pc = "applied",
                                                   !.epoch = epoch]]
      BY <2>2 DEF Apply
    <3>4. QED
      BY <1>1, <3>1, <3>2, <3>3 DEF TypeInv, TypeOK
  <2>3. CASE Moved(w, "failed")
    <3>1. "failed" \in {"claimed", "applied", "failed"}
      OBVIOUS
    <3>2. QED
      BY <1>1, <2>3, <3>1, TypeMoved
  <2>4. \/ Apply(w) \/ Moved(w, "failed")
        \/ job' = [job EXCEPT ![w] = Idle]
    BY DEF ApplyFails, Complete, CompleteFails, Retry, RetryFails, Crash
  <2>5. QED
    BY <2>1, <2>2, <2>3, <2>4
<1>9. TypeOK'
  BY <1>3, <1>4, <1>5, <1>6, <1>7, <1>8 DEF TypeInv, TypeOK
<1>10. EventsKnown'
  <2>1. \A x \in Event : Present(x)' <=> Present(x)
    BY <1>7 DEF Present
  <2>2. \A x \in Worker : job[x] # Idle => job[x].event \in Event
    BY JobTaken
  <2>3. \A c \in late' : Present(c[1])'
    BY <1>6, <2>1
  <2>4. QED
    BY <1>3, <1>8, <2>1, <2>2, <2>3 DEF TypeInv, EventsKnown
<1>11. QED
  BY <1>9, <1>10 DEF TypeInv

LEMMA TypeStutter ==
  ASSUME TypeInv, UNCHANGED vars
  PROVE  TypeInv'
BY DEF vars, TypeInv, TypeOK, CacheTypeOK, EventsKnown, Present

LEMMA TypeStep == TypeInv /\ [Next]_vars => TypeInv'
<1> SUFFICES ASSUME TypeInv, [Next]_vars PROVE TypeInv'
  OBVIOUS
<1>1. ASSUME NEW k \in Key, NEW policy \in Policy, NEW e \in Event,
             Write(k, policy, e)
      PROVE  TypeInv'
  BY <1>1, TypeWrite
<1>2. ASSUME NEW f \in Filler, FillerStep(f) PROVE TypeInv'
  BY <1>2, TypeFiller
<1>3. CASE (\E k \in Key : Leave(k)) \/ Flush
  BY <1>3, TypeCacheLoss
<1>4. ASSUME NEW w \in Worker, WorkerStep(w) PROVE TypeInv'
  BY <1>4, TypeClaim, TypeHolder DEF WorkerStep
<1>5. ASSUME NEW e \in Event, Elapse(e) \/ Stall(e) PROVE TypeInv'
  BY <1>5, TypeTime
<1>6. ASSUME NEW c \in late, LateEffect(c[1], c[2]) PROVE TypeInv'
  BY <1>6, TypeLateEffect
<1>7. CASE UNCHANGED vars
  BY <1>7, TypeStutter
<1>8. QED
  BY <1>1, <1>2, <1>3, <1>4, <1>5, <1>6, <1>7 DEF Next

(* Every behaviour keeps the types of the tables, of the cache and of what *)
(* the workers and fillers hold; no command refers to an event that was    *)
(* never committed (processNext applies only what claim returned).         *)
THEOREM TypeCorrect == Spec => []TypeOK
<1>1. Init => TypeInv
  BY InitTypeInv
<1>2. TypeInv /\ [Next]_vars => TypeInv'
  BY TypeStep
<1>3. TypeInv => TypeOK
  BY DEF TypeInv
<1>4. QED
  BY <1>1, <1>2, <1>3, PTL DEF Spec

-----------------------------------------------------------------------------
(* Second layer: versions.                                                 *)
VersionInv ==
  /\ VersionsBounded /\ NeverAheadOfOrigin /\ FenceHolds /\ OutboxCoversOrigin

(* One cache command: entries go, stay or become v; fences only rise, and  *)
(* to v; no entry falls below its fence.                                   *)
LEMMA CommandFacts ==
  ASSUME CacheTypeOK, NEW k \in Key, NEW v \in Nat,
         Put(k, v) \/ InvalidateThrough(k, v)
  PROVE  /\ \A j \in Key : \/ cached'[j] = cached[j] \/ cached'[j] = Nil
                           \/ j = k /\ cached'[j] = v
         /\ \A j \in Key : watermark[j] <= watermark'[j]
         /\ \A j \in Key : watermark'[j] = watermark[j]
                           \/ (j = k /\ watermark'[j] = v)
         /\ FenceHolds => FenceHolds'
         /\ (\A j \in Key : cached[j] <= watermark[j]) =>
              /\ \A j \in Key : cached'[j] <= watermark'[j]
              /\ v <= watermark'[k]
<1>1. CASE Store(k, v)
  <2>1. PICK lost \in SUBSET (Key \ {k}) :
          cached' = [WithoutEntries(lost) EXCEPT ![k] = v]
    BY <1>1 DEF Store
  <2>2. cached'[k] = v /\ watermark'[k] = v /\ watermark[k] <= v
    BY <1>1, <2>1 DEF Store, Admits, RaisedFence, CacheTypeOK, WithoutEntries,
                      Nil
  <2>3. \A j \in Key \ {k} : /\ cached'[j] = cached[j] \/ cached'[j] = Nil
                             /\ watermark'[j] = watermark[j]
    BY <1>1, <2>1 DEF Store, RaisedFence, CacheTypeOK, WithoutEntries
  <2>4. QED
    BY <2>2, <2>3 DEF CacheTypeOK, FenceHolds, Nil
<1>2. CASE Refuse(k, v)
  <2>1. cached' = cached /\ watermark' = watermark
    BY <1>2 DEF Refuse, cacheVars
  <2>2. (\A j \in Key : cached[j] <= watermark[j]) => v <= watermark[k]
    BY <1>2 DEF Refuse, Admits, CacheTypeOK, Nil
  <2>3. QED
    BY <2>1, <2>2 DEF CacheTypeOK, FenceHolds, Nil
<1>3. CASE InvalidateThrough(k, v)
  <2>1. /\ watermark'[k] = IF v > watermark[k] THEN v ELSE watermark[k]
        /\ cached'[k] = IF cached[k] <= v THEN Nil ELSE cached[k]
    BY <1>3 DEF InvalidateThrough, RaisedFence, WithoutEntries, CacheTypeOK
  <2>2. \A j \in Key \ {k} :
          cached'[j] = cached[j] /\ watermark'[j] = watermark[j]
    BY <1>3 DEF InvalidateThrough, RaisedFence, WithoutEntries, CacheTypeOK
  <2>3. QED
    BY <2>1, <2>2 DEF CacheTypeOK, FenceHolds, Nil
<1>4. QED
  BY <1>1, <1>2, <1>3 DEF Put

LEMMA EffectIsCommand ==
  ASSUME NEW e \in Event, row[e] \in Row, Effect(e)
  PROVE  /\ row[e].key \in Key /\ row[e].version \in Nat
         /\ \/ Put(row[e].key, row[e].version)
            \/ InvalidateThrough(row[e].key, row[e].version)
BY DEF Effect, Row

(* A worker step leaves the committed rows and the set of events alone.    *)
LEMMA RowsKept ==
  ASSUME TypeInv, NEW w \in Worker, WorkerStep(w)
  PROVE  /\ UNCHANGED <<origin, row, fill, epoch, torn>>
         /\ \A x \in Event : Present(x)' <=> Present(x)
<1>1. UNCHANGED <<origin, row, fill, epoch, torn>>
  BY DEF WorkerStep, Claim, Apply, ApplyFails, Complete, CompleteFails, Retry,
         RetryFails, Crash, originVars, flushVars
<1>2. CASE Claim(w)
  <2>1. PICK e \in Event :
          Claimable(e) /\ status' = [status EXCEPT ![e] = "processing"]
    BY <1>2 DEF Claim
  <2>2. QED
    BY <1>1, <2>1 DEF Claimable, Present, TypeInv, TypeOK
<1>3. CASE ~Claim(w)
  <2>1. job[w] # Idle
    BY <1>3 DEF WorkerStep, Apply, ApplyFails, Complete, CompleteFails, Retry,
                RetryFails, Crash, Idle
  <2>2. MarkCompleted(w) \/ MarkPending(w) \/ UNCHANGED outboxVars
    BY <1>3 DEF WorkerStep, Apply, ApplyFails, Complete, CompleteFails, Retry,
                RetryFails, Crash
  <2>3. QED
    BY <1>1, <2>1, <2>2, TypeMarks DEF Present
<1>4. QED
  BY <1>1, <1>2, <1>3

(* Versions between seed and origin keep the cache there.                  *)
LEMMA VersionCommand ==
  ASSUME TypeInv, VersionInv, NEW k \in Key, NEW v \in Nat,
         Put(k, v) \/ InvalidateThrough(k, v),
         Seed[k] <= v, v <= origin[k]
  PROVE  /\ \A j \in Key : /\ cached'[j] = Nil \/ Seed[j] <= cached'[j]
                           /\ cached'[j] <= origin[j]
                           /\ watermark'[j] <= origin[j]
         /\ FenceHolds'
<1>1. CacheTypeOK /\ origin \in [Key -> Nat] /\ Seed \in [Key -> Nat]
  BY ReconciliationAssumption DEF TypeInv, TypeOK
<1>2. FenceHolds'
  BY <1>1, CommandFacts DEF VersionInv
<1>3. \A j \in Key : /\ \/ cached'[j] = cached[j] \/ cached'[j] = Nil
                        \/ j = k /\ cached'[j] = v
                     /\ \/ watermark'[j] = watermark[j]
                        \/ (j = k /\ watermark'[j] = v)
  BY <1>1, CommandFacts
<1>4. QED
  BY <1>1, <1>2, <1>3 DEF VersionInv, VersionsBounded, NeverAheadOfOrigin, Nil

(* Steps that change neither the origin nor the set of events.             *)
LEMMA VersionFrame ==
  ASSUME TypeInv, VersionInv, UNCHANGED <<origin, row, fill>>,
         \A x \in Event : Present(x)' <=> Present(x),
         \A j \in Key : /\ cached'[j] = Nil \/ Seed[j] <= cached'[j]
                        /\ cached'[j] <= origin[j]
                        /\ watermark'[j] <= origin[j],
         FenceHolds'
  PROVE  VersionInv'
<1>1. VersionsBounded'
  BY DEF VersionInv, VersionsBounded
<1>2. NeverAheadOfOrigin'
  BY DEF NeverAheadOfOrigin
<1>3. OutboxCoversOrigin'
  BY DEF VersionInv, OutboxCoversOrigin
<1>4. QED
  BY <1>1, <1>2, <1>3 DEF VersionInv

LEMMA VersionSame ==
  ASSUME VersionInv, UNCHANGED <<cached, watermark>>
  PROVE  /\ \A j \in Key : /\ cached'[j] = Nil \/ Seed[j] <= cached'[j]
                           /\ cached'[j] <= origin[j]
                           /\ watermark'[j] <= origin[j]
         /\ FenceHolds'
BY DEF VersionInv, VersionsBounded, NeverAheadOfOrigin, FenceHolds

LEMMA VersionWrite ==
  ASSUME TypeInv, VersionInv, TypeInv', NEW k \in Key, NEW policy \in Policy,
         NEW e \in Event, Write(k, policy, e)
  PROVE  VersionInv'
<1>1. /\ origin \in [Key -> Nat] /\ Seed \in [Key -> Nat]
      /\ CacheTypeOK /\ row \in [Event -> Row \cup {NoRow}]
      /\ status \in [Event -> {"absent", "pending", "processing", "completed"}]
  BY ReconciliationAssumption DEF TypeInv, TypeOK
<1>2. /\ origin'[k] = origin[k] + 1
      /\ \A j \in Key \ {k} : origin'[j] = origin[j]
      /\ UNCHANGED <<cached, watermark, fill>>
  BY <1>1 DEF Write, NextVersion, cacheVars
<1>3. \A j \in Key : origin[j] <= origin'[j] /\ origin'[j] \in Nat
  BY <1>1, <1>2
<1>4. /\ row'[e].key = k /\ row'[e].version = origin[k] + 1 /\ Present(e)'
      /\ ~Present(e)
      /\ \A x \in Event \ {e} : row'[x] = row[x] /\ (Present(x)' <=> Present(x))
  BY <1>1 DEF Write, NextVersion, Present
<1>5. NeverAheadOfOrigin' /\ FenceHolds'
  BY <1>1, <1>2, <1>3 DEF VersionInv, NeverAheadOfOrigin, FenceHolds,
                          CacheTypeOK, Nil
<1>6. Seed[k] <= origin[k]
  <2>1. CASE origin[k] = Seed[k]
    BY <1>1, <2>1
  <2>2. CASE origin[k] # Seed[k]
    <3>1. PICK x \in Event : /\ Present(x)
                             /\ row[x].key = k /\ row[x].version = origin[k]
      BY <2>2 DEF VersionInv, OutboxCoversOrigin
    <3>2. Seed[k] < origin[k]
      BY <3>1 DEF VersionInv, VersionsBounded
    <3>3. QED
      BY <1>1, <3>2
  <2>3. QED
    BY <2>1, <2>2
<1>7. VersionsBounded'
  <2>1. \A j \in Key : cached'[j] = Nil \/ Seed[j] <= cached'[j]
    BY <1>2 DEF VersionInv, VersionsBounded
  <2>2. \A x \in Event : Present(x)' =>
          Seed[row'[x].key] < row'[x].version /\ row'[x].version <= origin'[row'[x].key]
    <3>1. Seed[k] < origin[k] + 1
      BY <1>1, <1>6
    <3>2. ASSUME NEW x \in Event \ {e}, Present(x)
          PROVE  Seed[row[x].key] < row[x].version
                   /\ row[x].version <= origin'[row[x].key]
      <4>1. row[x].key \in Key /\ row[x].version \in Nat
        BY <3>2 DEF TypeInv, EventsKnown, Row
      <4>2. Seed[row[x].key] < row[x].version
              /\ row[x].version <= origin[row[x].key]
        BY <3>2 DEF VersionInv, VersionsBounded
      <4>3. QED
        BY <1>1, <1>3, <4>1, <4>2
    <3>3. QED
      BY <1>1, <1>2, <1>4, <3>1, <3>2
  <2>3. \A f \in Filler : fill[f] # NoFill =>
          Seed[fill[f].key] <= fill[f].version
            /\ fill[f].version <= origin'[fill[f].key]
    <3>1. ASSUME NEW f \in Filler, fill[f] # NoFill
          PROVE  fill[f].key \in Key /\ fill[f].version \in Nat
      BY <3>1 DEF TypeInv, TypeOK, Fill
    <3>2. QED
      BY <1>1, <1>3, <3>1 DEF VersionInv, VersionsBounded
  <2>4. QED
    BY <1>2, <2>1, <2>2, <2>3 DEF VersionsBounded
<1>8. OutboxCoversOrigin'
  <2>1. ASSUME NEW j \in Key, origin'[j] # Seed[j]
        PROVE  \E x \in Event : /\ Present(x)'
                                /\ row'[x].key = j /\ row'[x].version = origin'[j]
    <3>1. CASE j = k
      BY <1>2, <1>4, <3>1
    <3>2. CASE j # k
      <4>1. PICK x \in Event : /\ Present(x)
                               /\ row[x].key = j /\ row[x].version = origin[j]
        BY <1>2, <2>1, <3>2 DEF VersionInv, OutboxCoversOrigin
      <4>2. x # e
        BY <1>4, <4>1
      <4>3. QED
        BY <1>2, <1>4, <3>2, <4>1, <4>2
    <3>3. QED
      BY <3>1, <3>2
  <2>2. QED
    BY <2>1 DEF OutboxCoversOrigin
<1>9. QED
  BY <1>5, <1>7, <1>8 DEF VersionInv

LEMMA VersionFiller ==
  ASSUME TypeInv, VersionInv, NEW f \in Filler, FillerStep(f)
  PROVE  VersionInv'
<1>1. /\ UNCHANGED <<origin, row>>
      /\ \A x \in Event : Present(x)' <=> Present(x)
  BY DEF FillerStep, FillRead, FillPut, FillLost, originVars, outboxVars, Present
<1>2. /\ \A j \in Key : /\ cached'[j] = Nil \/ Seed[j] <= cached'[j]
                        /\ cached'[j] <= origin[j]
                        /\ watermark'[j] <= origin[j]
      /\ FenceHolds'
  <2>1. CASE FillPut(f)
    <3>1. fill[f].key \in Key /\ fill[f].version \in Nat
      BY <2>1 DEF FillPut, TypeInv, TypeOK, Fill
    <3>2. Seed[fill[f].key] <= fill[f].version
            /\ fill[f].version <= origin[fill[f].key]
      BY <2>1 DEF FillPut, VersionInv, VersionsBounded
    <3>3. Put(fill[f].key, fill[f].version)
      BY <2>1 DEF FillPut
    <3>4. QED
      BY <3>1, <3>2, <3>3, VersionCommand
  <2>2. CASE ~FillPut(f)
    BY <2>2, VersionSame DEF FillerStep, FillRead, FillLost, cacheVars
  <2>3. QED
    BY <2>1, <2>2
<1>3. \A x \in Filler : fill'[x] # NoFill =>
        Seed[fill'[x].key] <= fill'[x].version
          /\ fill'[x].version <= origin[fill'[x].key]
  <2>1. fill \in [Filler -> Fill \cup {NoFill}]
    BY DEF TypeInv, TypeOK
  <2>2. CASE fill' = [fill EXCEPT ![f] = NoFill]
    BY <2>1, <2>2 DEF VersionInv, VersionsBounded
  <2>3. ASSUME NEW k \in Key, FillRead(f, k)
        PROVE  \A x \in Filler : fill'[x] # NoFill =>
                 Seed[fill'[x].key] <= fill'[x].version
                   /\ fill'[x].version <= origin[fill'[x].key]
    <3>1. Seed[k] <= origin[k] /\ origin[k] <= origin[k]
      <4>1. origin[k] \in Nat /\ Seed[k] \in Nat
        BY ReconciliationAssumption DEF TypeInv, TypeOK
      <4>2. origin[k] = Seed[k] \/ Seed[k] < origin[k]
        BY DEF VersionInv, OutboxCoversOrigin, VersionsBounded
      <4>3. QED
        BY <4>1, <4>2
    <3>2. fill'[f].key = k /\ fill'[f].version = origin[k]
      BY <2>1, <2>3 DEF FillRead
    <3>3. \A x \in Filler \ {f} : fill'[x] = fill[x]
      BY <2>1, <2>3 DEF FillRead
    <3>4. QED
      BY <3>1, <3>2, <3>3 DEF VersionInv, VersionsBounded
  <2>4. QED
    BY <2>2, <2>3 DEF FillerStep, FillPut, FillLost
<1>4. VersionsBounded' /\ NeverAheadOfOrigin' /\ OutboxCoversOrigin'
  BY <1>1, <1>2, <1>3
     DEF VersionInv, VersionsBounded, NeverAheadOfOrigin, OutboxCoversOrigin
<1>5. QED
  BY <1>2, <1>4 DEF VersionInv

LEMMA VersionStep ==
  ASSUME TypeInv, TypeInv', VersionInv, [Next]_vars
  PROVE  VersionInv'
<1>1. ASSUME NEW k \in Key, NEW policy \in Policy, NEW e \in Event,
             Write(k, policy, e)
      PROVE  VersionInv'
  BY <1>1, VersionWrite
<1>2. ASSUME NEW f \in Filler, FillerStep(f) PROVE VersionInv'
  BY <1>2, VersionFiller
<1>3. CASE (\E k \in Key : Leave(k)) \/ Flush
  <2>1. \A j \in Key : /\ cached'[j] = cached[j] \/ cached'[j] = Nil
                       /\ watermark'[j] = watermark[j] \/ watermark'[j] = Nil
    BY <1>3 DEF Leave, Drop, Flush, Clear, WithoutEntries
  <2>2. FenceHolds'
    <3>1. CASE \E k \in Key : Leave(k)
      BY <3>1 DEF Leave, Drop, WithoutEntries, VersionInv, FenceHolds, TypeInv,
                  TypeOK, CacheTypeOK
    <3>2. CASE Flush
      BY <3>2 DEF Flush, Clear, WithoutEntries, FenceHolds, TypeInv, TypeOK,
                  CacheTypeOK, Nil
    <3>3. QED
      BY <1>3, <3>1, <3>2
  <2>3. /\ UNCHANGED <<origin, row, fill>>
        /\ \A x \in Event : Present(x)' <=> Present(x)
    BY <1>3 DEF Leave, Flush, originVars, outboxVars, Present
  <2>4. origin \in [Key -> Nat]
    BY DEF TypeInv, TypeOK
  <2>5. \A j \in Key : /\ cached'[j] = Nil \/ Seed[j] <= cached'[j]
                       /\ cached'[j] <= origin[j]
                       /\ watermark'[j] <= origin[j]
    BY <2>1, <2>4 DEF VersionInv, VersionsBounded, NeverAheadOfOrigin, Nil
  <2>6. QED
    BY <2>2, <2>3, <2>5, VersionFrame
<1>4. ASSUME NEW w \in Worker, WorkerStep(w) PROVE VersionInv'
  <2>1. /\ UNCHANGED <<origin, row, fill>>
        /\ \A x \in Event : Present(x)' <=> Present(x)
    BY <1>4, RowsKept
  <2>2. /\ \A j \in Key : /\ cached'[j] = Nil \/ Seed[j] <= cached'[j]
                          /\ cached'[j] <= origin[j]
                          /\ watermark'[j] <= origin[j]
        /\ FenceHolds'
    <3>1. CASE Apply(w)
      <4>1. job[w] # Idle
        BY <3>1 DEF Apply, Idle
      <4>2. /\ job[w].event \in Event /\ row[job[w].event] \in Row
            /\ Present(job[w].event) /\ Effect(job[w].event)
        BY <3>1, <4>1, JobTaken DEF Apply
      <4>3. Seed[row[job[w].event].key] < row[job[w].event].version
              /\ row[job[w].event].version <= origin[row[job[w].event].key]
        BY <4>2 DEF VersionInv, VersionsBounded
      <4>4. Seed[row[job[w].event].key] <= row[job[w].event].version
        BY <4>2, <4>3, ReconciliationAssumption DEF Row
      <4>5. QED
        BY <4>2, <4>3, <4>4, EffectIsCommand, VersionCommand
    <3>2. CASE ~Apply(w)
      BY <1>4, <3>2, VersionSame DEF WorkerStep, Claim, ApplyFails, Complete,
         CompleteFails, Retry, RetryFails, Crash, cacheVars
    <3>3. QED
      BY <3>1, <3>2
  <2>3. QED
    BY <2>1, <2>2, VersionFrame
<1>5. ASSUME NEW e \in Event, Elapse(e) \/ Stall(e) PROVE VersionInv'
  <2>1. /\ UNCHANGED <<cached, watermark, origin, row, fill>>
        /\ \A x \in Event : Present(x)' <=> Present(x)
    BY <1>5 DEF Elapse, Stall, cacheVars, originVars, Present
  <2>2. QED
    BY <2>1, VersionSame, VersionFrame
<1>6. ASSUME NEW c \in late, LateEffect(c[1], c[2]) PROVE VersionInv'
  <2>1. /\ UNCHANGED <<origin, row, fill>>
        /\ \A x \in Event : Present(x)' <=> Present(x)
    BY <1>6 DEF LateEffect, originVars, outboxVars, Present
  <2>2. /\ c[1] \in Event /\ row[c[1]] \in Row /\ Present(c[1]) /\ Effect(c[1])
    BY <1>6 DEF LateEffect, TypeInv, TypeOK, EventsKnown
  <2>3. Seed[row[c[1]].key] < row[c[1]].version
          /\ row[c[1]].version <= origin[row[c[1]].key]
    BY <2>2 DEF VersionInv, VersionsBounded
  <2>4. Seed[row[c[1]].key] <= row[c[1]].version
    BY <2>2, <2>3, ReconciliationAssumption DEF Row
  <2>5. QED
    BY <2>1, <2>2, <2>3, <2>4, EffectIsCommand, VersionCommand, VersionFrame
<1>7. CASE UNCHANGED vars
  <2>1. /\ UNCHANGED <<cached, watermark, origin, row, fill>>
        /\ \A x \in Event : Present(x)' <=> Present(x)
    BY <1>7 DEF vars, Present
  <2>2. QED
    BY <2>1, VersionSame, VersionFrame
<1>8. QED
  BY <1>1, <1>2, <1>3, <1>4, <1>5, <1>6, <1>7 DEF Next

-----------------------------------------------------------------------------
(* Third layer: claims and their tokens.                                   *)
ClaimInv == TokensIssued /\ TokensDiffer /\ EpochsPast

(* A worker that settles, fails or dies keeps its claim as it is or drops  *)
(* it, and only Apply makes it "applied".                                  *)
LEMMA HolderJobs ==
  ASSUME TypeInv, NEW w \in Worker, WorkerStep(w), ~Claim(w)
  PROVE  /\ job[w] # Idle
         /\ attempts' = attempts
         /\ \A x \in Worker : job'[x] # Idle =>
              /\ job[x] # Idle
              /\ job'[x].event = job[x].event
              /\ job'[x].token = job[x].token
              /\ job'[x].epoch = job[x].epoch \/ job'[x].epoch = epoch
              /\ job'[x].pc = "applied" =>
                   \/ job[x].pc = "applied" /\ job'[x].epoch = job[x].epoch
                   \/ x = w /\ Apply(w)
<1>1. job[w] # Idle
  BY DEF WorkerStep, Apply, ApplyFails, Complete, CompleteFails, Retry,
         RetryFails, Crash, Idle
<1>2. job[w] \in Job /\ job \in [Worker -> Job \cup {Idle}]
  BY <1>1, JobTaken DEF TypeInv, TypeOK
<1>3. attempts' = attempts
  BY DEF WorkerStep, Apply, ApplyFails, Complete, CompleteFails, Retry,
         RetryFails, Crash, MarkCompleted, MarkPending, outboxVars
<1>4. \A x \in Worker \ {w} : job'[x] = job[x]
  BY <1>2 DEF WorkerStep, Apply, ApplyFails, Complete, CompleteFails, Retry,
         RetryFails, Crash, Moved
<1>5. job'[w] # Idle =>
        /\ job'[w].event = job[w].event
        /\ job'[w].token = job[w].token
        /\ job'[w].epoch = job[w].epoch \/ job'[w].epoch = epoch
        /\ job'[w].pc = "applied" => Apply(w)
  <2>1. CASE job' = [job EXCEPT ![w] = Idle]
    BY <1>2, <2>1
  <2>2. CASE Apply(w)
    <3>1. job'[w] = [job[w] EXCEPT !.pc = "applied", !.epoch = epoch]
      BY <1>2, <2>2 DEF Apply
    <3>2. QED
      BY <1>2, <2>2, <3>1 DEF Job
  <2>3. CASE Moved(w, "failed")
    <3>1. job'[w] = [job[w] EXCEPT !.pc = "failed"]
      BY <1>2, <2>3 DEF Moved
    <3>2. QED
      BY <1>2, <3>1 DEF Job
  <2>4. \/ Apply(w) \/ Moved(w, "failed")
        \/ job' = [job EXCEPT ![w] = Idle]
    BY DEF WorkerStep, ApplyFails, Complete, CompleteFails, Retry, RetryFails,
           Crash
  <2>5. QED
    BY <2>1, <2>2, <2>3, <2>4
<1>6. QED
  BY <1>1, <1>3, <1>4, <1>5

LEMMA ClaimStep ==
  ASSUME TypeInv, TypeInv', ClaimInv, [Next]_vars
  PROVE  ClaimInv'
<1>1. /\ attempts \in [Event -> Nat] /\ job \in [Worker -> Job \cup {Idle}]
      /\ epoch \in Nat /\ reached \in [Event -> Nat \cup {Nil}]
  BY DEF TypeInv, TypeOK
<1>2. \A x \in Worker : job[x] # Idle =>
        /\ job[x].event \in Event /\ job[x].token \in Nat
        /\ job[x].epoch \in Nat
  BY JobTaken
<1>3. CASE UNCHANGED <<job, attempts, epoch, reached>>
  BY <1>3 DEF ClaimInv, TokensIssued, TokensDiffer, EpochsPast
<1>4. CASE Flush
  <2>1. epoch' = epoch + 1 /\ UNCHANGED <<job, attempts, reached>>
    BY <1>4 DEF Flush, outboxVars
  <2>2. EpochsPast'
    BY <1>1, <1>2, <2>1 DEF ClaimInv, EpochsPast, Nil
  <2>3. QED
    BY <2>1, <2>2 DEF ClaimInv, TokensIssued, TokensDiffer
<1>5. ASSUME NEW w \in Worker, Claim(w) PROVE ClaimInv'
  <2>1. PICK e \in Event :
          /\ attempts' = [attempts EXCEPT ![e] = NextAttempt(e)]
          /\ job' = [job EXCEPT ![w] = [pc |-> "claimed", event |-> e,
                                        token |-> NextAttempt(e),
                                        epoch |-> epoch]]
    BY <1>5 DEF Claim
  <2>2. UNCHANGED <<epoch, reached>>
    BY <1>5 DEF Claim, flushVars
  <2>3. /\ job'[w].event = e /\ job'[w].token = attempts[e] + 1
        /\ job'[w].epoch = epoch
        /\ \A x \in Worker \ {w} : job'[x] = job[x]
    BY <1>1, <2>1 DEF NextAttempt
  <2>4. /\ attempts'[e] = attempts[e] + 1
        /\ \A x \in Event : attempts[x] <= attempts'[x] /\ attempts'[x] \in Nat
    BY <1>1, <2>1 DEF NextAttempt
  <2>5. TokensIssued'
    <3>1. ASSUME NEW x \in Worker \ {w}, job[x] # Idle
          PROVE  job[x].token <= attempts'[job[x].event]
      <4>1. job[x].token <= attempts[job[x].event]
        BY <3>1 DEF ClaimInv, TokensIssued
      <4>2. QED
        BY <1>1, <1>2, <2>4, <3>1, <4>1
    <3>2. job'[w].token <= attempts'[job'[w].event]
      BY <1>1, <2>3, <2>4
    <3>3. QED
      BY <2>3, <3>1, <3>2 DEF TokensIssued
  <2>6. TokensDiffer'
    <3>1. ASSUME NEW x \in Worker \ {w}, job[x] # Idle, job[x].event = e
          PROVE  job[x].token # attempts[e] + 1
      BY <1>1, <1>2, <3>1 DEF ClaimInv, TokensIssued
    <3>2. QED
      BY <2>3, <3>1 DEF ClaimInv, TokensDiffer
  <2>7. EpochsPast'
    BY <1>1, <2>2, <2>3 DEF ClaimInv, EpochsPast
  <2>8. QED
    BY <2>5, <2>6, <2>7 DEF ClaimInv
<1>6. ASSUME NEW w \in Worker, WorkerStep(w), ~Claim(w) PROVE ClaimInv'
  <2>1. /\ job[w] # Idle /\ attempts' = attempts /\ epoch' = epoch
        /\ \A x \in Worker : job'[x] # Idle =>
             /\ job[x] # Idle
             /\ job'[x].event = job[x].event
             /\ job'[x].token = job[x].token
             /\ job'[x].epoch = job[x].epoch \/ job'[x].epoch = epoch
    BY <1>6, HolderJobs, RowsKept
  <2>2. \A x \in Event : reached'[x] = reached[x] \/ reached'[x] = job[w].epoch
    <3>1. MarkCompleted(w) \/ MarkPending(w) \/ UNCHANGED outboxVars
      BY <1>6 DEF WorkerStep, Apply, ApplyFails, Complete, CompleteFails,
                  Retry, RetryFails, Crash
    <3>2. QED
      BY <1>1, <3>1 DEF MarkCompleted, MarkPending, outboxVars
  <2>3. TokensIssued' /\ TokensDiffer'
    BY <2>1 DEF ClaimInv, TokensIssued, TokensDiffer
  <2>4. EpochsPast'
    BY <1>1, <2>1, <2>2 DEF ClaimInv, EpochsPast
  <2>5. QED
    BY <2>3, <2>4 DEF ClaimInv
<1>7. \/ UNCHANGED <<job, attempts, epoch, reached>> \/ Flush
      \/ \E w \in Worker : WorkerStep(w)
  BY DEF Next, Write, FillerStep, FillRead, FillPut, FillLost, Leave, Elapse,
         Stall, LateEffect, outboxVars, flushVars, vars
<1>8. QED
  BY <1>3, <1>4, <1>5, <1>6, <1>7

-----------------------------------------------------------------------------
(* Fourth layer: effects stay under the fence.                             *)
Fenced ==
  /\ \A k \in Key : cached[k] <= watermark[k]
  /\ \A e \in Event :
       Reconciled(e) => row[e].version <= watermark[row[e].key]
  /\ \A w \in Worker :
       job[w].pc = "applied" /\ job[w].epoch = epoch =>
         row[job[w].event].version <= watermark[row[job[w].event].key]

(* A reconciled event, or one whose effect is done, names a committed row. *)
LEMMA FencedRows ==
  ASSUME TypeInv
  PROVE  /\ \A e \in Event : Reconciled(e) =>
              /\ Present(e) /\ row[e] \in Row
              /\ row[e].key \in Key /\ row[e].version \in Nat
         /\ \A w \in Worker : job[w].pc = "applied" =>
              /\ job[w] # Idle /\ job[w].event \in Event
              /\ Present(job[w].event)
              /\ row[job[w].event].key \in Key
              /\ row[job[w].event].version \in Nat
<1>1. \A e \in Event : Present(e) =>
        row[e] \in Row /\ row[e].key \in Key /\ row[e].version \in Nat
  BY DEF TypeInv, EventsKnown, Row
<1>2. \A e \in Event : Reconciled(e) => Present(e)
  BY DEF Reconciled, Present
<1>3. \A w \in Worker : job[w].pc = "applied" => job[w] # Idle
  BY DEF Idle
<1>4. QED
  BY <1>1, <1>2, <1>3, JobTaken

(* A cache command moves fences up only, so it keeps what they cover.      *)
LEMMA FencedCommand ==
  ASSUME TypeInv, Fenced, NEW k \in Key, NEW v \in Nat,
         Put(k, v) \/ InvalidateThrough(k, v)
  PROVE  /\ \A j \in Key : cached'[j] <= watermark'[j]
         /\ v <= watermark'[k]
         /\ \A j \in Key : watermark[j] <= watermark'[j]
BY CommandFacts DEF TypeInv, TypeOK, Fenced

(* Fences that only rise, with no new effect, keep Fenced.                 *)
LEMMA FencedFrame ==
  ASSUME TypeInv, TypeInv', Fenced,
         \A j \in Key : cached'[j] <= watermark'[j],
         \A j \in Key : watermark[j] <= watermark'[j],
         \A e \in Event : Reconciled(e)' => Reconciled(e),
         \A e \in Event : Present(e) => row'[e] = row[e],
         \A w \in Worker : job'[w].pc = "applied" /\ job'[w].epoch = epoch' =>
           /\ job[w].pc = "applied" /\ job[w].epoch = epoch
           /\ job'[w].event = job[w].event
  PROVE  Fenced'
<1>1. watermark \in [Key -> Nat \cup {Nil}] /\ watermark' \in [Key -> Nat \cup {Nil}]
  BY DEF TypeInv, TypeOK, CacheTypeOK
<1>2. \A e \in Event : Reconciled(e)' => row'[e].version <= watermark'[row'[e].key]
  <2>1. ASSUME NEW e \in Event, Reconciled(e)
        PROVE  row'[e].version <= watermark'[row'[e].key]
    <3>1. /\ row'[e] = row[e]
          /\ row[e].key \in Key /\ row[e].version \in Nat
          /\ row[e].version <= watermark[row[e].key]
      BY <2>1, FencedRows DEF Fenced
    <3>2. QED
      BY <1>1, <3>1 DEF Nil
  <2>2. QED
    BY <2>1
<1>3. ASSUME NEW w \in Worker, job'[w].pc = "applied", job'[w].epoch = epoch'
      PROVE  row'[job'[w].event].version <= watermark'[row'[job'[w].event].key]
  <2>1. /\ job[w].pc = "applied" /\ job[w].epoch = epoch
        /\ job'[w].event = job[w].event
    BY <1>3
  <2>2. /\ row'[job[w].event] = row[job[w].event]
        /\ row[job[w].event].key \in Key /\ row[job[w].event].version \in Nat
        /\ row[job[w].event].version <= watermark[row[job[w].event].key]
    BY <2>1, FencedRows DEF Fenced
  <2>3. QED
    BY <1>1, <2>1, <2>2 DEF Nil
<1>4. QED
  BY <1>2, <1>3 DEF Fenced

LEMMA FencedFlush ==
  ASSUME TypeInv, EpochsPast, Flush, ~torn'
  PROVE  Fenced'
<1>1. PICK seen \in SUBSET Key :
        Clear(seen) /\ torn' = (\E k \in Key \ seen : cached[k] # Nil)
  BY DEF Flush
<1>2. \A k \in Key : cached'[k] = Nil /\ watermark'[k] = Nil
  BY <1>1 DEF Clear, WithoutEntries
<1>3. \A e \in Event : reached'[e] # epoch'
  BY DEF Flush, EpochsPast, outboxVars, TypeInv, TypeOK, Nil
<1>4. \A w \in Worker : job'[w].pc = "applied" => job'[w].epoch # epoch'
  <2>1. ASSUME NEW w \in Worker, job[w].pc = "applied"
        PROVE  job[w].epoch # epoch + 1
    <3>1. job[w] # Idle
      BY <2>1 DEF Idle
    <3>2. job[w].epoch \in Nat /\ epoch \in Nat /\ job[w].epoch <= epoch
      BY <3>1, JobTaken DEF EpochsPast, TypeInv, TypeOK
    <3>3. QED
      BY <3>2
  <2>2. QED
    BY <2>1 DEF Flush
<1>5. QED
  BY <1>2, <1>3, <1>4 DEF Fenced, Reconciled, Nil

LEMMA FencedWorker ==
  ASSUME TypeInv, TypeInv', Fenced, EpochsPast, NEW w \in Worker, WorkerStep(w)
  PROVE  Fenced'
<1>1. row' = row /\ epoch' = epoch
  BY RowsKept
<1>2. CASE Claim(w)
  <2>1. PICK e \in Event :
          /\ Claimable(e)
          /\ status' = [status EXCEPT ![e] = "processing"]
          /\ job' = [job EXCEPT ![w] = [pc |-> "claimed", event |-> e,
                                        token |-> NextAttempt(e),
                                        epoch |-> epoch]]
    BY <1>2 DEF Claim
  <2>2. UNCHANGED <<cached, watermark, reached>>
    BY <1>2 DEF Claim, cacheVars
  <2>3. job'[w].pc = "claimed" /\ \A x \in Worker \ {w} : job'[x] = job[x]
    BY <2>1 DEF TypeInv, TypeOK
  <2>4. \A x \in Event : Reconciled(x)' => Reconciled(x)
    BY <1>1, <2>1, <2>2 DEF Reconciled, TypeInv, TypeOK
  <2>5. \A j \in Key : /\ cached'[j] <= watermark'[j]
                       /\ watermark[j] <= watermark'[j]
    BY <2>2 DEF Fenced, TypeInv, TypeOK, CacheTypeOK, Nil
  <2>6. \A x \in Worker : job'[x].pc = "applied" => job'[x] = job[x]
    BY <2>3
  <2>7. QED
    BY <1>1, <2>4, <2>5, <2>6, FencedFrame
<1>3. CASE Apply(w)
  <2>1. job[w] # Idle
    BY <1>3 DEF Apply, Idle
  <2>2. /\ job[w] \in Job /\ job[w].event \in Event
        /\ row[job[w].event] \in Row /\ Present(job[w].event)
        /\ Effect(job[w].event)
    BY <1>3, <2>1, JobTaken DEF Apply
  <2>3. DEFINE k == row[job[w].event].key
               v == row[job[w].event].version
  <2>4. k \in Key /\ v \in Nat /\ (Put(k, v) \/ InvalidateThrough(k, v))
    BY <2>2, EffectIsCommand
  <2>5. /\ \A j \in Key : cached'[j] <= watermark'[j]
        /\ v <= watermark'[k]
        /\ \A j \in Key : watermark[j] <= watermark'[j]
    <3> HIDE DEF k, v
    <3>1. QED
      BY <2>4, FencedCommand
  <2>6. /\ status' = status /\ reached' = reached
        /\ job'[w].event = job[w].event
        /\ \A x \in Worker \ {w} : job'[x] = job[x]
    BY <1>3, <2>2 DEF Apply, outboxVars, TypeInv, TypeOK, Job
  <2>7. \A e \in Event : Reconciled(e)' => row'[e].version <= watermark'[row'[e].key]
    <3>1. ASSUME NEW e \in Event, Reconciled(e)
          PROVE  row[e].version <= watermark'[row[e].key]
      <4>1. /\ row[e].key \in Key /\ row[e].version \in Nat
            /\ row[e].version <= watermark[row[e].key]
        BY <3>1, FencedRows DEF Fenced
      <4>2. watermark[row[e].key] \in Nat \cup {Nil}
              /\ watermark'[row[e].key] \in Nat \cup {Nil}
        BY <4>1 DEF TypeInv, TypeOK, CacheTypeOK
      <4>3. QED
        BY <2>5, <4>1, <4>2 DEF Nil
    <3>2. QED
      BY <1>1, <2>6, <3>1 DEF Reconciled
  <2>8. ASSUME NEW x \in Worker, job'[x].pc = "applied", job'[x].epoch = epoch'
        PROVE  row'[job'[x].event].version <= watermark'[row'[job'[x].event].key]
    <3>1. CASE x = w
      BY <1>1, <2>5, <2>6, <3>1
    <3>2. CASE x # w
      <4>1. /\ job'[x] = job[x] /\ job[x].pc = "applied" /\ job[x].epoch = epoch
        BY <1>1, <2>6, <2>8, <3>2
      <4>2. /\ row[job[x].event].key \in Key /\ row[job[x].event].version \in Nat
            /\ row[job[x].event].version <= watermark[row[job[x].event].key]
        BY <4>1, FencedRows DEF Fenced
      <4>3. watermark[row[job[x].event].key] \in Nat \cup {Nil}
              /\ watermark'[row[job[x].event].key] \in Nat \cup {Nil}
        BY <4>2 DEF TypeInv, TypeOK, CacheTypeOK
      <4>4. QED
        BY <1>1, <2>5, <4>1, <4>2, <4>3 DEF Nil
    <3>3. QED
      BY <3>1, <3>2
  <2>9. QED
    BY <2>5, <2>7, <2>8 DEF Fenced
<1>4. CASE ~Claim(w) /\ ~Apply(w)
  <2>1. /\ job[w] # Idle
        /\ \A x \in Worker : job'[x] # Idle =>
             /\ job'[x].event = job[x].event
             /\ job'[x].pc = "applied" =>
                  job[x].pc = "applied" /\ job'[x].epoch = job[x].epoch
    BY <1>4, HolderJobs
  <2>2. UNCHANGED <<cached, watermark>>
    BY <1>4 DEF WorkerStep, ApplyFails, Complete, CompleteFails, Retry,
                RetryFails, Crash, cacheVars
  <2>3. \A e \in Event : Reconciled(e)' => row[e].version <= watermark[row[e].key]
    <3>1. CASE \A e \in Event : Reconciled(e)' => Reconciled(e)
      BY <3>1 DEF Fenced
    <3>2. CASE MarkCompleted(w) /\ job[w].pc = "applied"
      <4>1. /\ job[w].event \in Event
            /\ status \in [Event -> {"absent", "pending", "processing", "completed"}]
            /\ reached \in [Event -> Nat \cup {Nil}]
        BY <2>1, JobTaken DEF TypeInv, TypeOK
      <4>2. \A e \in Event : Reconciled(e)' =>
              Reconciled(e) \/ (e = job[w].event /\ job[w].epoch = epoch)
        BY <1>1, <3>2, <4>1 DEF MarkCompleted, Reconciled, outboxVars
      <4>3. QED
        BY <3>2, <4>2 DEF Fenced
    <3>3. CASE MarkPending(w) \/ UNCHANGED outboxVars
      <4>1. job[w].event \in Event
        BY <2>1, JobTaken
      <4>2. \A e \in Event : Reconciled(e)' => Reconciled(e)
        BY <1>1, <3>3, <4>1 DEF MarkPending, Reconciled, outboxVars, TypeInv,
                                TypeOK
      <4>3. QED
        BY <3>1, <4>2
    <3>4. \/ MarkCompleted(w) /\ job[w].pc = "applied"
          \/ MarkPending(w) \/ UNCHANGED outboxVars
      BY <1>4 DEF WorkerStep, ApplyFails, Complete, CompleteFails, Retry,
                  RetryFails, Crash
    <3>5. QED
      BY <3>2, <3>3, <3>4
  <2>4. \A x \in Worker : job'[x].pc = "applied" /\ job'[x].epoch = epoch' =>
          /\ job[x].pc = "applied" /\ job[x].epoch = epoch
          /\ job'[x].event = job[x].event
    BY <1>1, <2>1 DEF Idle
  <2>5. QED
    BY <1>1, <2>2, <2>3, <2>4 DEF Fenced
<1>5. QED
  BY <1>2, <1>3, <1>4

LEMMA FencedStep ==
  ASSUME TypeInv, TypeInv', ClaimInv, EffectsFenced, [Next]_vars
  PROVE  EffectsFenced'
<1>1. SUFFICES ASSUME ~torn' PROVE Fenced'
  BY DEF EffectsFenced, Fenced
<1>2. CASE Flush
  BY <1>1, <1>2, FencedFlush DEF ClaimInv
<1>3. CASE ~Flush
  <2>1. torn' = torn
    BY <1>3 DEF Next, Write, FillerStep, FillRead, FillPut, FillLost, Leave,
       WorkerStep, Claim, Apply, ApplyFails, Complete, CompleteFails, Retry,
       RetryFails, Crash, Elapse, Stall, LateEffect, flushVars, vars
  <2>2. Fenced
    BY <1>1, <2>1 DEF EffectsFenced, Fenced
  <2>3. ASSUME NEW w \in Worker, WorkerStep(w) PROVE Fenced'
    BY <2>2, <2>3, FencedWorker DEF ClaimInv
  <2>4. CASE \A w \in Worker : ~WorkerStep(w)
    <3>1. epoch' = epoch /\ job' = job
      BY <1>3, <2>4 DEF Next, Write, FillerStep, FillRead, FillPut, FillLost,
         Leave, Elapse, Stall, LateEffect, flushVars, vars
    <3>2. \A e \in Event : Present(e) => row'[e] = row[e]
      BY <1>3, <2>4 DEF Next, Write, FillerStep, FillRead, FillPut, FillLost,
         Leave, Elapse, Stall, LateEffect, originVars, vars, Present, TypeInv,
         TypeOK
    <3>3. \A e \in Event : Reconciled(e)' => Reconciled(e)
      <4>1. ASSUME NEW k \in Key, NEW policy \in Policy, NEW x \in Event,
                   Write(k, policy, x)
            PROVE  \A e \in Event : Reconciled(e)' => Reconciled(e)
        BY <3>1, <4>1 DEF Write, Reconciled, TypeInv, TypeOK
      <4>2. CASE UNCHANGED <<status, reached>>
        BY <3>1, <4>2 DEF Reconciled
      <4>3. QED
        BY <1>3, <2>4, <4>1, <4>2 DEF Next, FillerStep, FillRead, FillPut,
           FillLost, Leave, Elapse, Stall, LateEffect, outboxVars, vars
    <3>4. \A j \in Key : /\ cached'[j] <= watermark'[j]
                         /\ watermark[j] <= watermark'[j]
      <4>1. CASE UNCHANGED <<cached, watermark>>
        BY <2>2, <4>1 DEF Fenced, TypeInv, TypeOK, CacheTypeOK, Nil
      <4>2. ASSUME NEW f \in Filler, FillPut(f)
            PROVE  \A j \in Key : /\ cached'[j] <= watermark'[j]
                                  /\ watermark[j] <= watermark'[j]
        <5>1. /\ fill[f].key \in Key /\ fill[f].version \in Nat
              /\ Put(fill[f].key, fill[f].version)
          BY <4>2 DEF FillPut, TypeInv, TypeOK, Fill
        <5>2. QED
          BY <2>2, <5>1, FencedCommand
      <4>3. ASSUME NEW k \in Key, Leave(k)
            PROVE  \A j \in Key : /\ cached'[j] <= watermark'[j]
                                  /\ watermark[j] <= watermark'[j]
        <5>1. watermark' = watermark
                /\ \A j \in Key : cached'[j] = cached[j] \/ cached'[j] = Nil
          BY <4>3 DEF Leave, Drop, WithoutEntries
        <5>2. QED
          BY <2>2, <5>1 DEF Fenced, TypeInv, TypeOK, CacheTypeOK, Nil
      <4>4. ASSUME NEW c \in late, LateEffect(c[1], c[2])
            PROVE  \A j \in Key : /\ cached'[j] <= watermark'[j]
                                  /\ watermark[j] <= watermark'[j]
        <5>1. c[1] \in Event /\ row[c[1]] \in Row /\ Effect(c[1])
          BY <4>4 DEF LateEffect, TypeInv, TypeOK, EventsKnown
        <5>2. QED
          BY <2>2, <5>1, EffectIsCommand, FencedCommand
      <4>5. \/ UNCHANGED <<cached, watermark>>
            \/ \E f \in Filler : FillPut(f)
            \/ \E k \in Key : Leave(k)
            \/ \E c \in late : LateEffect(c[1], c[2])
        BY <1>3, <2>4 DEF Next, Write, FillerStep, FillRead, FillLost, Elapse,
           Stall, cacheVars, vars
      <4>6. QED
        BY <4>1, <4>2, <4>3, <4>4, <4>5
    <3>5. QED
      BY <2>2, <3>1, <3>2, <3>3, <3>4, FencedFrame
  <2>5. QED
    BY <2>3, <2>4
<1>4. QED
  BY <1>2, <1>3

-----------------------------------------------------------------------------
(* The invariant as a whole.                                               *)
LEMMA IndInvParts ==
  IndInv <=> TypeInv /\ VersionInv /\ ClaimInv /\ EffectsFenced
BY DEF IndInv, TypeInv, VersionInv, ClaimInv

LEMMA InitIndInv == Init => IndInv
<1> SUFFICES ASSUME Init PROVE IndInv
  OBVIOUS
<1>1. TypeInv
  BY InitTypeInv
<1>2. VersionInv
  BY ReconciliationAssumption
     DEF Init, CacheInit, VersionInv, VersionsBounded, NeverAheadOfOrigin,
         FenceHolds, OutboxCoversOrigin, Present, Nil
<1>3. ClaimInv
  BY DEF Init, ClaimInv, TokensIssued, TokensDiffer, EpochsPast, Nil
<1>4. EffectsFenced
  BY DEF Init, CacheInit, EffectsFenced, Reconciled, Idle, Nil
<1>5. QED
  BY <1>1, <1>2, <1>3, <1>4, IndInvParts

LEMMA IndInvStep == IndInv /\ [Next]_vars => IndInv'
<1> SUFFICES ASSUME IndInv, [Next]_vars PROVE IndInv'
  OBVIOUS
<1>1. TypeInv /\ VersionInv /\ ClaimInv /\ EffectsFenced
  BY IndInvParts
<1>2. TypeInv'
  BY <1>1, TypeStep
<1>3. VersionInv'
  BY <1>1, <1>2, VersionStep
<1>4. ClaimInv'
  BY <1>1, <1>2, ClaimStep
<1>5. EffectsFenced'
  BY <1>1, <1>2, FencedStep
<1>6. QED
  BY <1>2, <1>3, <1>4, <1>5 DEF IndInv, TypeInv, VersionInv, ClaimInv

(* The inductive invariant holds in every reachable state.                 *)
THEOREM Inductive == Spec => []IndInv
<1>1. Init => IndInv
  BY InitIndInv
<1>2. IndInv /\ [Next]_vars => IndInv'
  BY IndInvStep
<1>3. QED
  BY <1>1, <1>2, PTL DEF Spec

(* The version fence: no interleaving of fills, retries, late commands and *)
(* flushes leaves an entry below the watermark of its key (PUT_SCRIPT).    *)
THEOREM FenceAlwaysHolds == Spec => []FenceHolds
<1>1. IndInv => FenceHolds
  BY DEF IndInv
<1>2. QED
  BY <1>1, Inductive, PTL

(* The cache never shows, and the fence never names, a version the origin  *)
(* has not committed.                                                      *)
THEOREM CacheFollowsOrigin == Spec => []NeverAheadOfOrigin
<1>1. IndInv => NeverAheadOfOrigin
  BY DEF IndInv
<1>2. QED
  BY <1>1, Inductive, PTL

(* Between flushes a completed outbox event is never undone in the cache.  *)
THEOREM CompletedStaysReconciled == Spec => []ReconciledFloor
<1>1. IndInv => ReconciledFloor
  <2> SUFFICES ASSUME IndInv, ~torn, NEW e \in Event, Reconciled(e)
               PROVE  AtLeast(e)
    BY DEF ReconciledFloor
  <2>1. TypeInv
    BY IndInvParts
  <2>2. row[e].key \in Key /\ row[e].version \in Nat
    BY <2>1, FencedRows
  <2>3. row[e].version <= watermark[row[e].key]
    BY DEF IndInv, EffectsFenced
  <2>4. QED
    BY <2>1, <2>2, <2>3 DEF IndInv, FenceHolds, AtLeast, TypeInv, TypeOK,
                            CacheTypeOK, Nil
<1>2. QED
  BY <1>1, Inductive, PTL

(* When no event is pending every cached entry is the committed version of *)
(* its key, whatever fills and late commands are still on their way.       *)
THEOREM QuiescenceIsCurrent == Spec => []QuiescentCacheIsCurrent
<1>1. IndInv => QuiescentCacheIsCurrent
  <2> SUFFICES ASSUME IndInv, ~torn, Settled, NEW k \in Key
               PROVE  cached[k] \in {Nil, origin[k]}
    BY DEF QuiescentCacheIsCurrent
  <2>1. TypeInv
    BY IndInvParts
  <2>2. /\ cached[k] \in Nat \cup {Nil} /\ watermark[k] \in Nat \cup {Nil}
        /\ origin[k] \in Nat /\ Seed[k] \in Nat
    BY <2>1, ReconciliationAssumption DEF TypeInv, TypeOK, CacheTypeOK
  <2>3. cached[k] <= origin[k]
    BY DEF IndInv, NeverAheadOfOrigin
  <2>4. CASE origin[k] = Seed[k]
    BY <2>2, <2>3, <2>4 DEF IndInv, VersionsBounded
  <2>5. CASE origin[k] # Seed[k]
    <3>1. PICK e \in Event : /\ Present(e)
                             /\ row[e].key = k /\ row[e].version = origin[k]
      BY <2>5 DEF IndInv, OutboxCoversOrigin
    <3>2. Reconciled(e)
      BY <3>1 DEF Settled, Present
    <3>3. origin[k] <= watermark[k]
      BY <3>1, <3>2 DEF IndInv, EffectsFenced
    <3>4. cached[k] = Nil \/ watermark[k] <= cached[k]
      BY <2>2 DEF IndInv, FenceHolds
    <3>5. QED
      BY <2>2, <2>3, <3>3, <3>4 DEF Nil
  <2>6. QED
    BY <2>4, <2>5
<1>2. QED
  BY <1>1, Inductive, PTL

(* Two workers never hold the same event with the same token.              *)
THEOREM ClaimsAreDistinct == Spec => []TokensDiffer
<1>1. IndInv => TokensDiffer
  BY DEF IndInv
<1>2. QED
  BY <1>1, Inductive, PTL

-----------------------------------------------------------------------------
(* What a step may do to the row of an event.                              *)
LEMMA RowMoves ==
  ASSUME TypeInv, [Next]_vars, NEW e \in Event
  PROVE  \/ status'[e] = status[e] /\ reached'[e] = reached[e]
         \/ status[e] = "absent"
         \/ status[e] \in {"pending", "processing"} /\ status'[e] = "processing"
         \/ \E w \in Worker :
              /\ job[w] # Idle /\ job[w].event = e /\ Holds(w)
              /\ job'[w] # job[w]
<1>1. /\ status \in [Event -> {"absent", "pending", "processing", "completed"}]
      /\ reached \in [Event -> Nat \cup {Nil}]
  BY DEF TypeInv, TypeOK
<1>2. CASE UNCHANGED <<status, reached>>
  BY <1>2
<1>3. ASSUME NEW k \in Key, NEW policy \in Policy, NEW x \in Event,
             Write(k, policy, x)
      PROVE  \/ status'[e] = status[e] /\ reached'[e] = reached[e]
             \/ status[e] = "absent"
  BY <1>1, <1>3 DEF Write
<1>4. ASSUME NEW w \in Worker, Claim(w)
      PROVE  \/ status'[e] = status[e] /\ reached'[e] = reached[e]
             \/ /\ status[e] \in {"pending", "processing"}
                /\ status'[e] = "processing"
  BY <1>1, <1>4 DEF Claim, Claimable
<1>5. ASSUME NEW w \in Worker, WorkerStep(w), ~Claim(w),
             ~ UNCHANGED <<status, reached>>
      PROVE  \/ status'[e] = status[e] /\ reached'[e] = reached[e]
             \/ /\ job[w] # Idle /\ job[w].event = e /\ Holds(w)
                /\ job'[w] # job[w]
  <2>1. job[w] # Idle
    BY <1>5, HolderJobs
  <2>2. (MarkCompleted(w) \/ MarkPending(w)) /\ Holds(w)
    BY <1>5 DEF WorkerStep, Apply, ApplyFails, Complete, CompleteFails, Retry,
                RetryFails, Crash, MarkCompleted, MarkPending, outboxVars
  <2>3. job'[w] # job[w]
    <3>1. \/ job' = [job EXCEPT ![w] = Idle]
          \/ job[w].pc = "applied" /\ Moved(w, "failed")
      BY <1>5 DEF WorkerStep, Apply, ApplyFails, Complete, CompleteFails, Retry,
                  RetryFails, Crash, outboxVars
    <3>2. job[w] \in Job /\ job \in [Worker -> Job \cup {Idle}]
      BY <2>1, JobTaken DEF TypeInv, TypeOK
    <3>3. CASE job[w].pc = "applied" /\ Moved(w, "failed")
      <4>1. job'[w].pc = "failed"
        BY <3>2, <3>3 DEF Moved, Job
      <4>2. QED
        BY <3>3, <4>1
    <3>4. CASE job' = [job EXCEPT ![w] = Idle]
      BY <2>1, <3>2, <3>4
    <3>5. QED
      BY <3>1, <3>3, <3>4
  <2>4. job[w].event \in Event
    BY <2>1, JobTaken
  <2>5. CASE e # job[w].event
    <3>1. CASE MarkCompleted(w)
      BY <1>1, <2>2, <2>4, <2>5, <3>1 DEF MarkCompleted
    <3>2. CASE MarkPending(w)
      BY <1>1, <2>2, <2>4, <2>5, <3>2 DEF MarkPending
    <3>3. QED
      BY <2>2, <3>1, <3>2
  <2>6. QED
    BY <2>1, <2>2, <2>3, <2>5
<1>6. \/ UNCHANGED <<status, reached>>
      \/ \E k \in Key, policy \in Policy, x \in Event : Write(k, policy, x)
      \/ \E w \in Worker : WorkerStep(w)
  BY DEF Next, FillerStep, FillRead, FillPut, FillLost, Leave, Flush, Elapse,
         Stall, LateEffect, outboxVars, vars
<1>7. QED
  BY <1>2, <1>3, <1>4, <1>5, <1>6

(* A completed event stays completed, with the effect it was completed     *)
(* for: neither the retry that follows an executed complete nor a worker   *)
(* that lost its lease brings it back.                                     *)
THEOREM CompletionIsFinal == Spec => CompletedIsFinal
<1>1. TypeInv /\ [Next]_vars =>
        [\A e \in Event : status[e] = "completed" =>
           status'[e] = "completed" /\ reached'[e] = reached[e]]_vars
  <2> SUFFICES ASSUME TypeInv, [Next]_vars, NEW e \in Event,
                      status[e] = "completed"
               PROVE  status'[e] = "completed" /\ reached'[e] = reached[e]
    OBVIOUS
  <2>1. QED
    BY RowMoves DEF Holds
<1>2. Init => TypeInv
  BY InitTypeInv
<1>3. TypeInv /\ [Next]_vars => TypeInv'
  BY TypeStep
<1>4. QED
  BY <1>1, <1>2, <1>3, PTL DEF Spec, CompletedIsFinal

(* Only the worker with the latest token of an event takes its row out of  *)
(* "processing" (WHERE status = 'processing' AND attempts = $2).           *)
THEOREM SettledByTheHolder == Spec => OnlyTheHolderSettles
<1>1. TypeInv /\ [Next]_vars =>
        [\A e \in Event : status[e] = "processing" /\ status'[e] # "processing" =>
           \E w \in Worker : /\ job[w] # Idle /\ job[w].event = e
                             /\ job[w].token = attempts[e]
                             /\ job'[w] # job[w]]_vars
  <2> SUFFICES ASSUME TypeInv, [Next]_vars, NEW e \in Event,
                      status[e] = "processing", status'[e] # "processing"
               PROVE  \E w \in Worker : /\ job[w] # Idle /\ job[w].event = e
                                        /\ job[w].token = attempts[e]
                                        /\ job'[w] # job[w]
    OBVIOUS
  <2>1. QED
    BY RowMoves DEF Holds
<1>2. Init => TypeInv
  BY InitTypeInv
<1>3. TypeInv /\ [Next]_vars => TypeInv'
  BY TypeStep
<1>4. QED
  BY <1>1, <1>2, <1>3, PTL DEF Spec, OnlyTheHolderSettles
=============================================================================
