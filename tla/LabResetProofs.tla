---------------------------- MODULE LabResetProofs ----------------------------
(***************************************************************************)
(* Proofs about LabReset, for every set of keys, versions, settings,       *)
(* callers and operators and every number of resets, which may overlap:    *)
(* its types, that a reset leaves no old data, and that patches keep each  *)
(* other's settings.                                                       *)
(***************************************************************************)
EXTENDS LabReset, TLAPS

-----------------------------------------------------------------------------
(* Types.                                                                  *)

LEMMA PutTyped ==
  ASSUME CacheTypeOK, NEW k \in Key, NEW v \in Nat \cup {Nil}, Put(k, v)
  PROVE  CacheTypeOK'
<1>1. CASE Store(k, v)
  BY <1>1 DEF Store, CacheTypeOK, WithoutEntries, RaisedFence
<1>2. CASE Refuse(k, v)
  BY <1>2 DEF Refuse, CacheTypeOK, cacheVars
<1> QED
  BY <1>1, <1>2 DEF Put

LEMMA InvalidateTyped ==
  ASSUME CacheTypeOK, NEW k \in Key, NEW v \in Nat, InvalidateThrough(k, v)
  PROVE  CacheTypeOK'
  BY DEF InvalidateThrough, CacheTypeOK, WithoutEntries, RaisedFence

(* What the place of a caller says of its record. *)
LEMMA CallerShape ==
  ASSUME NEW c \in Task \cup {Idle}
  PROVE  /\ c.pc \in {"row", "put"} => c \in Fill
         /\ c.pc \in {"values", "write"} => c \in Patch
         /\ c.pc \in {"apply", "settle"} => c \in Job
         /\ c.pc = "default" => c \in Fill \cup Patch
         /\ c.pc = "idle" => c = Idle
         /\ c.task = "fill" => c \in Fill
  BY DEF Task, Fill, Patch, Job, Idle

LEMMA ResetShape ==
  ASSUME NEW r \in Reset \cup {Resting, Done}
  PROVE  /\ r.pc = "delete" => r \in Sweep
         /\ r.pc = "warm" => r \in Warming
         /\ r \in {Resting, Done} => r.pc \in {"idle", "done"}
  BY DEF Reset, Sweep, Warming, Resting, Done

(* What is left of the types when the cache is set aside. *)
CallerTypeOK ==
  /\ caller \in [Caller -> Task \cup {Idle}]
  /\ carried \subseteq Caller \cup Operator /\ overtaken \subseteq Caller

HistoryTypeOK == sweeping \subseteq Operator /\ swept \in BOOLEAN

SettingsTypeOK == settings \in [exists : {TRUE}, patched : SUBSET Field] \cup {Missing}

LEMMA CallersTyped ==
  ASSUME CallerTypeOK, SettingsTypeOK, NEW p \in Caller, CallerStep(p),
         outbox \subseteq Event, origin \in [Key -> Nat]
  PROVE  CallerTypeOK' /\ SettingsTypeOK'
<1>1. caller[p] \in Task \cup {Idle}
  BY DEF CallerTypeOK
<1>2. settings.patched \subseteq Field
  <2>1. Missing.patched = {}
    BY DEF Missing
  <2>2. CASE settings = Missing
    BY <2>1, <2>2
  <2>3. CASE settings \in [exists : {TRUE}, patched : SUBSET Field]
    BY <2>3
  <2> QED
    BY <2>2, <2>3 DEF SettingsTypeOK
<1>3. CASE \E k \in Key : BeginFill(p, k)
  <2>1. PICK k \in Key : BeginFill(p, k)
    BY <1>3
  <2> DEFINE c == [task |-> "fill", pc |-> AfterExists("row"), key |-> k,
                   version |-> Nil]
  <2>2. c \in Fill
    BY DEF Fill, AfterExists
  <2>3. caller' = [caller EXCEPT ![p] = c]
    BY <2>1 DEF BeginFill, Becomes
  <2> HIDE DEF c
  <2> QED
    BY <2>1, <2>2, <2>3 DEF BeginFill, CallerTypeOK, SettingsTypeOK, Task
<1>4. CASE \E f \in Field : BeginPatch(p, f)
  <2>1. PICK f \in Field : BeginPatch(p, f)
    BY <1>4
  <2> DEFINE c == [task |-> "patch", pc |-> AfterExists("values"), field |-> f,
                   base |-> {}]
  <2>2. c \in Patch
    BY DEF Patch, AfterExists
  <2>3. caller' = [caller EXCEPT ![p] = c]
    BY <2>1 DEF BeginPatch, Becomes
  <2> HIDE DEF c
  <2> QED
    BY <2>1, <2>2, <2>3 DEF BeginPatch, CallerTypeOK, SettingsTypeOK, Task
<1>5. CASE \E e \in outbox : Claim(p, e)
  <2>1. PICK e \in outbox : Claim(p, e)
    BY <1>5
  <2> DEFINE c == [task |-> "event", pc |-> "apply", event |-> e]
  <2>2. c \in Job
    BY DEF Job
  <2>3. caller' = [caller EXCEPT ![p] = c]
    BY <2>1 DEF Claim, Becomes
  <2> HIDE DEF c
  <2> QED
    BY <2>1, <2>2, <2>3 DEF Claim, CallerTypeOK, SettingsTypeOK, Task
<1>6. CASE WriteDefaults(p)
  <2>1. caller[p] \in Fill \cup Patch
    BY <1>1, <1>6, CallerShape DEF WriteDefaults
  <2> DEFINE c == [caller[p] EXCEPT !.pc = IF caller[p].task = "fill" THEN "row"
                                           ELSE "values"]
  <2>2. c \in Task
    BY <2>1 DEF Task, Fill, Patch
  <2>3. caller' = [caller EXCEPT ![p] = c]
    BY <1>6 DEF WriteDefaults, Goes
  <2> HIDE DEF c
  <2>4. CallerTypeOK'
    BY <1>6, <2>2, <2>3 DEF WriteDefaults, SetSettings, Relying, CallerTypeOK
  <2>5. SettingsTypeOK'
    BY <1>6 DEF WriteDefaults, SetSettings, SettingsTypeOK
  <2> QED
    BY <2>4, <2>5
<1>7. CASE ReadRow(p)
  <2>1. caller[p] \in Fill
    BY <1>1, <1>7, CallerShape DEF ReadRow
  <2> DEFINE c == [caller[p] EXCEPT !.pc = "put",
                                    !.version = origin[caller[p].key]]
  <2>2. c \in Task
    BY <2>1 DEF Task, Fill
  <2>3. caller' = [caller EXCEPT ![p] = c]
    BY <1>7 DEF ReadRow, Becomes
  <2> HIDE DEF c
  <2> QED
    BY <1>7, <2>2, <2>3 DEF ReadRow, CallerTypeOK, SettingsTypeOK
<1>8. CASE ReadValues(p)
  <2>1. caller[p] \in Patch
    BY <1>1, <1>8, CallerShape DEF ReadValues
  <2> DEFINE c == [caller[p] EXCEPT !.pc = "write", !.base = settings.patched]
  <2>2. c \in Task
    BY <1>2, <2>1 DEF Task, Patch
  <2>3. caller' = [caller EXCEPT ![p] = c]
    BY <1>8 DEF ReadValues, Becomes
  <2> HIDE DEF c
  <2> QED
    BY <1>8, <2>2, <2>3 DEF ReadValues, CallerTypeOK, SettingsTypeOK
<1>9. CASE WritePatch(p)
  <2>1. caller[p] \in Patch
    BY <1>1, <1>9, CallerShape DEF WritePatch
  <2>2. Merged(p) \subseteq Field
    BY <2>1 DEF Merged, Patch
  <2>3. SettingsTypeOK'
    BY <1>9, <2>2 DEF WritePatch, SetSettings, SettingsTypeOK
  <2>4. CallerTypeOK'
    BY <1>9 DEF WritePatch, SetSettings, Becomes, Relying, CallerTypeOK
  <2> QED
    BY <2>3, <2>4
<1>10. CASE Apply(p)
  <2>1. caller[p] \in Job
    BY <1>1, <1>10, CallerShape DEF Apply
  <2> DEFINE c == [caller[p] EXCEPT !.pc = "settle"]
  <2>2. c \in Task
    BY <2>1 DEF Task, Job
  <2>3. caller' = [caller EXCEPT ![p] = c]
    BY <1>10 DEF Apply, Goes
  <2> HIDE DEF c
  <2> QED
    BY <1>10, <2>2, <2>3 DEF Apply, CallerTypeOK, SettingsTypeOK
<1>11. CASE FillPut(p) \/ Settle(p) \/ GiveUp(p)
  BY <1>11 DEF FillPut, Settle, GiveUp, Ends, Becomes, CallerTypeOK, SettingsTypeOK
<1> QED
  BY <1>3, <1>4, <1>5, <1>6, <1>7, <1>8, <1>9, <1>10, <1>11 DEF CallerStep

(* A write to the cache may end what counts as swept and never adds to it. *)
LEMMA TaintsTyped ==
  ASSUME HistoryTypeOK, NEW p, Taints(p)
  PROVE  /\ HistoryTypeOK'
         /\ sweeping' \subseteq sweeping /\ (swept' => swept)
         /\ p \in carried => sweeping' = {} /\ ~swept'
<1>1. CASE p \in carried
  BY <1>1 DEF Taints, HistoryTypeOK
<1>2. CASE p \notin carried
  <2>1. sweeping' = sweeping /\ swept' = swept
    BY <1>2 DEF Taints, historyVars
  <2>2. HistoryTypeOK'
    BY <2>1 DEF HistoryTypeOK
  <2> QED
    BY <1>2, <2>1, <2>2
<1> QED
  BY <1>1, <1>2

(* The cache and the outbox, when a caller moves. *)
LEMMA CallersKeepRest ==
  ASSUME TypeOK, NEW p \in Caller, CallerStep(p)
  PROVE  /\ CacheTypeOK'
         /\ UNCHANGED <<origin, reseeds, reset>>
         /\ outbox' \subseteq outbox
         /\ HistoryTypeOK'
         /\ sweeping' \subseteq sweeping /\ (swept' => swept)
<1>1. caller[p] \in Task \cup {Idle}
  BY DEF TypeOK
<1>2. UNCHANGED <<origin, reseeds, reset>> /\ outbox' \subseteq outbox
  BY DEF CallerStep, BeginFill, BeginPatch, Claim, WriteDefaults, ReadRow,
         FillPut, ReadValues, WritePatch, Apply, Settle, GiveUp, originVars
<1>3. HistoryTypeOK' /\ sweeping' \subseteq sweeping /\ (swept' => swept)
  <2>1. HistoryTypeOK
    BY DEF TypeOK, HistoryTypeOK
  <2>2. CASE FillPut(p) \/ Apply(p)
    BY <2>1, <2>2, TaintsTyped DEF FillPut, Apply
  <2>3. CASE ~(FillPut(p) \/ Apply(p))
    <3>1. sweeping' = sweeping /\ swept' = swept
      BY <2>3
         DEF CallerStep, BeginFill, BeginPatch, Claim, WriteDefaults, ReadRow,
             ReadValues, WritePatch, Settle, GiveUp, historyVars
    <3> QED
      BY <2>1, <3>1 DEF HistoryTypeOK
  <2> QED
    BY <2>2, <2>3
<1>4. CacheTypeOK'
  <2>1. CASE FillPut(p)
    <3>1. caller[p].key \in Key /\ caller[p].version \in Nat \cup {Nil}
      BY <1>1, <2>1, CallerShape DEF FillPut, Fill
    <3> QED
      BY <2>1, <3>1, PutTyped DEF FillPut, TypeOK
  <2>2. CASE Apply(p)
    <3>1. caller[p].event \in Event
      BY <1>1, <2>2, CallerShape DEF Apply, Job
    <3>2. caller[p].event.key \in Key /\ caller[p].event.version \in Nat
      BY <3>1 DEF Event
    <3> QED
      BY <2>2, <3>2, PutTyped, InvalidateTyped DEF Apply, TypeOK
  <2>3. CASE ~(FillPut(p) \/ Apply(p))
    BY <2>3
       DEF TypeOK, CallerStep, BeginFill, BeginPatch, Claim, WriteDefaults,
           ReadRow, ReadValues, WritePatch, Settle, GiveUp, cacheVars, CacheTypeOK
  <2> QED
    BY <2>1, <2>2, <2>3
<1> QED
  BY <1>2, <1>3, <1>4

LEMMA TypeParts ==
  TypeOK <=> /\ CacheTypeOK /\ CallerTypeOK /\ SettingsTypeOK /\ HistoryTypeOK
             /\ origin \in [Key -> Nat] /\ outbox \subseteq Event
             /\ reset \in [Operator -> Reset \cup {Resting, Done}]
             /\ reseeds \in Nat
  BY DEF TypeOK, CallerTypeOK, SettingsTypeOK, HistoryTypeOK

LEMMA CallerKeepsTypes ==
  ASSUME TypeOK, NEW p \in Caller, CallerStep(p)
  PROVE  TypeOK'
<1>1. CallerTypeOK' /\ SettingsTypeOK'
  BY CallersTyped, TypeParts
<1>2. /\ CacheTypeOK' /\ UNCHANGED <<origin, reseeds, reset>>
      /\ outbox' \subseteq outbox /\ HistoryTypeOK'
  BY CallersKeepRest
<1> QED
  BY <1>1, <1>2 DEF TypeOK, CallerTypeOK, SettingsTypeOK, HistoryTypeOK

(* Where a reset goes, and that the others stay where they are.            *)
LEMMA MovesTyped ==
  ASSUME reset \in [Operator -> Reset \cup {Resting, Done}], NEW x \in Operator,
         NEW r \in Reset \cup {Resting, Done}, Moves(x, r) \/ Then(x, r)
  PROVE  /\ reset' \in [Operator -> Reset \cup {Resting, Done}]
         /\ reset'[x] \in {r, Resting}
         /\ Moves(x, r) => reset'[x] = r
         /\ \A y \in Operator \ {x} : reset'[y] = reset[y]
<1> DEFINE S == Reset \cup {Resting, Done}
<1>1. Resting \in S /\ r \in S
  OBVIOUS
<1> HIDE DEF S
<1> QED
  BY <1>1 DEF Moves, Then, S

LEMMA ResetKeepsTypes ==
  ASSUME TypeOK, NEW x \in Operator, ResetStep(x)
  PROVE  TypeOK'
<1> DEFINE Places == Reset \cup {Resting, Done}
<1>1. reset[x] \in Places /\ reset \in [Operator -> Places]
  BY DEF TypeOK
<1>2. /\ [pc |-> "scan"] \in Reset /\ [pc |-> "defaults"] \in Reset
      /\ [pc |-> "settings"] \in Reset /\ [pc |-> "ensure"] \in Reset
      /\ [pc |-> "find"] \in Reset
  BY DEF Reset
<1>3. CASE Reseed(x)
  <2>1. reset' \in [Operator -> Places]
    BY <1>1, <1>2, <1>3, MovesTyped DEF Reseed
  <2>2. origin' \in [Key -> Nat] /\ reseeds' \in Nat
    BY <1>3, LabResetAssumption DEF Reseed, TypeOK
  <2>3. CallerTypeOK'
    BY <1>3 DEF Reseed, TypeOK, CallerTypeOK, Holders
  <2>4. outbox' \subseteq Event /\ HistoryTypeOK'
    BY <1>3 DEF Reseed, Truncated, HistoryTypeOK
  <2>5. CacheTypeOK' /\ SettingsTypeOK'
    BY <1>3 DEF Reseed, TypeOK, cacheVars, CacheTypeOK, SettingsTypeOK
  <2> QED
    BY <2>1, <2>2, <2>3, <2>4, <2>5
       DEF TypeOK, CallerTypeOK, SettingsTypeOK, HistoryTypeOK
<1>4. CASE Scan(x)
  <2> DEFINE r == [pc |-> "delete", found |-> Existing]
  <2>1. r \in Reset
    BY DEF Reset, Sweep, Existing, Name
  <2>2. Moves(x, r)
    BY <1>4 DEF Scan
  <2> HIDE DEF r
  <2>3. reset' \in [Operator -> Places]
    BY <1>1, <2>1, <2>2, MovesTyped
  <2> QED
    BY <1>4, <2>3 DEF Scan, TypeOK, cacheVars, CacheTypeOK, originVars
<1>5. CASE Delete(x)
  <2>1. CacheTypeOK'
    BY <1>5 DEF Delete, TypeOK, CacheTypeOK, WithoutEntries
  <2>2. SettingsTypeOK'
    BY <1>5 DEF Delete, TypeOK, SettingsTypeOK
  <2>3. reset' \in [Operator -> Places]
    BY <1>1, <1>2, <1>5, MovesTyped DEF Delete
  <2>4. HistoryTypeOK'
    BY <1>5 DEF Delete, TypeOK, HistoryTypeOK
  <2> QED
    BY <1>5, <2>1, <2>2, <2>3, <2>4
       DEF Delete, TypeOK, SettingsTypeOK, HistoryTypeOK, originVars
<1>6. CASE Restore(x)
  <2>1. SettingsTypeOK'
    BY <1>6 DEF Restore, SettingsTypeOK, Default
  <2>2. reset' \in [Operator -> Places]
    BY <1>1, <1>2, <1>6, MovesTyped DEF Restore
  <2> QED
    BY <1>6, <2>1, <2>2
       DEF Restore, TypeOK, SettingsTypeOK, cacheVars, CacheTypeOK, originVars,
           historyVars
<1>7. CASE GetSettings(x)
  <2>1. reset' \in [Operator -> Places]
    BY <1>1, <1>2, <1>7, MovesTyped DEF GetSettings
  <2> QED
    BY <1>7, <2>1
       DEF GetSettings, TypeOK, cacheVars, CacheTypeOK, originVars, historyVars
<1>8. CASE Find(x)
  <2> DEFINE r == [pc |-> "warm", left |-> Warm, rows |-> [k \in Warm |-> origin[k]]]
  <2>1. r \in Reset
    BY LabResetAssumption DEF TypeOK, Reset, Warming
  <2>2. Moves(x, r)
    BY <1>8 DEF Find
  <2> HIDE DEF r
  <2>3. reset' \in [Operator -> Places]
    BY <1>1, <2>1, <2>2, MovesTyped
  <2> QED
    BY <1>8, <2>3
       DEF Find, TypeOK, cacheVars, CacheTypeOK, originVars, historyVars
<1>9. ASSUME NEW k \in Warm, WarmPut(x, k)
      PROVE  TypeOK'
  <2> DEFINE r == IF reset[x].left = {k} THEN Done
                  ELSE [reset[x] EXCEPT !.left = @ \ {k}]
  <2>1. reset[x] \in Warming
    BY <1>1, <1>9, ResetShape DEF WarmPut
  <2>2. k \in Key /\ reset[x].rows[k] \in Nat
    BY <2>1, LabResetAssumption DEF Warming
  <2>3. CacheTypeOK'
    BY <1>9, <2>2, PutTyped DEF WarmPut, TypeOK
  <2>4. r \in Places
    BY <2>1 DEF Reset, Warming
  <2>5. Then(x, r) /\ Taints(x) /\ HistoryTypeOK
    BY <1>9 DEF WarmPut, TypeOK, HistoryTypeOK
  <2> HIDE DEF r
  <2>6. reset' \in [Operator -> Places]
    BY <1>1, <2>4, <2>5, MovesTyped
  <2>7. HistoryTypeOK'
    BY <2>5, TaintsTyped
  <2> QED
    BY <1>9, <2>3, <2>6, <2>7 DEF WarmPut, TypeOK, HistoryTypeOK, originVars
<1>10. CASE ResetFails(x)
  <2>1. reset' \in [Operator -> Places]
    BY <1>1, <1>10, MovesTyped DEF ResetFails
  <2>2. HistoryTypeOK'
    BY <1>10 DEF ResetFails, TypeOK, HistoryTypeOK
  <2> QED
    BY <1>10, <2>1, <2>2
       DEF ResetFails, TypeOK, HistoryTypeOK, cacheVars, CacheTypeOK, originVars
<1> QED
  BY <1>3, <1>4, <1>5, <1>6, <1>7, <1>8, <1>9, <1>10 DEF ResetStep

LEMMA RestKeepsTypes ==
  ASSUME TypeOK,
         \/ \E k \in Key, policy \in {"invalidate", "write-through"} : Write(k, policy)
         \/ \E k \in Key : Leave(k)
         \/ UNCHANGED vars
  PROVE  TypeOK'
<1>1. ASSUME NEW k \in Key, NEW policy \in {"invalidate", "write-through"},
             Write(k, policy)
      PROVE  TypeOK'
  <2> DEFINE e == [key |-> k, version |-> origin[k] + 1, policy |-> policy,
                   born |-> reseeds]
  <2>1. e \in Event
    BY DEF TypeOK, Event
  <2>2. outbox' = outbox \cup {e}
    BY <1>1 DEF Write
  <2>3. origin' \in [Key -> Nat]
    BY <1>1 DEF Write, TypeOK
  <2> HIDE DEF e
  <2> QED
    BY <1>1, <2>1, <2>2, <2>3 DEF Write, TypeOK, cacheVars, CacheTypeOK, historyVars
<1>2. ASSUME NEW k \in Key, Leave(k)
      PROVE  TypeOK'
  BY <1>2
     DEF Leave, Drop, TypeOK, CacheTypeOK, WithoutEntries, originVars, historyVars
<1>3. CASE UNCHANGED vars
  BY <1>3 DEF vars, TypeOK, CacheTypeOK
<1> QED
  BY <1>1, <1>2, <1>3

LEMMA NextKeepsTypes == TypeOK /\ [Next]_vars => TypeOK'
  BY CallerKeepsTypes, ResetKeepsTypes, RestKeepsTypes DEF Next

LEMMA InitTyped == Init => TypeOK
<1> SUFFICES ASSUME Init PROVE TypeOK
  OBVIOUS
<1>1. CacheTypeOK
  BY DEF Init, CacheInit, CacheTypeOK
<1>2. CallerTypeOK
  BY DEF Init, CallerTypeOK
<1>3. HistoryTypeOK
  BY Zenon DEF Init, HistoryTypeOK
<1> QED
  BY <1>1, <1>2, <1>3, LabResetAssumption
     DEF Init, TypeOK, CallerTypeOK, HistoryTypeOK

(* Every reachable state has the types of TypeOK. *)
THEOREM TypeCorrect == Spec => []TypeOK
  BY InitTyped, NextKeepsTypes, PTL DEF Spec

-----------------------------------------------------------------------------
(* ResetLeavesNoOldData.                                                   *)

(* Nothing in a cache c with fences w is ahead of the rows o, except the   *)
(* entries of lost and, when fencesLost, the fences.                       *)
Clean(c, w, o, lost, fencesLost) ==
  \A k \in Key : /\ k \in lost \/ c[k] <= o[k]
                 /\ fencesLost \/ w[k] <= o[k]

(* What a DEL that counts is going to leave is clean, and what one has left *)
(* is.                                                                     *)
CacheClean ==
  /\ \A x \in sweeping :
       /\ reset[x].pc = "delete"
       /\ Clean(cached, watermark, origin, reset[x].found,
                "fences" \in reset[x].found)
  /\ swept => Clean(cached, watermark, origin, {}, FALSE)

(* What is under way to the cache, unless it was carried over a reseed.    *)
SafeCaller(p) ==
  /\ caller[p].pc = "put" => caller[p].version <= origin[caller[p].key]
  /\ caller[p].pc \in {"apply", "settle"} =>
       caller[p].event.version <= origin[caller[p].event.key]

SafeReset(x) ==
  reset[x].pc = "warm" => \A k \in Warm : reset[x].rows[k] <= origin[k]

SafeSources ==
  /\ \A e \in outbox : e.version <= origin[e.key]
  /\ \A p \in Caller \ carried : SafeCaller(p)
  /\ \A x \in Operator \ carried : SafeReset(x)

ResetInv == SafeSources /\ CacheClean

(* A put or an invalidation of a version the origin has reached, or a loss *)
(* of entries, leaves clean what was.                                      *)
LEMMA PutClean ==
  ASSUME CacheTypeOK, origin \in [Key -> Nat],
         NEW k \in Key, NEW v \in Nat \cup {Nil}, v <= origin[k], Put(k, v),
         NEW lost, NEW fencesLost \in BOOLEAN,
         Clean(cached, watermark, origin, lost, fencesLost)
  PROVE  Clean(cached', watermark', origin, lost, fencesLost)
<1> SUFFICES ASSUME NEW j \in Key
             PROVE  /\ j \in lost \/ cached'[j] <= origin[j]
                    /\ fencesLost \/ watermark'[j] <= origin[j]
  BY DEF Clean
<1>1. /\ j \in lost \/ cached[j] <= origin[j]
      /\ fencesLost \/ watermark[j] <= origin[j]
  BY DEF Clean
<1>2. CASE Store(k, v)
  <2>1. cached'[j] \in {cached[j], Nil} \/ (j = k /\ cached'[j] = v)
    BY <1>2 DEF Store, WithoutEntries, CacheTypeOK
  <2>2. watermark'[j] = watermark[j] \/ (j = k /\ watermark'[j] = v)
    BY <1>2 DEF Store, RaisedFence, CacheTypeOK
  <2>3. Nil <= origin[j]
    BY DEF Nil
  <2> QED
    BY <1>1, <2>1, <2>2, <2>3
<1>3. CASE Refuse(k, v)
  BY <1>1, <1>3 DEF Refuse, cacheVars
<1> QED
  BY <1>2, <1>3 DEF Put

LEMMA InvalidateClean ==
  ASSUME CacheTypeOK, origin \in [Key -> Nat],
         NEW k \in Key, NEW v \in Nat, v <= origin[k], InvalidateThrough(k, v),
         NEW lost, NEW fencesLost \in BOOLEAN,
         Clean(cached, watermark, origin, lost, fencesLost)
  PROVE  Clean(cached', watermark', origin, lost, fencesLost)
<1> SUFFICES ASSUME NEW j \in Key
             PROVE  /\ j \in lost \/ cached'[j] <= origin[j]
                    /\ fencesLost \/ watermark'[j] <= origin[j]
  BY DEF Clean
<1>1. cached'[j] \in {cached[j], Nil}
  BY DEF InvalidateThrough, WithoutEntries, CacheTypeOK
<1>2. watermark'[j] = watermark[j] \/ (j = k /\ watermark'[j] = v)
  BY DEF InvalidateThrough, RaisedFence, CacheTypeOK
<1>3. Nil <= origin[j]
  BY DEF Nil
<1> QED
  BY <1>1, <1>2, <1>3 DEF Clean

LEMMA LossClean ==
  ASSUME origin \in [Key -> Nat],
         \A k \in Key : /\ cached'[k] \in {cached[k], Nil}
                        /\ watermark'[k] \in {watermark[k], Nil},
         NEW lost, NEW fencesLost \in BOOLEAN,
         Clean(cached, watermark, origin, lost, fencesLost)
  PROVE  Clean(cached', watermark', origin, lost, fencesLost)
  BY DEF Clean, Nil

(* While what is written is no newer than the origin, or ends what counts  *)
(* as swept, and no reset with a DEL that counts moves.                    *)
LEMMA CacheCleanKept ==
  ASSUME TypeOK, CacheClean, UNCHANGED origin,
         sweeping' \subseteq sweeping, swept' => swept,
         \A x \in sweeping' : reset'[x] = reset[x],
         \/ UNCHANGED cacheVars
         \/ \E k \in Key, v \in Nat \cup {Nil} : v <= origin[k] /\ Put(k, v)
         \/ \E k \in Key, v \in Nat : v <= origin[k] /\ InvalidateThrough(k, v)
         \/ sweeping' = {} /\ ~swept'
  PROVE  CacheClean'
<1>1. CASE sweeping' = {} /\ ~swept'
  BY <1>1 DEF CacheClean
<1>2. CASE ~(sweeping' = {} /\ ~swept')
  <2>1. CacheTypeOK /\ origin \in [Key -> Nat]
    BY DEF TypeOK
  <2>2. ASSUME NEW lost, NEW fencesLost \in BOOLEAN,
               Clean(cached, watermark, origin, lost, fencesLost)
        PROVE  Clean(cached', watermark', origin, lost, fencesLost)
    <3>1. CASE UNCHANGED cacheVars
      BY <2>2, <3>1 DEF cacheVars
    <3>2. CASE ~(UNCHANGED cacheVars)
      BY <1>2, <2>1, <2>2, <3>2, PutClean, InvalidateClean
    <3> QED
      BY <3>1, <3>2
  <2>3. ASSUME NEW x \in sweeping'
        PROVE  /\ reset'[x].pc = "delete"
               /\ Clean(cached', watermark', origin', reset'[x].found,
                        "fences" \in reset'[x].found)
    <3>1. /\ reset[x].pc = "delete" /\ reset'[x] = reset[x]
          /\ Clean(cached, watermark, origin, reset[x].found,
                   "fences" \in reset[x].found)
      BY <2>3 DEF CacheClean
    <3>2. ("fences" \in reset[x].found) \in BOOLEAN
      OBVIOUS
    <3> QED
      BY <2>2, <3>1, <3>2
  <2>4. swept' => Clean(cached', watermark', origin', {}, FALSE)
    <3>1. FALSE \in BOOLEAN
      OBVIOUS
    <3> QED
      BY <2>2, <3>1 DEF CacheClean
  <2> QED
    BY <2>3, <2>4 DEF CacheClean
<1> QED
  BY <1>1, <1>2

LEMMA CallerKeepsSafety ==
  ASSUME TypeOK, SafeSources, NEW p \in Caller, CallerStep(p)
  PROVE  SafeSources'
<1>1. /\ caller \in [Caller -> Task \cup {Idle}]
      /\ caller[p] \in Task \cup {Idle}
      /\ origin \in [Key -> Nat] /\ outbox \subseteq Event
  BY DEF TypeOK
<1>2. UNCHANGED <<origin, reset>> /\ outbox' \subseteq outbox
  BY CallersKeepRest
<1>3. /\ carried' \in {carried, carried \ {p}}
      /\ Operator \ carried' = Operator \ carried
  BY LabResetAssumption
     DEF CallerStep, BeginFill, BeginPatch, Claim, WriteDefaults, ReadRow,
         FillPut, ReadValues, WritePatch, Apply, Settle, GiveUp, Ends
<1>4. ASSUME NEW q \in Caller, q # p
      PROVE  caller'[q] = caller[q]
  BY <1>1, <1>4
     DEF CallerStep, BeginFill, BeginPatch, Claim, WriteDefaults, ReadRow,
         FillPut, ReadValues, WritePatch, Apply, Settle, GiveUp, Ends, Becomes,
         Goes
<1>5. p \notin carried' => SafeCaller(p)'
  <2>1. CASE FillPut(p) \/ Settle(p) \/ GiveUp(p) \/ WritePatch(p)
    <3>1. caller'[p] = Idle
      BY <1>1, <2>1 DEF FillPut, Settle, GiveUp, WritePatch, Ends, Becomes
    <3> QED
      BY <3>1 DEF SafeCaller, Idle
  <2>2. CASE WriteDefaults(p)
    <3>1. caller[p] \in Fill \cup Patch
      BY <1>1, <2>2, CallerShape DEF WriteDefaults
    <3>2. caller'[p].pc \in {"row", "values"}
      BY <1>1, <2>2, <3>1 DEF WriteDefaults, Goes, Fill, Patch
    <3> QED
      BY <3>2 DEF SafeCaller
  <2>3. CASE ReadValues(p)
    <3>1. caller[p] \in Patch
      BY <1>1, <2>3, CallerShape DEF ReadValues
    <3>2. caller'[p].pc = "write"
      BY <1>1, <2>3, <3>1 DEF ReadValues, Becomes, Patch
    <3> QED
      BY <3>2 DEF SafeCaller
  <2>4. CASE (\E k \in Key : BeginFill(p, k)) \/ (\E f \in Field : BeginPatch(p, f))
    <3>1. caller'[p].pc \in {"default", "row", "values"}
      BY <1>1, <2>4 DEF BeginFill, BeginPatch, Becomes, AfterExists
    <3> QED
      BY <3>1 DEF SafeCaller
  <2>5. CASE ReadRow(p)
    <3>1. caller[p] \in Fill
      BY <1>1, <2>5, CallerShape DEF ReadRow
    <3>2. /\ caller'[p].pc = "put" /\ caller'[p].key = caller[p].key
          /\ caller'[p].version = origin[caller[p].key]
      BY <1>1, <2>5, <3>1 DEF ReadRow, Becomes, Fill
    <3>3. origin[caller[p].key] <= origin[caller[p].key]
      BY <1>1, <3>1 DEF Fill
    <3> QED
      BY <1>2, <3>2, <3>3 DEF SafeCaller
  <2>6. CASE \E e \in outbox : Claim(p, e)
    <3>1. PICK e \in outbox : Claim(p, e)
      BY <2>6
    <3>2. caller'[p].pc = "apply" /\ caller'[p].event = e
      BY <1>1, <3>1 DEF Claim, Becomes
    <3> QED
      BY <1>2, <3>2 DEF SafeCaller, SafeSources
  <2>7. CASE Apply(p)
    <3>1. caller[p] \in Job /\ caller[p].pc = "apply" /\ carried' = carried
      BY <1>1, <2>7, CallerShape DEF Apply
    <3>2. caller'[p].pc = "settle" /\ caller'[p].event = caller[p].event
      BY <1>1, <2>7, <3>1 DEF Apply, Goes, Job
    <3> QED
      BY <1>2, <3>1, <3>2 DEF SafeCaller, SafeSources
  <2> QED
    BY <2>1, <2>2, <2>3, <2>4, <2>5, <2>6, <2>7 DEF CallerStep
<1>6. ASSUME NEW q \in Caller \ carried'
      PROVE  SafeCaller(q)'
  <2>1. CASE q = p
    BY <1>5, <2>1
  <2>2. CASE q # p
    <3>1. caller'[q] = caller[q] /\ q \in Caller \ carried
      BY <1>3, <1>4, <2>2
    <3> QED
      BY <1>2, <3>1 DEF SafeSources, SafeCaller
  <2> QED
    BY <2>1, <2>2
<1>7. \A e \in outbox' : e.version <= origin'[e.key]
  BY <1>2 DEF SafeSources
<1>8. \A x \in Operator \ carried' : SafeReset(x)'
  BY <1>2, <1>3 DEF SafeSources, SafeReset
<1> QED
  BY <1>6, <1>7, <1>8 DEF SafeSources

LEMMA CallerKeepsClean ==
  ASSUME TypeOK, SafeSources, CacheClean, NEW p \in Caller, CallerStep(p)
  PROVE  CacheClean'
<1>1. caller[p] \in Task \cup {Idle} /\ HistoryTypeOK
  BY DEF TypeOK, HistoryTypeOK
<1>2. /\ UNCHANGED <<origin, reset>>
      /\ sweeping' \subseteq sweeping /\ (swept' => swept)
  BY CallersKeepRest
<1>3. CASE FillPut(p)
  <2>1. /\ caller[p].pc = "put"
        /\ caller[p].key \in Key /\ caller[p].version \in Nat \cup {Nil}
    BY <1>1, <1>3, CallerShape DEF FillPut, Fill
  <2>2. p \in carried \/ caller[p].version <= origin[caller[p].key]
    BY <2>1 DEF SafeSources, SafeCaller
  <2>3. p \in carried => sweeping' = {} /\ ~swept'
    BY <1>1, <1>3, TaintsTyped DEF FillPut
  <2>4. Put(caller[p].key, caller[p].version)
    BY <1>3 DEF FillPut
  <2> QED
    BY <1>2, <2>1, <2>2, <2>3, <2>4, CacheCleanKept
<1>4. CASE Apply(p)
  <2> DEFINE e == caller[p].event
  <2>1. caller[p].pc = "apply" /\ e.key \in Key /\ e.version \in Nat
    BY <1>1, <1>4, CallerShape DEF Apply, Job, Event
  <2>2. p \in carried \/ e.version <= origin[e.key]
    BY <2>1 DEF SafeSources, SafeCaller
  <2>3. p \in carried => sweeping' = {} /\ ~swept'
    BY <1>1, <1>4, TaintsTyped DEF Apply
  <2>4. Put(e.key, e.version) \/ InvalidateThrough(e.key, e.version)
    BY <1>4 DEF Apply
  <2> HIDE DEF e
  <2> QED
    BY <1>2, <2>1, <2>2, <2>3, <2>4, CacheCleanKept
<1>5. CASE ~(FillPut(p) \/ Apply(p))
  <2>1. UNCHANGED cacheVars
    BY <1>5
       DEF CallerStep, BeginFill, BeginPatch, Claim, WriteDefaults, ReadRow,
           ReadValues, WritePatch, Settle, GiveUp
  <2> QED
    BY <1>2, <2>1, CacheCleanKept
<1> QED
  BY <1>3, <1>4, <1>5

LEMMA CallerKeepsInv ==
  ASSUME TypeOK, ResetInv, NEW p \in Caller, CallerStep(p)
  PROVE  ResetInv'
  BY CallerKeepsSafety, CallerKeepsClean DEF ResetInv

-----------------------------------------------------------------------------
(* A reset that moves to a place where it holds no rows, or none but those *)
(* of now or of before, with the others where they were.                   *)
LEMMA SafetyKept ==
  ASSUME SafeSources, UNCHANGED <<origin, outbox, caller>>, NEW x \in Operator,
         \A y \in Operator \ {x} : reset'[y] = reset[y],
         \/ reset'[x].pc # "warm"
         \/ reset[x].pc = "warm" /\ reset'[x].rows = reset[x].rows
              /\ (x \in carried => x \in carried')
         \/ \A k \in Warm : reset'[x].rows[k] <= origin[k],
         carried \ {x} \subseteq carried'
  PROVE  SafeSources'
<1>1. \A e \in outbox' : e.version <= origin'[e.key]
  BY DEF SafeSources
<1>2. \A p \in Caller \ carried' : SafeCaller(p)'
  <2>1. Caller \ carried' \subseteq Caller \ carried
    BY LabResetAssumption
  <2> QED
    BY <2>1 DEF SafeSources, SafeCaller
<1>3. \A y \in Operator \ carried' : SafeReset(y)'
  BY DEF SafeSources, SafeReset
<1> QED
  BY <1>1, <1>2, <1>3 DEF SafeSources

LEMMA ReseedKeepsInv ==
  ASSUME TypeOK, ResetInv, NEW x \in Operator, Reseed(x)
  PROVE  ResetInv'
<1>1. /\ outbox' = {} /\ caller' = caller /\ carried' = Holders
      /\ sweeping' = {} /\ ~swept'
  BY DEF Reseed, Truncated
<1>2. CacheClean'
  BY <1>1 DEF CacheClean
<1>3. ASSUME NEW p \in Caller \ carried'
      PROVE  SafeCaller(p)'
  BY <1>1, <1>3 DEF SafeCaller, Holders, Holding
<1>4. ASSUME NEW y \in Operator \ carried'
      PROVE  reset'[y].pc # "warm"
  <2>1. /\ y # x => reset'[y] = reset[y]
        /\ reset'[x] = [pc |-> "scan"]
    BY <1>4 DEF Reseed, Moves, TypeOK
  <2> QED
    BY <1>1, <1>4, <2>1 DEF Holders
<1>5. SafeSources'
  BY <1>1, <1>3, <1>4 DEF SafeSources, SafeReset
<1> QED
  BY <1>2, <1>5 DEF ResetInv

LEMMA ScanKeepsInv ==
  ASSUME TypeOK, ResetInv, NEW x \in Operator, Scan(x)
  PROVE  ResetInv'
<1>1. /\ UNCHANGED <<origin, outbox, caller, carried, swept, cached, watermark>>
      /\ sweeping' = sweeping \cup {x}
  BY DEF Scan, originVars, cacheVars
<1>2. /\ reset'[x].pc = "delete" /\ reset'[x].found = Existing
      /\ \A y \in Operator \ {x} : reset'[y] = reset[y]
  BY DEF Scan, Moves, TypeOK
<1>3. SafeSources'
  BY <1>1, <1>2, SafetyKept DEF ResetInv
<1>4. Clean(cached, watermark, origin, Existing, "fences" \in Existing)
  <2> SUFFICES ASSUME NEW k \in Key
               PROVE  /\ k \in Existing \/ cached[k] <= origin[k]
                      /\ "fences" \in Existing \/ watermark[k] <= origin[k]
    BY DEF Clean
  <2>1. Nil <= origin[k]
    BY DEF TypeOK, Nil
  <2> QED
    BY <2>1 DEF Existing
<1>5. ASSUME NEW y \in sweeping'
      PROVE  /\ reset'[y].pc = "delete"
             /\ Clean(cached, watermark, origin, reset'[y].found,
                      "fences" \in reset'[y].found)
  <2>1. CASE y = x
    BY <1>2, <1>4, <2>1
  <2>2. CASE y # x
    <3>1. y \in sweeping /\ reset'[y] = reset[y]
      BY <1>1, <1>2, <1>5, <2>2 DEF TypeOK
    <3> QED
      BY <3>1 DEF ResetInv, CacheClean
  <2> QED
    BY <2>1, <2>2
<1>6. CacheClean'
  BY <1>1, <1>5 DEF ResetInv, CacheClean
<1> QED
  BY <1>3, <1>6 DEF ResetInv

LEMMA DeleteKeepsInv ==
  ASSUME TypeOK, ResetInv, NEW x \in Operator, Delete(x)
  PROVE  ResetInv'
<1>1. /\ UNCHANGED <<origin, outbox, caller, carried>>
      /\ sweeping' = sweeping \ {x}
      /\ swept' => swept \/ x \in sweeping
  BY DEF Delete, originVars
<1>2. /\ reset'[x].pc # "warm"
      /\ \A y \in Operator \ {x} : reset'[y] = reset[y]
  BY DEF Delete, Then, Moves, Resting, TypeOK
<1>3. SafeSources'
  BY <1>1, <1>2, SafetyKept DEF ResetInv
<1>4. \A k \in Key : /\ cached'[k] \in {cached[k], Nil}
                     /\ watermark'[k] \in {watermark[k], Nil}
  BY DEF Delete, WithoutEntries, TypeOK, CacheTypeOK
<1>5. origin \in [Key -> Nat]
  BY DEF TypeOK
<1>6. ASSUME NEW y \in sweeping'
      PROVE  /\ reset'[y].pc = "delete"
             /\ Clean(cached', watermark', origin, reset'[y].found,
                      "fences" \in reset'[y].found)
  <2>1. /\ reset'[y] = reset[y] /\ reset[y].pc = "delete"
        /\ Clean(cached, watermark, origin, reset[y].found,
                 "fences" \in reset[y].found)
    BY <1>1, <1>2, <1>6 DEF TypeOK, ResetInv, CacheClean
  <2>2. ("fences" \in reset[y].found) \in BOOLEAN
    OBVIOUS
  <2> QED
    BY <1>4, <1>5, <2>1, <2>2, LossClean
<1>7. ASSUME swept'
      PROVE  Clean(cached', watermark', origin, {}, FALSE)
  <2>1. CASE swept
    <3>1. Clean(cached, watermark, origin, {}, FALSE) /\ FALSE \in BOOLEAN
      BY <2>1 DEF ResetInv, CacheClean
    <3> QED
      BY <1>4, <1>5, <3>1, LossClean
  <2>2. CASE x \in sweeping
    <3> SUFFICES ASSUME NEW k \in Key
                 PROVE  cached'[k] <= origin[k] /\ watermark'[k] <= origin[k]
      BY DEF Clean
    <3>1. /\ k \in reset[x].found \/ cached[k] <= origin[k]
          /\ "fences" \in reset[x].found \/ watermark[k] <= origin[k]
      BY <2>2 DEF ResetInv, CacheClean, Clean
    <3>2. Nil <= origin[k]
      BY <1>5 DEF Nil
    <3> QED
      BY <3>1, <3>2 DEF Delete, WithoutEntries
  <2> QED
    BY <1>1, <1>7, <2>1, <2>2
<1>8. CacheClean'
  BY <1>1, <1>6, <1>7 DEF CacheClean
<1> QED
  BY <1>3, <1>8 DEF ResetInv

LEMMA WarmPutKeepsInv ==
  ASSUME TypeOK, ResetInv, NEW x \in Operator, NEW k \in Warm, WarmPut(x, k)
  PROVE  ResetInv'
<1>1. /\ reset[x] \in Warming /\ reset[x].pc = "warm"
      /\ HistoryTypeOK /\ Taints(x)
  BY ResetShape DEF WarmPut, TypeOK, HistoryTypeOK
<1>2. k \in Key /\ reset[x].rows[k] \in Nat
  BY <1>1, LabResetAssumption DEF Warming
<1>3. x \in carried \/ reset[x].rows[k] <= origin[k]
  BY <1>1 DEF ResetInv, SafeSources, SafeReset
<1>4. /\ UNCHANGED <<origin, outbox, caller>>
      /\ carried \ {x} \subseteq carried'
      /\ reset'[x].pc = "warm" => carried' = carried
  BY DEF WarmPut, originVars
<1>5. /\ \/ reset'[x].pc # "warm"
         \/ reset'[x].rows = reset[x].rows
      /\ \A y \in Operator \ {x} : reset'[y] = reset[y]
  BY <1>1 DEF WarmPut, Then, Moves, Done, Resting, Warming, TypeOK
<1>6. SafeSources'
  BY <1>1, <1>4, <1>5, SafetyKept DEF ResetInv
<1>7. /\ sweeping' \subseteq sweeping /\ (swept' => swept)
      /\ x \in carried => sweeping' = {} /\ ~swept'
  BY <1>1, TaintsTyped
<1>8. \A y \in sweeping' : reset'[y] = reset[y]
  BY <1>1, <1>5, <1>7 DEF TypeOK, ResetInv, CacheClean
<1>9. Put(k, reset[x].rows[k])
  BY DEF WarmPut
<1>10. CacheClean'
  BY <1>2, <1>3, <1>4, <1>7, <1>8, <1>9, CacheCleanKept DEF ResetInv
<1> QED
  BY <1>6, <1>10 DEF ResetInv

LEMMA ResetKeepsInv ==
  ASSUME TypeOK, ResetInv, NEW x \in Operator, ResetStep(x)
  PROVE  ResetInv'
<1>1. CASE Restore(x) \/ GetSettings(x) \/ Find(x) \/ ResetFails(x)
  <2>1. /\ UNCHANGED <<origin, outbox, caller>> /\ UNCHANGED cacheVars
        /\ carried \ {x} \subseteq carried'
        /\ sweeping' \subseteq sweeping /\ (swept' => swept)
    BY <1>1 DEF Restore, GetSettings, Find, ResetFails, originVars, historyVars
  <2>2. \A y \in Operator \ {x} : reset'[y] = reset[y]
    BY <1>1 DEF Restore, GetSettings, Find, ResetFails, Then, Moves, TypeOK
  <2>3. \/ reset'[x].pc # "warm"
        \/ \A k \in Warm : reset'[x].rows[k] <= origin[k]
    <3>1. CASE Find(x)
      <4>1. reset'[x].rows = [k \in Warm |-> origin[k]]
        BY <3>1 DEF Find, Moves, TypeOK
      <4> QED
        BY <4>1, LabResetAssumption DEF TypeOK
    <3>2. CASE ~Find(x)
      BY <1>1, <3>2
         DEF Restore, GetSettings, ResetFails, Then, Moves, Resting, TypeOK
    <3> QED
      BY <3>1, <3>2
  <2>4. SafeSources'
    BY <2>1, <2>2, <2>3, SafetyKept DEF ResetInv
  <2>5. x \notin sweeping'
    <3>1. x \in sweeping => reset[x].pc = "delete"
      BY DEF ResetInv, CacheClean
    <3> QED
      BY <1>1, <3>1 DEF Restore, GetSettings, Find, ResetFails, historyVars
  <2>6. \A y \in sweeping' : reset'[y] = reset[y]
    BY <2>1, <2>2, <2>5 DEF TypeOK
  <2>7. CacheClean'
    BY <2>1, <2>6, CacheCleanKept DEF ResetInv
  <2> QED
    BY <2>4, <2>7 DEF ResetInv
<1> QED
  BY <1>1, ReseedKeepsInv, ScanKeepsInv, DeleteKeepsInv, WarmPutKeepsInv
     DEF ResetStep

LEMMA RestKeepsInv ==
  ASSUME TypeOK, ResetInv,
         \/ \E k \in Key, policy \in {"invalidate", "write-through"} : Write(k, policy)
         \/ \E k \in Key : Leave(k)
         \/ UNCHANGED vars
  PROVE  ResetInv'
<1>1. ASSUME NEW k \in Key, NEW policy \in {"invalidate", "write-through"},
             Write(k, policy)
      PROVE  ResetInv'
  <2>1. /\ origin' = [origin EXCEPT ![k] = @ + 1]
        /\ outbox' = outbox \cup {[key |-> k, version |-> origin[k] + 1,
                                   policy |-> policy, born |-> reseeds]}
        /\ UNCHANGED <<cached, watermark, caller, reset, sweeping, swept, carried>>
    BY <1>1 DEF Write, cacheVars, historyVars
  <2>2. ASSUME NEW j \in Key
        PROVE  origin[j] \in Nat /\ origin'[j] \in Nat /\ origin[j] <= origin'[j]
    BY <2>1 DEF TypeOK
  <2>3. CacheClean'
    <3>1. ASSUME NEW lost, NEW fencesLost \in BOOLEAN,
                 Clean(cached, watermark, origin, lost, fencesLost)
          PROVE  Clean(cached, watermark, origin', lost, fencesLost)
      <4>1. ASSUME NEW j \in Key
            PROVE  cached[j] \in Int /\ watermark[j] \in Int
        BY DEF TypeOK, CacheTypeOK, Nil
      <4> QED
        BY <2>2, <3>1, <4>1 DEF Clean
    <3>2. \A x \in sweeping : ("fences" \in reset[x].found) \in BOOLEAN
      OBVIOUS
    <3> QED
      BY <2>1, <3>1, <3>2 DEF ResetInv, CacheClean
  <2>4. SafeSources'
    <3>1. ASSUME NEW e \in outbox'
          PROVE  e.version <= origin'[e.key]
      <4>1. CASE e \in outbox
        <5>1. e.key \in Key /\ e.version \in Nat /\ e.version <= origin[e.key]
          BY <4>1 DEF TypeOK, Event, ResetInv, SafeSources
        <5> QED
          BY <2>2, <5>1
      <4>2. CASE e \notin outbox
        BY <2>1, <2>2, <4>2 DEF TypeOK
      <4> QED
        BY <4>1, <4>2
    <3>2. ASSUME NEW p \in Caller \ carried
          PROVE  SafeCaller(p)'
      <4>1. caller[p] \in Task \cup {Idle} /\ caller' = caller /\ SafeCaller(p)
        BY <2>1 DEF TypeOK, ResetInv, SafeSources
      <4>2. CASE caller[p].pc = "put"
        <5>1. caller[p].key \in Key /\ caller[p].version \in Int
          BY <4>1, <4>2, CallerShape DEF Fill, Nil
        <5> QED
          BY <2>2, <4>1, <4>2, <5>1 DEF SafeCaller
      <4>3. CASE caller[p].pc \in {"apply", "settle"}
        <5>1. caller[p].event.key \in Key /\ caller[p].event.version \in Nat
          BY <4>1, <4>3, CallerShape DEF Job, Event
        <5> QED
          BY <2>2, <4>1, <4>3, <5>1 DEF SafeCaller
      <4> QED
        BY <4>1, <4>2, <4>3 DEF SafeCaller
    <3>3. ASSUME NEW x \in Operator \ carried, reset[x].pc = "warm", NEW j \in Warm
          PROVE  reset[x].rows[j] <= origin'[j]
      <4>1. reset[x] \in Warming
        BY <3>3, ResetShape DEF TypeOK
      <4>2. j \in Key /\ reset[x].rows[j] \in Nat /\ reset[x].rows[j] <= origin[j]
        BY <3>3, <4>1, LabResetAssumption
           DEF Warming, ResetInv, SafeSources, SafeReset
      <4> QED
        BY <2>2, <4>2
    <3> QED
      BY <2>1, <3>1, <3>2, <3>3 DEF SafeSources, SafeReset
  <2> QED
    BY <2>3, <2>4 DEF ResetInv
<1>2. ASSUME NEW k \in Key, Leave(k)
      PROVE  ResetInv'
  <2>1. /\ cached' = WithoutEntries({k}) /\ watermark' = watermark
        /\ UNCHANGED <<origin, outbox, caller, reset, sweeping, swept, carried>>
    BY <1>2 DEF Leave, Drop, originVars, historyVars
  <2>2. \A j \in Key : /\ cached'[j] \in {cached[j], Nil}
                       /\ watermark'[j] \in {watermark[j], Nil}
    BY <2>1 DEF WithoutEntries
  <2>3. ASSUME NEW lost, NEW fencesLost \in BOOLEAN,
               Clean(cached, watermark, origin, lost, fencesLost)
        PROVE  Clean(cached', watermark', origin, lost, fencesLost)
    BY <2>2, <2>3, LossClean DEF TypeOK
  <2>4. \A x \in sweeping : ("fences" \in reset[x].found) \in BOOLEAN
    OBVIOUS
  <2>5. CacheClean'
    BY <2>1, <2>3, <2>4 DEF ResetInv, CacheClean
  <2>6. SafeSources'
    BY <2>1 DEF ResetInv, SafeSources, SafeCaller, SafeReset
  <2> QED
    BY <2>5, <2>6 DEF ResetInv
<1>3. CASE UNCHANGED vars
  BY <1>3
     DEF vars, ResetInv, CacheClean, SafeSources, SafeCaller, SafeReset
<1> QED
  BY <1>1, <1>2, <1>3

LEMMA NextKeepsInv == TypeOK /\ ResetInv /\ [Next]_vars => ResetInv'
  BY CallerKeepsInv, ResetKeepsInv, RestKeepsInv DEF Next

LEMMA InitSafe == Init => ResetInv
<1> SUFFICES ASSUME Init PROVE ResetInv
  OBVIOUS
<1>1. Idle.pc = "idle" /\ Resting.pc = "idle"
  BY DEF Idle, Resting
<1>2. SafeSources
  BY <1>1 DEF Init, SafeSources, SafeCaller, SafeReset
<1>3. Clean(cached, watermark, origin, {}, FALSE)
  <2> SUFFICES ASSUME NEW k \in Key
               PROVE  cached[k] <= origin[k] /\ watermark[k] <= origin[k]
    BY DEF Clean
  <2>1. cached[k] = Nil /\ watermark[k] = Nil /\ origin[k] \in Nat
    BY LabResetAssumption DEF Init, CacheInit
  <2> QED
    BY <2>1 DEF Nil
<1>4. CacheClean
  BY <1>3 DEF Init, CacheClean
<1> QED
  BY <1>2, <1>4 DEF ResetInv

(* Nothing that has been read since the reseed is ahead of the new rows,   *)
(* and a DEL leaves only what is not: for every number of callers, keys,   *)
(* operators and resets, however these overlap, whichever fail halfway and *)
(* whatever is executed after they have.  What had been read before comes  *)
(* to Redis at any time, and a later SCAN finds it.                        *)
THEOREM SweepsLeaveNoOldData == Spec => []ResetLeavesNoOldData
<1>1. ResetInv => ResetLeavesNoOldData
  BY DEF ResetInv, CacheClean, Clean, ResetLeavesNoOldData
<1> QED
  BY <1>1, TypeCorrect, InitSafe, NextKeepsInv, PTL DEF Spec

-----------------------------------------------------------------------------
(* PatchesKeepOtherSettings: what a caller is about to write on the        *)
(* strength of is still so, unless it has been overtaken.                  *)
Relies(p) ==
  /\ caller[p].pc = "write" => caller[p].base = settings.patched
  /\ caller[p].pc = "default" => settings.patched = {}

RelyInv == \A p \in Caller \ overtaken : Relies(p)

LEMMA NothingPatched ==
  ASSUME SettingsTypeOK, ~settings.exists
  PROVE  settings.patched = {}
<1>1. settings = Missing
  BY DEF SettingsTypeOK
<1> QED
  BY <1>1 DEF Missing

(* Which steps of a caller touch the settings, and whom they overtake.     *)
LEMMA CallerAndOthers ==
  ASSUME TypeOK, NEW p \in Caller, CallerStep(p)
  PROVE  /\ \A q \in Caller \ {p} : caller'[q] = caller[q]
         /\ overtaken \ {p} \subseteq overtaken'
         /\ UNCHANGED settings \/ Relying(p) \subseteq overtaken'
<1>1. \A q \in Caller \ {p} : caller'[q] = caller[q]
  BY DEF TypeOK, CallerStep, BeginFill, BeginPatch, Claim, WriteDefaults, ReadRow,
         FillPut, ReadValues, WritePatch, Apply, Settle, GiveUp, Ends, Becomes,
         Goes
<1>2. CASE WriteDefaults(p) \/ WritePatch(p)
  BY <1>1, <1>2 DEF WriteDefaults, WritePatch, SetSettings, Relying
<1>3. CASE ~(WriteDefaults(p) \/ WritePatch(p))
  BY <1>1, <1>3
     DEF CallerStep, BeginFill, BeginPatch, Claim, ReadRow, FillPut, ReadValues,
         Apply, Settle, GiveUp, Ends
<1> QED
  BY <1>2, <1>3

LEMMA CallerKeepsRely ==
  ASSUME TypeOK, RelyInv, NEW p \in Caller, CallerStep(p)
  PROVE  RelyInv'
<1> SUFFICES ASSUME NEW q \in Caller \ overtaken'
             PROVE  Relies(q)'
  BY DEF RelyInv
<1>1. caller[p] \in Task \cup {Idle} /\ caller \in [Caller -> Task \cup {Idle}]
  BY DEF TypeOK
<1>2. CASE q # p
  <2>1. caller'[q] = caller[q] /\ q \in Caller \ overtaken /\ Relies(q)
    BY <1>2, CallerAndOthers DEF RelyInv
  <2>2. CASE UNCHANGED settings
    BY <2>1, <2>2 DEF Relies
  <2>3. CASE q \notin Relying(p)
    <3>1. caller[q].pc \notin {"default", "write"}
      BY <1>2, <2>3 DEF Relying
    <3> QED
      BY <2>1, <3>1 DEF Relies
  <2> QED
    BY <2>2, <2>3, CallerAndOthers
<1>3. CASE q = p
  <2>1. CASE (\E k \in Key : BeginFill(p, k)) \/ (\E f \in Field : BeginPatch(p, f))
    <3>1. /\ caller'[p].pc \in {"default", "row", "values"}
          /\ caller'[p].pc = "default" => ~settings.exists
          /\ settings' = settings
      BY <1>1, <2>1 DEF BeginFill, BeginPatch, Becomes, AfterExists
    <3> QED
      BY <1>3, <3>1, NothingPatched, TypeParts DEF Relies
  <2>2. CASE \E e \in outbox : Claim(p, e)
    <3>1. caller'[p].pc = "apply"
      BY <1>1, <2>2 DEF Claim, Becomes
    <3> QED
      BY <1>3, <3>1 DEF Relies
  <2>3. CASE FillPut(p) \/ Settle(p) \/ GiveUp(p) \/ WritePatch(p)
    <3>1. caller'[p] = Idle
      BY <1>1, <2>3 DEF FillPut, Settle, GiveUp, WritePatch, Ends, Becomes
    <3> QED
      BY <1>3, <3>1 DEF Relies, Idle
  <2>4. CASE WriteDefaults(p)
    <3>1. caller[p] \in Fill \cup Patch
      BY <1>1, <2>4, CallerShape DEF WriteDefaults
    <3>2. caller'[p].pc \in {"row", "values"}
      BY <1>1, <2>4, <3>1 DEF WriteDefaults, Goes, Fill, Patch
    <3> QED
      BY <1>3, <3>2 DEF Relies
  <2>5. CASE ReadRow(p)
    <3>1. caller[p] \in Fill
      BY <1>1, <2>5, CallerShape DEF ReadRow
    <3>2. caller'[p].pc = "put"
      BY <1>1, <2>5, <3>1 DEF ReadRow, Becomes, Fill
    <3> QED
      BY <1>3, <3>2 DEF Relies
  <2>6. CASE Apply(p)
    <3>1. caller[p] \in Job
      BY <1>1, <2>6, CallerShape DEF Apply
    <3>2. caller'[p].pc = "settle"
      BY <1>1, <2>6, <3>1 DEF Apply, Goes, Job
    <3> QED
      BY <1>3, <3>2 DEF Relies
  <2>7. CASE ReadValues(p)
    <3>1. caller[p] \in Patch
      BY <1>1, <2>7, CallerShape DEF ReadValues
    <3>2. /\ caller'[p].pc = "write" /\ caller'[p].base = settings.patched
          /\ settings' = settings
      BY <1>1, <2>7, <3>1 DEF ReadValues, Becomes, Patch
    <3> QED
      BY <1>3, <3>2 DEF Relies
  <2> QED
    BY <2>1, <2>2, <2>3, <2>4, <2>5, <2>6, <2>7 DEF CallerStep
<1> QED
  BY <1>2, <1>3

LEMMA RelyKept ==
  ASSUME RelyInv, UNCHANGED <<caller, settings, overtaken>>
  PROVE  RelyInv'
  BY DEF RelyInv, Relies

LEMMA ResetKeepsRely ==
  ASSUME TypeOK, RelyInv, NEW x \in Operator, ResetStep(x)
  PROVE  RelyInv'
<1>1. CASE Delete(x)
  <2>1. Missing.patched = {}
    BY DEF Missing
  <2> QED
    BY <1>1, <2>1 DEF Delete, RelyInv, Relies
<1>2. CASE Restore(x)
  BY <1>2 DEF Restore, RelyInv, Relies
<1>3. CASE ~(Delete(x) \/ Restore(x))
  BY <1>3, RelyKept
     DEF ResetStep, Reseed, Scan, GetSettings, Find, WarmPut, ResetFails
<1> QED
  BY <1>1, <1>2, <1>3

LEMMA NextKeepsRely == TypeOK /\ RelyInv /\ [Next]_vars => RelyInv'
<1> SUFFICES ASSUME TypeOK, RelyInv, [Next]_vars
             PROVE  RelyInv'
  OBVIOUS
<1>1. ASSUME NEW k \in Key, NEW policy \in {"invalidate", "write-through"},
             Write(k, policy)
      PROVE  RelyInv'
  BY <1>1, RelyKept DEF Write
<1>2. ASSUME NEW k \in Key, Leave(k)
      PROVE  RelyInv'
  BY <1>2, RelyKept DEF Leave
<1>3. CASE UNCHANGED vars
  BY <1>3, RelyKept DEF vars
<1> QED
  BY <1>1, <1>2, <1>3, CallerKeepsRely, ResetKeepsRely DEF Next

LEMMA OnlyOwnSettings ==
  ASSUME TypeOK, RelyInv, Next, NEW p \in Caller \ overtaken,
         caller[p].pc \in {"default", "write"}, caller'[p] # caller[p],
         NEW f \in Field
  PROVE  \/ f \in settings'.patched <=> f \in settings.patched
         \/ caller[p].task = "patch" /\ f = caller[p].field
<1>1. CallerStep(p)
  <2>1. CASE \E q \in Caller : CallerStep(q)
    BY <2>1, CallerAndOthers
  <2>2. CASE ~(\E q \in Caller : CallerStep(q))
    BY <2>2
       DEF Next, Write, Leave, ResetStep, Reseed, Scan, Delete, Restore,
           GetSettings, Find, ResetFails, WarmPut
  <2> QED
    BY <2>1, <2>2
<1>2. caller[p] \in Task \cup {Idle} /\ Relies(p)
  BY DEF TypeOK, RelyInv
<1>3. CASE WriteDefaults(p)
  <2>1. settings'.patched = {} /\ settings.patched = {}
    BY <1>2, <1>3 DEF WriteDefaults, SetSettings, Relies
  <2> QED
    BY <2>1
<1>4. CASE WritePatch(p)
  <2>1. caller[p] \in Patch /\ caller[p].base = settings.patched
    BY <1>2, <1>4, CallerShape DEF WritePatch, Relies
  <2>2. settings'.patched = settings.patched \cup {caller[p].field}
    BY <1>4, <2>1 DEF WritePatch, SetSettings, Merged
  <2> QED
    BY <2>1, <2>2 DEF Patch
<1>5. CASE ~(WriteDefaults(p) \/ WritePatch(p))
  <2>1. settings' = settings
    BY <1>1, <1>5
       DEF CallerStep, BeginFill, BeginPatch, Claim, ReadRow, FillPut,
           ReadValues, Apply, Settle, GiveUp
  <2> QED
    BY <2>1
<1> QED
  BY <1>3, <1>4, <1>5

(* A patch changes its own setting and the defaults of a fill change none, *)
(* whatever the others do, unless the hash was written or deleted between  *)
(* the caller's read and its HSET.                                         *)
THEOREM OthersSettingsKept == Spec => PatchesKeepOtherSettings
<1>1. TypeOK /\ RelyInv /\ [Next]_vars =>
        [\A p \in Caller :
           /\ caller[p].pc \in {"default", "write"} /\ caller'[p] # caller[p]
           /\ p \notin overtaken
           => \A f \in Field :
                \/ f \in settings'.patched <=> f \in settings.patched
                \/ caller[p].task = "patch" /\ f = caller[p].field]_vars
  BY OnlyOwnSettings
<1>2. Init => RelyInv
  <2>1. Idle.pc = "idle"
    BY DEF Idle
  <2> QED
    BY <2>1 DEF Init, RelyInv, Relies
<1> QED
  BY <1>1, <1>2, TypeCorrect, NextKeepsRely, PTL DEF Spec, PatchesKeepOtherSettings
=============================================================================
