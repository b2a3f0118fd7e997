----------------------------- MODULE CacheStore -----------------------------
(***************************************************************************)
(* The bounded pool of cache-store.ts, as it lies in Redis: one string per *)
(* entry, the set of members, a sorted set per eviction policy, the hash   *)
(* of version watermarks and the settings.                                 *)
(*                                                                         *)
(* A Lua script or a MULTI block is one atomic action.  A call that sends  *)
(* several commands (get, list, flush, the settings patch) is a client     *)
(* process with one action per command, and anything may happen between    *)
(* two of them.  A script's arguments were computed by a caller that may   *)
(* have been slow: `now` is any time already past, the settings are any    *)
(* that have ever been in force.                                           *)
(***************************************************************************)
EXTENDS Integers, FiniteSets

CONSTANTS
  Key,        \* resource keys, as the ranks of their members in a sorted set
  Version,    \* versions callers store or invalidate through
  Capacity,   \* capacities the settings may have
  Eviction,   \* eviction policies the settings may have
  Lifetime,   \* ttl plus stale window of a put, in clock ticks
  Client,     \* callers of the multi-command operations
  Calls,      \* the operations this instance exercises
  MaxClock,   \* bound: the clock stops here
  MaxHits     \* bound: an entry is not touched more often

AllCalls == {"put", "touch", "fence", "get", "list", "flush", "patch"}

ASSUME CacheStoreAssumption ==
  /\ Key \subseteq Nat /\ IsFiniteSet(Key)
  /\ Version \subseteq Nat
  /\ Capacity \subseteq Nat \ {0} /\ Capacity # {}
  /\ Eviction \subseteq {"LRU", "LFU"} /\ Eviction # {}
  /\ Lifetime \subseteq Nat \ {0}
  /\ Calls \subseteq AllCalls

VARIABLES
  entry,       \* entry[k]: the record under dcl:cache:entry:k
  index,       \* set cacheIndex
  lru,         \* sorted set cacheLru: score of each key, or Nil
  lfu,         \* sorted set cacheLfu
  watermark,   \* hash cacheVersionWatermarks
  settings,    \* hash settings
  configured,  \* history: every settings that has been in force
  clock,       \* what labState.now() returns
  client,      \* client[c]: the call c is in the middle of
  overtaken    \* history: a put landed inside a sweep or a flush

poolVars == <<entry, index, lru, lfu, watermark>>
settingsVars == <<settings, configured>>
vars == <<entry, index, lru, lfu, watermark, settings, configured, clock,
          client, overtaken>>

-----------------------------------------------------------------------------
Nil == -1
Settings == [capacity : Capacity, eviction : Eviction]
Record == [version : Version, hardExpiresAt : Nat,
           lastAccessedAt : Nat, hits : Nat]
NoEntry == [version |-> Nil]
Idle == [pc |-> "idle"]

(* A settings patch carries some of the fields. *)
Patch == [capacity : Capacity \cup {Nil}, eviction : Eviction \cup {"same"}]

Busy == [pc : {"invalidate"}, key : Key]
          \cup [pc : {"mget", "sweep", "flush"}, members : SUBSET Key]
          \cup [pc : {"reread"}, patch : Patch, shrinks : BOOLEAN]
          \cup [pc : {"hset", "trim"}, next : Settings, shrinks : BOOLEAN]

ZSet == [Key -> Nat \cup {Nil}]

TypeOK ==
  /\ entry \in [Key -> Record \cup {NoEntry}]
  /\ index \subseteq Key
  /\ lru \in ZSet
  /\ lfu \in ZSet
  /\ watermark \in [Key -> Version \cup {Nil}]
  /\ settings \in Settings
  /\ configured \subseteq Settings
  /\ clock \in Nat
  /\ client \in [Client -> Busy \cup {Idle}]
  /\ overtaken \in BOOLEAN

Init ==
  /\ entry = [k \in Key |-> NoEntry]
  /\ index = {}
  /\ lru = [k \in Key |-> Nil]
  /\ lfu = [k \in Key |-> Nil]
  /\ watermark = [k \in Key |-> Nil]
  /\ settings \in Settings
  /\ configured = {settings}
  /\ clock = 0
  /\ client = [c \in Client |-> Idle]
  /\ overtaken = FALSE

Live == {k \in Key : entry[k] # NoEntry}

-----------------------------------------------------------------------------
(* Sorted sets.  Equal scores are ordered by member.                       *)
Members(z) == {k \in Key : z[k] # Nil}

Before(z, j, k) == z[j] < z[k] \/ (z[j] = z[k] /\ j < k)

(* ZRANGE z 0 0, as a set: empty when the sorted set is empty. *)
Head(z) == {k \in Members(z) : \A j \in Members(z) : ~Before(z, j, k)}

ZRem(z, gone) == [k \in Key |-> IF k \in gone THEN Nil ELSE z[k]]

Del(gone) == [k \in Key |-> IF k \in gone THEN NoEntry ELSE entry[k]]

PolicyIndex(policy) == IF policy = "LFU" THEN lfu ELSE lru

(* Mutant of Remove: the frequency index keeps the names.                  *)
RemoveButLfu(gone) ==
  /\ entry' = Del(gone)
  /\ index' = index \ gone
  /\ lru' = ZRem(lru, gone)
  /\ lfu' = lfu

(* DEL, SREM, ZREM, ZREM: keys leave the pool and all of its indexes.      *)
Remove(gone) ==
  /\ entry' = Del(gone)
  /\ index' = index \ gone
  /\ lru' = ZRem(lru, gone)
  /\ lfu' = ZRem(lfu, gone)

-----------------------------------------------------------------------------
(* PUT_SCRIPT.                                                             *)

(* Mutant of Newer: only the entry is compared.                            *)
NewerEntry(k, v) == entry[k].version > v

(* The script refuses a version older than the fence or the entry.         *)
Newer(k, v) == watermark[k] > v \/ entry[k].version > v

Unpruned == {}   \* mutant of Dead: missing entries still count as members

(* Members whose entry has expired under the index. *)
Dead == {m \in index : entry[m] = NoEntry}

(* Mutant of Victim: > for >=, the pool grows one entry too large.         *)
LateVictim(k, s) ==
  IF k \notin index \ Dead /\ Cardinality(index \ Dead) > s.capacity
  THEN Head(ZRem(PolicyIndex(s.eviction), Dead))
  ELSE {}

(* The entry given up for k when the pool is full. *)
Victim(k, s) ==
  IF k \notin index \ Dead /\ Cardinality(index \ Dead) >= s.capacity
  THEN Head(ZRem(PolicyIndex(s.eviction), Dead))
  ELSE {}

FenceBeyond(k, v) ==   \* mutant of RaisedFence: the fence refuses v itself
  [watermark EXCEPT ![k] = v + 1]

RaisedFence(k, v) ==
  [watermark EXCEPT ![k] = IF v > watermark[k] THEN v ELSE watermark[k]]

NewRecord(v, life, now) ==
  [version |-> v, hardExpiresAt |-> now + life, lastAccessedAt |-> now,
   hits |-> 0]

(* A client is past its read of k, and about to act on what it read.       *)
Overtakes(k) ==
  \E c \in Client :
    \/ client[c].pc = "sweep" /\ k \in client[c].members
    \/ client[c].pc = "flush" /\ k \notin client[c].members

PutScript(k, v, life, now, s) ==
  IF Newer(k, v)
  THEN UNCHANGED <<poolVars, overtaken>>
  ELSE LET gone == Dead \cup Victim(k, s) IN
       /\ entry' = [Del(gone) EXCEPT ![k] = NewRecord(v, life, now)]
       /\ index' = (index \ gone) \cup {k}
       /\ lru' = [ZRem(lru, gone) EXCEPT ![k] = now]
       /\ lfu' = [ZRem(lfu, gone) EXCEPT ![k] = 0]
       /\ watermark' = RaisedFence(k, v)
       /\ overtaken' = (overtaken \/ Overtakes(k))

PutCall(k, v) ==
  /\ "put" \in Calls
  /\ \E life \in Lifetime, now \in 0 .. clock, s \in configured :
        PutScript(k, v, life, now, s)
  /\ UNCHANGED <<settingsVars, clock, client>>

-----------------------------------------------------------------------------
Touched(record, now) ==
  [record EXCEPT !.hits = @ + 1, !.lastAccessedAt = now]

(* TOUCH_SCRIPT: the set of members is not among its keys, so a touch      *)
(* revives the policy scores of an entry the index has lost.               *)
Touch(k, now) ==
  /\ "touch" \in Calls
  /\ entry[k] # NoEntry
  /\ entry[k].hits < MaxHits
  /\ entry' = [entry EXCEPT ![k] = Touched(entry[k], now)]
  /\ lru' = [lru EXCEPT ![k] = now]
  /\ lfu' = [lfu EXCEPT ![k] = IF @ = Nil THEN 1 ELSE @ + 1]
  /\ UNCHANGED <<index, watermark, settingsVars, clock, client, overtaken>>

(* INVALIDATE_THROUGH_VERSION_SCRIPT                                       *)
InvalidateThroughVersion(k, v) ==
  /\ "fence" \in Calls
  /\ watermark' = RaisedFence(k, v)
  /\ IF entry[k] # NoEntry /\ entry[k].version <= v
     THEN Remove({k})
     ELSE UNCHANGED <<entry, index, lru, lfu>>
  /\ UNCHANGED <<settingsVars, clock, client, overtaken>>

TrimsToBelow(cap, policy) ==   \* mutant of TrimVictims: >= for >
  LET z == PolicyIndex(policy)
      earlier(k) == {j \in Members(z) : Before(z, j, k)}
  IN {k \in Members(z) : Cardinality(index \ earlier(k)) >= cap}

TrimsToAbove(cap, policy) ==   \* mutant of TrimVictims: one entry too many
  LET z == PolicyIndex(policy)
      earlier(k) == {j \in Members(z) : Before(z, j, k)}
  IN {k \in Members(z) : Cardinality(index \ earlier(k)) > cap + 1}

(* TRIM_SCRIPT: the head of the policy index goes while the set of members *)
(* is larger than the capacity, so k goes when the members left without    *)
(* all the earlier ones are still too many.                                *)
TrimVictims(cap, policy) ==
  LET z == PolicyIndex(policy)
      earlier(k) == {j \in Members(z) : Before(z, j, k)}
  IN {k \in Members(z) : Cardinality(index \ earlier(k)) > cap}

(* The while loop of TRIM_SCRIPT, statement by statement: taken[gone] is   *)
(* what it has taken in the end when the victims so far are gone.          *)
TrimLoop(cap, policy) ==
  LET head(gone) == Head(ZRem(PolicyIndex(policy), gone))
      taken[gone \in SUBSET Key] ==
        IF Cardinality(index \ gone) <= cap \/ head(gone) = {} THEN gone
        ELSE taken[gone \cup head(gone)]
  IN taken[{}]

(* Redis drops an entry whose PX has run out; every index keeps its name.  *)
Expire(k) ==
  /\ entry[k] # NoEntry
  /\ entry[k].hardExpiresAt <= clock
  /\ entry' = Del({k})
  /\ UNCHANGED <<index, lru, lfu, watermark, settingsVars, clock, client,
                 overtaken>>

Tick ==
  /\ clock < MaxClock
  /\ clock' = clock + 1
  /\ UNCHANGED <<poolVars, settingsVars, client, overtaken>>

-----------------------------------------------------------------------------
(* Calls of several commands.                                              *)
Goes(c, state) == client' = [client EXCEPT ![c] = state]

(* get: a record past its hard expiry is invalidated by a second command,  *)
(* which deletes whatever is there by then.                                *)
Get(c, k, now) ==
  /\ "get" \in Calls
  /\ client[c] = Idle
  /\ entry[k] # NoEntry
  /\ entry[k].hardExpiresAt <= now
  /\ Goes(c, [pc |-> "invalidate", key |-> k])
  /\ UNCHANGED <<poolVars, settingsVars, clock, overtaken>>

Invalidate(c) ==
  /\ client[c].pc = "invalidate"
  /\ Remove({client[c].key})
  /\ Goes(c, Idle)
  /\ UNCHANGED <<watermark, settingsVars, clock, overtaken>>

(* list: SMEMBERS ... *)
List(c) ==
  /\ "list" \in Calls
  /\ client[c] = Idle
  /\ index # {}
  /\ Goes(c, [pc |-> "mget", members |-> index])
  /\ UNCHANGED <<poolVars, settingsVars, clock, overtaken>>

(* ... MGET of those members; the ones without an entry are missing ...    *)
ListValues(c) ==
  /\ client[c].pc = "mget"
  /\ LET missing == client[c].members \ Live IN
       Goes(c, IF missing = {} THEN Idle
               ELSE [pc |-> "sweep", members |-> missing])
  /\ UNCHANGED <<poolVars, settingsVars, clock, overtaken>>

(* ... and the missing ones are swept out of the indexes.                  *)
ListSweep(c) ==
  /\ client[c].pc = "sweep"
  /\ index' = index \ client[c].members
  /\ lru' = ZRem(lru, client[c].members)
  /\ lfu' = ZRem(lfu, client[c].members)
  /\ Goes(c, Idle)
  /\ UNCHANGED <<entry, watermark, settingsVars, clock, overtaken>>

(* flush: SMEMBERS ... *)
Flush(c) ==
  /\ "flush" \in Calls
  /\ client[c] = Idle
  /\ Goes(c, [pc |-> "flush", members |-> index])
  /\ UNCHANGED <<poolVars, settingsVars, clock, overtaken>>

FlushEntries(c) ==   \* mutant of FlushExec: the policy indexes are left behind
  /\ client[c].pc = "flush"
  /\ entry' = Del(client[c].members)
  /\ index' = {}
  /\ watermark' = [k \in Key |-> Nil]
  /\ Goes(c, Idle)
  /\ UNCHANGED <<lru, lfu, settingsVars, clock, overtaken>>

(* ... and one MULTI that deletes the entries seen and all the indexes.    *)
FlushExec(c) ==
  /\ client[c].pc = "flush"
  /\ entry' = Del(client[c].members)
  /\ index' = {}
  /\ lru' = ZRem(lru, Key)
  /\ lfu' = ZRem(lfu, Key)
  /\ watermark' = [k \in Key |-> Nil]
  /\ Goes(c, Idle)
  /\ UNCHANGED <<settingsVars, clock, overtaken>>

-----------------------------------------------------------------------------
(* LabService.patchSettings: reads the settings to decide on a trim ...    *)
Merge(s, patch) ==
  [capacity |-> IF patch.capacity = Nil THEN s.capacity ELSE patch.capacity,
   eviction |-> IF patch.eviction = "same" THEN s.eviction ELSE patch.eviction]

PatchBegin(c, patch) ==
  /\ "patch" \in Calls
  /\ client[c] = Idle
  /\ Goes(c, [pc |-> "reread", patch |-> patch,
              shrinks |-> patch.capacity # Nil
                            /\ patch.capacity < settings.capacity])
  /\ UNCHANGED <<poolVars, settingsVars, clock, overtaken>>

(* ... LabStateStore.patchSettings reads them again and merges ...         *)
PatchReread(c) ==
  /\ client[c].pc = "reread"
  /\ Goes(c, [pc |-> "hset", next |-> Merge(settings, client[c].patch),
              shrinks |-> client[c].shrinks])
  /\ UNCHANGED <<poolVars, settingsVars, clock, overtaken>>

(* ... one HSET writes every field ... *)
PatchWrite(c) ==
  /\ client[c].pc = "hset"
  /\ settings' = client[c].next
  /\ configured' = configured \cup {client[c].next}
  /\ Goes(c, IF client[c].shrinks THEN [client[c] EXCEPT !.pc = "trim"]
             ELSE Idle)
  /\ UNCHANGED <<poolVars, clock, overtaken>>

(* ... and a patch that lowers the capacity trims the pool.                *)
Trim(c) ==
  /\ client[c].pc = "trim"
  /\ Remove(TrimVictims(client[c].next.capacity, client[c].next.eviction))
  /\ Goes(c, Idle)
  /\ UNCHANGED <<watermark, settingsVars, clock, overtaken>>

-----------------------------------------------------------------------------
Next ==
  \/ \E k \in Key, v \in Version : PutCall(k, v) \/ InvalidateThroughVersion(k, v)
  \/ \E k \in Key, now \in 0 .. clock : Touch(k, now)
  \/ \E k \in Key : Expire(k)
  \/ Tick
  \/ \E c \in Client :
       \/ \E k \in Key, now \in 0 .. clock : Get(c, k, now)
       \/ Invalidate(c) \/ List(c) \/ ListValues(c) \/ ListSweep(c)
       \/ Flush(c) \/ FlushExec(c)
       \/ \E patch \in Patch : PatchBegin(c, patch)
       \/ PatchReread(c) \/ PatchWrite(c) \/ Trim(c)

Spec == Init /\ [][Next]_vars

-----------------------------------------------------------------------------
(* The two policy indexes name the same keys, and every member of the set  *)
(* of members among them, so a full pool always finds a victim: ZRANGE in  *)
(* PUT_SCRIPT and TRIM_SCRIPT never comes back empty.                      *)
PolicyIndexesAgree ==
  /\ Members(lru) = Members(lfu)
  /\ index \subseteq Members(lru)

(* As long as no put has landed inside somebody's list or flush, the set   *)
(* of members is what docs/architecture.md calls it, "the authoritative    *)
(* entry index": it has every live entry, the policy indexes have nothing  *)
(* else, and their scores are the record's own.                            *)
IndexExact ==
  ~overtaken =>
    /\ Live \subseteq index
    /\ Members(lru) = index
    /\ \A k \in Live : /\ lru[k] = entry[k].lastAccessedAt
                       /\ lfu[k] = entry[k].hits

(* Under the same condition the pool never holds more than the largest     *)
(* capacity ever configured, however stale the settings of a put.          *)
SlotBudget ==
  ~overtaken => \E s \in configured : Cardinality(index) <= s.capacity

Evicted == {k \in Live : entry'[k] = NoEntry}
Added == {k \in Key \ Live : entry'[k] # NoEntry}

(* A put that costs another key its entry does so in a pool that is full   *)
(* of live entries, costs exactly one, and the one the policy ranks lowest *)
(* by the records themselves.                                              *)
RankedLowest(k, policy) ==
  \A j \in Live \ {k} :
    IF policy = "LFU" THEN entry[k].hits <= entry[j].hits
    ELSE entry[k].lastAccessedAt <= entry[j].lastAccessedAt

EvictionIsExact ==
  [][Evicted # {} /\ Added # {} /\ ~overtaken =>
       \E s \in configured, k \in Live :
         /\ Evicted = {k}
         /\ Cardinality(Live) >= s.capacity
         /\ RankedLowest(k, s.eviction)]_vars

(* In every pool the other calls can leave behind, ghosts and all, the     *)
(* closed form the model trims with takes the keys the loop takes.         *)
TrimMatchesLoop ==
  \A cap \in 1 .. Cardinality(Key), policy \in Eviction :
    TrimVictims(cap, policy) = TrimLoop(cap, policy)

(* A trim leaves at most the capacity its patch set, even when names of    *)
(* expired or lost entries sit in the policy index.                        *)
TrimReachesCapacity ==
  [][\A c \in Client : client[c].pc = "trim" /\ client'[c] # client[c] =>
       Cardinality(index') <= client[c].next.capacity]_vars

(* The pool keeps the promises of VersionedCache: refused puts, fences     *)
(* that only a flush lifts, entries that leave but never go back in time.  *)
Abstract == INSTANCE VersionedCache WITH
              cached <- [k \in Key |-> entry[k].version]

ImplementsVersionedCache == Abstract!CacheSpec
=============================================================================
