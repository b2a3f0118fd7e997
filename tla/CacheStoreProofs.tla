-------------------------- MODULE CacheStoreProofs --------------------------
(***************************************************************************)
(* Theorems about CacheStore, for every set of keys, versions, settings    *)
(* and clients.                                                            *)
(***************************************************************************)
EXTENDS CacheStore, NumberLemmas, FiniteSetTheorems, TLAPS

-----------------------------------------------------------------------------
(* The states of a client, told apart by pc.                               *)
LEMMA ClientStates ==
  ASSUME TypeOK, NEW c \in Client
  PROVE  /\ client[c] \in Busy \cup {Idle}
         /\ client[c].pc = "invalidate" => client[c].key \in Key
         /\ client[c].pc \in {"mget", "sweep", "flush"} =>
              client[c].members \subseteq Key
         /\ client[c].pc = "reread" =>
              client[c].patch \in Patch /\ client[c].shrinks \in BOOLEAN
         /\ client[c].pc \in {"hset", "trim"} =>
              client[c] \in [pc : {"hset", "trim"}, next : Settings,
                             shrinks : BOOLEAN]
<1>1. client[c] \in Busy \cup {Idle}
  BY DEF TypeOK
<1> QED
  BY <1>1 DEF Busy, Idle

LEMMA MergeType ==
  ASSUME NEW s \in Settings, NEW patch \in Patch
  PROVE  Merge(s, patch) \in Settings
<1>1. /\ s.capacity \in Capacity /\ s.eviction \in Eviction
      /\ patch.capacity \in Capacity \cup {Nil}
      /\ patch.eviction \in Eviction \cup {"same"}
  BY DEF Settings, Patch
<1> QED
  BY <1>1 DEF Merge, Settings

LEMMA ZRemType ==
  ASSUME NEW z \in ZSet, NEW gone
  PROVE  ZRem(z, gone) \in ZSet
BY DEF ZSet, ZRem

LEMMA DelType ==
  ASSUME TypeOK, NEW gone
  PROVE  Del(gone) \in [Key -> Record \cup {NoEntry}]
BY DEF TypeOK, Del

(* Every action that calls Remove keeps the types of what it changes.      *)
LEMMA RemoveType ==
  ASSUME TypeOK, NEW gone, Remove(gone)
  PROVE  /\ entry' \in [Key -> Record \cup {NoEntry}]
         /\ index' \subseteq Key /\ lru' \in ZSet /\ lfu' \in ZSet
BY DelType, ZRemType DEF TypeOK, Remove

LEMMA RaisedFenceType ==
  ASSUME TypeOK, NEW k \in Key, NEW v \in Version
  PROVE  RaisedFence(k, v) \in [Key -> Version \cup {Nil}]
BY DEF TypeOK, RaisedFence

LEMMA ClientGoes ==
  ASSUME TypeOK, NEW c \in Client, NEW state \in Busy \cup {Idle},
         Goes(c, state)
  PROVE  client' \in [Client -> Busy \cup {Idle}]
BY DEF TypeOK, Goes

-----------------------------------------------------------------------------
(* Types.                                                                  *)
LEMMA PutType ==
  ASSUME TypeOK, NEW k \in Key, NEW v \in Version, PutCall(k, v)
  PROVE  TypeOK'
<1>1. PICK life \in Lifetime, now \in 0 .. clock, s \in configured :
        PutScript(k, v, life, now, s)
  BY DEF PutCall
<1>2. UNCHANGED <<settingsVars, clock, client>>
  BY DEF PutCall
<1>3. CASE Newer(k, v)
  BY <1>1, <1>2, <1>3 DEF TypeOK, PutScript, poolVars, settingsVars
<1>4. CASE ~Newer(k, v)
  <2> DEFINE gone == Dead \cup Victim(k, s)
  <2>1. /\ entry' = [Del(gone) EXCEPT ![k] = NewRecord(v, life, now)]
        /\ index' = (index \ gone) \cup {k}
        /\ lru' = [ZRem(lru, gone) EXCEPT ![k] = now]
        /\ lfu' = [ZRem(lfu, gone) EXCEPT ![k] = 0]
        /\ watermark' = RaisedFence(k, v)
        /\ overtaken' = (overtaken \/ Overtakes(k))
    BY <1>1, <1>4 DEF PutScript
  <2>2. v \in Version /\ life \in Nat /\ now \in Nat /\ clock \in Nat
    BY CacheStoreAssumption DEF TypeOK
  <2>3. NewRecord(v, life, now) \in Record
    BY <2>2 DEF NewRecord, Record
  <2>4. entry' \in [Key -> Record \cup {NoEntry}]
    BY <2>1, <2>3, DelType
  <2>5. lru' \in ZSet /\ lfu' \in ZSet
    <3>1. ZRem(lru, gone) \in ZSet /\ ZRem(lfu, gone) \in ZSet
      BY ZRemType DEF TypeOK
    <3> QED
      BY <2>1, <2>2, <3>1 DEF ZSet
  <2>6. watermark' \in [Key -> Version \cup {Nil}]
    BY <2>1, RaisedFenceType
  <2>7. overtaken' \in BOOLEAN
    BY <2>1 DEF TypeOK, Overtakes
  <2>8. index' \subseteq Key
    BY <2>1 DEF TypeOK
  <2> QED
    BY <1>2, <2>4, <2>5, <2>6, <2>7, <2>8 DEF TypeOK, settingsVars
<1> QED
  BY <1>3, <1>4

LEMMA TouchedType ==
  ASSUME NEW record \in Record, NEW now \in Nat
  PROVE  Touched(record, now) \in Record
<1> DEFINE hits == record.hits + 1
<1>1. hits \in Nat
  BY DEF Record
<1> HIDE DEF hits
<1>2. [record EXCEPT !.hits = hits, !.lastAccessedAt = now] \in Record
  BY <1>1 DEF Record
<1> QED
  BY <1>2 DEF hits, Touched

LEMMA TouchType ==
  ASSUME TypeOK, NEW k \in Key, NEW now \in 0 .. clock, Touch(k, now)
  PROVE  TypeOK'
<1>1. now \in Nat /\ entry[k] \in Record
  BY DEF TypeOK, Touch
<1>2. Touched(entry[k], now) \in Record
  BY <1>1, TouchedType
<1>3. entry' \in [Key -> Record \cup {NoEntry}]
  BY <1>2 DEF TypeOK, Touch
<1>4. lru' \in ZSet
  BY <1>1 DEF TypeOK, Touch, ZSet
<1>5. lfu' \in ZSet
  BY DEF TypeOK, Touch, ZSet, Nil
<1> QED
  BY <1>3, <1>4, <1>5 DEF TypeOK, Touch, settingsVars

LEMMA FenceType ==
  ASSUME TypeOK, NEW k \in Key, NEW v \in Version,
         InvalidateThroughVersion(k, v)
  PROVE  TypeOK'
<1>1. watermark' \in [Key -> Version \cup {Nil}]
  BY RaisedFenceType DEF InvalidateThroughVersion
<1>2. /\ entry' \in [Key -> Record \cup {NoEntry}]
      /\ index' \subseteq Key /\ lru' \in ZSet /\ lfu' \in ZSet
  BY RemoveType DEF InvalidateThroughVersion, TypeOK
<1> QED
  BY <1>1, <1>2 DEF InvalidateThroughVersion, TypeOK, settingsVars

LEMMA ExpireType ==
  ASSUME TypeOK, NEW k \in Key, Expire(k)
  PROVE  TypeOK'
BY DelType DEF Expire, TypeOK, settingsVars

LEMMA TickType ==
  ASSUME TypeOK, Tick
  PROVE  TypeOK'
BY DEF TypeOK, Tick, poolVars, settingsVars

(* The commands that end a call: they remove names and set their client    *)
(* free.                                                                   *)
LEMMA LastCommandType ==
  ASSUME TypeOK, NEW c \in Client,
         Invalidate(c) \/ ListSweep(c) \/ FlushExec(c) \/ Trim(c)
  PROVE  TypeOK'
<1>1. client' \in [Client -> Busy \cup {Idle}]
  BY ClientGoes DEF Invalidate, ListSweep, FlushExec, Trim
<1>2. UNCHANGED <<settingsVars, clock, overtaken>>
  BY DEF Invalidate, ListSweep, FlushExec, Trim
<1>3. CASE Invalidate(c) \/ Trim(c)
  <2>1. /\ entry' \in [Key -> Record \cup {NoEntry}]
        /\ index' \subseteq Key /\ lru' \in ZSet /\ lfu' \in ZSet
    BY <1>3, RemoveType DEF Invalidate, Trim
  <2> QED
    BY <1>1, <1>2, <1>3, <2>1 DEF Invalidate, Trim, TypeOK, settingsVars
<1>4. CASE ListSweep(c)
  <2>1. lru' \in ZSet /\ lfu' \in ZSet
    BY <1>4, ZRemType DEF ListSweep, TypeOK
  <2> QED
    BY <1>1, <1>2, <1>4, <2>1 DEF ListSweep, TypeOK, settingsVars
<1>5. CASE FlushExec(c)
  <2>1. lru' \in ZSet /\ lfu' \in ZSet
    BY <1>5, ZRemType DEF FlushExec, TypeOK
  <2>2. entry' \in [Key -> Record \cup {NoEntry}]
    BY <1>5, DelType DEF FlushExec
  <2> QED
    BY <1>1, <1>2, <1>5, <2>1, <2>2 DEF FlushExec, TypeOK, settingsVars
<1> QED
  BY <1>3, <1>4, <1>5

(* The other commands only take their client a step further, PatchWrite    *)
(* changes the settings as well.                                           *)
LEMMA EarlierCommandType ==
  ASSUME TypeOK, NEW c \in Client,
         \/ \E k \in Key, now \in 0 .. clock : Get(c, k, now)
         \/ List(c) \/ ListValues(c) \/ Flush(c)
         \/ \E patch \in Patch : PatchBegin(c, patch)
         \/ PatchReread(c)
  PROVE  TypeOK'
<1>1. UNCHANGED <<poolVars, settingsVars, clock, overtaken>>
  BY DEF Get, List, ListValues, Flush, PatchBegin, PatchReread
<1>2. client' \in [Client -> Busy \cup {Idle}]
  <2>1. CASE \E k \in Key, now \in 0 .. clock : Get(c, k, now)
    BY <2>1, ClientGoes DEF Get, Busy
  <2>2. CASE List(c) \/ Flush(c)
    <3>1. /\ [pc |-> "mget", members |-> index] \in Busy
          /\ [pc |-> "flush", members |-> index] \in Busy
      BY DEF Busy, TypeOK
    <3> QED
      BY <2>2, <3>1, ClientGoes DEF List, Flush
  <2>3. CASE ListValues(c)
    <3>1. [pc |-> "sweep", members |-> client[c].members \ Live] \in Busy
      BY <2>3, ClientStates DEF Busy, ListValues
    <3> QED
      BY <2>3, <3>1, ClientGoes DEF ListValues
  <2>4. CASE \E patch \in Patch : PatchBegin(c, patch)
    BY <2>4, ClientGoes DEF PatchBegin, Busy
  <2>5. CASE PatchReread(c)
    <3>1. Merge(settings, client[c].patch) \in Settings
      BY <2>5, ClientStates, MergeType DEF PatchReread, TypeOK
    <3>2. [pc |-> "hset", next |-> Merge(settings, client[c].patch),
           shrinks |-> client[c].shrinks] \in Busy
      BY <2>5, <3>1, ClientStates DEF PatchReread, Busy
    <3> QED
      BY <2>5, <3>2, ClientGoes DEF PatchReread
  <2> QED
    BY <2>1, <2>2, <2>3, <2>4, <2>5
<1> QED
  BY <1>1, <1>2 DEF TypeOK, poolVars, settingsVars

LEMMA PatchWriteType ==
  ASSUME TypeOK, NEW c \in Client, PatchWrite(c)
  PROVE  TypeOK'
<1>1. client[c] \in [pc : {"hset", "trim"}, next : Settings, shrinks : BOOLEAN]
  BY ClientStates DEF PatchWrite
<1>2. settings' \in Settings /\ configured' \subseteq Settings
  BY <1>1 DEF PatchWrite, TypeOK
<1>3. [client[c] EXCEPT !.pc = "trim"] \in Busy
  BY <1>1 DEF Busy
<1>4. client' \in [Client -> Busy \cup {Idle}]
  BY <1>3, ClientGoes DEF PatchWrite
<1> QED
  BY <1>2, <1>4 DEF PatchWrite, TypeOK, poolVars

(* Every reachable state has the types of TypeOK.                          *)
THEOREM TypeCorrect == Spec => []TypeOK
<1>1. Init => TypeOK
  <2> SUFFICES ASSUME Init PROVE TypeOK
    OBVIOUS
  <2>1. /\ entry \in [Key -> Record \cup {NoEntry}]
        /\ watermark \in [Key -> Version \cup {Nil}]
        /\ lru \in ZSet /\ lfu \in ZSet
    BY DEF Init, ZSet
  <2>2. client \in [Client -> Busy \cup {Idle}]
    BY DEF Init
  <2> QED
    BY <2>1, <2>2 DEF Init, TypeOK
<1>2. TypeOK /\ [Next]_vars => TypeOK'
  <2> SUFFICES ASSUME TypeOK, [Next]_vars PROVE TypeOK'
    OBVIOUS
  <2>1. CASE UNCHANGED vars
    BY <2>1 DEF TypeOK, vars
  <2>2. ASSUME NEW k \in Key, NEW v \in Version,
               PutCall(k, v) \/ InvalidateThroughVersion(k, v)
        PROVE  TypeOK'
    BY <2>2, PutType, FenceType
  <2>3. ASSUME NEW k \in Key, NEW now \in 0 .. clock, Touch(k, now)
        PROVE  TypeOK'
    BY <2>3, TouchType
  <2>4. ASSUME NEW k \in Key, Expire(k)
        PROVE  TypeOK'
    BY <2>4, ExpireType
  <2>5. CASE Tick
    BY <2>5, TickType
  <2>6. ASSUME NEW c \in Client,
               Invalidate(c) \/ ListSweep(c) \/ FlushExec(c) \/ Trim(c)
        PROVE  TypeOK'
    BY <2>6, LastCommandType
  <2>7. ASSUME NEW c \in Client,
               \/ \E k \in Key, now \in 0 .. clock : Get(c, k, now)
               \/ List(c) \/ ListValues(c) \/ Flush(c)
               \/ \E patch \in Patch : PatchBegin(c, patch)
               \/ PatchReread(c)
        PROVE  TypeOK'
    BY <2>7, EarlierCommandType
  <2>8. ASSUME NEW c \in Client, PatchWrite(c)
        PROVE  TypeOK'
    BY <2>8, PatchWriteType
  <2> QED
    BY <2>1, <2>2, <2>3, <2>4, <2>5, <2>6, <2>7, <2>8 DEF Next
<1> QED
  BY <1>1, <1>2, PTL DEF Spec

-----------------------------------------------------------------------------
(* The policy indexes.                                                     *)
LEMMA MembersZRem ==
  ASSUME NEW z, NEW gone
  PROVE  Members(ZRem(z, gone)) = Members(z) \ gone
BY DEF Members, ZRem

LEMMA MembersZAdd ==
  ASSUME NEW z \in ZSet, NEW k \in Key, NEW score \in Nat
  PROVE  Members([z EXCEPT ![k] = score]) = Members(z) \cup {k}
BY DEF Members, ZSet, Nil

LEMMA RemoveAgrees ==
  ASSUME PolicyIndexesAgree, NEW gone, Remove(gone)
  PROVE  PolicyIndexesAgree'
<1>1. Members(lru)' = Members(lru) \ gone /\ Members(lfu)' = Members(lfu) \ gone
  BY MembersZRem DEF Remove, Members
<1> QED
  BY <1>1 DEF PolicyIndexesAgree, Remove

LEMMA PutAgrees ==
  ASSUME TypeOK, PolicyIndexesAgree, NEW k \in Key, NEW v \in Version,
         PutCall(k, v)
  PROVE  PolicyIndexesAgree'
<1>1. PICK life \in Lifetime, now \in 0 .. clock, s \in configured :
        PutScript(k, v, life, now, s)
  BY DEF PutCall
<1>2. CASE Newer(k, v)
  BY <1>1, <1>2 DEF PutScript, poolVars, PolicyIndexesAgree, Members
<1>3. CASE ~Newer(k, v)
  <2> DEFINE gone == Dead \cup Victim(k, s)
  <2>1. /\ index' = (index \ gone) \cup {k}
        /\ lru' = [ZRem(lru, gone) EXCEPT ![k] = now]
        /\ lfu' = [ZRem(lfu, gone) EXCEPT ![k] = 0]
    BY <1>1, <1>3 DEF PutScript
  <2>2. now \in Nat /\ ZRem(lru, gone) \in ZSet /\ ZRem(lfu, gone) \in ZSet
    BY ZRemType DEF TypeOK
  <2>3. /\ Members(lru') = (Members(lru) \ gone) \cup {k}
        /\ Members(lfu') = (Members(lfu) \ gone) \cup {k}
    BY <2>1, <2>2, MembersZRem, MembersZAdd
  <2> QED
    BY <2>1, <2>3 DEF PolicyIndexesAgree, Members
<1> QED
  BY <1>2, <1>3

LEMMA TouchAgrees ==
  ASSUME TypeOK, PolicyIndexesAgree, NEW k \in Key, NEW now \in 0 .. clock,
         Touch(k, now)
  PROVE  PolicyIndexesAgree'
<1> DEFINE hits == IF lfu[k] = Nil THEN 1 ELSE lfu[k] + 1
<1>1. now \in Nat /\ hits \in Nat
  BY DEF TypeOK, ZSet, Nil
<1>2. lru' = [lru EXCEPT ![k] = now] /\ lfu' = [lfu EXCEPT ![k] = hits]
  BY DEF Touch
<1>3. Members(lru') = Members(lru) \cup {k} /\ Members(lfu') = Members(lfu) \cup {k}
  BY <1>1, <1>2, MembersZAdd DEF TypeOK
<1> QED
  BY <1>3 DEF PolicyIndexesAgree, Members, Touch

(* Sweeping and flushing take the same names out of all three.             *)
LEMMA SweepAgrees ==
  ASSUME TypeOK, PolicyIndexesAgree, NEW c \in Client,
         ListSweep(c) \/ FlushExec(c)
  PROVE  PolicyIndexesAgree'
<1> DEFINE gone == IF client[c].pc = "sweep" THEN client[c].members ELSE Key
<1>1. /\ index' = index \ gone
      /\ lru' = ZRem(lru, gone) /\ lfu' = ZRem(lfu, gone)
  BY DEF ListSweep, FlushExec, TypeOK
<1>2. Members(lru') = Members(lru) \ gone /\ Members(lfu') = Members(lfu) \ gone
  BY <1>1, MembersZRem
<1> QED
  BY <1>1, <1>2 DEF PolicyIndexesAgree, Members

(* The two policy indexes name the same keys, and every member of the set  *)
(* of members among them.                                                  *)
THEOREM IndexesAlwaysAgree == Spec => []PolicyIndexesAgree
<1>1. Init => PolicyIndexesAgree
  BY DEF Init, PolicyIndexesAgree, Members
<1>2. TypeOK /\ PolicyIndexesAgree /\ [Next]_vars => PolicyIndexesAgree'
  <2> SUFFICES ASSUME TypeOK, PolicyIndexesAgree, [Next]_vars
               PROVE  PolicyIndexesAgree'
    OBVIOUS
  <2>1. ASSUME UNCHANGED <<index, lru, lfu>>
        PROVE  PolicyIndexesAgree'
    BY <2>1 DEF PolicyIndexesAgree, Members
  <2>2. CASE UNCHANGED vars
    BY <2>1, <2>2 DEF vars
  <2>3. ASSUME NEW k \in Key, NEW v \in Version, PutCall(k, v)
        PROVE  PolicyIndexesAgree'
    BY <2>3, PutAgrees
  <2>4. ASSUME NEW k \in Key, NEW v \in Version, InvalidateThroughVersion(k, v)
        PROVE  PolicyIndexesAgree'
    BY <2>1, <2>4, RemoveAgrees DEF InvalidateThroughVersion
  <2>5. ASSUME NEW k \in Key, NEW now \in 0 .. clock, Touch(k, now)
        PROVE  PolicyIndexesAgree'
    BY <2>5, TouchAgrees
  <2>6. ASSUME NEW k \in Key, Expire(k)
        PROVE  PolicyIndexesAgree'
    BY <2>1, <2>6 DEF Expire
  <2>7. CASE Tick
    BY <2>1, <2>7 DEF Tick, poolVars
  <2>8. ASSUME NEW c \in Client, Invalidate(c) \/ Trim(c)
        PROVE  PolicyIndexesAgree'
    BY <2>8, RemoveAgrees DEF Invalidate, Trim
  <2>9. ASSUME NEW c \in Client, ListSweep(c) \/ FlushExec(c)
        PROVE  PolicyIndexesAgree'
    BY <2>9, SweepAgrees
  <2>10. ASSUME NEW c \in Client,
                \/ \E k \in Key, now \in 0 .. clock : Get(c, k, now)
                \/ List(c) \/ ListValues(c) \/ Flush(c)
                \/ \E patch \in Patch : PatchBegin(c, patch)
                \/ PatchReread(c) \/ PatchWrite(c)
         PROVE  PolicyIndexesAgree'
    <3>1. UNCHANGED <<index, lru, lfu>>
      BY <2>10 DEF Get, List, ListValues, Flush, PatchBegin, PatchReread,
                   PatchWrite, poolVars
    <3> QED
      BY <2>1, <3>1
  <2> QED
    BY <2>2, <2>3, <2>4, <2>5, <2>6, <2>7, <2>8, <2>9, <2>10 DEF Next
<1> QED
  BY <1>1, <1>2, TypeCorrect, PTL DEF Spec

-----------------------------------------------------------------------------
(* The refinement of VersionedCache.                                       *)
Cached == [k \in Key |-> entry[k].version]

LEMMA VersionsOf ==
  ASSUME TypeOK, NEW k \in Key
  PROVE  /\ entry[k].version \in Version \cup {Nil}
         /\ entry[k] = NoEntry <=> entry[k].version = Nil
<1>1. CASE entry[k] = NoEntry
  BY <1>1 DEF NoEntry
<1>2. CASE entry[k] # NoEntry
  <2>1. entry[k] \in Record
    BY <1>2 DEF TypeOK
  <2> QED
    BY <1>2, <2>1, CacheStoreAssumption DEF Record, Nil
<1> QED
  BY <1>1, <1>2

LEMMA VersionIsInteger ==
  ASSUME NEW v \in Version \cup {Nil}
  PROVE  v \in Int
<1>1. CASE v \in Version
  BY <1>1, CacheStoreAssumption
<1>2. CASE v = Nil
  BY <1>2 DEF Nil
<1> QED
  BY <1>1, <1>2

LEMMA DelDrops ==
  ASSUME NEW gone, entry' = Del(gone)
  PROVE  Cached' = [k \in Key |-> IF k \in gone THEN Nil ELSE entry[k].version]
BY DEF Cached, Del, NoEntry

(* A put is a put of the abstract cache that costs the keys it removed.    *)
LEMMA PutRefines ==
  ASSUME TypeOK, NEW k \in Key, NEW v \in Version, PutCall(k, v)
  PROVE  Abstract!Put(k, v) \/ UNCHANGED <<Cached, watermark>>
<1>1. PICK life \in Lifetime, now \in 0 .. clock, s \in configured :
        PutScript(k, v, life, now, s)
  BY DEF PutCall
<1>2. CASE Newer(k, v)
  BY <1>1, <1>2 DEF PutScript, poolVars, Cached
<1>3. CASE ~Newer(k, v)
  <2> DEFINE gone == Dead \cup Victim(k, s)
             lost == (gone \cap Key) \ {k}
  <2>1. /\ entry' = [Del(gone) EXCEPT ![k] = NewRecord(v, life, now)]
        /\ watermark' = RaisedFence(k, v)
    BY <1>1, <1>3 DEF PutScript
  <2>2. Cached' = [j \in Key |-> IF j = k THEN v ELSE IF j \in lost THEN Nil
                                 ELSE entry[j].version]
    BY <2>1 DEF Cached, Del, NoEntry, NewRecord
  <2>3. Cached' = [Abstract!WithoutEntries(lost) EXCEPT ![k] = v]
    BY <2>2 DEF Abstract!WithoutEntries, Abstract!Nil, Nil
  <2>4. Abstract!Admits(k, v)
    <3>1. /\ watermark[k] \in Version \cup {Nil}
          /\ entry[k].version \in Version \cup {Nil}
      BY VersionsOf DEF TypeOK
    <3>2. watermark[k] \in Int /\ entry[k].version \in Int /\ v \in Int
      BY <3>1, VersionIsInteger
    <3>3. ~(watermark[k] > v) /\ ~(entry[k].version > v)
      BY <1>3 DEF Newer
    <3> QED
      BY <3>2, <3>3 DEF Abstract!Admits
  <2>5. watermark' = Abstract!RaisedFence(k, v)
    BY <2>1 DEF RaisedFence, Abstract!RaisedFence
  <2>6. lost \in SUBSET (Key \ {k})
    OBVIOUS
  <2> QED
    BY <2>3, <2>4, <2>5, <2>6 DEF Abstract!Put, Abstract!Store, Cached
<1> QED
  BY <1>2, <1>3

LEMMA FenceRefines ==
  ASSUME TypeOK, NEW k \in Key, NEW v \in Version,
         InvalidateThroughVersion(k, v)
  PROVE  Abstract!InvalidateThrough(k, v)
<1>1. watermark' = Abstract!RaisedFence(k, v)
  BY DEF InvalidateThroughVersion, RaisedFence, Abstract!RaisedFence
<1>2. v \in Nat
  BY CacheStoreAssumption
<1>3. CASE entry[k] # NoEntry /\ entry[k].version <= v
  <2>1. entry' = Del({k})
    BY <1>3 DEF InvalidateThroughVersion, Remove
  <2>2. Cached' = Abstract!WithoutEntries({k})
    BY <2>1, DelDrops DEF Abstract!WithoutEntries, Abstract!Nil, Nil
  <2> QED
    BY <1>1, <1>3, <2>2 DEF Abstract!InvalidateThrough, Cached
<1>4. CASE ~(entry[k] # NoEntry /\ entry[k].version <= v)
  <2>1. Cached' = Cached
    BY <1>4 DEF InvalidateThroughVersion, Cached
  <2>2. CASE entry[k] = NoEntry
    <3>1. Cached[k] = Nil
      BY <2>2 DEF Cached, NoEntry
    <3>2. Abstract!WithoutEntries({k}) = Cached
      BY <3>1 DEF Abstract!WithoutEntries, Abstract!Nil, Nil, Cached
    <3> QED
      BY <1>1, <2>1, <3>2 DEF Abstract!InvalidateThrough, Cached
  <2>3. CASE entry[k] # NoEntry
    <3>1. ~(entry[k].version <= v)
      BY <1>4, <2>3
    <3> QED
      BY <1>1, <2>1, <3>1 DEF Abstract!InvalidateThrough, Cached
  <2> QED
    BY <2>2, <2>3
<1> QED
  BY <1>3, <1>4

(* The pool keeps the promises of VersionedCache.                          *)
THEOREM PoolImplementsVersionedCache == Spec => ImplementsVersionedCache
<1>1. Init => Abstract!CacheInit
  BY DEF Init, Abstract!CacheInit, Abstract!Nil, Nil, NoEntry
<1>2. TypeOK /\ [Next]_vars => [Abstract!CacheNext]_(Abstract!cacheVars)
  <2> SUFFICES ASSUME TypeOK, [Next]_vars
               PROVE  Abstract!CacheNext \/ UNCHANGED <<Cached, watermark>>
    BY DEF Abstract!cacheVars, Cached
  <2>1. ASSUME UNCHANGED <<entry, watermark>>
        PROVE  UNCHANGED <<Cached, watermark>>
    BY <2>1 DEF Cached
  <2>2. CASE UNCHANGED vars
    BY <2>1, <2>2 DEF vars
  <2>3. ASSUME NEW k \in Key, NEW v \in Version,
               PutCall(k, v) \/ InvalidateThroughVersion(k, v)
        PROVE  Abstract!CacheNext \/ UNCHANGED <<Cached, watermark>>
    BY <2>3, PutRefines, FenceRefines DEF Abstract!CacheNext
  <2>4. ASSUME NEW k \in Key, NEW now \in 0 .. clock, Touch(k, now)
        PROVE  UNCHANGED <<Cached, watermark>>
    <3>1. entry[k] \in Record
      BY <2>4 DEF Touch, TypeOK
    <3>2. Touched(entry[k], now).version = entry[k].version
      BY <3>1 DEF Touched, Record
    <3> QED
      BY <2>4, <3>2 DEF Touch, Cached, TypeOK
  <2>5. ASSUME NEW gone, entry' = Del(gone), UNCHANGED watermark
        PROVE  Abstract!CacheNext
    <3> DEFINE lost == gone \cap Key
    <3>1. Cached' = Abstract!WithoutEntries(lost)
      BY <2>5, DelDrops DEF Abstract!WithoutEntries, Abstract!Nil, Nil
    <3>2. Abstract!Drop(lost)
      BY <2>5, <3>1 DEF Abstract!Drop, Cached
    <3> QED
      BY <3>2 DEF Abstract!CacheNext
  <2>6. ASSUME NEW k \in Key, Expire(k)
        PROVE  Abstract!CacheNext
    BY <2>5, <2>6 DEF Expire
  <2>7. CASE Tick
    BY <2>1, <2>7 DEF Tick, poolVars
  <2>8. ASSUME NEW c \in Client, Invalidate(c) \/ Trim(c)
        PROVE  Abstract!CacheNext
    BY <2>5, <2>8 DEF Invalidate, Trim, Remove
  <2>9. ASSUME NEW c \in Client, FlushExec(c)
        PROVE  Abstract!CacheNext
    <3>1. PICK seen \in SUBSET Key : seen = client[c].members
      BY <2>9, ClientStates DEF FlushExec
    <3>2. Cached' = Abstract!WithoutEntries(seen)
      BY <2>9, <3>1, DelDrops DEF FlushExec, Abstract!WithoutEntries, Abstract!Nil, Nil
    <3>3. Abstract!Clear(seen)
      BY <2>9, <3>2 DEF FlushExec, Abstract!Clear, Abstract!Nil, Nil, Cached
    <3> QED
      BY <3>3 DEF Abstract!CacheNext
  <2>10. ASSUME NEW c \in Client,
                \/ \E k \in Key, now \in 0 .. clock : Get(c, k, now)
                \/ List(c) \/ ListValues(c) \/ ListSweep(c) \/ Flush(c)
                \/ \E patch \in Patch : PatchBegin(c, patch)
                \/ PatchReread(c) \/ PatchWrite(c)
         PROVE  UNCHANGED <<Cached, watermark>>
    <3>1. UNCHANGED <<entry, watermark>>
      BY <2>10 DEF Get, List, ListValues, ListSweep, Flush, PatchBegin,
                   PatchReread, PatchWrite, poolVars
    <3> QED
      BY <2>1, <3>1
  <2> QED
    BY <2>2, <2>3, <2>4, <2>6, <2>7, <2>8, <2>9, <2>10 DEF Next
<1> QED
  BY <1>1, <1>2, TypeCorrect, PTL
     DEF Spec, ImplementsVersionedCache, Abstract!CacheSpec

-----------------------------------------------------------------------------
(* The index is exact.  What makes it inductive: as long as no put has     *)
(* overtaken a client, a sweep takes no live entry and a flush all of them.*)
WindowsHarmless ==
  \A c \in Client :
    /\ client[c].pc = "sweep" => client[c].members \cap Live = {}
    /\ client[c].pc = "flush" => Live \subseteq client[c].members

ExactInv == IndexExact /\ (~overtaken => WindowsHarmless)

ScoresExact(k) == lru[k] = entry[k].lastAccessedAt /\ lfu[k] = entry[k].hits

LEMMA ExactInvMeans ==
  ExactInv <=>
    (~overtaken => /\ Live \subseteq index
                   /\ Members(lru) = index
                   /\ \A k \in Live : ScoresExact(k)
                   /\ WindowsHarmless)
BY DEF ExactInv, IndexExact, ScoresExact

(* Entries that leave together with their names.                           *)
LEMMA RemovalExact ==
  ASSUME TypeOK, ExactInv, NEW gone,
         entry' = Del(gone) \/ (entry' = entry /\ gone \cap Live = {} /\ ~overtaken),
         \/ /\ index' = index \ gone
            /\ lru' = ZRem(lru, gone) /\ lfu' = ZRem(lfu, gone)
         \/ UNCHANGED <<index, lru, lfu>>,
         \A c \in Client : \/ client'[c] = client[c]
                           \/ client'[c].pc \notin {"sweep", "flush"},
         overtaken' = overtaken
  PROVE  ExactInv'
<1> SUFFICES ASSUME ~overtaken
             PROVE  /\ Live' \subseteq index'
                    /\ Members(lru') = index'
                    /\ \A k \in Live' : ScoresExact(k)'
                    /\ WindowsHarmless'
  BY DEF ExactInv, IndexExact, ScoresExact, Members
<1>1. /\ Live \subseteq index
      /\ Members(lru) = index
      /\ \A k \in Live : ScoresExact(k)
      /\ WindowsHarmless
  BY ExactInvMeans
<1>2. /\ Live' = Live \ gone
      /\ \A k \in Live' : entry'[k] = entry[k]
  BY DEF Live, Del, TypeOK
<1>3. Live' \subseteq index'
  BY <1>1, <1>2
<1>4. Members(lru') = index'
  BY <1>1, MembersZRem DEF Members
<1>5. \A k \in Live' : ScoresExact(k)'
  <2> SUFFICES ASSUME NEW k \in Live' PROVE ScoresExact(k)'
    OBVIOUS
  <2>1. k \in Key /\ k \in Live /\ k \notin gone
    BY <1>2 DEF Live
  <2>2. lru'[k] = lru[k] /\ lfu'[k] = lfu[k]
    BY <2>1 DEF ZRem
  <2> QED
    BY <1>1, <1>2, <2>1, <2>2 DEF ScoresExact
<1>6. WindowsHarmless'
  BY <1>1, <1>2 DEF WindowsHarmless
<1> QED
  BY <1>3, <1>4, <1>5, <1>6

LEMMA PutExact ==
  ASSUME TypeOK, PolicyIndexesAgree, ExactInv, NEW k \in Key, NEW v \in Version,
         PutCall(k, v)
  PROVE  ExactInv'
<1>1. PICK life \in Lifetime, now \in 0 .. clock, s \in configured :
        PutScript(k, v, life, now, s)
  BY DEF PutCall
<1>2. client' = client
  BY DEF PutCall
<1>3. CASE Newer(k, v)
  BY <1>1, <1>2, <1>3 DEF PutScript, poolVars, ExactInv, IndexExact,
                          WindowsHarmless, Live, Members
<1>4. CASE ~Newer(k, v)
  <2> DEFINE gone == Dead \cup Victim(k, s)
             new == NewRecord(v, life, now)
  <2>1. /\ entry' = [Del(gone) EXCEPT ![k] = new]
        /\ index' = (index \ gone) \cup {k}
        /\ lru' = [ZRem(lru, gone) EXCEPT ![k] = now]
        /\ lfu' = [ZRem(lfu, gone) EXCEPT ![k] = 0]
        /\ overtaken' = (overtaken \/ Overtakes(k))
    BY <1>1, <1>4 DEF PutScript
  <2> SUFFICES ASSUME ~overtaken, ~Overtakes(k)
               PROVE  /\ Live' \subseteq index'
                      /\ Members(lru') = index'
                      /\ \A j \in Live' : ScoresExact(j)'
                      /\ WindowsHarmless'
    BY <2>1 DEF ExactInv, IndexExact, ScoresExact, Members, TypeOK
  <2>2. /\ Live \subseteq index
        /\ Members(lru) = index
        /\ \A j \in Live : ScoresExact(j)
        /\ WindowsHarmless
    BY ExactInvMeans
  <2>3. now \in Nat /\ ZRem(lru, gone) \in ZSet /\ ZRem(lfu, gone) \in ZSet
    BY ZRemType DEF TypeOK
  <2>4. new # NoEntry /\ new.lastAccessedAt = now /\ new.hits = 0
    <3>1. new.version = v /\ v # Nil
      BY CacheStoreAssumption DEF NewRecord, Nil
    <3> QED
      BY <3>1 DEF NewRecord, NoEntry
  <2>5. /\ entry'[k] = new
        /\ \A j \in Key \ {k} : entry'[j] = IF j \in gone THEN NoEntry ELSE entry[j]
    BY <2>1 DEF Del
  <2>6. Live' = (Live \ gone) \cup {k}
    BY <2>4, <2>5 DEF Live
  <2>7. Live' \subseteq index'
    BY <2>1, <2>2, <2>6
  <2>8. Members(lru') = index'
    BY <2>1, <2>2, <2>3, MembersZRem, MembersZAdd
  <2>9. ASSUME NEW j \in Live' PROVE ScoresExact(j)'
    <3>1. CASE j = k
      BY <2>1, <2>3, <2>4, <2>5, <3>1 DEF ScoresExact, ZSet
    <3>2. CASE j # k
      <4>1. j \in Key /\ j \in Live /\ j \notin gone /\ entry'[j] = entry[j]
        BY <2>5, <2>6, <3>2 DEF Live
      <4>2. lru'[j] = lru[j] /\ lfu'[j] = lfu[j]
        BY <2>1, <2>3, <3>2, <4>1 DEF ZRem
      <4> QED
        BY <2>2, <4>1, <4>2 DEF ScoresExact
    <3> QED
      BY <3>1, <3>2
  <2>10. WindowsHarmless'
    BY <1>2, <2>2, <2>6 DEF WindowsHarmless, Overtakes
  <2> QED
    BY <2>7, <2>8, <2>9, <2>10
<1> QED
  BY <1>3, <1>4

LEMMA TouchExact ==
  ASSUME TypeOK, ExactInv, NEW k \in Key, NEW now \in 0 .. clock, Touch(k, now)
  PROVE  ExactInv'
<1> SUFFICES ASSUME ~overtaken
             PROVE  /\ Live' \subseteq index'
                    /\ Members(lru') = index'
                    /\ \A j \in Live' : ScoresExact(j)'
                    /\ WindowsHarmless'
  BY DEF ExactInv, IndexExact, ScoresExact, Members, Touch
<1>1. /\ Live \subseteq index
      /\ Members(lru) = index
      /\ \A j \in Live : ScoresExact(j)
      /\ WindowsHarmless
  BY ExactInvMeans
<1>2. /\ now \in Nat /\ entry[k] \in Record /\ k \in Live
      /\ lru \in ZSet /\ lfu \in ZSet
  BY DEF TypeOK, Touch, Live
<1>3. lfu[k] = entry[k].hits /\ entry[k].hits \in Nat
  BY <1>1, <1>2 DEF ScoresExact, Record
<1> DEFINE new == Touched(entry[k], now)
<1>4. new.hits = entry[k].hits + 1 /\ new.lastAccessedAt = now /\ new \in Record
  BY <1>2, TouchedType DEF Touched, Record
<1>5. new # NoEntry
  BY <1>4, CacheStoreAssumption DEF NoEntry, Record, Nil
<1>6. /\ lru' = [lru EXCEPT ![k] = now]
      /\ lfu' = [lfu EXCEPT ![k] = entry[k].hits + 1]
      /\ entry' = [entry EXCEPT ![k] = new]
      /\ UNCHANGED <<index, client>>
  <2>1. lfu[k] # Nil
    BY <1>3 DEF Nil
  <2> QED
    BY <1>3, <2>1 DEF Touch
<1>7. Live' = Live
  BY <1>2, <1>5, <1>6 DEF Live, TypeOK
<1>8. Members(lru') = index'
  <2>1. Members([lru EXCEPT ![k] = now]) = Members(lru) \cup {k}
    BY <1>2, MembersZAdd
  <2> QED
    BY <1>1, <1>2, <1>6, <2>1
<1>9. \A j \in Live' : ScoresExact(j)'
  BY <1>1, <1>2, <1>4, <1>6, <1>7 DEF ScoresExact, ZSet, TypeOK, Live
<1> QED
  BY <1>1, <1>6, <1>7, <1>8, <1>9 DEF WindowsHarmless

(* A command that leaves the pool alone, and a client that does not start  *)
(* to hold a stale read by it.                                             *)
LEMMA PoolUnchangedExact ==
  ASSUME ExactInv, UNCHANGED poolVars, UNCHANGED overtaken,
         \A c \in Client :
           \/ client'[c] = client[c]
           \/ client'[c].pc \notin {"sweep", "flush"}
           \/ client'[c].pc = "sweep" /\ client'[c].members \cap Live = {}
           \/ client'[c].pc = "flush" /\ client'[c].members = index
  PROVE  ExactInv'
<1> SUFFICES ASSUME ~overtaken
             PROVE  /\ Live' \subseteq index'
                    /\ Members(lru') = index'
                    /\ \A j \in Live' : ScoresExact(j)'
                    /\ WindowsHarmless'
  BY DEF ExactInv, IndexExact, ScoresExact, Members
<1>1. /\ Live \subseteq index
      /\ Members(lru) = index
      /\ \A j \in Live : ScoresExact(j)
      /\ WindowsHarmless
  BY ExactInvMeans
<1>2. Live' = Live /\ UNCHANGED <<entry, index, lru, lfu>>
  BY DEF Live, poolVars
<1>3. WindowsHarmless'
  BY <1>1, <1>2 DEF WindowsHarmless
<1> QED
  BY <1>1, <1>2, <1>3 DEF ScoresExact, Members

LEMMA OthersKeep ==
  ASSUME TypeOK, NEW c \in Client, NEW state, Goes(c, state)
  PROVE  /\ client'[c] = state
         /\ \A d \in Client \ {c} : client'[d] = client[d]
BY DEF Goes, TypeOK

LEMMA ClientStepExact ==
  ASSUME TypeOK, ExactInv, NEW c \in Client,
         \/ \E k \in Key, now \in 0 .. clock : Get(c, k, now)
         \/ List(c) \/ ListValues(c) \/ Flush(c)
         \/ \E patch \in Patch : PatchBegin(c, patch)
         \/ PatchReread(c) \/ PatchWrite(c)
  PROVE  ExactInv'
<1>1. UNCHANGED poolVars /\ UNCHANGED overtaken
  BY DEF Get, List, ListValues, Flush, PatchBegin, PatchReread, PatchWrite
<1>2. CASE \/ \E k \in Key, now \in 0 .. clock : Get(c, k, now)
           \/ \E patch \in Patch : PatchBegin(c, patch)
           \/ PatchReread(c) \/ List(c)
  <2>1. \A d \in Client \ {c} : client'[d] = client[d]
    BY <1>2 DEF Get, PatchBegin, PatchReread, List, Goes, TypeOK
  <2>2. client'[c].pc \in {"invalidate", "reread", "hset", "mget"}
    BY <1>2 DEF Get, PatchBegin, PatchReread, List, Goes, TypeOK
  <2> QED
    BY <1>1, <2>1, <2>2, PoolUnchangedExact
<1>3. CASE ListValues(c)
  <2>1. PICK state : /\ Goes(c, state)
                     /\ \/ state.pc = "idle"
                        \/ state.pc = "sweep" /\ state.members \cap Live = {}
    BY <1>3 DEF ListValues, Idle
  <2> QED
    BY <1>1, <2>1, OthersKeep, PoolUnchangedExact
<1>4. CASE Flush(c)
  <2>1. PICK state : Goes(c, state) /\ state.pc = "flush" /\ state.members = index
    BY <1>4 DEF Flush
  <2> QED
    BY <1>1, <2>1, OthersKeep, PoolUnchangedExact
<1>5. CASE PatchWrite(c)
  <2>1. client[c] \in [pc : {"hset", "trim"}, next : Settings, shrinks : BOOLEAN]
    BY <1>5, ClientStates DEF PatchWrite
  <2>2. PICK state : Goes(c, state) /\ state.pc \in {"idle", "trim"}
    BY <1>5, <2>1 DEF PatchWrite, Idle
  <2> QED
    BY <1>1, <2>2, OthersKeep, PoolUnchangedExact
<1> QED
  BY <1>2, <1>3, <1>4, <1>5

LEMMA LastCommandExact ==
  ASSUME TypeOK, ExactInv, NEW c \in Client,
         Invalidate(c) \/ ListSweep(c) \/ FlushExec(c) \/ Trim(c)
  PROVE  ExactInv'
<1>1. /\ client'[c].pc = "idle"
      /\ \A d \in Client \ {c} : client'[d] = client[d]
      /\ overtaken' = overtaken
  BY OthersKeep DEF Invalidate, ListSweep, FlushExec, Trim, Idle
<1>2. CASE Invalidate(c) \/ Trim(c)
  <2>1. PICK gone : Remove(gone)
    BY <1>2 DEF Invalidate, Trim
  <2> QED
    BY <1>1, <2>1, RemovalExact DEF Remove
<1>3. CASE ListSweep(c)
  <2>1. CASE overtaken
    BY <1>1, <2>1 DEF ExactInv, IndexExact
  <2>2. CASE ~overtaken
    <3>1. PICK gone : gone = client[c].members
      OBVIOUS
    <3>2. gone \cap Live = {}
      BY <1>3, <2>2, <3>1 DEF ExactInv, WindowsHarmless, ListSweep
    <3>3. /\ entry' = entry /\ index' = index \ gone
          /\ lru' = ZRem(lru, gone) /\ lfu' = ZRem(lfu, gone)
      BY <1>3, <3>1 DEF ListSweep
    <3> QED
      BY <1>1, <2>2, <3>2, <3>3, RemovalExact
  <2> QED
    BY <2>1, <2>2
<1>4. CASE FlushExec(c)
  <2>1. CASE overtaken
    BY <1>1, <2>1 DEF ExactInv, IndexExact
  <2>2. CASE ~overtaken
    <3>1. Live \subseteq client[c].members
      BY <1>4, <2>2 DEF ExactInv, WindowsHarmless, FlushExec
    <3>2. entry' = Del(Key)
      BY <1>4, <3>1 DEF FlushExec, Del, Live
    <3>3. /\ index' = index \ Key
          /\ lru' = ZRem(lru, Key) /\ lfu' = ZRem(lfu, Key)
      BY <1>4 DEF FlushExec, TypeOK
    <3> QED
      BY <1>1, <3>2, <3>3, RemovalExact
  <2> QED
    BY <2>1, <2>2
<1> QED
  BY <1>2, <1>3, <1>4

LEMMA ExactStep ==
  ASSUME TypeOK, PolicyIndexesAgree, ExactInv, [Next]_vars
  PROVE  ExactInv'
<1>1. ASSUME UNCHANGED <<poolVars, client, overtaken>>
      PROVE  ExactInv'
  BY <1>1, PoolUnchangedExact
<1>2. CASE UNCHANGED vars
  BY <1>1, <1>2 DEF vars, poolVars
<1>3. ASSUME NEW k \in Key, NEW v \in Version, PutCall(k, v)
      PROVE  ExactInv'
  BY <1>3, PutExact
<1>4. ASSUME NEW k \in Key, NEW v \in Version, InvalidateThroughVersion(k, v)
      PROVE  ExactInv'
  <2>1. client' = client /\ overtaken' = overtaken
    BY <1>4 DEF InvalidateThroughVersion
  <2>2. CASE Remove({k})
    BY <2>1, <2>2, RemovalExact DEF Remove
  <2>3. CASE UNCHANGED <<entry, index, lru, lfu>>
    BY <2>1, <2>3 DEF ExactInv, IndexExact, WindowsHarmless, Live, Members
  <2> QED
    BY <1>4, <2>2, <2>3 DEF InvalidateThroughVersion
<1>5. ASSUME NEW k \in Key, NEW now \in 0 .. clock, Touch(k, now)
      PROVE  ExactInv'
  BY <1>5, TouchExact
<1>6. ASSUME NEW k \in Key, Expire(k)
      PROVE  ExactInv'
  BY <1>6, RemovalExact DEF Expire
<1>7. CASE Tick
  BY <1>1, <1>7 DEF Tick
<1>8. ASSUME NEW c \in Client,
             Invalidate(c) \/ ListSweep(c) \/ FlushExec(c) \/ Trim(c)
      PROVE  ExactInv'
  BY <1>8, LastCommandExact
<1>9. ASSUME NEW c \in Client,
             \/ \E k \in Key, now \in 0 .. clock : Get(c, k, now)
             \/ List(c) \/ ListValues(c) \/ Flush(c)
             \/ \E patch \in Patch : PatchBegin(c, patch)
             \/ PatchReread(c) \/ PatchWrite(c)
      PROVE  ExactInv'
  BY <1>9, ClientStepExact
<1> QED
  BY <1>2, <1>3, <1>4, <1>5, <1>6, <1>7, <1>8, <1>9 DEF Next

LEMMA ExactAlways == Spec => []ExactInv
<1>1. Init => ExactInv
  BY DEF Init, ExactInv, IndexExact, WindowsHarmless, Live, Members, Idle
<1>2. TypeOK /\ PolicyIndexesAgree /\ ExactInv /\ [Next]_vars => ExactInv'
  BY ExactStep
<1> QED
  BY <1>1, <1>2, TypeCorrect, IndexesAlwaysAgree, PTL DEF Spec

(* As long as no put has overtaken a list or a flush, the index has every  *)
(* live entry and the policy indexes their exact scores.                   *)
THEOREM IndexStaysExact == Spec => []IndexExact
<1>1. ExactInv => IndexExact
  BY DEF ExactInv
<1> QED
  BY <1>1, ExactAlways, PTL

-----------------------------------------------------------------------------
(* Some key of a set of members of a sorted set comes before all others.   *)
LEMMA FirstExists ==
  ASSUME NEW z \in ZSet, NEW S, S \subseteq Members(z), S # {}
  PROVE  \E k \in S : \A j \in S : ~Before(z, j, k)
<1>1. /\ \A k \in S : k \in Nat /\ z[k] \in Nat
      /\ {z[k] : k \in S} \subseteq Nat /\ {z[k] : k \in S} # {}
  <2>1. Key \subseteq Nat
    BY CacheStoreAssumption
  <2>2. \A k \in S : k \in Nat /\ z[k] \in Nat
    BY <2>1 DEF Members, ZSet
  <2> QED
    BY <2>2
<1>2. PICK score \in {z[k] : k \in S} : \A n \in {z[k] : k \in S} : score <= n
  BY <1>1, NatMinimum
<1> DEFINE T == {k \in S : z[k] = score}
<1>3. T \subseteq Nat /\ T # {}
  BY <1>1, <1>2
<1>4. PICK k \in T : \A j \in T : k <= j
  BY <1>3, NatMinimum
<1>5. ASSUME NEW j \in S PROVE ~Before(z, j, k)
  <2>1. z[k] = score /\ score <= z[j] /\ z[j] \in Nat /\ z[k] \in Nat
    BY <1>1, <1>2, <1>4
  <2>2. z[j] = z[k] => k <= j
    BY <1>4, <2>1
  <2>3. j \in Nat /\ k \in Nat
    BY <1>1, <1>4
  <2> QED
    BY <2>1, <2>2, <2>3 DEF Before
<1> QED
  BY <1>4, <1>5

LEMMA HeadIsFirst ==
  ASSUME NEW z \in ZSet, Members(z) # {}
  PROVE  \E k \in Members(z) : Head(z) = {k}
<1>1. PICK k \in Members(z) : \A j \in Members(z) : ~Before(z, j, k)
  BY FirstExists
<1>2. ASSUME NEW j \in Head(z) PROVE j = k
  <2>1. /\ j \in Members(z) /\ ~Before(z, j, k) /\ ~Before(z, k, j)
    BY <1>1, <1>2 DEF Head
  <2>2. /\ j \in Nat /\ k \in Nat /\ z[j] \in Nat /\ z[k] \in Nat
    BY <1>1, <2>1, CacheStoreAssumption DEF Members, ZSet
  <2> QED
    BY <2>1, <2>2 DEF Before
<1> QED
  BY <1>1, <1>2 DEF Head

LEMMA PolicyIndexType ==
  ASSUME TypeOK, NEW policy
  PROVE  PolicyIndex(policy) \in ZSet
BY DEF TypeOK, PolicyIndex

LEMMA PolicyMembers ==
  ASSUME PolicyIndexesAgree, NEW policy
  PROVE  Members(PolicyIndex(policy)) = Members(lru)
BY DEF PolicyIndexesAgree, PolicyIndex

LEMMA PoolFinite ==
  ASSUME NEW S, S \subseteq Key
  PROVE  IsFiniteSet(S) /\ Cardinality(S) \in Nat
<1>1. IsFiniteSet(S)
  BY CacheStoreAssumption, FS_Subset
<1> QED
  BY <1>1, FS_CardinalityType

(* A full pool of exact indexes gives up one live entry.                   *)
LEMMA VictimIsOne ==
  ASSUME TypeOK, PolicyIndexesAgree, ExactInv, ~overtaken,
         NEW k \in Key, NEW s \in configured
  PROVE  /\ index \ Dead = Live
         /\ k \notin Live /\ Cardinality(Live) >= s.capacity =>
              \E x \in Live :
                /\ Victim(k, s) = {x}
                /\ RankedLowest(x, s.eviction)
         /\ ~(k \notin Live /\ Cardinality(Live) >= s.capacity) =>
              Victim(k, s) = {}
<1> DEFINE policy == PolicyIndex(s.eviction)
           z == ZRem(policy, Dead)
<1>1. /\ Live \subseteq index /\ Members(lru) = index
      /\ \A j \in Live : ScoresExact(j)
  BY ExactInvMeans
<1>2. index \ Dead = Live
  BY <1>1 DEF Dead, Live, TypeOK
<1>3. Members(z) = Live
  BY <1>1, <1>2, MembersZRem, PolicyMembers
<1>4. z \in ZSet
  BY PolicyIndexType, ZRemType
<1>5. ASSUME k \notin Live, Cardinality(Live) >= s.capacity
      PROVE  \E x \in Live : Victim(k, s) = {x} /\ RankedLowest(x, s.eviction)
  <2>1. Victim(k, s) = Head(z)
    BY <1>2, <1>5 DEF Victim
  <2>2. s.capacity \in Nat /\ s.capacity # 0
    BY CacheStoreAssumption DEF TypeOK, Settings
  <2>3. Live # {}
    BY <1>5, <2>2, FS_EmptySet
  <2>4. PICK x \in Live : Head(z) = {x}
    BY <1>3, <1>4, <2>3, HeadIsFirst
  <2>5. ASSUME NEW j \in Live \ {x}
        PROVE  IF s.eviction = "LFU" THEN entry[x].hits <= entry[j].hits
               ELSE entry[x].lastAccessedAt <= entry[j].lastAccessedAt
    <3>1. ~Before(z, j, x)
      BY <1>3, <2>4 DEF Head
    <3>2. z[x] = policy[x] /\ z[j] = policy[j]
      BY <1>2, <1>3 DEF ZRem, Members, Live
    <3>3. z[x] \in Nat /\ z[j] \in Nat
      BY <1>3, <1>4 DEF Members, ZSet
    <3>4. z[x] <= z[j]
      BY <3>1, <3>3 DEF Before
    <3> QED
      BY <1>1, <3>2, <3>4 DEF PolicyIndex, ScoresExact
  <2> QED
    BY <2>1, <2>4, <2>5 DEF RankedLowest
<1>6. ASSUME ~(k \notin Live /\ Cardinality(Live) >= s.capacity)
      PROVE  Victim(k, s) = {}
  BY <1>2, <1>6 DEF Victim
<1> QED
  BY <1>2, <1>5, <1>6

-----------------------------------------------------------------------------
(* The slot budget.                                                        *)
LEMMA BudgetShrinks ==
  ASSUME TypeOK, SlotBudget, index' \subseteq index, configured \subseteq configured',
         overtaken' = overtaken
  PROVE  SlotBudget'
<1> SUFFICES ASSUME ~overtaken
             PROVE  \E s \in configured' : Cardinality(index') <= s.capacity
  BY DEF SlotBudget
<1>1. PICK s \in configured : Cardinality(index) <= s.capacity
  BY DEF SlotBudget
<1>2. IsFiniteSet(index) /\ Cardinality(index) \in Nat
  BY PoolFinite DEF TypeOK
<1>3. Cardinality(index') <= Cardinality(index) /\ Cardinality(index') \in Nat
  BY <1>2, FS_Subset, PoolFinite DEF TypeOK
<1>4. s.capacity \in Nat
  BY CacheStoreAssumption DEF TypeOK, Settings
<1>5. Cardinality(index') <= s.capacity
  BY <1>1, <1>2, <1>3, <1>4
<1> QED
  BY <1>5

LEMMA PutBudget ==
  ASSUME TypeOK, PolicyIndexesAgree, ExactInv, SlotBudget,
         NEW k \in Key, NEW v \in Version, PutCall(k, v)
  PROVE  SlotBudget'
<1>1. PICK life \in Lifetime, now \in 0 .. clock, s \in configured :
        PutScript(k, v, life, now, s)
  BY DEF PutCall
<1>2. configured' = configured
  BY DEF PutCall, settingsVars
<1>3. CASE Newer(k, v)
  BY <1>1, <1>2, <1>3, BudgetShrinks DEF PutScript, poolVars
<1>4. CASE ~Newer(k, v)
  <2> DEFINE gone == Dead \cup Victim(k, s)
  <2>1. /\ index' = (index \ gone) \cup {k}
        /\ overtaken' = (overtaken \/ Overtakes(k))
    BY <1>1, <1>4 DEF PutScript
  <2> SUFFICES ASSUME ~overtaken
               PROVE  \E t \in configured : Cardinality(index') <= t.capacity
    BY <1>2, <2>1 DEF SlotBudget, TypeOK
  <2>2. /\ index \ Dead = Live /\ Live \subseteq index
        /\ IsFiniteSet(Live) /\ Cardinality(Live) \in Nat
        /\ IsFiniteSet(index) /\ Cardinality(index) \in Nat
        /\ Cardinality(Live) <= Cardinality(index)
    <3>1. index \ Dead = Live /\ Live \subseteq index
      BY VictimIsOne, ExactInvMeans
    <3>2. index \subseteq Key /\ Live \subseteq Key
      BY DEF TypeOK, Live
    <3> QED
      BY <3>1, <3>2, PoolFinite, FS_Subset
  <2>3. s.capacity \in Nat /\ \A t \in configured : t.capacity \in Nat
    BY CacheStoreAssumption DEF TypeOK, Settings
  <2>4. PICK t \in configured : Cardinality(index) <= t.capacity
    BY DEF SlotBudget
  <2>5. CASE k \in Live
    <3>1. index' = Live
      BY <2>1, <2>2, <2>5, VictimIsOne
    <3> QED
      BY <2>2, <2>3, <2>4, <3>1
  <2>6. CASE k \notin Live /\ ~(Cardinality(Live) >= s.capacity)
    <3>1. index' = Live \cup {k}
      BY <2>1, <2>2, <2>6, VictimIsOne
    <3>2. Cardinality(index') = Cardinality(Live) + 1
      BY <2>2, <2>6, <3>1, FS_AddElement
    <3>3. Cardinality(index') <= s.capacity
      BY <2>2, <2>3, <2>6, <3>2
    <3> QED
      BY <3>3
  <2>7. CASE k \notin Live /\ Cardinality(Live) >= s.capacity
    <3>1. PICK x \in Live : Victim(k, s) = {x}
      BY <2>7, VictimIsOne
    <3>2. index' = (Live \ {x}) \cup {k}
      BY <2>1, <2>2, <3>1
    <3>3. /\ IsFiniteSet(Live \ {x})
          /\ Cardinality(Live \ {x}) = Cardinality(Live) - 1
      BY <2>2, FS_RemoveElement
    <3>4. Cardinality(index') = Cardinality(Live)
      <4>1. k \notin Live \ {x}
        BY <2>7
      <4>2. Cardinality((Live \ {x}) \cup {k}) = Cardinality(Live \ {x}) + 1
        BY <3>3, <4>1, FS_AddElement
      <4> QED
        BY <2>2, <3>2, <3>3, <4>2
    <3>5. Cardinality(index') <= t.capacity
      BY <2>2, <2>3, <2>4, <3>4
    <3> QED
      BY <3>5
  <2> QED
    BY <2>5, <2>6, <2>7
<1> QED
  BY <1>3, <1>4

(* As long as no put has overtaken a list or a flush, the pool holds no    *)
(* more than the largest capacity ever configured.                         *)
THEOREM BudgetKept == Spec => []SlotBudget
<1>1. Init => SlotBudget
  <2> SUFFICES ASSUME Init PROVE SlotBudget
    OBVIOUS
  <2>1. settings \in configured /\ settings.capacity \in Nat
    BY CacheStoreAssumption DEF Init, Settings
  <2>2. Cardinality(index) = 0
    BY FS_EmptySet DEF Init
  <2>3. Cardinality(index) <= settings.capacity
    BY <2>1, <2>2
  <2> QED
    BY <2>1, <2>3 DEF SlotBudget
<1>2. TypeOK /\ PolicyIndexesAgree /\ ExactInv /\ SlotBudget /\ [Next]_vars
        => SlotBudget'
  <2> SUFFICES ASSUME TypeOK, PolicyIndexesAgree, ExactInv, SlotBudget, [Next]_vars
               PROVE  SlotBudget'
    OBVIOUS
  <2>1. ASSUME NEW k \in Key, NEW v \in Version, PutCall(k, v)
        PROVE  SlotBudget'
    BY <2>1, PutBudget
  <2>2. ASSUME ~\E k \in Key, v \in Version : PutCall(k, v)
        PROVE  /\ index' \subseteq index
               /\ configured \subseteq configured'
               /\ overtaken' = overtaken
    BY <2>2 DEF Next, vars, InvalidateThroughVersion, Remove, Touch, Expire, Tick,
               Get, Invalidate, List, ListValues, ListSweep, Flush, FlushExec,
               PatchBegin, PatchReread, PatchWrite, Trim, poolVars, settingsVars
  <2> QED
    BY <2>1, <2>2, BudgetShrinks
<1> QED
  BY <1>1, <1>2, TypeCorrect, IndexesAlwaysAgree, ExactAlways, PTL DEF Spec

-----------------------------------------------------------------------------
(* The trim.                                                               *)
LEMMA TrimIsEnough ==
  ASSUME TypeOK, PolicyIndexesAgree, NEW cap \in Nat, NEW policy,
         index' = index \ TrimVictims(cap, policy)
  PROVE  Cardinality(index') <= cap
<1> DEFINE z == PolicyIndex(policy)
           earlier(k) == {j \in Members(z) : Before(z, j, k)}
<1>1. z \in ZSet
  BY PolicyIndexType
<1>2. index \subseteq Members(z)
  BY PolicyMembers DEF PolicyIndexesAgree
<1>3. CASE index' = {}
  BY <1>3, FS_EmptySet
<1>4. CASE index' # {}
  <2>1. PICK k \in index' : \A j \in index' : ~Before(z, j, k)
    <3>1. index' \subseteq Members(z)
      BY <1>2
    <3> QED
      BY <1>1, <1>4, <3>1, FirstExists
  <2>2. index' \subseteq index \ earlier(k)
    BY <2>1
  <2>3. k \in Members(z) /\ k \notin TrimVictims(cap, policy)
    BY <1>2, <2>1
  <2>4. ~(Cardinality(index \ earlier(k)) > cap)
    BY <2>3 DEF TrimVictims
  <2>5. /\ IsFiniteSet(index \ earlier(k))
        /\ Cardinality(index \ earlier(k)) \in Nat /\ Cardinality(index') \in Nat
    BY PoolFinite DEF TypeOK
  <2>6. Cardinality(index') <= Cardinality(index \ earlier(k))
    BY <2>2, <2>5, FS_Subset
  <2> QED
    BY <2>4, <2>5, <2>6
<1> QED
  BY <1>3, <1>4

(* The victims of a trim that finds some keys gone already, in closed form: *)
(* it satisfies the equation of the loop.                                  *)
VictimsBeside(gone, cap, z) ==
  {k \in Members(z) \ gone :
     Cardinality((index \ gone) \ {j \in Members(z) : Before(z, j, k)}) > cap}

LEMMA VictimsOneByOne ==
  ASSUME TypeOK, NEW z \in ZSet, NEW cap \in Nat, NEW gone \in SUBSET Key
  PROVE  LET head == Head(ZRem(z, gone)) IN
         gone \cup VictimsBeside(gone, cap, z) =
           IF Cardinality(index \ gone) <= cap \/ head = {} THEN gone
           ELSE (gone \cup head) \cup VictimsBeside(gone \cup head, cap, z)
<1> DEFINE earlier(k) == {j \in Members(z) : Before(z, j, k)}
           left == ZRem(z, gone)
           head == Head(left)
<1>1. left \in ZSet /\ Members(left) = Members(z) \ gone
  BY ZRemType, MembersZRem
<1>2. \A S \in SUBSET index : IsFiniteSet(S) /\ Cardinality(S) \in Nat
  BY PoolFinite DEF TypeOK
<1>3. CASE Cardinality(index \ gone) <= cap
  <2>1. ASSUME NEW k PROVE ~(Cardinality((index \ gone) \ earlier(k)) > cap)
    <3>1. Cardinality((index \ gone) \ earlier(k)) <= Cardinality(index \ gone)
      BY <1>2, FS_Subset
    <3> QED
      BY <1>2, <1>3, <3>1
  <2>2. VictimsBeside(gone, cap, z) = {}
    BY <2>1 DEF VictimsBeside
  <2> QED
    BY <1>3, <2>2
<1>4. CASE head = {}
  <2>1. Members(left) = {}
    BY <1>1, <1>4, HeadIsFirst
  <2>2. VictimsBeside(gone, cap, z) = {}
    BY <1>1, <2>1 DEF VictimsBeside
  <2> QED
    BY <1>4, <2>2
<1>5. CASE ~(Cardinality(index \ gone) <= cap) /\ head # {}
  <2>1. PICK h \in Members(left) : head = {h}
    BY <1>1, <1>5, HeadIsFirst DEF Head
  <2>2. \A j \in Members(left) : ~Before(left, j, h)
    BY <2>1 DEF Head
  <2>3. \A j, k \in Members(z) \ gone : Before(left, j, k) <=> Before(z, j, k)
    BY DEF ZRem, Before, Members
  <2>4. earlier(h) \subseteq gone
    BY <1>1, <2>1, <2>2, <2>3
  <2>5. h \in VictimsBeside(gone, cap, z)
    <3>1. (index \ gone) \ earlier(h) = index \ gone
      BY <2>4
    <3> QED
      BY <1>1, <1>2, <1>5, <2>1, <3>1 DEF VictimsBeside
  <2>6. ASSUME NEW k \in Members(z) \ gone, k # h
        PROVE  (index \ gone) \ earlier(k) = (index \ (gone \cup head)) \ earlier(k)
    <3>1. /\ h \in Nat /\ k \in Nat /\ z[h] \in Nat /\ z[k] \in Nat
          /\ h \in Members(z)
      BY <1>1, <2>1, CacheStoreAssumption DEF Members, ZSet
    <3>2. ~Before(z, k, h)
      BY <1>1, <2>1, <2>2, <2>3
    <3>3. Before(z, h, k)
      BY <2>6, <3>1, <3>2 DEF Before
    <3> QED
      BY <2>1, <3>1, <3>3
  <2>7. VictimsBeside(gone, cap, z) =
          head \cup VictimsBeside(gone \cup head, cap, z)
    <3>1. VictimsBeside(gone \cup head, cap, z) =
            {k \in (Members(z) \ gone) \ {h} :
               Cardinality((index \ gone) \ earlier(k)) > cap}
      BY <2>1, <2>6 DEF VictimsBeside
    <3> QED
      BY <2>1, <2>5, <3>1 DEF VictimsBeside
  <2> QED
    BY <1>5, <2>7
<1> HIDE DEF head, left
<1> QED
  BY <1>3, <1>4, <1>5 DEF head, left

(* The recursion of the loop is well founded: a function satisfies its     *)
(* equation, and no other one does, since they would differ on some set of *)
(* victims with fewest keys left.                                          *)
LEMMA LoopIsClosedForm ==
  ASSUME TypeOK, NEW cap \in Nat, NEW policy
  PROVE  TrimLoop(cap, policy) = TrimVictims(cap, policy)
<1> DEFINE z == PolicyIndex(policy)
           head(gone) == Head(ZRem(z, gone))
           Stops(gone) == Cardinality(index \ gone) <= cap \/ head(gone) = {}
           Loop(f) == [gone \in SUBSET Key |->
                         IF Stops(gone) THEN gone ELSE f[gone \cup head(gone)]]
           taken == CHOOSE f : f = Loop(f)
           Closed(gone) == gone \cup VictimsBeside(gone, cap, z)
<1>1. TrimLoop(cap, policy) = taken[{}]
  BY DEF TrimLoop
<1>2. z \in ZSet
  BY PolicyIndexType
<1>3. TrimVictims(cap, policy) = Closed({})
  BY DEF TrimVictims, VictimsBeside
<1> HIDE DEF z
<1>4. ASSUME NEW gone \in SUBSET Key
      PROVE  Closed(gone) = IF Stops(gone) THEN gone
                            ELSE Closed(gone \cup head(gone))
  BY <1>2, VictimsOneByOne
<1>5. ASSUME NEW gone \in SUBSET Key
      PROVE  /\ gone \cup head(gone) \in SUBSET Key
             /\ head(gone) \cap gone = {}
  BY <1>2, MembersZRem DEF Head, Members
<1> HIDE DEF head, Stops, Closed
<1>6. taken = Loop(taken)
  <2> DEFINE closed == [gone \in SUBSET Key |-> Closed(gone)]
  <2>1. closed = Loop(closed)
    BY <1>4, <1>5
  <2> QED
    BY <2>1
<1> HIDE DEF taken
<1>7. ASSUME NEW gone \in SUBSET Key PROVE taken[gone] = Closed(gone)
  <2> DEFINE Differ == {other \in SUBSET Key : taken[other] # Closed(other)}
             Sizes == {Cardinality(Key \ other) : other \in Differ}
  <2>1. SUFFICES ASSUME Differ # {} PROVE FALSE
    BY DEF Differ
  <2>2. Sizes \subseteq Nat /\ Sizes # {}
    BY <2>1, PoolFinite
  <2>3. PICK n \in Sizes : \A m \in Sizes : n <= m
    BY <2>2, NatMinimum
  <2>4. PICK far \in Differ : Cardinality(Key \ far) = n
    BY <2>3
  <2>5. far \in SUBSET Key /\ taken[far] # Closed(far)
    BY <2>4
  <2>6. taken[far] = IF Stops(far) THEN far ELSE taken[far \cup head(far)]
    BY <1>6, <2>5
  <2>7. ~Stops(far)
    BY <1>4, <2>5, <2>6
  <2>8. far \cup head(far) \in Differ
    BY <1>4, <1>5, <2>5, <2>6, <2>7
  <2>9. Cardinality(Key \ (far \cup head(far))) < Cardinality(Key \ far)
    <3>1. PICK k \in head(far) : k \in Key \ far
      BY <1>5, <2>5, <2>7 DEF Stops
    <3>2. /\ Key \ (far \cup head(far)) \subseteq Key \ far
          /\ Key \ (far \cup head(far)) # Key \ far
      BY <3>1
    <3> QED
      BY <3>2, PoolFinite, FS_Subset
  <2>10. Cardinality(Key \ (far \cup head(far))) \in Sizes
    BY <2>8
  <2>11. /\ n <= Cardinality(Key \ (far \cup head(far))) /\ n \in Nat
         /\ Cardinality(Key \ (far \cup head(far))) \in Nat
    BY <2>2, <2>3, <2>10
  <2> HIDE DEF Differ, Sizes
  <2> QED
    BY <2>4, <2>9, <2>11
<1> QED
  BY <1>1, <1>3, <1>7

(* Whatever the other calls have left behind, ghosts in the policy index   *)
(* and dead names in the set of members, the loop of TRIM_SCRIPT takes the *)
(* keys that the model's closed form says, for any number of keys.         *)
THEOREM TrimIsTheLoop == Spec => []TrimMatchesLoop
<1>1. TypeOK => TrimMatchesLoop
  <2> SUFFICES ASSUME TypeOK, NEW cap \in 1 .. Cardinality(Key), NEW policy \in Eviction
               PROVE  TrimVictims(cap, policy) = TrimLoop(cap, policy)
    BY DEF TrimMatchesLoop
  <2> QED
    BY PoolFinite, LoopIsClosedForm
<1> QED
  BY <1>1, TypeCorrect, PTL

(* A client about to trim does nothing else.                               *)
LEMMA OnlyTrimMovesATrimmer ==
  ASSUME TypeOK, [Next]_vars, NEW c \in Client, client[c].pc = "trim",
         client'[c] # client[c]
  PROVE  Trim(c)
<1>1. client' # client
  OBVIOUS
<1>2. PICK d \in Client :
        \/ \E k \in Key, now \in 0 .. clock : Get(d, k, now)
        \/ Invalidate(d) \/ List(d) \/ ListValues(d) \/ ListSweep(d)
        \/ Flush(d) \/ FlushExec(d)
        \/ \E patch \in Patch : PatchBegin(d, patch)
        \/ PatchReread(d) \/ PatchWrite(d) \/ Trim(d)
  BY <1>1 DEF Next, vars, PutCall, InvalidateThroughVersion, Touch, Expire, Tick
<1>3. \E state : Goes(d, state)
  BY <1>2 DEF Get, Invalidate, List, ListValues, ListSweep, Flush, FlushExec,
              PatchBegin, PatchReread, PatchWrite, Trim
<1>4. d = c
  BY <1>3, OthersKeep
<1>5. /\ ~List(c) /\ ~Flush(c)
      /\ ~\E k \in Key, now \in 0 .. clock : Get(c, k, now)
      /\ ~\E patch \in Patch : PatchBegin(c, patch)
  <2>1. client[c] # Idle
    BY DEF Idle
  <2> QED
    BY <2>1 DEF Get, List, Flush, PatchBegin
<1>6. /\ ~Invalidate(c) /\ ~ListValues(c) /\ ~ListSweep(c)
      /\ ~FlushExec(c) /\ ~PatchReread(c) /\ ~PatchWrite(c)
  BY DEF Invalidate, ListValues, ListSweep, FlushExec, PatchReread, PatchWrite
<1> QED
  BY <1>2, <1>4, <1>5, <1>6

(* A trim leaves at most the capacity its patch set, whatever the policy   *)
(* index holds: TRIM_SCRIPT never stops early.                             *)
THEOREM TrimsReachCapacity == Spec => TrimReachesCapacity
<1>1. TypeOK /\ PolicyIndexesAgree /\ [Next]_vars =>
        [\A c \in Client : client[c].pc = "trim" /\ client'[c] # client[c] =>
           Cardinality(index') <= client[c].next.capacity]_vars
  <2> SUFFICES ASSUME TypeOK, PolicyIndexesAgree, [Next]_vars, NEW c \in Client,
                      client[c].pc = "trim", client'[c] # client[c]
               PROVE  Cardinality(index') <= client[c].next.capacity
    OBVIOUS
  <2>1. Trim(c)
    BY OnlyTrimMovesATrimmer
  <2>2. client[c].next.capacity \in Nat
    BY ClientStates, CacheStoreAssumption DEF Settings
  <2>3. index' = index \ TrimVictims(client[c].next.capacity,
                                     client[c].next.eviction)
    BY <2>1 DEF Trim, Remove
  <2> QED
    BY <2>2, <2>3, TrimIsEnough
<1> QED
  BY <1>1, TypeCorrect, IndexesAlwaysAgree, PTL DEF Spec, TrimReachesCapacity

-----------------------------------------------------------------------------
(* Evictions.                                                              *)
LEMMA OnlyPutsAdd ==
  ASSUME TypeOK, [Next]_vars, Added # {}
  PROVE  \E k \in Key, v \in Version : PutCall(k, v)
<1> SUFFICES ASSUME ~\E k \in Key, v \in Version : PutCall(k, v)
             PROVE  Added = {}
  OBVIOUS
<1>1. CASE \E k \in Key, now \in 0 .. clock : Touch(k, now)
  BY <1>1 DEF Touch, Added, Live, TypeOK
<1>2. CASE ~\E k \in Key, now \in 0 .. clock : Touch(k, now)
  <2>1. entry' = entry \/ \E gone : entry' = Del(gone)
    BY <1>2 DEF Next, vars, InvalidateThroughVersion, Remove, Expire, Tick, Get,
                Invalidate, List, ListValues, ListSweep, Flush, FlushExec,
                PatchBegin, PatchReread, PatchWrite, Trim, poolVars
  <2> QED
    BY <2>1 DEF Added, Live, Del, TypeOK
<1> QED
  BY <1>1, <1>2

LEMMA EvictionStep ==
  ASSUME TypeOK, PolicyIndexesAgree, ExactInv, ~overtaken,
         NEW k \in Key, NEW v \in Version, PutCall(k, v),
         Evicted # {}, Added # {}
  PROVE  \E s \in configured, x \in Live :
           /\ Evicted = {x}
           /\ Cardinality(Live) >= s.capacity
           /\ RankedLowest(x, s.eviction)
<1>1. PICK life \in Lifetime, now \in 0 .. clock, s \in configured :
        PutScript(k, v, life, now, s)
  BY DEF PutCall
<1>2. ~Newer(k, v)
  BY <1>1 DEF PutScript, poolVars, Added, Live
<1> DEFINE gone == Dead \cup Victim(k, s)
           new == NewRecord(v, life, now)
<1>3. entry' = [Del(gone) EXCEPT ![k] = new]
  BY <1>1, <1>2 DEF PutScript
<1>4. new # NoEntry
  <2>1. new.version = v /\ v # Nil
    BY CacheStoreAssumption DEF NewRecord, Nil
  <2> QED
    BY <2>1 DEF NewRecord, NoEntry
<1>5. /\ entry'[k] = new
      /\ \A j \in Key \ {k} : entry'[j] = IF j \in gone THEN NoEntry ELSE entry[j]
  BY <1>3 DEF Del
<1> HIDE DEF new
<1>6. k \notin Live /\ Evicted = gone \cap Live
  <2>1. k \notin Live
    BY <1>5 DEF Added, Live
  <2> QED
    BY <1>4, <1>5, <2>1 DEF Evicted, Live
<1>7. Evicted = Victim(k, s) \cap Live
  BY <1>6 DEF Dead, Live
<1>8. Cardinality(Live) >= s.capacity
  BY <1>6, <1>7, VictimIsOne
<1>9. PICK x \in Live : Victim(k, s) = {x} /\ RankedLowest(x, s.eviction)
  BY <1>6, <1>8, VictimIsOne
<1>10. Evicted = {x}
  BY <1>7, <1>9
<1> QED
  BY <1>8, <1>9, <1>10

(* A put that costs another key its entry finds the pool full of live      *)
(* entries and takes the one the policy ranks lowest.                      *)
THEOREM EvictionsAreExact == Spec => EvictionIsExact
<1>1. TypeOK /\ PolicyIndexesAgree /\ ExactInv /\ [Next]_vars =>
        [Evicted # {} /\ Added # {} /\ ~overtaken =>
           \E s \in configured, k \in Live :
             /\ Evicted = {k}
             /\ Cardinality(Live) >= s.capacity
             /\ RankedLowest(k, s.eviction)]_vars
  BY OnlyPutsAdd, EvictionStep
<1> QED
  BY <1>1, TypeCorrect, IndexesAlwaysAgree, ExactAlways, PTL
     DEF Spec, EvictionIsExact
=============================================================================
