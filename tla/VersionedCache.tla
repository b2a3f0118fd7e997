--------------------------- MODULE VersionedCache ---------------------------
(***************************************************************************)
(* What the Redis cache promises its callers, seen only through versions.  *)
(*                                                                         *)
(* cached[k] is the version of the entry held for key k, and watermark[k]  *)
(* is the version fence of k: "a version watermark survives invalidation   *)
(* so delayed refreshes and outbox retries cannot recreate stale data"     *)
(* (docs/architecture.md).  Every script of cache-store.ts runs atomically *)
(* in Redis, so each is one action here.  Which entry the pool evicts,     *)
(* when one expires and how the policy indexes look is left open: that is  *)
(* what CacheStore adds.                                                   *)
(***************************************************************************)
EXTENDS Integers

CONSTANTS Key,      \* the resource keys
          Version   \* the versions callers store or invalidate through

ASSUME VersionAssumption == Version \subseteq Nat

VARIABLES cached,     \* version of the live entry of each key, or Nil
          watermark   \* hash cacheVersionWatermarks: the fence, or Nil

cacheVars == <<cached, watermark>>

(* HGET ... or '-1': a key that has no field, and a key that has no entry. *)
Nil == -1

CacheTypeOK ==
  /\ cached \in [Key -> Nat \cup {Nil}]
  /\ watermark \in [Key -> Nat \cup {Nil}]

CacheInit ==
  /\ cached = [k \in Key |-> Nil]
  /\ watermark = [k \in Key |-> Nil]

-----------------------------------------------------------------------------
(* The entries left when those of the keys in lost are gone. *)
WithoutEntries(lost) == [k \in Key |-> IF k \in lost THEN Nil ELSE cached[k]]

(* Mutant of Admits: the put looks at the entry but not at the fence.      *)
AdmitsWithoutFence(k, v) == cached[k] <= v

(* PUT_SCRIPT stores version v of k unless the fence or the entry already  *)
(* held is newer.                                                          *)
Admits(k, v) == watermark[k] <= v /\ cached[k] <= v

(* Mutant of RaisedFence: HSET without comparing, the fence may go down.   *)
OverwrittenFence(k, v) == [watermark EXCEPT ![k] = v]

(* The fence of k once version v has been stored or invalidated through.   *)
RaisedFence(k, v) ==
  [watermark EXCEPT ![k] = IF v > watermark[k] THEN v ELSE watermark[k]]

(* A put that is admitted.  It may cost other keys their entries: dead     *)
(* members are pruned and a full pool gives up a victim.                   *)
Store(k, v) ==
  /\ Admits(k, v)
  /\ \E lost \in SUBSET (Key \ {k}) :
        cached' = [WithoutEntries(lost) EXCEPT ![k] = v]
  /\ watermark' = RaisedFence(k, v)

(* A put that is refused changes nothing.                                  *)
Refuse(k, v) ==
  /\ ~Admits(k, v)
  /\ UNCHANGED cacheVars

Put(k, v) == Store(k, v) \/ Refuse(k, v)

(* Mutant of InvalidateThrough: the script returns before the HSET when    *)
(* there is no entry to delete.                                            *)
InvalidateOnlyIfCached(k, v) ==
  /\ cached' = IF cached[k] <= v THEN WithoutEntries({k}) ELSE cached
  /\ watermark' = IF cached[k] = Nil THEN watermark ELSE RaisedFence(k, v)

(* The fence rises even when there is nothing to delete, and an entry that *)
(* is newer than v stays.                                                  *)
InvalidateThrough(k, v) ==
  /\ cached' = IF cached[k] <= v THEN WithoutEntries({k}) ELSE cached
  /\ watermark' = RaisedFence(k, v)

(* Entries leave the pool: expiry, a trim, a read that finds its entry     *)
(* past its hard expiry.  Fences stay.                                     *)
Drop(lost) ==
  /\ cached' = WithoutEntries(lost)
  /\ UNCHANGED watermark

(* A flush deletes every fence but only the entries it had seen, so any    *)
(* entry stored meanwhile survives it.                                     *)
Clear(seen) ==
  /\ cached' = WithoutEntries(seen)
  /\ watermark' = [k \in Key |-> Nil]

CacheNext ==
  \/ \E k \in Key, v \in Version : Put(k, v) \/ InvalidateThrough(k, v)
  \/ \E keys \in SUBSET Key : Drop(keys) \/ Clear(keys)

CacheSpec == CacheInit /\ [][CacheNext]_cacheVars

-----------------------------------------------------------------------------
(* No entry is older than the fence of its key: what an invalidation has   *)
(* removed stays removed whatever refresh, retry or fill is still on its   *)
(* way (the watermark check of PUT_SCRIPT against INVALIDATE_THROUGH_      *)
(* VERSION_SCRIPT).                                                        *)
FenceHolds == \A k \in Key : cached[k] = Nil \/ cached[k] >= watermark[k]
=============================================================================
