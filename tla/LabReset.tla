------------------------------ MODULE LabReset ------------------------------
(***************************************************************************)
(* Resets of the lab while the rest of the system goes on.                 *)
(*                                                                         *)
(* LabService.reset reseeds PostgreSQL in one transaction, which moves     *)
(* every version back, and then clears Redis in several commands: SCAN,    *)
(* DEL of what the scan has found, HSET of the default settings, and puts  *)
(* of the warm keys.  Reads, refresh jobs, outbox workers and settings     *)
(* patches are not stopped meanwhile, nor are other resets: nothing keeps  *)
(* two consoles, or two replicas, from resetting at the same time.  Any    *)
(* step of a reset may fail, and the command that has failed it by taking  *)
(* too long (commandTimeout) may be executed all the same.                 *)
(*                                                                         *)
(* The cache is VersionedCache.  Which worker holds which lease is in      *)
(* Reconciliation; here a worker may take any event that has not been      *)
(* settled, again and again.                                               *)
(***************************************************************************)
EXTENDS VersionedCache

CONSTANTS Seed,       \* version of each key's row in seedResources, 0: no row
          Warm,       \* the keys a reset puts into the cache
          Field,      \* the settings a patch may set
          Reader,     \* reads and refresh jobs, which fill the cache
          Worker,     \* outbox workers
          Patcher,    \* requests that patch the settings
          Operator,   \* those who may reset the lab, one reset each at a time
          MaxReseeds  \* bound: reseeds in a behaviour

Caller == Reader \cup Worker \cup Patcher

ASSUME LabResetAssumption ==
  /\ Seed \in [Key -> Nat]
  /\ Warm \subseteq Key
  /\ \A k \in Warm : Seed[k] # 0
  /\ Caller \cap Operator = {}
  /\ MaxReseeds \in Nat

VARIABLES
  origin,     \* committed version of each key in table resources
  outbox,     \* events of table cache_outbox that are not completed
  settings,   \* hash settings: whether it exists, what differs from default
  caller,     \* what each caller is doing
  reset,      \* what the LabService.reset of each operator is doing
  reseeds,    \* committed reseeds
  carried,    \* history: who holds rows or events of before a reseed
  sweeping,   \* history: whose SCAN is later than the latest reseed and than
              \* all that those of carried have written
  swept,      \* history: such a SCAN has been followed by its DEL
  overtaken   \* history: callers whose settings others have written since

originVars == <<origin, outbox, reseeds>>
historyVars == <<sweeping, swept>>
vars == <<cached, watermark, origin, outbox, settings, caller, reset, reseeds,
          carried, sweeping, swept, overtaken>>

-----------------------------------------------------------------------------
Idle == [task |-> "idle", pc |-> "idle"]
Resting == [pc |-> "idle"]   \* no reset yet, or the latest one failed
Done == [pc |-> "done"]      \* the latest one was answered 200

Event == [key : Key, version : Nat, policy : {"invalidate", "write-through"},
          born : Nat]

Fill == [task : {"fill"}, pc : {"default", "row", "put"}, key : Key,
         version : Nat \cup {Nil}]

Patch == [task : {"patch"}, pc : {"default", "values", "write"},
          field : Field, base : SUBSET Field]

Job == [task : {"event"}, pc : {"apply", "settle"}, event : Event]

Task == Fill \cup Patch \cup Job

(* The names under keys.prefix that matter here. *)
Name == Key \cup {"settings", "fences"}

Sweep == [pc : {"delete"}, found : SUBSET Name]

Warming == [pc : {"warm"}, rows : [Warm -> Nat], left : SUBSET Warm]

Reset == [pc : {"scan", "defaults", "settings", "ensure", "find"}]
           \cup Sweep \cup Warming

Default == [exists |-> TRUE, patched |-> {}]
Missing == [exists |-> FALSE, patched |-> {}]

TypeOK ==
  /\ CacheTypeOK
  /\ origin \in [Key -> Nat]
  /\ outbox \subseteq Event
  /\ settings \in [exists : {TRUE}, patched : SUBSET Field] \cup {Missing}
  /\ caller \in [Caller -> Task \cup {Idle}]
  /\ reset \in [Operator -> Reset \cup {Resting, Done}]
  /\ reseeds \in Nat
  /\ carried \subseteq Caller \cup Operator
  /\ sweeping \subseteq Operator
  /\ swept \in BOOLEAN
  /\ overtaken \subseteq Caller

Init ==
  /\ CacheInit
  /\ origin = Seed
  /\ outbox = {}
  /\ settings = Missing
  /\ caller = [p \in Caller |-> Idle]
  /\ reset = [x \in Operator |-> Resting]
  /\ reseeds = 0
  /\ carried = {} /\ overtaken = {}
  /\ sweeping = {} /\ swept = TRUE   \* Redis is empty

-----------------------------------------------------------------------------
(* Callers.                                                                *)
Becomes(p, state) == caller' = [caller EXCEPT ![p] = state]
Goes(p, pc) == caller' = [caller EXCEPT ![p].pc = pc]

(* A caller is through, or has given up. *)
Ends(p) ==
  /\ Becomes(p, Idle)
  /\ carried' = carried \ {p}
  /\ overtaken' = overtaken \ {p}

(* ensureDefaults: EXISTS decides whether the defaults are written next.   *)
AfterExists(next) == IF settings.exists THEN next ELSE "default"

(* The others that are about to write on the strength of what they read.   *)
Relying(p) == {q \in Caller \ {p} : caller[q].pc \in {"default", "write"}}

(* HSET of the whole hash. *)
SetSettings(p, patched) ==
  /\ settings' = [exists |-> TRUE, patched |-> patched]
  /\ overtaken' = (overtaken \cup Relying(p)) \ {p}

WriteDefaults(p) ==
  /\ caller[p].pc = "default"
  /\ SetSettings(p, {})
  /\ Goes(p, IF caller[p].task = "fill" THEN "row" ELSE "values")
  /\ UNCHANGED <<cacheVars, originVars, reset, historyVars, carried>>

(* A read that misses, or a refresh job: settings, row, put.               *)
BeginFill(p, k) ==
  /\ p \in Reader /\ caller[p] = Idle
  /\ Becomes(p, [task |-> "fill", pc |-> AfterExists("row"), key |-> k,
                 version |-> Nil])
  /\ UNCHANGED <<cacheVars, originVars, settings, reset, historyVars, carried,
                 overtaken>>

ReadRow(p) ==
  /\ caller[p].task = "fill" /\ caller[p].pc = "row"
  /\ Becomes(p, [caller[p] EXCEPT !.pc = "put",
                                  !.version = origin[caller[p].key]])
  /\ UNCHANGED <<cacheVars, originVars, settings, reset, historyVars,
                 carried, overtaken>>

(* What was held at a reseed comes to Redis: no SCAN before it counts.     *)
Taints(p) ==
  IF p \in carried THEN sweeping' = {} /\ swept' = FALSE
  ELSE UNCHANGED historyVars

FillPut(p) ==
  /\ caller[p].task = "fill" /\ caller[p].pc = "put"
  /\ Put(caller[p].key, caller[p].version)
  /\ Taints(p)
  /\ Ends(p)
  /\ UNCHANGED <<originVars, settings, reset>>

(* LabStateStore.patchSettings: getSettings, merge, HSET of every field.   *)
BeginPatch(p, f) ==
  /\ p \in Patcher /\ caller[p] = Idle
  /\ Becomes(p, [task |-> "patch", pc |-> AfterExists("values"), field |-> f,
                 base |-> {}])
  /\ UNCHANGED <<cacheVars, originVars, settings, reset, historyVars,
                 carried, overtaken>>

ReadValues(p) ==
  /\ caller[p].pc = "values"
  /\ Becomes(p, [caller[p] EXCEPT !.pc = "write", !.base = settings.patched])
  /\ overtaken' = overtaken \ {p}
  /\ UNCHANGED <<cacheVars, originVars, settings, reset, historyVars,
                 carried>>

(* Mutant of Merged: the patch is merged into the defaults.                *)
MergedIntoDefaults(p) == {caller[p].field}

Merged(p) == caller[p].base \cup {caller[p].field}

WritePatch(p) ==
  /\ caller[p].pc = "write"
  /\ SetSettings(p, Merged(p))
  /\ Becomes(p, Idle)
  /\ UNCHANGED <<cacheVars, originVars, reset, historyVars, carried>>

(* A worker claims an event, applies it and settles it; an event it does   *)
(* not settle is claimed again.                                            *)
Claim(p, e) ==
  /\ p \in Worker /\ caller[p] = Idle
  /\ e \in outbox
  /\ Becomes(p, [task |-> "event", pc |-> "apply", event |-> e])
  /\ UNCHANGED <<cacheVars, originVars, settings, reset, historyVars,
                 carried, overtaken>>

Apply(p) ==
  /\ caller[p].pc = "apply"
  /\ LET e == caller[p].event IN
       IF e.policy = "invalidate" THEN InvalidateThrough(e.key, e.version)
       ELSE Put(e.key, e.version)
  /\ Taints(p)
  /\ Goes(p, "settle")
  /\ UNCHANGED <<originVars, settings, reset, carried, overtaken>>

(* UPDATE ... WHERE id = $1: no row after a TRUNCATE. *)
Settle(p) ==
  /\ caller[p].pc = "settle"
  /\ outbox' = outbox \ {caller[p].event}
  /\ Ends(p)
  /\ UNCHANGED <<cacheVars, origin, reseeds, settings, reset, historyVars>>

(* A command fails or the process dies, at any point.  While a command it  *)
(* has given up is still to be executed a caller stays where it is, like a *)
(* slow one.                                                               *)
GiveUp(p) ==
  /\ caller[p] # Idle
  /\ Ends(p)
  /\ UNCHANGED <<cacheVars, originVars, settings, reset, historyVars>>

-----------------------------------------------------------------------------
(* The rest of the system.                                                 *)

(* ResourcesService.write, one transaction under the lock of the row.      *)
Write(k, policy) ==
  /\ origin[k] # 0
  /\ origin[k] + 1 \in Version
  /\ origin' = [origin EXCEPT ![k] = @ + 1]
  /\ outbox' = outbox \cup {[key |-> k, version |-> origin[k] + 1,
                             policy |-> policy, born |-> reseeds]}
  /\ UNCHANGED <<cacheVars, reseeds, settings, caller, reset,
                 historyVars, carried, overtaken>>

(* Expiry, eviction, trim. *)
Leave(k) ==
  /\ cached[k] # Nil
  /\ Drop({k})
  /\ UNCHANGED <<originVars, settings, caller, reset, historyVars,
                 carried, overtaken>>

-----------------------------------------------------------------------------
(* LabService.reset, by any number of operators at the same time.          *)

(* Who holds a row or an event brings it over the reseed.                  *)
Holding(p) == caller[p].pc \in {"put", "apply", "settle"}
Holders ==
  {p \in Caller : Holding(p)} \cup {x \in Operator : reset[x].pc = "warm"}

Moves(x, state) == reset' = [reset EXCEPT ![x] = state]

(* A command has been executed.  Its reset goes on, or has given it up     *)
(* before, because it timed out or the process died: nothing follows then. *)
Then(x, state) == Moves(x, state) \/ Moves(x, Resting)

(* Mutant of Truncated: TRUNCATE of resources only. *)
Untouched == outbox

Truncated == {}

(* resetSeedData: TRUNCATE waits for the writes under way, and for another *)
(* reseed, but for nothing else of a reset.  The drain of the refresh      *)
(* queue that follows takes jobs that have read nothing yet.               *)
Reseed(x) ==
  /\ reset[x] \in {Resting, Done}
  /\ reseeds < MaxReseeds
  /\ origin' = Seed
  /\ outbox' = Truncated
  /\ reseeds' = reseeds + 1
  /\ Moves(x, [pc |-> "scan"])
  /\ carried' = Holders
  /\ sweeping' = {} /\ swept' = FALSE
  /\ UNCHANGED <<cacheVars, settings, caller, overtaken>>

(* Mutant of Existing: the match pattern is that of the entries.           *)
ExistingEntries == {k \in Key : cached[k] # Nil} \cup {"settings"}

(* What a SCAN of one page finds, as long as the page holds every key.     *)
Existing ==
  {k \in Key : cached[k] # Nil}
    \cup (IF settings.exists THEN {"settings"} ELSE {})
    \cup (IF \E k \in Key : watermark[k] # Nil THEN {"fences"} ELSE {})

Scan(x) ==
  /\ reset[x].pc = "scan"
  /\ Moves(x, [pc |-> "delete", found |-> Existing])
  /\ sweeping' = sweeping \cup {x}
  /\ UNCHANGED <<cacheVars, originVars, settings, caller, carried, swept,
                 overtaken>>

Delete(x) ==
  /\ reset[x].pc = "delete"
  /\ cached' = WithoutEntries(reset[x].found)
  /\ watermark' = IF "fences" \in reset[x].found THEN [k \in Key |-> Nil]
                  ELSE watermark
  /\ settings' = IF "settings" \in reset[x].found THEN Missing ELSE settings
  /\ overtaken' = overtaken \cup {p \in Caller : caller[p].pc = "write"}
  /\ Then(x, [pc |-> "defaults"])
  /\ swept' = (swept \/ x \in sweeping)
  /\ sweeping' = sweeping \ {x}
  /\ UNCHANGED <<originVars, caller, carried>>

(* HSET of the defaults: by reset(), and again by ensureDefaults when the  *)
(* DEL of another reset has come in between.                               *)
Restore(x) ==
  /\ reset[x].pc \in {"defaults", "ensure"}
  /\ settings' = Default
  /\ overtaken' = overtaken \cup
                    {p \in Caller : caller[p].pc \in {"default", "write"}}
  /\ Then(x, [pc |-> IF reset[x].pc = "defaults" THEN "settings" ELSE "find"])
  /\ UNCHANGED <<cacheVars, originVars, caller, historyVars, carried>>

GetSettings(x) ==
  /\ reset[x].pc = "settings"
  /\ Moves(x, [pc |-> IF settings.exists THEN "find" ELSE "ensure"])
  /\ UNCHANGED <<cacheVars, originVars, settings, caller, historyVars,
                 carried, overtaken>>

(* findBy of the warm keys ... *)
Find(x) ==
  /\ reset[x].pc = "find"
  /\ Moves(x, [pc |-> "warm", left |-> Warm,
               rows |-> [k \in Warm |-> origin[k]]])
  /\ UNCHANGED <<cacheVars, originVars, settings, caller, historyVars,
                 carried, overtaken>>

(* ... and a put of each. *)
WarmPut(x, k) ==
  /\ reset[x].pc = "warm"
  /\ k \in reset[x].left
  /\ Put(k, reset[x].rows[k])
  /\ Then(x, IF reset[x].left = {k} THEN Done
             ELSE [reset[x] EXCEPT !.left = @ \ {k}])
  /\ Taints(x)
  /\ carried' = IF reset'[x].pc = "warm" THEN carried ELSE carried \ {x}
  /\ UNCHANGED <<originVars, settings, caller, overtaken>>

(* Mutant of ResetFails: the failure is recorded and nothing else.         *)
ResetMarked(x) ==
  /\ reset[x] \notin {Resting, Done}
  /\ Moves(x, [pc |-> "failed"])
  /\ sweeping' = sweeping \ {x}
  /\ carried' = carried \ {x}
  /\ UNCHANGED <<cacheVars, originVars, settings, caller, swept, overtaken>>

(* A step of it throws, the rest is not done, and the command it waited    *)
(* for, if any, has not been executed and never will be: 500 to the        *)
(* console.  While a command it has given up is still to be executed it    *)
(* stays where it is, like a slow one; that command is then its last.      *)
ResetFails(x) ==
  /\ reset[x] \notin {Resting, Done}
  /\ Moves(x, Resting)
  /\ sweeping' = sweeping \ {x}
  /\ carried' = carried \ {x}
  /\ UNCHANGED <<cacheVars, originVars, settings, caller, swept, overtaken>>

-----------------------------------------------------------------------------
CallerStep(p) ==
  \/ \E k \in Key : BeginFill(p, k)
  \/ \E f \in Field : BeginPatch(p, f)
  \/ \E e \in outbox : Claim(p, e)
  \/ WriteDefaults(p) \/ ReadRow(p) \/ FillPut(p) \/ ReadValues(p)
  \/ WritePatch(p) \/ Apply(p) \/ Settle(p) \/ GiveUp(p)

ResetStep(x) ==
  \/ Reseed(x) \/ Scan(x) \/ Delete(x) \/ Restore(x) \/ GetSettings(x)
  \/ Find(x) \/ ResetFails(x)
  \/ \E k \in Warm : WarmPut(x, k)

Next ==
  \/ \E p \in Caller : CallerStep(p)
  \/ \E k \in Key, policy \in {"invalidate", "write-through"} : Write(k, policy)
  \/ \E k \in Key : Leave(k)
  \/ \E x \in Operator : ResetStep(x)

Spec == Init /\ [][Next]_vars

-----------------------------------------------------------------------------
(* Once Redis has been swept since the latest reseed no entry and no fence *)
(* is ahead of the new rows, though reads, jobs and workers never stopped, *)
(* other resets overlap with this one or have failed halfway, and commands *)
(* are executed late.  The only exception is what was read or claimed      *)
(* before the reseed, by a caller or for the warm puts of another reset,   *)
(* and comes to Redis after the SCAN.                                      *)
ResetLeavesNoOldData ==
  swept => \A k \in Key : cached[k] <= origin[k] /\ watermark[k] <= origin[k]

(* The same without the exception, once every reset is done.  The          *)
(* operation is documented in lab.controller.ts as "Restore deterministic  *)
(* origin, cache, metrics, and clock state".                               *)
ResetIsDeterministic ==
  (\A x \in Operator : reset[x] = Done) =>
    \A k \in Key : cached[k] <= origin[k] /\ watermark[k] <= origin[k]

(* A caller changes no setting but its own, and the defaults it writes     *)
(* change none, unless the hash was written or deleted between its read    *)
(* and its HSET.                                                           *)
PatchesKeepOtherSettings ==
  [][\A p \in Caller :
       /\ caller[p].pc \in {"default", "write"} /\ caller'[p] # caller[p]
       /\ p \notin overtaken
       => \A f \in Field :
            \/ f \in settings'.patched <=> f \in settings.patched
            \/ caller[p].task = "patch" /\ f = caller[p].field]_vars
=============================================================================
