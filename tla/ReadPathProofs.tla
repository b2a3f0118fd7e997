---------------------------- MODULE ReadPathProofs ----------------------------
(***************************************************************************)
(* Proofs about ReadPath, for every number of requests, replicas and       *)
(* workers, every set of modes and every bound: its types, who holds the   *)
(* lock, and how old an answer may be.                                     *)
(*                                                                         *)
(* The invariants are about one request, refresh or entry at a time, given *)
(* as a value, so that a lemma says what becomes of it when the rest of    *)
(* the system moves on.                                                    *)
(***************************************************************************)
EXTENDS ReadPath, NumberLemmas, FiniteSetTheorems, TLAPS

(* What the types of a request and of a refresh depend on where they are. *)
RequestTypes(q) ==
  /\ q.pc \in {"touch", "enqueue"} => q.got \in Entry
  /\ q.pc = "put" => q.version \in Nat
  /\ q.pc = "release" => q.result # "none"

RefreshTypes(x) == x.pc = "put" => x.version \in Nat

TypeInv ==
  /\ TypeOK
  /\ \A r \in Request : RequestTypes(req[r])
  /\ \A w \in Worker : RefreshTypes(exec[w])

-----------------------------------------------------------------------------
(* A lease is held on the way from the lock to its release, and the owners *)
(* that fetch without the lock are those whose lease ran out.              *)
LeaseHeld(q) == q.lease => q.pc \in {"origin", "put", "release"}

Fetchers == {r \in Request : Fetching(r)}

LeaseInv ==
  /\ \A r \in Request : req[r] \in Running => LeaseHeld(req[r])
  /\ IsFiniteSet(Fetchers)
  /\ Cardinality(Fetchers \ {lock}) <= expired

-----------------------------------------------------------------------------
(* Version v was the committed one at time t or later, and so was every    *)
(* version after it.                                                       *)
Since(v, t) ==
  \A u \in 0 .. MaxVersion : v <= u /\ superseded[u] # Nil => t <= superseded[u]

(* A row as somebody has read it who began at floor. *)
Row(v, floor) == v \in 0 .. origin /\ floor <= v /\ (v = 0 => origin = 0)

HistoryInv ==
  /\ origin \in 0 .. MaxVersion
  /\ \A u \in 0 .. MaxVersion :
       /\ superseded[u] <= clock
       /\ u >= origin \/ origin = 0 => superseded[u] = Nil

(* An entry is covered by the fence, was written a lifetime before its     *)
(* hard expiry, and was current then unless an event has replayed it.      *)
Aged(e) == e.replayed \/ Since(e.version, e.hard - MaxLife)

EntryInv ==
  /\ fence <= origin
  /\ entry # NoEntry => /\ Row(entry.version, fence)
                        /\ entry.soft <= entry.hard
                        /\ entry.version # 0 => entry.hard - MaxLife <= clock
                        /\ Aged(entry)

(* The record get or touch has returned to q: fresh at q.at, or stale.     *)
Fresh(e, at) == e.replayed \/ Since(e.version, at - MaxLife + 1)

RunningInv(q) ==
  /\ q.started <= clock /\ q.now <= clock /\ q.floor <= fence
  /\ q.pc \notin {"settings", "bypass", "release"} => q.started <= q.at /\ q.at <= clock
  /\ q.pc \in {"touch", "enqueue"} => Row(q.got.version, q.floor)
  /\ q.pc = "touch" => Fresh(q.got, q.at)
  /\ q.pc = "enqueue" => q.older \/ Fresh(q.got, q.at)
  /\ q.pc = "put" => Since(q.version, q.now)
  /\ q.pc \in {"put", "release"} /\ q.result # "ERROR" =>
       Row(q.version, q.floor) /\ Since(q.version, q.started)
  /\ q.pc = "release" => q.result \in {"MISS", "BYPASS", "ERROR"}
  /\ q.pc # "release" => q.result = "none"

AnsweredInv(q) ==
  /\ q.started <= clock
  /\ q.result # "ERROR" =>
       /\ Row(q.version, q.floor)
       /\ IF q.result \in {"MISS", "BYPASS"} THEN Since(q.version, q.started)
          ELSE \/ q.replayed
               \/ q.result = "STALE" /\ q.older
               \/ Since(q.version, q.started - MaxLife + 1)

RefreshInv(x) ==
  /\ x.now <= clock
  /\ x.pc = "put" => Row(x.version, Nil) /\ Since(x.version, x.now)

AnswerInv ==
  /\ HistoryInv
  /\ EntryInv
  /\ \A r \in Request : /\ req[r] \in Running => RunningInv(req[r])
                        /\ req[r].pc = "done" => AnsweredInv(req[r])
  /\ \A w \in Worker : exec[w] # Idle => RefreshInv(exec[w])

-----------------------------------------------------------------------------
(* What the parts of an action make of the record of a request.            *)
Requests == Running \cup Answered \cup {Idle, Dead}

Becomes(r, q) == req' = [req EXCEPT ![r] = q]

Keeps(p, q) ==
  /\ q.started = p.started /\ q.floor = p.floor /\ q.now = p.now
  /\ q.lease = p.lease /\ q.version = p.version /\ q.result = p.result

LEMMA RunningIsItsOwn ==
  ASSUME NEW p \in Running
  PROVE  p \notin Answered \cup {Idle, Dead} /\ p.pc \notin {"idle", "done", "dead"}
  BY DEF Running, Answered, Idle, Dead

LEMMA AtWork ==
  ASSUME NEW p \in Requests, p.pc \notin {"idle", "done", "dead"}
  PROVE  p \in Running
  BY DEF Requests, Answered, Idle, Dead

LEMMA GoesMeans ==
  ASSUME NEW r \in Request, req \in [Request -> Requests], req[r] \in Running,
         NEW pc \in {"drop", "origin", "bypass"}, Goes(r, pc)
  PROVE  \E q \in Running :
           /\ Becomes(r, q) /\ q.pc = pc /\ Keeps(req[r], q)
           /\ q.at = req[r].at /\ q.got = req[r].got /\ q.older = req[r].older
<1> DEFINE p == req[r]
           q == [p EXCEPT !.pc = pc]
<1>1. Becomes(r, q)
  BY DEF Goes, Becomes
<1>2. q \in Running /\ q.pc = pc /\ Keeps(p, q)
      /\ q.at = p.at /\ q.got = p.got /\ q.older = p.older
  BY DEF Running, Keeps
<1> QED
  BY <1>1, <1>2

LEMMA HoldingMeans ==
  ASSUME NEW r \in Request, req \in [Request -> Requests], req[r] \in Running,
         NEW pc \in {"touch", "enqueue", "lock", "poll", "origin"},
         NEW e \in Entry \cup {NoEntry}, Holding(r, e, pc)
  PROVE  \E q \in Running :
           /\ Becomes(r, q) /\ q.pc = pc /\ q.got = e /\ Keeps(req[r], q)
           /\ q.at = req[r].at /\ q.older = req[r].older
<1> DEFINE p == req[r]
           q == [p EXCEPT !.pc = pc, !.got = e]
<1>1. Becomes(r, q)
  BY DEF Holding, Becomes
<1>2. q \in Running /\ q.pc = pc /\ q.got = e /\ Keeps(p, q)
      /\ q.at = p.at /\ q.older = p.older
  BY DEF Running, Keeps
<1> QED
  BY <1>1, <1>2

LEMMA AnswerMeans ==
  ASSUME NEW r \in Request, req \in [Request -> Requests], req[r] \in Running,
         NEW result \in {"HIT", "STALE", "MISS", "BYPASS", "ERROR"},
         NEW v \in Nat \cup {Nil}, NEW replayed \in BOOLEAN,
         Answer(r, result, v, replayed)
  PROVE  \E q \in Answered :
           /\ Becomes(r, q) /\ q.pc = "done" /\ q.result = result
           /\ q.version = v /\ q.replayed = replayed
           /\ q.started = req[r].started /\ q.floor = req[r].floor
           /\ q.older = req[r].older
<1> DEFINE p == req[r]
           q == [pc |-> "done", result |-> result, version |-> v,
                 started |-> p.started, floor |-> p.floor,
                 replayed |-> replayed, older |-> p.older]
<1>1. Becomes(r, q)
  BY DEF Answer, Becomes
<1>2. p.started \in Nat /\ p.floor \in Nat \cup {Nil} /\ p.older \in BOOLEAN
  BY DEF Running
<1>3. q \in Answered
  BY <1>2 DEF Answered
<1> QED
  BY <1>1, <1>3

LEMMA FinishMeans ==
  ASSUME NEW r \in Request, req \in [Request -> Requests], req[r] \in Running,
         NEW result \in {"MISS", "BYPASS", "ERROR"}, NEW v \in Nat \cup {Nil},
         Finish(r, result, v)
  PROVE  \E q \in Running \cup Answered :
           /\ Becomes(r, q) /\ q.result = result /\ q.version = v
           /\ q.started = req[r].started /\ q.floor = req[r].floor
           /\ \/ /\ q \in Running /\ q.pc = "release" /\ q.lease = req[r].lease
                 /\ q.now = req[r].now /\ q.at = req[r].at
              \/ q \in Answered /\ q.pc = "done" /\ q.older = req[r].older
<1> DEFINE p == req[r]
<1>1. CASE p.lease
  <2> DEFINE q == [p EXCEPT !.pc = "release", !.result = result, !.version = v]
  <2>1. Becomes(r, q)
    BY <1>1 DEF Finish, Becomes
  <2>2. /\ q \in Running /\ q.pc = "release" /\ q.lease = p.lease
        /\ q.result = result /\ q.version = v
        /\ q.started = p.started /\ q.floor = p.floor
        /\ q.now = p.now /\ q.at = p.at
    BY DEF Running
  <2> QED
    BY <2>1, <2>2
<1>2. CASE ~p.lease
  <2> DEFINE q == [pc |-> "done", result |-> result, version |-> v,
                   started |-> p.started, floor |-> p.floor,
                   replayed |-> FALSE, older |-> p.older]
  <2>1. Becomes(r, q)
    BY <1>2 DEF Finish, Answer, Becomes
  <2>2. p.started \in Nat /\ p.floor \in Nat \cup {Nil} /\ p.older \in BOOLEAN
    BY DEF Running
  <2>3. q \in Answered
    BY <2>2 DEF Answered
  <2> QED
    BY <2>1, <2>3
<1> QED
  BY <1>1, <1>2

-----------------------------------------------------------------------------
(* Types.                                                                  *)
CacheTypes == entry \in Entry \cup {NoEntry} /\ fence \in Nat \cup {Nil}
BreakerTypes ==
  /\ failures \in [Instance -> 0 .. Threshold - 1]
  /\ open \in [Instance -> BOOLEAN]
RequestsTyped ==
  /\ req \in [Request -> Requests]
  /\ \A r \in Request : RequestTypes(req[r])
RefreshesTyped ==
  /\ job \in Job \cup {NoJob}
  /\ exec \in [Worker -> Exec \cup {Idle}]
  /\ \A w \in Worker : RefreshTypes(exec[w])
OriginTypes ==
  /\ origin \in Nat /\ superseded \in [0 .. MaxVersion -> Nat \cup {Nil}]
  /\ clock \in Nat
BoundTypes == {faults, expired, losses} \subseteq Nat

LEMMA TypeParts ==
  TypeInv <=> /\ CacheTypes /\ BreakerTypes /\ RequestsTyped /\ RefreshesTyped
              /\ OriginTypes /\ BoundTypes /\ lock \in Request \cup {Nobody}
  BY DEF TypeInv, TypeOK, CacheTypes, BreakerTypes, RequestsTyped,
         RefreshesTyped, OriginTypes, BoundTypes, Requests

LEMMA TypePartsNext ==
  TypeInv' <=> /\ CacheTypes' /\ BreakerTypes' /\ RequestsTyped' /\ RefreshesTyped'
               /\ OriginTypes' /\ BoundTypes' /\ lock' \in Request \cup {Nobody}
  BY DEF TypeInv, TypeOK, CacheTypes, BreakerTypes, RequestsTyped,
         RefreshesTyped, OriginTypes, BoundTypes, Requests

(* Parts that a step leaves alone.                                         *)
LEMMA TypesUntouched ==
  /\ UNCHANGED cacheVars => (CacheTypes' <=> CacheTypes)
  /\ UNCHANGED breakerVars => (BreakerTypes' <=> BreakerTypes)
  /\ UNCHANGED req => (RequestsTyped' <=> RequestsTyped)
  /\ UNCHANGED refreshVars => (RefreshesTyped' <=> RefreshesTyped)
  /\ UNCHANGED <<originVars, clock>> => (OriginTypes' <=> OriginTypes)
  /\ UNCHANGED boundVars => (BoundTypes' <=> BoundTypes)
  BY DEF CacheTypes, BreakerTypes, RequestsTyped, RefreshesTyped, OriginTypes,
         BoundTypes, cacheVars, breakerVars, refreshVars, originVars, boundVars

LEMMA BecomesTyped ==
  ASSUME RequestsTyped, NEW r \in Request, NEW q \in Requests, RequestTypes(q),
         Becomes(r, q)
  PROVE  /\ RequestsTyped'
         /\ req'[r] = q
         /\ \A s \in Request \ {r} : req'[s] = req[s]
  BY DEF RequestsTyped, Becomes

LEMMA NewEntryTyped ==
  ASSUME NEW v \in Nat, NEW now \in Nat, NEW mode \in Modes, NEW replayed \in BOOLEAN
  PROVE  /\ NewEntry(v, now, mode, replayed) \in Entry
         /\ NewEntry(v, now, mode, replayed).version = v
         /\ NewEntry(v, now, mode, replayed).replayed = replayed
         /\ NewEntry(v, now, mode, replayed).soft
              <= NewEntry(v, now, mode, replayed).hard
<1>1. mode.ttl \in Nat /\ mode.window \in Nat /\ mode.negativeTtl \in Nat
  BY ReadPathAssumption
<1> QED
  BY <1>1 DEF NewEntry, Entry

LEMMA PutTyped ==
  ASSUME CacheTypes, NEW v \in Nat, NEW now \in Nat, NEW mode \in Modes,
         NEW replayed \in BOOLEAN, PutEntry(v, now, mode, replayed)
  PROVE  CacheTypes'
  BY NewEntryTyped DEF PutEntry, CacheTypes, Raised, cacheVars

LEMMA PutUnreplayed ==
  ASSUME CacheTypes, NEW v \in Nat, NEW now \in Nat, NEW mode \in Modes,
         PutEntry(v, now, mode, FALSE)
  PROVE  CacheTypes'
<1>1. FALSE \in BOOLEAN
  OBVIOUS
<1>2. NewEntry(v, now, mode, FALSE) \in Entry
  BY <1>1, NewEntryTyped
<1> QED
  BY <1>2 DEF PutEntry, CacheTypes, Raised, cacheVars

LEMMA SucceedsTyped ==
  ASSUME BreakerTypes, NEW r \in Request, req[r] \in Running, Succeeds(r)
  PROVE  BreakerTypes'
<1>1. req[r].via \in Instance
  BY DEF Running
<1> QED
  BY <1>1, ReadPathAssumption DEF BreakerTypes, Succeeds

LEMMA FailsTyped ==
  ASSUME BreakerTypes, NEW r \in Request, req[r] \in Running, Fails(r)
  PROVE  BreakerTypes'
<1>1. req[r].via \in Instance
  BY DEF Running
<1> DEFINE i == req[r].via
<1> HIDE DEF i
<1>2. /\ failures' = [failures EXCEPT ![i] =
                        IF failures[i] + 1 >= Threshold THEN 0 ELSE failures[i] + 1]
      /\ open' = [open EXCEPT ![i] = open[i] \/ failures[i] + 1 >= Threshold]
      /\ i \in Instance
  BY <1>1 DEF Fails, i
<1>3. failures' \in [Instance -> 0 .. Threshold - 1]
  BY <1>2, ReadPathAssumption DEF BreakerTypes
<1>4. open' \in [Instance -> BOOLEAN]
  BY <1>2 DEF BreakerTypes
<1> QED
  BY <1>3, <1>4 DEF BreakerTypes

LEMMA FaultTyped == BoundTypes /\ Fault => BoundTypes'
  BY ReadPathAssumption DEF BoundTypes, Fault

-----------------------------------------------------------------------------
(* What each step of a read makes of its request: of Begin the request is  *)
(* new, in the others it is running.                                       *)
LEMMA AtWorkTyped ==
  ASSUME RequestsTyped, NEW r \in Request, req[r].pc \notin {"idle", "done", "dead"}
  PROVE  /\ req \in [Request -> Requests]
         /\ req[r] \in Running
         /\ RequestTypes(req[r])
  BY AtWork DEF RequestsTyped

LEMMA BeginMeans ==
  ASSUME RequestsTyped, CacheTypes, OriginTypes,
         NEW r \in Request, NEW i \in Instance, Begin(r, i)
  PROVE  \E q \in Running :
           /\ Becomes(r, q) /\ q.pc = "settings" /\ ~q.lease /\ q.result = "none"
           /\ q.started = clock /\ q.floor = fence /\ q.now = 0
<1> DEFINE m == CHOOSE m \in Modes : TRUE
           q == [pc |-> "settings", via |-> i, started |-> clock, floor |-> fence,
                 mode |-> m, now |-> 0, at |-> 0, got |-> NoEntry, tries |-> 0,
                 polling |-> FALSE, lease |-> FALSE, older |-> FALSE,
                 version |-> Nil, result |-> "none"]
<1>1. m \in Modes
  BY ReadPathAssumption
<1>2. Becomes(r, q)
  BY DEF Begin, Becomes
<1> HIDE DEF m
<1>3. q \in Running
  BY <1>1 DEF Running, CacheTypes, OriginTypes
<1> QED
  BY <1>2, <1>3

LEMMA ReadSettingsMeans ==
  ASSUME RequestsTyped, OriginTypes, NEW r \in Request, ReadSettings(r)
  PROVE  /\ req[r] \in Running /\ req[r].pc = "settings"
         /\ \E q \in Running :
              /\ Becomes(r, q) /\ q.pc = "get" /\ q.now = clock /\ q.at = clock
              /\ q.started = req[r].started /\ q.floor = req[r].floor
              /\ q.lease = req[r].lease /\ q.result = req[r].result
<1>1. PICK m \in Modes :
        req' = [req EXCEPT ![r].pc = "get", ![r].mode = m,
                           ![r].now = clock, ![r].at = clock]
  BY DEF ReadSettings
<1>2. req[r] \in Running /\ req \in [Request -> Requests] /\ req[r].pc = "settings"
  BY AtWorkTyped DEF ReadSettings
<1> DEFINE p == req[r]
           q == [p EXCEPT !.pc = "get", !.mode = m, !.now = clock, !.at = clock]
<1>3. Becomes(r, q)
  BY <1>1, <1>2 DEF Becomes
<1>4. /\ q \in Running /\ q.pc = "get" /\ q.now = clock /\ q.at = clock
      /\ q.started = p.started /\ q.floor = p.floor
      /\ q.lease = p.lease /\ q.result = p.result
  BY <1>2 DEF Running, OriginTypes
<1> QED
  BY <1>2, <1>3, <1>4

LEMMA AfterMeans ==
  ASSUME NEW q, NEW e
  PROVE  /\ After(q, e) \in {"enqueue", "lock", "poll", "origin"}
         /\ e = NoEntry => After(q, e) # "enqueue"
  BY DEF After

LEMMA LookupMeans ==
  ASSUME RequestsTyped, CacheTypes, OriginTypes, NEW r \in Request, Lookup(r)
  PROVE  /\ req[r] \in Running /\ req[r].pc = "get"
         /\ \E q \in Running :
              /\ Becomes(r, q) /\ Keeps(req[r], q) /\ q.at = req[r].at
              /\ q.older = req[r].older
              /\ \/ q.pc \in {"drop", "lock", "poll", "origin"}
                 \/ /\ q.pc \in {"touch", "enqueue"} /\ q.got = entry
                    /\ entry \in Entry /\ entry # NoEntry /\ entry.hard > q.at
<1> DEFINE p == req[r]
<1>1. p \in Running /\ req \in [Request -> Requests] /\ p.pc = "get"
  BY AtWorkTyped DEF Lookup
<1>2. CASE entry = NoEntry
  <2>1. Holding(r, NoEntry, After(p, NoEntry))
    BY <1>2 DEF Lookup
  <2>2. After(p, NoEntry) \in {"lock", "poll", "origin"}
    BY AfterMeans
  <2> DEFINE pc == After(p, NoEntry)
  <2> HIDE DEF pc
  <2>3. \E q \in Running :
          /\ Becomes(r, q) /\ q.pc = pc /\ q.got = NoEntry /\ Keeps(p, q)
          /\ q.at = p.at /\ q.older = p.older
    BY <1>1, <2>1, <2>2, HoldingMeans DEF pc
  <2> QED
    BY <1>1, <2>2, <2>3 DEF pc
<1>3. CASE entry # NoEntry
  <2>1. entry \in Entry /\ entry.hard \in Nat /\ p.at \in Nat
    BY <1>1, <1>3 DEF CacheTypes, Entry, Running
  <2>2. CASE entry.hard <= p.at
    <3>1. Goes(r, "drop")
      BY <1>3, <2>2 DEF Lookup
    <3>2. \E q \in Running :
            /\ Becomes(r, q) /\ q.pc = "drop" /\ Keeps(p, q)
            /\ q.at = p.at /\ q.got = p.got /\ q.older = p.older
      BY <1>1, <3>1, GoesMeans
    <3> QED
      BY <1>1, <3>2
  <2>3. CASE ~(entry.hard <= p.at)
    <3> DEFINE pc == IF entry.soft > p.at THEN "touch" ELSE After(p, entry)
    <3>1. Holding(r, entry, pc)
      BY <1>3, <2>3 DEF Lookup
    <3>2. pc \in {"touch", "enqueue", "lock", "poll", "origin"}
      BY AfterMeans
    <3> HIDE DEF pc
    <3>3. \E q \in Running :
            /\ Becomes(r, q) /\ q.pc = pc /\ q.got = entry /\ Keeps(p, q)
            /\ q.at = p.at /\ q.older = p.older
      BY <1>1, <2>1, <3>1, <3>2, HoldingMeans
    <3>4. entry.hard > p.at
      BY <2>1, <2>3
    <3> QED
      BY <1>1, <1>3, <2>1, <3>2, <3>3, <3>4
  <2> QED
    BY <2>2, <2>3
<1> QED
  BY <1>2, <1>3

LEMMA DropMeans ==
  ASSUME RequestsTyped, NEW r \in Request, DropExpired(r)
  PROVE  /\ req[r] \in Running /\ req[r].pc = "drop"
         /\ \E q \in Running :
              /\ Becomes(r, q) /\ Keeps(req[r], q) /\ q.at = req[r].at
              /\ q.pc \in {"lock", "poll", "origin"}
<1> DEFINE p == req[r]
           pc == After(p, NoEntry)
<1>1. p \in Running /\ req \in [Request -> Requests] /\ p.pc = "drop"
  BY AtWorkTyped DEF DropExpired
<1>2. Holding(r, NoEntry, pc)
  BY DEF DropExpired
<1>3. pc \in {"lock", "poll", "origin"}
  BY AfterMeans
<1> HIDE DEF pc
<1>4. \E q \in Running :
        /\ Becomes(r, q) /\ q.pc = pc /\ q.got = NoEntry /\ Keeps(p, q)
        /\ q.at = p.at /\ q.older = p.older
  BY <1>1, <1>2, <1>3, HoldingMeans
<1> QED
  BY <1>1, <1>3, <1>4

(* Touch answers, or goes on with what it has found. *)
LEMMA TouchMeans ==
  ASSUME RequestsTyped, CacheTypes, NEW r \in Request, Touch(r)
  PROVE  /\ req[r] \in Running /\ req[r].pc = "touch" /\ req[r].got \in Entry
         /\ \/ /\ entry \in Entry /\ entry # NoEntry /\ entry.soft > req[r].at
               /\ \E q \in Answered :
                    /\ Becomes(r, q) /\ q.pc = "done" /\ q.result = "HIT"
                    /\ q.version = entry.version /\ q.replayed = entry.replayed
                    /\ q.started = req[r].started /\ q.floor = req[r].floor
            \/ \E q \in Running :
                 /\ Becomes(r, q) /\ Keeps(req[r], q) /\ q.at = req[r].at
                 /\ \/ q.pc \in {"lock", "poll", "origin"}
                    \/ /\ q.pc = "enqueue" /\ entry \in Entry /\ entry # NoEntry
                       /\ q.got \in Entry /\ q.got.version = entry.version
                       /\ req[r].got.replayed => q.got.replayed
                       /\ q.older \/ req[r].got.version <= entry.version
<1> DEFINE p == req[r]
<1>1. /\ p \in Running /\ req \in [Request -> Requests] /\ p.pc = "touch"
      /\ p.got \in Entry
  BY AtWorkTyped DEF Touch, RequestTypes
<1>2. entry # NoEntry => entry \in Entry
  BY DEF CacheTypes
<1>3. CASE entry # NoEntry /\ entry.soft > p.at
  <2>1. Answer(r, "HIT", entry.version, entry.replayed)
    BY <1>3 DEF Touch
  <2>2. entry.version \in Nat \cup {Nil} /\ entry.replayed \in BOOLEAN
    BY <1>2, <1>3 DEF Entry
  <2>3. \E q \in Answered :
          /\ Becomes(r, q) /\ q.pc = "done" /\ q.result = "HIT"
          /\ q.version = entry.version /\ q.replayed = entry.replayed
          /\ q.started = p.started /\ q.floor = p.floor
          /\ q.older = p.older
    BY <1>1, <2>1, <2>2, AnswerMeans
  <2> QED
    BY <1>1, <1>2, <1>3, <2>3
<1>4. CASE ~(entry # NoEntry /\ entry.soft > p.at)
  <2> DEFINE pc == After(p, entry)
             e == IF entry = NoEntry THEN NoEntry
                  ELSE [entry EXCEPT !.replayed = entry.replayed \/ p.got.replayed]
             older == entry # NoEntry /\ entry.version < p.got.version
             q == [p EXCEPT !.pc = pc, !.got = e, !.older = older]
  <2>1. Becomes(r, q)
    BY <1>1, <1>4 DEF Touch, Becomes
  <2>2. pc \in {"enqueue", "lock", "poll", "origin"} /\ (entry = NoEntry => pc # "enqueue")
    BY AfterMeans
  <2>3. p.got.replayed \in BOOLEAN
    BY <1>1 DEF Entry
  <2>4. entry # NoEntry =>
          /\ e \in Entry /\ e.version = entry.version
          /\ p.got.replayed => e.replayed
    BY <1>2, <2>3 DEF Entry
  <2>5. older \in BOOLEAN /\ e \in Entry \cup {NoEntry}
    BY <2>4
  <2>6. entry # NoEntry => older \/ p.got.version <= entry.version
    BY <1>1, <1>2 DEF Entry
  <2> HIDE DEF pc, e, older
  <2>7. /\ q \in Running /\ q.pc = pc /\ q.got = e /\ q.older = older
        /\ Keeps(p, q) /\ q.at = p.at
    BY <1>1, <2>2, <2>5 DEF Running, Keeps
  <2> HIDE DEF q
  <2> QED
    BY <1>1, <1>2, <2>1, <2>2, <2>4, <2>6, <2>7
<1> QED
  BY <1>3, <1>4

LEMMA EnqueueMeans ==
  ASSUME RequestsTyped, NEW r \in Request, EnqueueRefresh(r)
  PROVE  /\ req[r] \in Running /\ req[r].pc = "enqueue" /\ req[r].got \in Entry
         /\ \E q \in Answered :
              /\ Becomes(r, q) /\ q.pc = "done" /\ q.result = "STALE"
              /\ q.version = req[r].got.version /\ q.replayed = req[r].got.replayed
              /\ q.started = req[r].started /\ q.floor = req[r].floor
              /\ q.older = req[r].older
<1> DEFINE p == req[r]
<1>1. /\ p \in Running /\ req \in [Request -> Requests] /\ p.pc = "enqueue"
      /\ p.got \in Entry
  BY AtWorkTyped DEF EnqueueRefresh, RequestTypes
<1> DEFINE q == [pc |-> "done", result |-> "STALE", version |-> p.got.version,
                 started |-> p.started, floor |-> p.floor,
                 replayed |-> p.got.replayed, older |-> p.older]
<1>2. Becomes(r, q)
  BY DEF EnqueueRefresh, Answer, Becomes
<1>3. /\ p.started \in Nat /\ p.floor \in Nat \cup {Nil} /\ p.older \in BOOLEAN
      /\ p.got.version \in Nat \cup {Nil} /\ p.got.replayed \in BOOLEAN
  BY <1>1 DEF Running, Entry
<1>4. q \in Answered
  BY <1>3 DEF Answered
<1> QED
  BY <1>1, <1>2, <1>4

LEMMA AcquireMeans ==
  ASSUME RequestsTyped, NEW r \in Request, Acquire(r)
  PROVE  /\ req[r] \in Running /\ req[r].pc = "lock"
         /\ \E q \in Running :
              /\ Becomes(r, q)
              /\ q.pc = (IF lock' = r THEN "origin" ELSE "poll")
              /\ q.lease = (lock' = r) /\ q.result = req[r].result
              /\ q.started = req[r].started /\ q.floor = req[r].floor
              /\ q.now = req[r].now /\ q.at = req[r].at
<1> DEFINE p == req[r]
           mine == lock' = r
           q == [p EXCEPT !.pc = IF mine THEN "origin" ELSE "poll", !.lease = mine]
<1>1. p \in Running /\ req \in [Request -> Requests] /\ p.pc = "lock"
  BY AtWorkTyped DEF Acquire
<1>2. Becomes(r, q)
  BY <1>1 DEF Acquire, Becomes
<1>3. mine \in BOOLEAN /\ (mine <=> lock' = r)
  OBVIOUS
<1> HIDE DEF mine
<1>4. /\ q \in Running /\ q.pc = (IF mine THEN "origin" ELSE "poll")
      /\ q.lease = mine /\ q.result = p.result
      /\ q.started = p.started /\ q.floor = p.floor
      /\ q.now = p.now /\ q.at = p.at
  BY <1>1, <1>3 DEF Running
<1> HIDE DEF q
<1> QED
  BY <1>1, <1>2, <1>3, <1>4 DEF mine

LEMMA PollMeans ==
  ASSUME RequestsTyped, OriginTypes, NEW r \in Request, Poll(r)
  PROVE  /\ req[r] \in Running /\ req[r].pc = "poll"
         /\ \E q \in Running :
              /\ Becomes(r, q) /\ Keeps(req[r], q)
              /\ \/ q.pc = "get" /\ q.at = clock
                 \/ q.pc = "origin" /\ q.at = req[r].at
<1> DEFINE p == req[r]
<1>1. p \in Running /\ req \in [Request -> Requests] /\ p.pc = "poll"
  BY AtWorkTyped DEF Poll
<1>2. CASE p.tries < MaxPolls
  <2> DEFINE n == p.tries + 1
             q == [p EXCEPT !.pc = "get", !.at = clock, !.tries = n,
                            !.polling = TRUE]
  <2>1. Becomes(r, q)
    BY <1>1, <1>2 DEF Poll, Becomes
  <2>3. p.tries + 1 \in Nat /\ clock \in Nat
    BY <1>1 DEF Running, OriginTypes
  <2> HIDE DEF n
  <2>4. n \in Nat
    BY <2>3 DEF n
  <2>2. q \in Running /\ q.pc = "get" /\ q.at = clock /\ Keeps(p, q)
    BY <1>1, <2>3, <2>4 DEF Running, Keeps
  <2> QED
    BY <1>1, <2>1, <2>2
<1>3. CASE ~(p.tries < MaxPolls)
  <2>1. Goes(r, "origin")
    BY <1>3 DEF Poll, Goes
  <2>2. \E q \in Running :
          /\ Becomes(r, q) /\ q.pc = "origin" /\ Keeps(p, q)
          /\ q.at = p.at /\ q.got = p.got /\ q.older = p.older
    BY <1>1, <2>1, GoesMeans
  <2> QED
    BY <1>1, <2>2
<1> QED
  BY <1>2, <1>3

LEMMA ReadOriginMeans ==
  ASSUME RequestsTyped, OriginTypes, NEW r \in Request, ReadOrigin(r)
  PROVE  /\ req[r] \in Running /\ req[r].pc = "origin"
         /\ \E q \in Running :
              /\ Becomes(r, q) /\ q.pc = "put" /\ q.version = origin
              /\ q.lease = req[r].lease /\ q.result = req[r].result
              /\ q.started = req[r].started /\ q.floor = req[r].floor
              /\ q.now = req[r].now /\ q.at = req[r].at
<1> DEFINE p == req[r]
           q == [p EXCEPT !.pc = "put", !.version = origin]
<1>1. p \in Running /\ req \in [Request -> Requests] /\ p.pc = "origin"
  BY AtWorkTyped DEF ReadOrigin
<1>2. Becomes(r, q)
  BY <1>1 DEF ReadOrigin, Becomes
<1>3. /\ q \in Running /\ q.pc = "put" /\ q.version = origin
      /\ q.lease = p.lease /\ q.result = p.result
      /\ q.started = p.started /\ q.floor = p.floor
      /\ q.now = p.now /\ q.at = p.at
  BY <1>1 DEF Running, OriginTypes
<1> QED
  BY <1>1, <1>2, <1>3

(* A request leaves read with an answer, by way of Release when it holds a *)
(* lease.                                                                  *)
Leaves(r, result, v) ==
  /\ req[r] \in Running
  /\ \E q \in Running \cup Answered :
       /\ Becomes(r, q) /\ q.result = result /\ q.version = v
       /\ q.started = req[r].started /\ q.floor = req[r].floor
       /\ \/ /\ q \in Running /\ q.pc = "release" /\ q.lease = req[r].lease
             /\ q.now = req[r].now /\ q.at = req[r].at
          \/ q \in Answered /\ q.pc = "done"

LEMMA FinishLeaves ==
  ASSUME RequestsTyped, NEW r \in Request, req[r].pc \in {"put", "origin", "bypass"},
         NEW result \in {"MISS", "BYPASS", "ERROR"}, NEW v \in Nat \cup {Nil},
         Finish(r, result, v)
  PROVE  Leaves(r, result, v)
<1>1. req[r] \in Running /\ req \in [Request -> Requests]
  BY AtWorkTyped
<1>2. PICK q \in Running \cup Answered :
        /\ Becomes(r, q) /\ q.result = result /\ q.version = v
        /\ q.started = req[r].started /\ q.floor = req[r].floor
        /\ \/ /\ q \in Running /\ q.pc = "release" /\ q.lease = req[r].lease
              /\ q.now = req[r].now /\ q.at = req[r].at
           \/ q \in Answered /\ q.pc = "done" /\ q.older = req[r].older
  BY <1>1, FinishMeans
<1> QED
  BY <1>1, <1>2 DEF Leaves

LEMMA PutLeaves ==
  ASSUME RequestsTyped, NEW r \in Request, req[r].pc = "put",
         NEW result \in {"MISS", "BYPASS"}, Finish(r, result, req[r].version)
  PROVE  Leaves(r, result, req[r].version)
<1>1. req[r].version \in Nat
  BY DEF RequestsTyped, RequestTypes
<1> DEFINE v == req[r].version
<1> HIDE DEF v
<1>2. v \in Nat \cup {Nil} /\ Finish(r, result, v) /\ result \in {"MISS", "BYPASS", "ERROR"}
  BY <1>1 DEF v
<1>3. Leaves(r, result, v)
  BY <1>2, FinishLeaves
<1> QED
  BY <1>3 DEF v

(* The answer of Release, and the one of readBypass. *)
LEMMA ReleaseMeans ==
  ASSUME RequestsTyped, NEW r \in Request, req[r].pc = "release",
         Answer(r, req[r].result, req[r].version, FALSE)
  PROVE  /\ req[r] \in Running
         /\ \E q \in Answered :
              /\ Becomes(r, q) /\ q.pc = "done"
              /\ q.result = req[r].result /\ q.version = req[r].version
              /\ q.started = req[r].started /\ q.floor = req[r].floor
<1> DEFINE p == req[r]
           q == [pc |-> "done", result |-> p.result, version |-> p.version,
                 started |-> p.started, floor |-> p.floor,
                 replayed |-> FALSE, older |-> p.older]
<1>1. p \in Running /\ p.result # "none"
  BY AtWorkTyped DEF RequestTypes
<1>2. Becomes(r, q)
  BY DEF Answer, Becomes
<1>3. /\ p.started \in Nat /\ p.floor \in Nat \cup {Nil} /\ p.older \in BOOLEAN
      /\ p.result \in {"MISS", "BYPASS", "ERROR"} /\ p.version \in Nat \cup {Nil}
  BY <1>1 DEF Running
<1>4. q \in Answered
  BY <1>3 DEF Answered
<1> QED
  BY <1>1, <1>2, <1>4

LEMMA BypassMeans ==
  ASSUME RequestsTyped, OriginTypes, NEW r \in Request, Bypass(r)
  PROVE  /\ req[r] \in Running
         /\ \E q \in Answered :
              /\ Becomes(r, q) /\ q.pc = "done" /\ q.result = "BYPASS"
              /\ q.version = origin
              /\ q.started = req[r].started /\ q.floor = req[r].floor
<1> DEFINE p == req[r]
           q == [pc |-> "done", result |-> "BYPASS", version |-> origin,
                 started |-> p.started, floor |-> p.floor,
                 replayed |-> FALSE, older |-> p.older]
<1>1. p \in Running
  BY AtWorkTyped DEF Bypass
<1>2. Becomes(r, q)
  BY DEF Bypass, Answer, Becomes
<1>3. /\ p.started \in Nat /\ p.floor \in Nat \cup {Nil} /\ p.older \in BOOLEAN
  BY <1>1 DEF Running
<1>4. q \in Answered
  BY <1>3 DEF Answered, OriginTypes
<1> QED
  BY <1>1, <1>2, <1>4

(* A request gives up on the cache. *)
TurnsAway(r) ==
  /\ req[r] \in Running /\ req[r].pc # "release"
  /\ \E q \in Running : /\ Becomes(r, q) /\ q.pc = "bypass" /\ Keeps(req[r], q)

LEMMA GoesAway ==
  ASSUME RequestsTyped, NEW r \in Request,
         req[r].pc \in BreakerGuards \cup {"drop", "enqueue", "poll"},
         Goes(r, "bypass")
  PROVE  TurnsAway(r)
<1>1. /\ req[r] \in Running /\ req \in [Request -> Requests]
      /\ req[r].pc # "release"
  BY AtWorkTyped DEF BreakerGuards
<1>2. PICK q \in Running :
        /\ Becomes(r, q) /\ q.pc = "bypass" /\ Keeps(req[r], q)
        /\ q.at = req[r].at /\ q.got = req[r].got /\ q.older = req[r].older
  BY <1>1, GoesMeans
<1> QED
  BY <1>1, <1>2 DEF TurnsAway

-----------------------------------------------------------------------------
(* Every action keeps the types.                                           *)
LEMMA RequestTyped ==
  ASSUME RequestsTyped, NEW r \in Request,
         \E q \in Running \cup Answered : Becomes(r, q) /\ RequestTypes(q)
  PROVE  RequestsTyped'
  BY BecomesTyped DEF Requests

LEMMA LeavesTyped ==
  ASSUME RequestsTyped, NEW r \in Request,
         NEW result \in {"MISS", "BYPASS", "ERROR"}, NEW v, Leaves(r, result, v)
  PROVE  RequestsTyped'
<1>1. PICK q \in Running \cup Answered :
        Becomes(r, q) /\ q.result = result /\ q.pc \in {"release", "done"}
  BY DEF Leaves
<1>2. RequestTypes(q)
  BY <1>1 DEF RequestTypes
<1> QED
  BY <1>1, <1>2, RequestTyped

LEMMA TurnsAwayTyped ==
  ASSUME RequestsTyped, NEW r \in Request, TurnsAway(r)
  PROVE  RequestsTyped'
<1>1. PICK q \in Running : Becomes(r, q) /\ q.pc = "bypass"
  BY DEF TurnsAway
<1>2. RequestTypes(q)
  BY <1>1 DEF RequestTypes
<1> QED
  BY <1>1, <1>2, RequestTyped

LEMMA LockTyped ==
  ASSUME lock \in Request \cup {Nobody}, NEW r \in Request,
         SetNX(r) \/ DelIfMine(r) \/ UNCHANGED lock
  PROVE  lock' \in Request \cup {Nobody}
  BY DEF SetNX, DelIfMine

LEMMA AddJobTyped ==
  ASSUME RefreshesTyped, AddJob \/ UNCHANGED job, UNCHANGED exec
  PROVE  RefreshesTyped'
<1>1. [state |-> "queued", tries |-> 0] \in Job
  BY DEF Job
<1> QED
  BY <1>1 DEF RefreshesTyped, AddJob

LEMMA PutRowTyped ==
  ASSUME RequestsTyped, CacheTypes, NEW r \in Request, req[r].pc = "put",
         PutEntry(req[r].version, req[r].now, req[r].mode, FALSE)
  PROVE  CacheTypes'
<1>1. /\ req[r] \in Running /\ req[r].version \in Nat
  BY AtWorkTyped DEF RequestTypes
<1>2. req[r].now \in Nat /\ req[r].mode \in Modes
  BY <1>1 DEF Running
<1> QED
  BY <1>1, <1>2, PutUnreplayed

(* What the steps of a request leave alone. *)
LEMMA SharedTyped ==
  ASSUME TypeInv, RequestsTyped',
         CacheTypes' \/ UNCHANGED cacheVars,
         BreakerTypes' \/ UNCHANGED breakerVars,
         RefreshesTyped' \/ UNCHANGED refreshVars,
         UNCHANGED <<originVars, clock>>,
         BoundTypes' \/ UNCHANGED boundVars,
         lock' \in Request \cup {Nobody} \/ UNCHANGED lock
  PROVE  TypeInv'
  BY TypeParts, TypePartsNext, TypesUntouched

LEMMA BeginTyped ==
  ASSUME TypeInv, NEW r \in Request, NEW i \in Instance, Begin(r, i)
  PROVE  TypeInv'
<1>1. PICK q \in Running : Becomes(r, q) /\ q.pc = "settings"
  BY TypeParts, BeginMeans
<1>2. RequestsTyped'
  BY <1>1, TypeParts, RequestTyped DEF RequestTypes
<1> QED
  BY <1>2, SharedTyped DEF Begin

LEMMA LookingTyped ==
  ASSUME TypeInv, NEW r \in Request, ReadSettings(r) \/ Lookup(r) \/ Touch(r)
  PROVE  TypeInv'
<1>1. CASE ReadSettings(r)
  <2>1. PICK q \in Running : Becomes(r, q) /\ q.pc = "get"
    BY <1>1, TypeParts, ReadSettingsMeans
  <2>2. RequestsTyped'
    BY <2>1, TypeParts, RequestTyped DEF RequestTypes
  <2>3. BreakerTypes'
    BY <1>1, TypeParts, ReadSettingsMeans, SucceedsTyped DEF ReadSettings
  <2> QED
    BY <1>1, <2>2, <2>3, SharedTyped DEF ReadSettings
<1>2. CASE Lookup(r)
  <2>1. PICK q \in Running :
          /\ Becomes(r, q)
          /\ q.pc \in {"touch", "enqueue"} => q.got \in Entry
          /\ q.pc \in {"drop", "lock", "poll", "origin", "touch", "enqueue"}
    BY <1>2, TypeParts, LookupMeans
  <2>2. RequestsTyped'
    BY <2>1, TypeParts, RequestTyped DEF RequestTypes
  <2>3. BreakerTypes' \/ UNCHANGED breakerVars
    BY <1>2, TypeParts, LookupMeans, SucceedsTyped DEF Lookup
  <2> QED
    BY <1>2, <2>2, <2>3, SharedTyped DEF Lookup
<1>3. CASE Touch(r)
  <2>1. PICK q \in Running \cup Answered :
          /\ Becomes(r, q)
          /\ q.pc = "enqueue" => q.got \in Entry
          /\ q.pc \in {"done", "lock", "poll", "origin", "enqueue"}
    BY <1>3, TypeParts, TouchMeans
  <2>2. RequestsTyped'
    BY <2>1, TypeParts, RequestTyped DEF RequestTypes
  <2>3. BreakerTypes'
    BY <1>3, TypeParts, TouchMeans, SucceedsTyped DEF Touch
  <2> QED
    BY <1>3, <2>2, <2>3, SharedTyped DEF Touch
<1> QED
  BY <1>1, <1>2, <1>3

LEMMA DropTyped ==
  ASSUME TypeInv, NEW r \in Request, DropExpired(r)
  PROVE  TypeInv'
<1>1. PICK q \in Running : Becomes(r, q) /\ q.pc \in {"lock", "poll", "origin"}
  BY TypeParts, DropMeans
<1>2. RequestsTyped'
  BY <1>1, TypeParts, RequestTyped DEF RequestTypes
<1>3. BreakerTypes'
  BY TypeParts, DropMeans, SucceedsTyped DEF DropExpired
<1>4. CacheTypes'
  BY TypeParts DEF DropExpired, CacheTypes
<1> QED
  BY <1>2, <1>3, <1>4, SharedTyped DEF DropExpired

LEMMA EnqueueTyped ==
  ASSUME TypeInv, NEW r \in Request, EnqueueRefresh(r)
  PROVE  TypeInv'
<1>1. PICK q \in Answered : Becomes(r, q) /\ q.pc = "done"
  BY TypeParts, EnqueueMeans
<1>2. RequestsTyped'
  BY <1>1, TypeParts, RequestTyped DEF RequestTypes
<1>3. RefreshesTyped'
  BY TypeParts, AddJobTyped DEF EnqueueRefresh
<1> QED
  BY <1>2, <1>3, SharedTyped DEF EnqueueRefresh

LEMMA AcquireTyped ==
  ASSUME TypeInv, NEW r \in Request, Acquire(r)
  PROVE  TypeInv'
<1>1. PICK q \in Running : Becomes(r, q) /\ q.pc \in {"origin", "poll"}
  BY TypeParts, AcquireMeans
<1>2. RequestsTyped'
  BY <1>1, TypeParts, RequestTyped DEF RequestTypes
<1>3. BreakerTypes'
  BY TypeParts, AcquireMeans, SucceedsTyped DEF Acquire
<1>4. lock' \in Request \cup {Nobody}
  BY TypeParts, LockTyped DEF Acquire
<1> QED
  BY <1>2, <1>3, <1>4, SharedTyped DEF Acquire

LEMMA WaitingTyped ==
  ASSUME TypeInv, NEW r \in Request, Poll(r) \/ ReadOrigin(r)
  PROVE  TypeInv'
<1>1. CASE Poll(r)
  <2>1. PICK q \in Running : Becomes(r, q) /\ q.pc \in {"get", "origin"}
    BY <1>1, TypeParts, PollMeans
  <2>2. RequestsTyped'
    BY <2>1, TypeParts, RequestTyped DEF RequestTypes
  <2> QED
    BY <1>1, <2>2, SharedTyped DEF Poll
<1>2. CASE ReadOrigin(r)
  <2>1. PICK q \in Running : Becomes(r, q) /\ q.pc = "put" /\ q.version = origin
    BY <1>2, TypeParts, ReadOriginMeans
  <2>2. RequestsTyped'
    BY <2>1, TypeParts, RequestTyped DEF RequestTypes, OriginTypes
  <2> QED
    BY <1>2, <2>2, SharedTyped DEF ReadOrigin
<1> QED
  BY <1>1, <1>2

LEMMA FillTyped ==
  ASSUME TypeInv, NEW r \in Request, Fill(r)
  PROVE  TypeInv'
<1>1. Leaves(r, "MISS", req[r].version)
  BY TypeParts, PutLeaves DEF Fill
<1>2. RequestsTyped'
  BY <1>1, TypeParts, LeavesTyped
<1>3. BreakerTypes'
  BY <1>1, TypeParts, SucceedsTyped DEF Fill, Leaves
<1>4. CacheTypes'
  BY TypeParts, PutRowTyped DEF Fill
<1> QED
  BY <1>2, <1>3, <1>4, SharedTyped DEF Fill

LEMMA LeavingTyped ==
  ASSUME TypeInv, NEW r \in Request, Release(r) \/ Bypass(r) \/ Refused(r)
  PROVE  TypeInv'
<1>1. CASE Release(r)
  <2>1. PICK q \in Answered : Becomes(r, q) /\ q.pc = "done"
    BY <1>1, TypeParts, ReleaseMeans DEF Release
  <2>2. RequestsTyped'
    BY <2>1, TypeParts, RequestTyped DEF RequestTypes
  <2>3. lock' \in Request \cup {Nobody}
    BY <1>1, TypeParts, LockTyped DEF Release
  <2> QED
    BY <1>1, <2>2, <2>3, SharedTyped DEF Release
<1>2. CASE Bypass(r)
  <2>1. PICK q \in Answered : Becomes(r, q) /\ q.pc = "done"
    BY <1>2, TypeParts, BypassMeans
  <2>2. RequestsTyped'
    BY <2>1, TypeParts, RequestTyped DEF RequestTypes
  <2> QED
    BY <1>2, <2>2, SharedTyped DEF Bypass
<1>3. CASE Refused(r)
  <2>1. CASE req[r].pc = "put"
    <3>1. Leaves(r, "BYPASS", req[r].version)
      BY <1>3, <2>1, TypeParts, PutLeaves DEF Refused
    <3>2. RequestsTyped'
      BY <3>1, TypeParts, LeavesTyped
    <3> QED
      BY <1>3, <3>2, SharedTyped DEF Refused
  <2>2. CASE req[r].pc # "put"
    <3>1. TurnsAway(r)
      BY <1>3, <2>2, TypeParts, GoesAway DEF Refused
    <3>2. RequestsTyped'
      BY <3>1, TypeParts, TurnsAwayTyped
    <3> QED
      BY <1>3, <3>2, SharedTyped DEF Refused
  <2> QED
    BY <2>1, <2>2
<1> QED
  BY <1>1, <1>2, <1>3

-----------------------------------------------------------------------------
(* What goes wrong in a request makes it leave or turn away. *)
RowPut(r) == PutEntry(req[r].version, req[r].now, req[r].mode, FALSE)

LEMMA CommandFailsMeans ==
  ASSUME RequestsTyped, NEW r \in Request, CommandFails(r)
  PROVE  /\ Fails(r) /\ Fault
         /\ UNCHANGED <<originVars, clock, refreshVars>>
         /\ \/ /\ req[r].pc = "put" /\ Leaves(r, "BYPASS", req[r].version)
               /\ RowPut(r) \/ UNCHANGED cacheVars
               /\ UNCHANGED lock
            \/ /\ TurnsAway(r)
               /\ SetNX(r) \/ UNCHANGED lock
               /\ UNCHANGED fence /\ entry' \in {entry, NoEntry}
<1>1. Fails(r) /\ Fault /\ UNCHANGED <<originVars, clock, refreshVars>>
  BY DEF CommandFails
<1>2. req[r].pc \in BreakerGuards \cup {"drop"}
  BY DEF CommandFails
<1>3. CASE req[r].pc = "put"
  <2>1. /\ RowPut(r) \/ UNCHANGED cacheVars
        /\ Finish(r, "BYPASS", req[r].version)
        /\ UNCHANGED lock
    BY <1>3 DEF CommandFails, RowPut
  <2>2. Leaves(r, "BYPASS", req[r].version)
    BY <1>3, <2>1, PutLeaves
  <2> QED
    BY <1>1, <1>3, <2>1, <2>2
<1>4. CASE req[r].pc # "put"
  <2>1. Goes(r, "bypass")
    BY <1>4 DEF CommandFails
  <2>2. TurnsAway(r)
    BY <1>2, <2>1, GoesAway
  <2>3. /\ SetNX(r) \/ UNCHANGED lock
        /\ UNCHANGED fence /\ entry' \in {entry, NoEntry}
    BY <1>4 DEF CommandFails, cacheVars
  <2> QED
    BY <1>1, <2>2, <2>3
<1> QED
  BY <1>3, <1>4

LEMMA UnguardedFailsMeans ==
  ASSUME RequestsTyped, NEW r \in Request, UnguardedFails(r)
  PROVE  /\ Fault
         /\ UNCHANGED <<originVars, clock, cacheVars, breakerVars, exec>>
         /\ AddJob \/ UNCHANGED job
         /\ \/ TurnsAway(r) /\ UNCHANGED lock
            \/ /\ req[r].pc = "release"
               /\ Answer(r, req[r].result, req[r].version, FALSE)
               /\ DelIfMine(r) \/ UNCHANGED lock
<1>1. req[r].pc \in {"enqueue", "poll", "release"}
  BY DEF UnguardedFails
<1>2. CASE req[r].pc = "release"
  BY <1>2 DEF UnguardedFails
<1>3. CASE req[r].pc # "release"
  <2>1. Goes(r, "bypass")
    BY <1>3 DEF UnguardedFails
  <2>2. TurnsAway(r)
    BY <1>1, <1>3, <2>1, GoesAway
  <2> QED
    BY <1>1, <1>3, <2>2 DEF UnguardedFails
<1> QED
  BY <1>2, <1>3

LEMMA OriginFailsMeans ==
  ASSUME RequestsTyped, NEW r \in Request, OriginFails(r)
  PROVE  Leaves(r, "ERROR", Nil)
  BY FinishLeaves DEF OriginFails

LEMMA TroubleTyped ==
  ASSUME TypeInv, NEW r \in Request, Trouble(r)
  PROVE  TypeInv'
<1>1. CASE CommandFails(r)
  <2>1. RequestsTyped' /\ req[r] \in Running
    <3> DEFINE v == req[r].version
    <3> HIDE DEF v
    <3>1. RequestsTyped
      BY TypeParts
    <3>2. Leaves(r, "BYPASS", v) \/ TurnsAway(r)
      BY <1>1, <3>1, CommandFailsMeans DEF v
    <3>3. CASE Leaves(r, "BYPASS", v)
      BY <3>1, <3>3, LeavesTyped DEF Leaves
    <3>4. CASE TurnsAway(r)
      BY <3>1, <3>4, TurnsAwayTyped DEF TurnsAway
    <3> QED
      BY <3>2, <3>3, <3>4
  <2>2. BreakerTypes' /\ BoundTypes'
    BY <1>1, <2>1, TypeParts, CommandFailsMeans, FailsTyped, FaultTyped
  <2>3. CacheTypes' \/ UNCHANGED cacheVars
    BY <1>1, TypeParts, CommandFailsMeans, PutRowTyped DEF RowPut, CacheTypes
  <2>4. lock' \in Request \cup {Nobody}
    BY <1>1, TypeParts, CommandFailsMeans, LockTyped
  <2> QED
    BY <1>1, <2>1, <2>2, <2>3, <2>4, CommandFailsMeans, TypeParts, SharedTyped
<1>2. CASE UnguardedFails(r)
  <2>1. RequestsTyped'
    <3>1. CASE TurnsAway(r)
      BY <3>1, TypeParts, TurnsAwayTyped
    <3>2. CASE req[r].pc = "release" /\ Answer(r, req[r].result, req[r].version, FALSE)
      <4>1. PICK q \in Answered : Becomes(r, q) /\ q.pc = "done"
        BY <3>2, TypeParts, ReleaseMeans
      <4> QED
        BY <4>1, TypeParts, RequestTyped DEF RequestTypes
    <3> QED
      BY <1>2, <3>1, <3>2, TypeParts, UnguardedFailsMeans
  <2>2. BoundTypes' /\ RefreshesTyped'
    BY <1>2, TypeParts, UnguardedFailsMeans, FaultTyped, AddJobTyped
  <2>3. lock' \in Request \cup {Nobody}
    BY <1>2, TypeParts, UnguardedFailsMeans, LockTyped
  <2> QED
    BY <1>2, <2>1, <2>2, <2>3, UnguardedFailsMeans, TypeParts, SharedTyped
<1>3. CASE OriginFails(r)
  <2>1. RequestsTyped'
    BY <1>3, TypeParts, OriginFailsMeans, LeavesTyped
  <2>2. BoundTypes'
    BY <1>3, TypeParts, FaultTyped DEF OriginFails
  <2> QED
    BY <1>3, <2>1, <2>2, SharedTyped DEF OriginFails
<1> QED
  BY <1>1, <1>2, <1>3 DEF Trouble

(* All of a replica's requests die, or lose their floor. *)
LEMMA CrashTyped ==
  ASSUME TypeInv, NEW i \in Instance, Crash(i)
  PROVE  TypeInv'
<1>1. RequestsTyped /\ BreakerTypes /\ BoundTypes
  BY TypeParts
<1>2. /\ DOMAIN req' = Request
      /\ req' = [r \in Request |-> req'[r]]
      /\ \A r \in Request : req'[r] = req[r] \/ req'[r] = Dead
  BY DEF Crash
<1>3. Dead \in Requests /\ RequestTypes(Dead)
  BY DEF Requests, Dead, RequestTypes
<1>4. RequestsTyped'
  BY <1>1, <1>2, <1>3 DEF RequestsTyped
<1>5. BreakerTypes'
  BY <1>1, ReadPathAssumption DEF Crash, BreakerTypes
<1> QED
  BY <1>1, <1>4, <1>5, FaultTyped, SharedTyped DEF Crash

LEMMA FlushMeans ==
  ASSUME RequestsTyped, NEW r \in Request, Flush
  PROVE  \/ req'[r] = req[r] /\ req[r].pc \in {"idle", "done", "dead"}
         \/ /\ req[r] \in Running /\ req'[r] \in Running /\ req'[r].floor = Nil
            /\ req'[r].pc = req[r].pc /\ req'[r].got = req[r].got
            /\ req'[r].started = req[r].started /\ req'[r].now = req[r].now
            /\ req'[r].at = req[r].at /\ req'[r].older = req[r].older
            /\ req'[r].lease = req[r].lease /\ req'[r].version = req[r].version
            /\ req'[r].result = req[r].result
<1>1. CASE req[r].pc \in {"idle", "done", "dead"}
  BY <1>1 DEF Flush
<1>2. CASE req[r].pc \notin {"idle", "done", "dead"}
  <2> DEFINE p == req[r]
             q == [p EXCEPT !.floor = Nil]
  <2>1. req'[r] = q
    BY <1>2 DEF Flush
  <2>2. p \in Running
    BY <1>2, AtWorkTyped
  <2>3. /\ q \in Running /\ q.floor = Nil
        /\ q.pc = p.pc /\ q.got = p.got
        /\ q.started = p.started /\ q.now = p.now
        /\ q.at = p.at /\ q.older = p.older
        /\ q.lease = p.lease /\ q.version = p.version
        /\ q.result = p.result
    BY <2>2 DEF Running
  <2> QED
    BY <2>1, <2>2, <2>3
<1> QED
  BY <1>1, <1>2

LEMMA FlushTyped ==
  ASSUME TypeInv, Flush
  PROVE  TypeInv'
<1>1. RequestsTyped /\ CacheTypes /\ BoundTypes
  BY TypeParts
<1>2. req' = [r \in Request |-> req'[r]]
  BY DEF Flush
<1>3. \A r \in Request : req'[r] \in Requests /\ RequestTypes(req'[r])
  BY <1>1, FlushMeans DEF RequestsTyped, RequestTypes, Requests
<1>4. RequestsTyped'
  BY <1>2, <1>3 DEF RequestsTyped
<1>5. CacheTypes' /\ BoundTypes'
  BY <1>1, ReadPathAssumption DEF Flush, CacheTypes, BoundTypes
<1> QED
  BY <1>4, <1>5, SharedTyped DEF Flush

-----------------------------------------------------------------------------
(* The refresh worker. *)
LEMMA AtWorkRefresh ==
  ASSUME RefreshesTyped, NEW w \in Worker, exec[w] # Idle
  PROVE  /\ exec[w] \in Exec /\ exec[w].now \in Nat /\ exec[w].mode \in Modes
         /\ exec[w].pc = "put" => exec[w].version \in Nat
  BY DEF RefreshesTyped, RefreshTypes, Exec

(* What the job may become. *)
LEMMA JobTyped ==
  ASSUME RefreshesTyped
  PROVE  /\ job.state = "queued" => job \in Job /\ job.tries \in Nat
         /\ \A w \in Worker : Runs(w) => job \in Job /\ job.tries \in Nat
         /\ \A n \in Nat : /\ [state |-> "queued", tries |-> n] \in Job
                           /\ \A w \in Worker :
                                [state |-> "active", tries |-> n, by |-> w] \in Job
  BY DEF RefreshesTyped, Runs, Job, NoJob

LEMMA RequeueTyped ==
  ASSUME RefreshesTyped, NEW w \in Worker, Runs(w),
         Requeue \/ RetryJob \/ job' = NoJob
  PROVE  job' \in Job \cup {NoJob}
  BY JobTyped DEF Requeue, RetryJob

LEMMA ExecTyped ==
  ASSUME RefreshesTyped, NEW w \in Worker, NEW x \in Exec \cup {Idle},
         RefreshTypes(x), exec' = [exec EXCEPT ![w] = x], job' \in Job \cup {NoJob}
  PROVE  RefreshesTyped'
  BY DEF RefreshesTyped

LEMMA IdleTyped == Idle \in Exec \cup {Idle} /\ RefreshTypes(Idle)
  BY DEF RefreshTypes, Idle

LEMMA RefreshPutTyped ==
  ASSUME RefreshesTyped, CacheTypes, NEW w \in Worker, exec[w].pc = "put",
         PutEntry(exec[w].version, exec[w].now, exec[w].mode, FALSE)
  PROVE  CacheTypes'
<1>1. exec[w] # Idle
  BY DEF Idle
<1> QED
  BY <1>1, AtWorkRefresh, PutUnreplayed

LEMMA RefreshProceedsTyped ==
  ASSUME TypeInv, NEW w \in Worker, RefreshProceeds(w)
  PROVE  TypeInv'
<1>1. RefreshesTyped /\ CacheTypes /\ OriginTypes /\ RequestsTyped
  BY TypeParts
<1>2. job \in Job \cup {NoJob}
  BY <1>1 DEF RefreshesTyped
<1>3. CASE RefreshBegin(w)
  <2>1. PICK m \in Modes :
          exec' = [exec EXCEPT ![w] = [pc |-> "origin", now |-> clock,
                                       mode |-> m, version |-> Nil]]
    BY <1>3 DEF RefreshBegin
  <2> DEFINE x == [pc |-> "origin", now |-> clock, mode |-> m, version |-> Nil]
  <2>2. x \in Exec /\ RefreshTypes(x)
    <3>1. clock \in Nat
      BY <1>1 DEF OriginTypes
    <3>2. x \in Exec
      BY <3>1 DEF Exec
    <3> QED
      BY <3>2 DEF RefreshTypes
  <2>3. job' \in Job
    <3>1. job.tries \in Nat
      BY <1>1, <1>3, JobTyped DEF RefreshBegin
    <3> DEFINE n == job.tries + 1
    <3>2. n \in Nat /\ job' = [state |-> "active", tries |-> n, by |-> w]
      BY <1>3, <3>1 DEF RefreshBegin
    <3> QED
      BY <3>2 DEF Job
  <2>4. RefreshesTyped'
    BY <1>1, <2>1, <2>2, <2>3, ExecTyped
  <2> QED
    BY <1>1, <1>3, <2>4, SharedTyped DEF RefreshBegin, RequestsTyped
<1>4. CASE RefreshRead(w)
  <2> DEFINE x == [exec[w] EXCEPT !.pc = "put", !.version = origin]
  <2>1. exec[w] \in Exec
    BY <1>1, <1>4, AtWorkRefresh DEF RefreshRead, Idle
  <2>2. x \in Exec /\ RefreshTypes(x)
    BY <1>1, <2>1 DEF Exec, RefreshTypes, OriginTypes
  <2>3. exec' = [exec EXCEPT ![w] = x]
    BY <1>1, <1>4 DEF RefreshRead, RefreshesTyped
  <2>4. RefreshesTyped'
    BY <1>1, <1>2, <1>4, <2>2, <2>3, ExecTyped DEF RefreshRead
  <2> QED
    BY <1>1, <1>4, <2>4, SharedTyped DEF RefreshRead, RequestsTyped
<1>5. CASE RefreshPut(w)
  <2> DEFINE x == [exec[w] EXCEPT !.pc = "report"]
  <2>1. exec[w] \in Exec
    BY <1>1, <1>5, AtWorkRefresh DEF RefreshPut, Idle
  <2>2. x \in Exec /\ RefreshTypes(x)
    BY <2>1 DEF Exec, RefreshTypes
  <2>3. exec' = [exec EXCEPT ![w] = x]
    BY <1>1, <1>5 DEF RefreshPut, RefreshesTyped
  <2>4. RefreshesTyped'
    BY <1>1, <1>2, <1>5, <2>2, <2>3, ExecTyped DEF RefreshPut
  <2>5. CacheTypes'
    BY <1>1, <1>5, RefreshPutTyped DEF RefreshPut
  <2> QED
    BY <1>1, <1>5, <2>4, <2>5, SharedTyped DEF RefreshPut, RequestsTyped
<1>6. CASE RefreshEnd(w)
  <2>1. RefreshesTyped'
    BY <1>1, <1>2, <1>6, IdleTyped, ExecTyped DEF RefreshEnd
  <2> QED
    BY <1>1, <1>6, <2>1, SharedTyped DEF RefreshEnd, RequestsTyped
<1> QED
  BY <1>3, <1>4, <1>5, <1>6 DEF RefreshProceeds

LEMMA RefreshTroubleTyped ==
  ASSUME TypeInv, NEW w \in Worker, RefreshFails(w) \/ Stall(w)
  PROVE  TypeInv'
<1>1. RefreshesTyped /\ CacheTypes /\ RequestsTyped /\ BoundTypes
  BY TypeParts
<1>2. RequestsTyped'
  BY <1>1 DEF RequestsTyped, RefreshFails, Stall
<1>3. BoundTypes'
  BY <1>1, FaultTyped DEF RefreshFails, Stall
<1>4. CASE RefreshFails(w)
  <2>1. job' \in Job \cup {NoJob}
    BY <1>1, <1>4, RequeueTyped DEF RefreshFails, RefreshesTyped
  <2>2. RefreshesTyped'
    BY <1>1, <1>4, <2>1, IdleTyped, ExecTyped DEF RefreshFails
  <2>3. CacheTypes' \/ UNCHANGED cacheVars
    BY <1>1, <1>4, RefreshPutTyped DEF RefreshFails
  <2> QED
    BY <1>2, <1>3, <1>4, <2>2, <2>3, SharedTyped DEF RefreshFails
<1>5. CASE Stall(w)
  <2>1. job' \in Job \cup {NoJob}
    BY <1>1, <1>5, RequeueTyped DEF Stall
  <2>2. RefreshesTyped'
    <3>1. CASE exec' = exec
      BY <1>1, <2>1, <3>1 DEF RefreshesTyped
    <3>2. CASE exec' = [exec EXCEPT ![w] = Idle]
      BY <1>1, <2>1, <3>2, IdleTyped, ExecTyped
    <3> QED
      BY <1>5, <3>1, <3>2 DEF Stall
  <2> QED
    BY <1>2, <1>3, <1>5, <2>2, SharedTyped DEF Stall
<1> QED
  BY <1>4, <1>5

-----------------------------------------------------------------------------
(* The rest of the system. *)
LEMMA ReconcileTyped ==
  ASSUME TypeInv, NEW v \in 1 .. origin, Reconcile(v)
  PROVE  TypeInv'
<1>1. RequestsTyped /\ CacheTypes /\ OriginTypes
  BY TypeParts
<1>2. v \in Nat
  BY <1>1 DEF OriginTypes
<1>3. CASE Invalidated(v)
  <2>1. CacheTypes'
    BY <1>1, <1>2, <1>3 DEF Invalidated, Raised, CacheTypes
  <2> QED
    BY <1>1, <1>3, <2>1, SharedTyped DEF Invalidated, RequestsTyped
<1>4. ASSUME NEW now \in 0 .. clock, NEW m \in Modes, WrittenThrough(v, now, m)
      PROVE  TypeInv'
  <2>1. now \in Nat /\ TRUE \in BOOLEAN
    BY <1>1 DEF OriginTypes
  <2>2. NewEntry(v, now, m, TRUE) \in Entry
    BY <1>2, <2>1, NewEntryTyped
  <2>3. CacheTypes'
    BY <1>1, <1>2, <1>4, <2>2
       DEF WrittenThrough, PutEntry, CacheTypes, Raised, cacheVars
  <2> QED
    BY <1>1, <1>4, <2>3, SharedTyped DEF WrittenThrough, RequestsTyped
<1> QED
  BY <1>3, <1>4 DEF Reconcile

LEMMA RestTyped ==
  ASSUME TypeInv, Write \/ Evict \/ LeaseExpires \/ Tick \/ (\E i \in Instance : Recover(i))
  PROVE  TypeInv'
<1>1. /\ RequestsTyped /\ CacheTypes /\ BreakerTypes /\ RefreshesTyped
      /\ OriginTypes /\ BoundTypes /\ lock \in Request \cup {Nobody}
  BY TypeParts
<1>2. UNCHANGED req /\ UNCHANGED refreshVars
  BY DEF Write, Evict, LeaseExpires, Tick, Recover
<1>3. RequestsTyped' /\ RefreshesTyped'
  BY <1>1, <1>2, TypesUntouched
<1>4. CacheTypes'
  BY <1>1 DEF Write, Evict, LeaseExpires, Tick, Recover, CacheTypes, cacheVars
<1>5. BreakerTypes'
  BY <1>1 DEF Write, Evict, LeaseExpires, Tick, Recover, BreakerTypes, breakerVars
<1>6. OriginTypes'
  <2>1. CASE Write
    BY <1>1, <2>1, ReadPathAssumption DEF Write, OriginTypes
  <2>2. CASE ~Write
    BY <1>1, <2>2 DEF Evict, LeaseExpires, Tick, Recover, OriginTypes, originVars
  <2> QED
    BY <2>1, <2>2
<1>7. BoundTypes' /\ lock' \in Request \cup {Nobody}
  BY <1>1 DEF Write, Evict, LeaseExpires, Tick, Recover, BoundTypes, boundVars
<1> QED
  BY <1>3, <1>4, <1>5, <1>6, <1>7, TypePartsNext

LEMMA InitTyped == Init => TypeInv
<1> SUFFICES ASSUME Init PROVE TypeInv
  OBVIOUS
<1>1. Idle \in Requests /\ RequestTypes(Idle)
  BY DEF Requests, Idle, RequestTypes
<1>2. RequestsTyped
  BY <1>1 DEF Init, RequestsTyped
<1>3. RefreshesTyped
  BY IdleTyped DEF Init, RefreshesTyped
<1>4. CacheTypes /\ BreakerTypes /\ BoundTypes
  BY ReadPathAssumption DEF Init, CacheTypes, BreakerTypes, BoundTypes
<1>5. OriginTypes /\ lock \in Request \cup {Nobody}
  BY ReadPathAssumption DEF Init, OriginTypes
<1> QED
  BY <1>2, <1>3, <1>4, <1>5, TypeParts

LEMMA ProceedTyped ==
  ASSUME TypeInv, NEW r \in Request, Proceed(r)
  PROVE  TypeInv'
  BY LookingTyped, DropTyped, EnqueueTyped, AcquireTyped, WaitingTyped, FillTyped,
     LeavingTyped DEF Proceed

LEMMA NextTyped == TypeInv /\ [Next]_vars => TypeInv'
<1> SUFFICES ASSUME TypeInv, [Next]_vars PROVE TypeInv'
  OBVIOUS
<1>1. CASE UNCHANGED vars
  BY <1>1, TypeParts, TypePartsNext, TypesUntouched
     DEF vars, cacheVars, breakerVars, refreshVars, originVars, boundVars
<1>2. CASE Next
  BY <1>2, BeginTyped, ProceedTyped, TroubleTyped, CrashTyped, RefreshProceedsTyped,
     RefreshTroubleTyped, ReconcileTyped, RestTyped, FlushTyped DEF Next
<1> QED
  BY <1>1, <1>2

(* Every variable keeps its type: an answer is a finished record, the      *)
(* breaker's counters stay under their threshold, and a request past the   *)
(* origin has a row to put.                                                *)
THEOREM TypeCorrect == Spec => []TypeOK
<1>1. Init => TypeInv
  BY InitTyped
<1>2. TypeInv /\ [Next]_vars => TypeInv'
  BY NextTyped
<1>3. TypeInv => TypeOK
  BY DEF TypeInv
<1> QED
  BY <1>1, <1>2, <1>3, PTL DEF Spec

-----------------------------------------------------------------------------
(* Who holds the lock.                                                     *)
FetchesAs(q) == q.pc \in {"origin", "put"} /\ q.lease

(* What a step of r may do to the lock: take it while it is free or its    *)
(* own, leave it alone without becoming a fetcher, or release its own.     *)
LockStep(r, q) ==
  \/ lock' = r /\ lock \in {r, Nobody}
  \/ lock' = lock /\ (FetchesAs(q) => FetchesAs(req[r]))
  \/ lock = r /\ lock' = Nobody /\ q.pc = "done"

LEMMA FetchersShrink ==
  ASSUME TypeInv, LeaseInv, expired' \in Nat, expired <= expired',
         Fetchers' \ {lock'} \subseteq Fetchers \ {lock}
  PROVE  IsFiniteSet(Fetchers') /\ Cardinality(Fetchers' \ {lock'}) <= expired'
<1> DEFINE A == Fetchers \ {lock}
           B == Fetchers' \ {lock'}
<1>1. IsFiniteSet(A) /\ Cardinality(A) <= expired
  BY FS_Subset DEF LeaseInv
<1>2. IsFiniteSet(B) /\ Cardinality(B) <= Cardinality(A)
  BY <1>1, FS_Subset
<1>3. Cardinality(A) \in Nat /\ Cardinality(B) \in Nat /\ expired \in Nat
  BY <1>1, <1>2, FS_CardinalityType, TypeParts DEF BoundTypes
<1>4. IsFiniteSet(B \cup {lock'})
  BY <1>2, FS_AddElement
<1>5. IsFiniteSet(Fetchers')
  BY <1>4, FS_Subset
<1>6. Cardinality(B) <= expired'
  <2> HIDE DEF A, B
  <2> QED
    BY <1>1, <1>2, <1>3
<1> QED
  BY <1>5, <1>6

LEMMA LeaseStep ==
  ASSUME TypeInv, LeaseInv, NEW r \in Request, NEW q \in Requests, Becomes(r, q),
         q \in Running => LeaseHeld(q), LockStep(r, q), UNCHANGED expired
  PROVE  LeaseInv'
<1>1. req'[r] = q /\ \A s \in Request \ {r} : req'[s] = req[s]
  BY TypeParts DEF RequestsTyped, Becomes
<1>2. \A s \in Request : req'[s] \in Running => LeaseHeld(req'[s])
  BY <1>1 DEF LeaseInv
<1>3. Fetchers' \ {lock'} \subseteq Fetchers \ {lock}
  <2> SUFFICES ASSUME NEW s \in Request, FetchesAs(req'[s]), s # lock'
               PROVE  FetchesAs(req[s]) /\ s # lock
    BY DEF Fetchers, Fetching, FetchesAs
  <2>1. CASE s = r
    BY <1>1, <2>1 DEF LockStep, FetchesAs
  <2>2. CASE s # r
    BY <1>1, <2>2, ReadPathAssumption DEF LockStep
  <2> QED
    BY <2>1, <2>2
<1>4. expired' \in Nat /\ expired <= expired'
  BY TypeParts DEF BoundTypes
<1> QED
  BY <1>2, <1>3, <1>4, FetchersShrink DEF LeaseInv

LEMMA LeaseFree ==
  ASSUME LeaseInv, NEW r \in Request, req[r] \in Running,
         req[r].pc \notin {"origin", "put", "release"}
  PROVE  req[r].lease = FALSE
  BY DEF LeaseInv, LeaseHeld, Running

(* Steps that leave the lock alone and do not start to fetch under a lease. *)
LEMMA LeaseIdleStep ==
  ASSUME TypeInv, LeaseInv, NEW r \in Request, NEW q \in Running \cup Answered,
         Becomes(r, q), UNCHANGED <<lock, expired>>,
         \/ q.pc = "done"
         \/ q.lease = FALSE
         \/ /\ req[r] \in Running /\ q.lease = req[r].lease
            /\ q.pc = "release" \/ (req[r].pc = "origin" /\ q.pc = "put")
         \/ /\ req[r] \in Running /\ q.lease = req[r].lease
            /\ req[r].pc \notin {"origin", "put", "release"}
  PROVE  LeaseInv'
<1>1. q \in Requests
  BY DEF Requests
<1>2. q \in Running => q.pc # "done"
  BY RunningIsItsOwn
<1>3. q \in Running => LeaseHeld(q)
  BY <1>2, LeaseFree DEF LeaseHeld
<1>4. FetchesAs(q) => FetchesAs(req[r])
  BY LeaseFree DEF FetchesAs
<1>5. LockStep(r, q)
  BY <1>4 DEF LockStep
<1> QED
  BY <1>1, <1>3, <1>5, LeaseStep

LEMMA LeavesLease ==
  ASSUME TypeInv, LeaseInv, NEW r \in Request, NEW result, NEW v,
         Leaves(r, result, v), UNCHANGED <<lock, expired>>
  PROVE  LeaseInv'
<1>1. PICK q \in Running \cup Answered :
        /\ Becomes(r, q)
        /\ \/ q.pc = "done"
           \/ q.pc = "release" /\ q.lease = req[r].lease
  BY DEF Leaves
<1>2. req[r] \in Running
  BY DEF Leaves
<1> QED
  BY <1>1, <1>2, LeaseIdleStep

LEMMA BeginLease ==
  ASSUME TypeInv, LeaseInv, NEW r \in Request, NEW i \in Instance, Begin(r, i)
  PROVE  LeaseInv'
<1>1. PICK q \in Running : Becomes(r, q) /\ ~q.lease
  BY TypeParts, BeginMeans
<1>2. q.lease = FALSE
  BY <1>1 DEF Running
<1>3. UNCHANGED <<lock, expired>>
  BY DEF Begin, boundVars
<1> QED
  BY <1>1, <1>2, <1>3, LeaseIdleStep

LEMMA LookingLease ==
  ASSUME TypeInv, LeaseInv, NEW r \in Request,
         ReadSettings(r) \/ Lookup(r) \/ DropExpired(r) \/ Touch(r)
  PROVE  LeaseInv'
<1>1. UNCHANGED <<lock, expired>>
  BY DEF ReadSettings, Lookup, DropExpired, Touch, boundVars
<1>2. /\ req[r] \in Running /\ req[r].pc \in {"settings", "get", "drop", "touch"}
      /\ \E q \in Running \cup Answered :
           Becomes(r, q) /\ (q.pc = "done" \/ q.lease = req[r].lease)
  <2>1. CASE ReadSettings(r)
    BY <2>1, TypeParts, ReadSettingsMeans
  <2>2. CASE Lookup(r)
    BY <2>2, TypeParts, LookupMeans DEF Keeps
  <2>3. CASE DropExpired(r)
    BY <2>3, TypeParts, DropMeans DEF Keeps
  <2>4. CASE Touch(r)
    BY <2>4, TypeParts, TouchMeans DEF Keeps
  <2> QED
    BY <2>1, <2>2, <2>3, <2>4
<1> QED
  BY <1>1, <1>2, LeaseIdleStep

LEMMA AcquireLease ==
  ASSUME TypeInv, LeaseInv, NEW r \in Request, Acquire(r)
  PROVE  LeaseInv'
<1>1. PICK q \in Running :
        /\ Becomes(r, q)
        /\ q.pc = (IF lock' = r THEN "origin" ELSE "poll")
        /\ q.lease = (lock' = r)
  BY TypeParts, AcquireMeans
<1>2. UNCHANGED expired /\ SetNX(r)
  BY DEF Acquire, boundVars
<1>3. CASE lock' = r
  <2>1. LockStep(r, q)
    BY <1>2, <1>3 DEF LockStep, SetNX
  <2>2. LeaseHeld(q)
    BY <1>1, <1>3 DEF LeaseHeld
  <2> QED
    BY <1>1, <1>2, <2>1, <2>2, LeaseStep DEF Requests
<1>4. CASE lock' # r
  BY <1>1, <1>2, <1>4, LeaseIdleStep DEF SetNX
<1> QED
  BY <1>3, <1>4

LEMMA FetchingLease ==
  ASSUME TypeInv, LeaseInv, NEW r \in Request,
         EnqueueRefresh(r) \/ Poll(r) \/ ReadOrigin(r) \/ Fill(r) \/ Bypass(r)
  PROVE  LeaseInv'
<1>1. UNCHANGED <<lock, expired>>
  BY DEF EnqueueRefresh, Poll, ReadOrigin, Fill, Bypass, boundVars
<1>2. CASE EnqueueRefresh(r)
  BY <1>1, <1>2, TypeParts, EnqueueMeans, LeaseIdleStep
<1>3. CASE Poll(r)
  <2>1. /\ req[r] \in Running /\ req[r].pc = "poll"
        /\ \E q \in Running : Becomes(r, q) /\ q.lease = req[r].lease
    BY <1>3, TypeParts, PollMeans DEF Keeps
  <2> QED
    BY <1>1, <2>1, LeaseIdleStep
<1>4. CASE ReadOrigin(r)
  <2>1. /\ req[r] \in Running /\ req[r].pc = "origin"
        /\ \E q \in Running : Becomes(r, q) /\ q.lease = req[r].lease /\ q.pc = "put"
    BY <1>4, TypeParts, ReadOriginMeans
  <2> QED
    BY <1>1, <2>1, LeaseIdleStep
<1>5. CASE Fill(r)
  <2>1. Leaves(r, "MISS", req[r].version)
    BY <1>5, TypeParts, PutLeaves DEF Fill
  <2> QED
    BY <1>1, <2>1, LeavesLease
<1>6. CASE Bypass(r)
  BY <1>1, <1>6, TypeParts, BypassMeans, LeaseIdleStep
<1> QED
  BY <1>2, <1>3, <1>4, <1>5, <1>6

(* The two ways an answer follows the release. *)
LEMMA ReleasedLease ==
  ASSUME TypeInv, LeaseInv, NEW r \in Request, req[r].pc = "release",
         Answer(r, req[r].result, req[r].version, FALSE),
         DelIfMine(r) \/ UNCHANGED lock, UNCHANGED expired
  PROVE  LeaseInv'
<1>1. PICK q \in Answered : Becomes(r, q) /\ q.pc = "done"
  BY TypeParts, ReleaseMeans
<1>2. q \notin Running /\ q \in Requests /\ ~FetchesAs(q)
  BY <1>1, RunningIsItsOwn DEF Requests, FetchesAs
<1>3. LockStep(r, q)
  BY <1>1, <1>2 DEF LockStep, DelIfMine
<1> QED
  BY <1>1, <1>2, <1>3, LeaseStep

LEMMA TurnsAwayLease ==
  ASSUME TypeInv, LeaseInv, NEW r \in Request, TurnsAway(r),
         req[r].pc \notin {"origin", "put", "release"},
         SetNX(r) \/ UNCHANGED lock, UNCHANGED expired
  PROVE  LeaseInv'
<1>1. PICK q \in Running : Becomes(r, q) /\ q.pc = "bypass" /\ Keeps(req[r], q)
  BY DEF TurnsAway
<1>2. q.lease = FALSE
  BY <1>1, LeaseFree DEF Keeps, TurnsAway
<1>3. LeaseHeld(q) /\ ~FetchesAs(q) /\ q \in Requests
  BY <1>2 DEF LeaseHeld, FetchesAs, Requests
<1>4. LockStep(r, q)
  BY <1>3 DEF LockStep, SetNX
<1> QED
  BY <1>1, <1>3, <1>4, LeaseStep

LEMMA TroubleLease ==
  ASSUME TypeInv, LeaseInv, NEW r \in Request, Refused(r) \/ Trouble(r)
  PROVE  LeaseInv'
<1>1. CASE Refused(r)
  <2>1. UNCHANGED <<lock, expired>>
    BY <1>1 DEF Refused, boundVars
  <2>2. CASE req[r].pc = "put"
    BY <1>1, <2>1, <2>2, TypeParts, PutLeaves, LeavesLease DEF Refused
  <2>3. CASE req[r].pc # "put"
    <3>1. req[r].pc \notin {"origin", "put", "release"}
      BY <1>1, <2>3 DEF Refused, BreakerGuards
    <3>2. TurnsAway(r)
      BY <1>1, <2>3, TypeParts, GoesAway DEF Refused
    <3> QED
      BY <2>1, <3>1, <3>2, TurnsAwayLease
  <2> QED
    BY <2>2, <2>3
<1>2. CASE CommandFails(r)
  <2>1. UNCHANGED expired
    BY <1>2 DEF CommandFails, Fault
  <2>2. CASE req[r].pc = "put"
    <3>1. Finish(r, "BYPASS", req[r].version) /\ UNCHANGED lock
      BY <1>2, <2>2 DEF CommandFails
    <3>2. Leaves(r, "BYPASS", req[r].version)
      BY <2>2, <3>1, TypeParts, PutLeaves
    <3> QED
      BY <2>1, <3>1, <3>2, LeavesLease
  <2>3. CASE req[r].pc # "put"
    <3>1. req[r].pc \notin {"origin", "put", "release"}
      BY <1>2, <2>3 DEF CommandFails, BreakerGuards
    <3>2. TurnsAway(r) /\ (SetNX(r) \/ UNCHANGED lock)
      BY <1>2, <2>3, TypeParts, CommandFailsMeans
    <3> QED
      BY <2>1, <3>1, <3>2, TurnsAwayLease
  <2> QED
    BY <2>2, <2>3
<1>3. CASE UnguardedFails(r)
  <2>1. UNCHANGED expired
    BY <1>3 DEF UnguardedFails, Fault
  <2>2. CASE req[r].pc = "release"
    BY <1>3, <2>1, <2>2, ReleasedLease DEF UnguardedFails
  <2>3. CASE req[r].pc # "release"
    <3>1. req[r].pc \notin {"origin", "put", "release"}
      BY <1>3, <2>3 DEF UnguardedFails
    <3>2. TurnsAway(r) /\ UNCHANGED lock
      BY <1>3, <2>3, TypeParts, UnguardedFailsMeans
    <3> QED
      BY <2>1, <3>1, <3>2, TurnsAwayLease
  <2> QED
    BY <2>2, <2>3
<1>4. CASE OriginFails(r)
  <2>1. UNCHANGED <<lock, expired>>
    BY <1>4 DEF OriginFails, Fault
  <2> QED
    BY <1>4, <2>1, TypeParts, OriginFailsMeans, LeavesLease
<1> QED
  BY <1>1, <1>2, <1>3, <1>4 DEF Trouble

LEMMA CrashLease ==
  ASSUME TypeInv, LeaseInv, (\E i \in Instance : Crash(i)) \/ Flush
  PROVE  LeaseInv'
<1>1. UNCHANGED <<lock, expired>>
  BY DEF Crash, Fault, Flush
<1>2. \A r \in Request :
        \/ req'[r] = req[r]
        \/ req'[r] = Dead
        \/ /\ req[r] \in Running /\ req'[r].pc = req[r].pc
           /\ req'[r].lease = req[r].lease
  BY TypeParts, FlushMeans DEF Crash
<1>3. \A r \in Request : req'[r] \in Running => LeaseHeld(req'[r])
  BY <1>2, RunningIsItsOwn DEF LeaseInv, LeaseHeld
<1>4. Fetchers' \ {lock'} \subseteq Fetchers \ {lock}
  BY <1>1, <1>2 DEF Fetchers, Fetching, Dead
<1>5. expired' \in Nat /\ expired <= expired'
  BY <1>1, TypeParts DEF BoundTypes
<1> QED
  BY <1>3, <1>4, <1>5, FetchersShrink DEF LeaseInv

(* The owner whose lease runs out joins those that fetch without it. *)
LEMMA ExpiryLease ==
  ASSUME TypeInv, LeaseInv, LeaseExpires
  PROVE  LeaseInv'
<1> DEFINE A == Fetchers \ {lock}
<1>1. UNCHANGED req /\ lock' = Nobody /\ expired' = expired + 1
  BY DEF LeaseExpires
<1>2. Fetchers' = Fetchers
  BY <1>1 DEF Fetchers, Fetching
<1>3. IsFiniteSet(A) /\ Cardinality(A) <= expired
  BY FS_Subset DEF LeaseInv
<1>4. /\ IsFiniteSet(A \cup {lock})
      /\ Cardinality(A \cup {lock}) = Cardinality(A) + 1
  BY <1>3, FS_AddElement
<1>5. /\ IsFiniteSet(Fetchers \ {Nobody})
      /\ Cardinality(Fetchers \ {Nobody}) <= Cardinality(A \cup {lock})
  BY <1>4, FS_Subset
<1>6. /\ Cardinality(A) \in Nat /\ expired \in Nat
      /\ Cardinality(Fetchers \ {Nobody}) \in Nat
  BY <1>3, <1>5, FS_CardinalityType, TypeParts DEF BoundTypes
<1>7. Cardinality(Fetchers \ {Nobody}) <= expired + 1
  <2> HIDE DEF A
  <2> QED
    BY <1>3, <1>4, <1>5, <1>6
<1> QED
  BY <1>1, <1>2, <1>7 DEF LeaseInv

LEMMA UntouchedLease ==
  ASSUME LeaseInv, UNCHANGED <<req, lock, expired>>
  PROVE  LeaseInv'
  BY DEF LeaseInv, Fetchers, Fetching

LEMMA InitLease == Init => LeaseInv
<1> SUFFICES ASSUME Init PROVE LeaseInv
  OBVIOUS
<1>1. \A r \in Request : req[r] = Idle
  BY DEF Init
<1>2. Idle \notin Running /\ Idle.pc \notin {"origin", "put"}
  BY DEF Idle, Running
<1>3. Fetchers = {}
  BY <1>1, <1>2 DEF Fetchers, Fetching
<1>4. IsFiniteSet(Fetchers) /\ Fetchers \ {lock} = {} /\ Cardinality(Fetchers \ {lock}) = 0
  BY <1>3, FS_EmptySet
<1>5. expired = 0
  BY DEF Init
<1> QED
  BY <1>1, <1>2, <1>4, <1>5 DEF LeaseInv

LEMMA NextLease == TypeInv /\ LeaseInv /\ [Next]_vars => LeaseInv'
<1> SUFFICES ASSUME TypeInv, LeaseInv, [Next]_vars PROVE LeaseInv'
  OBVIOUS
<1>1. CASE UNCHANGED vars
  BY <1>1, UntouchedLease DEF vars
<1>2. ASSUME NEW r \in Request,
             (\E i \in Instance : Begin(r, i)) \/ Proceed(r) \/ Trouble(r)
      PROVE  LeaseInv'
  <2>1. CASE Release(r)
    <3>1. UNCHANGED expired /\ DelIfMine(r) /\ req[r].pc = "release"
          /\ Answer(r, req[r].result, req[r].version, FALSE)
      BY <2>1 DEF Release, boundVars
    <3> QED
      BY <3>1, ReleasedLease
  <2>2. CASE ~Release(r)
    BY <1>2, <2>2, BeginLease, LookingLease, AcquireLease, FetchingLease, TroubleLease
       DEF Proceed
  <2> QED
    BY <2>1, <2>2
<1>3. CASE (\E i \in Instance : Crash(i)) \/ Flush
  BY <1>3, CrashLease
<1>4. ASSUME NEW w \in Worker, RefreshProceeds(w) \/ RefreshFails(w) \/ Stall(w)
      PROVE  UNCHANGED <<req, lock, expired>>
  BY <1>4 DEF RefreshProceeds, RefreshBegin, RefreshRead, RefreshPut, RefreshEnd,
              RefreshFails, Stall, Fault, boundVars
<1>5. ASSUME \/ \E v \in 1 .. origin : Reconcile(v)
             \/ \E i \in Instance : Recover(i)
             \/ Write \/ Evict \/ Tick
      PROVE  UNCHANGED <<req, lock, expired>>
  BY <1>5 DEF Reconcile, Invalidated, WrittenThrough, Recover, Write, Evict, Tick,
              boundVars
<1>6. CASE LeaseExpires
  BY <1>6, ExpiryLease
<1> QED
  BY <1>1, <1>2, <1>3, <1>4, <1>5, <1>6, UntouchedLease DEF Next

(* However slow the owners are, whatever fails and whoever dies, at most   *)
(* one owner of the lock fetches the origin and fills the cache at a time, *)
(* besides those whose lease has run out.                                  *)
THEOREM FetchesAreLeased == Spec => []OneFetchPerLease
<1>1. Init => TypeInv /\ LeaseInv
  BY InitTyped, InitLease
<1>2. TypeInv /\ LeaseInv /\ [Next]_vars => (TypeInv /\ LeaseInv)'
  BY NextTyped, NextLease
<1>3. TypeInv /\ LeaseInv => OneFetchPerLease
  <2> SUFFICES ASSUME TypeInv, LeaseInv
               PROVE  Cardinality(Fetchers) <= 1 + expired
    BY DEF OneFetchPerLease, Fetchers
  <2> DEFINE A == Fetchers \ {lock}
  <2>1. IsFiniteSet(A) /\ Cardinality(A) <= expired
    BY FS_Subset DEF LeaseInv
  <2>2. /\ IsFiniteSet(A \cup {lock})
        /\ Cardinality(A \cup {lock}) = Cardinality(A) + 1
    BY <2>1, FS_AddElement
  <2>3. IsFiniteSet(Fetchers) /\ Cardinality(Fetchers) <= Cardinality(A \cup {lock})
    BY <2>2, FS_Subset
  <2>4. /\ Cardinality(A) \in Nat /\ Cardinality(Fetchers) \in Nat /\ expired \in Nat
    BY <2>1, <2>3, FS_CardinalityType, TypeParts DEF BoundTypes
  <2> HIDE DEF A
  <2> QED
    BY <2>1, <2>2, <2>3, <2>4
<1> QED
  BY <1>1, <1>2, <1>3, PTL DEF Spec

(* The lock leaves the hands of a request in that request's own release or *)
(* when its lease runs out, and never by the late release of another one.  *)
THEOREM ReleasesAreOwn == Spec => OnlyTheOwnerReleases
<1> DEFINE Kept == \A r \in Request : lock = r /\ lock' # r =>
                     req[r].pc = "release" \/ expired' > expired
<1>1. TypeInv /\ [Next]_vars => Kept
  <2> SUFFICES ASSUME TypeInv, Next, NEW r \in Request, lock = r, lock' # r
               PROVE  req[r].pc = "release" \/ expired' > expired
    BY DEF vars
  <2>1. r # Nobody
    BY ReadPathAssumption
  <2>2. ASSUME NEW s \in Request, Proceed(s) \/ Trouble(s) \/ (\E i \in Instance : Begin(s, i))
        PROVE  s = r /\ req[s].pc = "release"
    <3>1. ~SetNX(s) /\ (DelIfMine(s) => s = r) /\ ~ UNCHANGED lock
      BY <2>1 DEF SetNX, DelIfMine
    <3>2. ~Proceed(s) \/ Release(s)
      BY <3>1 DEF Proceed, ReadSettings, Lookup, DropExpired, Touch, EnqueueRefresh,
                  Acquire, Poll, ReadOrigin, Fill, Bypass, Refused
    <3>3. ~(\E i \in Instance : Begin(s, i)) /\ ~OriginFails(s)
      BY <3>1 DEF Begin, OriginFails
    <3>4. ~CommandFails(s)
      BY <3>1 DEF CommandFails
    <3>5. UnguardedFails(s) => req[s].pc = "release" /\ s = r
      BY <3>1 DEF UnguardedFails
    <3> QED
      BY <2>2, <3>1, <3>2, <3>3, <3>4, <3>5 DEF Release, Trouble
  <2>3. CASE LeaseExpires
    BY <2>3, TypeParts DEF LeaseExpires, BoundTypes
  <2>4. ASSUME NEW w \in Worker, RefreshProceeds(w) \/ RefreshFails(w) \/ Stall(w)
        PROVE  FALSE
    BY <2>4 DEF RefreshProceeds, RefreshBegin, RefreshRead, RefreshPut, RefreshEnd,
                RefreshFails, Stall
  <2>5. ASSUME \/ \E v \in 1 .. origin : Reconcile(v)
               \/ \E i \in Instance : Recover(i) \/ Crash(i)
               \/ Write \/ Evict \/ Flush \/ Tick
        PROVE  FALSE
    BY <2>5 DEF Reconcile, Invalidated, WrittenThrough, Recover, Crash, Write, Evict,
                Flush, Tick
  <2> QED
    BY <2>2, <2>3, <2>4, <2>5 DEF Next
<1>2. Init => TypeInv
  BY InitTyped
<1>3. TypeInv /\ [Next]_vars => TypeInv'
  BY NextTyped
<1> QED
  BY <1>1, <1>2, <1>3, PTL DEF Spec, OnlyTheOwnerReleases

-----------------------------------------------------------------------------
(* The longest life of an entry.                                           *)
LEMMA LifeBound ==
  /\ MaxLife \in Nat /\ MaxLife >= 1
  /\ \A m \in Modes : m.ttl + m.window <= MaxLife
<1> DEFINE lives == {m.ttl + m.window : m \in Modes}
<1>1. \A m \in Modes : m.ttl \in Nat /\ m.ttl >= 1 /\ m.window \in Nat
  BY ReadPathAssumption
<1>2. lives \subseteq Nat /\ lives # {} /\ IsFiniteSet(lives)
  <2>1. lives \subseteq Nat
    BY <1>1
  <2>2. Modes # {} /\ IsFiniteSet(Modes)
    BY ReadPathAssumption
  <2> DEFINE f == [m \in Modes |-> m.ttl + m.window]
  <2>3. f \in Surjection(Modes, lives)
    BY DEF Surjection
  <2>4. IsFiniteSet(lives)
    <3> HIDE DEF f, lives
    <3> QED
      BY <2>2, <2>3, FS_Surjection
  <2> QED
    BY <2>1, <2>2, <2>4
<1>3. \E n \in lives : \A x \in lives : x <= n
  <2> HIDE DEF lives
  <2> QED
    BY <1>2, FiniteMaximum
<1>4. \E n \in lives : \A m \in Modes : m.ttl + m.window <= n
  BY <1>3
<1>5. MaxLife \in lives /\ \A m \in Modes : m.ttl + m.window <= MaxLife
  BY <1>4 DEF MaxLife
<1> QED
  BY <1>1, <1>5

-----------------------------------------------------------------------------
(* What a version was, and when.                                           *)
LEMMA SinceWeaker ==
  ASSUME OriginTypes, NEW v \in Int, NEW w \in Int, NEW s \in Int, NEW t \in Int,
         Since(v, t), v <= w, s <= t
  PROVE  Since(w, s)
<1> SUFFICES ASSUME NEW u \in 0 .. MaxVersion, w <= u, superseded[u] # Nil
             PROVE  s <= superseded[u]
  BY DEF Since
<1>1. v <= u /\ superseded[u] \in Nat
  BY ReadPathAssumption DEF OriginTypes
<1> QED
  BY <1>1 DEF Since

LEMMA SinceLatest ==
  ASSUME HistoryInv, NEW t
  PROVE  Since(origin, t)
  BY DEF Since, HistoryInv

LEMMA SinceAbsent ==
  ASSUME HistoryInv, NEW v, NEW floor, NEW t, Row(v, floor), v = 0
  PROVE  Since(v, t)
  BY DEF Since, HistoryInv, Row

(* The row moves on, if at all, by a write. *)
Later ==
  /\ UNCHANGED originVars \/ Write
  /\ clock <= clock'

LEMMA SinceKept ==
  ASSUME OriginTypes, HistoryInv, Later, NEW v \in Int, NEW t \in Int, t <= clock,
         Since(v, t)
  PROVE  Since(v, t)'
<1>1. CASE UNCHANGED originVars
  BY <1>1 DEF Since, originVars
<1>2. CASE Write
  <2> SUFFICES ASSUME NEW u \in 0 .. MaxVersion, v <= u, superseded'[u] # Nil
               PROVE  t <= superseded'[u]
    BY DEF Since
  <2>1. superseded' = [superseded EXCEPT ![origin] = clock]
    BY <1>2 DEF Write
  <2>2. CASE u = origin
    BY <2>1, <2>2 DEF OriginTypes
  <2>3. CASE u # origin
    BY <2>1, <2>3 DEF OriginTypes, Since
  <2> QED
    BY <2>2, <2>3
<1> QED
  BY <1>1, <1>2 DEF Later

LEMMA RowKept ==
  ASSUME OriginTypes, Later, NEW v, NEW floor, Row(v, floor)
  PROVE  Row(v, floor)'
  BY DEF OriginTypes, Later, Row, originVars, Write

LEMMA HistoryKept ==
  ASSUME OriginTypes, OriginTypes', HistoryInv, Later
  PROVE  HistoryInv'
<1>1. CASE UNCHANGED originVars
  <2>1. origin' = origin /\ superseded' = superseded /\ clock <= clock'
    BY <1>1 DEF originVars, Later
  <2>2. ASSUME NEW u \in 0 .. MaxVersion PROVE superseded[u] <= clock'
    <3>1. /\ superseded[u] \in Int /\ clock \in Int /\ clock' \in Int
          /\ superseded[u] <= clock
      BY DEF OriginTypes, HistoryInv, Nil
    <3> QED
      BY <2>1, <3>1
  <2> QED
    BY <2>1, <2>2 DEF HistoryInv
<1>2. CASE Write
  <2>1. /\ origin # 0 /\ origin < MaxVersion /\ origin' = origin + 1
        /\ superseded' = [superseded EXCEPT ![origin] = clock]
        /\ clock' = clock
    BY <1>2 DEF Write
  <2>2. origin' \in 0 .. MaxVersion
    BY <2>1, ReadPathAssumption DEF OriginTypes
  <2>3. ASSUME NEW u \in 0 .. MaxVersion
        PROVE  /\ superseded'[u] <= clock'
               /\ u >= origin' \/ origin' = 0 => superseded'[u] = Nil
    <3>1. CASE u = origin
      BY <2>1, <3>1 DEF OriginTypes
    <3>2. CASE u # origin
      BY <2>1, <3>2, ReadPathAssumption DEF OriginTypes, HistoryInv
    <3> QED
      BY <3>1, <3>2
  <2> QED
    BY <2>2, <2>3 DEF HistoryInv
<1> QED
  BY <1>1, <1>2 DEF Later

(* Time and writes do no harm to what is known of a request, an answer or  *)
(* a refresh.                                                              *)
LEMMA RunningKept ==
  ASSUME OriginTypes, OriginTypes', CacheTypes, CacheTypes', HistoryInv, Later,
         fence <= fence',
         NEW q \in Running, RequestTypes(q), RunningInv(q)
  PROVE  RunningInv(q)'
<1>1. /\ q.started \in Nat /\ q.now \in Nat /\ q.at \in Nat
      /\ q.floor \in Int /\ q.version \in Int /\ fence \in Int /\ fence' \in Int
  BY DEF Running, CacheTypes, Nil
<1>2. clock \in Nat /\ clock' \in Nat /\ clock <= clock'
  BY DEF OriginTypes, Later
<1>3. q.started <= clock' /\ q.now <= clock' /\ q.floor <= fence'
  BY <1>1, <1>2 DEF RunningInv
<1>4. q.pc \notin {"settings", "bypass", "release"} => q.started <= q.at /\ q.at <= clock'
  BY <1>1, <1>2 DEF RunningInv
<1>5. ASSUME q.pc \in {"touch", "enqueue"}, Fresh(q.got, q.at) PROVE Fresh(q.got, q.at)'
  <2>1. q.got.version \in Int /\ q.at - MaxLife + 1 \in Int
        /\ q.at - MaxLife + 1 <= clock
    BY <1>1, <1>2, <1>5, LifeBound DEF RequestTypes, Entry, RunningInv
  <2> QED
    BY <1>5, <2>1, SinceKept DEF Fresh
<1>6. q.pc \in {"touch", "enqueue"} => Row(q.got.version, q.floor)'
  BY RowKept DEF RunningInv
<1>7. q.pc = "put" => Since(q.version, q.now)'
  BY <1>1, SinceKept DEF RunningInv
<1>8. q.pc \in {"put", "release"} /\ q.result # "ERROR" =>
        Row(q.version, q.floor)' /\ Since(q.version, q.started)'
  BY <1>1, RowKept, SinceKept DEF RunningInv
<1> QED
  BY <1>3, <1>4, <1>5, <1>6, <1>7, <1>8 DEF RunningInv

LEMMA AnsweredKept ==
  ASSUME OriginTypes, OriginTypes', HistoryInv, Later,
         NEW q \in Answered, AnsweredInv(q)
  PROVE  AnsweredInv(q)'
<1>1. q.started \in Nat /\ q.version \in Int
  BY DEF Answered, Nil
<1>2. clock \in Nat /\ clock' \in Nat /\ clock <= clock' /\ q.started <= clock
  BY DEF OriginTypes, Later, AnsweredInv
<1>3. q.started <= clock'
  BY <1>1, <1>2
<1>4. q.started - MaxLife + 1 \in Int /\ q.started - MaxLife + 1 <= clock
  BY <1>1, <1>2, LifeBound
<1>5. \A v, floor : Row(v, floor) => Row(v, floor)'
  BY RowKept
<1>6. /\ Since(q.version, q.started) => Since(q.version, q.started)'
      /\ Since(q.version, q.started - MaxLife + 1)
           => Since(q.version, q.started - MaxLife + 1)'
  BY <1>1, <1>2, <1>4, SinceKept
<1> QED
  BY <1>3, <1>5, <1>6 DEF AnsweredInv

LEMMA RefreshKept ==
  ASSUME OriginTypes, OriginTypes', HistoryInv, Later,
         NEW x \in Exec, RefreshInv(x)
  PROVE  RefreshInv(x)'
<1>1. x.now \in Nat /\ x.version \in Int
  BY DEF Exec, Nil
<1>2. clock \in Nat /\ clock' \in Nat /\ clock <= clock'
  BY DEF OriginTypes, Later
<1> QED
  BY <1>1, <1>2, RowKept, SinceKept DEF RefreshInv

LEMMA EntryKept ==
  ASSUME OriginTypes, OriginTypes', CacheTypes, HistoryInv, EntryInv, Later,
         UNCHANGED cacheVars
  PROVE  EntryInv'
<1>1. clock \in Nat /\ clock' \in Nat /\ clock <= clock'
  BY DEF OriginTypes, Later
<1>2. entry' = entry /\ fence' = fence
  BY DEF cacheVars
<1>3. fence <= origin'
  BY DEF EntryInv, Later, Write, originVars, OriginTypes, CacheTypes
<1>4. ASSUME entry # NoEntry
      PROVE  /\ Row(entry.version, fence)'
             /\ entry.soft <= entry.hard
             /\ entry.version # 0 => entry.hard - MaxLife <= clock'
             /\ Aged(entry)'
  <2>1. /\ entry \in Entry /\ entry.version \in Nat /\ entry.hard \in Nat
        /\ MaxLife \in Nat
    BY <1>4, LifeBound DEF CacheTypes, Entry
  <2>2. /\ Row(entry.version, fence) /\ entry.soft <= entry.hard /\ Aged(entry)
        /\ entry.version # 0 => entry.hard - MaxLife <= clock
    BY <1>4 DEF EntryInv
  <2>3. Row(entry.version, fence)'
    BY <1>2, <2>2, RowKept
  <2>4. entry.version # 0 => entry.hard - MaxLife <= clock'
    BY <1>1, <2>1, <2>2
  <2>5. CASE entry.version = 0
    <3>1. HistoryInv'
      BY HistoryKept
    <3>2. \A v, floor, t : Row(v, floor)' /\ v = 0 => Since(v, t)'
      BY <3>1 DEF Since, HistoryInv, Row
    <3> QED
      BY <1>2, <2>2, <2>3, <2>4, <2>5, <3>2 DEF Aged
  <2>6. CASE entry.version # 0
    <3>1. entry.hard - MaxLife \in Int /\ entry.hard - MaxLife <= clock
      BY <2>1, <2>2, <2>6
    <3> QED
      BY <1>2, <2>1, <2>2, <2>3, <2>4, <3>1, SinceKept DEF Aged
  <2> QED
    BY <2>5, <2>6
<1> QED
  BY <1>2, <1>3, <1>4 DEF EntryInv

-----------------------------------------------------------------------------
(* What the steps do to the entry.                                         *)
LEMMA EntryDropped ==
  ASSUME OriginTypes, CacheTypes, EntryInv, UNCHANGED <<originVars, clock>>,
         entry' \in {entry, NoEntry}, fence' = fence \/ fence' = Nil
  PROVE  EntryInv'
<1>1. origin' = origin /\ superseded' = superseded /\ clock' = clock
  BY DEF originVars
<1>2. Nil <= origin /\ \A v \in Int : fence <= v => fence' <= v
  BY DEF OriginTypes, EntryInv, CacheTypes, Nil
<1>3. fence' <= origin'
  BY <1>1, <1>2 DEF EntryInv, OriginTypes
<1>4. CASE entry' = NoEntry
  BY <1>3, <1>4 DEF EntryInv
<1>5. ASSUME entry' = entry, entry # NoEntry
      PROVE  Row(entry.version, fence)' /\ Aged(entry)'
  <2>1. Row(entry.version, fence) /\ Aged(entry)
    BY <1>5 DEF EntryInv
  <2>2. Aged(entry)'
    BY <1>1, <1>5, <2>1 DEF Aged, Since
  <2>3. entry.version \in 0 .. origin /\ fence' <= entry.version
        /\ (entry.version = 0 => origin = 0)
    <3>1. entry.version \in Int
      BY <1>5 DEF CacheTypes, Entry
    <3> QED
      BY <1>2, <2>1, <3>1 DEF Row
  <2> QED
    BY <1>1, <1>5, <2>2, <2>3 DEF Row
<1> QED
  BY <1>1, <1>3, <1>4, <1>5 DEF EntryInv

(* An entry new, by a put or an event.                                     *)
LEMMA EntryPut ==
  ASSUME OriginTypes, CacheTypes, CacheTypes', HistoryInv, EntryInv,
         UNCHANGED <<originVars, clock>>,
         NEW v \in Nat, NEW now \in Nat, NEW mode \in Modes, NEW replayed,
         PutEntry(v, now, mode, replayed),
         Row(v, Nil), now <= clock, replayed \/ Since(v, now)
  PROVE  EntryInv' /\ fence <= fence'
<1>1. origin' = origin /\ superseded' = superseded /\ clock' = clock
      /\ clock \in Nat /\ origin \in Nat /\ fence \in Int
  BY DEF originVars, OriginTypes, CacheTypes, Nil
<1>2. CASE UNCHANGED cacheVars
  <2>1. EntryInv'
    BY <1>1, <1>2 DEF EntryInv, cacheVars, Row, Aged, Since
  <2> QED
    BY <1>1, <1>2, <2>1 DEF cacheVars
<1>3. CASE ~ UNCHANGED cacheVars
  <2> DEFINE e == NewEntry(v, now, mode, replayed)
  <2>1. fence <= v /\ entry' = e /\ fence' = v
    BY <1>1, <1>3 DEF PutEntry, Raised
  <2>2. v \in 0 .. origin /\ (v = 0 => origin = 0)
    BY DEF Row
  <2>3. /\ mode.ttl \in Nat /\ mode.window \in Nat /\ mode.negativeTtl \in Nat
        /\ MaxLife \in Nat /\ mode.ttl + mode.window <= MaxLife
    BY LifeBound, ReadPathAssumption
  <2>4. /\ e.version = v /\ e.replayed = replayed
        /\ e.soft = now + (IF v = 0 THEN mode.negativeTtl ELSE mode.ttl)
        /\ e.hard = e.soft + (IF v = 0 THEN 0 ELSE mode.window)
    BY DEF NewEntry
  <2> HIDE DEF e
  <2>5. /\ e.soft \in Nat /\ e.hard \in Nat /\ e.soft <= e.hard
        /\ v # 0 => e.hard - MaxLife <= now
    BY <2>3, <2>4
  <2>6. v # 0 => e.hard - MaxLife <= clock
    BY <1>1, <2>3, <2>5
  <2>7. replayed \/ Since(v, e.hard - MaxLife)
    <3>1. CASE v = 0
      BY <3>1, SinceAbsent
    <3>2. CASE v # 0
      <4>1. e.hard - MaxLife \in Int /\ e.hard - MaxLife <= now
        BY <2>3, <2>5, <3>2
      <4> QED
        BY <4>1, SinceWeaker
    <3> QED
      BY <3>1, <3>2
  <2>8. Row(entry.version, fence)' /\ Aged(entry)'
    <3>1. Aged(e)'
      BY <1>1, <2>4, <2>7 DEF Aged, Since
    <3> QED
      BY <1>1, <2>1, <2>2, <2>4, <3>1 DEF Row
  <2>9. fence' <= origin'
    BY <1>1, <2>1, <2>2
  <2> QED
    BY <1>1, <2>1, <2>4, <2>5, <2>6, <2>8, <2>9 DEF EntryInv
<1> QED
  BY <1>2, <1>3

(* What get and touch may return.                                          *)
LEMMA EntryServes ==
  ASSUME OriginTypes, CacheTypes, EntryInv, entry # NoEntry,
         NEW floor \in Nat \cup {Nil}, floor <= fence
  PROVE  /\ entry \in Entry /\ Row(entry.version, floor)
         /\ \A at \in Nat : entry.hard > at => Fresh(entry, at)
         /\ \A at \in Nat : entry.soft > at => Fresh(entry, at)
<1>1. /\ entry \in Entry /\ entry.version \in Int /\ entry.hard \in Nat
      /\ entry.soft \in Nat /\ floor \in Int /\ fence \in Int /\ MaxLife \in Nat
  BY LifeBound DEF CacheTypes, Entry, Nil
<1>2. Row(entry.version, fence) /\ entry.soft <= entry.hard /\ Aged(entry)
  BY DEF EntryInv
<1>3. Row(entry.version, floor)
  BY <1>1, <1>2 DEF Row
<1>4. ASSUME NEW at \in Nat, entry.hard > at PROVE Fresh(entry, at)
  <2>1. /\ at - MaxLife + 1 \in Int /\ entry.hard - MaxLife \in Int
        /\ at - MaxLife + 1 <= entry.hard - MaxLife
    BY <1>1, <1>4
  <2> QED
    BY <1>1, <1>2, <2>1, SinceWeaker DEF Fresh, Aged
<1>5. ASSUME NEW at \in Nat, entry.soft > at PROVE entry.hard > at
  BY <1>1, <1>2, <1>5
<1> QED
  BY <1>1, <1>3, <1>4, <1>5

-----------------------------------------------------------------------------
(* A step of one request: what holds of its new record, before the rest    *)
(* of the state has moved, holds after the step.                           *)
Sound(q) ==
  /\ q \in Running \cup Answered /\ RequestTypes(q)
  /\ q \in Running => RunningInv(q)
  /\ q.pc = "done" => AnsweredInv(q)

LEMMA RequestAnswers ==
  ASSUME TypeInv, TypeInv', AnswerInv, NEW r \in Request, NEW q,
         Becomes(r, q), Sound(q), EntryInv', fence <= fence',
         UNCHANGED <<originVars, clock>>, UNCHANGED exec
  PROVE  AnswerInv'
<1>1. /\ OriginTypes /\ OriginTypes' /\ CacheTypes /\ CacheTypes'
      /\ RequestsTyped /\ RefreshesTyped
  BY TypeParts, TypePartsNext
<1>2. Later
  BY <1>1 DEF Later, OriginTypes
<1>3. HistoryInv /\ HistoryInv'
  BY <1>1, <1>2, HistoryKept DEF AnswerInv
<1>4. \A s \in Request : req'[s] = (IF s = r THEN q ELSE req[s])
  BY <1>1 DEF RequestsTyped, Becomes
<1>5. ASSUME NEW p \in Running, RequestTypes(p), RunningInv(p) PROVE RunningInv(p)'
  BY <1>1, <1>2, <1>3, <1>5, RunningKept
<1>6. ASSUME NEW p \in Answered, AnsweredInv(p) PROVE AnsweredInv(p)'
  BY <1>1, <1>2, <1>3, <1>6, AnsweredKept
<1>7. ASSUME NEW x \in Exec, RefreshInv(x) PROVE RefreshInv(x)'
  BY <1>1, <1>2, <1>3, <1>7, RefreshKept
<1>8. ASSUME NEW s \in Request
      PROVE  /\ req'[s] \in Running => RunningInv(req[s])'
             /\ req'[s].pc = "done" => AnsweredInv(req[s])'
  <2>1. PICK p : p = req'[s]
    OBVIOUS
  <2>2. p \in Requests /\ RequestTypes(p)
    BY <1>1, <1>4, <2>1 DEF RequestsTyped, Sound, Requests
  <2>3. /\ p \in Running => RunningInv(p)
        /\ p.pc = "done" => AnsweredInv(p)
    BY <1>4, <2>1 DEF AnswerInv, Sound
  <2>4. p.pc = "done" => p \in Answered
    BY <2>2, RunningIsItsOwn DEF Requests, Idle, Dead
  <2>5. /\ p \in Running => RunningInv(p)'
        /\ p.pc = "done" => AnsweredInv(p)'
    BY <1>5, <1>6, <2>2, <2>3, <2>4
  <2> QED
    BY <2>1, <2>5
<1>9. ASSUME NEW w \in Worker, exec'[w] # Idle PROVE RefreshInv(exec[w])'
  <2>1. PICK x : x = exec'[w]
    OBVIOUS
  <2>2. x \in Exec /\ RefreshInv(x)
    BY <1>1, <1>9, <2>1 DEF RefreshesTyped, AnswerInv
  <2>3. RefreshInv(x)'
    BY <1>7, <2>2
  <2> QED
    BY <2>1, <2>3
<1> QED
  BY <1>3, <1>8, <1>9 DEF AnswerInv

(* What is known of a request before its step.                             *)
LEMMA KnownRunning ==
  ASSUME TypeInv, AnswerInv, NEW r \in Request, req[r] \in Running
  PROVE  /\ RunningInv(req[r]) /\ RequestTypes(req[r])
         /\ req[r].started \in Nat /\ req[r].now \in Nat /\ req[r].at \in Nat
         /\ req[r].floor \in Nat \cup {Nil} /\ req[r].floor <= fence
         /\ req[r].started <= clock /\ req[r].now <= clock /\ clock \in Nat
  BY TypeParts DEF AnswerInv, RunningInv, Running, RequestsTyped, OriginTypes

LEMMA CacheKept ==
  ASSUME TypeInv, TypeInv', AnswerInv, UNCHANGED <<originVars, clock, cacheVars>>
  PROVE  EntryInv' /\ fence <= fence'
<1>1. OriginTypes /\ OriginTypes' /\ CacheTypes
  BY TypeParts, TypePartsNext
<1>2. Later
  BY <1>1 DEF Later, OriginTypes
<1>3. EntryInv'
  BY <1>1, <1>2, EntryKept DEF AnswerInv
<1> QED
  BY <1>1, <1>3 DEF cacheVars, CacheTypes, Nil

(* Steps that only read Redis and the clock. *)
LEMMA ReadingAnswers ==
  ASSUME TypeInv, TypeInv', AnswerInv, NEW r \in Request, NEW q, Becomes(r, q), Sound(q),
         UNCHANGED <<originVars, clock, cacheVars, exec>>
  PROVE  AnswerInv'
  BY CacheKept, RequestAnswers

LEMMA RunningSound ==
  ASSUME NEW p \in Running, RunningInv(p), NEW q \in Running,
         q.started = p.started, q.floor = p.floor, q.now = p.now, q.result = p.result,
         p.pc # "release",
         q.pc \in {"get", "drop", "lock", "poll", "origin", "bypass"},
         q.pc # "bypass" => q.started <= q.at /\ q.at <= clock
  PROVE  Sound(q)
  BY RunningIsItsOwn DEF RunningInv, Sound, RequestTypes

LEMMA BeginAnswers ==
  ASSUME TypeInv, TypeInv', AnswerInv, NEW r \in Request, NEW i \in Instance, Begin(r, i)
  PROVE  AnswerInv'
<1>1. PICK q \in Running :
        /\ Becomes(r, q) /\ q.pc = "settings" /\ ~q.lease /\ q.result = "none"
        /\ q.started = clock /\ q.floor = fence /\ q.now = 0
  BY TypeParts, BeginMeans
<1>2. clock \in Nat /\ fence \in Int
  BY TypeParts DEF OriginTypes, CacheTypes, Nil
<1>3. Sound(q)
  BY <1>1, <1>2 DEF Sound, RunningInv, RequestTypes
<1> QED
  BY <1>1, <1>3, ReadingAnswers DEF Begin, refreshVars

LEMMA ReadSettingsAnswers ==
  ASSUME TypeInv, TypeInv', AnswerInv, NEW r \in Request, ReadSettings(r)
  PROVE  AnswerInv'
<1>1. req[r] \in Running /\ req[r].pc = "settings"
  BY TypeParts, ReadSettingsMeans
<1>2. PICK q \in Running :
        /\ Becomes(r, q) /\ q.pc = "get" /\ q.now = clock /\ q.at = clock
        /\ q.started = req[r].started /\ q.floor = req[r].floor
        /\ q.lease = req[r].lease /\ q.result = req[r].result
  BY TypeParts, ReadSettingsMeans
<1>3. /\ RunningInv(req[r]) /\ req[r].started <= clock /\ req[r].floor <= fence
      /\ clock \in Nat
  BY <1>1, KnownRunning
<1>4. Sound(q)
  BY <1>1, <1>2, <1>3 DEF Sound, RunningInv, RequestTypes
<1> QED
  BY <1>2, <1>4, ReadingAnswers DEF ReadSettings, refreshVars

LEMMA LookupAnswers ==
  ASSUME TypeInv, TypeInv', AnswerInv, NEW r \in Request, Lookup(r)
  PROVE  AnswerInv'
<1> DEFINE p == req[r]
<1>1. p \in Running /\ p.pc = "get"
  BY TypeParts, LookupMeans
<1>2. PICK q \in Running :
        /\ Becomes(r, q) /\ Keeps(p, q) /\ q.at = p.at /\ q.older = p.older
        /\ \/ q.pc \in {"drop", "lock", "poll", "origin"}
           \/ /\ q.pc \in {"touch", "enqueue"} /\ q.got = entry
              /\ entry \in Entry /\ entry # NoEntry /\ entry.hard > q.at
  BY TypeParts, LookupMeans
<1>3. /\ RunningInv(p) /\ p.at \in Nat
      /\ p.floor \in Nat \cup {Nil} /\ p.floor <= fence
  BY <1>1, KnownRunning
<1>4. Sound(q)
  <2>1. CASE q.pc \in {"drop", "lock", "poll", "origin"}
    BY <1>1, <1>2, <1>3, <2>1, RunningSound DEF Keeps, RunningInv
  <2>2. CASE q.pc \in {"touch", "enqueue"}
    <3>1. Row(q.got.version, q.floor) /\ Fresh(q.got, q.at)
      BY <1>2, <1>3, <2>2, EntryServes, TypeParts DEF AnswerInv, Keeps
    <3> QED
      BY <1>1, <1>2, <1>3, <2>2, <3>1 DEF Sound, RunningInv, RequestTypes, Keeps
  <2> QED
    BY <1>2, <2>1, <2>2
<1> QED
  BY <1>2, <1>4, ReadingAnswers DEF Lookup, refreshVars

LEMMA DropAnswers ==
  ASSUME TypeInv, TypeInv', AnswerInv, NEW r \in Request, DropExpired(r)
  PROVE  AnswerInv'
<1> DEFINE p == req[r]
<1>1. p \in Running /\ p.pc = "drop"
  BY TypeParts, DropMeans
<1>2. PICK q \in Running :
        /\ Becomes(r, q) /\ Keeps(p, q) /\ q.at = p.at
        /\ q.pc \in {"lock", "poll", "origin"}
  BY TypeParts, DropMeans
<1>3. RunningInv(p)
  BY <1>1, KnownRunning
<1>4. Sound(q)
  BY <1>1, <1>2, <1>3, RunningSound DEF Keeps, RunningInv
<1>5. EntryInv' /\ fence <= fence'
  BY TypeParts, EntryDropped DEF DropExpired, AnswerInv, CacheTypes, Nil
<1> QED
  BY <1>2, <1>4, <1>5, RequestAnswers DEF DropExpired, refreshVars

LEMMA TouchAnswers ==
  ASSUME TypeInv, TypeInv', AnswerInv, NEW r \in Request, Touch(r)
  PROVE  AnswerInv'
<1> DEFINE p == req[r]
<1>1. p \in Running /\ p.pc = "touch" /\ p.got \in Entry
  BY TypeParts, TouchMeans
<1>2. /\ RunningInv(p) /\ p.at \in Nat /\ p.started \in Nat
      /\ p.floor \in Nat \cup {Nil} /\ p.floor <= fence /\ p.started <= clock
  BY <1>1, KnownRunning
<1>3. p.started <= p.at /\ p.at <= clock /\ Fresh(p.got, p.at) /\ p.result = "none"
  BY <1>1, <1>2 DEF RunningInv
<1>4. entry # NoEntry =>
        /\ entry \in Entry /\ Row(entry.version, p.floor)
        /\ entry.soft > p.at => Fresh(entry, p.at)
  BY <1>2, TypeParts, EntryServes DEF AnswerInv
<1>5. MaxLife \in Nat
  BY LifeBound
<1>6. CASE entry \in Entry /\ entry # NoEntry /\ entry.soft > p.at
           /\ \E q \in Answered :
                /\ Becomes(r, q) /\ q.pc = "done" /\ q.result = "HIT"
                /\ q.version = entry.version /\ q.replayed = entry.replayed
                /\ q.started = p.started /\ q.floor = p.floor
  <2>1. PICK q \in Answered :
          /\ Becomes(r, q) /\ q.pc = "done" /\ q.result = "HIT"
          /\ q.version = entry.version /\ q.replayed = entry.replayed
          /\ q.started = p.started /\ q.floor = p.floor
    BY <1>6
  <2>2. /\ entry.version \in Int /\ p.at - MaxLife + 1 \in Int
        /\ p.started - MaxLife + 1 \in Int
        /\ p.started - MaxLife + 1 <= p.at - MaxLife + 1
    BY <1>2, <1>3, <1>5, <1>6 DEF Entry
  <2>3. entry.replayed \/ Since(entry.version, p.started - MaxLife + 1)
    BY <1>4, <1>6, <2>2, TypeParts, SinceWeaker DEF Fresh
  <2>4. Sound(q)
    BY <1>2, <1>4, <1>6, <2>1, <2>3, RunningIsItsOwn
       DEF Sound, AnsweredInv, RequestTypes
  <2> QED
    BY <2>1, <2>4, ReadingAnswers DEF Touch, refreshVars
<1>7. ASSUME NEW q \in Running, Becomes(r, q), Keeps(p, q), q.at = p.at,
             \/ q.pc \in {"lock", "poll", "origin"}
             \/ /\ q.pc = "enqueue" /\ entry \in Entry /\ entry # NoEntry
                /\ q.got \in Entry /\ q.got.version = entry.version
                /\ p.got.replayed => q.got.replayed
                /\ q.older \/ p.got.version <= entry.version
      PROVE  AnswerInv'
  <2>1. Sound(q)
    <3>1. CASE q.pc \in {"lock", "poll", "origin"}
      BY <1>1, <1>2, <1>3, <1>7, <3>1, RunningSound DEF Keeps
    <3>2. CASE q.pc = "enqueue"
      <4>1. q.older \/ Fresh(q.got, q.at)
        <5>1. /\ p.got.version \in Int /\ entry.version \in Int
              /\ p.at - MaxLife + 1 \in Int
          BY <1>1, <1>2, <1>5, <1>7, <3>2 DEF Entry
        <5> QED
          BY <1>3, <1>7, <3>2, <5>1, TypeParts, SinceWeaker DEF Fresh
      <4>2. Row(q.got.version, q.floor)
        BY <1>4, <1>7, <3>2 DEF Keeps
      <4> QED
        BY <1>1, <1>2, <1>3, <1>7, <3>2, <4>1, <4>2
           DEF Sound, RunningInv, RequestTypes, Keeps
    <3> QED
      BY <1>7, <3>1, <3>2
  <2> QED
    BY <1>7, <2>1, ReadingAnswers DEF Touch, refreshVars
<1> QED
  BY <1>6, <1>7, TypeParts, TouchMeans

LEMMA EnqueueAnswers ==
  ASSUME TypeInv, TypeInv', AnswerInv, NEW r \in Request, EnqueueRefresh(r)
  PROVE  AnswerInv'
<1> DEFINE p == req[r]
<1>1. p \in Running /\ p.pc = "enqueue" /\ p.got \in Entry
  BY TypeParts, EnqueueMeans
<1>2. PICK q \in Answered :
        /\ Becomes(r, q) /\ q.pc = "done" /\ q.result = "STALE"
        /\ q.version = p.got.version /\ q.replayed = p.got.replayed
        /\ q.started = p.started /\ q.floor = p.floor /\ q.older = p.older
  BY TypeParts, EnqueueMeans
<1>3. RunningInv(p) /\ p.at \in Nat /\ p.started \in Nat /\ p.started <= clock
  BY <1>1, KnownRunning
<1>4. p.started <= p.at /\ Row(p.got.version, p.floor) /\ (p.older \/ Fresh(p.got, p.at))
  BY <1>1, <1>3 DEF RunningInv
<1>5. /\ p.got.version \in Int /\ p.at - MaxLife + 1 \in Int
      /\ p.started - MaxLife + 1 \in Int
      /\ p.started - MaxLife + 1 <= p.at - MaxLife + 1
  BY <1>1, <1>3, <1>4, LifeBound DEF Entry
<1>6. \/ p.got.replayed \/ p.older
      \/ Since(p.got.version, p.started - MaxLife + 1)
  BY <1>4, <1>5, TypeParts, SinceWeaker DEF Fresh
<1>7. Sound(q)
  BY <1>2, <1>3, <1>4, <1>6, RunningIsItsOwn DEF Sound, AnsweredInv, RequestTypes
<1> QED
  BY <1>2, <1>7, ReadingAnswers DEF EnqueueRefresh

LEMMA WaitingAnswers ==
  ASSUME TypeInv, TypeInv', AnswerInv, NEW r \in Request, Acquire(r) \/ Poll(r)
  PROVE  AnswerInv'
<1> DEFINE p == req[r]
<1>1. /\ p \in Running /\ p.pc \in {"lock", "poll"}
      /\ \E q \in Running :
           /\ Becomes(r, q) /\ q.pc \in {"get", "poll", "origin"}
           /\ q.started = p.started /\ q.floor = p.floor /\ q.now = p.now
           /\ q.result = p.result /\ q.at \in {p.at, clock}
  <2>1. CASE Acquire(r)
    BY <2>1, TypeParts, AcquireMeans
  <2>2. CASE Poll(r)
    BY <2>2, TypeParts, PollMeans DEF Keeps
  <2> QED
    BY <2>1, <2>2
<1>2. RunningInv(p) /\ p.started <= clock /\ clock \in Nat
  BY <1>1, KnownRunning
<1>3. p.started <= p.at /\ p.at <= clock
  BY <1>1, <1>2 DEF RunningInv
<1>4. PICK q \in Running :
        /\ Becomes(r, q) /\ q.pc \in {"get", "poll", "origin"}
        /\ q.started = p.started /\ q.floor = p.floor /\ q.now = p.now
        /\ q.result = p.result /\ q.at \in {p.at, clock}
  BY <1>1
<1>5. q.started <= q.at /\ q.at <= clock
  BY <1>2, <1>3, <1>4
<1>6. Sound(q)
  BY <1>1, <1>2, <1>4, <1>5, RunningSound
<1> QED
  BY <1>4, <1>6, ReadingAnswers DEF Acquire, Poll, refreshVars

LEMMA ReadOriginAnswers ==
  ASSUME TypeInv, TypeInv', AnswerInv, NEW r \in Request, ReadOrigin(r)
  PROVE  AnswerInv'
<1> DEFINE p == req[r]
<1>1. p \in Running /\ p.pc = "origin"
  BY TypeParts, ReadOriginMeans
<1>2. PICK q \in Running :
        /\ Becomes(r, q) /\ q.pc = "put" /\ q.version = origin
        /\ q.lease = p.lease /\ q.result = p.result
        /\ q.started = p.started /\ q.floor = p.floor
        /\ q.now = p.now /\ q.at = p.at
  BY TypeParts, ReadOriginMeans
<1>3. RunningInv(p) /\ p.floor \in Nat \cup {Nil} /\ p.floor <= fence
  BY <1>1, KnownRunning
<1>4. Row(origin, p.floor)
  BY <1>3, TypeParts DEF Row, AnswerInv, EntryInv, OriginTypes, CacheTypes, Nil
<1>5. \A t : Since(origin, t)
  BY SinceLatest DEF AnswerInv
<1>6. origin \in Nat
  BY TypeParts DEF OriginTypes
<1>7. Sound(q)
  BY <1>1, <1>2, <1>3, <1>4, <1>5, <1>6 DEF Sound, RunningInv, RequestTypes
<1> QED
  BY <1>2, <1>7, ReadingAnswers DEF ReadOrigin, refreshVars

-----------------------------------------------------------------------------
(* Leaving read.                                                           *)
LEMMA LeavesSound ==
  ASSUME TypeInv, AnswerInv, NEW r \in Request,
         NEW result \in {"MISS", "BYPASS", "ERROR"}, NEW v, Leaves(r, result, v),
         result # "ERROR" => Row(v, req[r].floor) /\ Since(v, req[r].started)
  PROVE  \E q : Becomes(r, q) /\ Sound(q)
<1> DEFINE p == req[r]
<1>1. p \in Running
  BY DEF Leaves
<1>2. PICK q \in Running \cup Answered :
        /\ Becomes(r, q) /\ q.result = result /\ q.version = v
        /\ q.started = p.started /\ q.floor = p.floor
        /\ \/ /\ q \in Running /\ q.pc = "release" /\ q.lease = p.lease
              /\ q.now = p.now /\ q.at = p.at
           \/ q \in Answered /\ q.pc = "done"
  BY DEF Leaves
<1>3. /\ p.started <= clock /\ p.now <= clock /\ p.floor <= fence
  BY <1>1, KnownRunning
<1>4. Sound(q)
  BY <1>2, <1>3, RunningIsItsOwn DEF Sound, RunningInv, AnsweredInv, RequestTypes
<1> QED
  BY <1>2, <1>4

LEMMA PutSound ==
  ASSUME TypeInv, AnswerInv, NEW r \in Request, req[r].pc = "put",
         NEW result \in {"MISS", "BYPASS"}, Leaves(r, result, req[r].version)
  PROVE  \E q : Becomes(r, q) /\ Sound(q)
<1> DEFINE v == req[r].version
<1>1. req[r] \in Running
  BY DEF Leaves
<1>2. RunningInv(req[r])
  BY <1>1, KnownRunning
<1>3. Row(v, req[r].floor) /\ Since(v, req[r].started)
  BY <1>2 DEF RunningInv
<1> HIDE DEF v
<1>4. Leaves(r, result, v) /\ result \in {"MISS", "BYPASS", "ERROR"}
  BY DEF v
<1> QED
  BY <1>3, <1>4, LeavesSound

LEMMA RowPutAnswers ==
  ASSUME TypeInv, TypeInv', AnswerInv, NEW r \in Request, req[r].pc = "put", RowPut(r),
         UNCHANGED <<originVars, clock>>
  PROVE  EntryInv' /\ fence <= fence'
<1> DEFINE p == req[r]
<1>1. p \in Running /\ RequestsTyped
  BY TypeParts, AtWorkTyped
<1>2. /\ RunningInv(p) /\ RequestTypes(p) /\ p.now \in Nat /\ p.now <= clock
      /\ p.mode \in Modes
  BY <1>1, KnownRunning DEF Running
<1>3. p.version \in Nat /\ Row(p.version, p.floor) /\ Since(p.version, p.now)
  BY <1>2 DEF RunningInv, RequestTypes
<1>4. Row(p.version, Nil)
  BY <1>3 DEF Row, Nil
<1>5. /\ OriginTypes /\ CacheTypes /\ CacheTypes' /\ HistoryInv /\ EntryInv
  BY TypeParts, TypePartsNext DEF AnswerInv
<1> DEFINE v == p.version
           now == p.now
           mode == p.mode
<1> HIDE DEF v, now, mode
<1>6. PutEntry(v, now, mode, FALSE)
  BY DEF RowPut, v, now, mode
<1>7. /\ v \in Nat /\ now \in Nat /\ mode \in Modes /\ Row(v, Nil)
      /\ now <= clock /\ Since(v, now)
  BY <1>2, <1>3, <1>4 DEF v, now, mode
<1> QED
  BY <1>5, <1>6, <1>7, EntryPut

LEMMA FillAnswers ==
  ASSUME TypeInv, TypeInv', AnswerInv, NEW r \in Request, Fill(r)
  PROVE  AnswerInv'
<1>1. Leaves(r, "MISS", req[r].version)
  BY TypeParts, PutLeaves DEF Fill
<1>2. PICK q : Becomes(r, q) /\ Sound(q)
  BY <1>1, PutSound DEF Fill
<1>3. EntryInv' /\ fence <= fence'
  BY RowPutAnswers DEF Fill, RowPut
<1> QED
  BY <1>2, <1>3, RequestAnswers DEF Fill, refreshVars

LEMMA ReleasedAnswers ==
  ASSUME TypeInv, TypeInv', AnswerInv, NEW r \in Request, req[r].pc = "release",
         Answer(r, req[r].result, req[r].version, FALSE),
         UNCHANGED <<originVars, clock, cacheVars, exec>>
  PROVE  AnswerInv'
<1> DEFINE p == req[r]
<1>1. p \in Running
  BY TypeParts, ReleaseMeans
<1>2. PICK q \in Answered :
        /\ Becomes(r, q) /\ q.pc = "done"
        /\ q.result = p.result /\ q.version = p.version
        /\ q.started = p.started /\ q.floor = p.floor
  BY TypeParts, ReleaseMeans
<1>3. RunningInv(p)
  BY <1>1, KnownRunning
<1>4. Sound(q)
  BY <1>2, <1>3, RunningIsItsOwn DEF Sound, RunningInv, AnsweredInv, RequestTypes
<1> QED
  BY <1>2, <1>4, ReadingAnswers

LEMMA BypassAnswers ==
  ASSUME TypeInv, TypeInv', AnswerInv, NEW r \in Request, Bypass(r)
  PROVE  AnswerInv'
<1> DEFINE p == req[r]
<1>1. p \in Running
  BY TypeParts, BypassMeans
<1>2. PICK q \in Answered :
        /\ Becomes(r, q) /\ q.pc = "done" /\ q.result = "BYPASS" /\ q.version = origin
        /\ q.started = p.started /\ q.floor = p.floor
  BY TypeParts, BypassMeans
<1>3. p.floor \in Nat \cup {Nil} /\ p.floor <= fence /\ p.started <= clock
  BY <1>1, KnownRunning
<1>4. Row(origin, p.floor)
  BY <1>3, TypeParts DEF Row, AnswerInv, EntryInv, OriginTypes, CacheTypes, Nil
<1>5. Since(origin, p.started)
  BY SinceLatest DEF AnswerInv
<1>6. Sound(q)
  BY <1>2, <1>3, <1>4, <1>5, RunningIsItsOwn DEF Sound, AnsweredInv, RequestTypes
<1> QED
  BY <1>2, <1>6, ReadingAnswers DEF Bypass, refreshVars

LEMMA TurnsAwaySound ==
  ASSUME TypeInv, AnswerInv, NEW r \in Request, TurnsAway(r)
  PROVE  \E q : Becomes(r, q) /\ Sound(q)
<1>1. req[r] \in Running /\ req[r].pc # "release"
  BY DEF TurnsAway
<1>2. PICK q \in Running : Becomes(r, q) /\ q.pc = "bypass" /\ Keeps(req[r], q)
  BY DEF TurnsAway
<1>3. RunningInv(req[r])
  BY <1>1, KnownRunning
<1>4. Sound(q)
  BY <1>1, <1>2, <1>3, RunningSound DEF Keeps
<1> QED
  BY <1>2, <1>4

LEMMA TroubleAnswers ==
  ASSUME TypeInv, TypeInv', AnswerInv, NEW r \in Request, Refused(r) \/ Trouble(r)
  PROVE  AnswerInv'
<1>0. RequestsTyped /\ OriginTypes /\ CacheTypes
  BY TypeParts
<1>1. CASE Refused(r)
  <2>1. PICK q : Becomes(r, q) /\ Sound(q)
    <3>1. CASE req[r].pc = "put"
      BY <1>0, <1>1, <3>1, PutLeaves, PutSound DEF Refused
    <3>2. CASE req[r].pc # "put"
      BY <1>0, <1>1, <3>2, GoesAway, TurnsAwaySound DEF Refused
    <3> QED
      BY <3>1, <3>2
  <2> QED
    BY <1>1, <2>1, ReadingAnswers DEF Refused, refreshVars
<1>2. CASE CommandFails(r)
  <2>1. /\ UNCHANGED <<originVars, clock, refreshVars>>
        /\ \/ /\ req[r].pc = "put" /\ Leaves(r, "BYPASS", req[r].version)
              /\ RowPut(r) \/ UNCHANGED cacheVars
           \/ /\ TurnsAway(r)
              /\ UNCHANGED fence /\ entry' \in {entry, NoEntry}
    BY <1>0, <1>2, CommandFailsMeans
  <2>2. PICK q : Becomes(r, q) /\ Sound(q)
    BY <2>1, PutSound, TurnsAwaySound
  <2>3. EntryInv' /\ fence <= fence'
    <3>1. CASE req[r].pc = "put" /\ RowPut(r)
      BY <2>1, <3>1, RowPutAnswers
    <3>2. CASE UNCHANGED cacheVars
      BY <2>1, <3>2, CacheKept
    <3>3. CASE UNCHANGED fence /\ entry' \in {entry, NoEntry}
      BY <1>0, <2>1, <3>3, EntryDropped DEF AnswerInv, CacheTypes, Nil
    <3> QED
      BY <2>1, <3>1, <3>2, <3>3
  <2> QED
    BY <2>1, <2>2, <2>3, RequestAnswers DEF refreshVars
<1>3. CASE UnguardedFails(r)
  <2>1. UNCHANGED <<originVars, clock, cacheVars, exec>>
    BY <1>3 DEF UnguardedFails
  <2>2. CASE TurnsAway(r)
    BY <2>1, <2>2, TurnsAwaySound, ReadingAnswers
  <2>3. CASE req[r].pc = "release" /\ Answer(r, req[r].result, req[r].version, FALSE)
    BY <2>1, <2>3, ReleasedAnswers
  <2> QED
    BY <1>0, <1>3, <2>2, <2>3, UnguardedFailsMeans
<1>4. CASE OriginFails(r)
  <2>1. PICK q : Becomes(r, q) /\ Sound(q)
    BY <1>0, <1>4, OriginFailsMeans, LeavesSound
  <2> QED
    BY <1>4, <2>1, ReadingAnswers DEF OriginFails, refreshVars
<1> QED
  BY <1>1, <1>2, <1>3, <1>4 DEF Trouble

-----------------------------------------------------------------------------
(* The steps of the rest of the system: requests go on or die, refreshes   *)
(* end or go on soundly, and the row may be written.                       *)
LEMMA SystemAnswers ==
  ASSUME TypeInv, TypeInv', AnswerInv, Later, EntryInv', fence <= fence',
         \A s \in Request : req'[s] \in {req[s], Dead},
         \A w \in Worker : exec'[w] \in {exec[w], Idle} \/ RefreshInv(exec'[w])
  PROVE  AnswerInv'
<1>1. /\ OriginTypes /\ OriginTypes' /\ CacheTypes /\ CacheTypes'
      /\ RequestsTyped /\ RefreshesTyped /\ RefreshesTyped'
  BY TypeParts, TypePartsNext
<1>2. HistoryInv /\ HistoryInv'
  BY <1>1, HistoryKept DEF AnswerInv
<1>3. ASSUME NEW s \in Request
      PROVE  /\ req'[s] \in Running => RunningInv(req[s])'
             /\ req'[s].pc = "done" => AnsweredInv(req[s])'
  <2>1. PICK p : p = req[s]
    OBVIOUS
  <2>2. p \in Requests /\ RequestTypes(p)
    BY <1>1, <2>1 DEF RequestsTyped
  <2>3. p.pc = "done" => p \in Answered
    BY <2>2, RunningIsItsOwn DEF Requests, Idle, Dead
  <2>4. p \in Running => RunningInv(p)'
    BY <1>1, <1>2, <2>1, <2>2, RunningKept DEF AnswerInv
  <2>5. p.pc = "done" => AnsweredInv(p)'
    BY <1>1, <1>2, <2>1, <2>3, AnsweredKept DEF AnswerInv
  <2>6. CASE req'[s] = req[s]
    BY <2>1, <2>4, <2>5, <2>6
  <2>7. CASE req'[s] = Dead
    BY <2>7, RunningIsItsOwn DEF Dead
  <2> QED
    BY <2>6, <2>7
<1>4. ASSUME NEW w \in Worker, exec'[w] # Idle PROVE RefreshInv(exec[w])'
  <2>1. PICK x : x = exec'[w]
    OBVIOUS
  <2>2. x \in Exec
    BY <1>1, <1>4, <2>1 DEF RefreshesTyped
  <2>3. RefreshInv(x)
    BY <1>4, <2>1 DEF AnswerInv
  <2>4. RefreshInv(x)'
    BY <1>1, <1>2, <2>2, <2>3, RefreshKept
  <2> QED
    BY <2>1, <2>4
<1> QED
  BY <1>2, <1>3, <1>4 DEF AnswerInv

LEMMA SameRow ==
  ASSUME TypeInv, UNCHANGED <<originVars, clock>>
  PROVE  Later
  BY TypeParts DEF Later, OriginTypes

(* Steps that leave Redis' entry and the refreshes alone. *)
LEMMA QuietAnswers ==
  ASSUME TypeInv, TypeInv', AnswerInv, UNCHANGED <<cacheVars, exec>>, Later,
         \A s \in Request : req'[s] \in {req[s], Dead}
  PROVE  AnswerInv'
<1>1. EntryInv'
  BY TypeParts, TypePartsNext, EntryKept DEF AnswerInv
<1>2. fence <= fence'
  BY TypeParts DEF cacheVars, CacheTypes, Nil
<1> QED
  BY <1>1, <1>2, SystemAnswers

LEMMA CrashAnswers ==
  ASSUME TypeInv, TypeInv', AnswerInv, NEW i \in Instance, Crash(i)
  PROVE  AnswerInv'
<1>1. \A s \in Request : req'[s] \in {req[s], Dead}
  BY DEF Crash
<1> QED
  BY <1>1, SameRow, QuietAnswers DEF Crash, refreshVars

LEMMA TimeAnswers ==
  ASSUME TypeInv, TypeInv', AnswerInv,
         \/ Write \/ Tick \/ LeaseExpires
         \/ \E i \in Instance : Recover(i)
         \/ UNCHANGED vars
  PROVE  AnswerInv'
<1>1. UNCHANGED <<cacheVars, exec, req>>
  BY DEF Write, Tick, LeaseExpires, Recover, vars, cacheVars, refreshVars
<1>2. Later
  BY TypeParts DEF Write, Tick, LeaseExpires, Recover, vars, Later, originVars, OriginTypes
<1>3. \A s \in Request : req'[s] \in {req[s], Dead}
  BY <1>1
<1> QED
  BY <1>1, <1>2, <1>3, QuietAnswers

LEMMA EvictAnswers ==
  ASSUME TypeInv, TypeInv', AnswerInv, Evict
  PROVE  AnswerInv'
<1>1. EntryInv' /\ fence <= fence'
  BY TypeParts, EntryDropped DEF Evict, AnswerInv, CacheTypes, Nil
<1>2. UNCHANGED <<req, exec>>
  BY DEF Evict, refreshVars
<1>3. Later
  BY SameRow DEF Evict
<1> QED
  BY <1>1, <1>2, <1>3, SystemAnswers

LEMMA ReconcileAnswers ==
  ASSUME TypeInv, TypeInv', AnswerInv, NEW v \in 1 .. origin, Reconcile(v)
  PROVE  AnswerInv'
<1>1. /\ OriginTypes /\ CacheTypes /\ CacheTypes' /\ HistoryInv /\ EntryInv
      /\ v \in Nat /\ v # 0 /\ v <= origin /\ origin \in Nat
  BY TypeParts, TypePartsNext DEF AnswerInv, OriginTypes
<1>2. UNCHANGED <<originVars, clock, req, exec>>
  BY DEF Reconcile, Invalidated, WrittenThrough, refreshVars
<1>3. EntryInv' /\ fence <= fence'
  <2>1. CASE Invalidated(v)
    <3>1. /\ entry' = (IF entry.version <= v THEN NoEntry ELSE entry)
          /\ fence' = Raised(v)
      BY <2>1 DEF Invalidated
    <3>2. fence \in Int /\ fence <= origin /\ fence' \in Int
          /\ fence <= fence' /\ fence' <= origin
      BY <1>1, <3>1 DEF Raised, CacheTypes, EntryInv, Nil
    <3>3. origin' = origin /\ superseded' = superseded /\ clock' = clock
      BY <1>2 DEF originVars
    <3>4. ASSUME entry' # NoEntry PROVE Row(entry.version, fence)' /\ Aged(entry)'
      <4>1. entry' = entry /\ ~(entry.version <= v) /\ entry # NoEntry
        BY <3>1, <3>4
      <4>2. Row(entry.version, fence) /\ Aged(entry) /\ entry.version \in Int
        BY <1>1, <4>1 DEF EntryInv, CacheTypes, Entry
      <4>3. fence' <= entry.version
        BY <1>1, <3>1, <4>1, <4>2 DEF Raised, Row
      <4>4. Aged(entry)'
        BY <3>3, <4>1, <4>2 DEF Aged, Since
      <4> QED
        BY <3>3, <4>1, <4>2, <4>3, <4>4 DEF Row
    <3> QED
      BY <1>1, <3>1, <3>2, <3>3, <3>4 DEF EntryInv
  <2>2. ASSUME NEW now \in 0 .. clock, NEW m \in Modes, WrittenThrough(v, now, m)
        PROVE  EntryInv' /\ fence <= fence'
    <3>1. now \in Nat /\ now <= clock
      BY <1>1 DEF OriginTypes
    <3>2. Row(v, Nil)
      BY <1>1 DEF Row, Nil
    <3>3. PutEntry(v, now, m, TRUE)
      BY <2>2 DEF WrittenThrough
    <3> QED
      BY <1>1, <1>2, <3>1, <3>2, <3>3, EntryPut
  <2> QED
    BY <2>1, <2>2 DEF Reconcile
<1>4. Later
  BY <1>2, SameRow
<1> QED
  BY <1>2, <1>3, <1>4, SystemAnswers

LEMMA RefreshPutAnswers ==
  ASSUME TypeInv, TypeInv', AnswerInv, NEW w \in Worker, exec[w].pc = "put",
         PutEntry(exec[w].version, exec[w].now, exec[w].mode, FALSE),
         UNCHANGED <<originVars, clock>>
  PROVE  EntryInv' /\ fence <= fence'
<1> DEFINE x == exec[w]
<1>1. /\ OriginTypes /\ CacheTypes /\ CacheTypes' /\ HistoryInv /\ EntryInv
      /\ RefreshesTyped
  BY TypeParts, TypePartsNext DEF AnswerInv
<1>2. x # Idle
  BY DEF Idle
<1>3. x.version \in Nat /\ x.now \in Nat /\ x.mode \in Modes
  BY <1>1, <1>2, AtWorkRefresh
<1>4. RefreshInv(x)
  BY <1>2 DEF AnswerInv
<1> DEFINE v == x.version
           now == x.now
           mode == x.mode
<1> HIDE DEF v, now, mode
<1>5. PutEntry(v, now, mode, FALSE)
  BY DEF v, now, mode
<1>6. /\ v \in Nat /\ now \in Nat /\ mode \in Modes /\ Row(v, Nil)
      /\ now <= clock /\ Since(v, now)
  BY <1>3, <1>4 DEF RefreshInv, v, now, mode
<1> QED
  BY <1>1, <1>5, <1>6, EntryPut

LEMMA RefreshAnswers ==
  ASSUME TypeInv, TypeInv', AnswerInv, NEW w \in Worker,
         RefreshProceeds(w) \/ RefreshFails(w) \/ Stall(w)
  PROVE  AnswerInv'
<1>1. OriginTypes /\ RefreshesTyped /\ CacheTypes
  BY TypeParts
<1>2. UNCHANGED <<originVars, clock, req>>
  BY DEF RefreshProceeds, RefreshBegin, RefreshRead, RefreshPut, RefreshEnd,
         RefreshFails, Stall
<1>3. EntryInv' /\ fence <= fence'
  <2>1. \/ UNCHANGED cacheVars
        \/ /\ exec[w].pc = "put"
           /\ PutEntry(exec[w].version, exec[w].now, exec[w].mode, FALSE)
    BY DEF RefreshProceeds, RefreshBegin, RefreshRead, RefreshPut, RefreshEnd,
           RefreshFails, Stall
  <2> QED
    BY <1>2, <2>1, CacheKept, RefreshPutAnswers
<1>4. \A s \in Worker \ {w} : exec'[s] = exec[s]
  BY <1>1 DEF RefreshProceeds, RefreshBegin, RefreshRead, RefreshPut, RefreshEnd,
              RefreshFails, Stall, RefreshesTyped
<1>5. exec'[w] \in {exec[w], Idle} \/ RefreshInv(exec'[w])
  <2>1. CASE RefreshBegin(w)
    <3>1. exec'[w].pc = "origin" /\ exec'[w].now = clock
      BY <1>1, <2>1 DEF RefreshBegin, RefreshesTyped
    <3> QED
      BY <1>1, <3>1 DEF RefreshInv, OriginTypes
  <2>2. CASE RefreshRead(w)
    <3>1. exec[w] # Idle /\ exec[w] \in Exec
      BY <1>1, <2>2, AtWorkRefresh DEF RefreshRead, Idle
    <3>2. RefreshInv(exec[w])
      BY <3>1 DEF AnswerInv
    <3>3. exec'[w].version = origin /\ exec'[w].now = exec[w].now
      BY <1>1, <2>2, <3>1 DEF RefreshRead, RefreshesTyped, Exec
    <3>4. Row(origin, Nil) /\ Since(origin, exec[w].now)
      BY <1>1, SinceLatest DEF AnswerInv, Row, OriginTypes, Nil
    <3> QED
      BY <3>2, <3>3, <3>4 DEF RefreshInv
  <2>3. CASE RefreshPut(w)
    <3>1. exec[w] # Idle /\ exec[w] \in Exec
      BY <1>1, <2>3, AtWorkRefresh DEF RefreshPut, Idle
    <3>2. RefreshInv(exec[w])
      BY <3>1 DEF AnswerInv
    <3>3. exec'[w].pc = "report" /\ exec'[w].now = exec[w].now
      BY <1>1, <2>3, <3>1 DEF RefreshPut, RefreshesTyped, Exec
    <3> QED
      BY <3>2, <3>3 DEF RefreshInv
  <2>4. CASE RefreshEnd(w) \/ RefreshFails(w) \/ Stall(w)
    BY <1>1, <2>4 DEF RefreshEnd, RefreshFails, Stall, RefreshesTyped
  <2> QED
    BY <2>1, <2>2, <2>3, <2>4 DEF RefreshProceeds
<1>6. Later
  BY <1>2, SameRow
<1> QED
  BY <1>2, <1>3, <1>4, <1>5, <1>6, SystemAnswers

(* A flush lowers the fence to nothing, and with it every floor. *)
LEMMA FlushAnswers ==
  ASSUME TypeInv, TypeInv', AnswerInv, Flush
  PROVE  AnswerInv'
<1>1. /\ OriginTypes /\ OriginTypes' /\ CacheTypes /\ CacheTypes'
      /\ RequestsTyped /\ RefreshesTyped
  BY TypeParts, TypePartsNext
<1>2. /\ UNCHANGED <<originVars, clock, exec>> /\ fence' = Nil
      /\ entry' \in {entry, NoEntry}
  BY DEF Flush, refreshVars
<1>3. Later
  BY <1>2, SameRow
<1>4. HistoryInv /\ HistoryInv' /\ EntryInv'
  BY <1>1, <1>2, <1>3, HistoryKept, EntryDropped DEF AnswerInv
<1>5. origin' = origin /\ superseded' = superseded /\ clock' = clock
  BY <1>2 DEF originVars
<1>6. ASSUME NEW s \in Request
      PROVE  /\ req'[s] \in Running => RunningInv(req[s])'
             /\ req'[s].pc = "done" => AnsweredInv(req[s])'
  <2>1. CASE req'[s] = req[s] /\ req[s].pc \in {"idle", "done", "dead"}
    <3>1. req'[s] \notin Running
      BY <2>1, RunningIsItsOwn
    <3>2. req[s].pc = "done" => AnsweredInv(req[s])
      BY DEF AnswerInv
    <3> QED
      BY <1>5, <2>1, <3>1, <3>2 DEF AnsweredInv, Row, Since
  <2>2. CASE req[s] \in Running /\ req'[s] \in Running
    <3>1. PICK p \in Running : p = req[s]
      BY <2>2
    <3>2. PICK q \in Running : q = req'[s]
      BY <2>2
    <3>3. /\ q.floor = Nil /\ q.pc = p.pc /\ q.got = p.got
          /\ q.started = p.started /\ q.now = p.now
          /\ q.at = p.at /\ q.older = p.older
          /\ q.version = p.version /\ q.result = p.result
      BY <1>1, <2>2, <3>1, <3>2, FlushMeans, RunningIsItsOwn
    <3>4. RunningInv(p)
      BY <2>2, <3>1 DEF AnswerInv
    <3>5. \A v, floor : Row(v, floor) => Row(v, Nil)
      BY <1>1 DEF Row, OriginTypes, Nil
    <3>6. RunningInv(q)
      <4>1. q.floor <= fence
        BY <1>1, <3>3 DEF CacheTypes, Nil
      <4> QED
        BY <3>3, <3>4, <3>5, <4>1 DEF RunningInv
    <3>7. q.floor <= fence'
      BY <1>2, <3>3 DEF Nil
    <3>8. RunningInv(q)'
      BY <1>5, <3>6, <3>7 DEF RunningInv, Row, Since, Fresh
    <3>9. req'[s].pc # "done"
      BY <2>2, RunningIsItsOwn
    <3> QED
      BY <3>2, <3>8, <3>9
  <2> QED
    BY <1>1, <2>1, <2>2, FlushMeans
<1>7. ASSUME NEW w \in Worker, exec'[w] # Idle PROVE RefreshInv(exec[w])'
  <2>1. PICK x : x = exec[w]
    OBVIOUS
  <2>2. RefreshInv(x) /\ exec' = exec
    BY <1>2, <1>7, <2>1 DEF AnswerInv
  <2>3. RefreshInv(x)'
    BY <1>5, <2>2 DEF RefreshInv, Row, Since
  <2> QED
    BY <2>1, <2>2, <2>3
<1> QED
  BY <1>4, <1>6, <1>7 DEF AnswerInv

LEMMA InitAnswers == Init => AnswerInv
<1> SUFFICES ASSUME Init PROVE AnswerInv
  OBVIOUS
<1>1. /\ origin \in 0 .. MaxVersion /\ clock = 0 /\ fence = Nil
      /\ superseded = [v \in 0 .. MaxVersion |-> Nil]
      /\ entry = NoEntry
  BY ReadPathAssumption DEF Init
<1>2. HistoryInv
  BY <1>1 DEF HistoryInv, Nil
<1>3. EntryInv
  BY <1>1 DEF EntryInv, Nil
<1>4. \A r \in Request : req[r] \notin Running /\ req[r].pc # "done"
  BY DEF Init, Idle, Running
<1>5. \A w \in Worker : exec[w] = Idle
  BY DEF Init
<1> QED
  BY <1>2, <1>3, <1>4, <1>5 DEF AnswerInv

LEMMA NextAnswers == TypeInv /\ AnswerInv /\ [Next]_vars => AnswerInv'
<1> SUFFICES ASSUME TypeInv, AnswerInv, [Next]_vars PROVE AnswerInv'
  OBVIOUS
<1>1. TypeInv'
  BY NextTyped
<1>2. CASE UNCHANGED vars
  BY <1>1, <1>2, TimeAnswers
<1>3. ASSUME NEW r \in Request, Proceed(r) \/ Trouble(r)
      PROVE  AnswerInv'
  <2>1. CASE Release(r)
    BY <1>1, <2>1, ReleasedAnswers DEF Release, refreshVars
  <2>2. CASE ~Release(r)
    BY <1>1, <1>3, <2>2, ReadSettingsAnswers, LookupAnswers, DropAnswers, TouchAnswers,
       EnqueueAnswers, WaitingAnswers, ReadOriginAnswers, FillAnswers, BypassAnswers,
       TroubleAnswers DEF Proceed
  <2> QED
    BY <2>1, <2>2
<1>4. CASE Next
  BY <1>1, <1>3, <1>4, BeginAnswers, CrashAnswers, RefreshAnswers, ReconcileAnswers,
     EvictAnswers, FlushAnswers, TimeAnswers DEF Next
<1> QED
  BY <1>2, <1>4

LEMMA AnswersAlways == Spec => [](TypeInv /\ AnswerInv)
<1>1. Init => TypeInv /\ AnswerInv
  BY InitTyped, InitAnswers
<1>2. TypeInv /\ AnswerInv /\ [Next]_vars => (TypeInv /\ AnswerInv)'
  BY NextTyped, NextAnswers
<1> QED
  BY <1>1, <1>2, PTL DEF Spec

LEMMA KnownAnswer ==
  ASSUME TypeInv, AnswerInv, NEW r \in Request, Done(r), req[r].result # "ERROR"
  PROVE  /\ req[r] \in Answered /\ AnsweredInv(req[r]) /\ req[r].started \in Nat
         /\ req[r].version \in 0 .. MaxVersion /\ req[r].floor <= req[r].version
<1>1. req[r] \in Answered
  BY TypeParts, RunningIsItsOwn DEF Done, RequestsTyped, Requests, Idle, Dead
<1>2. AnsweredInv(req[r])
  BY DEF AnswerInv, Done
<1>3. origin \in 0 .. MaxVersion /\ MaxVersion \in Nat
  BY ReadPathAssumption DEF AnswerInv, HistoryInv
<1> QED
  BY <1>1, <1>2, <1>3 DEF AnsweredInv, Row, Answered

(* No client reads back behind an invalidation: whichever way the answer   *)
(* came, its version is at least what had been reconciled when the request *)
(* began, unless a flush has forgotten that meanwhile.                     *)
THEOREM NoAnswerBehindTheFence == Spec => []AnswersSeeTheFence
<1>1. TypeInv /\ AnswerInv => AnswersSeeTheFence
  <2> SUFFICES ASSUME TypeInv, AnswerInv, NEW r \in Request, Done(r),
                      req[r].result # "ERROR"
               PROVE  req[r].version >= req[r].floor
    BY DEF AnswersSeeTheFence
  <2>1. req[r].version \in Int /\ req[r].floor \in Int
    BY KnownAnswer DEF Answered, Nil
  <2> QED
    BY <2>1, KnownAnswer
<1> QED
  BY <1>1, AnswersAlways, PTL

(* Whatever the interleaving of fills, refreshes, writes and events, an    *)
(* answer from the origin was current during the request, and one from the *)
(* cache less than the longest ttl plus window before it began, unless an  *)
(* event replayed the entry or touch, after a flush, returned an older one.*)
THEOREM AnswersAreRecent == Spec => []BoundedStaleness
<1>1. TypeInv /\ AnswerInv => BoundedStaleness
  <2> SUFFICES ASSUME TypeInv, AnswerInv, NEW r \in Request, Done(r),
                      req[r].result # "ERROR", superseded[req[r].version] # Nil
               PROVE  IF req[r].result \in {"MISS", "BYPASS"}
                      THEN superseded[req[r].version] >= req[r].started
                      ELSE \/ req[r].replayed
                           \/ req[r].result = "STALE" /\ req[r].older
                           \/ superseded[req[r].version] > req[r].started - MaxLife
    BY DEF BoundedStaleness
  <2> DEFINE q == req[r]
             gone == superseded[q.version]
  <2>1. q.version \in 0 .. MaxVersion /\ q.started \in Nat /\ AnsweredInv(q)
    BY KnownAnswer
  <2>2. gone \in Nat /\ q.version \in Int
    BY <2>1, TypeParts DEF OriginTypes
  <2>3. \A t : Since(q.version, t) => t <= gone
    BY <2>1, <2>2 DEF Since
  <2>4. MaxLife \in Nat
    BY LifeBound
  <2>5. CASE q.result \in {"MISS", "BYPASS"}
    BY <2>1, <2>2, <2>3, <2>5 DEF AnsweredInv
  <2>6. CASE q.result \notin {"MISS", "BYPASS"}
    <3>1. \/ q.replayed
          \/ q.result = "STALE" /\ q.older
          \/ q.started - MaxLife + 1 <= gone
      BY <2>1, <2>3, <2>6 DEF AnsweredInv
    <3> QED
      BY <2>1, <2>2, <2>4, <2>6, <3>1
  <2> QED
    BY <2>5, <2>6
<1> QED
  BY <1>1, AnswersAlways, PTL

-----------------------------------------------------------------------------
(* The one entry and its fence, as a cache of VersionedCache.              *)
One == {"key"}
Cached == [k \in One |-> entry.version]
Fenced == [k \in One |-> fence]

CacheStep == Abstract!CacheNext \/ UNCHANGED <<Cached, Fenced>>

LEMMA SameCache == ASSUME UNCHANGED cacheVars PROVE CacheStep
  BY DEF CacheStep, Cached, Fenced, cacheVars

LEMMA PutRefines ==
  ASSUME CacheTypes, NEW v \in 0 .. MaxVersion, NEW now, NEW mode, NEW replayed,
         PutEntry(v, now, mode, replayed)
  PROVE  CacheStep
<1>1. CASE UNCHANGED cacheVars
  BY <1>1, SameCache
<1>2. CASE ~ UNCHANGED cacheVars
  <2>1. /\ ~(fence > v) /\ ~(entry.version > v)
        /\ entry' = NewEntry(v, now, mode, replayed) /\ fence' = Raised(v)
    BY <1>2 DEF PutEntry
  <2>2. entry.version \in Int /\ fence \in Int /\ v \in Int
    BY ReadPathAssumption DEF CacheTypes, Entry, NoEntry, Nil
  <2>3. Abstract!Admits("key", v)
    BY <2>1, <2>2 DEF Abstract!Admits
  <2>4. Cached' = [Abstract!WithoutEntries({}) EXCEPT !["key"] = v]
    BY <2>1 DEF Cached, One, Abstract!WithoutEntries, NewEntry
  <2>5. Fenced' = Abstract!RaisedFence("key", v)
    BY <2>1 DEF Fenced, One, Abstract!RaisedFence, Raised
  <2>6. Abstract!Store("key", v)
    BY <2>3, <2>4, <2>5 DEF Abstract!Store, Cached, Fenced, One
  <2> QED
    BY <2>6 DEF CacheStep, Abstract!CacheNext, Abstract!Put
<1> QED
  BY <1>1, <1>2

LEMMA DropRefines ==
  ASSUME entry' \in {entry, NoEntry}, fence' = fence
  PROVE  CacheStep
<1>1. CASE entry' = entry
  BY <1>1 DEF CacheStep, Cached, Fenced
<1>2. CASE entry' = NoEntry
  <2>1. Cached' = Abstract!WithoutEntries({"key"}) /\ Fenced' = Fenced
    BY <1>2 DEF Cached, Fenced, One, Abstract!WithoutEntries, Abstract!Nil, Nil, NoEntry
  <2>2. Abstract!Drop({"key"})
    BY <2>1 DEF Abstract!Drop, Cached, Fenced, One
  <2> QED
    BY <2>2 DEF CacheStep, Abstract!CacheNext
<1> QED
  BY <1>1, <1>2

LEMMA ReconcileRefines ==
  ASSUME TypeInv, AnswerInv, NEW v \in 1 .. origin, Reconcile(v)
  PROVE  CacheStep
<1>1. CacheTypes /\ v \in 0 .. MaxVersion
  BY TypeParts, ReadPathAssumption DEF AnswerInv, HistoryInv
<1>2. CASE Invalidated(v)
  <2>1. /\ entry' = (IF entry.version <= v THEN NoEntry ELSE entry)
        /\ fence' = Raised(v)
    BY <1>2 DEF Invalidated
  <2>2. Fenced' = Abstract!RaisedFence("key", v)
    BY <2>1 DEF Fenced, One, Abstract!RaisedFence, Raised
  <2>3. Cached' = (IF Cached["key"] <= v THEN Abstract!WithoutEntries({"key"})
                                         ELSE Cached)
    BY <2>1 DEF Cached, One, Abstract!WithoutEntries, Abstract!Nil, Nil, NoEntry
  <2>4. Abstract!InvalidateThrough("key", v)
    BY <2>2, <2>3 DEF Abstract!InvalidateThrough, Cached, Fenced, One
  <2> QED
    BY <1>1, <2>4 DEF CacheStep, Abstract!CacheNext
<1>3. ASSUME NEW now \in 0 .. clock, NEW m \in Modes, WrittenThrough(v, now, m)
      PROVE  CacheStep
  <2>1. PutEntry(v, now, m, TRUE)
    BY <1>3 DEF WrittenThrough
  <2> QED
    BY <1>1, <2>1, PutRefines
<1> QED
  BY <1>2, <1>3 DEF Reconcile

LEMMA FlushRefines ==
  ASSUME Flush
  PROVE  CacheStep
<1>1. Fenced' = [k \in One |-> Nil]
  BY DEF Flush, Fenced
<1>2. PICK seen \in SUBSET One : Cached' = Abstract!WithoutEntries(seen)
  <2>1. CASE entry' = entry
    <3>1. Cached' = Abstract!WithoutEntries({})
      BY <2>1 DEF Cached, One, Abstract!WithoutEntries
    <3> QED
      BY <3>1
  <2>2. CASE entry' = NoEntry
    <3>1. Cached' = Abstract!WithoutEntries({"key"})
      BY <2>2 DEF Cached, One, Abstract!WithoutEntries, Abstract!Nil, Nil, NoEntry
    <3> QED
      BY <3>1 DEF One
  <2> QED
    BY <2>1, <2>2 DEF Flush
<1>3. Abstract!Clear(seen)
  BY <1>1, <1>2 DEF Abstract!Clear, Abstract!Nil, Nil, Cached, Fenced, One
<1> QED
  BY <1>2, <1>3 DEF CacheStep, Abstract!CacheNext, One

(* The version of a row that is about to be put.                           *)
LEMMA RowOfRequest ==
  ASSUME TypeInv, AnswerInv, NEW r \in Request, req[r].pc = "put"
  PROVE  req[r].version \in 0 .. MaxVersion
<1>1. req[r] \in Running
  BY TypeParts, AtWorkTyped
<1>2. RunningInv(req[r]) /\ MaxVersion \in Nat /\ origin \in 0 .. MaxVersion
  BY <1>1, ReadPathAssumption DEF AnswerInv, HistoryInv
<1> QED
  BY <1>2 DEF RunningInv, Row

LEMMA RowOfRefresh ==
  ASSUME TypeInv, AnswerInv, NEW w \in Worker, exec[w].pc = "put"
  PROVE  exec[w].version \in 0 .. MaxVersion
<1>1. exec[w] # Idle
  BY DEF Idle
<1>2. RefreshInv(exec[w]) /\ MaxVersion \in Nat /\ origin \in 0 .. MaxVersion
  BY <1>1, ReadPathAssumption DEF AnswerInv, HistoryInv
<1> QED
  BY <1>2 DEF RefreshInv, Row

LEMMA RequestRefines ==
  ASSUME TypeInv, AnswerInv, NEW r \in Request, Proceed(r) \/ Trouble(r)
  PROVE  CacheStep
<1>1. CASE UNCHANGED cacheVars
  BY <1>1, SameCache
<1>2. CASE DropExpired(r)
  BY <1>2, DropRefines DEF DropExpired
<1>3. CASE Fill(r)
  BY <1>3, TypeParts, RowOfRequest, PutRefines DEF Fill
<1>4. CASE CommandFails(r)
  <2>1. \/ req[r].pc = "put" /\ RowPut(r)
        \/ UNCHANGED cacheVars
        \/ UNCHANGED fence /\ entry' \in {entry, NoEntry}
    BY <1>4, TypeParts, CommandFailsMeans
  <2> QED
    BY <2>1, TypeParts, RowOfRequest, PutRefines, SameCache, DropRefines DEF RowPut
<1>5. DropExpired(r) \/ Fill(r) \/ CommandFails(r) \/ UNCHANGED cacheVars
  BY DEF Proceed, Trouble, ReadSettings, Lookup, Touch, EnqueueRefresh, Acquire, Poll,
         ReadOrigin, Release, Bypass, Refused, UnguardedFails, OriginFails
<1> QED
  BY <1>1, <1>2, <1>3, <1>4, <1>5

LEMMA RefreshRefines ==
  ASSUME TypeInv, AnswerInv, NEW w \in Worker,
         RefreshProceeds(w) \/ RefreshFails(w) \/ Stall(w)
  PROVE  CacheStep
<1>1. \/ UNCHANGED cacheVars
      \/ /\ exec[w].pc = "put"
         /\ PutEntry(exec[w].version, exec[w].now, exec[w].mode, FALSE)
  BY DEF RefreshProceeds, RefreshBegin, RefreshRead, RefreshPut, RefreshEnd,
         RefreshFails, Stall
<1> QED
  BY <1>1, TypeParts, RowOfRefresh, PutRefines, SameCache

(* Every request, refresh, event and loss does to the entry what the       *)
(* promises of the cache allow, and nothing else: the same promises that   *)
(* the pool in Redis is proved to keep and the outbox is proved to need.   *)
THEOREM EntryImplementsVersionedCache == Spec => ImplementsVersionedCache
<1>1. Init => Abstract!CacheInit
  BY DEF Init, Abstract!CacheInit, Abstract!Nil, Nil, NoEntry
<1>2. TypeInv /\ AnswerInv /\ [Next]_vars
        => [Abstract!CacheNext]_(Abstract!cacheVars)
  <2> SUFFICES ASSUME TypeInv, AnswerInv, [Next]_vars PROVE CacheStep
    BY DEF CacheStep, Cached, Fenced, One, Abstract!cacheVars
  <2>1. CASE UNCHANGED vars
    BY <2>1, SameCache DEF vars, cacheVars
  <2>2. ASSUME NEW r \in Request,
               (\E i \in Instance : Begin(r, i)) \/ Proceed(r) \/ Trouble(r)
        PROVE  CacheStep
    BY <2>2, RequestRefines, SameCache DEF Begin
  <2>3. ASSUME \/ \E i \in Instance : Recover(i) \/ Crash(i)
               \/ Write \/ LeaseExpires \/ Tick
        PROVE  CacheStep
    BY <2>3, SameCache DEF Recover, Crash, Write, LeaseExpires, Tick
  <2>4. CASE Evict
    BY <2>4, DropRefines DEF Evict
  <2> QED
    BY <2>1, <2>2, <2>3, <2>4, RefreshRefines, ReconcileRefines, FlushRefines DEF Next
<1> QED
  BY <1>1, <1>2, AnswersAlways, PTL
     DEF Spec, ImplementsVersionedCache, Abstract!CacheSpec
=============================================================================
