--------------------------- MODULE LabConsoleProofs ---------------------------
(***************************************************************************)
(* Proofs about LabConsole, for every number of polls, actions, inputs and *)
(* failures: its types, DriftIsReal and OutageAnnounced.                   *)
(***************************************************************************)
EXTENDS LabConsole, TLAPS

Fetcher == Poll \cup Action

(* Replies, requests and Idle are told apart by their fields.              *)
LEMMA ReplyIsNotIdle ==
  ASSUME NEW r \in Reply
  PROVE  r # Idle
<1>1. "origin" \in DOMAIN r
  BY DEF Reply
<1>2. "origin" \notin DOMAIN Idle
  BY DEF Idle
<1> QED
  BY <1>1, <1>2

LEMMA RequestIsNotIdle ==
  ASSUME NEW r \in Request
  PROVE  r # Idle /\ r.pc \in {"sent", "half", "refresh"}
  BY DEF Request, Idle

LEMMA AskedIsReply == Asked \in Reply
  BY DEF Asked, Reply, Pool, Unread

LEMMA InRedisIsPool ==
  ASSUME ServerTypeOK
  PROVE  InRedis \in Pool /\ InRedis # Unread /\ Defaults # Unread
<1>1. InRedis \in Pool
  BY DEF ServerTypeOK, InRedis, Pool
<1>2. InRedis.of = "redis" /\ Defaults.of = "defaults" /\ Unread.of = "nothing"
  BY DEF InRedis, Defaults, Unread
<1> QED
  BY <1>1, <1>2

-----------------------------------------------------------------------------
(* What the parts of an action do to act and fetch.                        *)
LEMMA AskKeepsTypes ==
  ASSUME RunTypeOK, NEW q \in Poll,
         fetch' = [fetch EXCEPT ![q] = Asked], UNCHANGED act
  PROVE  RunTypeOK'
<1>1. q \notin Action
  BY LabConsoleAssumption
<1> QED
  BY <1>1, AskedIsReply DEF RunTypeOK

LEMMA AnswerKeepsTypes ==
  ASSUME RunTypeOK, NEW x \in Fetcher, fetch[x] # Idle, NEW r \in Reply,
         fetch' = [fetch EXCEPT ![x] = r], UNCHANGED act
  PROVE  RunTypeOK'
  BY ReplyIsNotIdle DEF RunTypeOK, Fetcher

LEMMA EndKeepsTypes ==
  ASSUME RunTypeOK, NEW x \in Fetcher, OrPollEnds(x),
         fetch' = [fetch EXCEPT ![x] = Idle]
  PROVE  RunTypeOK'
<1>1. Idle.pc # "refresh"
  BY DEF Idle
<1>2. CASE x \in Action
  BY <1>1, <1>2 DEF RunTypeOK, Fetcher, OrPollEnds, Ends
<1>3. CASE x \notin Action
  BY <1>3 DEF RunTypeOK, Fetcher, OrPollEnds
<1> QED
  BY <1>2, <1>3

LEMMA SuccessKeepsTypes ==
  ASSUME RunTypeOK, NEW a \in Action, act[a].pc \in {"sent", "half"},
         Succeeds(a)
  PROVE  RunTypeOK'
<1>1. act[a] \in Request
  BY DEF RunTypeOK, Idle
<1>2. [act[a] EXCEPT !.pc = "refresh"] \in Request
  BY <1>1 DEF Request
<1>3. act' = [act EXCEPT ![a] = [act[a] EXCEPT !.pc = "refresh"]]
  BY DEF Succeeds
<1>4. [act[a] EXCEPT !.pc = "refresh"].pc = "refresh"
  BY <1>1 DEF Request
<1> QED
  BY <1>2, <1>3, <1>4, AskedIsReply, ReplyIsNotIdle DEF Succeeds, RunTypeOK

LEMMA ProgressKeepsTypes ==
  ASSUME RunTypeOK, NEW a \in Action, act[a].pc \in {"sent", "half"},
         act' = [act EXCEPT ![a].pc = "half"], UNCHANGED fetch
  PROVE  RunTypeOK'
<1>1. act[a] \in Request
  BY DEF RunTypeOK, Idle
<1>2. [act[a] EXCEPT !.pc = "half"] \in Request
  BY <1>1 DEF Request
<1>3. act' = [act EXCEPT ![a] = [act[a] EXCEPT !.pc = "half"]]
  OBVIOUS
<1>4. [act[a] EXCEPT !.pc = "half"].pc = "half"
  BY <1>1 DEF Request
<1> QED
  BY <1>2, <1>3, <1>4 DEF RunTypeOK

LEMMA ThrowKeepsTypes ==
  ASSUME RunTypeOK, NEW a \in Action, act[a].pc \in {"sent", "half"},
         Throws(a)
  PROVE  RunTypeOK'
  BY DEF RunTypeOK, Throws, Ends, Idle

LEMMA ClickKeepsTypes ==
  ASSUME RunTypeOK, ConsoleTypeOK, NEW a \in Action, NEW name \in Name,
         Click(a, name)
  PROVE  RunTypeOK'
<1>1. Opposite(name) \in BOOLEAN
  <2>1. display \in Reply /\ display.pool # Unread
    BY DEF Click, Clickable, ConsoleTypeOK
  <2>2. display.cut \in BOOLEAN /\ display.pool \in Pool
    BY <2>1 DEF Reply
  <2>3. display.pool # Defaults => display.pool.coalescing \in BOOLEAN
    BY <2>1, <2>2 DEF Pool
  <2> QED
    BY <2>2, <2>3 DEF Opposite
<1> DEFINE r == [pc |-> "sent", name |-> name, on |-> Opposite(name)]
<1>2. r \in Request /\ r.pc # "refresh"
  BY <1>1 DEF Request
<1>3. act' = [act EXCEPT ![a] = r] /\ UNCHANGED fetch
  BY DEF Click
<1>4. Idle.pc # "refresh" /\ act[a] = Idle
  BY DEF Click, Idle
<1> HIDE DEF r
<1> QED
  BY <1>2, <1>3, <1>4 DEF RunTypeOK

LEMMA ReseedKeepsTypes ==
  ASSUME RunTypeOK, NEW a \in Action, Reseed(a)
  PROVE  RunTypeOK'
<1> DEFINE f == [x \in DOMAIN fetch |->
                   IF Under(x) /\ fetch[x].origin # Nil /\ fetch[x].pool = Unread
                   THEN [fetch[x] EXCEPT !.old = TRUE] ELSE fetch[x]]
<1>1. ASSUME NEW x \in Fetcher
      PROVE  /\ f[x] \in Reply \cup {Idle}
             /\ f[x] = Idle <=> fetch[x] = Idle
  <2>1. fetch[x] \in Reply \cup {Idle} /\ x \in DOMAIN fetch
    BY DEF RunTypeOK, Fetcher
  <2>2. CASE fetch[x] = Idle
    BY <2>1, <2>2 DEF Under
  <2>3. CASE fetch[x] # Idle
    <3>1. [fetch[x] EXCEPT !.old = TRUE] \in Reply
      BY <2>1, <2>3 DEF Reply
    <3> QED
      BY <2>1, <2>3, <3>1, ReplyIsNotIdle
  <2> QED
    BY <2>2, <2>3
<1>2. f \in [Fetcher -> Reply \cup {Idle}]
  BY <1>1 DEF RunTypeOK, Fetcher
<1>3. fetch' = f
  BY DEF Reseed
<1> DEFINE r == [act[a] EXCEPT !.pc = "half"]
<1>4. r \in Request /\ r.pc = "half" /\ act[a].pc = "sent"
  BY DEF Reseed, At, RunTypeOK, Request, Idle
<1>5. act' = [act EXCEPT ![a] = r]
  BY DEF Reseed
<1> HIDE DEF f, r
<1> QED
  BY <1>1, <1>2, <1>3, <1>4, <1>5 DEF RunTypeOK, Fetcher

(* The answer to an action, or its failure. *)
RestTypeOK ==
  /\ ConsoleTypeOK /\ RunTypeOK
  /\ crossed \in BOOLEAN
  /\ inputs \in 0 .. MaxInputs /\ faults \in 0 .. MaxFaults

LEMMA FaultyCounts ==
  ASSUME faults \in 0 .. MaxFaults, Faulty
  PROVE  faults' \in 0 .. MaxFaults
  BY LabConsoleAssumption DEF Faulty

LEMMA ThrowHolds ==
  ASSUME RestTypeOK, NEW a \in Action, act[a].pc \in {"sent", "half"},
         Throws(a), UNCHANGED faults \/ Faulty, UNCHANGED <<crossed, inputs>>
  PROVE  RestTypeOK'
<1>1. RunTypeOK'
  BY ThrowKeepsTypes DEF RestTypeOK
<1>2. ConsoleTypeOK'
  BY DEF RestTypeOK, ConsoleTypeOK, Throws, Ends
<1> QED
  BY <1>1, <1>2, FaultyCounts DEF RestTypeOK

LEMMA SuccessHolds ==
  ASSUME RestTypeOK, NEW a \in Action, act[a].pc \in {"sent", "half"},
         Succeeds(a), UNCHANGED faults \/ Faulty, UNCHANGED <<crossed, inputs>>
  PROVE  RestTypeOK'
<1>1. RunTypeOK'
  BY SuccessKeepsTypes DEF RestTypeOK
<1>2. ConsoleTypeOK'
  BY DEF RestTypeOK, ConsoleTypeOK, Succeeds, consoleVars
<1> QED
  BY <1>1, <1>2, FaultyCounts DEF RestTypeOK

LEMMA ProgressHolds ==
  ASSUME RestTypeOK, NEW a \in Action, act[a].pc \in {"sent", "half"},
         Proceeds(a), UNCHANGED <<crossed, inputs, faults>>
  PROVE  RestTypeOK'
<1>1. RunTypeOK'
  BY ProgressKeepsTypes DEF RestTypeOK, Proceeds
<1>2. ConsoleTypeOK'
  BY DEF RestTypeOK, ConsoleTypeOK, Proceeds, consoleVars
<1> QED
  BY <1>1, <1>2 DEF RestTypeOK

-----------------------------------------------------------------------------
(* Type correctness, action by action.                                     *)
LEMMA TypeParts == TypeOK <=> ServerTypeOK /\ RestTypeOK
  BY DEF TypeOK, RestTypeOK

LEMMA ActingKeepsTypes ==
  ASSUME TypeOK, NEW a \in Action, Acting(a)
  PROVE  TypeOK'
<1>1. ServerTypeOK /\ RestTypeOK
  BY TypeParts
<1>2. act[a].pc \in {"sent", "half"}
  BY DEF Acting, Read, Write, PatchSettings, Flush, Reseed, RestoreRedis,
         AnnounceOutage, CutRedis, RestoreConnection, AnnounceEnd, Fails, At
<1>3. ServerTypeOK'
  <2>1. ASSUME At(a, "sent", "settings")
        PROVE  act[a].on \in BOOLEAN
    BY <1>1, <2>1 DEF At, RestTypeOK, RunTypeOK, Request, Idle
  <2>2. CASE Read(a)
    BY <1>1, <2>2 DEF Read, ServerTypeOK
  <2>3. CASE Write(a)
    BY <1>1, <2>3 DEF Write, ServerTypeOK, Version
  <2>4. CASE PatchSettings(a)
    BY <1>1, <2>1, <2>4 DEF PatchSettings, ServerTypeOK
  <2>5. CASE Flush(a)
    BY <1>1, <2>5 DEF Flush, ServerTypeOK
  <2>6. CASE Reseed(a)
    BY <1>1, <2>6 DEF Reseed, ServerTypeOK, Version
  <2>7. CASE RestoreRedis(a)
    BY <1>1, <2>7 DEF RestoreRedis, ServerTypeOK
  <2>8. CASE AnnounceOutage(a) \/ CutRedis(a) \/ RestoreConnection(a)
    BY <1>1, <2>8 DEF AnnounceOutage, CutRedis, RestoreConnection, ServerTypeOK
  <2>9. CASE AnnounceEnd(a)
    BY <1>1, <2>9 DEF AnnounceEnd, ServerTypeOK
  <2>10. CASE Fails(a)
    BY <1>1, <2>10 DEF Fails, serverVars, ServerTypeOK
  <2> QED
    BY <2>2, <2>3, <2>4, <2>5, <2>6, <2>7, <2>8, <2>9, <2>10 DEF Acting
<1>4. RestTypeOK'
  <2>1. CASE OrFails(a, Succeeds(a))
    BY <1>1, <1>2, <2>1, SuccessHolds, ThrowHolds DEF OrFails
  <2>2. CASE OrFails(a, Proceeds(a))
    BY <1>1, <1>2, <2>2, ProgressHolds, ThrowHolds DEF OrFails
  <2>3. CASE Reseed(a)
    <3>1. RunTypeOK'
      BY <1>1, <2>3, ReseedKeepsTypes DEF RestTypeOK
    <3> QED
      BY <1>1, <2>3, <3>1
         DEF RestTypeOK, Reseed, ConsoleTypeOK, consoleVars, boundVars
  <2>4. CASE AnnounceEnd(a)
    BY <1>1, <1>2, <2>4, SuccessHolds DEF AnnounceEnd
  <2>5. CASE Fails(a)
    BY <1>1, <1>2, <2>5, ThrowHolds DEF Fails
  <2> QED
    BY <2>1, <2>2, <2>3, <2>4, <2>5
       DEF Acting, Read, Write, PatchSettings, Flush, RestoreRedis,
           AnnounceOutage, CutRedis, RestoreConnection
<1> QED
  BY <1>3, <1>4, TypeParts DEF TypeOK, RestTypeOK

LEMMA AnsweringKeepsTypes ==
  ASSUME TypeOK, NEW x \in Fetcher, Answering(x) \/ FetchFails(x)
  PROVE  TypeOK'
<1>1. /\ ServerTypeOK /\ RunTypeOK /\ ConsoleTypeOK
      /\ fetch[x] \in Reply
      /\ faults \in 0 .. MaxFaults
  BY DEF TypeOK, RunTypeOK, Fetcher, Answering, ReadOrigin, ListPool, Install,
         FetchFails, Under
<1>2. fetch[x] # Idle
  BY <1>1, ReplyIsNotIdle
<1>3. CASE ReadOrigin(x)
  <2>1. PICK seen \in BOOLEAN :
          /\ GetFaults(seen)
          /\ fetch' = [fetch EXCEPT ![x].origin = origin, ![x].cut = seen]
    BY <1>3 DEF ReadOrigin
  <2> DEFINE r == [fetch[x] EXCEPT !.origin = origin, !.cut = seen]
  <2>2. r \in Reply
    BY <1>1 DEF Reply, ServerTypeOK
  <2>3. fetch' = [fetch EXCEPT ![x] = r]
    BY <2>1, <1>1 DEF RunTypeOK
  <2>4. RunTypeOK'
    BY <1>1, <1>2, <2>2, <2>3, <1>3, AnswerKeepsTypes DEF ReadOrigin
  <2>5. faults' \in 0 .. MaxFaults /\ inputs' = inputs
    BY <1>1, <2>1, FaultyCounts DEF GetFaults, boundVars
  <2> QED
    BY <1>3, <2>4, <2>5
       DEF TypeOK, ReadOrigin, serverVars, consoleVars, ServerTypeOK, ConsoleTypeOK
<1>4. CASE ListPool(x)
  <2>1. PICK p \in Pool, o \in BOOLEAN :
          fetch' = [fetch EXCEPT ![x].pool = p, ![x].old = o]
    <3>1. CASE fetch' = [fetch EXCEPT ![x].pool = Defaults]
      <4>1. fetch[x].old \in BOOLEAN /\ Defaults \in Pool
        BY <1>1 DEF Reply, Pool
      <4>2. [fetch[x] EXCEPT !.pool = Defaults]
              = [fetch[x] EXCEPT !.pool = Defaults, !.old = fetch[x].old]
        BY <1>1 DEF Reply
      <4>3. fetch' = [fetch EXCEPT ![x].pool = Defaults, ![x].old = fetch[x].old]
        BY <1>1, <3>1, <4>2 DEF RunTypeOK, Fetcher
      <4> QED
        BY <4>1, <4>3
    <3>2. CASE fetch' = [fetch EXCEPT ![x].pool = InRedis,
                                      ![x].old = @ \/ entry < origin]
      <4>1. (fetch[x].old \/ entry < origin) \in BOOLEAN
        OBVIOUS
      <4> QED
        BY <1>1, <3>2, <4>1, InRedisIsPool
    <3> QED
      BY <1>4, <3>1, <3>2 DEF ListPool
  <2> DEFINE r == [fetch[x] EXCEPT !.pool = p, !.old = o]
  <2>2. r \in Reply
    BY <1>1 DEF Reply
  <2>3. fetch' = [fetch EXCEPT ![x] = r]
    BY <2>1, <1>1 DEF RunTypeOK
  <2>4. RunTypeOK'
    BY <1>1, <1>2, <2>2, <2>3, <1>4, AnswerKeepsTypes DEF ListPool
  <2>5. faults' \in 0 .. MaxFaults /\ inputs' = inputs
    BY <1>1, <1>4, FaultyCounts DEF ListPool, boundVars
  <2> QED
    BY <1>4, <2>4, <2>5
       DEF TypeOK, ListPool, serverVars, consoleVars, ServerTypeOK, ConsoleTypeOK
<1>5. CASE Install(x)
  <2>1. RunTypeOK'
    BY <1>1, <1>5, EndKeepsTypes DEF Install
  <2>2. /\ display' \in Reply
        /\ display'.origin = fetch[x].origin /\ display'.pool = fetch[x].pool
    BY <1>1, <1>5 DEF Install, Reply
  <2>3. ConsoleTypeOK'
    BY <1>1, <1>5, <2>2 DEF Install, OrPollEnds, Ends, ConsoleTypeOK
  <2> QED
    BY <1>5, <2>1, <2>3 DEF TypeOK, Install, serverVars, boundVars, ServerTypeOK
<1>6. CASE FetchFails(x)
  <2>1. RunTypeOK'
    BY <1>1, <1>6, EndKeepsTypes DEF FetchFails
  <2>2. ConsoleTypeOK'
    BY <1>1, <1>6 DEF FetchFails, OrPollEnds, Ends, ConsoleTypeOK
  <2> QED
    BY <1>1, <1>6, <2>1, <2>2, FaultyCounts
       DEF TypeOK, FetchFails, serverVars, ServerTypeOK
<1> QED
  BY <1>3, <1>4, <1>5, <1>6 DEF Answering

LEMMA OtherStepsKeepTypes ==
  ASSUME TypeOK,
         \/ \E q \in Poll : StartPoll(q)
         \/ \E a \in Action, name \in Name : Click(a, name)
         \/ StreamError \/ OthersChange \/ UNCHANGED vars
  PROVE  TypeOK'
<1>1. ASSUME NEW q \in Poll, StartPoll(q)
      PROVE  TypeOK'
  BY <1>1, AskKeepsTypes
     DEF StartPoll, TypeOK, serverVars, consoleVars, boundVars, ServerTypeOK,
         ConsoleTypeOK
<1>2. ASSUME NEW a \in Action, NEW name \in Name, Click(a, name)
      PROVE  TypeOK'
  <2>1. RunTypeOK'
    BY <1>2, ClickKeepsTypes DEF TypeOK
  <2>2. ConsoleTypeOK'
    BY <1>2 DEF TypeOK, Click, ConsoleTypeOK
  <2>3. inputs' \in 0 .. MaxInputs
    BY <1>2, LabConsoleAssumption DEF TypeOK, Click
  <2>4. crossed' \in BOOLEAN
    BY <1>2 DEF TypeOK, Click
  <2> QED
    BY <1>2, <2>1, <2>2, <2>3, <2>4 DEF TypeOK, Click, serverVars, ServerTypeOK
<1>3. CASE StreamError
  BY <1>3, FaultyCounts
     DEF StreamError, TypeOK, serverVars, ServerTypeOK, ConsoleTypeOK, RunTypeOK
<1>4. CASE OthersChange
  <2>1. ServerTypeOK'
    <3>1. ServerTypeOK /\ UNCHANGED <<cut, announced>>
      BY <1>4 DEF OthersChange, TypeOK
    <3>2. CASE origin' = origin + 1 /\ UNCHANGED <<entry, coalescing>>
      BY <3>1, <3>2 DEF ServerTypeOK, Version
    <3>3. CASE entry' \in {Nil} \cup 1 .. origin /\ UNCHANGED <<origin, coalescing>>
      BY <3>1, <3>3 DEF ServerTypeOK, Version
    <3>4. CASE coalescing' = ~coalescing /\ UNCHANGED <<origin, entry>>
      BY <3>1, <3>4 DEF ServerTypeOK
    <3> QED
      BY <1>4, <3>2, <3>3, <3>4 DEF OthersChange
  <2>2. inputs' \in 0 .. MaxInputs
    BY <1>4, LabConsoleAssumption DEF OthersChange, TypeOK
  <2> QED
    BY <1>4, <2>1, <2>2 DEF OthersChange, TypeOK, consoleVars, ConsoleTypeOK, RunTypeOK
<1>5. CASE UNCHANGED vars
  BY <1>5 DEF vars, TypeOK, ServerTypeOK, ConsoleTypeOK, RunTypeOK
<1> QED
  BY <1>1, <1>2, <1>3, <1>4, <1>5

LEMMA InitTyped == Init => TypeOK
<1> SUFFICES ASSUME Init PROVE TypeOK
  OBVIOUS
<1>1. ServerTypeOK
  <2>1. origin \in Version /\ entry \in {Nil} \cup Version
    BY DEF Init, Version
  <2>2. coalescing \in BOOLEAN /\ cut \in BOOLEAN /\ announced \in BOOLEAN
    BY Zenon DEF Init
  <2> QED
    BY <2>1, <2>2 DEF ServerTypeOK
<1>2. ConsoleTypeOK
  BY DEF Init, ConsoleTypeOK
<1>3. RunTypeOK
  <2>1. Idle.pc # "refresh"
    BY DEF Idle
  <2> QED
    BY <2>1 DEF Init, RunTypeOK
<1>4. inputs \in 0 .. MaxInputs /\ faults \in 0 .. MaxFaults
  BY LabConsoleAssumption DEF Init
<1>5. crossed \in BOOLEAN
  BY Zenon DEF Init
<1> QED
  BY <1>1, <1>2, <1>3, <1>4, <1>5 DEF TypeOK

LEMMA NextKeepsTypes == TypeOK /\ [Next]_vars => TypeOK'
  BY ActingKeepsTypes, AnsweringKeepsTypes, OtherStepsKeepTypes DEF Next, Fetcher

(* Every reachable state has the types of TypeOK: among them that an       *)
(* action is refreshing exactly while its GET /lab/state is under way.     *)
THEOREM TypeCorrect == Spec => []TypeOK
  BY InitTyped, NextKeepsTypes, PTL DEF Spec

-----------------------------------------------------------------------------
(* DriftIsReal, for one answer: its origin was read first and, until the   *)
(* pool is listed, the row has not moved back behind it unnoticed.         *)
Sound(f, n) ==
  /\ f.origin = Nil => f.pool = Unread
  /\ f.pool = Unread /\ f.origin # Nil => f.old \/ f.origin <= n
  /\ Drifts(f) => f.old

DriftInv == \A x \in Fetcher : fetch[x] # Idle => Sound(fetch[x], origin)

LEMMA UnreadNeverDrifts ==
  ASSUME NEW f, f.pool = Unread \/ f.pool = Defaults
  PROVE  ~Drifts(f)
  BY DEF Drifts, Unread, Defaults

(* The row moves forward. *)
LEMMA SoundLasts ==
  ASSUME NEW f \in Reply, NEW n \in Version, NEW m \in Version,
         Sound(f, n), n <= m
  PROVE  Sound(f, m)
<1>1. CASE f.pool = Unread /\ f.origin # Nil /\ ~f.old
  <2>1. f.origin \in Nat
    BY <1>1 DEF Reply, Version
  <2> QED
    BY <1>1, <2>1 DEF Sound, Version
<1>2. CASE ~(f.pool = Unread /\ f.origin # Nil /\ ~f.old)
  BY <1>2 DEF Sound
<1> QED
  BY <1>1, <1>2

LEMMA DriftKept ==
  ASSUME RunTypeOK, DriftInv, origin \in Version, origin' \in Version,
         origin <= origin', UNCHANGED fetch
  PROVE  DriftInv'
<1> SUFFICES ASSUME NEW x \in Fetcher, fetch[x] # Idle
             PROVE  Sound(fetch[x], origin')
  BY DEF DriftInv
<1>1. fetch[x] \in Reply /\ Sound(fetch[x], origin)
  BY DEF RunTypeOK, Fetcher, DriftInv
<1> QED
  BY <1>1, SoundLasts

LEMMA DriftReplaced ==
  ASSUME RunTypeOK, DriftInv, origin \in Version, origin' \in Version,
         origin <= origin', NEW x \in Fetcher, NEW r,
         fetch' = [fetch EXCEPT ![x] = r], r = Idle \/ Sound(r, origin')
  PROVE  DriftInv'
<1> SUFFICES ASSUME NEW y \in Fetcher, fetch'[y] # Idle
             PROVE  Sound(fetch'[y], origin')
  BY DEF DriftInv
<1>1. CASE y = x
  BY <1>1 DEF RunTypeOK, Fetcher
<1>2. CASE y # x
  <2>1. fetch'[y] = fetch[y] /\ fetch[y] # Idle
    BY <1>2 DEF RunTypeOK, Fetcher
  <2>2. fetch[y] \in Reply /\ Sound(fetch[y], origin)
    BY <2>1 DEF RunTypeOK, Fetcher, DriftInv
  <2> QED
    BY <2>1, <2>2, SoundLasts
<1> QED
  BY <1>1, <1>2

LEMMA AskedIsSound ==
  ASSUME NEW n
  PROVE  Sound(Asked, n)
<1>1. Asked.origin = Nil /\ Asked.pool = Unread
  BY DEF Asked
<1>2. ~Drifts(Asked)
  BY <1>1, UnreadNeverDrifts
<1> QED
  BY <1>1, <1>2 DEF Sound

LEMMA ActingKeepsDrift ==
  ASSUME TypeOK, TypeOK', DriftInv, NEW a \in Action, Acting(a)
  PROVE  DriftInv'
<1>1. RunTypeOK /\ origin \in Version /\ origin' \in Version /\ a \in Fetcher
  BY DEF TypeOK, ServerTypeOK, Fetcher
<1>2. CASE Reseed(a)
  <2> SUFFICES ASSUME NEW x \in Fetcher, fetch'[x] # Idle
               PROVE  Sound(fetch'[x], origin')
    BY DEF DriftInv
  <2>1. fetch'[x] = IF Under(x) /\ fetch[x].origin # Nil /\ fetch[x].pool = Unread
                    THEN [fetch[x] EXCEPT !.old = TRUE] ELSE fetch[x]
    BY <1>1, <1>2 DEF Reseed, RunTypeOK, Fetcher
  <2>2. fetch[x] # Idle
    BY <2>1 DEF Under
  <2>3. fetch[x] \in Reply /\ Sound(fetch[x], origin)
    BY <1>1, <2>2 DEF RunTypeOK, Fetcher, DriftInv
  <2>4. CASE fetch[x].origin # Nil /\ fetch[x].pool = Unread
    <3> DEFINE r == [fetch[x] EXCEPT !.old = TRUE]
    <3>1. r.old = TRUE /\ r.origin # Nil
      BY <2>3, <2>4 DEF Reply
    <3>2. fetch'[x] = r
      BY <2>1, <2>2, <2>4 DEF Under
    <3> HIDE DEF r
    <3> QED
      BY <3>1, <3>2 DEF Sound
  <2>5. CASE ~(fetch[x].origin # Nil /\ fetch[x].pool = Unread)
    BY <2>1, <2>3, <2>5 DEF Sound
  <2> QED
    BY <2>4, <2>5
<1>3. CASE ~Reseed(a)
  <2>1. origin <= origin'
    <3>1. origin' \in {origin, origin + 1}
      BY <1>3
         DEF Acting, Read, Write, PatchSettings, Flush, RestoreRedis,
             AnnounceOutage, CutRedis, RestoreConnection, AnnounceEnd, Fails,
             serverVars
    <3> QED
      BY <1>1, <3>1 DEF Version
  <2>2. UNCHANGED fetch \/ fetch' = [fetch EXCEPT ![a] = Asked]
    BY <1>3
       DEF Acting, Read, Write, PatchSettings, Flush, RestoreRedis,
           AnnounceOutage, CutRedis, RestoreConnection, AnnounceEnd, Fails,
           OrFails, Succeeds, Proceeds, Throws
  <2> QED
    BY <1>1, <2>1, <2>2, DriftKept, DriftReplaced, AskedIsSound
<1> QED
  BY <1>2, <1>3

LEMMA AnsweringKeepsDrift ==
  ASSUME TypeOK, DriftInv, NEW x \in Fetcher, Answering(x) \/ FetchFails(x)
  PROVE  DriftInv'
<1>1. /\ RunTypeOK
      /\ origin \in Version /\ UNCHANGED origin
      /\ origin <= origin
  BY DEF TypeOK, ServerTypeOK, Version, Answering, ReadOrigin, ListPool, Install,
         FetchFails, serverVars
<1>2. fetch[x] # Idle /\ fetch[x] \in Reply /\ Sound(fetch[x], origin)
  BY <1>1 DEF RunTypeOK, Fetcher, Answering, ReadOrigin, ListPool, Install,
              FetchFails, Under, DriftInv
<1>3. CASE ReadOrigin(x)
  <2>1. PICK seen \in BOOLEAN :
          fetch' = [fetch EXCEPT ![x].origin = origin, ![x].cut = seen]
    BY <1>3 DEF ReadOrigin
  <2> DEFINE r == [fetch[x] EXCEPT !.origin = origin, !.cut = seen]
  <2>2. fetch' = [fetch EXCEPT ![x] = r]
    BY <2>1, <1>1 DEF RunTypeOK
  <2>3. r.origin = origin /\ r.pool = Unread
    BY <1>2, <1>3 DEF ReadOrigin, Sound, Reply
  <2> HIDE DEF r
  <2>4. origin # Nil /\ ~Drifts(r)
    BY <1>1, <2>3, UnreadNeverDrifts DEF Version, Nil
  <2>5. Sound(r, origin)
    BY <1>1, <2>3, <2>4 DEF Sound
  <2> QED
    BY <1>1, <2>2, <2>5, DriftReplaced
<1>4. CASE ListPool(x)
  <2>1. fetch[x].pool = Unread /\ fetch[x].origin # Nil
    BY <1>4 DEF ListPool, MayList
  <2>2. CASE fetch' = [fetch EXCEPT ![x].pool = Defaults]
    <3> DEFINE r == [fetch[x] EXCEPT !.pool = Defaults]
    <3>1. fetch' = [fetch EXCEPT ![x] = r]
      BY <2>2, <1>1 DEF RunTypeOK
    <3>2. r.origin # Nil /\ r.pool = Defaults
      BY <1>2, <2>1 DEF Reply
    <3> HIDE DEF r
    <3>3. Defaults # Unread
      BY DEF Defaults, Unread
    <3>4. Sound(r, origin)
      BY <3>2, <3>3, UnreadNeverDrifts DEF Sound
    <3> QED
      BY <1>1, <3>1, <3>4, DriftReplaced
  <2>3. CASE fetch' = [fetch EXCEPT ![x].pool = InRedis,
                                    ![x].old = @ \/ entry < origin]
    <3> DEFINE r == [fetch[x] EXCEPT !.pool = InRedis,
                                     !.old = fetch[x].old \/ entry < origin]
    <3>1. fetch' = [fetch EXCEPT ![x] = r]
      BY <2>3, <1>1, <1>2 DEF RunTypeOK, Fetcher
    <3>2. /\ r.origin = fetch[x].origin /\ r.pool = InRedis
          /\ r.old = (fetch[x].old \/ entry < origin)
      BY <1>2 DEF Reply
    <3> HIDE DEF r
    <3>3. ServerTypeOK
      BY DEF TypeOK
    <3>4. Drifts(r) => r.old
      <4>1. SUFFICES ASSUME Drifts(r), ~fetch[x].old
                     PROVE  entry < origin
        BY <3>2
      <4>2. InRedis.entry = entry
        BY DEF InRedis
      <4>3. entry # Nil /\ entry < fetch[x].origin
        BY <3>2, <4>1, <4>2 DEF Drifts
      <4>4. fetch[x].origin <= origin
        BY <1>2, <2>1, <4>1 DEF Sound
      <4>5. entry \in Nat /\ fetch[x].origin \in Nat /\ origin \in Nat
        BY <1>2, <2>1, <3>3, <4>3 DEF ServerTypeOK, Reply, Version
      <4> QED
        BY <4>3, <4>4, <4>5
    <3>5. Sound(r, origin)
      BY <2>1, <3>2, <3>3, <3>4, InRedisIsPool DEF Sound
    <3> QED
      BY <1>1, <3>1, <3>5, DriftReplaced
  <2> QED
    BY <1>4, <2>2, <2>3 DEF ListPool
<1>5. CASE Install(x) \/ FetchFails(x)
  BY <1>1, <1>5, DriftReplaced DEF Install, FetchFails
<1> QED
  BY <1>3, <1>4, <1>5 DEF Answering

LEMMA NextKeepsDrift == TypeOK /\ TypeOK' /\ DriftInv /\ [Next]_vars => DriftInv'
<1> SUFFICES ASSUME TypeOK, TypeOK', DriftInv, [Next]_vars
             PROVE  DriftInv'
  OBVIOUS
<1>1. RunTypeOK /\ origin \in Version /\ origin' \in Version /\ origin <= origin
  BY DEF TypeOK, ServerTypeOK, Version
<1>2. ASSUME NEW q \in Poll, StartPoll(q)
      PROVE  DriftInv'
  BY <1>1, <1>2, DriftReplaced, AskedIsSound DEF StartPoll, serverVars, Fetcher
<1>3. ASSUME NEW a \in Action, NEW name \in Name, Click(a, name)
      PROVE  DriftInv'
  BY <1>1, <1>3, DriftKept DEF Click, serverVars
<1>4. CASE StreamError \/ UNCHANGED vars
  BY <1>1, <1>4, DriftKept DEF StreamError, serverVars, vars
<1>5. CASE OthersChange
  <2>1. origin <= origin' /\ UNCHANGED fetch
    BY <1>1, <1>5 DEF OthersChange, Version
  <2> QED
    BY <1>1, <2>1, DriftKept
<1> QED
  BY <1>2, <1>3, <1>4, <1>5, ActingKeepsDrift, AnsweringKeepsDrift
     DEF Next, Fetcher

(* An answer that shows an entry behind its row was put together while the *)
(* entry was behind, or across a reset: never by the order of its reads,   *)
(* for every number of polls and actions.                                  *)
THEOREM DriftNeverInvented == Spec => []DriftIsReal
<1>1. Init => DriftInv
  BY DEF Init, DriftInv, Fetcher
<1>2. DriftInv => DriftIsReal
  BY DEF DriftInv, DriftIsReal, Sound, Under, Fetcher
<1> QED
  BY TypeCorrect, NextKeepsDrift, <1>1, <1>2, PTL DEF Spec

-----------------------------------------------------------------------------
(* OutageAnnounced: as long as drills do not cross there is one of them,   *)
(* and by the time it is about to cut it has announced itself.             *)
Committed(a) == At(a, "half", "fault") /\ act[a].on

OneDrill == \A a, b \in Action : Drilling(a) /\ Drilling(b) => a = b

OutageInv ==
  ~crossed =>
    /\ OneDrill
    /\ \A a \in Action : Committed(a) => announced
    /\ cut => announced

(* Every step of an action but Click leaves the others alone and starts no *)
(* drill.                                                                  *)
LEMMA ActingStartsNoDrill ==
  ASSUME TypeOK, NEW a \in Action, Acting(a)
  PROVE  /\ crossed' = crossed
         /\ \A b \in Action : Drilling(b)' => Drilling(b)
         /\ \A b \in Action :
              Committed(b)' => Committed(b) \/ (b = a /\ AnnounceOutage(a))
<1>1. act \in [Action -> Request \cup {Idle}]
  BY DEF TypeOK, RunTypeOK
<1>2. act[a].pc \in {"sent", "half"}
  BY DEF Acting, Read, Write, PatchSettings, Flush, Reseed, RestoreRedis,
         AnnounceOutage, CutRedis, RestoreConnection, AnnounceEnd, Fails, At
<1>3. act[a] \in Request
  BY <1>1, <1>2 DEF Idle
<1>4. crossed' = crossed
  BY DEF Acting, Read, Write, PatchSettings, Flush, Reseed, RestoreRedis,
         AnnounceOutage, CutRedis, RestoreConnection, AnnounceEnd, Fails, OrFails
<1>5. \/ act' = [act EXCEPT ![a] = Idle]
      \/ act' = [act EXCEPT ![a].pc = "refresh"]
      \/ act' = [act EXCEPT ![a].pc = "half"]
  BY DEF Acting, Read, Write, PatchSettings, Flush, Reseed, RestoreRedis,
         AnnounceOutage, CutRedis, RestoreConnection, AnnounceEnd, Fails, OrFails,
         Succeeds, Proceeds, Throws, Ends
<1>6. act' = [act EXCEPT ![a].pc = "half"] =>
        Reseed(a) \/ AnnounceOutage(a) \/ RestoreConnection(a)
  <2>1. SUFFICES ASSUME act' = [act EXCEPT ![a].pc = "half"],
                        ~(Reseed(a) \/ AnnounceOutage(a) \/ RestoreConnection(a))
                 PROVE  FALSE
    OBVIOUS
  <2>2. act'[a].pc = "half"
    BY <1>1, <1>3, <2>1 DEF Request
  <2>3. act'[a] = Idle \/ act'[a] = [act[a] EXCEPT !.pc = "refresh"]
    BY <1>1, <2>1
       DEF Acting, Read, Write, PatchSettings, Flush, RestoreRedis, CutRedis,
           AnnounceEnd, Fails, OrFails, Succeeds, Throws, Ends
  <2>4. Idle.pc # "half" /\ [act[a] EXCEPT !.pc = "refresh"].pc # "half"
    BY <1>3 DEF Idle, Request
  <2> QED
    BY <2>2, <2>3, <2>4
<1>7. ASSUME NEW b \in Action, b # a
      PROVE  act'[b] = act[b]
  BY <1>1, <1>5, <1>7
<1>8. \/ act'[a].pc \in {"idle", "refresh"}
      \/ /\ act'[a].pc = "half"
         /\ act'[a].name = act[a].name /\ act'[a].on = act[a].on
  BY <1>1, <1>3, <1>5 DEF Request, Idle
<1>9. ASSUME NEW b \in Action, Drilling(b)'
      PROVE  Drilling(b)
  BY <1>2, <1>7, <1>8, <1>9 DEF Drilling
<1>10. ASSUME NEW b \in Action, Committed(b)', b = a
       PROVE  AnnounceOutage(a)
  <2>1. act'[a].pc = "half" /\ act'[a].name = "fault" /\ act'[a].on
    BY <1>10 DEF Committed, At
  <2>2. act[a].name = "fault" /\ act[a].on
    BY <1>8, <2>1
  <2>3. act' = [act EXCEPT ![a].pc = "half"]
    BY <1>1, <1>3, <1>5, <2>1 DEF Request, Idle
  <2> QED
    BY <1>6, <2>2, <2>3 DEF Reseed, RestoreConnection, At
<1>11. ASSUME NEW b \in Action, Committed(b)', b # a
       PROVE  Committed(b)
  BY <1>7, <1>11 DEF Committed, At
<1> QED
  BY <1>4, <1>9, <1>10, <1>11

LEMMA ActingKeepsOutage ==
  ASSUME TypeOK, OutageInv, NEW a \in Action, Acting(a)
  PROVE  OutageInv'
<1> SUFFICES ASSUME ~crossed'
             PROVE  /\ OneDrill'
                    /\ \A b \in Action : Committed(b)' => announced'
                    /\ cut' => announced'
  BY DEF OutageInv
<1>1. /\ OneDrill
      /\ \A b \in Action : Committed(b) => announced
      /\ cut => announced
  BY ActingStartsNoDrill DEF OutageInv
<1>2. OneDrill'
  BY <1>1, ActingStartsNoDrill DEF OneDrill
<1>3. CASE AnnounceOutage(a)
  BY <1>2, <1>3 DEF AnnounceOutage
<1>4. CASE CutRedis(a)
  <2>1. announced' = announced /\ Committed(a) /\ a \in Action
    BY <1>4 DEF CutRedis, Committed
  <2>2. announced'
    BY <1>1, <2>1
  <2> QED
    BY <1>2, <2>2
<1>5. CASE AnnounceEnd(a)
  <2>1. ~act[a].on /\ Drilling(a)
    BY <1>5 DEF AnnounceEnd, At, Drilling
  <2>2. ASSUME NEW b \in Action, Committed(b)'
        PROVE  FALSE
    <3>1. Committed(b)
      <4>1. ~AnnounceOutage(a)
        BY <2>1 DEF AnnounceOutage
      <4> QED
        BY <2>2, <4>1, ActingStartsNoDrill
    <3>2. Drilling(b) /\ act[b].on
      BY <3>1 DEF Committed, At, Drilling
    <3>3. a = b
      BY <1>1, <2>1, <3>2 DEF OneDrill
    <3> QED
      BY <2>1, <3>2, <3>3
  <2>3. cut' => announced'
    BY <1>1, <1>5 DEF AnnounceEnd
  <2> QED
    BY <1>2, <2>2, <2>3
<1>6. CASE ~(AnnounceOutage(a) \/ CutRedis(a) \/ AnnounceEnd(a))
  <2>1. announced' = announced /\ (cut' => cut)
    BY <1>6
       DEF Acting, Read, Write, PatchSettings, Flush, Reseed, RestoreRedis,
           RestoreConnection, Fails, serverVars
  <2>2. \A b \in Action : Committed(b)' => Committed(b)
    BY <1>6, ActingStartsNoDrill
  <2> QED
    BY <1>1, <1>2, <2>1, <2>2
<1> QED
  BY <1>3, <1>4, <1>5, <1>6

LEMMA ClickKeepsOutage ==
  ASSUME TypeOK, OutageInv, NEW a \in Action, NEW name \in Name, Click(a, name)
  PROVE  OutageInv'
<1> SUFFICES ASSUME ~crossed'
             PROVE  /\ OneDrill'
                    /\ \A b \in Action : Committed(b)' => announced'
                    /\ cut' => announced'
  BY DEF OutageInv
<1>1. ~crossed /\ (name = "fault" => \A b \in Action : ~Drilling(b))
  BY DEF Click
<1>2. /\ OneDrill
      /\ \A b \in Action : Committed(b) => announced
      /\ cut => announced
  BY <1>1 DEF OutageInv
<1>3. announced' = announced /\ cut' = cut
  BY DEF Click, serverVars
<1>4. act'[a].pc = "sent" /\ act'[a].name = name
  BY DEF TypeOK, RunTypeOK, Click
<1>5. ASSUME NEW b \in Action, b # a
      PROVE  act'[b] = act[b]
  BY <1>5 DEF TypeOK, RunTypeOK, Click
<1>6. ASSUME NEW b \in Action, Committed(b)'
      PROVE  Committed(b)
  BY <1>4, <1>5, <1>6 DEF Committed, At
<1>7. ASSUME NEW b \in Action, Drilling(b)'
      PROVE  (b = a /\ name = "fault") \/ (b # a /\ Drilling(b))
  BY <1>4, <1>5, <1>7 DEF Drilling
<1>8. OneDrill'
  BY <1>1, <1>2, <1>7 DEF OneDrill
<1> QED
  BY <1>2, <1>3, <1>6, <1>8

LEMMA OutageUntouched ==
  ASSUME OutageInv, UNCHANGED <<act, cut, announced, crossed>>
  PROVE  OutageInv'
  BY DEF OutageInv, OneDrill, Drilling, Committed, At

LEMMA AnsweringKeepsOutage ==
  ASSUME TypeOK, OutageInv, NEW x \in Fetcher, Answering(x) \/ FetchFails(x)
  PROVE  OutageInv'
<1>1. UNCHANGED <<cut, announced, crossed>>
  BY DEF Answering, ReadOrigin, ListPool, Install, FetchFails, serverVars
<1>2. CASE UNCHANGED act
  BY <1>1, <1>2, OutageUntouched
<1>3. CASE x \in Action /\ act' = [act EXCEPT ![x] = Idle]
  <2>1. act'[x].pc = "idle"
    BY <1>3 DEF TypeOK, RunTypeOK, Idle
  <2>2. \A b \in Action : b # x => act'[b] = act[b]
    BY <1>3 DEF TypeOK, RunTypeOK
  <2>3. \A b \in Action : (Drilling(b)' => Drilling(b))
                         /\ (Committed(b)' => Committed(b))
    BY <2>1, <2>2 DEF Drilling, Committed, At
  <2> QED
    BY <1>1, <2>3 DEF OutageInv, OneDrill
<1> QED
  BY <1>2, <1>3
     DEF Answering, ReadOrigin, ListPool, Install, FetchFails, OrPollEnds, Ends

LEMMA NextKeepsOutage == TypeOK /\ OutageInv /\ [Next]_vars => OutageInv'
<1> SUFFICES ASSUME TypeOK, OutageInv, [Next]_vars
             PROVE  OutageInv'
  OBVIOUS
<1>1. ASSUME NEW q \in Poll, StartPoll(q)
      PROVE  OutageInv'
  BY <1>1, OutageUntouched DEF StartPoll, serverVars
<1>2. CASE StreamError \/ OthersChange \/ UNCHANGED vars
  BY <1>2, OutageUntouched DEF StreamError, OthersChange, vars, serverVars
<1> QED
  BY <1>1, <1>2, ActingKeepsOutage, AnsweringKeepsOutage, ClickKeepsOutage
     DEF Next, Fetcher

(* While Redis is cut the latest drill event says so, however a drill's    *)
(* steps fail, as long as drills do not cross.                             *)
THEOREM OutageIsAnnounced == Spec => []OutageAnnounced
<1>1. Init => OutageInv
  <2>1. Idle.pc \notin {"sent", "half"}
    BY DEF Idle
  <2> QED
    BY <2>1 DEF Init, OutageInv, OneDrill, Drilling, Committed, At
<1>2. OutageInv => OutageAnnounced
  BY DEF OutageInv, OutageAnnounced
<1> QED
  BY TypeCorrect, NextKeepsOutage, <1>1, <1>2, PTL DEF Spec
=============================================================================
