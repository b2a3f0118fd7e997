----------------------------- MODULE LabConsole -----------------------------
(***************************************************************************)
(* The browser console and the /lab endpoints it works through.            *)
(*                                                                         *)
(* useLab.ts polls GET /lab/state every second, on every event and after   *)
(* every action, and shows whichever answer arrives last.  The server puts *)
(* an answer together from reads made one after another (LabService.state),*)
(* while actions of this console, other consoles, reads and the outbox     *)
(* change what it reads.  When Redis is cut the answer falls back to       *)
(* default settings and an empty pool.                                     *)
(*                                                                         *)
(* One resource, one switch of the settings and the redis-outage drill     *)
(* stand for the rest; slow-origin only delays.  burst goes the way of     *)
(* read and the clock buttons that of flush.                               *)
(***************************************************************************)
EXTENDS Integers

CONSTANTS Poll,        \* polls that may be under way at a time
          Action,      \* actions that may be under way at a time
          MaxInputs,   \* bound: actions of this console, changes by others
          MaxFaults    \* bound: failed requests, errors of the stream

ASSUME LabConsoleAssumption ==
  /\ Poll \cap Action = {}
  /\ MaxInputs \in Nat /\ MaxFaults \in Nat

VARIABLES
  origin,     \* version of the row
  entry,      \* version of its cache entry, or Nil
  coalescing, \* the switch, in the settings hash
  cut,        \* the toxic cache-cut is installed
  announced,  \* history: the latest drill event said ENABLED
  display,    \* state of useLab: the answer on display, or Blank
  error,      \* error of useLab: a message is shown
  busy,       \* busy of useLab: the name of an action, or Free
  act,        \* run() of each action
  fetch,      \* the GET /lab/state of each poll and action
  crossed,    \* history: two drills were under way at a time
  inputs, faults

serverVars == <<origin, entry, coalescing, cut, announced>>
consoleVars == <<display, error, busy>>
boundVars == <<inputs, faults>>
vars == <<origin, entry, coalescing, cut, announced, display, error, busy, act,
          fetch, crossed, inputs, faults>>

-----------------------------------------------------------------------------
Nil == -1
Version == Nat \ {0}

Free == "free"
Blank == [pc |-> "blank"]
Ordinary == {"read", "write", "settings", "flush", "reset"}
Name == Ordinary \cup {"fault"}

(* GET /lab/state while it is answered and once it is: Nil and Unread stand *)
(* for what has not been read yet.  old is history: the entry was older     *)
(* than the row when it was listed, or a reset came in between.            *)
Unread == [of |-> "nothing"]
Defaults == [of |-> "defaults"]
Asked == [origin |-> Nil, cut |-> FALSE, pool |-> Unread, old |-> FALSE]
Idle == [pc |-> "idle"]

Pool ==
  [of : {"redis"}, entry : {Nil} \cup Version, coalescing : BOOLEAN]
    \cup {Unread, Defaults}

Reply == [origin : {Nil} \cup Version, cut : BOOLEAN, pool : Pool,
          old : BOOLEAN]

Request == [pc : {"sent", "half", "refresh"}, name : Name, on : BOOLEAN]

ServerTypeOK ==
  /\ origin \in Version
  /\ entry \in {Nil} \cup Version
  /\ coalescing \in BOOLEAN
  /\ cut \in BOOLEAN
  /\ announced \in BOOLEAN

ConsoleTypeOK ==
  /\ display \in Reply \cup {Blank}
  /\ display # Blank => display.origin # Nil /\ display.pool # Unread
  /\ error \in BOOLEAN
  /\ busy \in Name \cup {Free}

RunTypeOK ==
  /\ act \in [Action -> Request \cup {Idle}]
  /\ fetch \in [Poll \cup Action -> Reply \cup {Idle}]
  /\ \A a \in Action : fetch[a] # Idle <=> act[a].pc = "refresh"

TypeOK ==
  /\ ServerTypeOK /\ ConsoleTypeOK /\ RunTypeOK
  /\ crossed \in BOOLEAN
  /\ inputs \in 0 .. MaxInputs /\ faults \in 0 .. MaxFaults

Init ==
  /\ origin = 1 /\ entry = 1
  /\ coalescing = TRUE
  /\ cut = FALSE
  /\ announced = FALSE
  /\ display = Blank
  /\ error = FALSE
  /\ busy = Free
  /\ act = [a \in Action |-> Idle]
  /\ fetch = [x \in Poll \cup Action |-> Idle]
  /\ crossed = FALSE
  /\ inputs = 0 /\ faults = 0

-----------------------------------------------------------------------------
(* A request or a step of one fails: each costs one of MaxFaults.          *)
Faulty == faults < MaxFaults /\ faults' = faults + 1

(* GET /lab/state: refresh() of useLab and LabService.state.               *)

(* The timer, an event of the stream, the start of the page.               *)
StartPoll(q) ==
  /\ fetch[q] = Idle
  /\ fetch' = [fetch EXCEPT ![q] = Asked]
  /\ UNCHANGED <<serverVars, consoleVars, boundVars, act, crossed>>

Under(x) == fetch[x] # Idle

(* toxiproxy.getFaults(): "no fault" when Toxiproxy does not answer.       *)
GetFaults(seen) ==
  \/ seen = cut /\ UNCHANGED boundVars
  \/ cut /\ ~seen /\ Faulty /\ UNCHANGED inputs

(* resources.versions() with it. *)
ReadOrigin(x) ==
  /\ Under(x) /\ fetch[x].origin = Nil
  /\ \E seen \in BOOLEAN :
       /\ GetFaults(seen)
       /\ fetch' = [fetch EXCEPT ![x].origin = origin, ![x].cut = seen]
  /\ UNCHANGED <<serverVars, consoleVars, act, crossed>>

(* cache.list() and getSettings(). *)
InRedis == [of |-> "redis", entry |-> entry, coalescing |-> coalescing]

(* Mutant of MayList: all the reads in one Promise.all. *)
MayListAtOnce(x) == TRUE

(* The rest is read when the versions have been. *)
MayList(x) == fetch[x].origin # Nil

ListPool(x) ==
  /\ Under(x) /\ fetch[x].pool = Unread /\ MayList(x)
  /\ \/ /\ ~cut
        /\ fetch' = [fetch EXCEPT ![x].pool = InRedis,
                                  ![x].old = @ \/ entry < origin]
        /\ UNCHANGED boundVars
     \/ /\ fetch' = [fetch EXCEPT ![x].pool = Defaults]
        /\ IF cut THEN UNCHANGED boundVars
           ELSE Faulty /\ UNCHANGED inputs
  /\ UNCHANGED <<serverVars, consoleVars, act, crossed>>

(* run(): the operation and the refresh after it are over.                 *)
Ends(a) ==
  /\ act' = [act EXCEPT ![a] = Idle]
  /\ busy' = Free

OrPollEnds(x) == IF x \in Action THEN Ends(x) ELSE UNCHANGED <<act, busy>>

(* Mutant of Install: refresh does not take the error back. *)
InstallOnly(x) ==
  /\ Under(x) /\ fetch[x].origin # Nil /\ fetch[x].pool # Unread
  /\ display' = [fetch[x] EXCEPT !.old = FALSE]
  /\ fetch' = [fetch EXCEPT ![x] = Idle]
  /\ OrPollEnds(x)
  /\ UNCHANGED <<serverVars, boundVars, crossed, error>>

Install(x) ==
  /\ Under(x) /\ fetch[x].origin # Nil /\ fetch[x].pool # Unread
  /\ display' = [fetch[x] EXCEPT !.old = FALSE]
  /\ error' = FALSE
  /\ fetch' = [fetch EXCEPT ![x] = Idle]
  /\ OrPollEnds(x)
  /\ UNCHANGED <<serverVars, boundVars, crossed>>

(* refresh() shows the error and does not throw it. *)
FetchFails(x) ==
  /\ Under(x)
  /\ Faulty
  /\ error' = TRUE
  /\ fetch' = [fetch EXCEPT ![x] = Idle]
  /\ OrPollEnds(x)
  /\ UNCHANGED <<serverVars, display, crossed, inputs>>

StreamError ==
  /\ Faulty
  /\ error' = TRUE
  /\ UNCHANGED <<serverVars, display, busy, act, fetch, crossed, inputs>>

-----------------------------------------------------------------------------
(* Buttons.                                                                *)

(* Every control is disabled while something is under way, but for the     *)
(* switch of a drill: that one only while busy is its own name.            *)
Clickable(name) ==
  /\ display # Blank
  /\ IF name = "fault" THEN busy # "fault" ELSE busy = Free

(* A switch sends the opposite of what is displayed. *)
Opposite(name) ==
  CASE name = "fault" -> ~display.cut
    [] name = "settings" /\ display.pool # Defaults -> ~display.pool.coalescing
    [] OTHER -> FALSE

(* The drill is not over for the server. *)
Drilling(a) == act[a].pc \in {"sent", "half"} /\ act[a].name = "fault"

(* The names of the actions do not matter. *)
FirstIdle ==
  CHOOSE a \in Action : act[a] = Idle \/ \A b \in Action : act[b] # Idle

Click(a, name) ==
  /\ inputs < MaxInputs
  /\ a = FirstIdle /\ act[a] = Idle
  /\ Clickable(name)
  /\ act' = [act EXCEPT ![a] = [pc |-> "sent", name |-> name,
                                on |-> Opposite(name)]]
  /\ busy' = name
  /\ error' = FALSE
  /\ inputs' = inputs + 1
  /\ crossed' = (crossed \/ (name = "fault" /\ \E b \in Action : Drilling(b)))
  /\ UNCHANGED <<serverVars, display, fetch, faults>>

(* The operation has thrown: no refresh. *)
Throws(a) ==
  /\ Ends(a)
  /\ error' = TRUE
  /\ UNCHANGED <<display, fetch>>

(* Mutant of Succeeds: the refresh after it is not awaited. *)
SucceedsAlready(a) ==
  /\ Ends(a)
  /\ fetch' = [fetch EXCEPT ![a] = Asked]
  /\ UNCHANGED <<display, error>>

Succeeds(a) ==
  /\ act' = [act EXCEPT ![a].pc = "refresh"]
  /\ fetch' = [fetch EXCEPT ![a] = Asked]
  /\ UNCHANGED consoleVars

Proceeds(a) ==
  /\ act' = [act EXCEPT ![a].pc = "half"]
  /\ UNCHANGED <<fetch, consoleVars>>

(* What has been done is answered, or its answer or a later step fails.    *)
OrFails(a, outcome) ==
  /\ \/ outcome /\ UNCHANGED faults
     \/ Throws(a) /\ Faulty
  /\ UNCHANGED <<crossed, inputs>>

(* What a cut of Redis makes fail at once, or Toxiproxy refuses during one. *)
NeedsRedis(a) ==
  \/ act[a].name \in {"write", "settings", "flush"}
  \/ act[a].name = "reset" /\ act[a].pc = "half"
  \/ act[a].name = "fault" /\ act[a].on

(* Nothing has been done.  The end of a drill no longer fails once the     *)
(* toxic is gone.                                                          *)
Fails(a) ==
  /\ act[a].pc \in {"sent", "half"}
  /\ act[a].pc = "half" /\ act[a].name = "fault" => act[a].on
  /\ Throws(a)
  /\ IF cut /\ NeedsRedis(a) THEN UNCHANGED faults ELSE Faulty
  /\ UNCHANGED <<serverVars, crossed, inputs>>

-----------------------------------------------------------------------------
(* What the server does for an action.                                     *)
At(a, pc, name) == act[a].pc = pc /\ act[a].name = name

(* A read fills the entry or finds one; without Redis it bypasses it.      *)
Read(a) ==
  /\ At(a, "sent", "read")
  /\ entry' \in {entry} \cup (IF cut THEN {} ELSE {origin})
  /\ OrFails(a, Succeeds(a))
  /\ UNCHANGED <<origin, coalescing, cut, announced>>

Write(a) ==
  /\ At(a, "sent", "write")
  /\ ~cut
  /\ origin' = origin + 1
  /\ OrFails(a, Succeeds(a))
  /\ UNCHANGED <<entry, coalescing, cut, announced>>

PatchSettings(a) ==
  /\ At(a, "sent", "settings")
  /\ ~cut
  /\ coalescing' = act[a].on
  /\ OrFails(a, Succeeds(a))
  /\ UNCHANGED <<origin, entry, cut, announced>>

Flush(a) ==
  /\ At(a, "sent", "flush")
  /\ ~cut
  /\ entry' = Nil
  /\ OrFails(a, Succeeds(a))
  /\ UNCHANGED <<origin, coalescing, cut, announced>>

(* The transaction needs no Redis ... *)
Reseed(a) ==
  /\ At(a, "sent", "reset")
  /\ origin' = 1
  /\ act' = [act EXCEPT ![a].pc = "half"]
  /\ fetch' = [x \in DOMAIN fetch |->
                 IF Under(x) /\ fetch[x].origin # Nil /\ fetch[x].pool = Unread
                 THEN [fetch[x] EXCEPT !.old = TRUE] ELSE fetch[x]]
  /\ UNCHANGED <<entry, coalescing, cut, announced, consoleVars, boundVars,
                 crossed>>

(* ... and the rest does. *)
RestoreRedis(a) ==
  /\ At(a, "half", "reset")
  /\ ~cut
  /\ entry' = origin
  /\ coalescing' = TRUE
  /\ OrFails(a, Succeeds(a))
  /\ UNCHANGED <<origin, cut, announced>>

(* Mutant of AnnounceOutage: nothing is emitted before enabling. *)
AnnounceNothing(a) ==
  /\ At(a, "sent", "fault") /\ act[a].on
  /\ OrFails(a, Proceeds(a))
  /\ UNCHANGED serverVars

(* setFault('redis-outage', true) announces the outage through the         *)
(* connection it is about to cut ...                                       *)
AnnounceOutage(a) ==
  /\ At(a, "sent", "fault") /\ act[a].on
  /\ ~cut
  /\ announced' = TRUE
  /\ OrFails(a, Proceeds(a))
  /\ UNCHANGED <<origin, entry, coalescing, cut>>

(* ... and adds the toxic, which Toxiproxy refuses when there is one.      *)
CutRedis(a) ==
  /\ At(a, "half", "fault") /\ act[a].on
  /\ ~cut
  /\ cut' = TRUE
  /\ OrFails(a, Succeeds(a))
  /\ UNCHANGED <<origin, entry, coalescing, announced>>

(* setFault('redis-outage', false): a missing toxic is no error ...        *)
RestoreConnection(a) ==
  /\ At(a, "sent", "fault") /\ ~act[a].on
  /\ cut' = FALSE
  /\ OrFails(a, Proceeds(a))
  /\ UNCHANGED <<origin, entry, coalescing, announced>>

(* ... and neither is an event that cannot be emitted.                     *)
AnnounceEnd(a) ==
  /\ At(a, "half", "fault") /\ ~act[a].on
  /\ \/ ~cut /\ announced' = FALSE /\ UNCHANGED faults
     \/ UNCHANGED announced /\ IF cut THEN UNCHANGED faults ELSE Faulty
  /\ Succeeds(a)
  /\ UNCHANGED <<origin, entry, coalescing, cut, crossed, inputs>>

(* Other consoles, readers and the outbox.                                 *)
OthersChange ==
  /\ ~cut
  /\ inputs < MaxInputs
  /\ inputs' = inputs + 1
  /\ \/ /\ origin' = origin + 1
        /\ UNCHANGED <<entry, coalescing>>
     \/ /\ entry' \in {Nil} \cup 1 .. origin
        /\ UNCHANGED <<origin, coalescing>>
     \/ /\ coalescing' = ~coalescing
        /\ UNCHANGED <<origin, entry>>
  /\ UNCHANGED <<cut, announced, consoleVars, act, fetch, crossed, faults>>

-----------------------------------------------------------------------------
Answering(x) == ReadOrigin(x) \/ ListPool(x) \/ Install(x)

Acting(a) ==
  \/ Read(a) \/ Write(a) \/ PatchSettings(a) \/ Flush(a)
  \/ Reseed(a) \/ RestoreRedis(a)
  \/ AnnounceOutage(a) \/ CutRedis(a) \/ RestoreConnection(a) \/ AnnounceEnd(a)
  \/ Fails(a)

Next ==
  \/ \E q \in Poll : StartPoll(q)
  \/ \E x \in Poll \cup Action : Answering(x) \/ FetchFails(x)
  \/ \E a \in Action : Acting(a) \/ \E name \in Name : Click(a, name)
  \/ StreamError
  \/ OthersChange

Spec == Init /\ [][Next]_vars

(* The timer fires, and every request is answered or fails: commandTimeout *)
(* settles the commands of a handler.                                      *)
Fairness ==
  /\ \A q \in Poll : WF_vars(StartPoll(q))
  /\ \A x \in Poll \cup Action : WF_vars(Answering(x))
  /\ \A a \in Action : WF_vars(Acting(a))

FairSpec == Spec /\ Fairness

-----------------------------------------------------------------------------
(* Workbench: what it says of the entry in an answer.                      *)
Drifts(d) ==
  d.pool.of = "redis" /\ d.pool.entry # Nil /\ d.pool.entry < d.origin

(* "version drift" is never an accident of the order in which an answer    *)
(* was put together: when an answer shows it the entry was older than the  *)
(* row at the moment it was listed, unless a reset moved the row back.     *)
DriftIsReal ==
  \A x \in Poll \cup Action : Under(x) /\ Drifts(fetch[x]) => fetch[x].old

(* While Redis is cut the latest drill event in the feed says so, whatever *)
(* fails in between, as long as no two drills are under way at a time.     *)
OutageAnnounced == cut /\ ~crossed => announced

(* However many polls and actions cross, when the others are quiet the     *)
(* console ends up displaying what is there, without an error and with     *)
(* its controls enabled: an older answer does not stay.                    *)
Current ==
  /\ display # Blank
  /\ display.origin = origin /\ display.cut = cut
  /\ display.pool = IF cut THEN Defaults ELSE InRedis

DisplayConverges == <>[](Current /\ ~error /\ busy = Free)
=============================================================================
