----------------------------- MODULE EventStream -----------------------------
(***************************************************************************)
(* The event feed: EventBus appends to a capped Redis stream, the loop of  *)
(* EventsController.stream reads it with XREAD and writes server-sent      *)
(* events, an EventSource reconnects with Last-Event-ID, and useLab keeps  *)
(* the newest events on display.                                           *)
(*                                                                         *)
(* Stream ids ascend, so an event is its place in the stream: the stream   *)
(* holds trimmed + 1 .. appended.  A browser has one connection at a time; *)
(* what was written to an old one is lost with it.                         *)
(***************************************************************************)
EXTENDS Integers, Sequences, SequencesExt

CONSTANTS
  Browser,
  MaxLen,      \* MAXLEN of XADD, 250 in the code
  Page,        \* COUNT of XREAD, 50
  Keep,        \* events on display and in a recent() reply, 30
  MaxEvents,   \* bound: events emitted
  MaxFaults,   \* bound: disconnections, failed commands, refused reconnects
  MaxResets    \* bound: resets of the lab, which delete the stream

ASSUME EventStreamAssumption ==
  /\ MaxLen \in Nat \ {0} /\ Page \in Nat \ {0} /\ Keep \in Nat \ {0}
  /\ MaxEvents \in Nat /\ MaxFaults \in Nat /\ MaxResets \in Nat

VARIABLES
  appended,    \* events emitted so far
  trimmed,     \* the events up to here have left the stream
  sse,         \* sse[b]: the server's end of the connection of b
  wire,        \* wire[b]: events written to it and not yet received
  got,         \* got[b]: events the browser has received
  lastId,      \* lastEventId of the EventSource; 0: none yet
  recent,      \* the reply to api.recentEvents(), on its way to the console
  shown,       \* events on display, newest first
  overwritten, \* history: the recent reply replaced an event it lacks
  faults, resets

streamVars == <<appended, trimmed, resets>>
serverVars == <<sse, wire>>
consoleVars == <<got, lastId, recent, shown, overwritten>>
vars == <<streamVars, serverVars, consoleVars, faults>>

-----------------------------------------------------------------------------
Event == 1 .. MaxEvents
Latest == -1       \* the cursor '$'

Down == [pc |-> "down"]      \* EventSource waits, then reconnects
Closed == [pc |-> "closed"]  \* EventSource has given up
Cursor == {Latest} \cup Event
Connection ==
  [pc : {"xread", "pause"}, cursor : Cursor]
    \cup [pc : {"blocked"}, cursor : Cursor, after : 0 .. MaxEvents]
    \cup [pc : {"reply"}, cursor : Cursor, page : Seq(Event)]

TypeOK ==
  /\ appended \in 0 .. MaxEvents
  /\ trimmed \in 0 .. appended
  /\ sse \in [Browser -> Connection \cup {Down, Closed}]
  /\ wire \in [Browser -> Seq(1 .. appended)]
  /\ got \in [Browser -> SUBSET (1 .. appended)]
  /\ lastId \in [Browser -> 0 .. appended]
  /\ recent \in [Browser -> {<<"asked">>, <<"done">>}
                              \cup ({"reply"} \X Seq(1 .. appended))]
  /\ shown \in [Browser -> Seq(1 .. appended)]
  /\ \A b \in Browser : Len(shown[b]) <= Keep
  /\ overwritten \in [Browser -> BOOLEAN]
  /\ faults \in 0 .. MaxFaults
  /\ resets \in 0 .. MaxResets

(* A console has just mounted: both of its effects have started.           *)
Init ==
  /\ \E n \in 0 .. MaxEvents : appended = n /\ trimmed = 0
  /\ sse = [b \in Browser |-> Down]
  /\ wire = [b \in Browser |-> <<>>]
  /\ got = [b \in Browser |-> {}]
  /\ lastId = [b \in Browser |-> 0]
  /\ recent = [b \in Browser |-> <<"asked">>]
  /\ shown = [b \in Browser |-> <<>>]
  /\ overwritten = [b \in Browser |-> FALSE]
  /\ faults = MaxFaults
  /\ resets = MaxResets

-----------------------------------------------------------------------------
(* The stream.                                                             *)
Ids(from, to) == [i \in 1 .. to - from + 1 |-> from + i - 1]

Least(m, n) == IF m < n THEN m ELSE n
Greatest(m, n) == IF m > n THEN m ELSE n

PageFrom(id) ==   \* mutant of PageAfter: the cursor's own event again
  LET from == Greatest(Greatest(id, 1), trimmed + 1)
  IN Ids(from, Least(from + Page - 1, appended))

(* XREAD COUNT: the first entries whose id is beyond the cursor.           *)
PageAfter(id) ==
  LET from == Greatest(id, trimmed) + 1
  IN Ids(from, Least(from + Page - 1, appended))

(* XREVRANGE + - COUNT: the newest entries, newest first.                  *)
Newest == Reverse(Ids(Greatest(appended - Keep, trimmed) + 1, appended))

(* EventBus.emit.  MAXLEN ~ trims whole blocks of entries: perhaps nothing *)
(* yet, never an entry among the last MaxLen.  Blocked readers get the new *)
(* entry at once.                                                          *)
Emit ==
  LET id == appended + 1 IN
  /\ appended < MaxEvents
  /\ appended' = id
  /\ trimmed' \in {t \in 0 .. id : trimmed <= t /\ t <= Greatest(trimmed, id - MaxLen)}
  /\ sse' = [b \in Browser |->
               IF sse[b].pc = "blocked"
               THEN [pc |-> "reply", cursor |-> sse[b].cursor, page |-> <<id>>]
               ELSE sse[b]]
  /\ UNCHANGED <<resets, wire, consoleVars, faults>>

(* LabStateStore.reset deletes the stream with the other keys.             *)
Reset ==
  /\ resets > 0
  /\ resets' = resets - 1
  /\ trimmed' = appended
  /\ UNCHANGED <<appended, serverVars, consoleVars, faults>>

-----------------------------------------------------------------------------
(* EventsController.stream, for the connection of b.                       *)
Goes(b, state) == sse' = [sse EXCEPT ![b] = state]

StartAtLatest(b) == Latest   \* mutant of StartAt: no Last-Event-ID

StartAt(b) == IF lastId[b] = 0 THEN Latest ELSE lastId[b]

(* EventSource connects, or reconnects after `retry: 1000`.                *)
Connect(b) ==
  /\ sse[b].pc = "down"
  /\ Goes(b, [pc |-> "xread", cursor |-> StartAt(b)])
  /\ UNCHANGED <<streamVars, wire, consoleVars, faults>>

(* The edge answers a reconnect with an error status: EventSource gives up.*)
Refused(b) ==
  /\ faults > 0
  /\ sse[b].pc = "down"
  /\ Goes(b, Closed)
  /\ faults' = faults - 1
  /\ UNCHANGED <<streamVars, wire, consoleVars>>

XReadBlocks(b) ==   \* mutant of XRead: it waits whatever is there
  /\ sse[b].pc = "xread"
  /\ LET cursor == sse[b].cursor IN
       Goes(b, [pc |-> "blocked", cursor |-> cursor,
                after |-> IF cursor = Latest THEN appended ELSE cursor])
  /\ UNCHANGED <<streamVars, wire, consoleVars, faults>>

(* Redis takes '$' for the newest id there is when the command arrives.    *)
XRead(b) ==
  /\ sse[b].pc = "xread"
  /\ LET cursor == sse[b].cursor
         after == IF cursor = Latest THEN appended ELSE cursor
         page == PageAfter(after)
     IN Goes(b, IF page = <<>>
                THEN [pc |-> "blocked", cursor |-> cursor, after |-> after]
                ELSE [pc |-> "reply", cursor |-> cursor, page |-> page])
  /\ UNCHANGED <<streamVars, wire, consoleVars, faults>>

(* BLOCK 5000 ran out: a heartbeat is written and the loop reads again.    *)
Heartbeat(b) ==
  /\ sse[b].pc = "blocked"
  /\ Goes(b, [pc |-> "xread", cursor |-> sse[b].cursor])
  /\ UNCHANGED <<streamVars, wire, consoleVars, faults>>

(* The rows of a reply are written without an await between them.          *)
WriteRows(b) ==
  /\ sse[b].pc = "reply"
  /\ wire' = [wire EXCEPT ![b] = @ \o sse[b].page]
  /\ Goes(b, [pc |-> "xread", cursor |-> Last(sse[b].page)])
  /\ UNCHANGED <<streamVars, consoleVars, faults>>

(* XREAD fails, its reply lost: stream-error is written, which carries no  *)
(* id, and the loop waits half a second ...                                *)
ReadFails(b) ==
  /\ faults > 0
  /\ sse[b].pc \in {"xread", "blocked", "reply"}
  /\ Goes(b, [pc |-> "pause", cursor |-> sse[b].cursor])
  /\ faults' = faults - 1
  /\ UNCHANGED <<streamVars, wire, consoleVars>>

(* ... and goes on with the same cursor.                                   *)
Resume(b) ==
  /\ sse[b].pc = "pause"
  /\ Goes(b, [pc |-> "xread", cursor |-> sse[b].cursor])
  /\ UNCHANGED <<streamVars, wire, consoleVars, faults>>

(* The connection breaks: both ends forget what was under way.             *)
Disconnect(b) ==
  /\ faults > 0
  /\ sse[b].pc \notin {"down", "closed"}
  /\ Goes(b, Down)
  /\ wire' = [wire EXCEPT ![b] = <<>>]
  /\ faults' = faults - 1
  /\ UNCHANGED <<streamVars, consoleVars>>

-----------------------------------------------------------------------------
(* useLab.                                                                 *)

(* list.filter(e => e.id !== id), written as a recursive function because  *)
(* nothing can be proved of SelectSeq.                                     *)
Others(id, list) ==
  LET kept[i \in 0 .. Len(list)] ==
        IF i = 0 THEN <<>>
        ELSE IF list[i] = id THEN kept[i - 1]
        ELSE Append(kept[i - 1], list[i])
  IN kept[Len(list)]

PrependAll(id, list) == <<id>> \o list   \* mutant of Prepend: no slice, no filter

PrependLast(id, list) ==   \* mutant of Prepend: at the wrong end
  LET all == Others(id, list) \o <<id>>
  IN SubSeq(all, 1, Least(Keep, Len(all)))

Prepend(id, list) ==
  LET all == <<id>> \o Others(id, list)
  IN SubSeq(all, 1, Least(Keep, Len(all)))

(* The listener of cache-event.                                            *)
Receive(b) ==
  /\ wire[b] # <<>>
  /\ LET id == Head(wire[b]) IN
       /\ got' = [got EXCEPT ![b] = @ \cup {id}]
       /\ lastId' = [lastId EXCEPT ![b] = id]
       /\ shown' = [shown EXCEPT ![b] = Prepend(id, @)]
  /\ wire' = [wire EXCEPT ![b] = Tail(@)]
  /\ UNCHANGED <<streamVars, sse, recent, overwritten, faults>>

(* EventBus.recent answers ...                                             *)
AnswerRecent(b) ==
  /\ recent[b] = <<"asked">>
  /\ recent' = [recent EXCEPT ![b] = <<"reply", Newest>>]
  /\ UNCHANGED <<streamVars, serverVars, got, lastId, shown, overwritten, faults>>

(* ... and its answer becomes the display, whatever the display shows ...  *)
ShowRecent(b) ==
  /\ recent[b][1] = "reply"
  /\ shown' = [shown EXCEPT ![b] = recent[b][2]]
  /\ overwritten' = [overwritten EXCEPT
                       ![b] = ~(ToSet(shown[b]) \subseteq ToSet(recent[b][2]))]
  /\ recent' = [recent EXCEPT ![b] = <<"done">>]
  /\ UNCHANGED <<streamVars, serverVars, got, lastId, faults>>

(* ... or it fails, which is ignored.                                      *)
RecentFails(b) ==
  /\ faults > 0
  /\ recent[b] # <<"done">>
  /\ recent' = [recent EXCEPT ![b] = <<"done">>]
  /\ faults' = faults - 1
  /\ UNCHANGED <<streamVars, serverVars, got, lastId, shown, overwritten>>

-----------------------------------------------------------------------------
Serve(b) == Connect(b) \/ XRead(b) \/ WriteRows(b) \/ Resume(b)
Display(b) == AnswerRecent(b) \/ ShowRecent(b)

Next ==
  \/ Emit \/ Reset
  \/ \E b \in Browser :
       \/ Serve(b) \/ Heartbeat(b) \/ Receive(b) \/ Display(b)
       \/ Refused(b) \/ ReadFails(b) \/ Disconnect(b) \/ RecentFails(b)

Spec == Init /\ [][Next]_vars

FairSpec ==
  /\ Spec
  /\ \A b \in Browser : /\ WF_vars(Serve(b))
                        /\ WF_vars(Receive(b))
                        /\ WF_vars(Display(b))

-----------------------------------------------------------------------------
(* What is on its way to a browser is newer than all it has, each event    *)
(* once and in the order of emission, across errors and reconnections: the *)
(* cursor is advanced before the write and taken from Last-Event-ID.       *)
Underway(b) ==
  wire[b] \o (IF sse[b].pc = "reply" THEN sse[b].page ELSE <<>>)

DeliveredOnceInOrder ==
  \A b \in Browser :
    LET line == <<lastId[b]>> \o Underway(b) IN
    \A i, j \in DOMAIN line : i < j => line[i] < line[j]

(* From the first event a browser receives, it misses none that was not    *)
(* trimmed, whatever breaks in between.                                    *)
Missed(b, from) == (from .. lastId[b]) \ (got[b] \cup 1 .. trimmed)

NoGapOnceFollowing ==
  \A b \in Browser : \A first \in got[b] : Missed(b, first) = {}

(* Following(b): the browser has received something and still reconnects.  *)
Following(b) == got[b] # {} /\ sse[b].pc # "closed"

(* Once the emitting stops, such a browser has everything the stream holds *)
(* beyond what it had.                                                     *)
StreamCatchesUp ==
  \A b \in Browser :
    <>[](Following(b) => lastId[b] >= appended \/ trimmed = appended)

(* And nothing older than the last event it received is on top of the      *)
(* display, unless the recent reply lacked an event shown before it came.  *)
DisplayCatchesUp ==
  \A b \in Browser :
    <>[](Following(b) /\ ~overwritten[b] => shown[b][1] >= lastId[b])
=============================================================================
