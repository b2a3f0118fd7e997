--------------------------- MODULE CircuitBreaker ---------------------------
(***************************************************************************)
(* The circuit breaker of one API replica (circuit-breaker.ts) under       *)
(* overlapping calls.                                                      *)
(*                                                                         *)
(* execute reads the clock before its operation and touches the counter    *)
(* after it, and between the two any number of other calls begin and end:  *)
(* a success that started before an outage resets the count, a failure     *)
(* that ends after the opening counts for the next one and may even open   *)
(* the breaker again while it is open.  ReadPath takes each guarded        *)
(* command as one step; here a call has a beginning and an end.            *)
(*                                                                         *)
(* Time is counted in ticks.  An operation is a few Redis commands of at   *)
(* most commandTimeout each (redis.ts), so it settles within Timeout.      *)
(***************************************************************************)
EXTENDS Integers

CONSTANTS Call,       \* calls of execute that may overlap
          Threshold,  \* failures that open the breaker
          Reset,      \* resetAfterMs, in ticks
          Timeout     \* the longest an operation takes, in ticks

ASSUME BreakerAssumption ==
  /\ Threshold \in Nat \ {0}
  /\ Reset \in Nat \ {0}
  /\ Timeout \in Nat \ {0}

VARIABLES
  failures,   \* CircuitBreaker.failures
  openFor,    \* openUntil - Date.now(), 0 once that is past
  reachable,  \* Redis answers
  call,       \* what each call is doing
  openSpan    \* history: ticks since the breaker was last closed

vars == <<failures, openFor, reachable, call, openSpan>>

-----------------------------------------------------------------------------
(* The history saturates here. *)
TooLong == Reset + Timeout

Idle == [left |-> -1, saw |-> {}]

(* left: ticks until the operation has timed out; saw: the values reachable *)
(* has had since the operation began.                                       *)
Running == [left : 0 .. Timeout, saw : SUBSET BOOLEAN]

TypeOK ==
  /\ failures \in 0 .. Threshold - 1
  /\ openFor \in 0 .. Reset
  /\ reachable \in BOOLEAN
  /\ call \in [Call -> Running \cup {Idle}]
  /\ openSpan \in 0 .. TooLong

Init ==
  /\ failures = 0
  /\ openFor = 0
  /\ reachable = TRUE
  /\ call = [c \in Call |-> Idle]
  /\ openSpan = 0

-----------------------------------------------------------------------------
AlwaysClosed == TRUE   \* mutant of Closed: execute does not look

(* ~isOpen: Date.now() < this.openUntil *)
Closed == openFor = 0

BeginAfresh(c) ==   \* mutant of Begin: every call starts the count anew
  /\ call[c] = Idle
  /\ Closed
  /\ call' = [call EXCEPT ![c] = [left |-> Timeout, saw |-> {reachable}]]
  /\ failures' = 0
  /\ UNCHANGED <<openFor, reachable, openSpan>>

Begin(c) ==
  /\ call[c] = Idle
  /\ Closed
  /\ call' = [call EXCEPT ![c] = [left |-> Timeout, saw |-> {reachable}]]
  /\ UNCHANGED <<failures, openFor, reachable, openSpan>>

(* Mutant of CountFailure: the count is not reset when the breaker opens.  *)
CountOn ==
  /\ failures' = failures + 1
  /\ openFor' = IF failures + 1 >= Threshold THEN Reset ELSE openFor

(* What a failure does to the counter and to openUntil. *)
CountFailure ==
  IF failures + 1 >= Threshold
  THEN failures' = 0 /\ openFor' = Reset
  ELSE failures' = failures + 1 /\ UNCHANGED openFor

(* Mutant of Refuse: the guard throws inside the try. *)
RefuseCounted(c) ==
  /\ call[c] = Idle
  /\ ~Closed
  /\ CountFailure
  /\ UNCHANGED <<reachable, call, openSpan>>

(* The guard throws before the try, so a refused call counts as nothing.   *)
Refuse(c) ==
  /\ call[c] = Idle
  /\ ~Closed
  /\ UNCHANGED vars

(* An operation can succeed if Redis has been reachable during it ...      *)
Succeed(c) ==
  /\ TRUE \in call[c].saw
  /\ failures' = 0
  /\ call' = [call EXCEPT ![c] = Idle]
  /\ UNCHANGED <<openFor, reachable, openSpan>>

(* ... and fail if it has been unreachable.                                *)
Fail(c) ==
  /\ FALSE \in call[c].saw
  /\ CountFailure
  /\ call' = [call EXCEPT ![c] = Idle]
  /\ UNCHANGED <<reachable, openSpan>>

(* One tick, which no operation outlives. *)
Tick ==
  /\ \A c \in Call : call[c].left # 0
  /\ openFor' = IF openFor = 0 THEN 0 ELSE openFor - 1
  /\ openSpan' = IF openFor' = 0 THEN 0
                 ELSE IF openSpan < TooLong THEN openSpan + 1 ELSE TooLong
  /\ call' = [c \in Call |->
                IF call[c] = Idle THEN Idle
                ELSE [call[c] EXCEPT !.left = @ - 1]]
  /\ UNCHANGED <<failures, reachable>>

(* The redis-outage toxic is added or removed, or Redis itself goes and    *)
(* comes back.                                                             *)
Reach(up) ==
  /\ reachable # up
  /\ reachable' = up
  /\ call' = [c \in Call |->
                IF call[c] = Idle THEN Idle
                ELSE [call[c] EXCEPT !.saw = @ \cup {up}]]
  /\ UNCHANGED <<failures, openFor, openSpan>>

-----------------------------------------------------------------------------
Settle(c) == Succeed(c) \/ Fail(c)

Next ==
  \/ \E c \in Call : Begin(c) \/ Refuse(c) \/ Settle(c)
  \/ \E up \in BOOLEAN : Reach(up)
  \/ Tick

Spec == Init /\ [][Next]_vars

(* Time passes and every operation settles.  Calls and outages are not     *)
(* promised.                                                               *)
Fairness == WF_vars(Tick) /\ \A c \in Call : WF_vars(Settle(c))

FairSpec == Spec /\ Fairness

-----------------------------------------------------------------------------
(* Failures that come in while the breaker is open may open it anew, but   *)
(* only those of operations admitted before: one period is shorter than    *)
(* resetAfterMs and one operation together, so that even in an outage that *)
(* lasts Redis is tried again, and no replica is cut off for good.         *)
OpenPeriodBounded == openSpan < TooLong

(* Once Redis stays reachable the breaker closes and stays closed,         *)
(* whatever failures of the outage still come in.                          *)
ClosesAfterOutage == <>[]reachable => <>[]Closed

(* In an outage that lasts, clients that keep calling open the breaker     *)
(* again and again: answers of before the outage reset the count only so   *)
(* often.                                                                  *)
Called == \E c \in Call : call[c] # Idle

OpensInLastingOutage == <>[]~reachable /\ []<>Called => []<>~Closed
=============================================================================
