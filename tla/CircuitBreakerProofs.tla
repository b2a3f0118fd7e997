------------------------- MODULE CircuitBreakerProofs -------------------------
(***************************************************************************)
(* Proofs of TypeOK and OpenPeriodBounded of CircuitBreaker, for every set *)
(* of calls and every threshold, reset and timeout.                        *)
(***************************************************************************)
EXTENDS CircuitBreaker, TLAPS

(* An operation that is running while the breaker is open was admitted     *)
(* before it opened, so that much of its time is gone; and only such an    *)
(* operation can open the breaker anew.                                    *)
AdmittedBefore ==
  openFor > 0 => \A c \in Call : call[c] # Idle => call[c].left + openSpan <= Timeout

SpanCounts ==
  /\ openFor = 0 => openSpan = 0
  /\ openFor + openSpan <= TooLong

BreakerInv == TypeOK /\ AdmittedBefore /\ SpanCounts

(* A running call is a record of its own kind. *)
LEMMA RunningIsNotIdle ==
  ASSUME NEW r \in Running
  PROVE  r # Idle /\ r.left \in 0 .. Timeout /\ r.saw \in SUBSET BOOLEAN
  BY BreakerAssumption DEF Running, Idle

LEMMA IdleIsAlone == Idle \notin Running
  BY RunningIsNotIdle

LEMMA SetCall ==
  ASSUME TypeOK, NEW c \in Call, NEW r \in Running \cup {Idle}
  PROVE  [call EXCEPT ![c] = r] \in [Call -> Running \cup {Idle}]
  BY DEF TypeOK

LEMMA SomeCallIsRunning ==
  ASSUME TypeOK, NEW c \in Call, NEW up \in BOOLEAN, up \in call[c].saw
  PROVE  call[c] \in Running
  BY DEF TypeOK, Idle

LEMMA InitHolds == Init => BreakerInv
  BY BreakerAssumption
     DEF Init, BreakerInv, TypeOK, AdmittedBefore, SpanCounts, TooLong

(* What a failure makes of the counter and the period. *)
LEMMA FailureCounted ==
  ASSUME TypeOK, CountFailure
  PROVE  /\ failures' \in 0 .. Threshold - 1
         /\ openFor' \in {openFor, Reset}
         /\ openFor' \in 0 .. Reset
  BY BreakerAssumption DEF TypeOK, CountFailure

LEMMA BeginHolds ==
  ASSUME BreakerInv, NEW c \in Call, Begin(c)
  PROVE  BreakerInv'
<1> DEFINE r == [left |-> Timeout, saw |-> {reachable}]
<1>1. r \in Running
  BY BreakerAssumption DEF BreakerInv, TypeOK, Running
<1>2. TypeOK'
  BY <1>1, SetCall DEF Begin, BreakerInv, TypeOK
<1>3. AdmittedBefore' /\ SpanCounts'
  BY DEF Begin, Closed, BreakerInv, TypeOK, AdmittedBefore, SpanCounts, TooLong
<1> QED
  BY <1>2, <1>3 DEF BreakerInv

LEMMA SucceedHolds ==
  ASSUME BreakerInv, NEW c \in Call, Succeed(c)
  PROVE  BreakerInv'
<1>1. TypeOK'
  BY BreakerAssumption, SetCall DEF Succeed, BreakerInv, TypeOK
<1>2. \A d \in Call : call'[d] # Idle => call'[d] = call[d]
  BY DEF Succeed, BreakerInv, TypeOK
<1>3. AdmittedBefore' /\ SpanCounts'
  BY <1>2 DEF Succeed, BreakerInv, AdmittedBefore, SpanCounts, TooLong
<1> QED
  BY <1>1, <1>3 DEF BreakerInv

LEMMA FailHolds ==
  ASSUME BreakerInv, NEW c \in Call, Fail(c)
  PROVE  BreakerInv'
<1>1. TypeOK'
  BY FailureCounted, SetCall DEF Fail, BreakerInv, TypeOK
<1>2. \A d \in Call : call'[d] # Idle => call'[d] = call[d]
  BY DEF Fail, BreakerInv, TypeOK
<1>3. call[c] # Idle /\ call[c].left \in 0 .. Timeout
  BY SomeCallIsRunning, RunningIsNotIdle DEF Fail, BreakerInv
<1>4. openSpan <= Timeout
  BY <1>3, BreakerAssumption
     DEF BreakerInv, TypeOK, AdmittedBefore, SpanCounts
<1>5. openFor' \in {openFor, Reset} /\ openFor' \in 0 .. Reset
  BY FailureCounted DEF Fail, BreakerInv
<1>6. openSpan' = openSpan
  BY DEF Fail
<1>7. AdmittedBefore'
  <2>1. CASE openFor = 0
    <3>1. openSpan = 0
      BY <2>1 DEF BreakerInv, SpanCounts
    <3>2. \A d \in Call : call[d] # Idle => call[d].left \in 0 .. Timeout
      BY RunningIsNotIdle DEF BreakerInv, TypeOK
    <3> QED
      BY <3>1, <3>2, <1>2, <1>6, BreakerAssumption DEF AdmittedBefore
  <2>2. CASE openFor # 0
    BY <2>2, <1>2, <1>6 DEF BreakerInv, TypeOK, AdmittedBefore
  <2> QED
    BY <2>1, <2>2
<1>8. SpanCounts'
  <2>1. /\ openFor \in Nat /\ openSpan \in Nat
        /\ openFor = 0 => openSpan = 0
        /\ openFor + openSpan <= Reset + Timeout
    BY BreakerAssumption DEF BreakerInv, TypeOK, SpanCounts, TooLong
  <2>2. openFor' + openSpan <= Reset + Timeout
    <3>1. CASE openFor' = openFor
      BY <3>1, <2>1
    <3>2. CASE openFor' = Reset
      BY <3>2, <2>1, <1>4, BreakerAssumption
    <3> QED
      BY <3>1, <3>2, <1>5
  <2>3. openFor' = 0 => openSpan = 0
    BY <2>1, <1>5, BreakerAssumption
  <2> QED
    BY <2>2, <2>3, <1>6 DEF SpanCounts, TooLong
<1> QED
  BY <1>1, <1>7, <1>8 DEF BreakerInv

(* A tick takes the same from what is left of a call as it adds to the     *)
(* period.                                                                 *)
LEMMA TickHolds ==
  ASSUME BreakerInv, Tick
  PROVE  BreakerInv'
<1>1. ASSUME NEW c \in Call, call[c] # Idle
      PROVE  /\ call'[c] \in Running
             /\ call'[c].left = call[c].left - 1
  <2>1. call[c] \in Running /\ call[c].left \in 1 .. Timeout
    BY <1>1, RunningIsNotIdle DEF Tick, BreakerInv, TypeOK
  <2>2. call'[c] = [call[c] EXCEPT !.left = @ - 1]
    BY <1>1 DEF Tick
  <2> QED
    BY <2>1, <2>2, BreakerAssumption DEF Running
<1>2. \A c \in Call : call[c] = Idle => call'[c] = Idle
  BY DEF Tick
<1>3. call' \in [Call -> Running \cup {Idle}]
  BY <1>1, <1>2 DEF Tick
<1>4. /\ openFor' \in 0 .. Reset
      /\ openFor = 0 => openFor' = 0
      /\ openFor # 0 => openFor' = openFor - 1
  BY BreakerAssumption DEF Tick, BreakerInv, TypeOK
<1>5. /\ openFor' = 0 => openSpan' = 0
      /\ openFor' # 0 => openSpan' = openSpan + 1
      /\ openSpan' \in 0 .. TooLong
      /\ SpanCounts'
  BY <1>4, BreakerAssumption
     DEF Tick, BreakerInv, TypeOK, SpanCounts, TooLong
<1>6. AdmittedBefore'
  <2> SUFFICES ASSUME openFor' > 0, NEW c \in Call, call'[c] # Idle
               PROVE  call'[c].left + openSpan' <= Timeout
    BY DEF AdmittedBefore
  <2>1. call[c] # Idle /\ openFor # 0
    BY <1>2, <1>4
  <2>2. call[c].left + openSpan <= Timeout /\ call[c].left \in 0 .. Timeout
    BY <2>1, RunningIsNotIdle DEF BreakerInv, TypeOK, AdmittedBefore
  <2> QED
    BY <2>1, <2>2, <1>1, <1>4, <1>5, BreakerAssumption
       DEF BreakerInv, TypeOK, TooLong
<1>7. TypeOK'
  BY <1>3, <1>4, <1>5 DEF Tick, BreakerInv, TypeOK
<1> QED
  BY <1>5, <1>6, <1>7 DEF BreakerInv

LEMMA ReachHolds ==
  ASSUME BreakerInv, NEW up \in BOOLEAN, Reach(up)
  PROVE  BreakerInv'
<1>1. ASSUME NEW c \in Call, call[c] # Idle
      PROVE  call'[c] \in Running /\ call'[c].left = call[c].left
  <2>1. call[c] \in Running
    BY <1>1 DEF BreakerInv, TypeOK
  <2>2. call'[c] = [call[c] EXCEPT !.saw = @ \cup {up}]
    BY <1>1 DEF Reach
  <2> QED
    BY <2>1, <2>2 DEF Running
<1>2. \A c \in Call : call[c] = Idle => call'[c] = Idle
  BY DEF Reach
<1>3. TypeOK'
  BY <1>1, <1>2 DEF Reach, BreakerInv, TypeOK
<1>4. AdmittedBefore' /\ SpanCounts'
  BY <1>1, <1>2 DEF Reach, BreakerInv, AdmittedBefore, SpanCounts, TooLong
<1> QED
  BY <1>3, <1>4 DEF BreakerInv

LEMMA NextHolds == BreakerInv /\ [Next]_vars => BreakerInv'
<1> SUFFICES ASSUME BreakerInv, [Next]_vars
             PROVE  BreakerInv'
  OBVIOUS
<1>1. ASSUME NEW c \in Call, Begin(c)
      PROVE  BreakerInv'
  BY <1>1, BeginHolds
<1>2. ASSUME NEW c \in Call, Settle(c)
      PROVE  BreakerInv'
  BY <1>2, SucceedHolds, FailHolds DEF Settle
<1>3. ASSUME NEW up \in BOOLEAN, Reach(up)
      PROVE  BreakerInv'
  BY <1>3, ReachHolds
<1>4. CASE Tick
  BY <1>4, TickHolds
<1>5. CASE UNCHANGED vars
  BY <1>5 DEF vars, BreakerInv, TypeOK, AdmittedBefore, SpanCounts, TooLong
<1>6. ASSUME NEW c \in Call, Refuse(c)
      PROVE  UNCHANGED vars
  BY <1>6 DEF Refuse
<1> QED
  BY <1>1, <1>2, <1>3, <1>4, <1>5, <1>6 DEF Next

(* The inductive invariant: while the breaker is open every running call   *)
(* is one it had let pass before.                                          *)
THEOREM Inductive == Spec => []BreakerInv
  BY InitHolds, NextHolds, PTL DEF Spec

(* Every reachable state has the types of TypeOK: in particular the count  *)
(* never reaches the threshold and stays there.                            *)
THEOREM TypeCorrect == Spec => []TypeOK
<1>1. BreakerInv => TypeOK
  BY DEF BreakerInv
<1> QED
  BY <1>1, Inductive, PTL

(* Failures of calls that overlap never keep the breaker open longer than  *)
(* resetAfterMs and one operation together.                                *)
THEOREM PeriodIsBounded == Spec => []OpenPeriodBounded
<1>1. BreakerInv => OpenPeriodBounded
  BY BreakerAssumption
     DEF BreakerInv, TypeOK, SpanCounts, OpenPeriodBounded, TooLong
<1> QED
  BY <1>1, Inductive, PTL
=============================================================================
