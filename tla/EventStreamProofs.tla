--------------------------- MODULE EventStreamProofs ---------------------------
(***************************************************************************)
(* Proofs about the delivery of EventStream, for every number of browsers, *)
(* events, faults and resets and every length of stream, page and display: *)
(* a browser gets each event once and in order, and misses none once it    *)
(* has received one.  The types of the display come last.                  *)
(*                                                                         *)
(* The invariant is about one browser at a time and speaks of values, so   *)
(* that a lemma says what becomes of it when the stream grows or is        *)
(* trimmed, when rows are written and when one is received.                *)
(***************************************************************************)
EXTENDS EventStream, NumberLemmas, SequenceTheorems, TLAPS

(* y is delivered right after x when nothing between them is still in the  *)
(* stream: t is how far it is trimmed.                                     *)
NextTo(x, y, t) == x < y /\ (y = x + 1 \/ y <= t + 1)

(* The events w on the wire of a browser whose latest is last, of n.       *)
WireInv(w, last, t, n) ==
  /\ w \in Seq(1 .. n)
  /\ \A i, j \in 1 .. Len(w) : i < j => w[i] < w[j]
  /\ \A i \in 1 .. Len(w) : last < w[i]
  /\ \A i \in 1 .. Len(w) - 1 : NextTo(w[i], w[i + 1], t)
  /\ Len(w) > 0 /\ last > 0 => NextTo(last, w[1], t)

(* Where the wire ends, and with it the server's cursor. *)
EndOf(w, last) == IF Len(w) = 0 THEN last ELSE w[Len(w)]

Off(s) == s.pc \in {"down", "closed"}

CursorInv(s, w, last, n) ==
  IF Off(s) THEN Len(w) = 0
  ELSE IF s.cursor = Latest THEN Len(w) = 0 /\ last = 0
  ELSE s.cursor \in 1 .. n /\ s.cursor = EndOf(w, last)

(* A page is a piece of the stream and continues the cursor. *)
PageInv(p, cursor, t, n) ==
  /\ p \in Seq(1 .. n) /\ Len(p) > 0
  /\ \A i \in 1 .. Len(p) : p[i] = p[1] + i - 1
  /\ cursor # Latest => NextTo(cursor, p[1], t)

(* A blocked XREAD waits because nothing lies beyond its cursor. *)
ReadInv(s, t, n) ==
  /\ s.pc = "reply" => PageInv(s.page, s.cursor, t, n)
  /\ s.pc = "blocked" /\ s.cursor # Latest => s.cursor = n \/ t = n

(* What the browser has received, up to last. *)
GotInv(g, last, t, n) ==
  /\ last \in 0 .. n
  /\ g # {} => last > 0
  /\ g \subseteq 1 .. n
  /\ \A f \in g : \A x \in f .. last : x \in g \/ x <= t

BrowserInv(b) ==
  /\ WireInv(wire[b], lastId[b], trimmed, appended)
  /\ CursorInv(sse[b], wire[b], lastId[b], appended)
  /\ ReadInv(sse[b], trimmed, appended)
  /\ GotInv(got[b], lastId[b], trimmed, appended)

FeedTypeOK ==
  /\ appended \in 0 .. MaxEvents /\ trimmed \in 0 .. appended
  /\ sse \in [Browser -> Connection \cup {Down, Closed}]
  /\ DOMAIN wire = Browser /\ DOMAIN got = Browser /\ DOMAIN lastId = Browser

FeedInv == FeedTypeOK /\ \A b \in Browser : BrowserInv(b)

-----------------------------------------------------------------------------
LEMMA StreamGrows ==
  ASSUME NEW t \in Nat, NEW n \in Nat, NEW u \in Nat, NEW m \in Nat,
         t <= u, n <= m
  PROVE  /\ \A x, y \in Int : NextTo(x, y, t) => NextTo(x, y, u)
         /\ \A s \in Seq(1 .. n) : s \in Seq(1 .. m)
<1>1. \A x, y \in Int : NextTo(x, y, t) => NextTo(x, y, u)
  BY DEF NextTo
<1>2. 1 .. n \subseteq 1 .. m
  OBVIOUS
<1> QED
  BY <1>1, <1>2, SeqMonotonic

LEMMA WireLasts ==
  ASSUME NEW t \in Nat, NEW n \in Nat, NEW u \in Nat, NEW m \in Nat,
         t <= u, n <= m, NEW w, NEW last \in Nat, WireInv(w, last, t, n)
  PROVE  WireInv(w, last, u, m)
<1>1. w \in Seq(1 .. n) /\ w \in Seq(1 .. m)
  BY StreamGrows DEF WireInv
<1>2. \A i \in 1 .. Len(w) : w[i] \in Int
  BY <1>1
<1>3. \A i \in 1 .. Len(w) - 1 : NextTo(w[i], w[i + 1], u)
  <2>1. SUFFICES ASSUME NEW i \in 1 .. Len(w) - 1
                 PROVE  NextTo(w[i], w[i + 1], u)
    OBVIOUS
  <2>2. i \in 1 .. Len(w) /\ i + 1 \in 1 .. Len(w)
    BY <1>1
  <2> QED
    BY <1>2, <2>2, StreamGrows DEF WireInv
<1>4. Len(w) > 0 /\ last > 0 => NextTo(last, w[1], u)
  <2>1. SUFFICES ASSUME Len(w) > 0, last > 0
                 PROVE  NextTo(last, w[1], u)
    OBVIOUS
  <2>2. 1 \in 1 .. Len(w) /\ last \in Int
    BY <1>1, <2>1
  <2>3. w[1] \in Int /\ NextTo(last, w[1], t)
    BY <1>2, <2>1, <2>2 DEF WireInv
  <2> QED
    BY <2>2, <2>3, StreamGrows
<1> QED
  BY <1>1, <1>3, <1>4 DEF WireInv

LEMMA PageLasts ==
  ASSUME NEW t \in Nat, NEW n \in Nat, NEW u \in Nat, NEW m \in Nat,
         t <= u, n <= m, NEW p, NEW cursor \in Int, PageInv(p, cursor, t, n)
  PROVE  PageInv(p, cursor, u, m)
<1>1. p \in Seq(1 .. n) /\ p \in Seq(1 .. m) /\ Len(p) > 0
  BY StreamGrows DEF PageInv
<1>2. p[1] \in Int
  BY <1>1
<1> QED
  BY <1>1, <1>2, StreamGrows DEF PageInv

LEMMA GotLasts ==
  ASSUME NEW t \in Nat, NEW n \in Nat, NEW u \in Nat, NEW m \in Nat,
         t <= u, n <= m, NEW g, NEW last, GotInv(g, last, t, n)
  PROVE  GotInv(g, last, u, m)
  BY DEF GotInv

(* The rows of a page go on where the wire ends. *)
LEMMA RowsWritten ==
  ASSUME NEW t \in Nat, NEW n \in Nat, NEW last \in Nat,
         NEW w, WireInv(w, last, t, n),
         NEW p, NEW cursor \in Int, PageInv(p, cursor, t, n),
         IF cursor = Latest THEN Len(w) = 0 /\ last = 0
         ELSE cursor = EndOf(w, last)
  PROVE  /\ WireInv(w \o p, last, t, n)
         /\ Len(w \o p) > 0
         /\ p[Len(p)] \in 1 .. n
         /\ EndOf(w \o p, last) = p[Len(p)]
<1>0. w \in Seq(1 .. n) /\ p \in Seq(1 .. n)
  BY DEF WireInv, PageInv
<1>1. Len(p) \in Nat \ {0} /\ Len(w) \in Nat
  BY <1>0 DEF PageInv
<1> DEFINE v == w \o p
<1>20. v \in Seq(1 .. n) /\ Len(v) = Len(w) + Len(p)
  BY <1>0, ConcatProperties
<1>21. Len(v) = Len(w) + Len(p)
  BY <1>20
<1>2. /\ \A i \in 1 .. Len(w) : v[i] = w[i]
      /\ \A i \in 1 .. Len(p) : v[Len(w) + i] = p[i]
  <2>1. \A i \in 1 .. Len(w) + Len(p) :
          v[i] = IF i <= Len(w) THEN w[i] ELSE p[i - Len(w)]
    BY <1>0, ConcatProperties
  <2>2. ASSUME NEW i \in 1 .. Len(w)
        PROVE  i \in 1 .. Len(w) + Len(p) /\ i <= Len(w)
    BY <1>1
  <2>3. ASSUME NEW i \in 1 .. Len(p)
        PROVE  /\ Len(w) + i \in 1 .. Len(w) + Len(p) /\ ~(Len(w) + i <= Len(w))
               /\ (Len(w) + i) - Len(w) = i
    BY <1>1
  <2> HIDE DEF v
  <2> QED
    BY <2>1, <2>2, <2>3
<1> HIDE DEF v
<1>3. /\ \A i \in 1 .. Len(w) : w[i] \in Nat
      /\ \A i \in 1 .. Len(p) : p[i] \in 1 .. n /\ p[i] = p[1] + i - 1
      /\ p[1] \in 1 .. n
  <2>1. \A i \in 1 .. Len(w) : w[i] \in 1 .. n
    BY <1>0, ElementOfSeq
  <2>2. \A i \in 1 .. Len(p) : p[i] \in 1 .. n
    BY <1>0, ElementOfSeq
  <2>3. 1 \in 1 .. Len(p)
    BY <1>1
  <2> QED
    BY <2>1, <2>2, <2>3 DEF PageInv
<1>4. \A i \in 1 .. Len(v) : \/ i \in 1 .. Len(w) /\ v[i] = w[i]
                             \/ \E k \in 1 .. Len(p) : i = Len(w) + k /\ v[i] = p[k]
  <2>1. SUFFICES ASSUME NEW i \in 1 .. Len(v), i \notin 1 .. Len(w)
                 PROVE  \E k \in 1 .. Len(p) : i = Len(w) + k /\ v[i] = p[k]
    BY <1>2
  <2>2. i - Len(w) \in 1 .. Len(p) /\ i = Len(w) + (i - Len(w))
    BY <1>1, <1>21, <2>1
  <2> QED
    BY <1>2, <2>2
<1>5. /\ \A i \in 1 .. Len(w) : w[i] < p[1]
      /\ last < p[1]
      /\ Len(w) > 0 => NextTo(w[Len(w)], p[1], t)
      /\ Len(w) = 0 /\ last > 0 => NextTo(last, p[1], t)
  <2>1. CASE cursor = Latest
    <3>1. p[1] \in 1 .. n
      BY <1>1, <1>3
    <3> QED
      BY <2>1, <3>1
  <2>2. CASE cursor # Latest
    <3>1. cursor = EndOf(w, last) /\ NextTo(cursor, p[1], t)
      BY <2>2 DEF PageInv
    <3>2. CASE Len(w) = 0
      BY <3>1, <3>2 DEF EndOf, NextTo
    <3>3. CASE Len(w) # 0
      <4>1. cursor = w[Len(w)] /\ Len(w) \in 1 .. Len(w)
        BY <1>1, <3>1, <3>3 DEF EndOf
      <4>2. \A i \in 1 .. Len(w) : w[i] <= w[Len(w)]
        <5>1. SUFFICES ASSUME NEW i \in 1 .. Len(w)
                       PROVE  w[i] <= w[Len(w)]
          OBVIOUS
        <5>2. w[i] \in Nat /\ w[Len(w)] \in Nat
          BY <1>3, <4>1
        <5>3. CASE i = Len(w)
          BY <5>2, <5>3
        <5>4. CASE i < Len(w)
          <6>1. w[i] < w[Len(w)]
            BY <4>1, <5>4 DEF WireInv
          <6> QED
            BY <5>2, <6>1
        <5> QED
          BY <1>1, <5>3, <5>4
      <4>3. cursor < p[1]
        BY <3>1 DEF NextTo
      <4>4. last < w[Len(w)]
        BY <4>1 DEF WireInv
      <4> QED
        BY <1>3, <3>1, <3>3, <4>1, <4>2, <4>3, <4>4
    <3> QED
      BY <3>2, <3>3
  <2> QED
    BY <2>1, <2>2
<1>6. \A i, j \in 1 .. Len(v) : i < j => v[i] < v[j]
  <2>1. SUFFICES ASSUME NEW i \in 1 .. Len(v), NEW j \in 1 .. Len(v), i < j
                 PROVE  v[i] < v[j]
    OBVIOUS
  <2>2. CASE j \in 1 .. Len(w)
    <3>1. i \in 1 .. Len(w)
      BY <2>1, <2>2
    <3> QED
      BY <1>2, <2>1, <2>2, <3>1 DEF WireInv
  <2>3. CASE j \notin 1 .. Len(w)
    <3>1. PICK k \in 1 .. Len(p) : j = Len(w) + k /\ v[j] = p[k]
      BY <1>4, <2>3
    <3>2. CASE i \in 1 .. Len(w)
      <4>1. v[i] = w[i] /\ w[i] \in Nat /\ w[i] < p[1]
        BY <1>2, <1>3, <1>5, <3>2
      <4>2. p[k] = p[1] + k - 1 /\ p[1] \in Nat
        BY <1>3
      <4> QED
        BY <3>1, <4>1, <4>2
    <3>3. CASE i \notin 1 .. Len(w)
      <4>1. PICK l \in 1 .. Len(p) : i = Len(w) + l /\ v[i] = p[l]
        BY <1>4, <3>3
      <4>2. l < k
        BY <1>1, <2>1, <3>1, <4>1
      <4>3. p[l] = p[1] + l - 1 /\ p[k] = p[1] + k - 1 /\ p[1] \in Nat
        BY <1>3
      <4> QED
        BY <3>1, <4>1, <4>2, <4>3
    <3> QED
      BY <3>2, <3>3
  <2> QED
    BY <2>2, <2>3
<1>7. \A i \in 1 .. Len(v) : last < v[i]
  <2>1. SUFFICES ASSUME NEW i \in 1 .. Len(v)
                 PROVE  last < v[i]
    OBVIOUS
  <2>2. CASE i \in 1 .. Len(w)
    BY <1>2, <2>2 DEF WireInv
  <2>3. CASE i \notin 1 .. Len(w)
    <3>1. PICK k \in 1 .. Len(p) : i = Len(w) + k /\ v[i] = p[k]
      BY <1>4, <2>3
    <3>2. p[k] = p[1] + k - 1 /\ p[1] \in Nat
      BY <1>3
    <3> QED
      BY <1>5, <3>1, <3>2
  <2> QED
    BY <2>2, <2>3
<1>8. \A i \in 1 .. Len(v) - 1 : NextTo(v[i], v[i + 1], t)
  <2>1. SUFFICES ASSUME NEW i \in 1 .. Len(v) - 1
                 PROVE  NextTo(v[i], v[i + 1], t)
    OBVIOUS
  <2>2. CASE i + 1 \in 1 .. Len(w)
    <3>1. i \in 1 .. Len(w) - 1 /\ i \in 1 .. Len(w)
      BY <1>1, <2>2
    <3> QED
      BY <1>2, <2>2, <3>1 DEF WireInv
  <2>3. CASE i = Len(w)
    <3>1. v[i] = w[Len(w)] /\ v[i + 1] = p[1] /\ Len(w) > 0
      BY <1>1, <1>2, <2>3
    <3> QED
      BY <1>5, <3>1
  <2>4. CASE i > Len(w)
    <3>1. PICK k \in 1 .. Len(p) : i = Len(w) + k /\ v[i] = p[k]
      <4>1. i \in 1 .. Len(v) /\ i \notin 1 .. Len(w)
        BY <1>1, <1>21, <2>4
      <4> QED
        BY <1>4, <4>1
    <3>2. k + 1 \in 1 .. Len(p) /\ i + 1 = Len(w) + (k + 1)
      BY <1>1, <1>21, <2>1, <3>1
    <3>3. v[i + 1] = p[k + 1]
      BY <1>2, <3>2
    <3>4. /\ p[k] = p[1] + k - 1 /\ p[k + 1] = p[1] + (k + 1) - 1
          /\ p[1] \in Nat
      BY <1>3, <3>2
    <3>5. p[k + 1] = p[k] + 1 /\ p[k] < p[k + 1]
      BY <3>4
    <3> QED
      BY <3>1, <3>3, <3>5 DEF NextTo
  <2> QED
    BY <1>1, <2>2, <2>3, <2>4
<1>9. Len(v) > 0 /\ last > 0 => NextTo(last, v[1], t)
  <2>1. CASE Len(w) = 0
    <3>1. v[1] = p[1]
      BY <1>1, <1>2, <2>1
    <3> QED
      BY <1>5, <2>1, <3>1
  <2>2. CASE Len(w) # 0
    BY <1>1, <1>2, <2>2 DEF WireInv
  <2> QED
    BY <2>1, <2>2
<1>10. Len(v) > 0 /\ v[Len(v)] = p[Len(p)] /\ p[Len(p)] \in 1 .. n
  <2>1. Len(p) \in 1 .. Len(p)
    BY <1>1
  <2> QED
    BY <1>1, <1>21, <1>2, <1>3, <2>1
<1>11. WireInv(v, last, t, n)
  BY <1>20, <1>6, <1>7, <1>8, <1>9 DEF WireInv
<1> QED
  BY <1>10, <1>11 DEF v, EndOf

(* Receiving the first event on the wire. *)
LEMMA RowReceived ==
  ASSUME NEW t \in Nat, NEW n \in Nat, NEW last \in Nat,
         NEW w, w # <<>>, WireInv(w, last, t, n),
         NEW g, GotInv(g, last, t, n)
  PROVE  /\ WireInv(Tail(w), Head(w), t, n)
         /\ GotInv(g \cup {Head(w)}, Head(w), t, n)
         /\ EndOf(Tail(w), Head(w)) = EndOf(w, last)
         /\ Len(w) > 0
<1>1. w \in Seq(1 .. n) /\ Len(w) \in Nat \ {0} /\ Head(w) = w[1] /\ w[1] \in 1 .. n
  BY DEF WireInv
<1> DEFINE v == Tail(w)
<1>2. /\ v \in Seq(1 .. n) /\ Len(v) = Len(w) - 1
      /\ \A i \in 1 .. Len(v) : v[i] = w[i + 1] /\ i + 1 \in 1 .. Len(w)
  BY <1>1, HeadTailProperties
<1> HIDE DEF v
<1>3. \A i, j \in 1 .. Len(v) : i < j => v[i] < v[j]
  <2>1. SUFFICES ASSUME NEW i \in 1 .. Len(v), NEW j \in 1 .. Len(v), i < j
                 PROVE  v[i] < v[j]
    OBVIOUS
  <2>2. i + 1 < j + 1
    BY <2>1
  <2> QED
    BY <1>2, <2>2 DEF WireInv
<1>4. \A i \in 1 .. Len(v) : w[1] < v[i]
  <2>1. SUFFICES ASSUME NEW i \in 1 .. Len(v)
                 PROVE  w[1] < v[i]
    OBVIOUS
  <2>2. 1 \in 1 .. Len(w) /\ 1 < i + 1
    BY <1>1
  <2> QED
    BY <1>2, <2>2 DEF WireInv
<1>5. \A i \in 1 .. Len(v) - 1 : NextTo(v[i], v[i + 1], t)
  <2>1. SUFFICES ASSUME NEW i \in 1 .. Len(v) - 1
                 PROVE  NextTo(v[i], v[i + 1], t)
    OBVIOUS
  <2>2. i + 1 \in 1 .. Len(w) - 1 /\ i \in 1 .. Len(v) /\ i + 1 \in 1 .. Len(v)
    BY <1>1, <1>2
  <2>3. NextTo(w[i + 1], w[(i + 1) + 1], t)
    BY <2>2 DEF WireInv
  <2> QED
    BY <1>2, <2>2, <2>3
<1>6. Len(v) > 0 => NextTo(w[1], v[1], t)
  <2>1. SUFFICES ASSUME Len(v) > 0
                 PROVE  NextTo(w[1], v[1], t)
    OBVIOUS
  <2>2. 1 \in 1 .. Len(w) - 1 /\ 1 \in 1 .. Len(v)
    BY <1>1, <1>2, <2>1
  <2>3. NextTo(w[1], w[1 + 1], t)
    BY <2>2 DEF WireInv
  <2> QED
    BY <1>2, <2>2, <2>3
<1>7. WireInv(v, w[1], t, n)
  BY <1>2, <1>3, <1>4, <1>5, <1>6 DEF WireInv
<1>8. GotInv(g \cup {w[1]}, w[1], t, n)
  <2>1. \A f \in g \cup {w[1]} : \A x \in f .. w[1] : x \in g \cup {w[1]} \/ x <= t
    <3>1. SUFFICES ASSUME NEW f \in g \cup {w[1]}, NEW x \in f .. w[1], x # w[1]
                   PROVE  x \in g \/ x <= t
      OBVIOUS
    <3>2. f \in g /\ f \in Nat
      BY <1>1, <3>1 DEF GotInv
    <3>3. last > 0 /\ last \in Nat
      BY <3>2 DEF GotInv
    <3>4. CASE x <= last
      <4>1. x \in f .. last
        BY <3>1, <3>2, <3>3, <3>4
      <4> QED
        BY <3>2, <4>1 DEF GotInv
    <3>5. CASE x > last
      <4>1. NextTo(last, w[1], t)
        BY <1>1, <3>3 DEF WireInv
      <4> QED
        BY <1>1, <3>1, <3>2, <3>3, <3>5, <4>1 DEF NextTo
    <3>6. x \in Int
      BY <3>1
    <3> QED
      BY <3>3, <3>4, <3>5, <3>6
  <2>2. w[1] > 0 /\ w[1] \in 0 .. n /\ g \cup {w[1]} \subseteq 1 .. n
    <3>1. g \subseteq 1 .. n
      BY DEF GotInv
    <3>2. w[1] > 0 /\ w[1] \in 0 .. n
      BY <1>1
    <3> QED
      BY <1>1, <3>1, <3>2
  <2> QED
    BY <2>1, <2>2 DEF GotInv
<1>9. EndOf(v, w[1]) = EndOf(w, last)
  <2>1. CASE Len(v) = 0
    <3>1. Len(w) = 1
      BY <1>1, <1>2, <2>1
    <3> QED
      BY <2>1, <3>1 DEF EndOf
  <2>2. CASE Len(v) # 0
    <3>1. Len(v) \in 1 .. Len(v) /\ Len(v) + 1 = Len(w) /\ Len(w) # 0
      BY <1>1, <1>2, <2>2
    <3>2. v[Len(v)] = w[Len(w)]
      BY <1>2, <3>1
    <3> QED
      BY <2>2, <3>1, <3>2 DEF EndOf
  <2> QED
    BY <2>1, <2>2
<1> QED
  BY <1>1, <1>7, <1>8, <1>9 DEF v

-----------------------------------------------------------------------------
(* The pages XREAD and Emit make. *)
LEMMA PageOfStream ==
  ASSUME NEW after \in Nat, appended \in Nat, trimmed \in 0 .. appended,
         PageAfter(after) # <<>>
  PROVE  /\ PageInv(PageAfter(after), after, trimmed, appended)
         /\ PageInv(PageAfter(after), Latest, trimmed, appended)
<1> DEFINE from == Greatest(after, trimmed) + 1
           to == Least(from + Page - 1, appended)
           p == PageAfter(after)
<1>1. p = [i \in 1 .. to - from + 1 |-> from + i - 1]
  BY DEF PageAfter, Ids
<1>2. from \in Nat /\ to \in Int /\ to <= appended /\ from > after /\ from > trimmed
      /\ (from = after + 1 \/ from = trimmed + 1)
  BY EventStreamAssumption DEF Greatest, Least
<1> HIDE DEF from, to
<1> DEFINE m == to - from + 1
<1>3. m \in Nat \ {0}
  <2>1. CASE m <= 0
    <3>1. 1 .. m = {}
      BY <1>2, <2>1
    <3>2. p = [i \in {} |-> from + i - 1]
      BY <1>1, <3>1
    <3>3. p = <<>>
      BY <3>2
    <3> QED
      BY <3>3
  <2> QED
    BY <1>2, <2>1
<1>4. \A i \in 1 .. m : from + i - 1 \in 1 .. appended
  BY <1>2, <1>3
<1>5. p \in Seq(1 .. appended) /\ Len(p) = m /\ \A i \in 1 .. m : p[i] = from + i - 1
  <2>1. p = [i \in 1 .. m |-> from + i - 1]
    BY <1>1
  <2> HIDE DEF m, p
  <2>2. p \in [1 .. m -> 1 .. appended] /\ \A i \in 1 .. m : p[i] = from + i - 1
    BY <1>4, <2>1
  <2>3. p \in Seq(1 .. appended)
    BY <1>3, <2>2
  <2>4. DOMAIN p = 1 .. m
    BY <2>2
  <2>5. Len(p) = m
    BY <1>3, <2>3, <2>4
  <2> QED
    BY <2>2, <2>3, <2>5
<1> HIDE DEF m, p
<1>6. 1 \in 1 .. m /\ p[1] = from
  BY <1>2, <1>3, <1>5
<1>7. NextTo(after, p[1], trimmed)
  BY <1>2, <1>6 DEF NextTo
<1>8. /\ p \in Seq(1 .. appended) /\ Len(p) > 0
      /\ \A i \in 1 .. Len(p) : p[i] = p[1] + i - 1
  BY <1>3, <1>5, <1>6
<1>9. PageInv(p, after, trimmed, appended) /\ PageInv(p, Latest, trimmed, appended)
  BY <1>7, <1>8 DEF PageInv
<1> QED
  BY <1>9 DEF p

LEMMA PageOfOne ==
  ASSUME NEW n \in Nat, NEW t \in 0 .. n + 1, NEW cursor \in Int,
         cursor # Latest => cursor = n \/ (cursor <= n /\ t >= n)
  PROVE  PageInv(<<n + 1>>, cursor, t, n + 1)
<1>1. <<n + 1>> \in Seq(1 .. n + 1) /\ Len(<<n + 1>>) = 1 /\ <<n + 1>>[1] = n + 1
  OBVIOUS
<1>2. cursor # Latest => NextTo(cursor, n + 1, t)
  BY DEF NextTo
<1>3. \A i \in 1 .. 1 : n + 1 = n + 1 + i - 1 /\ i = 1
  OBVIOUS
<1> QED
  BY <1>1, <1>2, <1>3 DEF PageInv

(* What the place of a connection says of its record. *)
LEMMA ConnectionShape ==
  ASSUME NEW s \in Connection \cup {Down, Closed}
  PROVE  /\ s.pc \in {"down", "closed", "xread", "pause", "blocked", "reply"}
         /\ s.pc \notin {"down", "closed"} => s \in Connection /\ s.cursor \in Cursor
         /\ s.cursor \in Cursor => s.cursor \in Int
  BY EventStreamAssumption DEF Connection, Down, Closed, Cursor, Event, Latest

LEMMA NewConnectionShape ==
  ASSUME NEW pc \in {"xread", "pause"}, NEW cursor \in Cursor
  PROVE  /\ [pc |-> pc, cursor |-> cursor] \in Connection
         /\ [pc |-> pc, cursor |-> cursor].pc = pc
         /\ [pc |-> pc, cursor |-> cursor].cursor = cursor
  BY DEF Connection

-----------------------------------------------------------------------------
LEMMA InvParts ==
  ASSUME FeedInv, NEW b \in Browser
  PROVE  /\ BrowserInv(b)
         /\ appended \in Nat /\ trimmed \in Nat /\ trimmed <= appended
         /\ appended <= MaxEvents
         /\ lastId[b] \in Nat
         /\ sse[b] \in Connection \cup {Down, Closed}
  BY EventStreamAssumption DEF FeedInv, FeedTypeOK, BrowserInv, GotInv

(* A step that leaves the stream alone changes one browser.               *)
LEMMA OneBrowser ==
  ASSUME FeedInv, UNCHANGED <<appended, trimmed>>, NEW b \in Browser,
         \A c \in Browser \ {b} : /\ sse'[c] = sse[c] /\ wire'[c] = wire[c]
                                  /\ got'[c] = got[c] /\ lastId'[c] = lastId[c],
         sse' \in [Browser -> Connection \cup {Down, Closed}],
         DOMAIN wire' = Browser, DOMAIN got' = Browser, DOMAIN lastId' = Browser,
         BrowserInv(b)'
  PROVE  FeedInv'
<1>1. FeedTypeOK'
  BY DEF FeedInv, FeedTypeOK
<1>2. ASSUME NEW c \in Browser
      PROVE  BrowserInv(c)'
  <2>1. CASE c = b
    BY <2>1
  <2>2. CASE c # b
    BY <2>2 DEF FeedInv, BrowserInv
  <2> QED
    BY <2>1, <2>2
<1> QED
  BY <1>1, <1>2 DEF FeedInv

(* The connection of b changes and nothing else. *)
LEMMA ConnectionMoves ==
  ASSUME FeedInv, NEW b \in Browser, NEW s \in Connection \cup {Down, Closed},
         sse' = [sse EXCEPT ![b] = s],
         UNCHANGED <<appended, trimmed, wire, got, lastId>>,
         CursorInv(s, wire[b], lastId[b], appended),
         ReadInv(s, trimmed, appended)
  PROVE  FeedInv'
<1>1. sse'[b] = s /\ \A c \in Browser \ {b} : sse'[c] = sse[c]
  BY DEF FeedInv, FeedTypeOK
<1>2. BrowserInv(b)'
  BY <1>1 DEF FeedInv, BrowserInv
<1>3. sse' \in [Browser -> Connection \cup {Down, Closed}]
  BY DEF FeedInv, FeedTypeOK
<1> QED
  BY <1>1, <1>2, <1>3, OneBrowser DEF FeedInv, FeedTypeOK

-----------------------------------------------------------------------------
(* The stream grows or is trimmed. *)
LEMMA EmitKeepsFeed ==
  ASSUME FeedInv, Emit
  PROVE  FeedInv'
<1>1. /\ appended \in Nat /\ appended' = appended + 1 /\ appended' <= MaxEvents
      /\ trimmed \in Nat /\ trimmed' \in 0 .. appended + 1 /\ trimmed <= trimmed'
      /\ trimmed <= appended
  BY EventStreamAssumption DEF Emit, FeedInv, FeedTypeOK, Greatest
<1>2. UNCHANGED <<wire, got, lastId>>
  BY DEF Emit, consoleVars
<1>3. \A b \in Browser :
        sse'[b] = IF sse[b].pc = "blocked"
                  THEN [pc |-> "reply", cursor |-> sse[b].cursor,
                        page |-> <<appended + 1>>]
                  ELSE sse[b]
  BY DEF Emit, FeedInv, FeedTypeOK
<1>4. ASSUME NEW b \in Browser
      PROVE  BrowserInv(b)' /\ sse'[b] \in Connection \cup {Down, Closed}
  <2>1. /\ lastId[b] \in Nat /\ BrowserInv(b)
        /\ sse[b] \in Connection \cup {Down, Closed}
    BY InvParts
  <2>2. WireInv(wire[b], lastId[b], trimmed', appended')
    BY <1>1, <2>1, WireLasts DEF BrowserInv
  <2>3. GotInv(got[b], lastId[b], trimmed', appended')
    BY <1>1, <2>1, GotLasts DEF BrowserInv
  <2>4. CASE sse[b].pc = "blocked"
    <3> DEFINE s == [pc |-> "reply", cursor |-> sse[b].cursor,
                     page |-> <<appended + 1>>]
    <3>1. sse[b].cursor \in Cursor /\ sse[b].cursor \in Int
      BY <2>1, <2>4, ConnectionShape
    <3>2. /\ s.pc = "reply" /\ s.cursor = sse[b].cursor
          /\ s.page = <<appended + 1>>
      OBVIOUS
    <3>3. appended + 1 \in Event
      BY <1>1, EventStreamAssumption DEF Event
    <3>4. s \in Connection
      BY <3>1, <3>3 DEF Connection
    <3>5. sse'[b] = s
      BY <1>3, <2>4
    <3>6. IF sse[b].cursor = Latest THEN Len(wire[b]) = 0 /\ lastId[b] = 0
          ELSE sse[b].cursor \in 1 .. appended
               /\ sse[b].cursor = EndOf(wire[b], lastId[b])
      BY <2>1, <2>4 DEF BrowserInv, CursorInv, Off
    <3>7. sse[b].cursor # Latest =>
            sse[b].cursor = appended \/ (sse[b].cursor <= appended /\ trimmed' >= appended)
      BY <1>1, <2>1, <2>4, <3>6 DEF BrowserInv, ReadInv
    <3>8. PageInv(<<appended + 1>>, sse[b].cursor, trimmed', appended + 1)
      BY <1>1, <3>1, <3>7, PageOfOne
    <3> HIDE DEF s
    <3>9. CursorInv(s, wire[b], lastId[b], appended')
      BY <1>1, <3>2, <3>6 DEF CursorInv, Off
    <3>10. ReadInv(s, trimmed', appended')
      BY <1>1, <3>2, <3>8 DEF ReadInv
    <3> QED
      BY <1>2, <2>2, <2>3, <3>4, <3>5, <3>9, <3>10 DEF BrowserInv
  <2>5. CASE sse[b].pc # "blocked"
    <3>1. sse'[b] = sse[b]
      BY <1>3, <2>5
    <3>2. CursorInv(sse[b], wire[b], lastId[b], appended')
      BY <1>1, <2>1 DEF BrowserInv, CursorInv
    <3>3. ReadInv(sse[b], trimmed', appended')
      <4>1. CASE sse[b].pc = "reply"
        <5>1. sse[b].cursor \in Int
          BY <2>1, <4>1, ConnectionShape
        <5> QED
          BY <1>1, <2>1, <4>1, <5>1, PageLasts DEF BrowserInv, ReadInv
      <4>2. CASE sse[b].pc # "reply"
        BY <2>5, <4>2 DEF ReadInv
      <4> QED
        BY <4>1, <4>2
    <3> QED
      BY <1>2, <2>1, <2>2, <2>3, <3>1, <3>2, <3>3 DEF BrowserInv
  <2> QED
    BY <2>4, <2>5
<1>5. sse' \in [Browser -> Connection \cup {Down, Closed}]
  <2>1. sse' = [b \in Browser |-> sse'[b]]
    BY DEF Emit
  <2> QED
    BY <1>4, <2>1
<1>6. FeedTypeOK'
  BY <1>1, <1>2, <1>5, EventStreamAssumption DEF FeedInv, FeedTypeOK
<1> QED
  BY <1>4, <1>6 DEF FeedInv

LEMMA ResetKeepsFeed ==
  ASSUME FeedInv, Reset
  PROVE  FeedInv'
<1>1. /\ UNCHANGED <<appended, sse, wire, got, lastId>>
      /\ trimmed' = appended
      /\ appended \in Nat /\ trimmed \in Nat /\ trimmed <= appended
  BY EventStreamAssumption
     DEF Reset, serverVars, consoleVars, FeedInv, FeedTypeOK
<1>2. ASSUME NEW b \in Browser
      PROVE  BrowserInv(b)'
  <2>1. /\ lastId[b] \in Nat /\ BrowserInv(b)
        /\ sse[b] \in Connection \cup {Down, Closed}
    BY InvParts
  <2>2. appended <= appended
    BY <1>1
  <2>3. WireInv(wire[b], lastId[b], appended, appended)
    BY <1>1, <2>1, <2>2, WireLasts DEF BrowserInv
  <2>4. GotInv(got[b], lastId[b], appended, appended)
    BY <1>1, <2>1, <2>2, GotLasts DEF BrowserInv
  <2>5. ReadInv(sse[b], appended, appended)
    <3>1. CASE sse[b].pc = "reply"
      <4>1. sse[b].cursor \in Int
        BY <2>1, <3>1, ConnectionShape
      <4> QED
        BY <1>1, <2>1, <2>2, <3>1, <4>1, PageLasts DEF BrowserInv, ReadInv
    <3>2. CASE sse[b].pc # "reply"
      BY <3>2 DEF ReadInv
    <3> QED
      BY <3>1, <3>2
  <2> QED
    BY <1>1, <2>1, <2>3, <2>4, <2>5 DEF BrowserInv
<1>3. FeedTypeOK'
  BY <1>1 DEF FeedInv, FeedTypeOK
<1> QED
  BY <1>2, <1>3 DEF FeedInv

-----------------------------------------------------------------------------
(* The connection. *)
LEMMA ConnectKeepsFeed ==
  ASSUME FeedInv, NEW b \in Browser, Connect(b)
  PROVE  FeedInv'
<1> DEFINE s == [pc |-> "xread", cursor |-> StartAt(b)]
<1>1. /\ Off(sse[b]) /\ sse' = [sse EXCEPT ![b] = s]
      /\ UNCHANGED <<appended, trimmed, wire, got, lastId>>
  BY DEF Connect, Goes, Off, streamVars, consoleVars
<1>2. Len(wire[b]) = 0 /\ lastId[b] \in 0 .. appended /\ appended <= MaxEvents
      /\ appended \in Nat
  BY <1>1, InvParts DEF BrowserInv, CursorInv, GotInv
<1>3. StartAt(b) \in Cursor
  BY <1>2, EventStreamAssumption DEF StartAt, Cursor, Event
<1>4. s \in Connection /\ s.pc = "xread" /\ s.cursor = StartAt(b)
  BY <1>3, NewConnectionShape
<1> HIDE DEF s
<1>5. CursorInv(s, wire[b], lastId[b], appended)
  <2>1. CASE lastId[b] = 0
    BY <1>2, <1>4, <2>1 DEF CursorInv, Off, StartAt
  <2>2. CASE lastId[b] # 0
    <3>1. s.cursor = lastId[b] /\ ~Off(s)
      BY <1>4, <2>2 DEF StartAt, Off
    <3>2. lastId[b] \in 1 .. appended /\ lastId[b] # Latest
      BY <1>2, <2>2 DEF Latest
    <3>3. EndOf(wire[b], lastId[b]) = lastId[b]
      BY <1>2 DEF EndOf
    <3> QED
      BY <3>1, <3>2, <3>3 DEF CursorInv
  <2> QED
    BY <2>1, <2>2
<1>6. ReadInv(s, trimmed, appended)
  BY <1>4 DEF ReadInv
<1> QED
  BY <1>1, <1>4, <1>5, <1>6, ConnectionMoves

LEMMA XReadKeepsFeed ==
  ASSUME FeedInv, NEW b \in Browser, XRead(b)
  PROVE  FeedInv'
<1> DEFINE cursor == sse[b].cursor
           after == IF cursor = Latest THEN appended ELSE cursor
           page == PageAfter(after)
           s == IF page = <<>>
                THEN [pc |-> "blocked", cursor |-> cursor, after |-> after]
                ELSE [pc |-> "reply", cursor |-> cursor, page |-> page]
<1>1. /\ sse[b].pc = "xread" /\ sse' = [sse EXCEPT ![b] = s]
      /\ UNCHANGED <<appended, trimmed, wire, got, lastId>>
  BY DEF XRead, Goes, streamVars, consoleVars
<1>2. /\ appended \in Nat /\ appended <= MaxEvents /\ trimmed \in 0 .. appended
      /\ cursor \in Cursor /\ cursor \in Int
      /\ CursorInv(sse[b], wire[b], lastId[b], appended)
  BY <1>1, InvParts, ConnectionShape DEF BrowserInv
<1>3. cursor # Latest => cursor \in 1 .. appended
  BY <1>1, <1>2 DEF CursorInv, Off
<1>4. after \in 0 .. appended /\ after \in Nat
  BY <1>2, <1>3
<1>5. s.pc \in {"blocked", "reply"} /\ s.cursor = cursor
  OBVIOUS
<1>6. CursorInv(s, wire[b], lastId[b], appended)
  BY <1>1, <1>2, <1>5 DEF CursorInv, Off
<1>7. CASE page = <<>>
  <2>1. s = [pc |-> "blocked", cursor |-> cursor, after |-> after]
    BY <1>7
  <2>2. after \in 0 .. MaxEvents
    BY <1>2, <1>4, EventStreamAssumption
  <2>3. s \in Connection
    BY <1>2, <2>1, <2>2 DEF Connection
  <2>4. after = appended \/ trimmed = appended
    <3>1. SUFFICES ASSUME after < appended, trimmed < appended
                   PROVE  FALSE
      BY <1>2, <1>4
    <3> DEFINE from == Greatest(after, trimmed) + 1
               to == Least(from + Page - 1, appended)
    <3>2. from \in Nat /\ from <= appended /\ to >= from /\ to \in Nat
      BY <1>2, <1>4, <3>1, EventStreamAssumption DEF Greatest, Least
    <3>3. page = [i \in 1 .. to - from + 1 |-> from + i - 1]
      BY DEF PageAfter, Ids
    <3> HIDE DEF from, to
    <3>4. 1 \in 1 .. to - from + 1
      BY <3>2
    <3>5. DOMAIN page # {}
      BY <3>3, <3>4
    <3> QED
      BY <1>7, <3>5
  <2>5. ReadInv(s, trimmed, appended)
    BY <1>3, <2>1, <2>4 DEF ReadInv
  <2> HIDE DEF s
  <2> QED
    BY <1>1, <1>6, <2>3, <2>5, ConnectionMoves
<1>8. CASE page # <<>>
  <2>1. s = [pc |-> "reply", cursor |-> cursor, page |-> page]
    BY <1>8
  <2>2. PageInv(page, cursor, trimmed, appended)
    <3>1. PageInv(page, after, trimmed, appended)
          /\ PageInv(page, Latest, trimmed, appended)
      BY <1>2, <1>4, <1>8, PageOfStream
    <3> QED
      BY <3>1
  <2>3. page \in Seq(Event)
    <3>1. 1 .. appended \subseteq Event
      BY <1>2, EventStreamAssumption DEF Event
    <3> HIDE DEF page
    <3> QED
      BY <2>2, <3>1, SeqMonotonic DEF PageInv
  <2> HIDE DEF page
  <2>4. s \in Connection
    BY <1>2, <2>1, <2>3 DEF Connection
  <2>5. ReadInv(s, trimmed, appended)
    BY <2>1, <2>2 DEF ReadInv
  <2> HIDE DEF s
  <2> QED
    BY <1>1, <1>6, <2>4, <2>5, ConnectionMoves
<1> QED
  BY <1>7, <1>8

(* The loop goes on, or pauses, with the cursor it had. *)
LEMMA LoopKeepsFeed ==
  ASSUME FeedInv, NEW b \in Browser, Heartbeat(b) \/ Resume(b) \/ ReadFails(b)
  PROVE  FeedInv'
<1>1. PICK pc \in {"xread", "pause"} :
        /\ sse[b].pc \in {"xread", "blocked", "reply", "pause"}
        /\ sse' = [sse EXCEPT ![b] = [pc |-> pc, cursor |-> sse[b].cursor]]
        /\ UNCHANGED <<appended, trimmed, wire, got, lastId>>
  BY DEF Heartbeat, Resume, ReadFails, Goes, streamVars, consoleVars
<1> DEFINE s == [pc |-> pc, cursor |-> sse[b].cursor]
<1>2. sse[b].cursor \in Cursor /\ BrowserInv(b)
  BY <1>1, InvParts, ConnectionShape
<1>3. s \in Connection /\ s.pc = pc /\ s.cursor = sse[b].cursor
  BY <1>2, NewConnectionShape
<1> HIDE DEF s
<1>4. CursorInv(s, wire[b], lastId[b], appended)
  BY <1>1, <1>2, <1>3 DEF BrowserInv, CursorInv, Off
<1>5. ReadInv(s, trimmed, appended)
  BY <1>3 DEF ReadInv
<1> QED
  BY <1>1, <1>3, <1>4, <1>5, ConnectionMoves DEF s

LEMMA RefusedKeepsFeed ==
  ASSUME FeedInv, NEW b \in Browser, Refused(b)
  PROVE  FeedInv'
<1>1. /\ Off(sse[b]) /\ sse' = [sse EXCEPT ![b] = Closed]
      /\ UNCHANGED <<appended, trimmed, wire, got, lastId>>
  BY DEF Refused, Goes, Off, streamVars, consoleVars
<1>2. Closed.pc = "closed"
  BY DEF Closed
<1>3. CursorInv(Closed, wire[b], lastId[b], appended)
  BY <1>1, <1>2, InvParts DEF BrowserInv, CursorInv, Off
<1>4. ReadInv(Closed, trimmed, appended)
  BY <1>2 DEF ReadInv
<1> QED
  BY <1>1, <1>3, <1>4, ConnectionMoves

LEMMA DisconnectKeepsFeed ==
  ASSUME FeedInv, NEW b \in Browser, Disconnect(b)
  PROVE  FeedInv'
<1>1. /\ sse' = [sse EXCEPT ![b] = Down] /\ wire' = [wire EXCEPT ![b] = <<>>]
      /\ UNCHANGED <<appended, trimmed, got, lastId>>
  BY DEF Disconnect, Goes, streamVars, consoleVars
<1>2. /\ sse'[b] = Down /\ wire'[b] = <<>>
      /\ \A c \in Browser \ {b} : sse'[c] = sse[c] /\ wire'[c] = wire[c]
      /\ sse' \in [Browser -> Connection \cup {Down, Closed}]
      /\ DOMAIN wire' = Browser
  BY <1>1 DEF FeedInv, FeedTypeOK
<1>3. Down.pc = "down"
  BY DEF Down
<1>4. WireInv(<<>>, lastId[b], trimmed, appended)
  BY DEF WireInv
<1>5. BrowserInv(b)'
  BY <1>1, <1>2, <1>3, <1>4, InvParts DEF BrowserInv, CursorInv, Off, ReadInv
<1> QED
  BY <1>1, <1>2, <1>5, OneBrowser DEF FeedInv, FeedTypeOK

LEMMA RowsKeepFeed ==
  ASSUME FeedInv, NEW b \in Browser, WriteRows(b)
  PROVE  FeedInv'
<1> DEFINE p == sse[b].page
           w == wire[b] \o p
           s == [pc |-> "xread", cursor |-> Last(p)]
<1>1. /\ sse[b].pc = "reply"
      /\ sse' = [sse EXCEPT ![b] = s] /\ wire' = [wire EXCEPT ![b] = w]
      /\ UNCHANGED <<appended, trimmed, got, lastId>>
  BY DEF WriteRows, Goes, streamVars, consoleVars
<1>2. /\ appended \in Nat /\ trimmed \in Nat /\ lastId[b] \in Nat
      /\ appended <= MaxEvents
      /\ sse[b].cursor \in Int /\ BrowserInv(b)
  BY <1>1, InvParts, ConnectionShape
<1>3. PageInv(p, sse[b].cursor, trimmed, appended)
  BY <1>1, <1>2 DEF BrowserInv, ReadInv
<1>4. IF sse[b].cursor = Latest THEN Len(wire[b]) = 0 /\ lastId[b] = 0
      ELSE sse[b].cursor = EndOf(wire[b], lastId[b])
  BY <1>1, <1>2 DEF BrowserInv, CursorInv, Off
<1>5. WireInv(wire[b], lastId[b], trimmed, appended)
  BY <1>2 DEF BrowserInv
<1>6. /\ WireInv(w, lastId[b], trimmed, appended)
      /\ p[Len(p)] \in 1 .. appended
      /\ EndOf(w, lastId[b]) = p[Len(p)]
  BY <1>2, <1>3, <1>4, <1>5, RowsWritten
<1>7. Last(p) \in 1 .. appended /\ Last(p) = EndOf(w, lastId[b])
  BY <1>6 DEF Last
<1>8. Last(p) \in Cursor /\ Last(p) # Latest
  BY <1>2, <1>7, EventStreamAssumption DEF Cursor, Event, Latest
<1>9. s \in Connection /\ s.pc = "xread" /\ s.cursor = Last(p)
  BY <1>8, NewConnectionShape
<1> HIDE DEF s, w, p
<1>10. /\ sse'[b] = s /\ wire'[b] = w
       /\ \A c \in Browser \ {b} : sse'[c] = sse[c] /\ wire'[c] = wire[c]
       /\ sse' \in [Browser -> Connection \cup {Down, Closed}]
       /\ DOMAIN wire' = Browser
  BY <1>1, <1>9 DEF FeedInv, FeedTypeOK
<1>11. CursorInv(s, w, lastId[b], appended)
  BY <1>7, <1>8, <1>9 DEF CursorInv, Off
<1>12. ReadInv(s, trimmed, appended)
  BY <1>9 DEF ReadInv
<1>13. BrowserInv(b)'
  BY <1>1, <1>2, <1>6, <1>10, <1>11, <1>12 DEF BrowserInv
<1> QED
  BY <1>1, <1>10, <1>13, OneBrowser DEF FeedInv, FeedTypeOK

LEMMA ReceiveKeepsFeed ==
  ASSUME FeedInv, NEW b \in Browser, Receive(b)
  PROVE  FeedInv'
<1> DEFINE w == wire[b]
           id == Head(w)
           g == got[b] \cup {id}
<1>1. /\ w # <<>>
      /\ got' = [got EXCEPT ![b] = g] /\ lastId' = [lastId EXCEPT ![b] = id]
      /\ wire' = [wire EXCEPT ![b] = Tail(w)]
      /\ UNCHANGED <<appended, trimmed, sse>>
  BY DEF Receive, streamVars
<1>2. /\ appended \in Nat /\ trimmed \in Nat /\ lastId[b] \in Nat
      /\ BrowserInv(b)
  BY InvParts
<1>3. WireInv(w, lastId[b], trimmed, appended)
      /\ GotInv(got[b], lastId[b], trimmed, appended)
  BY <1>2 DEF BrowserInv
<1>4. /\ WireInv(Tail(w), id, trimmed, appended)
      /\ GotInv(g, id, trimmed, appended)
      /\ EndOf(Tail(w), id) = EndOf(w, lastId[b])
      /\ Len(w) > 0
  BY <1>1, <1>2, <1>3, RowReceived
<1> DEFINE v == Tail(w)
<1> HIDE DEF v, g, id
<1>5. /\ wire'[b] = v /\ got'[b] = g /\ lastId'[b] = id
      /\ \A c \in Browser \ {b} : /\ wire'[c] = wire[c] /\ got'[c] = got[c]
                                  /\ lastId'[c] = lastId[c]
      /\ DOMAIN wire' = Browser /\ DOMAIN got' = Browser /\ DOMAIN lastId' = Browser
  BY <1>1 DEF FeedInv, FeedTypeOK, v
<1>6. CursorInv(sse[b], v, id, appended)
  BY <1>2, <1>4 DEF BrowserInv, CursorInv, v
<1>7. BrowserInv(b)'
  BY <1>1, <1>2, <1>4, <1>5, <1>6 DEF BrowserInv, v
<1> QED
  BY <1>1, <1>5, <1>7, OneBrowser DEF FeedInv, FeedTypeOK

LEMMA FeedUntouched ==
  ASSUME FeedInv, UNCHANGED <<appended, trimmed, sse, wire, got, lastId>>
  PROVE  FeedInv'
  BY DEF FeedInv, FeedTypeOK, BrowserInv

LEMMA NextKeepsFeed == FeedInv /\ [Next]_vars => FeedInv'
<1> SUFFICES ASSUME FeedInv, [Next]_vars
             PROVE  FeedInv'
  OBVIOUS
<1>1. ASSUME NEW b \in Browser, Display(b) \/ RecentFails(b)
      PROVE  FeedInv'
  BY <1>1, FeedUntouched
     DEF Display, AnswerRecent, ShowRecent, RecentFails, streamVars, serverVars
<1>2. CASE UNCHANGED vars
  BY <1>2, FeedUntouched DEF vars, streamVars, serverVars, consoleVars
<1> QED
  BY <1>1, <1>2, EmitKeepsFeed, ResetKeepsFeed, ConnectKeepsFeed, XReadKeepsFeed,
     LoopKeepsFeed, RefusedKeepsFeed, DisconnectKeepsFeed, RowsKeepFeed,
     ReceiveKeepsFeed
     DEF Next, Serve

LEMMA InitFeeds == Init => FeedInv
<1> SUFFICES ASSUME Init PROVE FeedInv
  OBVIOUS
<1>1. appended \in 0 .. MaxEvents /\ trimmed = 0
  BY DEF Init
<1>2. FeedTypeOK
  BY <1>1, EventStreamAssumption DEF Init, FeedTypeOK
<1>3. Down.pc = "down"
  BY DEF Down
<1>4. WireInv(<<>>, 0, trimmed, appended)
  BY DEF WireInv
<1>5. GotInv({}, 0, trimmed, appended)
  BY <1>1, EventStreamAssumption DEF GotInv
<1>6. ASSUME NEW b \in Browser
      PROVE  BrowserInv(b)
  BY <1>3, <1>4, <1>5 DEF Init, BrowserInv, CursorInv, Off, ReadInv
<1> QED
  BY <1>2, <1>6 DEF FeedInv

(* What is on its way to a browser continues what it has, and the server's *)
(* cursor stands where it ends.                                            *)
THEOREM Inductive == Spec => []FeedInv
  BY InitFeeds, NextKeepsFeed, PTL DEF Spec

-----------------------------------------------------------------------------
LEMMA LineAscends ==
  ASSUME NEW t \in Nat, NEW n \in Nat, NEW last \in Nat,
         NEW w, WireInv(w, last, t, n)
  PROVE  \A i, j \in DOMAIN (<<last>> \o w) :
           i < j => (<<last>> \o w)[i] < (<<last>> \o w)[j]
<1> DEFINE v == <<last>> \o w
<1>1. w \in Seq(Nat) /\ Len(w) \in Nat
  <2>1. w \in Seq(1 .. n) /\ 1 .. n \subseteq Nat
    BY DEF WireInv
  <2> QED
    BY <2>1, SeqMonotonic, LenProperties
<1>2. <<last>> \in Seq(Nat) /\ Len(<<last>>) = 1 /\ <<last>>[1] = last
  OBVIOUS
<1>3. /\ v \in Seq(Nat) /\ Len(v) = 1 + Len(w)
      /\ \A i \in 1 .. 1 + Len(w) :
           v[i] = IF i <= 1 THEN <<last>>[i] ELSE w[i - 1]
  BY <1>1, <1>2, ConcatProperties
<1>4. DOMAIN v = 1 .. 1 + Len(w)
  BY <1>3, LenProperties
<1> HIDE DEF v
<1>5. ASSUME NEW i \in 1 .. 1 + Len(w), NEW j \in 1 .. 1 + Len(w), i < j
      PROVE  v[i] < v[j]
  <2>1. j - 1 \in 1 .. Len(w) /\ ~(j <= 1)
    BY <1>1, <1>5
  <2>2. v[j] = w[j - 1]
    BY <1>3, <2>1
  <2>3. CASE i = 1
    <3>1. v[i] = last
      BY <1>2, <1>3, <2>3
    <3> QED
      BY <2>1, <2>2, <3>1 DEF WireInv
  <2>4. CASE i # 1
    <3>1. i - 1 \in 1 .. Len(w) /\ ~(i <= 1) /\ i - 1 < j - 1
      BY <1>1, <1>5, <2>4
    <3>2. v[i] = w[i - 1]
      BY <1>3, <3>1
    <3> QED
      BY <2>1, <2>2, <3>1, <3>2 DEF WireInv
  <2> QED
    BY <2>3, <2>4
<1> QED
  BY <1>4, <1>5 DEF v

LEMMA UnderwayWireInv ==
  ASSUME FeedInv, NEW b \in Browser
  PROVE  WireInv(Underway(b), lastId[b], trimmed, appended)
<1>1. /\ appended \in Nat /\ trimmed \in Nat /\ lastId[b] \in Nat
      /\ BrowserInv(b) /\ sse[b] \in Connection \cup {Down, Closed}
  BY InvParts
<1>2. WireInv(wire[b], lastId[b], trimmed, appended)
  BY <1>1 DEF BrowserInv
<1>3. CASE sse[b].pc = "reply"
  <2>1. sse[b].cursor \in Int
    BY <1>1, <1>3, ConnectionShape
  <2>2. PageInv(sse[b].page, sse[b].cursor, trimmed, appended)
    BY <1>1, <1>3 DEF BrowserInv, ReadInv
  <2>3. IF sse[b].cursor = Latest THEN Len(wire[b]) = 0 /\ lastId[b] = 0
        ELSE sse[b].cursor = EndOf(wire[b], lastId[b])
    BY <1>1, <1>3 DEF BrowserInv, CursorInv, Off
  <2>4. WireInv(wire[b] \o sse[b].page, lastId[b], trimmed, appended)
    BY <1>1, <1>2, <2>1, <2>2, <2>3, RowsWritten
  <2> QED
    BY <1>3, <2>4 DEF Underway
<1>4. CASE sse[b].pc # "reply"
  <2>1. wire[b] \in Seq(1 .. appended)
    BY <1>2 DEF WireInv
  <2>2. wire[b] \o <<>> = wire[b]
    BY <2>1, ConcatEmptySeq
  <2> QED
    BY <1>2, <1>4, <2>2 DEF Underway
<1> QED
  BY <1>3, <1>4

LEMMA FeedInOrder == FeedInv => DeliveredOnceInOrder
<1> SUFFICES ASSUME FeedInv, NEW b \in Browser
             PROVE  LET line == <<lastId[b]>> \o Underway(b) IN
                    \A i, j \in DOMAIN line : i < j => line[i] < line[j]
  BY DEF DeliveredOnceInOrder
<1>1. appended \in Nat /\ trimmed \in Nat /\ lastId[b] \in Nat
  BY InvParts
<1> QED
  BY <1>1, UnderwayWireInv, LineAscends

LEMMA FeedHasNoGap == FeedInv => NoGapOnceFollowing
<1> SUFFICES ASSUME FeedInv, NEW b \in Browser, NEW first \in got[b],
                    NEW x \in first .. lastId[b]
             PROVE  x \in got[b] \cup 1 .. trimmed
  BY DEF NoGapOnceFollowing, Missed
<1>1. appended \in Nat /\ trimmed \in Nat /\ BrowserInv(b)
  BY InvParts
<1>2. GotInv(got[b], lastId[b], trimmed, appended)
  BY <1>1 DEF BrowserInv
<1>3. first \in 1 .. appended /\ lastId[b] \in Nat
  BY <1>1, <1>2 DEF GotInv
<1>4. x \in got[b] \/ x <= trimmed
  BY <1>2 DEF GotInv
<1>5. x \in Int /\ 1 <= x
  BY <1>3
<1> QED
  BY <1>1, <1>4, <1>5

(* DeliveredOnceInOrder: however often a connection breaks, a read fails   *)
(* or the lab is reset, what EventsController.stream has on its way to a   *)
(* browser ascends from the last event the browser received.               *)
THEOREM OnceInOrder == Spec => []DeliveredOnceInOrder
  BY Inductive, FeedInOrder, PTL

(* NoGapOnceFollowing: a browser that has received an event lacks none     *)
(* after it but those that had left the stream.                            *)
THEOREM NoGap == Spec => []NoGapOnceFollowing
  BY Inductive, FeedHasNoGap, PTL

-----------------------------------------------------------------------------
(* The display.  The filter is defined for every length of the list, and   *)
(* keeps at most what it has looked at.                                    *)
LEMMA OthersTyped ==
  ASSUME NEW S, NEW list \in Seq(S), NEW id
  PROVE  Others(id, list) \in Seq(S) /\ Len(Others(id, list)) <= Len(list)
<1> DEFINE n == Len(list)
           Filter(f, m) == [i \in 0 .. m |->
                              IF i = 0 THEN <<>>
                              ELSE IF list[i] = id THEN f[i - 1]
                              ELSE Append(f[i - 1], list[i])]
           kept == CHOOSE f : f = Filter(f, n)
<1>1. n \in Nat /\ \A i \in 1 .. n : list[i] \in S
  BY LenProperties, ElementOfSeq
<1>2. Others(id, list) = kept[n]
  BY DEF Others
<1>3. \E f : f = Filter(f, n)
  <2> DEFINE Defined == {m \in Nat : \E f : f = Filter(f, m)}
  <2>1. 0 \in Defined
    <3> DEFINE f == [i \in 0 .. 0 |-> <<>>]
    <3>1. f = Filter(f, 0)
      OBVIOUS
    <3> QED
      BY <3>1
  <2>2. ASSUME NEW m \in Nat, m \in Defined PROVE m + 1 \in Defined
    <3>1. PICK f : f = Filter(f, m)
      BY <2>2
    <3> DEFINE g == [i \in 0 .. m + 1 |->
                       IF i <= m THEN f[i]
                       ELSE IF list[i] = id THEN f[m] ELSE Append(f[m], list[i])]
    <3>2. \A i \in 0 .. m : f[i] = IF i = 0 THEN <<>>
                                   ELSE IF list[i] = id THEN f[i - 1]
                                   ELSE Append(f[i - 1], list[i])
      BY <3>1
    <3>3. \A i \in 0 .. m + 1 : g[i] = IF i = 0 THEN <<>>
                                       ELSE IF list[i] = id THEN g[i - 1]
                                       ELSE Append(g[i - 1], list[i])
      <4> TAKE i \in 0 .. m + 1
      <4>1. CASE i = 0
        BY <3>2, <4>1
      <4>2. CASE i \in 1 .. m
        <5>1. i - 1 \in 0 .. m + 1 /\ i - 1 <= m /\ i <= m /\ i # 0
          BY <4>2
        <5>2. g[i - 1] = f[i - 1] /\ g[i] = f[i]
          BY <5>1
        <5> HIDE DEF g
        <5> QED
          BY <3>2, <4>2, <5>1, <5>2
      <4>3. CASE i = m + 1
        <5>1. m \in 0 .. m + 1 /\ m + 1 \in 0 .. m + 1 /\ ~(m + 1 <= m) /\ m <= m
          OBVIOUS
        <5>2. g[m] = f[m]
          BY <5>1
        <5>3. g[m + 1] = IF list[m + 1] = id THEN f[m] ELSE Append(f[m], list[m + 1])
          BY <5>1
        <5>4. (m + 1) - 1 = m /\ m + 1 # 0
          OBVIOUS
        <5> HIDE DEF g
        <5> QED
          BY <4>3, <5>2, <5>3, <5>4
      <4> QED
        BY <4>1, <4>2, <4>3
    <3>4. g = Filter(g, m + 1)
      BY <3>3
    <3> HIDE DEF g, Filter
    <3>5. \E h : h = Filter(h, m + 1)
      BY <3>4
    <3> QED
      BY <3>5
  <2>3. Nat \subseteq Defined
    <3> HIDE DEF Defined
    <3> QED
      BY <2>1, <2>2, NatSetInduction
  <2> QED
    BY <1>1, <2>3
<1>4. kept = Filter(kept, n)
  BY <1>3
<1> HIDE DEF kept
<1>5. \A i \in 0 .. n : kept[i] = IF i = 0 THEN <<>>
                                  ELSE IF list[i] = id THEN kept[i - 1]
                                  ELSE Append(kept[i - 1], list[i])
  BY <1>4
<1> HIDE DEF n, Filter
<1> DEFINE Short == {m \in Nat : m <= n => kept[m] \in Seq(S) /\ Len(kept[m]) <= m}
<1>6. 0 \in Short
  <2>1. 0 \in 0 .. n
    BY <1>1
  <2>2. kept[0] = <<>>
    BY <1>5, <2>1, Zenon
  <2>3. kept[0] \in Seq(S) /\ Len(kept[0]) <= 0
    <3>1. <<>> \in Seq(S) /\ Len(<<>>) <= 0
      OBVIOUS
    <3> QED
      BY <2>2, <3>1, Zenon
  <2> QED
    BY <2>3
<1>7. ASSUME NEW m \in Nat, m \in Short PROVE m + 1 \in Short
  <2> SUFFICES ASSUME m + 1 <= n
               PROVE  kept[m + 1] \in Seq(S) /\ Len(kept[m + 1]) <= m + 1
    OBVIOUS
  <2>1. kept[m] \in Seq(S) /\ Len(kept[m]) <= m /\ Len(kept[m]) \in Nat
    BY <1>1, <1>7, LenProperties
  <2>2. m + 1 \in 1 .. n /\ m + 1 \in 0 .. n /\ (m + 1) - 1 = m
    BY <1>1
  <2>3. kept[m + 1] = IF list[m + 1] = id THEN kept[m]
                      ELSE Append(kept[m], list[m + 1])
    BY <1>5, <2>2
  <2>4. list[m + 1] \in S
    BY <1>1, <2>2
  <2>5. /\ Append(kept[m], list[m + 1]) \in Seq(S)
        /\ Len(Append(kept[m], list[m + 1])) = Len(kept[m]) + 1
    BY <2>1, <2>4, AppendProperties
  <2> QED
    BY <2>1, <2>3, <2>5
<1>8. Nat \subseteq Short
  <2> HIDE DEF Short
  <2> QED
    BY <1>6, <1>7, NatSetInduction
<1>9. n <= n
  BY <1>1
<1> QED
  BY <1>1, <1>2, <1>8, <1>9 DEF n

LEMMA PrependTyped ==
  ASSUME NEW n \in Nat, NEW list \in Seq(1 .. n), NEW id \in 1 .. n
  PROVE  Prepend(id, list) \in Seq(1 .. n) /\ Len(Prepend(id, list)) <= Keep
<1> DEFINE others == Others(id, list)
           all == <<id>> \o others
           last == Least(Keep, Len(all))
<1>1. others \in Seq(1 .. n)
  BY OthersTyped
<1> HIDE DEF others
<1>2. <<id>> \in Seq(1 .. n)
  OBVIOUS
<1>3. all \in Seq(1 .. n)
  BY <1>1, <1>2, ConcatProperties
<1> HIDE DEF all
<1>4. Len(all) \in Nat
  BY <1>3, LenProperties
<1>5. last \in Nat /\ last <= Len(all) /\ last <= Keep
  BY <1>4, EventStreamAssumption DEF Least
<1>6. Prepend(id, list) = SubSeq(all, 1, last)
  BY DEF Prepend, all, others
<1> HIDE DEF last
<1>7. CASE last = 0
  <2>1. SubSeq(all, 1, last) = <<>>
    BY <1>3, <1>7, SubSeqEmpty
  <2>2. <<>> \in Seq(1 .. n) /\ Len(<<>>) <= Keep
    BY EventStreamAssumption
  <2> QED
    BY <1>6, <2>1, <2>2, Zenon
<1>8. CASE last # 0
  <2>1. /\ SubSeq(all, 1, last) \in Seq(1 .. n)
        /\ Len(SubSeq(all, 1, last)) = last
    BY <1>3, <1>5, <1>8, SubSeqProperties
  <2> QED
    BY <1>5, <1>6, <2>1
<1> QED
  BY <1>7, <1>8

LEMMA NewestTyped ==
  ASSUME appended \in Nat, trimmed \in Nat, trimmed <= appended
  PROVE  Newest \in Seq(1 .. appended) /\ Len(Newest) <= Keep
<1> DEFINE from == Greatest(appended - Keep, trimmed) + 1
           size == appended - from + 1
           ids == [i \in 1 .. size |-> from + i - 1]
<1>1. /\ from \in Nat /\ from >= 1 /\ size \in Nat
      /\ size <= Keep /\ from + size = appended + 1
  BY EventStreamAssumption DEF Greatest
<1>2. ids = Ids(from, appended)
  BY DEF Ids
<1> HIDE DEF from, size
<1>3. ids \in Seq(1 .. appended) /\ Len(ids) = size
  <2>1. \A i \in 1 .. size : from + i - 1 \in 1 .. appended
    BY <1>1
  <2>2. ids \in [1 .. size -> 1 .. appended]
    BY <2>1
  <2> QED
    BY <1>1, <2>2, LenProperties, IsASeq
<1> HIDE DEF ids
<1>4. Newest = [i \in 1 .. size |-> ids[(size - i) + 1]]
  BY <1>2, <1>3 DEF Newest, Reverse, from
<1>5. \A i \in 1 .. size : ids[(size - i) + 1] \in 1 .. appended
  <2> TAKE i \in 1 .. size
  <2>1. (size - i) + 1 \in 1 .. size
    BY <1>1
  <2> QED
    BY <1>3, <2>1, ElementOfSeq
<1>6. Newest \in [1 .. size -> 1 .. appended]
  BY <1>4, <1>5
<1>7. Newest \in Seq(1 .. appended) /\ Len(Newest) = size
  BY <1>1, <1>6, LenProperties, IsASeq
<1> QED
  BY <1>1, <1>7

-----------------------------------------------------------------------------
(* What the console has: a list that fits the display, of the n events     *)
(* there are, and a reply that will.                                       *)
Displayable(list, n) == list \in Seq(1 .. n) /\ Len(list) <= Keep

ReplyInv(reply, n) ==
  \/ reply \in {<<"asked">>, <<"done">>}
  \/ \E list \in Seq(1 .. n) : Len(list) <= Keep /\ reply = <<"reply", list>>

ConsoleInv ==
  /\ wire = [b \in Browser |-> wire[b]]
  /\ got = [b \in Browser |-> got[b]]
  /\ lastId = [b \in Browser |-> lastId[b]]
  /\ recent = [b \in Browser |-> recent[b]]
  /\ shown = [b \in Browser |-> shown[b]]
  /\ \A b \in Browser : ReplyInv(recent[b], appended) /\ Displayable(shown[b], appended)
  /\ overwritten \in [Browser -> BOOLEAN]
  /\ faults \in 0 .. MaxFaults
  /\ resets \in 0 .. MaxResets

LEMMA DisplayLasts ==
  ASSUME NEW n \in Nat, NEW m \in Nat, n <= m
  PROVE  /\ \A list : Displayable(list, n) => Displayable(list, m)
         /\ \A reply : ReplyInv(reply, n) => ReplyInv(reply, m)
<1>1. 0 <= 0 /\ \A s \in Seq(1 .. n) : s \in Seq(1 .. m)
  BY StreamGrows
<1> QED
  BY <1>1 DEF Displayable, ReplyInv

LEMMA ConsoleMeansTypes ==
  ASSUME FeedInv, ConsoleInv
  PROVE  TypeOK
<1>1. ASSUME NEW b \in Browser
      PROVE  /\ wire[b] \in Seq(1 .. appended)
             /\ got[b] \in SUBSET (1 .. appended)
             /\ lastId[b] \in 0 .. appended
             /\ recent[b] \in {<<"asked">>, <<"done">>}
                                \cup ({"reply"} \X Seq(1 .. appended))
             /\ shown[b] \in Seq(1 .. appended) /\ Len(shown[b]) <= Keep
  <2>1. BrowserInv(b) /\ ReplyInv(recent[b], appended)
        /\ Displayable(shown[b], appended)
    BY DEF FeedInv, ConsoleInv
  <2>2. /\ wire[b] \in Seq(1 .. appended) /\ got[b] \in SUBSET (1 .. appended)
        /\ lastId[b] \in 0 .. appended
    BY <2>1 DEF BrowserInv, WireInv, GotInv
  <2>3. recent[b] \in {<<"asked">>, <<"done">>}
                       \cup ({"reply"} \X Seq(1 .. appended))
    <3>1. CASE recent[b] \in {<<"asked">>, <<"done">>}
      BY <3>1
    <3>2. ASSUME NEW list \in Seq(1 .. appended), recent[b] = <<"reply", list>>
          PROVE  recent[b] \in {"reply"} \X Seq(1 .. appended)
      BY <3>2
    <3> QED
      BY <2>1, <3>1, <3>2 DEF ReplyInv
  <2> QED
    BY <2>1, <2>2, <2>3 DEF Displayable
<1>2. /\ wire \in [Browser -> Seq(1 .. appended)]
      /\ got \in [Browser -> SUBSET (1 .. appended)]
      /\ lastId \in [Browser -> 0 .. appended]
  BY <1>1 DEF ConsoleInv
<1>3. /\ recent \in [Browser -> {<<"asked">>, <<"done">>}
                                  \cup ({"reply"} \X Seq(1 .. appended))]
      /\ shown \in [Browser -> Seq(1 .. appended)]
  BY <1>1 DEF ConsoleInv
<1> QED
  BY <1>1, <1>2, <1>3 DEF FeedInv, FeedTypeOK, ConsoleInv, TypeOK

LEMMA InitShows == Init => ConsoleInv
<1> SUFFICES ASSUME Init PROVE ConsoleInv
  OBVIOUS
<1>1. /\ wire = [b \in Browser |-> <<>>] /\ got = [b \in Browser |-> {}]
      /\ lastId = [b \in Browser |-> 0] /\ recent = [b \in Browser |-> <<"asked">>]
      /\ shown = [b \in Browser |-> <<>>] /\ overwritten = [b \in Browser |-> FALSE]
      /\ faults = MaxFaults /\ resets = MaxResets
  BY DEF Init
<1>2. /\ wire = [b \in Browser |-> wire[b]] /\ got = [b \in Browser |-> got[b]]
      /\ lastId = [b \in Browser |-> lastId[b]]
      /\ recent = [b \in Browser |-> recent[b]]
      /\ shown = [b \in Browser |-> shown[b]]
  BY <1>1, Zenon
<1>3. Displayable(<<>>, appended)
  BY EventStreamAssumption DEF Displayable
<1>4. ReplyInv(<<"asked">>, appended)
  BY DEF ReplyInv
<1>5. \A b \in Browser : ReplyInv(recent[b], appended) /\ Displayable(shown[b], appended)
  BY <1>1, <1>3, <1>4
<1> QED
  BY <1>1, <1>2, <1>5, EventStreamAssumption DEF ConsoleInv

(* A step that leaves the display and the reply alone. *)
LEMMA DisplayUntouched ==
  ASSUME FeedInv, ConsoleInv, UNCHANGED <<recent, shown, overwritten>>,
         appended' \in Nat, appended <= appended',
         wire' = [b \in Browser |-> wire'[b]], got' = [b \in Browser |-> got'[b]],
         lastId' = [b \in Browser |-> lastId'[b]],
         faults' \in 0 .. MaxFaults, resets' \in 0 .. MaxResets
  PROVE  ConsoleInv'
<1>1. appended \in Nat
  BY EventStreamAssumption DEF FeedInv, FeedTypeOK
<1>2. \A b \in Browser :
        ReplyInv(recent[b], appended') /\ Displayable(shown[b], appended')
  BY <1>1, DisplayLasts DEF ConsoleInv
<1> QED
  BY <1>2 DEF ConsoleInv

(* The display of b, or the reply on its way to it, becomes another. *)
LEMMA OneDisplay ==
  ASSUME FeedInv, ConsoleInv, NEW b \in Browser, NEW reply, NEW list,
         UNCHANGED appended,
         recent' = [recent EXCEPT ![b] = reply], ReplyInv(reply, appended),
         shown' = [shown EXCEPT ![b] = list], Displayable(list, appended),
         wire' = [c \in Browser |-> wire'[c]], got' = [c \in Browser |-> got'[c]],
         lastId' = [c \in Browser |-> lastId'[c]],
         overwritten' \in [Browser -> BOOLEAN],
         faults' \in 0 .. MaxFaults, resets' \in 0 .. MaxResets
  PROVE  ConsoleInv'
<1>1. /\ recent = [c \in Browser |-> recent[c]]
      /\ shown = [c \in Browser |-> shown[c]]
      /\ \A c \in Browser : ReplyInv(recent[c], appended) /\ Displayable(shown[c], appended)
  BY DEF ConsoleInv
<1>2. /\ recent' = [c \in Browser |-> IF c = b THEN reply ELSE recent[c]]
      /\ shown' = [c \in Browser |-> IF c = b THEN list ELSE shown[c]]
  BY <1>1
<1>3. /\ recent' = [c \in Browser |-> recent'[c]]
      /\ shown' = [c \in Browser |-> shown'[c]]
  BY <1>2
<1>4. \A c \in Browser :
        ReplyInv(recent'[c], appended) /\ Displayable(shown'[c], appended)
  BY <1>1, <1>2
<1> QED
  BY <1>3, <1>4 DEF ConsoleInv

LEMMA Functions ==
  ASSUME ConsoleInv
  PROVE  /\ wire = [c \in Browser |-> wire[c]] /\ got = [c \in Browser |-> got[c]]
         /\ lastId = [c \in Browser |-> lastId[c]]
         /\ \A b, x : /\ [wire EXCEPT ![b] = x]
                           = [c \in Browser |-> [wire EXCEPT ![b] = x][c]]
                      /\ [got EXCEPT ![b] = x]
                           = [c \in Browser |-> [got EXCEPT ![b] = x][c]]
                      /\ [lastId EXCEPT ![b] = x]
                           = [c \in Browser |-> [lastId EXCEPT ![b] = x][c]]
<1>1. /\ wire = [c \in Browser |-> wire[c]] /\ got = [c \in Browser |-> got[c]]
      /\ lastId = [c \in Browser |-> lastId[c]]
  BY DEF ConsoleInv
<1>2. ASSUME NEW f, f = [c \in Browser |-> f[c]], NEW b, NEW x
      PROVE  [f EXCEPT ![b] = x] = [c \in Browser |-> [f EXCEPT ![b] = x][c]]
  BY <1>2
<1> QED
  BY <1>1, <1>2

(* The stream and the server do not touch the display. *)
LEMMA StreamShows ==
  ASSUME FeedInv, ConsoleInv, Emit \/ Reset
  PROVE  ConsoleInv'
<1>1. /\ appended \in Nat /\ appended' \in Nat /\ appended <= appended'
      /\ UNCHANGED <<wire, got, lastId, recent, shown, overwritten, faults>>
  BY EventStreamAssumption
     DEF FeedInv, FeedTypeOK, Emit, Reset, serverVars, consoleVars
<1>2. resets' \in 0 .. MaxResets
  BY EventStreamAssumption DEF ConsoleInv, Emit, Reset
<1>3. faults \in 0 .. MaxFaults
  BY DEF ConsoleInv
<1> QED
  BY <1>1, <1>2, <1>3, Functions, DisplayUntouched

LEMMA ServerShows ==
  ASSUME FeedInv, ConsoleInv, NEW b \in Browser,
         Serve(b) \/ Heartbeat(b) \/ Refused(b) \/ ReadFails(b) \/ Disconnect(b)
  PROVE  ConsoleInv'
<1>1. /\ UNCHANGED <<appended, resets, got, lastId, recent, shown, overwritten>>
      /\ wire' = wire \/ \E x : wire' = [wire EXCEPT ![b] = x]
      /\ faults' = faults \/ (faults > 0 /\ faults' = faults - 1)
  BY DEF Serve, Connect, XRead, WriteRows, Resume, Heartbeat, Refused, ReadFails,
         Disconnect, streamVars, consoleVars
<1>2. appended \in Nat /\ appended <= appended
  BY EventStreamAssumption DEF FeedInv, FeedTypeOK
<1>3. faults' \in 0 .. MaxFaults /\ resets \in 0 .. MaxResets
  BY <1>1, EventStreamAssumption DEF ConsoleInv
<1>4. wire' = [c \in Browser |-> wire'[c]]
  <2>1. CASE wire' = wire
    BY <2>1, Functions
  <2>2. ASSUME NEW x, wire' = [wire EXCEPT ![b] = x]
        PROVE  wire' = [c \in Browser |-> wire'[c]]
    BY <2>2, Functions
  <2> QED
    BY <1>1, <2>1, <2>2
<1> QED
  BY <1>1, <1>2, <1>3, <1>4, Functions, DisplayUntouched

LEMMA ReceiveShows ==
  ASSUME FeedInv, ConsoleInv, NEW b \in Browser, Receive(b)
  PROVE  ConsoleInv'
<1> DEFINE id == Head(wire[b])
           list == Prepend(id, shown[b])
<1>1. /\ wire[b] # <<>> /\ UNCHANGED <<appended, recent, overwritten, faults, resets>>
      /\ got' = [got EXCEPT ![b] = got[b] \cup {id}]
      /\ lastId' = [lastId EXCEPT ![b] = id]
      /\ shown' = [shown EXCEPT ![b] = list]
      /\ wire' = [wire EXCEPT ![b] = Tail(wire[b])]
  BY DEF Receive, streamVars
<1>2. appended \in Nat /\ wire[b] \in Seq(1 .. appended)
  BY InvParts DEF BrowserInv, WireInv
<1>3. id \in 1 .. appended
  BY <1>1, <1>2, HeadTailProperties
<1> HIDE DEF id
<1>4. Displayable(list, appended)
  <2>1. shown[b] \in Seq(1 .. appended)
    BY DEF ConsoleInv, Displayable
  <2> QED
    BY <1>2, <1>3, <2>1, PrependTyped DEF Displayable
<1> HIDE DEF list
<1>5. recent' = [recent EXCEPT ![b] = recent[b]]
  BY <1>1 DEF ConsoleInv
<1>6. /\ ReplyInv(recent[b], appended) /\ overwritten \in [Browser -> BOOLEAN]
      /\ faults \in 0 .. MaxFaults /\ resets \in 0 .. MaxResets
  BY DEF ConsoleInv
<1>7. /\ wire' = [c \in Browser |-> wire'[c]] /\ got' = [c \in Browser |-> got'[c]]
      /\ lastId' = [c \in Browser |-> lastId'[c]]
  BY <1>1, Functions
<1> QED
  BY <1>1, <1>4, <1>5, <1>6, <1>7, OneDisplay

LEMMA ReplyShows ==
  ASSUME FeedInv, ConsoleInv, NEW b \in Browser,
         AnswerRecent(b) \/ ShowRecent(b) \/ RecentFails(b)
  PROVE  ConsoleInv'
<1>1. /\ UNCHANGED <<appended, trimmed, resets, wire, got, lastId>>
      /\ faults' = faults \/ (faults > 0 /\ faults' = faults - 1)
  BY DEF AnswerRecent, ShowRecent, RecentFails, streamVars, serverVars
<1>2. /\ appended \in Nat /\ trimmed \in Nat /\ trimmed <= appended
      /\ ReplyInv(recent[b], appended) /\ Displayable(shown[b], appended)
      /\ overwritten \in [Browser -> BOOLEAN]
      /\ recent = [c \in Browser |-> recent[c]] /\ shown = [c \in Browser |-> shown[c]]
  BY InvParts DEF ConsoleInv
<1>3. faults' \in 0 .. MaxFaults /\ resets' \in 0 .. MaxResets
  BY <1>1, EventStreamAssumption DEF ConsoleInv
<1>4. shown = [shown EXCEPT ![b] = shown[b]]
  BY <1>2
<1>5. ReplyInv(<<"done">>, appended)
  BY DEF ReplyInv
<1>6. /\ wire' = [c \in Browser |-> wire'[c]] /\ got' = [c \in Browser |-> got'[c]]
      /\ lastId' = [c \in Browser |-> lastId'[c]] /\ UNCHANGED appended
  BY <1>1, Functions
<1>7. CASE AnswerRecent(b)
  <2>1. ReplyInv(<<"reply", Newest>>, appended)
    BY <1>2, NewestTyped DEF ReplyInv
  <2>2. /\ recent' = [recent EXCEPT ![b] = <<"reply", Newest>>]
        /\ shown' = [shown EXCEPT ![b] = shown[b]] /\ overwritten' = overwritten
    BY <1>4, <1>7 DEF AnswerRecent
  <2> QED
    BY <1>2, <1>3, <1>6, <2>1, <2>2, OneDisplay
<1>8. CASE ShowRecent(b)
  <2>1. Displayable(recent[b][2], appended)
    <3>1. recent[b][1] = "reply"
      BY <1>8 DEF ShowRecent
    <3>2. recent[b] \notin {<<"asked">>, <<"done">>}
      BY <3>1
    <3>3. PICK list \in Seq(1 .. appended) :
            Len(list) <= Keep /\ recent[b] = <<"reply", list>>
      BY <1>2, <3>2 DEF ReplyInv
    <3>4. recent[b][2] = list
      BY <3>3
    <3> QED
      BY <3>3, <3>4 DEF Displayable
  <2>2. /\ recent' = [recent EXCEPT ![b] = <<"done">>]
        /\ shown' = [shown EXCEPT ![b] = recent[b][2]]
        /\ overwritten' \in [Browser -> BOOLEAN]
    BY <1>2, <1>8 DEF ShowRecent
  <2> QED
    BY <1>3, <1>5, <1>6, <2>1, <2>2, OneDisplay
<1>9. CASE RecentFails(b)
  <2>1. /\ recent' = [recent EXCEPT ![b] = <<"done">>]
        /\ shown' = [shown EXCEPT ![b] = shown[b]] /\ overwritten' = overwritten
    BY <1>4, <1>9 DEF RecentFails
  <2> QED
    BY <1>2, <1>3, <1>5, <1>6, <2>1, OneDisplay
<1> QED
  BY <1>7, <1>8, <1>9

(* Every variable keeps its type, and the display never outgrows its 30    *)
(* rows nor shows an event that was not emitted, whether a row was put on  *)
(* top of it or the answer of recent() has replaced it.                    *)
THEOREM TypeCorrect == Spec => []TypeOK
<1>1. FeedInv /\ ConsoleInv /\ [Next]_vars => ConsoleInv'
  <2> SUFFICES ASSUME FeedInv, ConsoleInv, [Next]_vars PROVE ConsoleInv'
    OBVIOUS
  <2>1. CASE UNCHANGED vars
    <3>1. UNCHANGED <<appended, wire, got, lastId, recent, shown, overwritten,
                      faults, resets>>
      BY <2>1 DEF vars, streamVars, serverVars, consoleVars
    <3> QED
      BY <3>1 DEF ConsoleInv
  <2>2. ASSUME NEW b \in Browser,
               \/ Serve(b) \/ Heartbeat(b) \/ Receive(b) \/ Display(b)
               \/ Refused(b) \/ ReadFails(b) \/ Disconnect(b) \/ RecentFails(b)
        PROVE  ConsoleInv'
    BY <2>2, ServerShows, ReceiveShows, ReplyShows DEF Display
  <2> QED
    BY <2>1, <2>2, StreamShows DEF Next
<1> QED
  BY <1>1, InitShows, Inductive, ConsoleMeansTypes, PTL DEF Spec
=============================================================================
