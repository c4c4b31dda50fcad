-------------------------- MODULE EventFeed_proofs --------------------------
(***************************************************************************)
(* No event is put on the screen twice, for every number of sources,       *)
(* events, connections and overlapping discovery rounds, and every size of *)
(* the buffers that FeedAssumption allows.                                 *)
(***************************************************************************)
EXTENDS EventFeed, SequenceTheorems, FiniteSetTheorems, TLAPS

-----------------------------------------------------------------------------
(* The inductive invariant, in parts.                                      *)

(* Everything is recorded by the one QueueEvents object of its source.     *)
Once(n) == [event |-> n, sub |-> 1]

SubsOK == subs \in [Sources -> {0, 1}]

(* The ring holds the last events, in order.                               *)
RingOK ==
  /\ ring \in Seq(Entry) /\ Len(ring) <= RingSize /\ Len(ring) <= recorded
  /\ \A i \in 1..Len(ring) : ring[i] = Once((recorded - Len(ring)) + i)

(* What is on its way to the page.                                         *)
WireOK ==
  /\ wire \in [Conns -> Seq(Message)]
  /\ \A c \in Conns : c # page.conn => wire[c] = << >>
  /\ \A c \in Conns : \A i \in 1..Len(wire[c]) :
       wire[c][i] # ErrorMsg => \E n \in 1..recorded : wire[c][i] = Once(n)

(* An event was sent when it was in the ring, after all that was shown or  *)
(* sent before it: it cannot be older by a ring's length or more.          *)
InReach(a, b) == a < b + RingSize

ShownInReach ==
  \A p, q \in 1..Len(page.shown) :
    p < q => InReach(page.shown[p], page.shown[q])

WireInReach ==
  \A c \in Conns : \A i \in 1..Len(wire[c]) :
    wire[c][i] # ErrorMsg =>
      /\ \A p \in 1..Len(page.shown) : InReach(page.shown[p], wire[c][i].event)
      /\ \A j \in 1..(i - 1) :
           wire[c][j] # ErrorMsg => InReach(wire[c][j].event, wire[c][i].event)

(* A buffer holds what was shown last.                                     *)
IsTail(buffer, h) ==
  /\ Len(buffer) <= Len(h)
  /\ \A i \in 1..Len(buffer) :
       buffer[i] = Once(h[(Len(h) - Len(buffer)) + i])

(* The seen set holds all that was shown, or SeenKeep events of it.        *)
SeenOK ==
  /\ IsTail(page.seen, page.shown) /\ Len(page.seen) <= SeenMax
  /\ Len(page.seen) = Len(page.shown) \/ Len(page.seen) >= SeenKeep

FlowOK == IsTail(page.flow, page.shown) /\ Len(page.flow) <= FlowMax

(* What was shown was recorded, and no event of it twice.                  *)
HistoryOK ==
  /\ page \in PageState
  /\ \A p \in 1..Len(page.shown) : page.shown[p] <= recorded
  /\ \A p, q \in 1..Len(page.shown) : page.shown[p] = page.shown[q] => p = q

CountsOK ==
  /\ known \subseteq Sources
  /\ scans \in Seq(SUBSET Sources) /\ Len(scans) <= MaxScans
  /\ recorded \in 0..MaxEvents
  /\ handler \in [Conns -> HandlerPc]
  /\ cursor \in [Conns -> 0..RingSize]
  /\ errors \in 0..MaxErrors

FeedInv ==
  /\ CountsOK /\ SubsOK /\ RingOK /\ WireOK
  /\ ShownInReach /\ WireInReach /\ SeenOK /\ FlowOK /\ HistoryOK

-----------------------------------------------------------------------------
(* The buffers.                                                            *)

LEMMA Sizes ==
  /\ RingSize \in Nat /\ RingSize > 0 /\ SeenKeep \in Nat /\ SeenKeep > 0
  /\ SeenMax \in Nat /\ FlowMax \in Nat /\ FlowMax > 0
  /\ 2 * RingSize <= SeenKeep + 1 /\ SeenKeep <= SeenMax
  /\ MaxEvents \in Nat /\ MaxConns \in Nat /\ MaxScans \in Nat /\ MaxErrors \in Nat
BY FeedAssumption

LEMMA OnceIsEntry ==
  \A n \in Event : Once(n) \in Entry /\ Once(n) # ErrorMsg /\ Once(n).event = n
BY Sizes DEF Once, Entry, Event, ErrorMsg

(* A buffer cut to its last entries when it is longer than allowed.        *)
LEMMA CutProperties ==
  ASSUME NEW S, NEW s \in Seq(S), NEW keep \in Nat, keep > 0,
         keep <= Len(s)
  PROVE  LET cut == SubSeq(s, Len(s) - keep + 1, Len(s)) IN
         /\ cut \in Seq(S) /\ Len(cut) = keep
         /\ \A i \in 1..keep : cut[i] = s[(Len(s) - keep) + i]
<1> DEFINE m == Len(s) - keep + 1
<1>1. Len(s) \in Nat /\ m \in Int /\ m >= 1 /\ m <= Len(s)
  OBVIOUS
<1>2. \A i \in m..Len(s) : s[i] \in S
  BY <1>1
<1>3. /\ SubSeq(s, m, Len(s)) \in Seq(S)
      /\ Len(SubSeq(s, m, Len(s))) = IF m <= Len(s) THEN Len(s) - m + 1 ELSE 0
      /\ \A i \in 1..(Len(s) - m + 1) : SubSeq(s, m, Len(s))[i] = s[m + i - 1]
  <2> HIDE DEF m
  <2> QED
    BY <1>1, <1>2, SubSeqProperties
<1>4. Len(s) - m + 1 = keep
  BY <1>1
<1>5. \A i \in 1..keep : m + i - 1 = (Len(s) - keep) + i
  BY <1>1
<1> QED
  BY <1>1, <1>3, <1>4, <1>5

(* The new event is the last of the ring.                                  *)
LEMMA PushProperties ==
  ASSUME NEW r \in Seq(Entry), Len(r) <= RingSize, NEW n \in Nat,
         n + 1 \in Event, Len(r) <= n,
         \A i \in 1..Len(r) : r[i] = Once((n - Len(r)) + i)
  PROVE  LET q == Push(r, Once(n + 1)) IN
         /\ q \in Seq(Entry) /\ Len(q) <= RingSize /\ Len(q) <= n + 1
         /\ Len(q) >= 1
         /\ \A i \in 1..Len(q) : q[i] = Once(((n + 1) - Len(q)) + i)
<1> DEFINE long == Append(r, Once(n + 1))
<1>1. Once(n + 1) \in Entry /\ Len(r) \in Nat
  BY OnceIsEntry
<1>2. /\ long \in Seq(Entry) /\ Len(long) = Len(r) + 1
      /\ \A i \in 1..Len(r) : long[i] = r[i]
      /\ long[Len(r) + 1] = Once(n + 1)
  BY <1>1
<1>3. \A i \in 1..Len(long) : long[i] = Once(((n + 1) - Len(long)) + i)
  BY <1>2
<1> HIDE DEF long
<1>4. CASE Len(long) > RingSize
  <2>1. Len(long) = RingSize + 1
    BY <1>2, <1>4, Sizes
  <2>2. long # << >>
    BY <1>2
  <2>3. /\ Tail(long) \in Seq(Entry) /\ Len(Tail(long)) = Len(long) - 1
        /\ \A i \in 1..Len(Tail(long)) : Tail(long)[i] = long[i + 1]
    BY <1>2, <2>2, HeadTailProperties
  <2>4. Push(r, Once(n + 1)) = Tail(long)
    BY <1>4 DEF Push, long
  <2>5. \A i \in 1..Len(Tail(long)) :
          Tail(long)[i] = Once(((n + 1) - Len(Tail(long))) + i)
    <3> SUFFICES ASSUME NEW i \in 1..Len(Tail(long))
                 PROVE  Tail(long)[i] = Once(((n + 1) - Len(Tail(long))) + i)
      OBVIOUS
    <3> DEFINE t == Len(Tail(long))
    <3>a. /\ t \in Nat /\ Len(long) \in Nat /\ t = Len(long) - 1
          /\ i \in 1..t /\ n \in Nat
      BY <1>1, <1>2, <2>3
    <3>1. i + 1 \in 1..Len(long)
      <4> HIDE DEF t
      <4> QED
        BY <3>a
    <3>2. Tail(long)[i] = Once(((n + 1) - Len(long)) + (i + 1))
      BY <1>3, <2>3, <3>1
    <3>3. ((n + 1) - Len(long)) + (i + 1) = ((n + 1) - t) + i
      <4> HIDE DEF t
      <4> QED
        BY <3>a
    <3> QED
      BY <3>2, <3>3
  <2>6. Len(Tail(long)) = RingSize
    BY <2>1, <2>3, Sizes
  <2>7. RingSize <= n + 1
    BY <1>1, <1>2, <2>1, Sizes
  <2> DEFINE t == Tail(long)
  <2>8. /\ t \in Seq(Entry) /\ Len(t) <= RingSize /\ Len(t) <= n + 1
        /\ Len(t) >= 1
        /\ \A i \in 1..Len(t) : t[i] = Once(((n + 1) - Len(t)) + i)
    BY <2>3, <2>5, <2>6, <2>7, Sizes
  <2> HIDE DEF t
  <2> QED
    BY <2>4, <2>8 DEF t
<1>5. CASE ~ (Len(long) > RingSize)
  <2>1. Push(r, Once(n + 1)) = long
    BY <1>5 DEF Push, long
  <2>2. Len(long) \in Nat /\ Len(long) >= 1 /\ Len(long) <= n + 1
    BY <1>1, <1>2
  <2>3. Len(long) <= RingSize
    BY <1>5, <2>2, Sizes
  <2>4. long \in Seq(Entry)
    BY <1>2
  <2> QED
    BY <1>3, <2>1, <2>2, <2>3, <2>4, Zenon
<1> QED
  BY <1>4, <1>5

(* At most so many different events are within a ring's length of one.     *)
LEMMA FewInReach ==
  ASSUME NEW h \in Seq(Nat), NEW p \in 1..Len(h),
         \A i, j \in 1..Len(h) : h[i] = h[j] => i = j,
         \A i \in p..Len(h) : InReach(h[p], h[i]) /\ InReach(h[i], h[p])
  PROVE  Len(h) - p + 1 <= 2 * RingSize - 1
<1> DEFINE k == Len(h) - p + 1
           K == 1..k
           T == 1..(2 * RingSize - 1)
           f == [i \in K |-> (h[(p + i) - 1] + RingSize) - h[p]]
<1>1. Len(h) \in Nat /\ p \in Nat /\ p >= 1 /\ k \in Nat
      /\ \A i \in 1..Len(h) : h[i] \in Nat
  OBVIOUS
<1>2. \A i \in K : (p + i) - 1 \in p..Len(h)
  BY <1>1
<1>3. f \in [K -> T]
  <2> SUFFICES ASSUME NEW i \in K PROVE (h[(p + i) - 1] + RingSize) - h[p] \in T
    OBVIOUS
  <2> DEFINE j == (p + i) - 1
  <2>1. j \in p..Len(h) /\ j \in 1..Len(h)
    BY <1>1, <1>2
  <2>2. h[j] \in Nat /\ h[p] \in Nat
    <3> HIDE DEF j
    <3> QED
      BY <1>1, <2>1
  <2>3. h[p] < h[j] + RingSize /\ h[j] < h[p] + RingSize
    <3> HIDE DEF j
    <3> QED
      BY <2>1 DEF InReach
  <2>4. \A a, b \in Nat :
          a < b + RingSize /\ b < a + RingSize => (b + RingSize) - a \in T
    BY Sizes
  <2> HIDE DEF j, T
  <2>5. (h[j] + RingSize) - h[p] \in T
    BY <2>2, <2>3, <2>4
  <2> QED
    BY <2>5 DEF j
<1>4. \A i, j \in K : f[i] = f[j] => i = j
  <2> SUFFICES ASSUME NEW i \in K, NEW j \in K, f[i] = f[j] PROVE i = j
    OBVIOUS
  <2> DEFINE a == (p + i) - 1
             b == (p + j) - 1
  <2>1. a \in 1..Len(h) /\ b \in 1..Len(h)
    BY <1>1, <1>2
  <2>2. (h[a] + RingSize) - h[p] = (h[b] + RingSize) - h[p]
    OBVIOUS
  <2>3. a = b => i = j
    BY <1>1
  <2> HIDE DEF a, b, f, K
  <2>4. h[a] \in Nat /\ h[b] \in Nat /\ h[p] \in Nat
    BY <1>1, <2>1
  <2>5. h[a] = h[b]
    <3>1. \A x, y, z \in Nat : (x + RingSize) - z = (y + RingSize) - z => x = y
      BY Sizes
    <3> QED
      BY <2>2, <2>4, <3>1
  <2>6. a = b
    <3>1. \A m, n \in 1..Len(h) : h[m] = h[n] => m = n
      OBVIOUS
    <3> QED
      BY <2>1, <2>5, <3>1, Zenon
  <2> QED
    BY <2>3, <2>6
<1>5. IsFiniteSet(K) /\ Cardinality(K) = k
  BY <1>1, FS_Interval
<1>6. IsFiniteSet(T) /\ Cardinality(T) = 2 * RingSize - 1
  BY Sizes, FS_Interval
<1>7. ~ (Cardinality(T) < Cardinality(K))
  <2> HIDE DEF K, T, f
  <2> QED
    BY <1>3, <1>4, <1>5, <1>6, FS_PigeonHole
<1> QED
  BY <1>1, <1>5, <1>6, <1>7, Sizes

LEMMA TailGrows ==
  ASSUME NEW s \in Seq(Entry), NEW h \in Seq(Event), IsTail(s, h),
         NEW e \in Event
  PROVE  IsTail(Append(s, Once(e)), Append(h, e))
<1>1. /\ Len(s) \in Nat /\ Len(h) \in Nat /\ Len(s) <= Len(h)
      /\ Once(e) \in Entry
  BY OnceIsEntry DEF IsTail
<1>2. /\ Len(Append(s, Once(e))) = Len(s) + 1
      /\ Len(Append(h, e)) = Len(h) + 1
  BY <1>1
<1>3. ASSUME NEW i \in 1..(Len(s) + 1)
      PROVE  Append(s, Once(e))[i] = Once(Append(h, e)[(Len(h) - Len(s)) + i])
  <2>1. CASE i <= Len(s)
    <3>1. i \in 1..Len(s) /\ (Len(h) - Len(s)) + i \in 1..Len(h)
      BY <1>1, <2>1
    <3>2. Append(s, Once(e))[i] = s[i]
      BY <1>1, <3>1
    <3>3. Append(h, e)[(Len(h) - Len(s)) + i] = h[(Len(h) - Len(s)) + i]
      BY <3>1
    <3> QED
      BY <3>1, <3>2, <3>3 DEF IsTail
  <2>2. CASE i = Len(s) + 1
    <3>1. (Len(h) - Len(s)) + i = Len(h) + 1
      BY <1>1, <2>2
    <3>2. Append(h, e)[Len(h) + 1] = e /\ Append(s, Once(e))[Len(s) + 1] = Once(e)
      BY <1>1
    <3> QED
      BY <2>2, <3>1, <3>2
  <2> QED
    BY <1>1, <2>1, <2>2
<1>4. (Len(h) + 1) - (Len(s) + 1) = Len(h) - Len(s)
  BY <1>1
<1> DEFINE t == Append(s, Once(e))
           g == Append(h, e)
<1>5. /\ Len(t) <= Len(g)
      /\ Len(t) = Len(s) + 1 /\ Len(g) - Len(t) = Len(h) - Len(s)
  BY <1>1, <1>2, <1>4
<1> HIDE DEF t, g
<1>6. \A i \in 1..Len(t) : t[i] = Once(g[(Len(g) - Len(t)) + i])
  BY <1>3, <1>5 DEF t, g
<1>7. IsTail(t, g)
  BY <1>5, <1>6 DEF IsTail
<1> QED
  BY <1>7 DEF t, g

LEMMA TailCut ==
  ASSUME NEW s \in Seq(Entry), NEW h \in Seq(Event), IsTail(s, h),
         NEW keep \in Nat, keep > 0, keep <= Len(s)
  PROVE  LET cut == SubSeq(s, Len(s) - keep + 1, Len(s)) IN
         cut \in Seq(Entry) /\ Len(cut) = keep /\ IsTail(cut, h)
<1> DEFINE cut == SubSeq(s, Len(s) - keep + 1, Len(s))
<1>1. /\ cut \in Seq(Entry) /\ Len(cut) = keep
      /\ \A i \in 1..keep : cut[i] = s[(Len(s) - keep) + i]
  BY CutProperties
<1>2. Len(s) \in Nat /\ Len(h) \in Nat /\ Len(s) <= Len(h)
  BY DEF IsTail
<1>3. ASSUME NEW i \in 1..keep
      PROVE  cut[i] = Once(h[(Len(h) - keep) + i])
  <2> DEFINE j == (Len(s) - keep) + i
  <2>1. j \in 1..Len(s) /\ (Len(h) - Len(s)) + j = (Len(h) - keep) + i
    BY <1>2
  <2>2. cut[i] = s[j]
    BY <1>1
  <2> HIDE DEF j, cut
  <2>3. s[j] = Once(h[(Len(h) - Len(s)) + j])
    BY <2>1 DEF IsTail
  <2> QED
    BY <2>1, <2>2, <2>3
<1> HIDE DEF cut
<1>4. IsTail(cut, h)
  BY <1>1, <1>2, <1>3 DEF IsTail
<1> QED
  BY <1>1, <1>4 DEF cut

-----------------------------------------------------------------------------
(* What a tick sends.                                                      *)

(* Messages sent now: of events that are in the ring.                      *)
Batch(msgs) ==
  /\ msgs \in Seq(Message)
  /\ \A i \in 1..Len(msgs) : msgs[i] # ErrorMsg =>
       \E n \in 1..recorded : msgs[i] = Once(n) /\ InReach(recorded, n)

LEMMA RingIsBatch ==
  ASSUME FeedInv, NEW i \in 1..Len(ring)
  PROVE  \E n \in 1..recorded : ring[i] = Once(n) /\ InReach(recorded, n)
<1>1. /\ Len(ring) \in Nat /\ recorded \in Nat
      /\ Len(ring) <= RingSize /\ Len(ring) <= recorded
  BY Sizes DEF FeedInv, RingOK, CountsOK
<1> DEFINE n == (recorded - Len(ring)) + i
<1>2. n \in 1..recorded /\ InReach(recorded, n)
  BY <1>1, Sizes DEF InReach
<1>3. ring[i] = Once(n)
  BY DEF FeedInv, RingOK
<1> QED
  BY <1>2, <1>3

LEMMA FreshIsBatch ==
  ASSUME FeedInv, NEW c \in Conns
  PROVE  Batch(Fresh(c))
<1>1. ring \in Seq(Message) /\ Len(ring) \in Nat /\ cursor[c] \in Nat
  <2>1. Entry \subseteq Message
    BY DEF Message
  <2>2. ring \in Seq(Entry)
    BY DEF FeedInv, RingOK
  <2>3. cursor[c] \in 0..RingSize
    BY DEF FeedInv, CountsOK
  <2> QED
    BY <2>1, <2>2, <2>3, Sizes
<1>2. Batch(ring)
  BY <1>1, RingIsBatch DEF Batch
<1>3. CASE Len(ring) > cursor[c]
  <2> DEFINE m == cursor[c] + 1
             part == SubSeq(ring, m, Len(ring))
  <2>1. m \in Int /\ Len(ring) \in Int /\ m >= 1 /\ m <= Len(ring)
    BY <1>1, <1>3
  <2>2. \A i \in m..Len(ring) : ring[i] \in Message
    BY <1>1, <2>1
  <2> HIDE DEF m
  <2>3. /\ part \in Seq(Message) /\ Len(part) = Len(ring) - m + 1
        /\ \A i \in 1..(Len(ring) - m + 1) : part[i] = ring[m + i - 1]
    BY <2>1, <2>2, SubSeqProperties
  <2>4. Fresh(c) = part
    <3>1. ~ (Len(ring) < cursor[c])
      BY <1>1, <1>3
    <3> HIDE DEF part
    <3>2. Fresh(c) = SubSeq(ring, cursor[c] + 1, Len(ring))
      BY <1>3, <3>1, Zenon DEF Fresh
    <3> QED
      BY <3>2, Zenon DEF part, m
  <2> HIDE DEF part
  <2>5. \A i \in 1..Len(part) : m + i - 1 \in 1..Len(ring) /\ part[i] = ring[m + i - 1]
    <3>1. \A i \in 1..(Len(ring) - m + 1) : m + i - 1 \in 1..Len(ring)
      BY <1>1, <2>1
    <3> QED
      BY <2>3, <3>1
  <2>6. Batch(part)
    BY <2>3, <2>5, RingIsBatch DEF Batch
  <2> QED
    BY <2>4, <2>6
<1>4. CASE Len(ring) < cursor[c]
  BY <1>1, <1>2, <1>4 DEF Fresh
<1>5. CASE Len(ring) = cursor[c]
  <2>1. Fresh(c) = << >>
    BY <1>1, <1>5 DEF Fresh
  <2>2. Batch(<< >>)
    BY DEF Batch
  <2> QED
    BY <2>1, <2>2
<1> QED
  BY <1>1, <1>3, <1>4, <1>5

LEMMA ErrorIsBatch == Batch(<<ErrorMsg>>)
BY DEF Batch, Message

(* What is sent now is in reach of all that was shown or sent before.      *)
LEMMA DeliverOK ==
  ASSUME FeedInv, NEW c \in Conns, NEW msgs, Batch(msgs), Deliver(c, msgs),
         UNCHANGED <<recorded, page>>
  PROVE  WireOK' /\ WireInReach'
<1>1. CASE ~ Connected(c)
  <2>1. wire' = wire
    BY <1>1 DEF Deliver
  <2> QED
    BY <2>1 DEF FeedInv, WireOK, WireInReach
<1>2. CASE Connected(c)
  <2> DEFINE w == wire[c] \o msgs
             old == wire[c]
  <2>1. /\ wire \in [Conns -> Seq(Message)] /\ old \in Seq(Message)
        /\ msgs \in Seq(Message)
    BY DEF FeedInv, WireOK, Batch
  <2>2. wire' = [wire EXCEPT ![c] = w]
    BY <1>2 DEF Deliver
  <2>3. /\ w \in Seq(Message) /\ Len(w) = Len(old) + Len(msgs)
        /\ \A i \in 1..(Len(old) + Len(msgs)) :
             w[i] = IF i <= Len(old) THEN old[i] ELSE msgs[i - Len(old)]
    <3> HIDE DEF old
    <3>1. w = old \o msgs
      BY DEF old
    <3> HIDE DEF w
    <3> QED
      BY <2>1, <3>1, ConcatProperties
  <2>4. Len(old) \in Nat /\ Len(msgs) \in Nat
    BY <2>1
  <2>5. \A d \in Conns : wire'[d] = IF d = c THEN w ELSE wire[d]
    BY <2>1, <2>2
  <2>6. wire' \in [Conns -> Seq(Message)]
    BY <2>1, <2>2, <2>3
  <2> HIDE DEF w
  \* Of an old message and of a new one.
  <2>7. ASSUME NEW i \in 1..Len(w), i <= Len(old), w[i] # ErrorMsg
        PROVE  /\ \E n \in 1..recorded : w[i] = Once(n)
               /\ \A p \in 1..Len(page.shown) : InReach(page.shown[p], w[i].event)
               /\ \A j \in 1..(i - 1) :
                    w[j] # ErrorMsg => InReach(w[j].event, w[i].event)
    <3>1. i \in 1..Len(old) /\ w[i] = old[i]
      BY <2>3, <2>4, <2>7
    <3>2. \A j \in 1..(i - 1) : w[j] = old[j]
      BY <2>3, <2>4, <2>7
    <3> QED
      BY <2>7, <3>1, <3>2 DEF FeedInv, WireOK, WireInReach
  <2>8. ASSUME NEW i \in 1..Len(w), ~ (i <= Len(old)), w[i] # ErrorMsg
        PROVE  \E n \in 1..recorded : w[i] = Once(n) /\ InReach(recorded, n)
    <3>1. i - Len(old) \in 1..Len(msgs) /\ w[i] = msgs[i - Len(old)]
      BY <2>3, <2>4, <2>8
    <3> QED
      BY <2>8, <3>1 DEF Batch
  <2>9. \A i \in 1..Len(w) : w[i] # ErrorMsg => \E n \in 1..recorded : w[i] = Once(n)
    BY <2>7, <2>8
  <2>a. recorded \in Nat /\ recorded <= MaxEvents
    BY Sizes DEF FeedInv, CountsOK
  <2>b. \A n : Once(n).event = n
    BY DEF Once
  <2>c. ASSUME NEW i \in 1..Len(w), ~ (i <= Len(old)), w[i] # ErrorMsg
        PROVE  \A a \in 1..recorded : InReach(a, w[i].event)
    <3>1. PICK n \in 1..recorded : w[i] = Once(n) /\ InReach(recorded, n)
      BY <2>8, <2>c
    <3>2. w[i].event = n
      BY <2>b, <3>1
    <3> QED
      BY <2>a, <3>1, <3>2, Sizes DEF InReach
  <2>d. \A p \in 1..Len(page.shown) : page.shown[p] \in 1..recorded
    <3>1. page.shown \in Seq(Event)
      BY DEF FeedInv, HistoryOK, PageState
    <3>2. \A p \in 1..Len(page.shown) : page.shown[p] \in Event
      BY <3>1
    <3> QED
      BY <2>a, <3>2, Sizes DEF FeedInv, HistoryOK, Event
  <2>e. ASSUME NEW i \in 1..Len(w), w[i] # ErrorMsg
        PROVE  /\ \A p \in 1..Len(page.shown) : InReach(page.shown[p], w[i].event)
               /\ \A j \in 1..(i - 1) :
                    w[j] # ErrorMsg => InReach(w[j].event, w[i].event)
    <3>1. CASE i <= Len(old)
      BY <2>7, <2>e, <3>1
    <3>2. CASE ~ (i <= Len(old))
      <4>1. \A j \in 1..(i - 1) : w[j] # ErrorMsg => w[j].event \in 1..recorded
        <5>1. \A j \in 1..(i - 1) : j \in 1..Len(w)
          BY <2>3, <2>4
        <5> QED
          BY <2>9, <2>b, <5>1
      <4> QED
        BY <2>c, <2>d, <2>e, <3>2, <4>1
    <3> QED
      BY <3>1, <3>2
  <2>f. WireOK'
    <3>1. \A d \in Conns : d # page'.conn => wire'[d] = << >>
      BY <1>2, <2>5 DEF FeedInv, WireOK, Connected
    <3>2. \A d \in Conns : \A i \in 1..Len(wire'[d]) :
            wire'[d][i] # ErrorMsg => \E n \in 1..recorded' : wire'[d][i] = Once(n)
      BY <2>5, <2>9 DEF FeedInv, WireOK
    <3> QED
      BY <2>6, <3>1, <3>2 DEF WireOK
  <2>g. WireInReach'
    BY <2>5, <2>e DEF FeedInv, WireInReach
  <2> QED
    BY <2>f, <2>g
<1> QED
  BY <1>1, <1>2

-----------------------------------------------------------------------------
(* What the page makes of a message.                                       *)

LEMMA ShownType ==
  ASSUME FeedInv
  PROVE  /\ recorded \in Nat /\ recorded <= MaxEvents
         /\ page.shown \in Seq(Event) /\ page.shown \in Seq(Nat)
         /\ page.seen \in Seq(Entry) /\ page.flow \in Seq(Entry)
         /\ Len(page.shown) \in Nat /\ Len(page.seen) \in Nat
         /\ Len(page.flow) \in Nat
         /\ \A p \in 1..Len(page.shown) : page.shown[p] \in Event
<1>1. recorded \in Nat /\ recorded <= MaxEvents
  BY Sizes DEF FeedInv, CountsOK
<1>2. /\ page.shown \in Seq(Event) /\ page.seen \in Seq(Entry)
      /\ page.flow \in Seq(Entry)
  BY DEF FeedInv, HistoryOK, PageState
<1>3. page.shown \in Seq(Nat)
  <2>1. Event \subseteq Nat
    BY DEF Event
  <2> QED
    BY <1>2, <2>1, SeqMonotonic
<1> QED
  BY <1>1, <1>2, <1>3

(* What `seen` does not hold has never been shown.  If it were shown and   *)
(* cut since, SeenKeep events were shown after it, all of them recorded    *)
(* less than a ring's length before or after it: too many.                 *)
LEMMA UnseenIsNew ==
  ASSUME FeedInv, NEW c \in Conns, NEW e \in Event,
         Len(wire[c]) >= 1, wire[c][1] = Once(e), ~ Remembered(page, Once(e)),
         NEW p \in 1..Len(page.shown)
  PROVE  page.shown[p] # e
<1> SUFFICES ASSUME page.shown[p] = e PROVE FALSE
  OBVIOUS
<1> DEFINE h == page.shown
           k == Len(page.seen)
<1>1. /\ h \in Seq(Nat) /\ Len(h) \in Nat /\ k \in Nat /\ k <= Len(h)
      /\ page.seen \in Seq(Entry) /\ p \in 1..Len(h)
  BY ShownType DEF FeedInv, SeenOK, IsTail
<1>2. p <= Len(h) - k
  <2>a. ASSUME ~ (p <= Len(h) - k)
        PROVE  p - (Len(h) - k) \in 1..k /\ (Len(h) - k) + (p - (Len(h) - k)) = p
    <3> HIDE DEF h, k
    <3> QED
      BY <1>1, <2>a
  <2> SUFFICES ASSUME ~ (p <= Len(h) - k) PROVE FALSE
    OBVIOUS
  <2> DEFINE i == p - (Len(h) - k)
  <2>1. i \in 1..k /\ (Len(h) - k) + i = p
    BY <2>a
  <2>2. page.seen[i] = Once(h[(Len(h) - k) + i])
    BY <2>1 DEF FeedInv, SeenOK, IsTail
  <2>3. page.seen[i] = Once(e)
    BY <2>1, <2>2
  <2> HIDE DEF i
  <2>4. i \in DOMAIN page.seen
    <3>1. DOMAIN page.seen = 1..k
      BY <1>1
    <3> HIDE DEF k
    <3> QED
      BY <2>1, <3>1
  <2> QED
    BY <2>3, <2>4 DEF Remembered
<1>3. k >= SeenKeep
  BY <1>1, <1>2 DEF FeedInv, SeenOK
<1>4. \A i, j \in 1..Len(h) : h[i] = h[j] => i = j
  BY DEF FeedInv, HistoryOK
<1>5. \A i \in p..Len(h) : InReach(h[p], h[i]) /\ InReach(h[i], h[p])
  <2> SUFFICES ASSUME NEW i \in p..Len(h)
               PROVE  InReach(h[p], h[i]) /\ InReach(h[i], h[p])
    OBVIOUS
  <2>1. i \in 1..Len(h) /\ h[i] \in Nat /\ h[p] \in Nat
    <3> HIDE DEF h
    <3>1. i \in 1..Len(h)
      BY <1>1
    <3> QED
      BY <1>1, <3>1
  <2>2. CASE i = p
    BY <2>1, <2>2, Sizes DEF InReach
  <2>3. CASE p < i
    <3>1. InReach(h[p], h[i])
      BY <2>1, <2>3 DEF FeedInv, ShownInReach
    <3>2. 1 \in 1..Len(wire[c]) /\ wire[c][1] # ErrorMsg /\ wire[c][1].event = e
      <4>1. Len(wire[c]) \in Nat
        BY DEF FeedInv, WireOK
      <4>2. Once(e) # ErrorMsg /\ Once(e).event = e
        BY OnceIsEntry
      <4> QED
        BY <4>1, <4>2
    <3>3. InReach(h[i], e)
      BY <2>1, <3>2 DEF FeedInv, WireInReach
    <3> QED
      BY <3>1, <3>3
  <2> QED
    BY <1>1, <2>1, <2>2, <2>3
<1> HIDE DEF h, k
<1>6. Len(h) - p + 1 <= 2 * RingSize - 1
  BY <1>1, <1>4, <1>5, FewInReach
<1> QED
  BY <1>1, <1>2, <1>3, <1>6, Sizes

(* The buffers after a new event.                                          *)
LEMMA RememberOK ==
  ASSUME FeedInv, NEW e \in Event
  PROVE  LET s == Remember(page.seen, Once(e))
             h == Append(page.shown, e) IN
         /\ s \in Seq(Entry) /\ IsTail(s, h) /\ Len(s) <= SeenMax
         /\ Len(s) = Len(h) \/ Len(s) >= SeenKeep
<1> DEFINE long == Append(page.seen, Once(e))
           h == Append(page.shown, e)
<1>1. IsTail(page.seen, page.shown) /\ IsTail(long, h)
  BY ShownType, TailGrows DEF FeedInv, SeenOK
<1>2. /\ long \in Seq(Entry) /\ h \in Seq(Event)
      /\ Len(long) = Len(page.seen) + 1 /\ Len(h) = Len(page.shown) + 1
      /\ Len(long) \in Nat /\ Len(h) \in Nat
  BY ShownType, OnceIsEntry
<1>3. Len(page.seen) = Len(page.shown) \/ Len(page.seen) >= SeenKeep
  BY DEF FeedInv, SeenOK
<1> DEFINE cut == SubSeq(long, Len(long) - SeenKeep + 1, Len(long))
<1>4. Remember(page.seen, Once(e)) = IF Len(long) > SeenMax THEN cut ELSE long
  BY DEF Remember
<1>5. Len(long) > SeenMax =>
        cut \in Seq(Entry) /\ Len(cut) = SeenKeep /\ IsTail(cut, h)
  <2> HIDE DEF long, h
  <2>1. Len(long) > SeenMax => SeenKeep \in Nat /\ SeenKeep > 0 /\ SeenKeep <= Len(long)
    BY <1>2, Sizes
  <2> QED
    BY <1>1, <1>2, <2>1, TailCut
<1>6. Len(page.seen) \in Nat /\ Len(page.shown) \in Nat
  BY ShownType
<1> HIDE DEF long, h, cut
<1>7. CASE Len(long) > SeenMax
  BY <1>4, <1>5, <1>7, Sizes DEF h
<1>8. CASE ~ (Len(long) > SeenMax)
  BY <1>1, <1>2, <1>3, <1>4, <1>6, <1>8, Sizes DEF h
<1> QED
  BY <1>7, <1>8

LEMMA ShowOK ==
  ASSUME FeedInv, NEW e \in Event
  PROVE  LET s == Show(page.flow, Once(e))
             h == Append(page.shown, e) IN
         s \in Seq(Entry) /\ IsTail(s, h) /\ Len(s) <= FlowMax
<1> DEFINE long == Append(page.flow, Once(e))
           h == Append(page.shown, e)
<1>1. IsTail(long, h)
  BY ShownType, TailGrows DEF FeedInv, FlowOK
<1>2. /\ long \in Seq(Entry) /\ h \in Seq(Event)
      /\ Len(long) = Len(page.flow) + 1 /\ Len(long) \in Nat
  BY ShownType, OnceIsEntry
<1> DEFINE cut == SubSeq(long, Len(long) - FlowMax + 1, Len(long))
<1>4. Show(page.flow, Once(e)) = IF Len(long) > FlowMax THEN cut ELSE long
  BY DEF Show
<1>5. Len(long) > FlowMax =>
        cut \in Seq(Entry) /\ Len(cut) = FlowMax /\ IsTail(cut, h)
  <2> HIDE DEF long, h
  <2>1. Len(long) > FlowMax => FlowMax \in Nat /\ FlowMax > 0 /\ FlowMax <= Len(long)
    BY <1>2, Sizes
  <2> QED
    BY <1>1, <1>2, <2>1, TailCut
<1> HIDE DEF long, h, cut
<1>7. CASE Len(long) > FlowMax
  BY <1>4, <1>5, <1>7, Sizes DEF h
<1>8. CASE ~ (Len(long) > FlowMax)
  BY <1>1, <1>2, <1>4, <1>8, Sizes DEF h
<1> QED
  BY <1>7, <1>8

(* What the page does to a message that it has not seen.                   *)
LEMMA HandleNew ==
  ASSUME FeedInv, NEW e \in Event, ~ Remembered(page, Once(e))
  PROVE  LET q == Handle(page, Once(e)) IN
         /\ q \in PageState /\ q.conn = page.conn
         /\ q.seen = Remember(page.seen, Once(e))
         /\ q.flow = Show(page.flow, Once(e))
         /\ q.shown = Append(page.shown, e)
<1> DEFINE s == Remember(page.seen, Once(e))
           f == Show(page.flow, Once(e))
           h == Append(page.shown, e)
           q == Handle(page, Once(e))
<1>1. Once(e) # ErrorMsg /\ Once(e).event = e
  BY OnceIsEntry
<1>2. q = [page EXCEPT !.seen = s, !.flow = f, !.shown = h]
  BY <1>1 DEF Handle
<1>3. s \in Seq(Entry) /\ f \in Seq(Entry)
  BY RememberOK, ShowOK
<1>4. h \in Seq(Event)
  BY ShownType
<1>5. page \in PageState
  BY DEF FeedInv, HistoryOK
<1> HIDE DEF s, f, h, q
<1>6. q \in PageState /\ q.conn = page.conn /\ q.seen = s /\ q.flow = f /\ q.shown = h
  BY <1>2, <1>3, <1>4, <1>5 DEF PageState
<1> QED
  BY <1>6 DEF s, f, h, q

LEMMA HandleOld ==
  ASSUME FeedInv, NEW m, m = ErrorMsg \/ Remembered(page, m)
  PROVE  LET q == Handle(page, m) IN
         /\ q \in PageState /\ q.conn = page.conn
         /\ q.seen = page.seen /\ q.flow = page.flow /\ q.shown = page.shown
<1>1. page \in PageState
  BY DEF FeedInv, HistoryOK
<1>2. CASE m = ErrorMsg
  BY <1>1, <1>2 DEF Handle, PageState
<1>3. CASE m # ErrorMsg /\ Remembered(page, m)
  BY <1>1, <1>3 DEF Handle
<1> QED
  BY <1>2, <1>3

-----------------------------------------------------------------------------
(* c is the connection in use, w what is on its way.                       *)
LEMMA HandleOK ==
  ASSUME FeedInv, NEW c \in Conns, NEW w \in Seq(Message),
         c = page.conn, w = wire[c], w # << >>,
         page' = Handle(page, Head(w)), UNCHANGED recorded,
         wire' = [wire EXCEPT ![c] = Tail(w)]
  PROVE  /\ WireOK' /\ WireInReach' /\ ShownInReach'
         /\ SeenOK' /\ FlowOK' /\ HistoryOK'
<1> DEFINE m == Head(w)
           h == page.shown
<1>1. wire \in [Conns -> Seq(Message)]
  BY DEF FeedInv, WireOK
<1>2. /\ Len(w) \in Nat /\ Len(w) >= 1 /\ m = w[1]
      /\ Tail(w) \in Seq(Message) /\ Len(Tail(w)) = Len(w) - 1
      /\ \A i \in 1..Len(Tail(w)) : Tail(w)[i] = w[i + 1]
  <2>1. m = w[1] /\ Len(w) \in Nat /\ Len(w) >= 1
    OBVIOUS
  <2> QED
    BY <2>1, HeadTailProperties
<1>3. /\ \A d \in Conns : wire'[d] = IF d = c THEN Tail(w) ELSE wire[d]
      /\ wire' \in [Conns -> Seq(Message)]
  <2>3. \A d \in Conns : wire'[d] = IF d = c THEN Tail(w) ELSE wire[d]
    BY <1>1
  <2>4. wire' \in [Conns -> Seq(Message)]
    BY <1>1, <1>2
  <2> QED
    BY <2>3, <2>4
<1>4. m # ErrorMsg => \E n \in 1..recorded : m = Once(n)
  BY <1>1, <1>2 DEF FeedInv, WireOK
<1>b. \A d \in Conns : d # c => wire[d] = << >>
  BY DEF FeedInv, WireOK
<1>5. \A d \in Conns : \A i \in 1..Len(wire'[d]) :
        \E j \in 1..Len(wire[d]) :
          /\ wire'[d][i] = wire[d][j] /\ (d = c => j = i + 1)
          /\ (d # c => j = i)
  <2> SUFFICES ASSUME NEW d \in Conns, NEW i \in 1..Len(wire'[d])
               PROVE  \E j \in 1..Len(wire[d]) :
                        /\ wire'[d][i] = wire[d][j] /\ (d = c => j = i + 1)
                        /\ (d # c => j = i)
    OBVIOUS
  <2>1. CASE d = c
    <3>0. wire'[d] = Tail(w)
      BY <1>3, <2>1
    <3>a. i \in 1..Len(Tail(w)) /\ wire'[d][i] = w[i + 1]
      BY <1>2, <3>0
    <3>1. i + 1 \in 1..Len(w) /\ wire'[d][i] = w[i + 1]
      BY <1>2, <3>a
    <3> QED
      BY <2>1, <3>1
  <2>2. CASE d # c
    <3>1. wire'[d] = wire[d]
      BY <1>3, <2>2
    <3> QED
      BY <2>2, <3>1
  <2> QED
    BY <2>1, <2>2
<1>6. \A d \in Conns : \A i \in 1..Len(wire'[d]) :
        wire'[d][i] # ErrorMsg => \E n \in 1..recorded : wire'[d][i] = Once(n)
  BY <1>5 DEF FeedInv, WireOK
<1>7. page'.conn = c => WireOK'
  <2> SUFFICES ASSUME page'.conn = c PROVE WireOK'
    OBVIOUS
  <2>1. \A d \in Conns : d # c => wire'[d] = << >>
    BY <1>3, <1>b
  <2> QED
    BY <1>3, <1>6, <2>1 DEF WireOK
\* The messages behind the first one, among themselves and with the history.
<1>8. ASSUME NEW d \in Conns, NEW i \in 1..Len(wire'[d]), wire'[d][i] # ErrorMsg
      PROVE  /\ \A p \in 1..Len(h) : InReach(h[p], wire'[d][i].event)
             /\ \A j \in 1..(i - 1) :
                  wire'[d][j] # ErrorMsg =>
                    InReach(wire'[d][j].event, wire'[d][i].event)
             /\ d = c /\ m # ErrorMsg => InReach(m.event, wire'[d][i].event)
  <2>1. PICK j \in 1..Len(wire[d]) : /\ wire'[d][i] = wire[d][j]
                                     /\ d = c => j = i + 1
                                     /\ d # c => j = i
    BY <1>5
  <2>2. \A p \in 1..Len(h) : InReach(h[p], wire'[d][i].event)
    BY <1>8, <2>1 DEF FeedInv, WireInReach
  <2>3. \A l \in 1..(j - 1) :
          wire[d][l] # ErrorMsg => InReach(wire[d][l].event, wire[d][j].event)
    BY <1>8, <2>1 DEF FeedInv, WireInReach
  <2>4. Len(wire'[d]) \in Nat /\ Len(wire[d]) \in Nat
    BY <1>1, <1>3
  <2>5. ASSUME NEW l \in 1..(i - 1), wire'[d][l] # ErrorMsg
        PROVE  InReach(wire'[d][l].event, wire'[d][i].event)
    <3>1. l \in 1..Len(wire'[d])
      BY <2>4
    <3>2. PICK k \in 1..Len(wire[d]) : /\ wire'[d][l] = wire[d][k]
                                       /\ d = c => k = l + 1
                                       /\ d # c => k = l
      BY <1>5, <3>1
    <3>3. k \in 1..(j - 1)
      BY <2>1, <3>2
    <3> QED
      BY <2>1, <2>3, <2>5, <3>2, <3>3
  <2>6. d = c /\ m # ErrorMsg => InReach(m.event, wire'[d][i].event)
    <3> SUFFICES ASSUME d = c, m # ErrorMsg
                 PROVE  InReach(m.event, wire'[d][i].event)
      OBVIOUS
    <3>1. 1 \in 1..(j - 1) /\ wire[d][1] = m
      BY <1>2, <2>1
    <3> QED
      BY <2>1, <2>3, <3>1
  <2> QED
    BY <2>2, <2>5, <2>6
<1>9. CASE m = ErrorMsg \/ Remembered(page, m)
  <2>1. /\ page' \in PageState /\ page'.conn = c
        /\ page'.seen = page.seen /\ page'.flow = page.flow
        /\ page'.shown = h
    BY <1>3, <1>9, HandleOld
  <2>2. WireInReach'
    BY <1>8, <2>1 DEF WireInReach
  <2>3. WireOK'
    BY <1>7, <2>1
  <2>4. ShownInReach'
    BY <2>1 DEF FeedInv, ShownInReach
  <2>5. SeenOK' /\ FlowOK'
    BY <2>1 DEF FeedInv, SeenOK, FlowOK
  <2>6. HistoryOK'
    <3>1. /\ \A p \in 1..Len(h) : h[p] <= recorded
          /\ \A p, q \in 1..Len(h) : h[p] = h[q] => p = q
      BY DEF FeedInv, HistoryOK
    <3> HIDE DEF h
    <3>2. page' \in PageState /\ page'.shown = h /\ recorded' = recorded
      BY <2>1
    <3> QED
      BY <3>1, <3>2 DEF HistoryOK
  <2> QED
    BY <2>2, <2>3, <2>4, <2>5, <2>6
<1>a. CASE m # ErrorMsg /\ ~ Remembered(page, m)
  <2>1. PICK e \in 1..recorded : m = Once(e)
    BY <1>4, <1>a
  <2>2. e \in Event /\ e \in Nat /\ Once(e).event = e
    BY <2>1, ShownType, OnceIsEntry, Sizes DEF Event
  <2>3. /\ page' \in PageState /\ page'.conn = c
        /\ page'.seen = Remember(page.seen, Once(e))
        /\ page'.flow = Show(page.flow, Once(e))
        /\ page'.shown = Append(h, e)
    BY <1>3, <1>a, <2>1, <2>2, HandleNew
  <2> DEFINE g == Append(h, e)
  <2>4. /\ g \in Seq(Event) /\ Len(g) = Len(h) + 1 /\ Len(h) \in Nat
        /\ \A p \in 1..Len(h) : g[p] = h[p]
        /\ g[Len(h) + 1] = e
    BY <2>2, ShownType
  <2>5. \A p \in 1..Len(h) : h[p] # e
    BY <1>1, <1>2, <1>a, <2>1, <2>2, UnseenIsNew
  <2>6. \A p \in 1..Len(h) : InReach(h[p], e)
    <3>1. 1 \in 1..Len(w) /\ w[1] # ErrorMsg /\ w[1].event = e
      BY <1>2, <1>a, <2>1, <2>2
    <3> QED
      BY <1>1, <3>1 DEF FeedInv, WireInReach
  <2> HIDE DEF g
  <2>7. \A p \in 1..Len(g) : p \in 1..Len(h) \/ p = Len(h) + 1
    BY <2>4
  <2>8. HistoryOK'
    <3>1. \A p \in 1..Len(g) : g[p] <= recorded
      BY <2>1, <2>4, <2>7 DEF FeedInv, HistoryOK
    <3>2. \A p, q \in 1..Len(g) : g[p] = g[q] => p = q
      BY <2>4, <2>5, <2>7 DEF FeedInv, HistoryOK
    <3>3. page'.shown = g /\ page' \in PageState
      BY <2>3 DEF g
    <3> QED
      BY <3>1, <3>2, <3>3 DEF HistoryOK
  <2>9. ShownInReach'
    <3>1. ASSUME NEW p \in 1..Len(g), NEW q \in 1..Len(g), p < q
          PROVE  InReach(g[p], g[q])
      <4>1. p \in 1..Len(h)
        BY <2>4, <2>7, <3>1
      <4>2. CASE q \in 1..Len(h)
        BY <2>4, <3>1, <4>1, <4>2 DEF FeedInv, ShownInReach
      <4>3. CASE q = Len(h) + 1
        BY <2>4, <2>6, <4>1, <4>3
      <4> QED
        BY <2>7, <4>2, <4>3
    <3> QED
      BY <2>3, <3>1 DEF ShownInReach, g
  <2>a. WireInReach'
    <3>1. ASSUME NEW d \in Conns, NEW i \in 1..Len(wire'[d]),
                 wire'[d][i] # ErrorMsg, NEW p \in 1..Len(g)
          PROVE  InReach(g[p], wire'[d][i].event)
      <4>1. CASE p \in 1..Len(h)
        BY <1>8, <2>4, <3>1, <4>1
      <4>2. CASE p = Len(h) + 1
        <5>1. d = c
          <6> SUFFICES ASSUME d # c PROVE FALSE
            OBVIOUS
          <6>1. wire'[d] = << >>
            BY <1>3, <1>b
          <6> QED
            BY <3>1, <6>1
        <5> QED
          BY <1>8, <1>a, <2>1, <2>2, <2>4, <3>1, <4>2, <5>1
      <4> QED
        BY <2>7, <4>1, <4>2
    <3> QED
      BY <1>8, <2>3, <3>1 DEF WireInReach, g
  <2>b. SeenOK'
    BY <2>2, <2>3, RememberOK DEF SeenOK
  <2>c. FlowOK'
    BY <2>2, <2>3, ShowOK DEF FlowOK
  <2> QED
    BY <1>7, <2>3, <2>8, <2>9, <2>a, <2>b, <2>c
<1> QED
  BY <1>9, <1>a

LEMMA ReceiveOK ==
  ASSUME FeedInv, Receive
  PROVE  /\ WireOK' /\ WireInReach' /\ ShownInReach'
         /\ SeenOK' /\ FlowOK' /\ HistoryOK'
<1>1. page \in PageState /\ wire \in [Conns -> Seq(Message)]
  BY DEF FeedInv, HistoryOK, WireOK
<1>2. page.conn \in Conns
  BY <1>1 DEF Receive, PageState
<1>3. wire[page.conn] \in Seq(Message)
  BY <1>1, <1>2
<1>4. /\ wire[page.conn] # << >> /\ page' = Handle(page, Head(wire[page.conn]))
      /\ UNCHANGED recorded
      /\ wire' = [wire EXCEPT ![page.conn] = Tail(wire[page.conn])]
  BY DEF Receive, api
<1> QED
  BY <1>2, <1>3, <1>4, HandleOK

-----------------------------------------------------------------------------
(* The other steps.                                                        *)

LEMMA RecordOK ==
  ASSUME FeedInv, NEW s \in Sources, Record(s)
  PROVE  FeedInv'
<1>1. recorded + 1 \in Event /\ recorded \in Nat /\ recorded' = recorded + 1
  BY ShownType, Sizes DEF Record, Event
<1>2. subs[s] = 1
  BY DEF FeedInv, SubsOK, Record
<1>3. ring' = Push(ring, Once(recorded + 1))
  BY <1>2 DEF Record, Once
<1>4. RingOK'
  <2>1. /\ ring \in Seq(Entry) /\ Len(ring) <= RingSize /\ Len(ring) <= recorded
        /\ \A i \in 1..Len(ring) : ring[i] = Once((recorded - Len(ring)) + i)
    BY DEF FeedInv, RingOK
  <2> DEFINE q == Push(ring, Once(recorded + 1))
  <2>2. /\ q \in Seq(Entry) /\ Len(q) <= RingSize /\ Len(q) <= recorded + 1
        /\ \A i \in 1..Len(q) : q[i] = Once(((recorded + 1) - Len(q)) + i)
    BY <1>1, <2>1, PushProperties
  <2> HIDE DEF q
  <2>3. ring' = q
    BY <1>3 DEF q
  <2> QED
    BY <1>1, <2>2, <2>3 DEF RingOK
<1>5. CountsOK'
  <2>1. recorded' \in 0..MaxEvents
    BY <1>1, Sizes DEF Record
  <2> QED
    BY <2>1 DEF FeedInv, CountsOK, Record, conns
<1>6. 1..recorded \subseteq 1..recorded'
  BY <1>1
<1>7. /\ wire' = wire /\ page' = page /\ subs' = subs
  BY DEF Record, conns
<1>8. WireOK'
  BY <1>6, <1>7 DEF FeedInv, WireOK
<1>9. HistoryOK'
  <2>1. \A p \in 1..Len(page.shown) : page.shown[p] <= recorded'
    <3>1. \A p \in 1..Len(page.shown) : page.shown[p] \in Nat
      BY ShownType
    <3> QED
      BY <1>1, <3>1 DEF FeedInv, HistoryOK
  <2> QED
    BY <1>7, <2>1 DEF FeedInv, HistoryOK
<1>a. SubsOK' /\ ShownInReach' /\ WireInReach' /\ SeenOK' /\ FlowOK'
  BY <1>7 DEF FeedInv, SubsOK, ShownInReach, WireInReach, SeenOK, FlowOK
<1> QED
  BY <1>4, <1>5, <1>8, <1>9, <1>a DEF FeedInv

(* Discovery: each source is subscribed to once, whatever rounds overlap.  *)
LEMMA DiscoveryOK ==
  ASSUME FeedInv, (\E s \in Sources : QueueAppears(s)) \/ StartScan \/ FinishScan
  PROVE  FeedInv'
<1>1. UNCHANGED <<ring, recorded, conns, page>>
  BY DEF QueueAppears, StartScan, FinishScan
<1>2. SubsOK' /\ CountsOK'
  <2>1. ASSUME NEW s \in Sources, QueueAppears(s) PROVE SubsOK' /\ CountsOK'
    BY <2>1 DEF QueueAppears, FeedInv, SubsOK, CountsOK, conns
  <2>2. CASE StartScan
    <3>1. Len(Append(scans, known)) = Len(scans) + 1 /\ Len(scans) \in Nat
          /\ Append(scans, known) \in Seq(SUBSET Sources)
      BY DEF FeedInv, CountsOK
    <3>2. Len(scans') <= MaxScans /\ scans' \in Seq(SUBSET Sources)
      BY <2>2, <3>1, Sizes DEF StartScan
    <3> QED
      BY <2>2, <3>2 DEF StartScan, FeedInv, SubsOK, CountsOK, conns
  <2>3. CASE FinishScan
    <3>1. /\ Tail(scans) \in Seq(SUBSET Sources)
          /\ Len(Tail(scans)) = Len(scans) - 1 /\ Len(scans) \in Nat
      <4>1. scans \in Seq(SUBSET Sources) /\ scans # << >>
        BY <2>3 DEF FeedInv, CountsOK, FinishScan
      <4> QED
        BY <4>1, HeadTailProperties
    <3>2. Len(scans') <= MaxScans /\ scans' \in Seq(SUBSET Sources)
      BY <2>3, <3>1, Sizes DEF FinishScan, FeedInv, CountsOK
    <3>3. SubsOK'
      BY <2>3 DEF FinishScan, Subscribed, FeedInv, SubsOK
    <3> QED
      BY <2>3, <3>2, <3>3 DEF FinishScan, FeedInv, CountsOK, conns
  <2> QED
    BY <2>1, <2>2, <2>3
<1>3. /\ RingOK' /\ WireOK' /\ ShownInReach' /\ WireInReach'
      /\ SeenOK' /\ FlowOK' /\ HistoryOK'
  BY <1>1 DEF FeedInv, RingOK, WireOK, ShownInReach, WireInReach, SeenOK,
     FlowOK, HistoryOK, conns
<1> QED
  BY <1>2, <1>3 DEF FeedInv

LEMMA SendOK ==
  ASSUME FeedInv, NEW c \in Conns, FirstTick(c) \/ Tick(c)
  PROVE  FeedInv'
<1>1. SendFresh(c) \/ SendError(c)
  BY DEF FirstTick, Tick
<1>2. UNCHANGED <<known, scans, subs, ring, recorded, page>>
  BY DEF FirstTick, Tick, api
<1>3. WireOK' /\ WireInReach'
  <2>1. CASE SendFresh(c)
    BY <1>2, <2>1, FreshIsBatch, DeliverOK DEF SendFresh
  <2>2. CASE SendError(c)
    BY <1>2, <2>2, ErrorIsBatch, DeliverOK DEF SendError
  <2> QED
    BY <1>1, <2>1, <2>2
<1>4. CountsOK'
  <2>1. handler' \in [Conns -> HandlerPc]
    <3>1. {"live", "leaked"} \subseteq HandlerPc
      BY DEF HandlerPc
    <3> QED
      BY <3>1 DEF FirstTick, Tick, FeedInv, CountsOK
  <2>2. cursor' \in [Conns -> 0..RingSize]
    <3>1. Len(ring) \in 0..RingSize
      BY Sizes DEF FeedInv, RingOK
    <3> QED
      BY <1>1, <3>1 DEF SendFresh, SendError, FeedInv, CountsOK
  <2>3. errors' \in 0..MaxErrors
    BY <1>1, Sizes DEF SendFresh, SendError, FeedInv, CountsOK
  <2> QED
    BY <1>2, <2>1, <2>2, <2>3 DEF FeedInv, CountsOK
<1>5. SubsOK' /\ RingOK' /\ ShownInReach' /\ SeenOK' /\ FlowOK' /\ HistoryOK'
  BY <1>2 DEF FeedInv, SubsOK, RingOK, ShownInReach, SeenOK, FlowOK, HistoryOK
<1> QED
  BY <1>3, <1>4, <1>5 DEF FeedInv

(* A connection opens or is lost: nothing is on its way then.              *)
LEMMA LinkOK ==
  ASSUME FeedInv, Connect \/ Disconnect
  PROVE  FeedInv'
<1>1. page \in PageState /\ wire \in [Conns -> Seq(Message)]
  BY DEF FeedInv, HistoryOK, WireOK
<1>2. UNCHANGED api
  BY DEF Connect, Disconnect
<1>3. \A d \in Conns : wire'[d] = << >>
  <2>1. CASE Connect
    <3>1. \A d \in Conns : d # page.conn
      BY <2>1 DEF Connect, Conns, NoConn
    <3> QED
      BY <2>1, <3>1 DEF Connect, FeedInv, WireOK
  <2>2. CASE Disconnect
    <3>1. \A d \in Conns : d # page.conn => wire[d] = << >>
      BY DEF FeedInv, WireOK
    <3> QED
      BY <1>1, <2>2, <3>1 DEF Disconnect
  <2> QED
    BY <2>1, <2>2
<1>4. wire' \in [Conns -> Seq(Message)]
  <2>1. << >> \in Seq(Message)
    OBVIOUS
  <2>2. wire' = wire \/ wire' = [wire EXCEPT ![page.conn] = << >>]
    BY DEF Connect, Disconnect
  <2> QED
    BY <1>1, <2>1, <2>2
<1>5. WireOK' /\ WireInReach'
  <2>1. \A d \in Conns : Len(wire'[d]) = 0
    BY <1>3
  <2> QED
    BY <1>3, <1>4, <2>1 DEF WireOK, WireInReach
<1>6. /\ page' \in PageState /\ page'.seen = page.seen
      /\ page'.flow = page.flow /\ page'.shown = page.shown
  <2>1. CASE Connect
    <3> DEFINE c == page.last + 1
    <3>1. c \in Conns /\ c \in 0..MaxConns
      BY <2>1, Sizes DEF Connect, Conns
    <3>2. page' = [page EXCEPT !.conn = c, !.last = c, !.status = "open"]
      BY <2>1 DEF Connect
    <3> HIDE DEF c
    <3> QED
      BY <1>1, <3>1, <3>2 DEF PageState
  <2>2. CASE Disconnect
    BY <1>1, <2>2 DEF Disconnect, PageState
  <2> QED
    BY <2>1, <2>2
<1>7. CountsOK'
  <2>1. "opening" \in HandlerPc /\ 0 \in 0..RingSize
    BY Sizes DEF HandlerPc
  <2> QED
    BY <1>2, <2>1 DEF Connect, Disconnect, FeedInv, CountsOK, api
<1>8. /\ SubsOK' /\ RingOK' /\ ShownInReach' /\ SeenOK' /\ FlowOK' /\ HistoryOK'
  BY <1>2, <1>6 DEF FeedInv, SubsOK, RingOK, ShownInReach, SeenOK, FlowOK,
     HistoryOK, api
<1> QED
  BY <1>5, <1>7, <1>8 DEF FeedInv

LEMMA FeedStep == FeedInv /\ [Next]_vars => FeedInv'
<1> SUFFICES ASSUME FeedInv, [Next]_vars PROVE FeedInv'
  OBVIOUS
<1>1. ASSUME NEW s \in Sources, QueueAppears(s) PROVE FeedInv'
  BY <1>1, DiscoveryOK
<1>2. ASSUME NEW s \in Sources, Record(s) PROVE FeedInv'
  BY <1>2, RecordOK
<1>3. CASE StartScan \/ FinishScan
  BY <1>3, DiscoveryOK
<1>4. ASSUME NEW c \in Conns, FirstTick(c) \/ Tick(c) PROVE FeedInv'
  BY <1>4, SendOK
<1>5. ASSUME NEW c \in Conns, Close(c) PROVE FeedInv'
  <2>1. CountsOK'
    <3>1. "stopped" \in HandlerPc
      BY DEF HandlerPc
    <3> QED
      BY <1>5, <3>1 DEF Close, FeedInv, CountsOK, api
  <2>2. UNCHANGED <<subs, ring, recorded, wire, page>>
    BY <1>5 DEF Close, api
  <2>3. SubsOK' /\ RingOK'
    BY <1>5, <2>2 DEF FeedInv, SubsOK, RingOK, Close, api
  <2>4. WireOK' /\ WireInReach' /\ ShownInReach'
    BY <2>2 DEF FeedInv, WireOK, WireInReach, ShownInReach
  <2>5. SeenOK' /\ FlowOK' /\ HistoryOK'
    BY <2>2 DEF FeedInv, SeenOK, FlowOK, HistoryOK
  <2> QED
    BY <2>1, <2>3, <2>4, <2>5 DEF FeedInv
<1>6. CASE Connect \/ Disconnect
  BY <1>6, LinkOK
<1>7. CASE Receive
  <2>1. UNCHANGED <<known, scans, subs, ring, recorded, handler, cursor, errors>>
    BY <1>7 DEF Receive, api
  <2>2. CountsOK' /\ SubsOK' /\ RingOK'
    BY <2>1 DEF FeedInv, CountsOK, SubsOK, RingOK
  <2> QED
    BY <1>7, <2>2, ReceiveOK DEF FeedInv
<1>8. CASE UNCHANGED vars
  <2>1. /\ UNCHANGED <<known, scans, subs, ring, recorded>>
        /\ UNCHANGED <<handler, cursor, errors, wire, page>>
    BY <1>8 DEF vars, api, conns
  <2>2. CountsOK' /\ SubsOK' /\ RingOK'
    BY <2>1 DEF FeedInv, CountsOK, SubsOK, RingOK
  <2>3. WireOK' /\ WireInReach' /\ ShownInReach'
    BY <2>1 DEF FeedInv, WireOK, WireInReach, ShownInReach
  <2>4. SeenOK' /\ FlowOK' /\ HistoryOK'
    BY <2>1 DEF FeedInv, SeenOK, FlowOK, HistoryOK
  <2> QED
    BY <2>2, <2>3, <2>4 DEF FeedInv
<1> QED
  BY <1>1, <1>2, <1>3, <1>4, <1>5, <1>6, <1>7, <1>8 DEF Next, Server

LEMMA FeedStart == Init => FeedInv
<1> SUFFICES ASSUME Init PROVE FeedInv
  OBVIOUS
<1>1. /\ << >> \in Seq(Entry) /\ << >> \in Seq(Message) /\ << >> \in Seq(Event)
      /\ << >> \in Seq(SUBSET Sources) /\ Len(<< >>) = 0
  OBVIOUS
<1>2. CountsOK
  BY <1>1, Sizes, FeedAssumption DEF Init, CountsOK, HandlerPc
<1>3. SubsOK /\ RingOK
  BY <1>1, Sizes DEF Init, SubsOK, RingOK
<1>4. WireOK /\ WireInReach
  BY <1>1 DEF Init, WireOK, WireInReach
<1>5. page \in PageState
  BY <1>1, Sizes DEF Init, PageState, Conns, NoConn
<1>6. page.shown = << >> /\ page.seen = << >> /\ page.flow = << >>
  BY DEF Init
<1>7. ShownInReach /\ SeenOK /\ FlowOK /\ HistoryOK
  BY <1>1, <1>5, <1>6, Sizes DEF ShownInReach, SeenOK, FlowOK, IsTail, HistoryOK
<1> QED
  BY <1>2, <1>3, <1>4, <1>7 DEF FeedInv

LEMMA FeedInvariance == Spec => []FeedInv
BY FeedStart, FeedStep, PTL DEF Spec

-----------------------------------------------------------------------------
(* Type correctness of the feed: the ring, the seen set and the list never *)
(* outgrow their sizes, for all sources, events and connections.           *)
THEOREM FeedTypeCorrect == Spec => []TypeOK
<1>1. FeedInv => TypeOK
  <2> SUFFICES ASSUME FeedInv PROVE TypeOK
    OBVIOUS
  <2>1. subs \in [Sources -> 0..2]
    BY DEF FeedInv, SubsOK
  <2> QED
    BY <2>1 DEF FeedInv, CountsOK, RingOK, WireOK, SeenOK, FlowOK, HistoryOK, TypeOK
<1> QED
  BY <1>1, FeedInvariance, PTL

(* Whatever is lost, replayed after a reconnection or discovered by        *)
(* overlapping rounds, an event is shown once, even after it left the list.*)
THEOREM NoEventTwice == Spec => []ShownOnce
<1>1. FeedInv => ShownOnce
  <2> SUFFICES ASSUME FeedInv PROVE ShownOnce
    OBVIOUS
  <2>1. \A i, j \in DOMAIN page.shown : page.shown[i] = page.shown[j] => i = j
    <3>1. DOMAIN page.shown = 1..Len(page.shown)
      BY ShownType
    <3> QED
      BY <3>1 DEF FeedInv, HistoryOK
  <2>2. ASSUME NEW i \in DOMAIN page.flow, NEW j \in DOMAIN page.flow,
               page.flow[i].event = page.flow[j].event
        PROVE  i = j
    <3> DEFINE n == Len(page.flow)
               k == Len(page.shown) - n
    <3>1. /\ n \in Nat /\ Len(page.shown) \in Nat /\ n <= Len(page.shown)
          /\ DOMAIN page.flow = 1..n /\ DOMAIN page.shown = 1..Len(page.shown)
      BY ShownType DEF FeedInv, FlowOK, IsTail
    <3>2. \A l \in 1..n : page.flow[l] = Once(page.shown[k + l])
      BY DEF FeedInv, FlowOK, IsTail
    <3>3. \A m : Once(m).event = m
      BY DEF Once
    <3>4. page.shown[k + i] = page.shown[k + j]
      BY <2>2, <3>1, <3>2, <3>3
    <3> HIDE DEF n
    <3>5. i \in 1..n /\ j \in 1..n
      BY <3>1
    <3>6. k + i \in 1..Len(page.shown) /\ k + j \in 1..Len(page.shown)
      BY <3>1, <3>5
    <3>7. k + i = k + j
      BY <2>1, <3>1, <3>4, <3>6
    <3> QED
      BY <3>1, <3>5, <3>7
  <2> QED
    BY <2>1, <2>2 DEF ShownOnce
<1> QED
  BY <1>1, FeedInvariance, PTL

=============================================================================
