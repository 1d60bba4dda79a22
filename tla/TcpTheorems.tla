----------------------------- MODULE TcpTheorems -----------------------------
(***************************************************************************)
(* The safety of a connection, for a ring, a pool, a window and answers of *)
(* any size, and any number of connections one after the other.            *)
(***************************************************************************)
EXTENDS TcpProperties, SequenceTheorems, FiniteSetTheorems, TLAPS

(***************************************************************************)
(* The inductive invariant.  A handler works on a record h, so that it is  *)
(* stated of h and of the number n of its SYN; the handlers keep it step   *)
(* by step, whatever they are composed of.                                 *)
(***************************************************************************)
What == {"SYN", "data", "FIN"}
Entry == [seq : Nat, what : What, retries : Nat, unit : Nat]
Tcb == [state : {"Closed", "SynReceived", "Established", "CloseWait", "LastAck", "Halted"},
        una : Nat, nxt : Nat, wnd : Nat, wl1 : Nat, wl2 : Nat, rcvNxt : Nat,
        queue : Seq(Nat), full : BOOLEAN, rtx : Seq(Entry), armed : BOOLEAN]
Record == [t : Tcb, used : Nat, sent : 0..MaxSent, refused : Nat,
           wire : SUBSET [seq : Nat, what : What, unit : Nat],
           delivered : Seq(Nat), overtaken : BOOLEAN]
Peer == [nxt : 1..(Requests + 2), acks : Seq(Nat), rcvNxt : Nat, got : Seq(Nat),
         finished : BOOLEAN, reset : BOOLEAN]

\* The peer holds the SYN of one connection, for ever; it may be an old one.
Bound == peer.rcvNxt > 0
PeerBase == peer.acks[1] - 1
Mine(n) == Bound /\ PeerBase = n

\* The FIN in the numbers of a connection.
Fins(t) == IF t.state = "LastAck" THEN {1} ELSE IF t.state = "Halted" THEN {0, 1} ELSE {0}

\* No unit was refused, none was sent before an earlier one.
Unbroken(h) == ~h.overtaken /\ h.refused = 0

(***************************************************************************)
(* What holds whatever the numbers of the connections are.                 *)
(***************************************************************************)
TcbOK(h, n) ==
    /\ Len(h.t.queue) <= h.sent /\ h.sent + h.refused <= MaxSent
    /\ h.t.state = "Closed" => h.t = Closed
    /\ h.t.state # "Closed" =>
          /\ n <= h.t.una /\ h.t.una <= h.t.nxt /\ h.t.wl2 <= h.t.nxt
          /\ \E fin \in Fins(h.t) : h.t.nxt + Len(h.t.queue) <= n + 1 + fin + h.sent
          /\ h.t.rcvNxt \in 1..(Requests + 2)

RingOK(h) ==
    /\ Len(h.t.rtx) <= UnackMax
    /\ \A i \in 1..Len(h.t.rtx) :
          \/ h.t.rtx[i].what = "data" /\ h.t.rtx[i].unit = NoUnit
          \/ Resent(h, h.t.rtx[i]) \in h.wire

PoolOK(h) ==
    /\ h.used = Payloads(h.t.rtx) + Len(h.t.queue)
    /\ others \in Nat /\ h.used + others <= Blocks
    /\ \A i \in 1..Len(h.t.queue) : h.t.queue[i] # NoUnit
    /\ Unbroken(h) => \A i \in 1..Len(h.t.queue) : h.t.queue[i] = h.sent - Len(h.t.queue) + i

PeerType ==
    /\ peer \in Peer /\ Len(peer.acks) = peer.nxt
    /\ peer.rcvNxt = 0 => peer.nxt = 1

Basic(h, n) ==
    h \in Record /\ n \in Nat /\ TcbOK(h, n) /\ RingOK(h) /\ PoolOK(h) /\ PeerType

(***************************************************************************)
(* What holds as long as each connection began above the numbers of those  *)
(* before it.                                                              *)
(***************************************************************************)

\* Each unit is sent and has its number, or queued; a connection that the peer
\* does not know sends none.
NumbersOK(h, n) == h.t.state # "Closed" =>
    /\ \E fin \in Fins(h.t) :
           h.t.nxt + Len(h.t.queue) = n + 1 + fin + (IF Mine(n) THEN h.sent ELSE 0)
    /\ ~Mine(n) => h.t.queue = << >> /\ ~h.t.full /\ h.t.state \notin {"Established", "Halted"}
    /\ h.t.state = "SynReceived" => h.t.una = n

\* What the application got is what was acknowledged to the peer.
RequestsOK(h, n) ==
    /\ \A i \in 1..Len(h.delivered) : h.delivered[i] = i
    /\ h.t.state = "SynReceived" => h.t.rcvNxt = 1
    /\ h.t.state = "Established" => h.t.rcvNxt = Len(h.delivered) + 1
    /\ h.t.state = "SynReceived" /\ (Bound => Mine(n)) => h.delivered = << >>
    /\ ~Bound => h.sent = 0 /\ h.delivered = << >> /\ h.t.state \in {"Closed", "SynReceived"}

\* A number is used once; that of a SYN does not follow another.  Units have the
\* numbers after that of the SYN, but for those sent after the FIN.
After(h, s) == \E f \in h.wire : f.what = "FIN" /\ PeerBase < f.seq /\ f.seq < s
WireOK(h, n) ==
    /\ h.t.state # "Closed" => \A w \in h.wire : w.seq < h.t.nxt
    /\ \A v, w \in h.wire : v.seq = w.seq => v = w
    /\ \A v, w \in h.wire : w.what = "SYN" /\ v.seq < w.seq => v.seq + 1 < w.seq
    /\ \A w \in h.wire : /\ w.what = "SYN" => w.seq <= n
                         /\ w.seq < n => w.seq + 1 < n
    /\ \A w \in h.wire : w.what = "data" =>
          Bound /\ (Unbroken(h) => w.seq = PeerBase + w.unit \/ After(h, w.seq))
    /\ h.t.state = "LastAck" /\ Mine(n) => After(h, h.t.nxt)

PeerOK(h, n) ==
    /\ ~Bound => peer.got = << >> /\ ~peer.finished /\ ~peer.reset
    /\ Bound =>
          /\ PeerBase # n => peer.rcvNxt < n
          /\ PeerBase < peer.rcvNxt
          /\ \E w \in h.wire : w.seq = peer.rcvNxt - 1
          /\ \A i \in 1..Len(peer.acks) : PeerBase < peer.acks[i] /\ peer.acks[i] <= peer.rcvNxt
          /\ ~peer.finished =>
                /\ peer.rcvNxt = PeerBase + 1 + Len(peer.got)
                /\ ~After(h, peer.rcvNxt)
    /\ Unbroken(h) => \A i \in 1..Len(peer.got) : peer.got[i] = i

Exact(h, n) == NumbersOK(h, n) /\ RequestsOK(h, n) /\ WireOK(h, n) /\ PeerOK(h, n)

HandlerInv(h, n) == Basic(h, n) /\ (fresh => Exact(h, n))

TcpInv ==
    /\ HandlerInv(Handler, iss)
    /\ fresh \in BOOLEAN /\ others \in 0..Others

(***************************************************************************)
(* Numbers.                                                                *)
(***************************************************************************)
LEMMA Sizes ==
    /\ UnackMax \in Nat /\ UnackMax > 0 /\ RtxMaxRetry \in Nat /\ Blocks \in Nat /\ Others \in Nat
    /\ Requests \in Nat /\ MaxSent \in Nat /\ MaxAccepts \in Nat /\ Others <= Blocks
    /\ RcvWnd \in Nat /\ Windows \subseteq Nat /\ Gaps \subseteq Nat
    /\ Answers \subseteq Nat \X Nat
BY TcpAssumption

\* The numbers of l units, from f on.
LEMMA NumbersInside ==
    ASSUME NEW f \in Nat, NEW l \in Nat, NEW i \in Nat, 1 <= i, i <= l
    PROVE  f + i - 1 \in Nat /\ f <= f + i - 1 /\ f + i - 1 < f + l
OBVIOUS

(***************************************************************************)
(* The copies of the ring.                                                 *)
(***************************************************************************)
Copies(rtx) == { i \in 1..Len(rtx) : rtx[i].unit # NoUnit }

LEMMA PayloadsFacts ==
    ASSUME NEW rtx \in Seq(Entry)
    PROVE  /\ Payloads(rtx) = Cardinality(Copies(rtx)) /\ IsFiniteSet(Copies(rtx))
           /\ Payloads(rtx) \in Nat /\ Payloads(rtx) <= Len(rtx)
<1>1. DOMAIN rtx = 1..Len(rtx) /\ Len(rtx) \in Nat
  OBVIOUS
<1>2. Payloads(rtx) = Cardinality(Copies(rtx))
  BY <1>1 DEF Payloads, Copies
<1>3. IsFiniteSet(1..Len(rtx)) /\ Cardinality(1..Len(rtx)) = Len(rtx)
  <2>1. ASSUME NEW l \in Nat PROVE IsFiniteSet(1..l) /\ Cardinality(1..l) = l
    <3>1. IsFiniteSet(1..l) /\ Cardinality(1..l) = IF 1 > l THEN 0 ELSE l - 1 + 1
      BY FS_Interval
    <3> QED
      BY ONLY <3>1, l \in Nat
  <2> QED
    BY ONLY <1>1, <2>1
<1>4. Copies(rtx) \in SUBSET (1..Len(rtx))
  BY DEF Copies
<1> QED
  BY <1>2, <1>3, <1>4, FS_Subset, FS_CardinalityType

\* Entries are appended.
LEMMA PayloadsConcat ==
    ASSUME NEW rtx \in Seq(Entry), NEW new \in Seq(Entry)
    PROVE  Payloads(rtx \o new) = Payloads(rtx) + Payloads(new)
<1> DEFINE all == rtx \o new
           n == Len(rtx)
           shifted == { n + i : i \in Copies(new) }
<1>1. /\ all \in Seq(Entry) /\ Len(all) = n + Len(new) /\ n \in Nat /\ Len(new) \in Nat
      /\ \A i \in 1..(n + Len(new)) : all[i] = IF i <= n THEN rtx[i] ELSE new[i - n]
  BY ConcatProperties
<1>2. Copies(all) = Copies(rtx) \cup shifted
  <2> HIDE DEF all
  <2>1. ASSUME NEW i \in Copies(all) PROVE i \in Copies(rtx) \cup shifted
    <3>1. i \in 1..(n + Len(new)) /\ all[i].unit # NoUnit
      BY <1>1 DEF Copies
    <3>2. CASE i <= n
      BY <1>1, <3>1, <3>2 DEF Copies
    <3>3. CASE ~(i <= n)
      <4>1. i - n \in 1..Len(new) /\ i = n + (i - n) /\ new[i - n].unit # NoUnit
        BY <1>1, <3>1, <3>3
      <4>2. i - n \in Copies(new)
        BY <4>1 DEF Copies
      <4> QED
        BY <4>1, <4>2
    <3> QED
      BY <3>2, <3>3
  <2>2. ASSUME NEW i \in Copies(rtx) PROVE i \in Copies(all)
    BY <1>1 DEF Copies
  <2>3. ASSUME NEW i \in Copies(new) PROVE n + i \in Copies(all)
    <3>1. i \in 1..Len(new) /\ new[i].unit # NoUnit
      BY DEF Copies
    <3>2. n + i \in 1..(n + Len(new)) /\ ~(n + i <= n) /\ (n + i) - n = i
      BY <1>1, <3>1
    <3>3. all[n + i] = new[i]
      BY <1>1, <3>2
    <3> QED
      BY <1>1, <3>1, <3>2, <3>3 DEF Copies
  <2> QED
    BY <2>1, <2>2, <2>3
<1>3. IsFiniteSet(Copies(rtx)) /\ IsFiniteSet(Copies(new))
  BY PayloadsFacts
<1>4. IsFiniteSet(shifted) /\ Cardinality(shifted) = Cardinality(Copies(new))
  <2> DEFINE f == [i \in Copies(new) |-> n + i]
  <2>1. \A i \in Copies(new) : i \in Nat
    BY <1>1 DEF Copies
  <2>2. f \in Bijection(Copies(new), shifted)
    BY <1>1, <2>1 DEF Bijection, Injection, Surjection, IsInjective
  <2>3. ExistsBijection(Copies(new), shifted)
    BY <2>2 DEF ExistsBijection
  <2> QED
    BY <1>3, <2>3, FS_Bijection
<1>5. Copies(rtx) \cap shifted = {}
  BY <1>1 DEF Copies
<1>6. Cardinality(Copies(rtx) \cup shifted) = Cardinality(Copies(rtx)) + Cardinality(shifted) - 0
  BY <1>3, <1>4, <1>5, FS_Union, FS_EmptySet
<1>7. /\ Payloads(all) = Cardinality(Copies(all)) /\ Payloads(rtx) = Cardinality(Copies(rtx))
      /\ Payloads(new) = Cardinality(Copies(new))
  BY <1>1, PayloadsFacts
<1>8. Payloads(rtx) \in Nat /\ Payloads(new) \in Nat
  BY PayloadsFacts
<1> QED
  BY <1>2, <1>4, <1>6, <1>7, <1>8

(***************************************************************************)
(* What is sent: the facts of the record.                                  *)
(***************************************************************************)
LEMMA RecordFacts ==
    ASSUME NEW h \in Record
    PROVE  /\ h.t \in Tcb /\ h.used \in Nat /\ h.sent \in 0..MaxSent /\ h.sent \in Nat
           /\ h.refused \in Nat /\ h.wire \subseteq [seq : Nat, what : What, unit : Nat]
           /\ h.delivered \in Seq(Nat) /\ h.overtaken \in BOOLEAN
           /\ h.t.una \in Nat /\ h.t.nxt \in Nat /\ h.t.wnd \in Nat /\ h.t.wl1 \in Nat
           /\ h.t.wl2 \in Nat /\ h.t.rcvNxt \in Nat
           /\ h.t.queue \in Seq(Nat) /\ Len(h.t.queue) \in Nat /\ h.t.full \in BOOLEAN
           /\ h.t.rtx \in Seq(Entry) /\ Len(h.t.rtx) \in Nat /\ h.t.armed \in BOOLEAN
<1>1. /\ h.t \in Tcb /\ h.used \in Nat /\ h.sent \in 0..MaxSent /\ h.refused \in Nat
      /\ h.wire \subseteq [seq : Nat, what : What, unit : Nat]
      /\ h.delivered \in Seq(Nat) /\ h.overtaken \in BOOLEAN
  BY DEF Record
<1>2. /\ h.t.una \in Nat /\ h.t.nxt \in Nat /\ h.t.wnd \in Nat /\ h.t.wl1 \in Nat
      /\ h.t.wl2 \in Nat /\ h.t.rcvNxt \in Nat
  BY <1>1 DEF Tcb
<1>3. h.t.queue \in Seq(Nat) /\ h.t.full \in BOOLEAN /\ h.t.rtx \in Seq(Entry) /\ h.t.armed \in BOOLEAN
  BY <1>1 DEF Tcb
<1>4. Len(h.t.queue) \in Nat /\ Len(h.t.rtx) \in Nat
  BY <1>3
<1>5. h.sent \in Nat
  BY <1>1, Sizes
<1> QED
  BY <1>1, <1>2, <1>3, <1>4, <1>5

\* The entries of the ring for what is sent.
Entries(h, what, units, copied) ==
    [i \in 1 .. Least(Len(units), Room(h)) |->
        [seq |-> h.t.nxt + i - 1, what |-> what, retries |-> 0,
         unit |-> IF i \in copied THEN units[i] ELSE NoUnit]]

LEMMA EntriesFacts ==
    ASSUME NEW h \in Record, Len(h.t.rtx) <= UnackMax, NEW what \in What, NEW units \in Seq(Nat),
           NEW copied, \A i \in 1..Len(units) : i \in copied => units[i] # NoUnit
    PROVE  LET new == Entries(h, what, units, copied)
               n == Least(Len(units), Room(h))
           IN  /\ n \in Nat /\ n <= Len(units) /\ n <= UnackMax - Len(h.t.rtx)
               /\ new \in Seq(Entry) /\ Len(new) = n
               /\ \A i \in 1..n : /\ i \in 1..Len(units)
                                  /\ new[i].seq = h.t.nxt + i - 1 /\ new[i].what = what
                                  /\ new[i].unit \in {units[i], NoUnit}
               /\ Payloads(new) = Cardinality(copied \cap (1..n))
<1> DEFINE new == Entries(h, what, units, copied)
           n == Least(Len(units), Room(h))
           copy(i) == IF i \in copied THEN units[i] ELSE NoUnit
           e(i) == [seq |-> h.t.nxt + i - 1, what |-> what, retries |-> 0, unit |-> copy(i)]
<1>1. h.t.nxt \in Nat /\ Len(h.t.rtx) \in Nat /\ Len(units) \in Nat /\ UnackMax \in Nat
  BY RecordFacts, Sizes
<1>2. n \in Nat /\ n <= Len(units) /\ n <= UnackMax - Len(h.t.rtx)
  <2>1. Room(h) = UnackMax - Len(h.t.rtx) /\ Room(h) \in Nat /\ Len(units) \in Nat
    BY <1>1 DEF Room
  <2> HIDE DEF n
  <2>2. n = Least(Len(units), Room(h))
    BY DEF n
  <2>3. CASE Len(units) <= Room(h)
    BY <2>1, <2>2, <2>3 DEF Least
  <2>4. CASE ~(Len(units) <= Room(h))
    BY <2>1, <2>2, <2>4 DEF Least
  <2> QED
    BY <2>3, <2>4
<1> HIDE DEF n
<1>3. ASSUME NEW i \in 1..n
      PROVE  i \in 1..Len(units) /\ e(i) \in Entry /\ units[i] \in Nat
  <2>1. i \in 1..Len(units) /\ units[i] \in Nat
    BY <1>1, <1>2
  <2>2. h.t.nxt + i - 1 \in Nat
    <3>1. h.t.nxt \in Nat
      BY <1>1
    <3>2. i \in Nat /\ i - 1 \in Nat
      BY <1>2
    <3>3. h.t.nxt + (i - 1) \in Nat
      BY <3>1, <3>2
    <3> QED
      BY <3>1, <3>2, <3>3
  <2>3. copy(i) \in Nat
    BY <2>1 DEF NoUnit
  <2> QED
    BY <2>1, <2>2, <2>3 DEF Entry
<1>4. new = [i \in 1..n |-> e(i)]
  BY DEF Entries, n
<1>5. new \in Seq(Entry) /\ Len(new) = n
  BY <1>2, <1>3, <1>4
<1>6. \A i \in 1..n : new[i] = e(i)
  BY <1>4
<1> HIDE DEF new
<1>7. ASSUME NEW i \in 1..n
      PROVE  /\ new[i].seq = h.t.nxt + i - 1 /\ new[i].what = what
             /\ new[i].unit = copy(i)
  <2>1. new[i] = e(i)
    BY <1>6
  <2> HIDE DEF copy
  <2> QED
    BY <2>1
<1>8. Copies(new) = copied \cap (1..n)
  <2>1. ASSUME NEW i \in 1..n PROVE new[i].unit # NoUnit <=> i \in copied
    BY <1>3, <1>7
  <2> QED
    BY <1>5, <2>1 DEF Copies
<1>9. Payloads(new) = Cardinality(copied \cap (1..n))
  BY <1>5, <1>8, PayloadsFacts
<1> QED
  BY <1>2, <1>3, <1>5, <1>7, <1>9 DEF n, new

LEMMA SegmentsFacts ==
    ASSUME NEW h \in Record, Len(h.t.rtx) <= UnackMax, NEW what \in What, NEW units \in Seq(Nat),
           NEW copied, \A i \in 1..Len(units) : i \in copied => units[i] # NoUnit
    PROVE  LET k == SendSegments(h, what, units, copied)
               new == Entries(h, what, units, copied)
           IN  /\ k \in Record
               /\ k.sent = h.sent /\ k.refused = h.refused
               /\ k.delivered = h.delivered /\ k.overtaken = h.overtaken
               /\ k.used = h.used + Payloads(new)
               /\ k.wire = h.wire \cup { [seq |-> h.t.nxt + i - 1, what |-> what, unit |-> units[i]] :
                                          i \in 1..Len(units) }
               /\ k.t.state = h.t.state /\ k.t.una = h.t.una /\ k.t.nxt = h.t.nxt + Len(units)
               /\ k.t.wnd = h.t.wnd /\ k.t.wl1 = h.t.wl1 /\ k.t.wl2 = h.t.wl2
               /\ k.t.rcvNxt = h.t.rcvNxt /\ k.t.queue = h.t.queue /\ k.t.full = h.t.full
               /\ k.t.rtx = h.t.rtx \o new
<1> DEFINE k == SendSegments(h, what, units, copied)
           new == Entries(h, what, units, copied)
           n == Least(Len(units), Room(h))
           w == { [seq |-> h.t.nxt + i - 1, what |-> what, unit |-> units[i]] : i \in 1..Len(units) }
           armed == h.t.armed \/ (1..n # {} /\ h.t.rtx = << >>)
<1>1. /\ n \in Nat /\ new \in Seq(Entry) /\ Payloads(new) = Cardinality(copied \cap (1..n))
      /\ Payloads(new) \in Nat
  <2>1. n \in Nat
    BY EntriesFacts
  <2>2. new \in Seq(Entry)
    BY EntriesFacts
  <2>3. Payloads(new) = Cardinality(copied \cap (1..n))
    BY EntriesFacts
  <2> QED
    BY <2>1, <2>2, <2>3, PayloadsFacts
<1>2. k = [h EXCEPT !.wire = @ \cup w, !.t.rtx = @ \o new, !.t.armed = armed,
                    !.t.nxt = @ + Len(units), !.used = @ + Cardinality(copied \cap (1..n))]
  BY DEF SendSegments, Entries
<1>3. w \subseteq [seq : Nat, what : What, unit : Nat]
  <2>1. ASSUME NEW i \in 1..Len(units) PROVE h.t.nxt + i - 1 \in Nat /\ units[i] \in Nat
    BY RecordFacts
  <2> QED
    BY <2>1
<1>4. h.t.rtx \o new \in Seq(Entry) /\ h.t.nxt + Len(units) \in Nat
  BY <1>1, RecordFacts, ConcatProperties
<1>5. armed \in BOOLEAN
  BY RecordFacts
<1> HIDE DEF n, new, w, armed, k
<1>6. k.t = [h.t EXCEPT !.rtx = @ \o new, !.armed = armed, !.nxt = @ + Len(units)]
  BY <1>2 DEF Record
<1>7. /\ k.used = h.used + Payloads(new) /\ k.wire = h.wire \cup w
      /\ k.sent = h.sent /\ k.refused = h.refused
      /\ k.delivered = h.delivered /\ k.overtaken = h.overtaken
  BY <1>1, <1>2 DEF Record
<1>8. k.t \in Tcb
  BY <1>4, <1>5, <1>6, RecordFacts DEF Tcb
<1>9. k \in Record
  <2>1. k = [t |-> k.t, used |-> k.used, sent |-> k.sent, refused |-> k.refused, wire |-> k.wire,
             delivered |-> k.delivered, overtaken |-> k.overtaken]
    BY <1>2 DEF Record
  <2>2. k.used \in Nat /\ k.wire \subseteq [seq : Nat, what : What, unit : Nat]
    BY <1>1, <1>3, <1>7, RecordFacts
  <2> QED
    BY <1>7, <1>8, <2>1, <2>2, RecordFacts DEF Record
<1>10. /\ k.t.state = h.t.state /\ k.t.una = h.t.una /\ k.t.nxt = h.t.nxt + Len(units)
       /\ k.t.wnd = h.t.wnd /\ k.t.wl1 = h.t.wl1 /\ k.t.wl2 = h.t.wl2
       /\ k.t.rcvNxt = h.t.rcvNxt /\ k.t.queue = h.t.queue /\ k.t.full = h.t.full
       /\ k.t.rtx = h.t.rtx \o new
  BY <1>6, RecordFacts DEF Tcb
<1> QED
  BY <1>7, <1>9, <1>10 DEF k, new, w

\* What may be sent: copies of units, and units only as data.
Plain(h, what, units, copied) ==
    /\ h.t.state # "Closed"
    /\ \A i \in 1..Len(units) : i \in copied => units[i] # NoUnit
    /\ what # "data" => \A i \in 1..Len(units) : units[i] = NoUnit

\* A SYN above all numbers that were used, data of the connection the peer knows in
\* numbers of the connection.
Sendable(h, n, what, units) ==
    /\ n <= h.t.nxt
    /\ what = "SYN" =>
          Len(units) = 1 /\ h.t.nxt = n /\ \A w \in h.wire : w.seq + 1 < n
    /\ what = "data" /\ units # << >> => Bound
    /\ what = "data" /\ Unbroken(h) => \A i \in 1..Len(units) :
           h.t.nxt + i - 1 = PeerBase + units[i] \/ After(h, h.t.nxt + i - 1)

\* The ring keeps a copy of what is sent or none.
LEMMA SegmentsRing ==
    ASSUME NEW h \in Record, RingOK(h), NEW what \in What, NEW units \in Seq(Nat), NEW copied,
           Plain(h, what, units, copied)
    PROVE  RingOK(SendSegments(h, what, units, copied))
<1> DEFINE k == SendSegments(h, what, units, copied)
           new == Entries(h, what, units, copied)
           m == Least(Len(units), Room(h))
           first == h.t.nxt
<1>l. Len(h.t.rtx) <= UnackMax
  BY DEF RingOK
<1>c. \A i \in 1..Len(units) : i \in copied => units[i] # NoUnit
  BY DEF Plain
<1>1. /\ k \in Record
      /\ k.wire = h.wire \cup { [seq |-> h.t.nxt + i - 1, what |-> what, unit |-> units[i]] :
                                 i \in 1..Len(units) }
      /\ k.t.rtx = h.t.rtx \o new
  BY <1>c, <1>l, SegmentsFacts
<1>2. h.t.rtx \in Seq(Entry) /\ Len(h.t.rtx) \in Nat /\ UnackMax \in Nat
  BY RecordFacts, Sizes
<1>3. /\ m \in Nat /\ m <= Len(units) /\ m <= UnackMax - Len(h.t.rtx)
  BY <1>c, <1>l, EntriesFacts
<1>4. new \in Seq(Entry) /\ Len(new) = m
  <2>1. new \in Seq(Entry)
    BY <1>c, <1>l, EntriesFacts
  <2>2. Len(new) = m
    BY <1>3 DEF Entries
  <2> QED
    BY <2>1, <2>2
<1>5. \A i \in 1..m : /\ i \in 1..Len(units)
                      /\ new[i].seq = h.t.nxt + i - 1 /\ new[i].what = what
                      /\ new[i].unit \in {units[i], NoUnit}
  BY <1>c, <1>l, EntriesFacts
<1>z. what # "data" => \A i \in 1..Len(units) : units[i] = NoUnit
  BY DEF Plain
<1> HIDE DEF k, new, m, first
<1>8. h.wire \subseteq k.wire
  BY <1>1
<1>9. \A i \in 1..Len(units) : [seq |-> first + i - 1, what |-> what, unit |-> units[i]] \in k.wire
  BY <1>1 DEF first
<1>12. RingOK(k)
  <2>1. /\ k.t.rtx \in Seq(Entry) /\ Len(k.t.rtx) = Len(h.t.rtx) + m
        /\ \A i \in 1..(Len(h.t.rtx) + m) :
              k.t.rtx[i] = IF i <= Len(h.t.rtx) THEN h.t.rtx[i] ELSE new[i - Len(h.t.rtx)]
    <3>1. /\ h.t.rtx \o new \in Seq(Entry) /\ Len(h.t.rtx \o new) = Len(h.t.rtx) + Len(new)
          /\ \A i \in 1..(Len(h.t.rtx) + Len(new)) :
                (h.t.rtx \o new)[i] = IF i <= Len(h.t.rtx) THEN h.t.rtx[i] ELSE new[i - Len(h.t.rtx)]
      BY <1>2, <1>4, ConcatProperties
    <3> QED
      BY <1>1, <1>4, <3>1
  <2>2. Len(k.t.rtx) <= UnackMax
    BY <1>2, <1>3, <2>1
  <2>3. ASSUME NEW i \in 1..Len(k.t.rtx)
        PROVE  \/ k.t.rtx[i].what = "data" /\ k.t.rtx[i].unit = NoUnit
               \/ Resent(k, k.t.rtx[i]) \in k.wire
    <3>1. CASE i <= Len(h.t.rtx)
      <4>1. k.t.rtx[i] = h.t.rtx[i] /\ i \in 1..Len(h.t.rtx)
        <5>1. i \in 1..(Len(h.t.rtx) + m)
          BY <2>1
        <5>2. k.t.rtx[i] = h.t.rtx[i]
          BY <2>1, <3>1, <5>1
        <5>3. i \in 1..Len(h.t.rtx)
          BY <1>2, <1>3, <3>1, <5>1
        <5> QED
          BY <5>2, <5>3
      <4>2. Resent(k, k.t.rtx[i]) = Resent(h, h.t.rtx[i])
        BY <4>1 DEF Resent
      <4> QED
        BY <1>8, <4>1, <4>2 DEF RingOK
    <3>2. CASE ~(i <= Len(h.t.rtx))
      <4>1. i - Len(h.t.rtx) \in 1..m /\ k.t.rtx[i] = new[i - Len(h.t.rtx)]
        <5>1. i \in 1..(Len(h.t.rtx) + m)
          BY <2>1
        <5>2. k.t.rtx[i] = new[i - Len(h.t.rtx)]
          BY <2>1, <3>2, <5>1
        <5>3. i - Len(h.t.rtx) \in 1..m
          BY <1>2, <1>3, <3>2, <5>1
        <5> QED
          BY <5>2, <5>3
      <4>2. PICK j \in 1..m : k.t.rtx[i] = new[j]
        BY <4>1
      <4>3. /\ j \in 1..Len(units) /\ new[j].seq = first + j - 1 /\ new[j].what = what
            /\ new[j].unit = units[j] \/ new[j].unit = NoUnit
        BY <1>5 DEF first
      <4>4. CASE new[j].unit = units[j]
        <5>1. Resent(k, k.t.rtx[i]) = [seq |-> first + j - 1, what |-> what, unit |-> units[j]]
          BY <4>2, <4>3, <4>4 DEF Resent
        <5> QED
          BY <1>9, <4>3, <5>1
      <4>5. CASE new[j].unit = NoUnit /\ what = "data"
        BY <4>2, <4>3, <4>5
      <4>6. CASE new[j].unit = NoUnit /\ what # "data"
        BY <1>z, <4>3, <4>4, <4>6
      <4> QED
        BY <4>3, <4>4, <4>5, <4>6
    <3> QED
      BY <3>1, <3>2
  <2> QED
    BY <2>2, <2>3 DEF RingOK
<1> QED
  BY <1>12 DEF k

\* What is sent has numbers that nothing had before.
LEMMA SegmentsKeep ==
    ASSUME NEW n \in Nat, NEW h \in Record, RingOK(h), WireOK(h, n), PeerOK(h, n), PeerType,
           NEW what \in What, NEW units \in Seq(Nat), NEW copied,
           Plain(h, what, units, copied), Sendable(h, n, what, units)
    PROVE  LET k == SendSegments(h, what, units, copied)
           IN  WireOK(k, n) /\ PeerOK(k, n)
<1> DEFINE k == SendSegments(h, what, units, copied)
           first == h.t.nxt
<1>l. Len(h.t.rtx) <= UnackMax
  BY DEF RingOK
<1>c. h.t.state # "Closed" /\ \A i \in 1..Len(units) : i \in copied => units[i] # NoUnit
  BY DEF Plain
<1>1. /\ k \in Record
      /\ k.wire = h.wire \cup { [seq |-> h.t.nxt + i - 1, what |-> what, unit |-> units[i]] :
                                 i \in 1..Len(units) }
      /\ k.overtaken = h.overtaken /\ k.refused = h.refused
      /\ k.t.state = h.t.state /\ k.t.nxt = h.t.nxt + Len(units)
  BY <1>c, <1>l, SegmentsFacts
<1>2. /\ first \in Nat /\ Len(units) \in Nat
      /\ h.wire \subseteq [seq : Nat, what : What, unit : Nat]
  BY RecordFacts
<1>f. /\ first = h.t.nxt /\ k.t.nxt = first + Len(units) /\ n <= first
      /\ what = "SYN" => Len(units) = 1 /\ first = n /\ \A w \in h.wire : w.seq + 1 < n
  BY <1>1 DEF Sendable
<1>u. Unbroken(k) <=> Unbroken(h)
  BY <1>1 DEF Unbroken
<1> HIDE DEF k, first
<1>7. ASSUME NEW w \in k.wire, w \notin h.wire
      PROVE  \E i \in 1..Len(units) :
                /\ w = [seq |-> first + i - 1, what |-> what, unit |-> units[i]]
                /\ w.seq = first + i - 1 /\ w.what = what /\ w.unit = units[i]
                /\ w.seq \in Nat /\ first <= w.seq /\ w.seq < first + Len(units)
  <2>1. PICK i \in 1..Len(units) : w = [seq |-> first + i - 1, what |-> what, unit |-> units[i]]
    BY <1>1, <1>7 DEF first
  <2>2. w.seq = first + i - 1 /\ w.what = what /\ w.unit = units[i]
    BY <2>1
  <2>3. i \in Nat /\ 1 <= i /\ i <= Len(units)
    BY <1>2
  <2>4. w.seq \in Nat /\ first <= w.seq /\ w.seq < first + Len(units)
    BY <1>2, <2>2, <2>3, NumbersInside
  <2> QED
    BY <2>1, <2>2, <2>4
<1>8. h.wire \subseteq k.wire
  BY <1>1
<1>10. \A w \in h.wire : w.seq \in Nat /\ w.seq < first
  BY <1>2, <1>c DEF WireOK, first
<1>11. \A s, t : s \in Nat /\ t \in Nat /\ s <= t /\ After(h, s) => After(k, t)
  BY <1>2, <1>8, <1>10 DEF After
<1>a. ASSUME NEW s \in Nat, After(h, s) PROVE After(k, s)
  <2>1. s <= s
    OBVIOUS
  <2> QED
    BY <1>11, <1>a, <2>1
<1>13. WireOK(k, n)
  <2>1. ASSUME NEW w \in k.wire PROVE w.seq < k.t.nxt
    <3>1. CASE w \in h.wire
      BY <1>2, <1>f, <1>10, <3>1
    <3>2. CASE w \notin h.wire
      BY <1>7, <1>f, <3>2
    <3> QED
      BY <3>1, <3>2
  <2>2. ASSUME NEW v \in k.wire, NEW w \in k.wire, v.seq = w.seq PROVE v = w
    <3>1. CASE v \in h.wire /\ w \in h.wire
      BY <2>2, <3>1 DEF WireOK
    <3>2. CASE v \notin h.wire /\ w \notin h.wire
      <4>1. PICK i \in 1..Len(units) :
                    v = [seq |-> first + i - 1, what |-> what, unit |-> units[i]]
                    /\ v.seq = first + i - 1
        BY <1>7, <3>2
      <4>2. PICK j \in 1..Len(units) :
                    w = [seq |-> first + j - 1, what |-> what, unit |-> units[j]]
                    /\ w.seq = first + j - 1
        BY <1>7, <3>2
      <4>3. i = j
        BY <1>2, <2>2, <4>1, <4>2
      <4> QED
        BY <4>1, <4>2, <4>3
    <3>3. ASSUME NEW x \in k.wire, x \notin h.wire PROVE x.seq \in Nat /\ first <= x.seq
      BY <1>7, <3>3
    <3> QED
      BY <1>2, <1>10, <2>2, <3>1, <3>2, <3>3
  <2>3. ASSUME NEW v \in k.wire, NEW w \in k.wire, w.what = "SYN", v.seq < w.seq
        PROVE  v.seq + 1 < w.seq
    <3>1. CASE v \in h.wire /\ w \in h.wire
      BY <2>3, <3>1 DEF WireOK
    <3>2. CASE w \notin h.wire
      <4>1. what = "SYN"
        BY <1>7, <2>3, <3>2
      <4>2. Len(units) = 1 /\ first = n /\ \A x \in h.wire : x.seq + 1 < n
        BY <1>f, <4>1
      <4>3. w.seq \in Nat /\ first <= w.seq /\ w.seq < first + 1
        BY <1>7, <3>2, <4>2
      <4>4. w.seq = n
        BY <1>2, <4>2, <4>3
      <4>5. CASE v \in h.wire
        BY <4>2, <4>4, <4>5
      <4>6. CASE v \notin h.wire
        BY <1>2, <1>7, <2>3, <4>2, <4>4, <4>6
      <4> QED
        BY <4>5, <4>6
    <3>3. CASE w \in h.wire /\ v \notin h.wire
      <4>1. v.seq \in Nat /\ first <= v.seq
        BY <1>7, <3>3
      <4>2. w.seq \in Nat /\ w.seq < first
        BY <1>10, <3>3
      <4> QED
        BY <1>2, <2>3, <4>1, <4>2
    <3> QED
      BY <3>1, <3>2, <3>3
  <2>r. ASSUME NEW w \in k.wire
        PROVE  (w.what = "SYN" => w.seq <= n) /\ (w.seq < n => w.seq + 1 < n)
    <3>1. CASE w \in h.wire
      BY <3>1 DEF WireOK
    <3>2. CASE w \notin h.wire
      <4>1. w.what = what /\ w.seq \in Nat /\ first <= w.seq /\ w.seq < first + Len(units)
        BY <1>7, <3>2
      <4>2. ~(w.seq < n)
        BY <1>2, <1>f, <4>1
      <4>3. what = "SYN" => w.seq <= n
        <5>1. SUFFICES ASSUME what = "SYN" PROVE w.seq <= n
          OBVIOUS
        <5>2. w.seq < first + 1 /\ first = n
          BY <1>f, <4>1, <5>1
        <5> QED
          BY <1>2, <4>1, <5>2
      <4> QED
        BY <4>1, <4>2, <4>3
    <3> QED
      BY <3>1, <3>2
  <2>4. ASSUME NEW w \in k.wire, w.what = "data"
        PROVE  Bound /\ (Unbroken(k) => w.seq = PeerBase + w.unit \/ After(k, w.seq))
    <3>1. CASE w \in h.wire
      <4>1. Bound /\ (Unbroken(h) => w.seq = PeerBase + w.unit \/ After(h, w.seq))
        BY <2>4, <3>1 DEF WireOK
      <4> QED
        BY <1>u, <1>10, <1>a, <3>1, <4>1
    <3>2. CASE w \notin h.wire
      <4>1. PICK i \in 1..Len(units) :
                /\ w.seq = first + i - 1 /\ w.what = what /\ w.unit = units[i]
                /\ w.seq \in Nat
        BY <1>7, <3>2
      <4>3. Unbroken(k) => w.seq = PeerBase + w.unit \/ After(h, w.seq)
        BY <1>u, <2>4, <4>1 DEF first, Sendable
      <4>4. Bound
        <5>1. units # << >>
          BY <4>1
        <5> QED
          BY <2>4, <4>1, <5>1 DEF Sendable
      <4> QED
        BY <1>a, <4>1, <4>3, <4>4
    <3> QED
      BY <3>1, <3>2
  <2>5. k.t.state = "LastAck" /\ Mine(n) => After(k, k.t.nxt)
    <3>1. h.t.nxt \in Nat /\ k.t.nxt \in Nat /\ h.t.nxt <= k.t.nxt
      BY <1>1, <1>2 DEF first
    <3> QED
      BY <1>1, <1>11, <3>1 DEF WireOK
  <2> QED
    BY <2>1, <2>2, <2>3, <2>4, <2>5, <2>r DEF WireOK
<1>14. PeerOK(k, n)
  <2>1. ASSUME Bound PROVE After(k, peer.rcvNxt) => After(h, peer.rcvNxt)
    <3>1. PICK w \in h.wire : w.seq = peer.rcvNxt - 1
      BY <2>1 DEF PeerOK
    <3>2. peer.rcvNxt \in Nat /\ peer.rcvNxt <= first
      BY <1>2, <1>10, <3>1 DEF PeerType, Peer
    <3>3. ASSUME NEW f \in k.wire, f.seq < peer.rcvNxt PROVE f \in h.wire
      <4>1. SUFFICES ASSUME f \notin h.wire PROVE FALSE
        OBVIOUS
      <4>2. f.seq \in Nat /\ first <= f.seq
        BY <1>7, <4>1
      <4> QED
        BY <1>2, <3>2, <3>3, <4>2
    <3> QED
      BY <3>3 DEF After
  <2>2. Bound => \E w \in k.wire : w.seq = peer.rcvNxt - 1
    BY <1>8 DEF PeerOK
  <2> QED
    BY <1>u, <2>1, <2>2 DEF PeerOK
<1> QED
  BY <1>13, <1>14 DEF k

(***************************************************************************)
(* What a step that sends nothing leaves as it is.                         *)
(***************************************************************************)
LEMMA RingSame ==
    ASSUME NEW h, NEW k, RingOK(h), k.t.rtx = h.t.rtx, k.wire = h.wire
    PROVE  RingOK(k)
BY DEF RingOK, Resent

LEMMA WireSame ==
    ASSUME NEW n \in Nat, NEW h, NEW k, WireOK(h, n), k.wire = h.wire,
           k.t.state # "Closed" => k.t.nxt = h.t.nxt /\ h.t.state # "Closed",
           k.t.state = "LastAck" => h.t.state = "LastAck", Unbroken(k) => Unbroken(h)
    PROVE  WireOK(k, n)
<1>1. \A s : After(k, s) = After(h, s)
  BY DEF After
<1>2. k.t.state # "Closed" => \A w \in k.wire : w.seq < k.t.nxt
  BY DEF WireOK
<1>3. /\ \A v, w \in k.wire : v.seq = w.seq => v = w
      /\ \A v, w \in k.wire : w.what = "SYN" /\ v.seq < w.seq => v.seq + 1 < w.seq
      /\ \A w \in k.wire : (w.what = "SYN" => w.seq <= n) /\ (w.seq < n => w.seq + 1 < n)
  BY DEF WireOK
<1>5. ASSUME NEW w \in k.wire, w.what = "data"
      PROVE  Bound /\ (Unbroken(k) => w.seq = PeerBase + w.unit \/ After(k, w.seq))
  BY <1>1, <1>5 DEF WireOK
<1>6. k.t.state = "LastAck" /\ Mine(n) => After(k, k.t.nxt)
  BY <1>1 DEF WireOK
<1> QED
  BY <1>2, <1>3, <1>5, <1>6 DEF WireOK

LEMMA PeerSame ==
    ASSUME NEW n, NEW h, NEW k, PeerOK(h, n), k.wire = h.wire, Unbroken(k) => Unbroken(h)
    PROVE  PeerOK(k, n)
BY DEF PeerOK, After

(***************************************************************************)
(* SendData(): the pool gives a block for each copy.                       *)
(***************************************************************************)
DataSent(h, k, units, copied) ==
    /\ k \in Record /\ RingOK(k)
    /\ k.sent = h.sent /\ k.refused = h.refused
    /\ k.delivered = h.delivered /\ k.overtaken = h.overtaken
    /\ k.t.state = h.t.state /\ k.t.una = h.t.una /\ k.t.nxt = h.t.nxt + Len(units)
    /\ k.t.wl2 = h.t.wl2 /\ k.t.rcvNxt = h.t.rcvNxt
    /\ k.t.queue = h.t.queue /\ k.t.full = h.t.full
    /\ k.used - h.used = Payloads(k.t.rtx) - Payloads(h.t.rtx)
    /\ \E m \in Nat : m <= Len(units) /\ k.used = h.used + Cardinality(copied \cap (1..m))

LEMMA DataKeep ==
    ASSUME NEW h \in Record, RingOK(h), NEW units \in Seq(Nat), NEW copied,
           Plain(h, "data", units, copied), Len(units) <= h.t.wnd
    PROVE  LET k == SendData(h, units, copied)
           IN  /\ DataSent(h, k, units, copied)
               /\ \A n \in Nat : /\ WireOK(h, n) /\ PeerOK(h, n) /\ PeerType
                                 /\ Sendable(h, n, "data", units)
                                 => WireOK(k, n) /\ PeerOK(k, n)
<1> DEFINE s == SendSegments(h, "data", units, copied)
           k == SendData(h, units, copied)
           new == Entries(h, "data", units, copied)
           m == Least(Len(units), Room(h))
<1>1. "data" \in What
  BY DEF What
<1>2. /\ h.t.state # "Closed" /\ Len(h.t.rtx) <= UnackMax
      /\ \A i \in 1..Len(units) : i \in copied => units[i] # NoUnit
  BY DEF Plain, RingOK
<1>3. /\ s \in Record
      /\ s.sent = h.sent /\ s.refused = h.refused
      /\ s.delivered = h.delivered /\ s.overtaken = h.overtaken
      /\ s.used = h.used + Payloads(new)
      /\ s.t.state = h.t.state /\ s.t.una = h.t.una /\ s.t.nxt = h.t.nxt + Len(units)
      /\ s.t.wnd = h.t.wnd /\ s.t.wl2 = h.t.wl2
      /\ s.t.rcvNxt = h.t.rcvNxt /\ s.t.queue = h.t.queue /\ s.t.full = h.t.full
      /\ s.t.rtx = h.t.rtx \o new
  BY <1>1, <1>2, SegmentsFacts
<1>4. /\ RingOK(s)
      /\ \A n \in Nat : /\ WireOK(h, n) /\ PeerOK(h, n) /\ PeerType
                        /\ Sendable(h, n, "data", units)
                        => WireOK(s, n) /\ PeerOK(s, n)
  BY <1>1, SegmentsRing, SegmentsKeep
<1>5. m \in Nat /\ m <= Len(units) /\ Payloads(new) = Cardinality(copied \cap (1..m))
  <2>1. m \in Nat
    BY <1>1, <1>2, EntriesFacts
  <2>2. m <= Len(units)
    BY <1>1, <1>2, EntriesFacts
  <2>3. Payloads(new) = Cardinality(copied \cap (1..m))
    BY <1>1, <1>2, EntriesFacts
  <2> QED
    BY <2>1, <2>2, <2>3
<1>6. new \in Seq(Entry)
  BY <1>1, <1>2, EntriesFacts
<1>7. k = [s EXCEPT !.t.wnd = @ - Len(units)]
  BY DEF SendData
<1> HIDE DEF s, k, new, m
<1>8. /\ k.t = [s.t EXCEPT !.wnd = @ - Len(units)]
      /\ k.used = s.used /\ k.sent = s.sent /\ k.refused = s.refused /\ k.wire = s.wire /\ k.delivered = s.delivered
      /\ k.overtaken = s.overtaken
  BY <1>3, <1>7 DEF Record
<1>9. s.t \in Tcb /\ s.t.wnd - Len(units) \in Nat
  <2>1. s.t \in Tcb /\ s.t.wnd \in Nat
    BY <1>3, RecordFacts
  <2>2. Len(units) \in Nat /\ Len(units) <= s.t.wnd
    BY <1>3
  <2> QED
    BY <2>1, <2>2
<1>10. /\ k.t \in Tcb /\ k.t.state = s.t.state /\ k.t.una = s.t.una /\ k.t.nxt = s.t.nxt
       /\ k.t.wl2 = s.t.wl2 /\ k.t.rcvNxt = s.t.rcvNxt /\ k.t.queue = s.t.queue
       /\ k.t.full = s.t.full /\ k.t.rtx = s.t.rtx
  BY <1>8, <1>9 DEF Tcb
<1>11. k \in Record
  BY <1>3, <1>7, <1>8, <1>10 DEF Record
<1>12. RingOK(k)
  BY <1>4, <1>8, <1>10, RingSame
<1>13. ASSUME NEW n \in Nat, WireOK(h, n), PeerOK(h, n), PeerType, Sendable(h, n, "data", units)
       PROVE  WireOK(k, n) /\ PeerOK(k, n)
  <2>1. WireOK(s, n) /\ PeerOK(s, n) /\ (Unbroken(k) => Unbroken(s))
    BY <1>4, <1>8, <1>13 DEF Unbroken
  <2> QED
    BY <1>2, <1>3, <1>8, <1>10, <2>1, WireSame, PeerSame
<1>15. k.used - h.used = Payloads(k.t.rtx) - Payloads(h.t.rtx)
  <2>1. Payloads(h.t.rtx \o new) = Payloads(h.t.rtx) + Payloads(new)
    BY <1>6, RecordFacts, PayloadsConcat
  <2>2. Payloads(h.t.rtx) \in Nat /\ Payloads(new) \in Nat /\ h.used \in Nat
    BY <1>6, RecordFacts, PayloadsFacts
  <2>3. k.used = h.used + Payloads(new) /\ k.t.rtx = h.t.rtx \o new
    BY <1>3, <1>8, <1>10
  <2> QED
    BY <2>1, <2>2, <2>3
<1>16. \E j \in Nat : j <= Len(units) /\ k.used = h.used + Cardinality(copied \cap (1..j))
  BY <1>3, <1>5, <1>8
<1> QED
  BY <1>3, <1>8, <1>10, <1>11, <1>12, <1>13, <1>15, <1>16 DEF k, DataSent

LEMMA SomeOf ==
    ASSUME NEW n \in Nat, NEW S, S \subseteq 1..n
    PROVE  Cardinality(S) \in Nat /\ Cardinality(S) <= n
<1>1. IsFiniteSet(1..n) /\ Cardinality(1..n) = n
  BY FS_Interval
<1> QED
  BY <1>1, FS_Subset, FS_CardinalityType

\* Numbers that grow by l.
LEMMA Later == \A x, y, l \in Nat : x <= y => x <= y + l
OBVIOUS

LEMMA Shifted ==
    \A x, q, n, s, l \in Nat :
        /\ x + q <= n + 1 + s => (x + l) + q <= n + 1 + 0 + (s + l)
        /\ x + q = n + 1 + s => (x + l) + q = n + 1 + 0 + (s + l)
OBVIOUS

\* The number of the i-th unit of a call is that of its place.
LEMMA NumberOf ==
    \A x, n, s, r \in Nat : \A i \in Int :
        x = n + 1 + s /\ r = 0 => x + i - 1 = n + (s + r + i)
OBVIOUS

LEMMA InvFacts ==
    ASSUME NEW n, NEW h, HandlerInv(h, n)
    PROVE  /\ n \in Nat /\ h \in Record /\ TcbOK(h, n) /\ RingOK(h) /\ PoolOK(h) /\ PeerType
           /\ fresh => NumbersOK(h, n) /\ RequestsOK(h, n) /\ WireOK(h, n) /\ PeerOK(h, n)
BY DEF HandlerInv, Basic, Exact

LEMMA LiveFacts ==
    ASSUME NEW n, NEW h, HandlerInv(h, n), h.t.state # "Closed"
    PROVE  /\ n \in Nat /\ h.t.una \in Nat /\ h.t.nxt \in Nat /\ h.t.wl2 \in Nat
           /\ n <= h.t.una /\ h.t.una <= h.t.nxt /\ h.t.wl2 <= h.t.nxt
           /\ h.t.rcvNxt \in 1..(Requests + 2)
           /\ h.sent \in Nat /\ Len(h.t.queue) \in Nat /\ Len(h.t.queue) <= h.sent
           /\ h.refused \in Nat /\ h.sent + h.refused <= MaxSent
           /\ \E fin \in Fins(h.t) : h.t.nxt + Len(h.t.queue) <= n + 1 + fin + h.sent
           /\ fresh => /\ Bound \/ h.t.state = "SynReceived"
                       /\ h.t.state = "Established" =>
                             Mine(n) /\ h.t.rcvNxt = Len(h.delivered) + 1
<1>1. /\ n \in Nat /\ h \in Record /\ TcbOK(h, n)
      /\ fresh => NumbersOK(h, n) /\ RequestsOK(h, n)
  BY InvFacts
<1>2. /\ n <= h.t.una /\ h.t.una <= h.t.nxt /\ h.t.wl2 <= h.t.nxt
      /\ h.t.rcvNxt \in 1..(Requests + 2)
      /\ Len(h.t.queue) <= h.sent /\ h.sent + h.refused <= MaxSent
      /\ \E fin \in Fins(h.t) : h.t.nxt + Len(h.t.queue) <= n + 1 + fin + h.sent
  BY <1>1 DEF TcbOK
<1>3. fresh => (Bound \/ h.t.state = "SynReceived")
  BY <1>1 DEF RequestsOK
<1>4. fresh /\ h.t.state = "Established" => Mine(n) /\ h.t.rcvNxt = Len(h.delivered) + 1
  BY <1>1 DEF NumbersOK, RequestsOK
<1>5. /\ h.t.una \in Nat /\ h.t.nxt \in Nat /\ h.t.wl2 \in Nat /\ h.sent \in Nat
      /\ h.refused \in Nat /\ Len(h.t.queue) \in Nat
  BY <1>1, RecordFacts
<1> QED
  BY <1>1, <1>2, <1>3, <1>4, <1>5

\* A connection in ESTABLISHED has sent no FIN, and is the one the peer knows.
LEMMA EstablishedFacts ==
    ASSUME NEW n, NEW h, HandlerInv(h, n), h.t.state = "Established"
    PROVE  /\ h.t.nxt + Len(h.t.queue) <= n + 1 + h.sent
           /\ fresh => /\ Bound /\ Mine(n) /\ PeerBase = n
                       /\ h.t.nxt + Len(h.t.queue) = n + 1 + h.sent
                       /\ h.t.rcvNxt = Len(h.delivered) + 1
<1>1. /\ n \in Nat /\ h.sent \in Nat
      /\ \E fin \in Fins(h.t) : h.t.nxt + Len(h.t.queue) <= n + 1 + fin + h.sent
      /\ fresh => Mine(n) /\ h.t.rcvNxt = Len(h.delivered) + 1
  BY LiveFacts
<1>2. Fins(h.t) = {0} /\ n + 1 + 0 + h.sent = n + 1 + h.sent
  BY <1>1 DEF Fins
<1>3. h.t.nxt + Len(h.t.queue) <= n + 1 + h.sent
  BY <1>1, <1>2
<1>4. fresh => h.t.nxt + Len(h.t.queue) = n + 1 + h.sent
  <2>1. SUFFICES ASSUME fresh PROVE h.t.nxt + Len(h.t.queue) = n + 1 + h.sent
    OBVIOUS
  <2>2. NumbersOK(h, n) /\ Mine(n)
    BY <1>1, <2>1, InvFacts
  <2>3. PICK fin \in Fins(h.t) :
            h.t.nxt + Len(h.t.queue) = n + 1 + fin + (IF Mine(n) THEN h.sent ELSE 0)
    BY <2>2 DEF NumbersOK
  <2> QED
    BY <1>2, <2>2, <2>3
<1> QED
  BY <1>1, <1>3, <1>4 DEF Mine

(***************************************************************************)
(* Send()                                                                  *)
(***************************************************************************)
LEMMA SendNowKeeps ==
    ASSUME NEW n, NEW h, HandlerInv(h, n), h.t.state = "Established",
           NEW length \in Nat, length <= h.t.wnd, h.sent + h.refused + length <= MaxSent
    PROVE  LET k == SendNow(h, length)
           IN  /\ HandlerInv(k, n) /\ k.t.state = "Established"
               /\ k.sent = h.sent + length /\ k.refused = h.refused
<1> DEFINE passes == length > 0 /\ h.t.queue # << >>
           a == [h EXCEPT !.sent = @ + length, !.overtaken = @ \/ passes]
           units == [i \in 1..length |-> Unit(h, i)]
           copied == 1..Free(h)
           k == SendNow(h, length)
           queue == h.t.queue
<1>1. /\ n \in Nat /\ n <= h.t.una /\ h.t.una <= h.t.nxt /\ h.t.wl2 <= h.t.nxt
      /\ Len(queue) <= h.sent /\ h.t.nxt + Len(queue) <= n + 1 + h.sent
  BY LiveFacts, EstablishedFacts
<1>r. h.t.rcvNxt \in 1..(Requests + 2)
  BY LiveFacts
<1>e. fresh => /\ Bound /\ Mine(n) /\ PeerBase = n
               /\ h.t.nxt + Len(queue) = n + 1 + h.sent
  BY EstablishedFacts
<1>2. /\ h \in Record /\ RingOK(h) /\ PoolOK(h) /\ PeerType
      /\ fresh => RequestsOK(h, n) /\ WireOK(h, n) /\ PeerOK(h, n)
  BY InvFacts
<1>3. /\ h.sent \in Nat /\ h.refused \in Nat /\ MaxSent \in Nat /\ Len(queue) \in Nat
      /\ h.used \in Nat /\ h.t.nxt \in Nat /\ h.t.una \in Nat /\ h.t.wl2 \in Nat
  BY <1>2, RecordFacts, Sizes
<1>b. n <= h.t.nxt
  BY ONLY <1>1, <1>3
<1>s. queue \in Seq(Nat) /\ h.t.rtx \in Seq(Entry)
  BY <1>2, RecordFacts
<1>4. passes \in BOOLEAN
  OBVIOUS
<1>5. k = SendData(a, units, copied)
  BY DEF SendNow
<1>6. /\ units \in Seq(Nat) /\ Len(units) = length
      /\ \A i \in 1..length : units[i] = h.sent + h.refused + i
  <2>1. \A i \in 1..length : Unit(h, i) = h.sent + h.refused + i /\ Unit(h, i) \in Nat
    BY <1>3 DEF Unit
  <2>2. units \in [1..length -> Nat]
    BY <2>1
  <2> QED
    BY <2>1, <2>2
<1> HIDE DEF passes, units, k
<1>7. /\ a.t = h.t /\ a.used = h.used /\ a.sent = h.sent + length /\ a.refused = h.refused
      /\ a.wire = h.wire
      /\ a.delivered = h.delivered /\ a.overtaken = (h.overtaken \/ passes)
  BY <1>2 DEF Record
<1>8. a \in Record
  <2>1. h.sent + length \in 0..MaxSent
    BY <1>3
  <2>2. (h.overtaken \/ passes) \in BOOLEAN
    OBVIOUS
  <2> QED
    BY <1>2, <1>4, <2>1, <2>2 DEF Record
<1> HIDE DEF a
<1>9. RingOK(a)
  BY <1>2, <1>7, RingSame
<1>10. fresh => WireOK(a, n) /\ PeerOK(a, n)
  <2>1. Unbroken(a) => Unbroken(h)
    BY <1>7 DEF Unbroken
  <2> QED
    BY <1>1, <1>2, <1>7, <2>1, WireSame, PeerSame
<1>11. Plain(a, "data", units, copied)
  <2>1. ASSUME NEW i \in 1..Len(units) PROVE units[i] # NoUnit
    <3>1. i \in Nat /\ i >= 1 /\ units[i] = h.sent + h.refused + i
      BY <1>6
    <3> QED
      BY <1>3, <3>1 DEF NoUnit
  <2> QED
    BY <1>7, <2>1 DEF Plain
<1>12. fresh => Sendable(a, n, "data", units)
  <2>1. SUFFICES ASSUME fresh PROVE Sendable(a, n, "data", units)
    OBVIOUS
  <2>2. n <= a.t.nxt
    BY ONLY <1>7, <1>b
  <2>4. ASSUME Unbroken(a), NEW i \in 1..Len(units)
        PROVE  a.t.nxt + i - 1 = PeerBase + units[i]
    <3>1. length > 0
      BY <1>6
    <3>2. queue = << >> /\ h.refused = 0
      BY <1>7, <2>4, <3>1 DEF passes, Unbroken
    <3>3. Len(queue) = 0
      BY <3>2
    <3>4. units[i] = h.sent + h.refused + i /\ i \in Int
      BY <1>6
    <3>5. a.t.nxt = h.t.nxt /\ PeerBase = n
      BY <1>7, <1>e, <2>1
    <3>6. h.t.nxt = n + 1 + h.sent
      <4>1. h.t.nxt + 0 = n + 1 + h.sent
        BY <1>e, <2>1, <3>3
      <4> QED
        BY <1>3, <4>1
    <3>7. h.t.nxt + i - 1 = n + (h.sent + h.refused + i)
      <4>1. n \in Nat /\ h.sent \in Nat /\ h.refused \in Nat /\ i \in Int
        BY <1>1, <1>3, <3>4
      <4> QED
        BY <3>2, <3>6, <4>1, NumberOf
    <3> QED
      BY <3>4, <3>5, <3>7
  <2> QED
    BY <1>e, <2>1, <2>2, <2>4 DEF Sendable
<1>13. DataSent(a, k, units, copied) /\ (fresh => WireOK(k, n) /\ PeerOK(k, n))
  <2>1. Len(units) <= a.t.wnd
    BY <1>6, <1>7
  <2>2. n \in Nat /\ units \in Seq(Nat) /\ PeerType
    BY <1>1, <1>2, <1>6
  <2> QED
    BY <1>5, <1>8, <1>9, <1>10, <1>11, <1>12, <2>1, <2>2, DataKeep
<1>14. /\ k \in Record /\ RingOK(k)
       /\ k.sent = h.sent + length /\ k.refused = h.refused
       /\ k.delivered = h.delivered /\ k.overtaken = (h.overtaken \/ passes)
       /\ k.t.state = "Established" /\ k.t.una = h.t.una /\ k.t.nxt = h.t.nxt + length
       /\ k.t.wl2 = h.t.wl2 /\ k.t.rcvNxt = h.t.rcvNxt
       /\ k.t.queue = queue /\ k.t.full = h.t.full
       /\ k.used - h.used = Payloads(k.t.rtx) - Payloads(h.t.rtx)
       /\ \E m \in Nat : k.used = h.used + Cardinality(copied \cap (1..m))
  BY <1>6, <1>7, <1>13 DEF DataSent
<1>15. TcbOK(k, n)
  <2>1. Len(queue) <= h.sent + length /\ (h.sent + length) + h.refused <= MaxSent
    BY <1>1, <1>3
  <2>2. h.t.una <= h.t.nxt + length /\ h.t.wl2 <= h.t.nxt + length
    BY <1>1, <1>3, Later
  <2>3. (h.t.nxt + length) + Len(queue) <= n + 1 + 0 + (h.sent + length)
    BY <1>1, <1>3, Shifted
  <2>4. 0 \in Fins(k.t)
    BY <1>14 DEF Fins
  <2> QED
    BY <1>1, <1>r, <1>14, <2>1, <2>2, <2>3, <2>4 DEF TcbOK
<1>16. PoolOK(k)
  <2>1. k.used = Payloads(k.t.rtx) + Len(k.t.queue)
    <3>1. h.used = Payloads(h.t.rtx) + Len(queue)
      BY <1>2 DEF PoolOK
    <3>2. k.used - h.used = Payloads(k.t.rtx) - Payloads(h.t.rtx) /\ k.t.queue = queue
      BY <1>14
    <3>3. Payloads(k.t.rtx) \in Nat /\ Payloads(h.t.rtx) \in Nat /\ k.used \in Nat
      BY <1>s, <1>14, RecordFacts, PayloadsFacts
    <3>4. k.used = Payloads(k.t.rtx) + Len(queue)
      <4>1. Len(queue) \in Nat /\ h.used \in Nat /\ k.used - h.used = Payloads(k.t.rtx) - Payloads(h.t.rtx)
        BY <1>3, <3>2
      <4> QED
        BY ONLY <3>1, <3>3, <4>1
    <3> QED
      BY <3>2, <3>4
  <2>2. others \in Nat /\ k.used + others <= Blocks
    <3>1. others \in Nat /\ h.used + others <= Blocks
      BY <1>2 DEF PoolOK
    <3>2. Free(h) \in Nat /\ Free(h) = Blocks - (h.used + others)
      <4>1. Blocks \in Nat /\ h.used \in Nat
        BY <1>3, Sizes
      <4>2. Free(h) = Blocks - (h.used + others)
        BY <3>1, <4>1 DEF Free
      <4> QED
        BY <3>1, <4>1, <4>2
    <3>3. PICK m \in Nat : k.used = h.used + Cardinality(copied \cap (1..m))
      BY <1>14
    <3>4. Cardinality(copied \cap (1..m)) \in Nat /\ Cardinality(copied \cap (1..m)) <= Free(h)
      BY <3>2, SomeOf
    <3> QED
      BY <1>3, <3>1, <3>2, <3>3, <3>4, Sizes
  <2>3. \A i \in 1..Len(k.t.queue) : k.t.queue[i] # NoUnit
    BY <1>2, <1>14 DEF PoolOK
  <2>4. ASSUME Unbroken(k), NEW i \in 1..Len(k.t.queue)
        PROVE  k.t.queue[i] = k.sent - Len(k.t.queue) + i
    <3>1. queue # << >> /\ k.t.queue = queue
      BY <1>3, <1>14
    <3>2. Unbroken(h) /\ length = 0
      <4>1. ~(h.overtaken \/ passes) /\ k.refused = 0
        BY <1>14, <2>4 DEF Unbroken
      <4>2. ~h.overtaken /\ h.refused = 0 /\ ~passes
        BY <1>14, <4>1
      <4>3. ~(length > 0)
        BY <3>1, <4>2 DEF passes
      <4>4. length = 0
        BY ONLY <4>3, length \in Nat
      <4> QED
        BY <4>2, <4>4 DEF Unbroken
    <3>3. queue[i] = h.sent - Len(queue) + i
      BY <1>2, <3>1, <3>2 DEF PoolOK
    <3>4. k.sent = h.sent
      BY <1>3, <1>14, <3>2
    <3> QED
      BY <3>1, <3>3, <3>4
  <2> QED
    BY <2>1, <2>2, <2>3, <2>4 DEF PoolOK
<1>17. fresh => NumbersOK(k, n) /\ RequestsOK(k, n)
  <2>1. SUFFICES ASSUME fresh PROVE NumbersOK(k, n) /\ RequestsOK(k, n)
    OBVIOUS
  <2>2. 0 \in Fins(k.t)
    BY <1>14 DEF Fins
  <2>3. (h.t.nxt + length) + Len(queue) = n + 1 + 0 + (h.sent + length)
    <3>1. h.t.nxt + Len(queue) = n + 1 + h.sent
      BY <1>e, <2>1
    <3> QED
      <4> DEFINE x == h.t.nxt
                 q == Len(queue)
                 s == h.sent
      <4>1. x \in Nat /\ q \in Nat /\ n \in Nat /\ s \in Nat /\ x + q = n + 1 + s
        BY <1>1, <1>3, <3>1
      <4> HIDE DEF x, q, s
      <4>2. (x + length) + q = n + 1 + 0 + (s + length)
        BY ONLY <4>1, length \in Nat, SMT
      <4> QED
        BY <4>2 DEF x, q, s
  <2>4. NumbersOK(k, n)
    BY <1>14, <1>e, <2>1, <2>2, <2>3 DEF NumbersOK
  <2>5. RequestsOK(k, n)
    BY <1>2, <1>14, <1>e, <2>1 DEF RequestsOK
  <2> QED
    BY <2>4, <2>5
<1> QED
  BY <1>1, <1>2, <1>13, <1>14, <1>15, <1>16, <1>17 DEF HandlerInv, Basic, Exact, k


\* What does not fit the window is queued as far as there are blocks.
LEMMA PushKeeps ==
    ASSUME NEW n, NEW h, HandlerInv(h, n), h.t.state = "Established", IsEmpty(h),
           NEW length \in Nat, h.sent + h.refused + length <= MaxSent
    PROVE  LET k == Push(h, length)
           IN  /\ HandlerInv(k, n) /\ k.t.state = "Established"
               /\ k.sent + k.refused = h.sent + h.refused + length
<1> DEFINE m == Least(length, Free(h))
           queue == [i \in 1..m |-> Unit(h, i)]
           k == Push(h, length)
<1>1. /\ n \in Nat /\ n <= h.t.una /\ h.t.una <= h.t.nxt /\ h.t.wl2 <= h.t.nxt
      /\ h.t.rcvNxt \in 1..(Requests + 2)
      /\ h.t.nxt + Len(h.t.queue) <= n + 1 + h.sent
  BY LiveFacts, EstablishedFacts
<1>e. fresh => /\ Bound /\ Mine(n) /\ PeerBase = n
               /\ h.t.nxt + Len(h.t.queue) = n + 1 + h.sent
               /\ h.t.rcvNxt = Len(h.delivered) + 1
  BY EstablishedFacts
<1>2. /\ h \in Record /\ RingOK(h) /\ PoolOK(h) /\ PeerType
      /\ fresh => RequestsOK(h, n) /\ WireOK(h, n) /\ PeerOK(h, n)
  BY InvFacts
<1>3. /\ h.sent \in Nat /\ h.refused \in Nat /\ MaxSent \in Nat /\ h.used \in Nat
      /\ h.t.nxt \in Nat /\ Blocks \in Nat
  BY <1>2, RecordFacts, Sizes
<1>t. h.t \in Tcb /\ h.t.rtx \in Seq(Entry) /\ Payloads(h.t.rtx) \in Nat
  BY <1>2, RecordFacts, PayloadsFacts
<1>4. h.t.queue = << >> /\ Len(h.t.queue) = 0
  BY DEF IsEmpty
<1>5. /\ others \in Nat /\ h.used + others <= Blocks /\ h.used = Payloads(h.t.rtx)
  <2>1. others \in Nat /\ h.used + others <= Blocks /\ h.used = Payloads(h.t.rtx) + Len(h.t.queue)
    BY <1>2 DEF PoolOK
  <2> QED
    BY <1>t, <1>4, <2>1
<1>6. m \in Nat /\ m <= length /\ h.used + m + others <= Blocks
  <2>1. Free(h) \in Nat /\ Free(h) = Blocks - (h.used + others)
    BY <1>3, <1>5 DEF Free
  <2>2. CASE length <= Free(h)
    BY <1>3, <1>5, <2>1, <2>2 DEF Least
  <2>3. CASE ~(length <= Free(h))
    BY <1>3, <1>5, <2>1, <2>3 DEF Least
  <2> QED
    BY <2>2, <2>3
<1>7. k = [h EXCEPT !.t.queue = queue, !.t.full = m < length, !.used = @ + m, !.sent = @ + m,
                    !.refused = @ + (length - m)]
  BY DEF Push
<1> HIDE DEF m, k
<1>8. queue \in Seq(Nat) /\ Len(queue) = m /\ \A i \in 1..m : queue[i] = h.sent + h.refused + i
  BY <1>3, <1>6 DEF Unit
<1> HIDE DEF queue
<1>9. /\ k.t = [h.t EXCEPT !.queue = queue, !.full = m < length]
      /\ k.used = h.used + m /\ k.sent = h.sent + m /\ k.refused = h.refused + (length - m)
      /\ k.wire = h.wire /\ k.delivered = h.delivered /\ k.overtaken = h.overtaken
  BY <1>2, <1>7 DEF Record
<1>10. /\ k.t \in Tcb /\ k.t.state = "Established" /\ k.t.una = h.t.una /\ k.t.nxt = h.t.nxt
       /\ k.t.wl2 = h.t.wl2 /\ k.t.rcvNxt = h.t.rcvNxt /\ k.t.rtx = h.t.rtx /\ k.t.queue = queue
  <2>1. (m < length) \in BOOLEAN
    OBVIOUS
  <2> HIDE <1>7
  <2> QED
    BY <1>t, <1>8, <1>9, <2>1 DEF Tcb
<1>11. /\ k.used \in Nat /\ k.sent \in 0..MaxSent /\ k.refused \in Nat
       /\ k.sent + k.refused = h.sent + h.refused + length
  <2> DEFINE s == h.sent
             r == h.refused
  <2>1. s \in Nat /\ r \in Nat /\ m \in Nat /\ m <= length /\ s + r + length <= MaxSent
    BY <1>3, <1>6
  <2> HIDE DEF s, r
  <2>2. s + m \in 0..MaxSent /\ r + (length - m) \in Nat /\ (s + m) + (r + (length - m)) = s + r + length
    BY ONLY <1>3, <2>1, length \in Nat
  <2>3. h.used + m \in Nat
    BY <1>3, <1>6
  <2> QED
    BY <1>9, <2>2, <2>3 DEF s, r
<1>12. k \in Record
  BY <1>2, <1>7, <1>9, <1>10, <1>11 DEF Record
<1>u. Unbroken(k) => Unbroken(h)
  <2>1. SUFFICES ASSUME k.refused = 0 PROVE h.refused = 0
    BY <1>9 DEF Unbroken
  <2>2. h.refused + (length - m) = 0 /\ length - m \in Nat
    BY <1>6, <1>9, <2>1
  <2> QED
    BY <1>3, <2>2
<1>13. RingOK(k) /\ (fresh => PeerOK(k, n) /\ WireOK(k, n))
  <2>1. RingOK(k)
    BY <1>2, <1>9, <1>10, RingSame
  <2>2. fresh => PeerOK(k, n)
    BY <1>2, <1>9, <1>u, PeerSame
  <2>3. fresh => WireOK(k, n)
    BY <1>1, <1>2, <1>9, <1>10, <1>u, WireSame
  <2> QED
    BY <2>1, <2>2, <2>3
<1>15. TcbOK(k, n) /\ (fresh => NumbersOK(k, n))
  <2> DEFINE x == h.t.nxt
             s == h.sent
  <2>1. x \in Nat /\ s \in Nat /\ x + 0 <= n + 1 + s /\ (fresh => x + 0 = n + 1 + s)
    BY <1>1, <1>3, <1>4, <1>e
  <2> HIDE DEF x, s
  <2>2. x + m <= n + 1 + 0 + (s + m) /\ (fresh => x + m = n + 1 + 0 + (s + m)) /\ m <= s + m
    BY ONLY <1>1, <1>6, <2>1
  <2>3. k.t.nxt = x /\ k.sent = s + m /\ Len(k.t.queue) = m
    BY <1>8, <1>9, <1>10 DEF x, s
  <2>4. 0 \in Fins(k.t)
    BY <1>10 DEF Fins
  <2>5. Len(k.t.queue) <= k.sent /\ k.sent + k.refused <= MaxSent
    BY <1>11, <2>2, <2>3
  <2>6. TcbOK(k, n)
    BY <1>1, <1>10, <2>2, <2>3, <2>4, <2>5 DEF TcbOK
  <2>7. fresh => NumbersOK(k, n)
    BY <1>10, <1>e, <2>2, <2>3, <2>4 DEF NumbersOK
  <2> QED
    BY <2>6, <2>7
<1>16. fresh => RequestsOK(k, n)
  BY <1>2, <1>9, <1>10, <1>e DEF RequestsOK
<1>17. PoolOK(k)
  <2>1. k.used = Payloads(k.t.rtx) + Len(k.t.queue) /\ others \in Nat /\ k.used + others <= Blocks
    BY <1>3, <1>5, <1>6, <1>8, <1>9, <1>10
  <2>2. ASSUME NEW i \in 1..Len(k.t.queue) PROVE k.t.queue[i] # NoUnit
    <3>1. i \in 1..m /\ k.t.queue[i] = h.sent + h.refused + i
      BY <1>8, <1>10
    <3> QED
      BY <1>3, <1>6, <3>1 DEF NoUnit
  <2>3. ASSUME Unbroken(k), NEW i \in 1..Len(k.t.queue)
        PROVE  k.t.queue[i] = k.sent - Len(k.t.queue) + i
    <3> DEFINE s == h.sent
               r == h.refused
    <3>1. i \in 1..m /\ k.t.queue[i] = s + r + i /\ Len(k.t.queue) = m /\ k.sent = s + m
      BY <1>8, <1>9, <1>10
    <3>2. s \in Nat /\ r = 0
      BY <1>3, <1>u, <2>3 DEF Unbroken
    <3> HIDE DEF s, r
    <3>3. s + r + i = (s + m) - m + i
      BY ONLY <1>6, <3>1, <3>2
    <3> QED
      BY <3>1, <3>3
  <2> QED
    BY <2>1, <2>2, <2>3 DEF PoolOK
<1> QED
  BY <1>1, <1>2, <1>10, <1>11, <1>12, <1>13, <1>15, <1>16, <1>17 DEF HandlerInv, Basic, Exact, k

\* What is refused is never sent.
LEMMA RefusedKeeps ==
    ASSUME NEW n, NEW h, HandlerInv(h, n), h.t.state = "Established",
           NEW length \in Nat, h.sent + h.refused + length <= MaxSent
    PROVE  LET k == [h EXCEPT !.refused = @ + length]
           IN  /\ HandlerInv(k, n) /\ k.t.state = "Established"
               /\ k.sent + k.refused = h.sent + h.refused + length
<1> DEFINE k == [h EXCEPT !.refused = @ + length]
<1>1. /\ n \in Nat /\ n <= h.t.una /\ h.t.una <= h.t.nxt /\ h.t.wl2 <= h.t.nxt
      /\ h.t.rcvNxt \in 1..(Requests + 2)
      /\ \E fin \in Fins(h.t) : h.t.nxt + Len(h.t.queue) <= n + 1 + fin + h.sent
      /\ Len(h.t.queue) <= h.sent
  BY LiveFacts
<1>2. /\ h \in Record /\ TcbOK(h, n) /\ RingOK(h) /\ PoolOK(h) /\ PeerType
      /\ fresh => NumbersOK(h, n) /\ RequestsOK(h, n) /\ WireOK(h, n) /\ PeerOK(h, n)
  BY InvFacts
<1>3. h.sent \in Nat /\ h.refused \in Nat /\ MaxSent \in Nat
  BY <1>2, RecordFacts, Sizes
<1>4. /\ k.t = h.t /\ k.used = h.used /\ k.sent = h.sent /\ k.refused = h.refused + length
      /\ k.wire = h.wire /\ k.delivered = h.delivered /\ k.overtaken = h.overtaken
      /\ k \in Record
  <2>1. h.refused + length \in Nat
    BY <1>3
  <2> QED
    BY <1>2, <2>1 DEF Record
<1> HIDE DEF k
<1>5. /\ k.sent + k.refused = h.sent + h.refused + length
      /\ k.refused = 0 => h.refused = 0
  BY <1>3, <1>4
<1>u. Unbroken(k) => Unbroken(h)
  BY <1>4, <1>5 DEF Unbroken
<1>6. TcbOK(k, n)
  <2>1. k.sent + k.refused <= MaxSent
    BY <1>5
  <2> QED
    BY <1>1, <1>4, <2>1 DEF TcbOK
<1>7. RingOK(k) /\ PoolOK(k)
  <2>1. RingOK(k)
    BY <1>2, <1>4, RingSame
  <2> QED
    BY <1>2, <1>4, <1>u, <2>1 DEF PoolOK
<1>8. fresh => NumbersOK(k, n) /\ RequestsOK(k, n)
  BY <1>2, <1>4 DEF NumbersOK, RequestsOK
<1>9. fresh => WireOK(k, n) /\ PeerOK(k, n)
  BY <1>1, <1>2, <1>4, <1>u, WireSame, PeerSame
<1> QED
  BY <1>1, <1>2, <1>4, <1>5, <1>6, <1>7, <1>8, <1>9 DEF HandlerInv, Basic, Exact, k

LEMMA SendKeeps ==
    ASSUME NEW n, NEW h, HandlerInv(h, n), h.t.state = "Established",
           NEW length \in Nat, h.sent + h.refused + length <= MaxSent
    PROVE  LET k == Send(h, length)
           IN  /\ HandlerInv(k, n) /\ k.t.state = "Established"
               /\ k.sent + k.refused = h.sent + h.refused + length
<1>1. h.sent \in Nat /\ h.refused \in Nat /\ h.t.wnd \in Nat
  BY InvFacts, RecordFacts
<1>2. CASE length <= h.t.wnd
  <2> DEFINE k == SendNow(h, length)
  <2>1. HandlerInv(k, n) /\ k.t.state = "Established" /\ k.sent = h.sent + length /\ k.refused = h.refused
    BY <1>2, SendNowKeeps
  <2>2. Send(h, length) = k
    BY <1>2 DEF Send
  <2> HIDE DEF k
  <2>3. k.sent + k.refused = h.sent + h.refused + length
    <3>1. k.sent + k.refused = (h.sent + length) + h.refused
      BY <2>1
    <3> QED
      BY ONLY <1>1, <3>1, length \in Nat
  <2> QED
    BY <2>1, <2>2, <2>3
<1>3. CASE ~(length <= h.t.wnd) /\ IsEmpty(h)
  <2>1. Send(h, length) = Push(h, length)
    BY <1>3 DEF Send
  <2> QED
    BY <1>3, <2>1, PushKeeps
<1>4. CASE ~(length <= h.t.wnd) /\ ~IsEmpty(h)
  <2>1. Send(h, length) = [h EXCEPT !.refused = @ + length]
    BY <1>4 DEF Send
  <2> QED
    BY <2>1, RefusedKeeps
<1> QED
  BY <1>2, <1>3, <1>4

LEMMA AnswerKeeps ==
    ASSUME NEW n, NEW h, HandlerInv(h, n), h.t.state = "Established",
           NEW lengths \in Answers, h.sent + h.refused + lengths[1] + lengths[2] <= MaxSent
    PROVE  HandlerInv(Answer(h, lengths), n) /\ Answer(h, lengths).t.state = "Established"
<1> DEFINE k == Send(h, lengths[1])
<1>1. lengths \in Nat \X Nat /\ lengths[1] \in Nat /\ lengths[2] \in Nat
  BY Sizes
<1>2. h.sent \in Nat /\ h.refused \in Nat /\ MaxSent \in Nat
  BY InvFacts, RecordFacts, Sizes
<1>3. h.sent + h.refused + lengths[1] <= MaxSent
  BY <1>1, <1>2
<1>4. /\ HandlerInv(k, n) /\ k.t.state = "Established"
      /\ k.sent + k.refused = h.sent + h.refused + lengths[1]
  BY <1>1, <1>3, SendKeeps
<1> HIDE DEF k
<1>6. k.sent + k.refused + lengths[2] <= MaxSent
  BY <1>4
<1>7. HandlerInv(Send(k, lengths[2]), n) /\ Send(k, lengths[2]).t.state = "Established"
  BY <1>1, <1>4, <1>6, SendKeeps
<1> QED
  BY <1>7 DEF Answer, k

(***************************************************************************)
(* What is acknowledged leaves the ring.                                   *)
(***************************************************************************)
LEMMA RestFacts ==
    ASSUME NEW S, NEW s \in Seq(S), NEW n \in Nat, n <= Len(s)
    PROVE  /\ SubSeq(s, n + 1, Len(s)) \in Seq(S) /\ Len(SubSeq(s, n + 1, Len(s))) = Len(s) - n
           /\ \A i \in 1..(Len(s) - n) : SubSeq(s, n + 1, Len(s))[i] = s[n + i]
<1>1. Len(s) \in Nat /\ \A i \in 1..Len(s) : s[i] \in S
  OBVIOUS
<1>2. n + 1 \in Int /\ \A i \in (n + 1)..Len(s) : s[i] \in S
  BY <1>1
<1> DEFINE rest == SubSeq(s, n + 1, Len(s))
<1>3. /\ rest \in Seq(S) /\ Len(rest) = IF n + 1 <= Len(s) THEN Len(s) - (n + 1) + 1 ELSE 0
      /\ \A i \in 1..(Len(s) - (n + 1) + 1) : rest[i] = s[n + 1 + i - 1]
  BY <1>1, <1>2, SubSeqProperties
<1> HIDE DEF rest
<1>4. Len(rest) = Len(s) - n
  BY <1>1, <1>3
<1>5. ASSUME NEW i \in 1..(Len(s) - n) PROVE rest[i] = s[n + i]
  <2>1. i \in 1..(Len(s) - (n + 1) + 1) /\ n + 1 + i - 1 = n + i
    BY <1>1
  <2> QED
    BY <1>3, <2>1
<1> QED
  BY <1>3, <1>4, <1>5 DEF rest

LEMMA PayloadsRest ==
    ASSUME NEW rtx \in Seq(Entry), NEW n \in Nat, n <= Len(rtx)
    PROVE  Payloads(SubSeq(rtx, n + 1, Len(rtx))) <= Payloads(rtx)
<1> DEFINE front == SubSeq(rtx, 1, n)
           rest == SubSeq(rtx, n + 1, Len(rtx))
<1>1. Len(rtx) \in Nat /\ \A i \in 1..Len(rtx) : rtx[i] \in Entry
  OBVIOUS
<1>2. front \in Seq(Entry)
  BY <1>1, SubSeqProperties
<1>3. rest \in Seq(Entry)
  BY RestFacts
<1>4. front \o rest = rtx
  <2>1. 1 \in 1..(Len(rtx) + 1) /\ n \in (1 - 1)..Len(rtx) /\ Len(rtx) \in n..Len(rtx)
    BY <1>1
  <2>2. front \o rest = SubSeq(rtx, 1, Len(rtx))
    BY <2>1, ConcatAdjacentSubSeq
  <2> QED
    BY <2>2, SubSeqFull
<1> HIDE DEF front, rest
<1>5. Payloads(rtx) = Payloads(front) + Payloads(rest)
  BY <1>2, <1>3, <1>4, PayloadsConcat
<1>6. Payloads(front) \in Nat /\ Payloads(rest) \in Nat
  BY <1>2, <1>3, PayloadsFacts
<1>7. Payloads(rest) <= Payloads(rtx)
  BY <1>5, <1>6
<1> QED
  BY <1>7 DEF rest

\* All but the ring, its time-out and the pool.
RingOnly(h, k) ==
    /\ k.sent = h.sent /\ k.refused = h.refused
    /\ k.wire = h.wire /\ k.delivered = h.delivered /\ k.overtaken = h.overtaken
    /\ k.t.state = h.t.state /\ k.t.una = h.t.una /\ k.t.nxt = h.t.nxt /\ k.t.wnd = h.t.wnd
    /\ k.t.wl1 = h.t.wl1 /\ k.t.wl2 = h.t.wl2 /\ k.t.rcvNxt = h.t.rcvNxt
    /\ k.t.queue = h.t.queue /\ k.t.full = h.t.full

LEMMA RtxOnAckKeeps ==
    ASSUME NEW n, NEW h, HandlerInv(h, n), h.t.state # "Closed", NEW ack \in Nat
    PROVE  HandlerInv(RtxOnAck(h, ack), n) /\ RingOnly(h, RtxOnAck(h, ack))
<1> DEFINE S == { i \in DOMAIN h.t.rtx : h.t.rtx[i].seq + 1 <= ack }
           m == Cardinality(S)
           rtx == h.t.rtx
           rest == SubSeq(rtx, m + 1, Len(rtx))
           k == RtxOnAck(h, ack)
<1>1. /\ n \in Nat /\ h \in Record /\ TcbOK(h, n) /\ RingOK(h) /\ PoolOK(h) /\ PeerType
      /\ fresh => NumbersOK(h, n) /\ RequestsOK(h, n) /\ WireOK(h, n) /\ PeerOK(h, n)
  BY InvFacts
<1>2. /\ rtx \in Seq(Entry) /\ Len(rtx) \in Nat /\ h.used \in Nat /\ h.t \in Tcb
      /\ Len(h.t.queue) \in Nat /\ UnackMax \in Nat /\ Blocks \in Nat
  BY <1>1, RecordFacts, Sizes
<1>3. m \in Nat /\ m <= Len(rtx)
  <2>1. S \subseteq 1..Len(rtx)
    BY <1>2
  <2> QED
    BY <1>2, <2>1, SomeOf
<1>4. k = [h EXCEPT !.t.rtx = rest, !.t.armed = rest # << >>,
                    !.used = @ - (Payloads(rtx) - Payloads(rest))]
  BY DEF RtxOnAck, Acked
<1> HIDE DEF m, k, S
<1>5. /\ rest \in Seq(Entry) /\ Len(rest) = Len(rtx) - m
      /\ \A i \in 1..(Len(rtx) - m) : rest[i] = rtx[m + i]
  BY <1>2, <1>3, RestFacts
<1>6. Payloads(rest) <= Payloads(rtx) /\ Payloads(rest) \in Nat /\ Payloads(rtx) \in Nat
  BY <1>2, <1>3, <1>5, PayloadsRest, PayloadsFacts
<1> HIDE DEF rest
<1>7. /\ k.t = [h.t EXCEPT !.rtx = rest, !.armed = rest # << >>]
      /\ k.used = h.used - (Payloads(rtx) - Payloads(rest)) /\ k.sent = h.sent /\ k.wire = h.wire
      /\ k.refused = h.refused /\ k.delivered = h.delivered /\ k.overtaken = h.overtaken
  BY <1>1, <1>4 DEF Record
<1>8. /\ k.t \in Tcb /\ k.t.state = h.t.state /\ k.t.una = h.t.una /\ k.t.nxt = h.t.nxt
      /\ k.t.wnd = h.t.wnd /\ k.t.wl1 = h.t.wl1 /\ k.t.wl2 = h.t.wl2 /\ k.t.rcvNxt = h.t.rcvNxt
      /\ k.t.queue = h.t.queue /\ k.t.full = h.t.full /\ k.t.rtx = rest
  <2>1. (rest # << >>) \in BOOLEAN
    OBVIOUS
  <2> HIDE <1>4
  <2> QED
    BY <1>2, <1>5, <1>7, <2>1 DEF Tcb
<1>9. /\ h.used = Payloads(rtx) + Len(h.t.queue) /\ others \in Nat /\ h.used + others <= Blocks
  BY <1>1 DEF PoolOK
<1>10. k.used = Payloads(rest) + Len(h.t.queue) /\ k.used \in Nat /\ k.used + others <= Blocks
  <2>1. k.used = h.used - (Payloads(rtx) - Payloads(rest))
    BY <1>7
  <2>2. h.used \in Nat /\ Len(h.t.queue) \in Nat /\ Blocks \in Nat
    BY <1>2
  <2>3. k.used = Payloads(rest) + Len(h.t.queue)
    BY <1>6, <1>9, <2>1, <2>2
  <2>4. k.used \in Nat
    BY <1>6, <2>2, <2>3
  <2>5. k.used <= h.used
    BY <1>6, <2>1, <2>2
  <2> QED
    BY <1>9, <2>2, <2>3, <2>4, <2>5
<1>11. k \in Record
  BY <1>1, <1>4, <1>7, <1>8, <1>10 DEF Record
<1>12. RingOK(k)
  <2>1. Len(k.t.rtx) <= UnackMax
    <3>1. Len(rtx) <= UnackMax
      BY <1>1 DEF RingOK
    <3> QED
      BY <1>2, <1>3, <1>5, <1>8, <3>1
  <2>2. ASSUME NEW i \in 1..Len(k.t.rtx)
        PROVE  \/ k.t.rtx[i].what = "data" /\ k.t.rtx[i].unit = NoUnit
               \/ Resent(k, k.t.rtx[i]) \in k.wire
    <3>1. m + i \in 1..Len(rtx) /\ k.t.rtx[i] = rtx[m + i]
      BY <1>2, <1>3, <1>5, <1>8
    <3> QED
      BY <1>1, <1>7, <3>1 DEF RingOK, Resent
  <2> QED
    BY <2>1, <2>2 DEF RingOK
<1>u. Unbroken(k) <=> Unbroken(h)
  BY <1>7 DEF Unbroken
<1>13. fresh => WireOK(k, n) /\ PeerOK(k, n)
  BY <1>1, <1>7, <1>8, <1>u, WireSame, PeerSame
<1>14. PoolOK(k)
  BY <1>1, <1>7, <1>8, <1>9, <1>10, <1>u DEF PoolOK
<1>f. Fins(k.t) = Fins(h.t)
  BY <1>8 DEF Fins
<1>15. TcbOK(k, n)
  BY <1>1, <1>7, <1>8, <1>f DEF TcbOK
<1>n. fresh => NumbersOK(k, n)
  BY <1>1, <1>7, <1>8, <1>f DEF NumbersOK
<1>16. fresh => RequestsOK(k, n)
  BY <1>1, <1>7, <1>8 DEF RequestsOK
<1> QED
  BY <1>1, <1>7, <1>8, <1>11, <1>12, <1>13, <1>14, <1>15, <1>16, <1>n
  DEF HandlerInv, Basic, Exact, RingOnly, k

(***************************************************************************)
(* What a segment changes in the Tcb; nothing is sent.                     *)
(***************************************************************************)
Changed(h, n, t) ==
    /\ t \in Tcb /\ t.nxt = h.t.nxt /\ t.queue = h.t.queue /\ t.full = h.t.full /\ t.rtx = h.t.rtx
    /\ n <= t.una /\ t.una <= t.nxt /\ t.wl2 <= t.nxt /\ t.rcvNxt \in 1..(Requests + 2)
    /\ t.state # "Closed" /\ (t.state = "LastAck" => h.t.state = "LastAck")
    /\ Fins(h.t) \subseteq Fins(t)
    /\ t.state = "SynReceived" =>
          h.t.state = "SynReceived" /\ t.una = h.t.una /\ t.rcvNxt = h.t.rcvNxt
    /\ fresh =>
          /\ t.state = "Established" => Mine(n) /\ t.rcvNxt = Len(h.delivered) + 1
          /\ t.state = "Halted" => Mine(n)
          /\ Bound \/ t.state = "SynReceived"

LEMMA ChangedKeeps ==
    ASSUME NEW n, NEW h, HandlerInv(h, n), h.t.state # "Closed", NEW t, Changed(h, n, t)
    PROVE  HandlerInv([h EXCEPT !.t = t], n)
<1> DEFINE k == [h EXCEPT !.t = t]
<1>1. /\ n \in Nat /\ h \in Record /\ TcbOK(h, n) /\ RingOK(h) /\ PoolOK(h) /\ PeerType
      /\ fresh => NumbersOK(h, n) /\ RequestsOK(h, n) /\ WireOK(h, n) /\ PeerOK(h, n)
  BY InvFacts
<1>2. /\ t \in Tcb /\ t.nxt = h.t.nxt /\ t.queue = h.t.queue /\ t.full = h.t.full /\ t.rtx = h.t.rtx
      /\ t.state # "Closed" /\ (t.state = "LastAck" => h.t.state = "LastAck")
  BY DEF Changed
<1>3. /\ k.t = t /\ k.used = h.used /\ k.sent = h.sent /\ k.refused = h.refused /\ k.wire = h.wire
      /\ k.delivered = h.delivered /\ k.overtaken = h.overtaken
  BY <1>1 DEF Record
<1>4. k \in Record
  BY <1>1, <1>2 DEF Record
<1> HIDE DEF k
<1>u. Unbroken(k) <=> Unbroken(h)
  BY <1>3 DEF Unbroken
<1>5. RingOK(k) /\ (fresh => PeerOK(k, n))
  BY <1>1, <1>2, <1>3, <1>u, RingSame, PeerSame
<1>6. fresh => WireOK(k, n)
  BY <1>1, <1>2, <1>3, <1>u, WireSame
<1>7. PoolOK(k)
  BY <1>1, <1>2, <1>3, <1>u DEF PoolOK
<1>f. \A fin : fin \in Fins(h.t) => fin \in Fins(t)
  BY DEF Changed
<1>t. TcbOK(k, n)
  <2>1. n <= t.una /\ t.una <= t.nxt /\ t.wl2 <= t.nxt /\ t.rcvNxt \in 1..(Requests + 2)
    BY DEF Changed
  <2>2. Len(t.queue) <= h.sent /\ h.sent + h.refused <= MaxSent
    BY <1>1, <1>2 DEF TcbOK
  <2>3. PICK fin \in Fins(h.t) : h.t.nxt + Len(h.t.queue) <= n + 1 + fin + h.sent
    BY <1>1 DEF TcbOK
  <2>4. fin \in Fins(t) /\ t.nxt + Len(t.queue) <= n + 1 + fin + h.sent
    BY <1>2, <1>f, <2>3
  <2> QED
    BY <1>2, <1>3, <2>1, <2>2, <2>4 DEF TcbOK
<1>8. fresh => NumbersOK(k, n)
  <2>1. SUFFICES ASSUME fresh PROVE NumbersOK(k, n)
    OBVIOUS
  <2>3. PICK fin \in Fins(h.t) :
            h.t.nxt + Len(h.t.queue) = n + 1 + fin + (IF Mine(n) THEN h.sent ELSE 0)
    BY <1>1, <2>1 DEF NumbersOK
  <2>5. /\ fin \in Fins(t)
        /\ t.nxt + Len(t.queue) = n + 1 + fin + (IF Mine(n) THEN h.sent ELSE 0)
    BY <1>2, <1>f, <2>3
  <2>6. ~Mine(n) => t.queue = << >> /\ ~t.full /\ t.state \notin {"Established", "Halted"}
    BY <1>1, <1>2, <2>1 DEF NumbersOK, Changed
  <2>7. t.state = "SynReceived" => t.una = n
    BY <1>1, <2>1 DEF NumbersOK, Changed
  <2> QED
    BY <1>3, <2>5, <2>6, <2>7 DEF NumbersOK
<1>9. fresh => RequestsOK(k, n)
  <2>0. SUFFICES ASSUME fresh PROVE RequestsOK(k, n)
    OBVIOUS
  <2>1. \A i \in 1..Len(k.delivered) : k.delivered[i] = i
    BY <1>1, <1>3, <2>0 DEF RequestsOK
  <2>2. t.state = "SynReceived" => t.rcvNxt = 1
    BY <1>1, <2>0 DEF RequestsOK, Changed
  <2>3. t.state = "Established" => t.rcvNxt = Len(h.delivered) + 1
    BY <2>0 DEF Changed
  <2>4. t.state = "SynReceived" /\ (Bound => Mine(n)) => h.delivered = << >>
    BY <1>1, <2>0 DEF RequestsOK, Changed
  <2>5. ~Bound => h.sent = 0 /\ h.delivered = << >> /\ t.state = "SynReceived"
    BY <1>1, <2>0 DEF RequestsOK, Changed
  <2> QED
    BY <1>3, <2>1, <2>2, <2>3, <2>4, <2>5 DEF RequestsOK
<1> QED
  BY <1>1, <1>2, <1>3, <1>4, <1>5, <1>6, <1>7, <1>8, <1>9, <1>t DEF HandlerInv, Basic, Exact, k

\* The acknowledgement field of a segment, in ESTABLISHED and CLOSE-WAIT.
LEMMA AcknowledgeKeeps ==
    ASSUME NEW n, NEW h, HandlerInv(h, n), h.t.state \in {"Established", "CloseWait"},
           NEW s, s.ack \in Nat, s.seq \in Nat, NEW wnd \in Nat
    PROVE  LET k == Acknowledge(h, s, wnd)
           IN  /\ HandlerInv(k, n) /\ k.t.state = h.t.state /\ k.t.rcvNxt = h.t.rcvNxt
               /\ k.sent = h.sent /\ k.refused = h.refused /\ k.delivered = h.delivered
<1> DEFINE Advance(t) == [t EXCEPT !.una = s.ack]
           k == Acknowledge(h, s, wnd)
<1>1. ASSUME NEW x, HandlerInv(x, n), x.t.state = h.t.state, NEW una \in Nat,
             n <= una, una <= x.t.nxt, s.ack <= x.t.nxt
      PROVE  LET y == [x EXCEPT !.t = Window([x.t EXCEPT !.una = una], s, wnd)]
             IN  /\ HandlerInv(y, n) /\ y.t.state = x.t.state /\ y.t.rcvNxt = x.t.rcvNxt
                 /\ y.sent = x.sent /\ y.refused = x.refused /\ y.delivered = x.delivered
  <2> DEFINE u == [x.t EXCEPT !.una = una]
             v == [u EXCEPT !.wnd = wnd, !.wl1 = s.seq, !.wl2 = s.ack]
             t == Window(u, s, wnd)
             y == [x EXCEPT !.t = t]
  <2>1. x \in Record /\ x.t \in Tcb
    BY <1>1, InvFacts, RecordFacts
  <2>2. /\ n \in Nat /\ x.t.nxt \in Nat /\ x.t.wl2 <= x.t.nxt
        /\ x.t.rcvNxt \in 1..(Requests + 2)
        /\ fresh =>
              /\ Bound \/ x.t.state = "SynReceived"
              /\ x.t.state = "Established" => Mine(n) /\ x.t.rcvNxt = Len(x.delivered) + 1
    BY <1>1, LiveFacts
  <2>3. u \in Tcb
    BY <2>1 DEF Tcb
  <2>4. /\ u.nxt = x.t.nxt /\ u.queue = x.t.queue /\ u.full = x.t.full /\ u.rtx = x.t.rtx
        /\ u.una = una /\ u.wl2 = x.t.wl2 /\ u.rcvNxt = x.t.rcvNxt /\ u.state = x.t.state
    BY <2>1 DEF Tcb
  <2> HIDE DEF u
  <2>5. v \in Tcb
    BY <2>3 DEF Tcb
  <2>6. /\ v.nxt = x.t.nxt /\ v.queue = x.t.queue /\ v.full = x.t.full /\ v.rtx = x.t.rtx
        /\ v.una = una /\ v.wl2 = s.ack /\ v.rcvNxt = x.t.rcvNxt /\ v.state = x.t.state
    BY <2>3, <2>4 DEF Tcb
  <2> HIDE DEF v
  <2>7. t = u \/ t = v
    BY DEF Window, v
  <2> HIDE DEF t
  <2>8. /\ t \in Tcb /\ t.nxt = x.t.nxt /\ t.queue = x.t.queue /\ t.full = x.t.full
        /\ t.rtx = x.t.rtx /\ t.una = una /\ t.wl2 <= x.t.nxt /\ t.rcvNxt = x.t.rcvNxt
        /\ t.state = x.t.state
    BY <1>1, <2>2, <2>3, <2>4, <2>5, <2>6, <2>7
  <2>9. Changed(x, n, t)
    <3>1. Fins(x.t) = Fins(t)
      BY <2>8 DEF Fins
    <3>2. t.state \in {"Established", "CloseWait"}
      BY <1>1, <2>8
    <3> QED
      BY <1>1, <2>2, <2>8, <3>1, <3>2 DEF Changed
  <2>10. HandlerInv(y, n)
    BY <1>1, <2>9, ChangedKeeps
  <2>11. y.t = t /\ y.sent = x.sent /\ y.refused = x.refused /\ y.delivered = x.delivered
    BY <2>1 DEF Record
  <2> QED
    BY <2>8, <2>10, <2>11 DEF t, u
<1>2. CASE h.t.una < s.ack /\ s.ack <= h.t.nxt
  <2> DEFINE r == RtxOnAck(h, s.ack)
  <2>1. HandlerInv(r, n) /\ RingOnly(h, r)
    BY RtxOnAckKeeps
  <2>2. k = [r EXCEPT !.t = Window([@ EXCEPT !.una = s.ack], s, wnd)]
    BY <1>2 DEF Acknowledge
  <2> HIDE DEF r, k
  <2>3. r \in Record
    BY <2>1, InvFacts
  <2>4. k = [r EXCEPT !.t = Window([r.t EXCEPT !.una = s.ack], s, wnd)]
    BY <2>2, <2>3 DEF Record
  <2>5. /\ r.t.state = h.t.state /\ r.t.nxt = h.t.nxt /\ r.t.rcvNxt = h.t.rcvNxt
        /\ r.sent = h.sent /\ r.refused = h.refused /\ r.delivered = h.delivered
    BY <2>1 DEF RingOnly
  <2>6. n <= s.ack
    BY <1>2, LiveFacts
  <2> QED
    BY <1>1, <1>2, <2>1, <2>4, <2>5, <2>6 DEF k
<1>3. CASE ~(h.t.una < s.ack /\ s.ack <= h.t.nxt) /\ h.t.una = s.ack
  <2>1. k = [h EXCEPT !.t = Window(@, s, wnd)]
    BY <1>3 DEF Acknowledge
  <2>2. h \in Record /\ h.t \in Tcb
    BY InvFacts, RecordFacts
  <2>3. [h.t EXCEPT !.una = h.t.una] = h.t
    BY <2>2 DEF Tcb
  <2> HIDE DEF k
  <2>4. k = [h EXCEPT !.t = Window([h.t EXCEPT !.una = h.t.una], s, wnd)]
    BY <2>1, <2>2, <2>3 DEF Record
  <2>5. h.t.una \in Nat /\ n <= h.t.una /\ h.t.una <= h.t.nxt /\ s.ack <= h.t.nxt
    BY <1>3, LiveFacts
  <2> QED
    BY <1>1, <2>4, <2>5 DEF k
<1>4. CASE ~(h.t.una < s.ack /\ s.ack <= h.t.nxt) /\ ~(h.t.una = s.ack)
  BY <1>4 DEF Acknowledge
<1> QED
  BY <1>2, <1>3, <1>4

(***************************************************************************)
(* FreeTcb(): the blocks go back to the pool.                              *)
(***************************************************************************)
LEMMA ClosedFacts ==
    /\ Closed \in Tcb /\ Closed.state = "Closed" /\ Closed.rtx = << >> /\ Closed.queue = << >>
    /\ Payloads(<< >>) = 0 /\ Len(<< >>) = 0
<1>1. << >> \in Seq(Nat) /\ << >> \in Seq(Entry) /\ Len(<< >>) = 0
  OBVIOUS
<1>2. Closed \in Tcb /\ Closed.state = "Closed" /\ Closed.rtx = << >> /\ Closed.queue = << >>
  BY <1>1 DEF Closed, Tcb
<1>3. Payloads(<< >>) = 0
  <2>1. Copies(<< >>) = {}
    BY <1>1 DEF Copies
  <2>2. Payloads(<< >>) = Cardinality(Copies(<< >>))
    BY <1>1, PayloadsFacts
  <2> QED
    BY <2>1, <2>2, FS_EmptySet
<1> QED
  BY <1>1, <1>2, <1>3

LEMMA FreeKeeps ==
    ASSUME NEW n, NEW h, HandlerInv(h, n), h.t.state # "Closed"
    PROVE  HandlerInv(FreeTcb(h), n)
<1> DEFINE k == FreeTcb(h)
<1>1. /\ n \in Nat /\ h \in Record /\ TcbOK(h, n) /\ RingOK(h) /\ PoolOK(h) /\ PeerType
      /\ fresh => NumbersOK(h, n) /\ RequestsOK(h, n) /\ WireOK(h, n) /\ PeerOK(h, n)
  BY InvFacts
<1>2. /\ h.used \in Nat /\ Payloads(h.t.rtx) \in Nat /\ Len(h.t.queue) \in Nat /\ h.sent \in Nat
  BY <1>1, RecordFacts, PayloadsFacts
<1>3. k = [h EXCEPT !.t = Closed, !.used = @ - Payloads(h.t.rtx) - Len(h.t.queue)]
  BY DEF FreeTcb
<1>4. /\ h.used = Payloads(h.t.rtx) + Len(h.t.queue) /\ others \in Nat /\ h.used + others <= Blocks
  BY <1>1 DEF PoolOK
<1>5. h.used - Payloads(h.t.rtx) - Len(h.t.queue) = 0
  <2> DEFINE x == h.used
             p == Payloads(h.t.rtx)
             l == Len(h.t.queue)
  <2>1. x \in Nat /\ p \in Nat /\ l \in Nat /\ x = p + l
    BY <1>2, <1>4
  <2> HIDE DEF x, p, l
  <2>2. x - p - l = 0
    BY ONLY <2>1
  <2> QED
    BY <2>2 DEF x, p, l
<1> HIDE DEF k
<1>6. /\ k.t = Closed /\ k.used = 0 /\ k.sent = h.sent /\ k.refused = h.refused /\ k.wire = h.wire
      /\ k.delivered = h.delivered /\ k.overtaken = h.overtaken
  BY <1>1, <1>3, <1>5 DEF Record
<1>7. k \in Record
  <2>1. k = [h EXCEPT !.t = Closed, !.used = 0]
    BY <1>3, <1>5
  <2> QED
    BY <1>1, <2>1, ClosedFacts DEF Record
<1>8. RingOK(k)
  <2>1. Len(k.t.rtx) = 0
    BY <1>6, ClosedFacts
  <2> QED
    BY <2>1, Sizes DEF RingOK
<1>u. Unbroken(k) <=> Unbroken(h)
  BY <1>6 DEF Unbroken
<1>9. fresh => PeerOK(k, n)
  BY <1>1, <1>6, <1>u, PeerSame
<1>10. fresh => WireOK(k, n)
  <2>1. k.t.state = "Closed"
    BY <1>6, ClosedFacts
  <2> QED
    BY <1>1, <1>6, <1>u, <2>1, WireSame
<1>11. TcbOK(k, n) /\ (fresh => NumbersOK(k, n))
  <2>1. k.t = Closed /\ k.t.state = "Closed" /\ Len(k.t.queue) = 0
    BY <1>6, ClosedFacts
  <2>2. h.sent + h.refused <= MaxSent
    BY <1>1 DEF TcbOK
  <2> QED
    BY <1>2, <1>6, <2>1, <2>2 DEF TcbOK, NumbersOK
<1>12. fresh => RequestsOK(k, n)
  BY <1>1, <1>6, ClosedFacts DEF RequestsOK
<1>13. PoolOK(k)
  <2>1. Len(k.t.queue) = 0 /\ Payloads(k.t.rtx) = 0
    BY <1>6, ClosedFacts
  <2>2. 0 + others <= Blocks
    BY <1>2, <1>4, Sizes
  <2> QED
    BY <1>4, <1>6, <2>1, <2>2 DEF PoolOK
<1> QED
  BY <1>1, <1>6, <1>7, <1>8, <1>9, <1>10, <1>11, <1>12, <1>13 DEF HandlerInv, Basic, Exact, k

(***************************************************************************)
(* FIN of the peer, and data in its order.                                 *)
(***************************************************************************)
LEMMA FinKeeps ==
    ASSUME NEW n, NEW h, HandlerInv(h, n), fresh => Bound, h.t.rcvNxt <= Requests + 1,
           h.t.state \in {"SynReceived", "Established", "CloseWait", "LastAck"}
    PROVE  HandlerInv(Fin(h), n)
<1> DEFINE state == IF h.t.state = "LastAck" THEN "LastAck" ELSE "CloseWait"
           t == [h.t EXCEPT !.rcvNxt = @ + 1, !.state = state]
<1>1. h \in Record /\ h.t \in Tcb
  BY InvFacts, RecordFacts
<1>2. /\ n \in Nat /\ n <= h.t.una /\ h.t.una <= h.t.nxt /\ h.t.wl2 <= h.t.nxt
      /\ h.t.rcvNxt \in 1..(Requests + 2)
  BY LiveFacts
<1>3. Fin(h) = [h EXCEPT !.t = t]
  BY <1>1 DEF Fin, Record
<1>4. h.t.rcvNxt + 1 \in 1..(Requests + 2) /\ h.t.rcvNxt + 1 \in Nat
  BY <1>2, Sizes
<1>5. state \in {"LastAck", "CloseWait"} /\ (state = "LastAck" <=> h.t.state = "LastAck")
  OBVIOUS
<1> HIDE DEF state
<1>6. t \in Tcb
  BY <1>1, <1>4, <1>5 DEF Tcb
<1>7. /\ t.nxt = h.t.nxt /\ t.queue = h.t.queue /\ t.full = h.t.full /\ t.rtx = h.t.rtx
      /\ t.una = h.t.una /\ t.wl2 = h.t.wl2 /\ t.rcvNxt = h.t.rcvNxt + 1 /\ t.state = state
  BY <1>1 DEF Tcb
<1> HIDE DEF t
<1>8. Changed(h, n, t)
  <2>1. Fins(h.t) \subseteq Fins(t)
    BY <1>5, <1>7 DEF Fins
  <2> QED
    BY <1>2, <1>4, <1>5, <1>6, <1>7, <2>1 DEF Changed
<1> QED
  BY <1>3, <1>8, ChangedKeeps

LEMMA DeliveredKeeps ==
    ASSUME NEW n, HandlerInv(Handler, n), tcb.state = "Established",
           NEW s, s.ack \in Nat, s.seq \in Nat, InOrder(s), s.seq <= Requests, NEW wnd \in Nat
    PROVE  /\ HandlerInv(Delivered(s, wnd), n) /\ Delivered(s, wnd).t.state = "Established"
           /\ Delivered(s, wnd).sent = sent /\ Delivered(s, wnd).refused = refused
<1> DEFINE h == Acknowledge(Handler, s, wnd)
           k == Delivered(s, wnd)
<1>1. Handler.t = tcb /\ Handler.sent = sent /\ Handler.refused = refused
  BY DEF Handler
<1>2. /\ HandlerInv(h, n) /\ h.t.state = "Established" /\ h.t.rcvNxt = tcb.rcvNxt
      /\ h.sent = sent /\ h.refused = refused
  BY <1>1, AcknowledgeKeeps
<1>3. k = [h EXCEPT !.t.rcvNxt = @ + 1, !.delivered = Append(@, s.seq)]
  BY DEF Delivered
<1> HIDE DEF h, k
<1>4. /\ n \in Nat /\ h \in Record /\ TcbOK(h, n) /\ RingOK(h) /\ PoolOK(h) /\ PeerType
      /\ fresh => NumbersOK(h, n) /\ RequestsOK(h, n) /\ WireOK(h, n) /\ PeerOK(h, n)
  BY <1>2, InvFacts
<1>5. h.t \in Tcb /\ h.delivered \in Seq(Nat) /\ Requests \in Nat
  BY <1>4, RecordFacts, Sizes
<1>6. /\ h.t.rcvNxt \in 1..(Requests + 2)
      /\ fresh => Bound /\ Mine(n) /\ h.t.rcvNxt = Len(h.delivered) + 1
  BY <1>2, LiveFacts, EstablishedFacts
<1>7. s.seq = h.t.rcvNxt
  BY <1>2 DEF InOrder
<1>8. h.t.rcvNxt + 1 \in 1..(Requests + 2) /\ h.t.rcvNxt + 1 \in Nat
  BY <1>5, <1>6, <1>7
<1>9. /\ Append(h.delivered, s.seq) \in Seq(Nat)
      /\ Len(Append(h.delivered, s.seq)) = Len(h.delivered) + 1
      /\ \A i \in 1..Len(h.delivered) : Append(h.delivered, s.seq)[i] = h.delivered[i]
      /\ Append(h.delivered, s.seq)[Len(h.delivered) + 1] = s.seq
  BY <1>5, AppendProperties
<1>10. /\ k.t = [h.t EXCEPT !.rcvNxt = @ + 1] /\ k.used = h.used /\ k.sent = h.sent /\ k.refused = h.refused
       /\ k.wire = h.wire /\ k.delivered = Append(h.delivered, s.seq) /\ k.overtaken = h.overtaken
  BY <1>3, <1>4 DEF Record
<1>11. /\ k.t \in Tcb /\ k.t.state = "Established" /\ k.t.una = h.t.una /\ k.t.nxt = h.t.nxt
       /\ k.t.wl2 = h.t.wl2 /\ k.t.rcvNxt = h.t.rcvNxt + 1 /\ k.t.queue = h.t.queue
       /\ k.t.full = h.t.full /\ k.t.rtx = h.t.rtx
  BY <1>2, <1>5, <1>8, <1>10 DEF Tcb
<1>12. k \in Record
  BY <1>3, <1>4, <1>9, <1>10, <1>11 DEF Record
<1>u. Unbroken(k) <=> Unbroken(h)
  BY <1>10 DEF Unbroken
<1>13. RingOK(k) /\ (fresh => PeerOK(k, n))
  BY <1>4, <1>10, <1>11, <1>u, RingSame, PeerSame
<1>14. fresh => WireOK(k, n)
  BY <1>2, <1>4, <1>10, <1>11, <1>u, WireSame
<1>15. PoolOK(k)
  BY <1>4, <1>10, <1>11, <1>u DEF PoolOK
<1>f. Fins(k.t) = Fins(h.t)
  BY <1>2, <1>11 DEF Fins
<1>t. TcbOK(k, n)
  BY <1>2, <1>4, <1>8, <1>10, <1>11, <1>f DEF TcbOK
<1>16. fresh => NumbersOK(k, n)
  BY <1>2, <1>4, <1>6, <1>10, <1>11, <1>f DEF NumbersOK
<1>17. fresh => RequestsOK(k, n)
  <2>0. SUFFICES ASSUME fresh PROVE RequestsOK(k, n)
    OBVIOUS
  <2>1. Len(h.delivered) \in Nat
    BY <1>5
  <2>2. ASSUME NEW i \in 1..Len(k.delivered) PROVE k.delivered[i] = i
    <3>1. CASE i \in 1..Len(h.delivered)
      BY <1>4, <1>9, <1>10, <2>0, <3>1 DEF RequestsOK
    <3>2. CASE i = Len(h.delivered) + 1
      BY <1>6, <1>7, <1>9, <1>10, <2>0, <3>2
    <3> QED
      BY <1>9, <1>10, <2>1, <3>1, <3>2
  <2>3. k.t.rcvNxt = Len(k.delivered) + 1
    BY <1>6, <1>9, <1>10, <1>11, <2>0
  <2> QED
    BY <1>6, <1>11, <2>0, <2>2, <2>3 DEF RequestsOK
<1> QED
  BY <1>2, <1>4, <1>10, <1>11, <1>12, <1>13, <1>14, <1>15, <1>16, <1>17, <1>t
  DEF HandlerInv, Basic, Exact, k

(***************************************************************************)
(* Run(): the FIN, the queue, the oldest segment again.                    *)
(***************************************************************************)
FinOf(t) == IF t.state = "LastAck" THEN 1 ELSE 0

LEMMA NumberFacts ==
    ASSUME NEW n, NEW h, HandlerInv(h, n), h.t.state \notin {"Closed", "Halted"}
    PROVE  LET fin == FinOf(h.t)
           IN  /\ fin \in Nat /\ fin \in Fins(h.t)
               /\ h.t.nxt + Len(h.t.queue) <= n + 1 + fin + h.sent
               /\ fresh => /\ Mine(n) => h.t.nxt + Len(h.t.queue) = n + 1 + fin + h.sent
                           /\ ~Mine(n) => h.t.nxt + Len(h.t.queue) = n + 1 + fin + 0
                           /\ ~Mine(n) => h.t.queue = << >> /\ ~h.t.full
<1> DEFINE fin == FinOf(h.t)
<1>1. Fins(h.t) = {fin} /\ fin \in Nat
  BY DEF Fins, FinOf
<1> HIDE DEF fin
<1>2. TcbOK(h, n) /\ (fresh => NumbersOK(h, n))
  BY InvFacts
<1>3. h.t.nxt + Len(h.t.queue) <= n + 1 + fin + h.sent
  BY <1>1, <1>2 DEF TcbOK
<1>4. ASSUME fresh
      PROVE  h.t.nxt + Len(h.t.queue) = n + 1 + fin + (IF Mine(n) THEN h.sent ELSE 0)
  BY <1>1, <1>2, <1>4 DEF NumbersOK
<1>5. fresh /\ ~Mine(n) => h.t.queue = << >> /\ ~h.t.full
  BY <1>2 DEF NumbersOK
<1> QED
  BY <1>1, <1>3, <1>4, <1>5 DEF fin

LEMMA SendFinKeeps ==
    ASSUME NEW n, NEW h, HandlerInv(h, n), h.t.state \notin {"Closed", "Halted"}
    PROVE  LET k == SendFin(h)
           IN  /\ HandlerInv(k, n) /\ k.t.state \notin {"Closed", "Halted"}
               /\ k.t.full = h.t.full
<1>1. CASE h.t.state # "CloseWait"
  BY <1>1 DEF SendFin
<1>2. CASE h.t.state = "CloseWait"
  <2> DEFINE units == <<NoUnit>>
             s == SendSegments(h, "FIN", units, {})
             new == Entries(h, "FIN", units, {})
             m == Least(Len(units), Room(h))
             k == SendFin(h)
  <2>1. /\ n \in Nat /\ h \in Record /\ TcbOK(h, n) /\ RingOK(h) /\ PoolOK(h) /\ PeerType
        /\ fresh => NumbersOK(h, n) /\ RequestsOK(h, n) /\ WireOK(h, n) /\ PeerOK(h, n)
    BY InvFacts
  <2>2. /\ h.t.nxt \in Nat /\ h.t.una \in Nat /\ h.t.wl2 \in Nat
        /\ n <= h.t.una /\ h.t.una <= h.t.nxt /\ h.t.wl2 <= h.t.nxt
        /\ h.t.rcvNxt \in 1..(Requests + 2) /\ (fresh => Bound)
        /\ Len(h.t.queue) <= h.sent /\ h.sent + h.refused <= MaxSent
    BY <1>2, LiveFacts
  <2>3. "FIN" \in What /\ units \in Seq(Nat) /\ Len(units) = 1 /\ \A i \in 1..Len(units) : units[i] = NoUnit
    BY DEF What, NoUnit
  <2>4. Len(h.t.rtx) <= UnackMax /\ h.sent \in Nat /\ Len(h.t.queue) \in Nat
    BY <2>1, RecordFacts DEF RingOK
  <2>5. /\ h.t.nxt + Len(h.t.queue) <= n + 1 + 0 + h.sent
        /\ fresh => /\ Mine(n) => h.t.nxt + Len(h.t.queue) = n + 1 + 0 + h.sent
                    /\ ~Mine(n) => h.t.nxt + Len(h.t.queue) = n + 1 + 0 + 0
    <3>1. FinOf(h.t) = 0
      BY <1>2 DEF FinOf
    <3> QED
      BY <1>2, <3>1, NumberFacts
  <2>6. k = [s EXCEPT !.t.state = "LastAck"]
    BY <1>2 DEF SendFin, SendControl
  <2>b. n <= h.t.nxt
    BY <2>1, <2>2
  <2>7. Sendable(h, n, "FIN", units)
    BY <2>b DEF Sendable
  <2>p. Plain(h, "FIN", units, {})
    BY <1>2, <2>3 DEF Plain
  <2>c. \A i \in 1..Len(units) : i \in {} => units[i] # NoUnit
    OBVIOUS
  <2> HIDE DEF units
  <2>8. /\ s \in Record
        /\ s.sent = h.sent /\ s.refused = h.refused
        /\ s.delivered = h.delivered /\ s.overtaken = h.overtaken
        /\ s.used = h.used + Payloads(new)
        /\ s.t.una = h.t.una /\ s.t.nxt = h.t.nxt + Len(units) /\ s.t.state = h.t.state
        /\ s.t.wl2 = h.t.wl2 /\ s.t.rcvNxt = h.t.rcvNxt /\ s.t.queue = h.t.queue
        /\ s.t.full = h.t.full /\ s.t.rtx = h.t.rtx \o new
    <3>1. h \in Record /\ Len(h.t.rtx) <= UnackMax /\ "FIN" \in What /\ units \in Seq(Nat)
      BY <2>1, <2>3, <2>4
    <3> QED
      BY <2>c, <3>1, SegmentsFacts
  <2>9. [seq |-> h.t.nxt, what |-> "FIN", unit |-> NoUnit] \in s.wire
    <3>1. s.wire = h.wire \cup { [seq |-> h.t.nxt + i - 1, what |-> "FIN", unit |-> units[i]] :
                                  i \in 1..Len(units) }
      <4>1. h \in Record /\ Len(h.t.rtx) <= UnackMax /\ "FIN" \in What /\ units \in Seq(Nat)
        BY <2>1, <2>3, <2>4
      <4> QED
        BY <2>c, <4>1, SegmentsFacts
    <3>2. 1 \in 1..Len(units) /\ units[1] = NoUnit /\ h.t.nxt + 1 - 1 = h.t.nxt
      BY <2>2, <2>3
    <3> QED
      BY <3>1, <3>2
  <2>10. RingOK(s) /\ (fresh => WireOK(s, n) /\ PeerOK(s, n))
    <3>1. RingOK(s)
      BY <2>1, <2>3, <2>p, SegmentsRing
    <3>2. fresh => WireOK(s, n) /\ PeerOK(s, n)
      BY <2>1, <2>3, <2>7, <2>p, SegmentsKeep
    <3> QED
      BY <3>1, <3>2
  <2>11. new \in Seq(Entry) /\ Payloads(new) = 0
    <3>1. new \in Seq(Entry)
      BY <2>1, <2>3, <2>4, EntriesFacts
    <3>2. Payloads(new) = Cardinality({} \cap (1..m))
      BY <2>1, <2>3, <2>4, EntriesFacts
    <3>3. {} \cap (1..m) = {}
      OBVIOUS
    <3> QED
      BY <3>1, <3>2, <3>3, FS_EmptySet
  <2> HIDE DEF s, k, new
  <2>12. /\ k.t = [s.t EXCEPT !.state = "LastAck"] /\ k.used = s.used /\ k.sent = s.sent
         /\ k.refused = s.refused
         /\ k.wire = s.wire /\ k.delivered = s.delivered /\ k.overtaken = s.overtaken
    BY <2>6, <2>8 DEF Record
  <2>13. s.t \in Tcb
    BY <2>8, RecordFacts
  <2>14. /\ k.t \in Tcb /\ k.t.state = "LastAck" /\ k.t.una = h.t.una
         /\ k.t.nxt = h.t.nxt + 1 /\ k.t.wl2 = h.t.wl2 /\ k.t.rcvNxt = h.t.rcvNxt
         /\ k.t.queue = h.t.queue /\ k.t.full = h.t.full /\ k.t.rtx = s.t.rtx
    BY <2>3, <2>8, <2>12, <2>13 DEF Tcb
  <2>15. k \in Record
    BY <2>6, <2>8, <2>12, <2>14 DEF Record
  <2>u. (Unbroken(k) <=> Unbroken(s)) /\ (Unbroken(k) <=> Unbroken(h))
    BY <2>8, <2>12 DEF Unbroken
  <2>16. RingOK(k) /\ (fresh => PeerOK(k, n))
    BY <2>10, <2>12, <2>14, <2>u, RingSame, PeerSame
  <2>x. ASSUME fresh, Mine(n) PROVE n < h.t.nxt
    <3> DEFINE x == h.t.nxt
               q == Len(h.t.queue)
               y == h.sent
    <3>1. x \in Nat /\ q \in Nat /\ y \in Nat /\ n \in Nat /\ q <= y /\ x + q = n + 1 + 0 + y
      BY <2>1, <2>2, <2>4, <2>5, <2>x
    <3> HIDE DEF x, q, y
    <3>2. n < x
      BY ONLY <3>1
    <3> QED
      BY <3>2 DEF x
  <2>17. fresh => WireOK(k, n)
    <3>0. SUFFICES ASSUME fresh PROVE WireOK(k, n)
      OBVIOUS
    <3>w. WireOK(s, n)
      BY <2>10, <3>0
    <3>1. \A w \in k.wire : w.seq < k.t.nxt
      BY <1>2, <2>3, <2>8, <2>12, <2>14, <3>w DEF WireOK
    <3>2. /\ \A v, w \in k.wire : v.seq = w.seq => v = w
          /\ \A v, w \in k.wire : w.what = "SYN" /\ v.seq < w.seq => v.seq + 1 < w.seq
          /\ \A w \in k.wire : (w.what = "SYN" => w.seq <= n) /\ (w.seq < n => w.seq + 1 < n)
      BY <2>12, <3>w DEF WireOK
    <3>3. \A x : After(k, x) = After(s, x)
      BY <2>12 DEF After
    <3>4. ASSUME NEW w \in k.wire, w.what = "data"
          PROVE  Bound /\ (Unbroken(k) => w.seq = PeerBase + w.unit \/ After(k, w.seq))
      BY <2>12, <2>u, <3>3, <3>4, <3>w DEF WireOK
    <3>5. ASSUME Mine(n) PROVE After(k, k.t.nxt)
      <4> DEFINE f == [seq |-> h.t.nxt, what |-> "FIN", unit |-> NoUnit]
      <4>1. f \in k.wire /\ f.what = "FIN" /\ f.seq = h.t.nxt
        BY <2>9, <2>12
      <4>2. PeerBase = n
        BY <3>5 DEF Mine
      <4>3. n < h.t.nxt /\ h.t.nxt < k.t.nxt
        BY <2>2, <2>14, <2>x, <3>0, <3>5
      <4> HIDE DEF f
      <4> QED
        BY <4>1, <4>2, <4>3 DEF After
    <3> QED
      BY <2>14, <3>1, <3>2, <3>4, <3>5 DEF WireOK
  <2>18. PoolOK(k)
    <3>1. Payloads(k.t.rtx) = Payloads(h.t.rtx)
      <4>1. Payloads(h.t.rtx \o new) = Payloads(h.t.rtx) + Payloads(new) /\ Payloads(h.t.rtx) \in Nat
        BY <2>1, <2>11, RecordFacts, PayloadsConcat, PayloadsFacts
      <4> QED
        BY <2>8, <2>11, <2>14, <4>1
    <3>2. k.used = h.used
      <4>1. h.used \in Nat
        BY <2>1, RecordFacts
      <4>2. s.used = h.used + 0
        BY <2>8, <2>11
      <4> QED
        BY <2>12, <4>1, <4>2
    <3> QED
      BY <2>1, <2>8, <2>12, <2>14, <2>u, <3>1, <3>2 DEF PoolOK
  <2>19. TcbOK(k, n) /\ (fresh => NumbersOK(k, n))
    <3> DEFINE x == h.t.nxt
               q == Len(h.t.queue)
               y == h.sent
    <3>1. /\ x \in Nat /\ q \in Nat /\ y \in Nat /\ n \in Nat
          /\ h.t.una \in Nat /\ h.t.wl2 \in Nat /\ h.t.una <= x /\ h.t.wl2 <= x
          /\ x + q <= n + 1 + 0 + y
          /\ fresh => /\ Mine(n) => x + q = n + 1 + 0 + y
                      /\ ~Mine(n) => x + q = n + 1 + 0 + 0
      BY <2>1, <2>2, <2>4, <2>5
    <3>2. /\ k.t.nxt = x + 1 /\ Len(k.t.queue) = q /\ k.sent = y /\ k.refused = h.refused
          /\ q <= y /\ y + h.refused <= MaxSent
      BY <2>2, <2>8, <2>12, <2>14
    <3>3. 1 \in Fins(k.t)
      BY <2>14 DEF Fins
    <3> HIDE DEF x, q, y
    <3>4. /\ (x + 1) + q <= n + 1 + 1 + y
          /\ h.t.una <= x + 1 /\ h.t.wl2 <= x + 1
      BY ONLY <3>1
    <3>5. ASSUME fresh PROVE (x + 1) + q = n + 1 + 1 + (IF Mine(n) THEN y ELSE 0)
      <4>1. CASE Mine(n)
        BY <3>1, <3>5, <4>1
      <4>2. CASE ~Mine(n)
        BY <3>1, <3>5, <4>2
      <4> QED
        BY <4>1, <4>2
    <3>6. TcbOK(k, n)
      BY <2>2, <2>14, <3>2, <3>3, <3>4 DEF TcbOK
    <3>7. ASSUME fresh PROVE NumbersOK(k, n)
      <4>1. ~Mine(n) => k.t.queue = << >> /\ ~k.t.full
        BY <1>2, <2>1, <2>14, <3>7 DEF NumbersOK
      <4> QED
        BY <2>14, <3>2, <3>3, <3>5, <3>7, <4>1 DEF NumbersOK
    <3> QED
      BY <3>6, <3>7
  <2>20. fresh => RequestsOK(k, n)
    BY <2>1, <2>2, <2>8, <2>12, <2>14 DEF RequestsOK
  <2> QED
    BY <2>1, <2>14, <2>15, <2>16, <2>17, <2>18, <2>19, <2>20 DEF HandlerInv, Basic, Exact, k
<1> QED
  BY <1>1, <1>2

LEMMA FlushKeeps ==
    ASSUME NEW n, NEW h, HandlerInv(h, n), h.t.state \notin {"Closed", "Halted"}
    PROVE  HandlerInv(Flush(h), n) /\ Flush(h).t.state = h.t.state
<1> DEFINE queue == h.t.queue
           m == Least(Len(queue), h.t.wnd)
           units == SubSeq(queue, 1, m)
           copied == (IF Free(h) > 0 THEN 1 ELSE 2) .. m
           d == SendData(h, units, copied)
           rest == SubSeq(queue, m + 1, Len(queue))
           k == Flush(h)
<1>1. /\ n \in Nat /\ h \in Record /\ TcbOK(h, n) /\ RingOK(h) /\ PoolOK(h) /\ PeerType
      /\ fresh => NumbersOK(h, n) /\ RequestsOK(h, n) /\ WireOK(h, n) /\ PeerOK(h, n)
  BY InvFacts
<1>2. /\ h.t.nxt \in Nat /\ h.t.una \in Nat /\ h.t.wl2 \in Nat
      /\ n <= h.t.una /\ h.t.una <= h.t.nxt /\ h.t.wl2 <= h.t.nxt
      /\ h.t.rcvNxt \in 1..(Requests + 2)
      /\ Len(queue) <= h.sent /\ h.sent + h.refused <= MaxSent
  BY LiveFacts
<1>3. /\ queue \in Seq(Nat) /\ Len(queue) \in Nat /\ h.t.wnd \in Nat /\ h.sent \in Nat
      /\ h.used \in Nat /\ h.t.full \in BOOLEAN /\ h.overtaken \in BOOLEAN
      /\ Blocks \in Nat /\ h.t.rtx \in Seq(Entry) /\ h.t \in Tcb
  BY <1>1, RecordFacts, Sizes
<1> DEFINE fin == FinOf(h.t)
<1>5. /\ fin \in Nat /\ fin \in Fins(h.t)
      /\ h.t.nxt + Len(queue) <= n + 1 + fin + h.sent
      /\ fresh => /\ Mine(n) => h.t.nxt + Len(queue) = n + 1 + fin + h.sent
                  /\ ~Mine(n) => h.t.nxt + Len(queue) = n + 1 + fin + 0
                  /\ ~Mine(n) => queue = << >> /\ ~h.t.full
  BY NumberFacts
<1>s. fin = IF h.t.state = "LastAck" THEN 1 ELSE 0
  BY DEF FinOf
<1> HIDE DEF fin
<1>6. m \in Nat /\ m <= Len(queue) /\ m <= h.t.wnd
  <2>1. CASE Len(queue) <= h.t.wnd
    BY <1>3, <2>1 DEF Least
  <2>2. CASE ~(Len(queue) <= h.t.wnd)
    BY <1>3, <2>2 DEF Least
  <2> QED
    BY <2>1, <2>2
<1>7. k = [d EXCEPT !.t.queue = SubSeq(@, m + 1, Len(@)), !.t.full = @ /\ m = 0, !.used = @ - m]
  BY DEF Flush
<1> HIDE DEF m, k
<1>8. units \in Seq(Nat) /\ Len(units) = m /\ \A i \in 1..m : units[i] = queue[i]
  <2>1. \A i \in 1..m : queue[i] \in Nat
    <3>1. \A i \in 1..m : i \in 1..Len(queue)
      BY <1>3, <1>6
    <3>2. \A i \in 1..Len(queue) : queue[i] \in Nat
      <4>1. queue \in Seq(Nat)
        BY <1>3
      <4> HIDE DEF queue
      <4> QED
        BY <4>1
    <3> QED
      BY <3>1, <3>2
  <2>2. /\ units \in Seq(Nat) /\ Len(units) = IF 1 <= m THEN m - 1 + 1 ELSE 0
        /\ \A i \in 1..(m - 1 + 1) : units[i] = queue[1 + i - 1]
    BY <1>6, <2>1, SubSeqProperties
  <2>3. Len(units) = m
    BY <1>6, <2>2
  <2>4. ASSUME NEW i \in 1..m PROVE units[i] = queue[i]
    <3>1. i \in 1..(m - 1 + 1) /\ 1 + i - 1 = i
      BY <1>6
    <3> QED
      BY <2>2, <3>1
  <2> QED
    BY <2>2, <2>3, <2>4
<1>9. /\ rest \in Seq(Nat) /\ Len(rest) = Len(queue) - m
      /\ \A i \in 1..(Len(queue) - m) : rest[i] = queue[m + i]
  BY <1>3, <1>6, RestFacts
<1>10. copied \subseteq 1..m
  BY <1>6
<1> HIDE DEF units, copied, rest
<1>11. /\ h.used = Payloads(h.t.rtx) + Len(queue) /\ others \in Nat /\ h.used + others <= Blocks
       /\ \A i \in 1..Len(queue) : queue[i] # NoUnit
       /\ Unbroken(h) => \A i \in 1..Len(queue) : queue[i] = h.sent - Len(queue) + i
  BY <1>1 DEF PoolOK
<1>n. /\ m \in Nat /\ m <= Len(queue) /\ Len(queue) \in Nat /\ h.sent \in Nat /\ h.t.nxt \in Nat
      /\ n \in Nat /\ Len(rest) = Len(queue) - m /\ Len(queue) <= h.sent
      /\ h.used \in Nat
  BY <1>1, <1>2, <1>3, <1>6, <1>9
<1>p. Plain(h, "data", units, copied)
  <2>1. ASSUME NEW i \in 1..Len(units) PROVE units[i] # NoUnit
    <3>1. i \in 1..m /\ i \in 1..Len(queue)
      BY <1>n, <1>8
    <3> QED
      BY <1>8, <1>11, <3>1
  <2> QED
    BY <2>1 DEF Plain
<1>12. fresh => Sendable(h, n, "data", units)
  <2>1. SUFFICES ASSUME fresh PROVE Sendable(h, n, "data", units)
    OBVIOUS
  <2>2. n <= h.t.nxt
    BY <1>1, <1>2
  <2>3. units # << >> => Mine(n)
    <3>1. ~Mine(n) => Len(queue) = 0
      BY <1>5, <2>1
    <3>2. ~Mine(n) => Len(units) = 0
      BY <1>3, <1>6, <1>8, <3>1
    <3> QED
      BY <1>8, <3>2
  <2>4. ASSUME Unbroken(h), NEW i \in 1..Len(units)
        PROVE  h.t.nxt + i - 1 = PeerBase + units[i] \/ After(h, h.t.nxt + i - 1)
    <3>1. units # << >>
      OBVIOUS
    <3>2. Mine(n) /\ PeerBase = n
      BY <2>3, <3>1 DEF Mine
    <3>3. i \in Nat /\ i >= 1 /\ i <= m /\ i \in 1..Len(queue)
      BY <1>3, <1>6, <1>8
    <3>4. units[i] = h.sent - Len(queue) + i
      BY <1>8, <1>11, <2>4, <3>3
    <3>5. h.t.nxt + Len(queue) = n + 1 + fin + h.sent
      BY <1>5, <2>1, <3>2
    <3>6. CASE h.t.state # "LastAck"
      <4> DEFINE x == h.t.nxt
                 q == Len(queue)
                 y == h.sent
      <4>1. /\ x \in Nat /\ q \in Nat /\ y \in Nat /\ n \in Nat /\ i \in Nat /\ fin = 0
            /\ x + q = n + 1 + fin + y
        BY <1>n, <1>s, <3>3, <3>5, <3>6
      <4> HIDE DEF x, q, y
      <4>2. x + i - 1 = n + (y - q + i)
        BY ONLY <4>1
      <4> QED
        BY <3>2, <3>4, <4>2 DEF x, q, y
    <3>7. CASE h.t.state = "LastAck"
      <4>2. After(h, h.t.nxt)
        BY <1>1, <2>1, <3>2, <3>7 DEF WireOK
      <4>3. PICK f \in h.wire : f.what = "FIN" /\ PeerBase < f.seq /\ f.seq < h.t.nxt
        BY <4>2 DEF After
      <4>4. f.seq \in Nat
        BY <1>1, RecordFacts
      <4>5. f.seq < h.t.nxt + i - 1
        BY <1>2, <3>3, <4>3, <4>4
      <4> QED
        BY <4>3, <4>5 DEF After
    <3> QED
      BY <3>6, <3>7
  <2>5. units # << >> => Bound
    BY <2>3 DEF Mine
  <2> QED
    BY <2>2, <2>4, <2>5 DEF Sendable
<1>13. DataSent(h, d, units, copied) /\ (fresh => WireOK(d, n) /\ PeerOK(d, n))
  <2>1. Len(units) <= h.t.wnd
    BY <1>6, <1>8
  <2> QED
    BY <1>1, <1>8, <1>p, <1>12, <2>1, DataKeep
<1> HIDE DEF d
<1>14. /\ d \in Record /\ RingOK(d)
       /\ d.sent = h.sent /\ d.refused = h.refused
       /\ d.delivered = h.delivered /\ d.overtaken = h.overtaken
       /\ d.t.state = h.t.state /\ d.t.una = h.t.una /\ d.t.nxt = h.t.nxt + m
       /\ d.t.wl2 = h.t.wl2 /\ d.t.rcvNxt = h.t.rcvNxt /\ d.t.queue = queue /\ d.t.full = h.t.full
  BY <1>8, <1>13 DEF DataSent
<1>15. d.t \in Tcb /\ d.used \in Nat /\ d.t.rtx \in Seq(Entry)
  BY <1>14, RecordFacts
<1>16. /\ k.t = [d.t EXCEPT !.queue = rest, !.full = h.t.full /\ m = 0]
       /\ k.used = d.used - m /\ k.sent = h.sent /\ k.refused = h.refused
       /\ k.wire = d.wire
       /\ k.delivered = h.delivered /\ k.overtaken = h.overtaken
  <2>1. d.t.queue = queue /\ d.t.full = h.t.full
    BY <1>14
  <2>2. k = [d EXCEPT !.t = [d.t EXCEPT !.queue = rest, !.full = h.t.full /\ m = 0], !.used = @ - m]
    BY <1>7, <1>14, <1>15, <2>1 DEF Record, Tcb, rest
  <2> QED
    BY <1>14, <2>2 DEF Record
<1>17. (h.t.full /\ m = 0) \in BOOLEAN
  OBVIOUS
<1>18. /\ k.t \in Tcb /\ k.t.state = h.t.state /\ k.t.una = h.t.una /\ k.t.nxt = h.t.nxt + m
       /\ k.t.wl2 = h.t.wl2 /\ k.t.rcvNxt = h.t.rcvNxt /\ k.t.queue = rest
       /\ k.t.full = (h.t.full /\ m = 0) /\ k.t.rtx = d.t.rtx
  BY <1>9, <1>14, <1>15, <1>16, <1>17 DEF Tcb
<1>19. /\ k.used = Payloads(k.t.rtx) + Len(rest) /\ k.used \in Nat /\ k.used + others <= Blocks
  <2>1. d.used - h.used = Payloads(d.t.rtx) - Payloads(h.t.rtx)
    BY <1>13 DEF DataSent
  <2>2. PICK j \in Nat : d.used = h.used + Cardinality(copied \cap (1..j))
    BY <1>13 DEF DataSent
  <2>3. Cardinality(copied \cap (1..j)) \in Nat /\ Cardinality(copied \cap (1..j)) <= m
    BY <1>6, <1>10, SomeOf
  <2>4. Payloads(d.t.rtx) \in Nat /\ Payloads(h.t.rtx) \in Nat
    BY <1>3, <1>15, PayloadsFacts
  <2>5. d.used = Payloads(d.t.rtx) + Len(queue)
    <3>1. h.used = Payloads(h.t.rtx) + Len(queue) /\ d.used \in Nat
      BY <1>11, <1>15
    <3>2. h.used \in Nat /\ Len(queue) \in Nat
      BY <1>3
    <3>3. d.used = h.used + (Payloads(d.t.rtx) - Payloads(h.t.rtx))
      BY <2>1, <2>4, <3>1, <3>2
    <3> QED
      BY <2>4, <3>1, <3>2, <3>3
  <2>6. k.used = Payloads(d.t.rtx) + (Len(queue) - m)
    BY <1>3, <1>6, <1>16, <2>4, <2>5
  <2>7. k.used = Payloads(k.t.rtx) + Len(rest)
    BY <1>9, <1>18, <2>6
  <2>8. k.used <= h.used /\ k.used \in Nat
    <3>1. k.used = h.used + Cardinality(copied \cap (1..j)) - m
      BY <1>3, <1>6, <1>16, <2>2, <2>3
    <3>2. k.used \in Nat
      <4>1. Len(queue) - m \in Nat
        BY <1>n
      <4> QED
        BY <2>4, <2>6, <4>1
    <3> QED
      BY <1>3, <1>6, <2>3, <3>1, <3>2
  <2>9. k.used + others <= Blocks
    BY <1>3, <1>11, <2>8
  <2> QED
    BY <2>7, <2>8, <2>9
<1>20. k \in Record
  <2>1. k = [t |-> k.t, used |-> k.used, sent |-> k.sent, refused |-> k.refused, wire |-> k.wire,
             delivered |-> k.delivered, overtaken |-> k.overtaken]
    BY <1>7, <1>14 DEF Record
  <2>2. d.wire \subseteq [seq : Nat, what : What, unit : Nat] /\ h.sent \in 0..MaxSent
        /\ h.delivered \in Seq(Nat) /\ h.refused \in Nat
    BY <1>1, <1>14, RecordFacts
  <2> QED
    BY <1>3, <1>16, <1>18, <1>19, <2>1, <2>2 DEF Record
<1>u. (Unbroken(k) <=> Unbroken(d)) /\ (Unbroken(k) <=> Unbroken(h))
  BY <1>14, <1>16 DEF Unbroken
<1>21. RingOK(k)
  BY <1>14, <1>16, <1>18, RingSame
<1>22. fresh => PeerOK(k, n)
  BY <1>13, <1>16, <1>u, PeerSame
<1>23. fresh => WireOK(k, n)
  BY <1>1, <1>13, <1>14, <1>16, <1>18, <1>u, WireSame
<1>24. PoolOK(k)
  <2>1. ASSUME NEW i \in 1..Len(rest)
        PROVE  rest[i] # NoUnit /\ (Unbroken(h) => rest[i] = h.sent - Len(rest) + i)
    <3>1. m + i \in 1..Len(queue) /\ rest[i] = queue[m + i]
      BY <1>3, <1>6, <1>9
    <3>n. Len(rest) \in Nat /\ i \in Int
      BY <1>9
    <3>2. h.sent - Len(queue) + (m + i) = h.sent - Len(rest) + i
      <4> DEFINE x == h.sent
                 y == Len(queue)
                 z == Len(rest)
      <4>1. /\ x \in Nat /\ y \in Nat /\ z \in Nat /\ m \in Nat /\ i \in Int /\ z = y - m
        BY <1>n, <3>n
      <4> HIDE DEF x, y, z
      <4>2. x - y + (m + i) = x - z + i
        BY ONLY <4>1
      <4> QED
        BY <4>2 DEF x, y, z
    <3> QED
      BY <1>11, <3>1, <3>2
  <2> QED
    BY <1>11, <1>16, <1>18, <1>19, <1>u, <2>1 DEF PoolOK
<1>f. fin \in Fins(k.t)
  BY <1>5, <1>18 DEF Fins
<1>a. /\ k.t.nxt + Len(k.t.queue) <= n + 1 + fin + k.sent
      /\ fresh => /\ Mine(n) => k.t.nxt + Len(k.t.queue) = n + 1 + fin + k.sent
                  /\ ~Mine(n) => k.t.nxt + Len(k.t.queue) = n + 1 + fin + 0
      /\ Len(k.t.queue) <= k.sent /\ h.t.una <= k.t.nxt /\ h.t.wl2 <= k.t.nxt
  <2> DEFINE x == h.t.nxt
             q == Len(queue)
             y == h.sent
             z == Len(rest)
  <2>1. /\ x \in Nat /\ q \in Nat /\ y \in Nat /\ n \in Nat /\ m \in Nat /\ m <= q /\ q <= y
        /\ z = q - m
        /\ h.t.una \in Nat /\ h.t.wl2 \in Nat /\ h.t.una <= x /\ h.t.wl2 <= x
    BY <1>1, <1>2, <1>n
  <2>2. k.t.nxt = x + m /\ Len(k.t.queue) = z /\ k.sent = y
    BY <1>16, <1>18
  <2>3. x + q <= n + 1 + fin + y
    BY <1>5
  <2>4. fresh => /\ Mine(n) => x + q = n + 1 + fin + y
                 /\ ~Mine(n) => x + q = n + 1 + fin + 0
    BY <1>5
  <2> HIDE DEF x, q, y, z
  <2>5. (x + m) + z = x + q /\ z <= y /\ h.t.una <= x + m /\ h.t.wl2 <= x + m
    BY ONLY <2>1
  <2> QED
    BY <2>2, <2>3, <2>4, <2>5
<1>25. TcbOK(k, n)
  <2>1. k.sent + k.refused <= MaxSent
    BY <1>2, <1>16
  <2> QED
    BY <1>2, <1>18, <1>a, <1>f, <2>1 DEF TcbOK
<1>26. fresh => NumbersOK(k, n)
  <2>0. SUFFICES ASSUME fresh PROVE NumbersOK(k, n)
    OBVIOUS
  <2>1. k.t.nxt + Len(k.t.queue) = n + 1 + fin + (IF Mine(n) THEN k.sent ELSE 0)
    BY <1>a, <2>0
  <2>2. ~Mine(n) => rest = << >> /\ ~(h.t.full /\ m = 0)
    <3>1. ~Mine(n) => Len(rest) = 0
      <4>1. ~Mine(n) => Len(queue) = 0
        BY <1>5, <2>0
      <4> QED
        BY <1>n, <4>1
    <3> QED
      BY <1>5, <1>9, <2>0, <3>1
  <2>3. ~Mine(n) => k.t.state \notin {"Established", "Halted"}
    BY <1>1, <1>18, <2>0 DEF NumbersOK
  <2>4. k.t.state = "SynReceived" => k.t.una = n
    BY <1>1, <1>18, <2>0 DEF NumbersOK
  <2> QED
    BY <1>18, <1>f, <2>1, <2>2, <2>3, <2>4 DEF NumbersOK
<1>27. fresh => RequestsOK(k, n)
  BY <1>1, <1>16, <1>18 DEF RequestsOK
<1>28. k.t.state # "Closed" /\ k.t.state = h.t.state
  BY <1>18
<1> QED
  BY <1>1, <1>20, <1>21, <1>22, <1>23, <1>24, <1>25, <1>26, <1>27, <1>28
  DEF HandlerInv, Basic, Exact, k

\* The oldest segment is on the wire already: only its tries change.
LEMMA RetransmitKeeps ==
    ASSUME NEW n, NEW h, HandlerInv(h, n), h.t.state # "Closed", h.t.rtx # << >>
    PROVE  HandlerInv(Retransmit(h), n)
<1> DEFINE r == Tried(Head(h.t.rtx))
           again == IF r.what = "data" /\ r.unit = NoUnit THEN {} ELSE {Resent(h, r)}
           rtx == [h.t.rtx EXCEPT ![1] = r]
           k == [h EXCEPT !.wire = @ \cup again, !.t.rtx[1] = r]
<1>1. /\ n \in Nat /\ h \in Record /\ TcbOK(h, n) /\ RingOK(h) /\ PoolOK(h) /\ PeerType
      /\ fresh => NumbersOK(h, n) /\ RequestsOK(h, n) /\ WireOK(h, n) /\ PeerOK(h, n)
  BY InvFacts
<1>2. h.t \in Tcb /\ h.t.rtx \in Seq(Entry) /\ Len(h.t.rtx) \in Nat
  BY <1>1, RecordFacts
<1>3. 1 \in 1..Len(h.t.rtx) /\ Head(h.t.rtx) = h.t.rtx[1] /\ h.t.rtx[1] \in Entry
  BY <1>2
<1>4. /\ r \in Entry /\ r.seq = h.t.rtx[1].seq /\ r.what = h.t.rtx[1].what
      /\ r.unit = h.t.rtx[1].unit
  BY <1>3 DEF Tried, Entry
<1> HIDE DEF r
<1>5. again \subseteq h.wire
  <2>1. Resent(h, r) = Resent(h, h.t.rtx[1])
    BY <1>4 DEF Resent
  <2> QED
    BY <1>1, <1>3, <1>4, <2>1 DEF RingOK
<1>6. h.wire \cup again = h.wire
  BY <1>5
<1> HIDE DEF again
<1>7. /\ rtx \in Seq(Entry) /\ Len(rtx) = Len(h.t.rtx) /\ rtx[1] = r
      /\ \A i \in 1..Len(rtx) : i # 1 => rtx[i] = h.t.rtx[i]
  BY <1>2, <1>3, <1>4
<1>8. k = [h EXCEPT !.wire = @ \cup again, !.t.rtx = rtx]
  BY <1>1, <1>2 DEF Record, Tcb
<1> HIDE DEF rtx, k
<1>9. /\ k.t = [h.t EXCEPT !.rtx = rtx] /\ k.used = h.used /\ k.sent = h.sent /\ k.wire = h.wire
      /\ k.refused = h.refused
      /\ k.delivered = h.delivered /\ k.overtaken = h.overtaken
  BY <1>1, <1>6, <1>8 DEF Record
<1>10. /\ k.t \in Tcb /\ k.t.state = h.t.state /\ k.t.una = h.t.una /\ k.t.nxt = h.t.nxt
       /\ k.t.wl2 = h.t.wl2 /\ k.t.rcvNxt = h.t.rcvNxt /\ k.t.queue = h.t.queue
       /\ k.t.full = h.t.full /\ k.t.rtx = rtx
  BY <1>2, <1>7, <1>9 DEF Tcb
<1>11. k \in Record
  BY <1>1, <1>6, <1>8, <1>9, <1>10 DEF Record
<1>12. \A i \in 1..Len(rtx) : /\ rtx[i].seq = h.t.rtx[i].seq /\ rtx[i].what = h.t.rtx[i].what
                              /\ rtx[i].unit = h.t.rtx[i].unit
  BY <1>4, <1>7
<1>13. Payloads(rtx) = Payloads(h.t.rtx)
  <2>1. Copies(rtx) = Copies(h.t.rtx)
    BY <1>7, <1>12 DEF Copies
  <2> QED
    BY <1>2, <1>7, <2>1, PayloadsFacts
<1>14. RingOK(k)
  <2>1. Len(k.t.rtx) <= UnackMax
    BY <1>1, <1>7, <1>10 DEF RingOK
  <2>2. ASSUME NEW i \in 1..Len(k.t.rtx)
        PROVE  \/ k.t.rtx[i].what = "data" /\ k.t.rtx[i].unit = NoUnit
               \/ Resent(k, k.t.rtx[i]) \in k.wire
    <3>1. i \in 1..Len(rtx) /\ i \in 1..Len(h.t.rtx) /\ k.t.rtx[i] = rtx[i]
      BY <1>7, <1>10
    <3>2. Resent(k, k.t.rtx[i]) = Resent(h, h.t.rtx[i])
      BY <1>12, <3>1 DEF Resent
    <3> QED
      BY <1>1, <1>9, <1>12, <3>1, <3>2 DEF RingOK
  <2> QED
    BY <2>1, <2>2 DEF RingOK
<1>u. Unbroken(k) <=> Unbroken(h)
  BY <1>9 DEF Unbroken
<1>15. fresh => PeerOK(k, n)
  BY <1>1, <1>9, <1>u, PeerSame
<1>16. fresh => WireOK(k, n)
  BY <1>1, <1>9, <1>10, <1>u, WireSame
<1>17. PoolOK(k)
  BY <1>1, <1>9, <1>10, <1>13, <1>u DEF PoolOK
<1>f. Fins(k.t) = Fins(h.t)
  BY <1>10 DEF Fins
<1>18. TcbOK(k, n)
  BY <1>1, <1>9, <1>10, <1>f DEF TcbOK
<1>n. fresh => NumbersOK(k, n)
  BY <1>1, <1>9, <1>10, <1>f DEF NumbersOK
<1>19. fresh => RequestsOK(k, n)
  BY <1>1, <1>9, <1>10 DEF RequestsOK
<1>20. HandlerInv(k, n) /\ k.t.state # "Closed"
  BY <1>1, <1>10, <1>11, <1>14, <1>15, <1>16, <1>17, <1>18, <1>19, <1>n
  DEF HandlerInv, Basic, Exact
<1>21. Retransmit(h) = IF r.retries > RtxMaxRetry THEN FreeTcb(k) ELSE k
  BY DEF Retransmit, k, again, r
<1>22. HandlerInv(FreeTcb(k), n)
  BY <1>20, FreeKeeps
<1> QED
  BY <1>20, <1>21, <1>22

\* The assertion of GetFront(): only a connection that the peer knows has a queue.
LEMMA HaltKeeps ==
    ASSUME NEW n, NEW h, HandlerInv(h, n), h.t.state \notin {"Closed", "Halted"}, h.t.full
    PROVE  HandlerInv([SendFin(h) EXCEPT !.t.state = "Halted"], n)
<1> DEFINE k == SendFin(h)
           t == [k.t EXCEPT !.state = "Halted"]
<1>1. HandlerInv(k, n) /\ k.t.state \notin {"Closed", "Halted"} /\ k.t.full = h.t.full
  BY SendFinKeeps
<1> HIDE DEF k
<1>2. k \in Record /\ k.t \in Tcb
  BY <1>1, InvFacts, RecordFacts
<1>3. [k EXCEPT !.t.state = "Halted"] = [k EXCEPT !.t = t]
  BY <1>2 DEF Record
<1>4. /\ t \in Tcb /\ t.nxt = k.t.nxt /\ t.queue = k.t.queue /\ t.full = k.t.full
      /\ t.rtx = k.t.rtx /\ t.una = k.t.una /\ t.wl2 = k.t.wl2 /\ t.rcvNxt = k.t.rcvNxt
      /\ t.state = "Halted"
  BY <1>2 DEF Tcb
<1> HIDE DEF t
<1>5. fresh => Mine(n)
  BY <1>1, NumberFacts
<1>6. Changed(k, n, t)
  <2>1. Fins(k.t) \subseteq Fins(t)
    BY <1>4 DEF Fins
  <2>2. /\ n <= k.t.una /\ k.t.una <= k.t.nxt /\ k.t.wl2 <= k.t.nxt
        /\ k.t.rcvNxt \in 1..(Requests + 2)
    BY <1>1, LiveFacts
  <2>3. fresh => Bound
    BY <1>5 DEF Mine
  <2> QED
    BY <1>4, <1>5, <2>1, <2>2, <2>3 DEF Changed
<1>7. HandlerInv([k EXCEPT !.t = t], n)
  BY <1>1, <1>6, ChangedKeeps
<1> QED
  BY <1>3, <1>7 DEF k

(***************************************************************************)
(* The segments of the peer acknowledge numbers of its connection only.    *)
(***************************************************************************)
LEMMA SegmentFacts ==
    ASSUME PeerType, NEW s \in Segments
    PROVE  /\ Bound /\ s.kind \in Kinds /\ s.seq \in Nat /\ s.ack \in Nat
           /\ s.kind = "data" => s.seq <= Requests
           /\ s.kind = "fin" => s.seq <= Requests + 1
           /\ s.ack <= peer.rcvNxt
           /\ \A n, h : PeerOK(h, n) /\ s.kind # "rst" => PeerBase < s.ack
<1>1. /\ peer.nxt \in 1..(Requests + 2) /\ peer.acks \in Seq(Nat) /\ peer.rcvNxt \in Nat
      /\ Len(peer.acks) = peer.nxt
  BY DEF PeerType, Peer
<1>2. /\ s.kind \in Kinds /\ s.seq \in 1..peer.nxt /\ s.ack \in 0..peer.rcvNxt
      /\ peer.rcvNxt > 0
      /\ \/ s.kind = "ack" /\ s.ack >= peer.acks[s.seq]
         \/ /\ s.kind = (IF s.seq <= Requests THEN "data" ELSE "fin")
            /\ s.seq < peer.nxt /\ s.ack >= peer.acks[s.seq + 1]
         \/ s.kind = "rst"
  BY DEF Segments
<1>3. peer.nxt \in Nat /\ Requests \in Nat
  BY <1>1, Sizes
<1>4. Bound
  BY <1>2 DEF Bound
<1>5. \A n, h : PeerOK(h, n) => \A i \in 1..Len(peer.acks) : PeerBase < peer.acks[i]
  BY <1>4 DEF PeerOK
<1>a. \A i \in 1..Len(peer.acks) : peer.acks[i] \in Nat
  BY <1>1
<1>6. PeerBase \in Int
  <2>1. 1 \in 1..Len(peer.acks)
    BY <1>1
  <2>2. peer.acks[1] \in Nat
    BY <1>1, <2>1
  <2> QED
    BY <2>2 DEF PeerBase
<1>7. s.seq \in Nat /\ s.ack \in Nat /\ s.ack <= peer.rcvNxt
  BY <1>1, <1>2, <1>3
<1>8. s.kind = "data" => s.seq <= Requests
  BY <1>2
<1>9. s.kind = "fin" => s.seq <= Requests + 1
  <2>1. s.kind = "fin" => s.seq < peer.nxt
    BY <1>2
  <2> QED
    BY <1>1, <1>3, <1>7, <2>1
<1>10. ASSUME NEW n, NEW h, PeerOK(h, n), s.kind # "rst" PROVE PeerBase < s.ack
  <2>1. ASSUME s.ack >= peer.acks[s.seq] PROVE PeerBase < s.ack
    <3>1. s.seq \in 1..Len(peer.acks)
      BY <1>1, <1>2
    <3>2. peer.acks[s.seq] \in Nat /\ PeerBase < peer.acks[s.seq]
      BY <1>5, <1>10, <1>a, <3>1
    <3> QED
      BY <1>6, <1>7, <2>1, <3>2
  <2>2. ASSUME s.seq < peer.nxt, s.ack >= peer.acks[s.seq + 1] PROVE PeerBase < s.ack
    <3>1. s.seq + 1 \in 1..Len(peer.acks)
      <4>1. s.seq + 1 \in 1..peer.nxt
        BY <1>3, <1>7, <2>2
      <4> QED
        BY <1>1, <4>1
    <3>2. peer.acks[s.seq + 1] \in Nat /\ PeerBase < peer.acks[s.seq + 1]
      BY <1>5, <1>10, <1>a, <3>1
    <3> QED
      BY <1>6, <1>7, <2>2, <3>2
  <2> QED
    BY <1>2, <1>10, <2>1, <2>2
<1> QED
  BY <1>2, <1>4, <1>7, <1>8, <1>9, <1>10

\* An old connection's acknowledgement is below the number of the SYN.
LEMMA EstablishKeeps ==
    ASSUME NEW n, HandlerInv(Handler, n), tcb.state = "SynReceived",
           NEW s \in Segments, s.kind # "rst", tcb.una <= s.ack, s.ack <= tcb.nxt, NEW wnd \in Nat
    PROVE  HandlerInv([RtxOnAck(Handler, s.ack) EXCEPT
                          !.t.wnd = wnd, !.t.wl1 = s.seq, !.t.wl2 = s.ack, !.t.una = s.ack,
                          !.t.state = "Established"], n)
<1> DEFINE r == RtxOnAck(Handler, s.ack)
           t == [r.t EXCEPT !.wnd = wnd, !.wl1 = s.seq, !.wl2 = s.ack, !.una = s.ack,
                            !.state = "Established"]
<1>1. Handler.t = tcb
  BY DEF Handler
<1>2. /\ n \in Nat /\ Handler \in Record /\ PeerType /\ peer.rcvNxt \in Nat
      /\ fresh => NumbersOK(Handler, n) /\ RequestsOK(Handler, n) /\ PeerOK(Handler, n)
  BY InvFacts DEF PeerType, Peer
<1>3. Bound /\ s.seq \in Nat /\ s.ack \in Nat /\ s.ack <= peer.rcvNxt
  BY <1>2, SegmentFacts
<1>4. HandlerInv(r, n) /\ RingOnly(Handler, r)
  BY <1>1, <1>3, RtxOnAckKeeps
<1> HIDE DEF r
<1>5. /\ r.t.state = "SynReceived" /\ r.t.una = tcb.una /\ r.t.nxt = tcb.nxt
      /\ r.t.rcvNxt = tcb.rcvNxt /\ r.delivered = Handler.delivered
  BY <1>1, <1>4 DEF RingOnly
<1>6. r \in Record /\ r.t \in Tcb
  BY <1>4, InvFacts, RecordFacts
<1>7. /\ t \in Tcb /\ t.nxt = r.t.nxt /\ t.queue = r.t.queue /\ t.full = r.t.full
      /\ t.rtx = r.t.rtx /\ t.una = s.ack /\ t.wl2 = s.ack /\ t.rcvNxt = r.t.rcvNxt
      /\ t.state = "Established"
  BY <1>3, <1>6 DEF Tcb
<1>8. [r EXCEPT !.t.wnd = wnd, !.t.wl1 = s.seq, !.t.wl2 = s.ack, !.t.una = s.ack,
                !.t.state = "Established"] = [r EXCEPT !.t = t]
  BY <1>6 DEF Record, Tcb
<1> HIDE DEF t
<1>9. /\ tcb.una \in Nat /\ n <= tcb.una /\ tcb.rcvNxt \in 1..(Requests + 2)
      /\ fresh => tcb.una = n
  <2>1. tcb.una \in Nat /\ n <= tcb.una /\ tcb.rcvNxt \in 1..(Requests + 2)
    BY <1>1, LiveFacts
  <2>2. fresh => tcb.una = n
    BY <1>1, <1>2 DEF NumbersOK
  <2> QED
    BY <2>1, <2>2
<1>10. fresh => Mine(n)
  <2>1. SUFFICES ASSUME fresh, PeerBase # n PROVE FALSE
    BY <1>3 DEF Mine
  <2>2. peer.rcvNxt < n
    BY <1>2, <1>3, <2>1 DEF PeerOK
  <2>3. n <= s.ack
    BY <1>9, <2>1
  <2> QED
    BY <1>2, <1>3, <2>2, <2>3
<1>11. fresh => tcb.rcvNxt = 1 /\ Handler.delivered = << >>
  BY <1>1, <1>2, <1>10 DEF RequestsOK
<1>12. Changed(r, n, t)
  <2>1. Fins(r.t) \subseteq Fins(t)
    BY <1>5, <1>7 DEF Fins
  <2>2. (fresh => t.rcvNxt = Len(r.delivered) + 1) /\ t.rcvNxt \in 1..(Requests + 2)
    <3>1. Len(<< >>) + 1 = 1
      OBVIOUS
    <3> QED
      BY <1>5, <1>7, <1>9, <1>11, <3>1
  <2>3. n <= t.una /\ t.una <= t.nxt /\ t.wl2 <= t.nxt
    <3>1. n <= s.ack
      BY <1>2, <1>3, <1>9
    <3> QED
      BY <1>5, <1>7, <3>1
  <2> QED
    BY <1>3, <1>7, <1>10, <2>1, <2>2, <2>3 DEF Changed
<1>13. HandlerInv([r EXCEPT !.t = t], n)
  BY <1>4, <1>5, <1>12, ChangedKeeps
<1> QED
  BY <1>8, <1>13 DEF r

\* An unused number for a SYN is above those of all connections before.
LEMMA AcceptKeeps ==
    ASSUME HandlerInv(Handler, iss), tcb.state = "Closed", NEW n \in Nat
    PROVE  LET k == SendControl([Handler EXCEPT !.t = [Closed EXCEPT !.state = "SynReceived",
                                                          !.una = n, !.wl2 = n, !.nxt = n,
                                                          !.rcvNxt = 1]], "SYN")
           IN  Basic(k, n) /\ (fresh /\ Unused(n) => Exact(k, n))
<1> DEFINE t == [Closed EXCEPT !.state = "SynReceived", !.una = n, !.wl2 = n, !.nxt = n,
                               !.rcvNxt = 1]
           h == [Handler EXCEPT !.t = t]
           units == <<NoUnit>>
           new == Entries(h, "SYN", units, {})
           m == Least(Len(units), Room(h))
           k == SendSegments(h, "SYN", units, {})
           first == fresh /\ Unused(n)
<1>1. /\ Handler \in Record /\ TcbOK(Handler, iss) /\ RingOK(Handler) /\ PoolOK(Handler) /\ PeerType
      /\ first => /\ RequestsOK(Handler, iss) /\ WireOK(Handler, iss) /\ PeerOK(Handler, iss)
                  /\ \A w \in Handler.wire : w.seq + 1 < n
  BY InvFacts DEF Unused, Handler
<1>w. /\ Handler.wire \subseteq [seq : Nat, what : What, unit : Nat]
      /\ peer.rcvNxt \in Nat
  BY <1>1, RecordFacts DEF PeerType, Peer
<1>2. Handler.t = tcb /\ tcb = Closed
  BY <1>1 DEF Handler, TcbOK
<1>3. Requests \in Nat /\ UnackMax \in Nat
  BY Sizes
<1>4. /\ t \in Tcb /\ t.state = "SynReceived" /\ t.una = n /\ t.wl2 = n /\ t.nxt = n
      /\ t.rcvNxt = 1 /\ t.rtx = << >> /\ t.queue = << >> /\ t.full = FALSE
  BY <1>3, ClosedFacts DEF Closed, Tcb
<1> HIDE DEF t, first
<1>5. /\ h.t = t /\ h.used = Handler.used /\ h.sent = Handler.sent /\ h.refused = Handler.refused
      /\ h.wire = Handler.wire
      /\ h.delivered = Handler.delivered /\ h.overtaken = Handler.overtaken /\ h \in Record
  BY <1>1, <1>4 DEF Record
<1> HIDE DEF h
<1>6. RingOK(h)
  <2>1. Len(h.t.rtx) = 0
    BY <1>4, <1>5
  <2> QED
    BY <1>3, <2>1 DEF RingOK
<1>u. Unbroken(h) <=> Unbroken(Handler)
  BY <1>5 DEF Unbroken
<1>7. ASSUME first, Bound PROVE peer.rcvNxt < n /\ PeerBase < peer.rcvNxt
  <2>1. PICK w \in Handler.wire : w.seq = peer.rcvNxt - 1
    BY <1>1, <1>7 DEF PeerOK
  <2>2. w.seq \in Nat /\ w.seq + 1 < n
    BY <1>1, <1>7, <1>w
  <2> QED
    BY <1>1, <1>7, <1>w, <2>1, <2>2 DEF PeerOK
<1>8. first => ~Mine(n)
  <2>1. SUFFICES ASSUME first, Bound, PeerBase = n PROVE FALSE
    BY DEF Mine
  <2> QED
    BY <1>7, <1>w, <2>1
<1>9. \A x : After(h, x) = After(Handler, x)
  BY <1>5 DEF After
<1>10. first => WireOK(h, n)
  <2>0. SUFFICES ASSUME first PROVE WireOK(h, n)
    OBVIOUS
  <2>1. ASSUME NEW w \in h.wire
        PROVE  w.seq < n /\ w.seq <= n /\ w.seq + 1 < n
    BY <1>1, <1>5, <1>w, <2>0
  <2>2. /\ \A v, w \in h.wire : v.seq = w.seq => v = w
        /\ \A v, w \in h.wire : w.what = "SYN" /\ v.seq < w.seq => v.seq + 1 < w.seq
    BY <1>1, <1>5, <2>0 DEF WireOK
  <2>4. ASSUME NEW w \in h.wire, w.what = "data"
        PROVE  Bound /\ (Unbroken(h) => w.seq = PeerBase + w.unit \/ After(h, w.seq))
    BY <1>1, <1>5, <1>9, <1>u, <2>0, <2>4 DEF WireOK
  <2>5. h.t.state = "SynReceived" /\ h.t.nxt = n
    BY <1>4, <1>5
  <2> QED
    BY <2>1, <2>2, <2>4, <2>5 DEF WireOK
<1>11. first => PeerOK(h, n)
  <2>0. SUFFICES ASSUME first PROVE PeerOK(h, n)
    OBVIOUS
  <2> QED
    BY <1>1, <1>5, <1>7, <1>9, <1>u, <2>0 DEF PeerOK
<1>12. "SYN" \in What /\ units \in Seq(Nat) /\ Len(units) = 1 /\ \A i \in 1..Len(units) : units[i] = NoUnit
  BY DEF What, NoUnit
<1>13. first => Sendable(h, n, "SYN", units)
  BY <1>1, <1>4, <1>5, <1>12 DEF Sendable
<1>p. Plain(h, "SYN", units, {})
  BY <1>4, <1>5, <1>12 DEF Plain
<1>14. \A i \in 1..Len(units) : i \in {} => units[i] # NoUnit
  OBVIOUS
<1>15. Len(h.t.rtx) <= UnackMax
  BY <1>6 DEF RingOK
<1> HIDE DEF units
<1>16. /\ k \in Record
       /\ k.sent = h.sent /\ k.refused = h.refused
       /\ k.delivered = h.delivered /\ k.overtaken = h.overtaken
       /\ k.used = h.used + Payloads(new)
       /\ k.t.state = h.t.state /\ k.t.una = h.t.una /\ k.t.nxt = h.t.nxt + Len(units)
       /\ k.t.wl2 = h.t.wl2 /\ k.t.rcvNxt = h.t.rcvNxt /\ k.t.queue = h.t.queue
       /\ k.t.full = h.t.full /\ k.t.rtx = h.t.rtx \o new
  <2>1. h \in Record /\ Len(h.t.rtx) <= UnackMax /\ "SYN" \in What /\ units \in Seq(Nat)
    BY <1>5, <1>12, <1>15
  <2> QED
    BY <1>14, <2>1, SegmentsFacts
<1>17. RingOK(k) /\ (first => WireOK(k, n) /\ PeerOK(k, n))
  <2>1. RingOK(k)
    BY <1>5, <1>6, <1>12, <1>p, SegmentsRing
  <2>2. first => WireOK(k, n) /\ PeerOK(k, n)
    BY <1>1, <1>5, <1>6, <1>10, <1>11, <1>12, <1>13, <1>p, SegmentsKeep
  <2> QED
    BY <2>1, <2>2
<1>18. new \in Seq(Entry) /\ Payloads(new) = 0
  <2>1. h \in Record
    BY <1>5
  <2>2. new \in Seq(Entry)
    BY <1>12, <1>14, <1>15, <2>1, EntriesFacts
  <2>3. Payloads(new) = Cardinality({} \cap (1..m))
    BY <1>12, <1>14, <1>15, <2>1, EntriesFacts
  <2>4. {} \cap (1..m) = {}
    OBVIOUS
  <2> QED
    BY <2>2, <2>3, <2>4, FS_EmptySet
<1> HIDE DEF k, new
<1>19. /\ k.t.state = "SynReceived" /\ k.t.una = n /\ k.t.nxt = n + 1 /\ k.t.wl2 = n
       /\ k.t.rcvNxt = 1 /\ k.t.queue = << >> /\ k.t.full = FALSE /\ k.t.rtx = << >> \o new
       /\ Len(k.t.queue) = 0
  BY <1>4, <1>5, <1>12, <1>16
<1>20. PoolOK(k)
  <2>1. /\ Handler.used = Payloads(Handler.t.rtx) + Len(Handler.t.queue)
        /\ others \in Nat /\ Handler.used + others <= Blocks
    BY <1>1 DEF PoolOK
  <2>2. Handler.used = 0
    BY <1>2, <2>1, ClosedFacts
  <2>3. Payloads(k.t.rtx) = 0
    <3>1. << >> \in Seq(Entry)
      OBVIOUS
    <3>2. Payloads(<< >> \o new) = Payloads(<< >>) + Payloads(new)
      BY <1>18, <3>1, PayloadsConcat
    <3> QED
      BY <1>18, <1>19, <3>2, ClosedFacts
  <2>4. k.used = 0
    BY <1>5, <1>16, <1>18, <2>2
  <2> QED
    BY <1>19, <2>1, <2>2, <2>3, <2>4 DEF PoolOK
<1>21. TcbOK(k, n) /\ (first => NumbersOK(k, n))
  <2>1. 0 \in Fins(k.t)
    BY <1>19 DEF Fins
  <2>2. k.sent \in Nat /\ k.sent + k.refused <= MaxSent
    BY <1>1, <1>5, <1>16, RecordFacts DEF TcbOK
  <2>3. /\ n <= n /\ n <= n + 1 /\ (n + 1) + 0 = n + 1 + 0 + 0 /\ (n + 1) + 0 <= n + 1 + 0 + k.sent
        /\ 0 <= k.sent /\ 1 \in 1..(Requests + 2)
    BY <1>3, <2>2
  <2>4. TcbOK(k, n)
    BY <1>19, <2>1, <2>2, <2>3 DEF TcbOK
  <2>5. ASSUME first PROVE NumbersOK(k, n)
    <3>1. (IF Mine(n) THEN k.sent ELSE 0) = 0
      BY <1>8, <2>5
    <3> QED
      BY <1>19, <2>1, <2>3, <3>1 DEF NumbersOK
  <2> QED
    BY <2>4, <2>5
<1>22. first => RequestsOK(k, n)
  <2>1. first /\ k.t.state = "SynReceived" /\ (Bound => Mine(n)) => k.delivered = << >>
    BY <1>1, <1>5, <1>8, <1>16 DEF RequestsOK
  <2> QED
    BY <1>1, <1>5, <1>16, <1>19, <2>1 DEF RequestsOK
<1>23. Basic(k, n) /\ (first => Exact(k, n))
  BY <1>1, <1>16, <1>17, <1>20, <1>21, <1>22 DEF Basic, Exact
<1> QED
  BY <1>23 DEF SendControl, k, h, t, units, first

(***************************************************************************)
(* The steps of the node.                                                  *)
(***************************************************************************)
LEMMA BecomesKeeps ==
    ASSUME NEW n, NEW h, Basic(h, n), fresh' => Exact(h, n), Becomes(h), iss' = n,
           UNCHANGED <<others, peer>>
    PROVE  HandlerInv(Handler, iss)'
<1>1. /\ n \in Nat /\ h \in Record /\ TcbOK(h, n) /\ RingOK(h) /\ PoolOK(h) /\ PeerType
      /\ fresh' => NumbersOK(h, n) /\ RequestsOK(h, n) /\ WireOK(h, n) /\ PeerOK(h, n)
  BY DEF Basic, Exact
<1>2. Handler' = h
  <2>1. /\ tcb' = h.t /\ used' = h.used /\ sent' = h.sent /\ refused' = h.refused /\ wire' = h.wire
        /\ delivered' = h.delivered /\ overtaken' = h.overtaken
    BY DEF Becomes
  <2>2. h = [t |-> h.t, used |-> h.used, sent |-> h.sent, refused |-> h.refused, wire |-> h.wire,
             delivered |-> h.delivered, overtaken |-> h.overtaken]
    BY <1>1 DEF Record
  <2> QED
    BY <2>1, <2>2 DEF Handler
<1>3. iss' = n /\ others' = others /\ peer' = peer
  OBVIOUS
<1>4. (Bound <=> Bound') /\ PeerBase' = PeerBase /\ (Mine(n) <=> Mine(iss)')
  BY <1>3 DEF Bound, PeerBase, Mine
<1>5. (fresh => NumbersOK(Handler, iss))'
  BY <1>1, <1>2, <1>3, <1>4 DEF NumbersOK
<1>6. (fresh => RequestsOK(Handler, iss))'
  BY <1>1, <1>2, <1>3, <1>4 DEF RequestsOK
<1>7. RingOK(Handler)' /\ TcbOK(Handler, iss)' /\ PeerType'
  BY <1>1, <1>2, <1>3 DEF RingOK, Resent, TcbOK, PeerType
<1>8. PoolOK(Handler)'
  BY <1>1, <1>2, <1>3 DEF PoolOK, Unbroken
<1>9. (fresh => WireOK(Handler, iss))'
  BY <1>1, <1>2, <1>3, <1>4 DEF WireOK, After, Unbroken
<1>10. (fresh => PeerOK(Handler, iss))'
  BY <1>1, <1>2, <1>3, <1>4 DEF PeerOK, After, Unbroken
<1> QED
  BY <1>1, <1>2, <1>3, <1>5, <1>6, <1>7, <1>8, <1>9, <1>10 DEF HandlerInv, Basic, Exact

\* A handler that leaves the connection what it is.
LEMMA BecomesInv ==
    ASSUME NEW h, HandlerInv(h, iss), Becomes(h), UNCHANGED <<iss, fresh, others, peer>>
    PROVE  HandlerInv(Handler, iss)'
BY BecomesKeeps DEF HandlerInv

LEMMA AcceptStep ==
    ASSUME HandlerInv(Handler, iss), Accept
    PROVE  HandlerInv(Handler, iss)'
<1> DEFINE h(n) == SendControl([Handler EXCEPT !.t = [Closed EXCEPT !.state = "SynReceived",
                                                         !.una = n, !.wl2 = n, !.nxt = n,
                                                         !.rcvNxt = 1]], "SYN")
<1>1. PICK n \in ISS : /\ iss' = n /\ fresh' = (fresh /\ Unused(n)) /\ Becomes(h(n))
  BY DEF Accept
<1>2. tcb.state = "Closed" /\ UNCHANGED <<others, peer>>
  BY DEF Accept
<1>3. n \in Nat
  <2>1. iss \in Nat
    BY InvFacts
  <2> QED
    BY <2>1, Sizes DEF ISS
<1>4. Basic(h(n), n) /\ (fresh /\ Unused(n) => Exact(h(n), n))
  BY <1>2, <1>3, AcceptKeeps
<1> HIDE DEF h
<1> QED
  BY <1>1, <1>2, <1>4, BecomesKeeps

LEMMA RunStep ==
    ASSUME HandlerInv(Handler, iss), NEW late \in BOOLEAN, Run(late)
    PROVE  HandlerInv(Handler, iss)'
<1> DEFINE h == Flush(SendFin(Handler))
<1>1. /\ Handler.t.state \notin {"Closed", "Halted"} /\ iss' = iss /\ fresh' = fresh
      /\ UNCHANGED <<others, peer>>
  BY DEF Run, Handler
<1>2. HandlerInv(h, iss) /\ h.t.state # "Closed"
  <2>1. HandlerInv(SendFin(Handler), iss) /\ SendFin(Handler).t.state \notin {"Closed", "Halted"}
    BY <1>1, SendFinKeeps
  <2> QED
    BY <2>1, FlushKeeps
<1>3. Becomes(h) \/ (h.t.rtx # << >> /\ Becomes(Retransmit(h)))
  BY DEF Run
<1> HIDE DEF h
<1>4. CASE Becomes(h)
  BY <1>1, <1>2, <1>4, BecomesInv
<1>5. CASE h.t.rtx # << >> /\ Becomes(Retransmit(h))
  <2>1. HandlerInv(Retransmit(h), iss)
    BY <1>2, <1>5, RetransmitKeeps
  <2> QED
    BY <1>1, <1>5, <2>1, BecomesInv
<1> QED
  BY <1>3, <1>4, <1>5

LEMMA HaltStep ==
    ASSUME HandlerInv(Handler, iss), Halt
    PROVE  HandlerInv(Handler, iss)'
<1>1. /\ Handler.t.state \notin {"Closed", "Halted"} /\ Handler.t.full /\ iss' = iss /\ fresh' = fresh
      /\ UNCHANGED <<others, peer>>
  BY DEF Halt, FrontMissing, Handler
<1>2. HandlerInv([SendFin(Handler) EXCEPT !.t.state = "Halted"], iss)
  BY <1>1, HaltKeeps
<1>3. Becomes([SendFin(Handler) EXCEPT !.t.state = "Halted"])
  BY DEF Halt
<1> QED
  BY <1>1, <1>2, <1>3, BecomesInv

LEMMA ResetStep ==
    ASSUME HandlerInv(Handler, iss), Reset
    PROVE  HandlerInv(Handler, iss)'
<1>1. /\ Handler.t.state # "Closed" /\ iss' = iss /\ fresh' = fresh /\ UNCHANGED <<others, peer>>
      /\ Becomes(FreeTcb(Handler))
  BY DEF Reset, Handler
<1>2. HandlerInv(FreeTcb(Handler), iss)
  BY <1>1, FreeKeeps
<1> QED
  BY <1>1, <1>2, BecomesInv

\* What Input() does with one segment.
LEMMA InputStep ==
    ASSUME HandlerInv(Handler, iss), NEW s \in Segments, NEW wnd \in Windows,
           \/ Establish(s, wnd) \/ ReceiveAck(s, wnd) \/ ReceiveData(s, wnd)
           \/ ReceiveFin(s, wnd) \/ LastAck(s)
    PROVE  HandlerInv(Handler, iss)'
<1> DEFINE n == iss
<1>1. Handler.t = tcb /\ Handler.sent = sent /\ Handler.refused = refused /\ wnd \in Nat
  BY Sizes DEF Handler
<1>2. /\ Bound /\ s.kind \in Kinds /\ s.seq \in Nat /\ s.ack \in Nat
      /\ s.kind = "data" => s.seq <= Requests
      /\ s.kind = "fin" => s.seq <= Requests + 1
  BY InvFacts, SegmentFacts
<1>3. UNCHANGED <<iss, fresh, others, peer>>
  BY DEF Establish, ReceiveAck, ReceiveData, ReceiveFin, LastAck
<1>4. ASSUME NEW h, HandlerInv(h, n), Becomes(h) PROVE HandlerInv(Handler, iss)'
  BY <1>3, <1>4, BecomesInv
<1>5. ASSUME s.kind = "fin", Acceptable(tcb, s), tcb.state # "Closed"
      PROVE  tcb.rcvNxt <= Requests + 1
  <2>1. tcb.rcvNxt \in Nat
    BY <1>1, InvFacts, RecordFacts
  <2>2. tcb.rcvNxt <= s.seq
    BY <1>5 DEF Acceptable
  <2> QED
    BY <1>2, <1>5, <2>1, <2>2, Sizes
<1>6. CASE Establish(s, wnd)
  <2>1. tcb.state = "SynReceived" /\ s.kind \in {"ack", "data", "fin"} /\ Acceptable(tcb, s)
    BY <1>6 DEF Establish
  <2>2. CASE tcb.una <= s.ack /\ s.ack <= tcb.nxt
    <3> DEFINE h == [RtxOnAck(Handler, s.ack) EXCEPT
                        !.t.wnd = wnd, !.t.wl1 = s.seq, !.t.wl2 = s.ack, !.t.una = s.ack,
                        !.t.state = "Established"]
    <3>1. HandlerInv(h, n)
      BY <1>1, <2>1, <2>2, EstablishKeeps
    <3>2. Becomes(h)
      BY <1>6, <2>2 DEF Establish
    <3> HIDE DEF h
    <3> QED
      BY <1>4, <3>1, <3>2
  <2>3. CASE ~(tcb.una <= s.ack /\ s.ack <= tcb.nxt)
    <3>1. s.kind = "fin" /\ Becomes(Fin(Handler))
      BY <1>6, <2>3 DEF Establish
    <3>2. HandlerInv(Fin(Handler), n)
      BY <1>1, <1>2, <1>5, <2>1, <3>1, FinKeeps
    <3> QED
      BY <1>4, <3>1, <3>2
  <2> QED
    BY <2>2, <2>3
<1>7. CASE ReceiveAck(s, wnd)
  <2>1. Handler.t.state \in {"Established", "CloseWait"} /\ Becomes(Acknowledge(Handler, s, wnd))
    BY <1>1, <1>7 DEF ReceiveAck
  <2>2. HandlerInv(Acknowledge(Handler, s, wnd), n)
    BY <1>1, <1>2, <2>1, AcknowledgeKeeps
  <2> QED
    BY <1>4, <2>1, <2>2
<1>8. CASE ReceiveData(s, wnd)
  <2> DEFINE h == Delivered(s, wnd)
  <2>1. tcb.state = "Established" /\ InOrder(s) /\ s.seq <= Requests
    BY <1>2, <1>8 DEF ReceiveData
  <2>2. HandlerInv(h, n) /\ h.t.state = "Established" /\ h.sent = sent /\ h.refused = refused
    BY <1>1, <1>2, <2>1, DeliveredKeeps
  <2>3. \/ \E lengths \in Answers :
              /\ sent + refused + lengths[1] + lengths[2] <= MaxSent
              /\ Becomes(Answer(h, lengths))
        \/ Becomes(FreeTcb(h))
    BY <1>8 DEF ReceiveData
  <2> HIDE DEF h
  <2>4. ASSUME NEW lengths \in Answers, sent + refused + lengths[1] + lengths[2] <= MaxSent,
               Becomes(Answer(h, lengths))
        PROVE  HandlerInv(Handler, iss)'
    <3>1. HandlerInv(Answer(h, lengths), n)
      BY <2>2, <2>4, AnswerKeeps
    <3> QED
      BY <1>4, <2>4, <3>1
  <2>5. HandlerInv(FreeTcb(h), n)
    BY <2>2, FreeKeeps
  <2> QED
    BY <1>4, <2>3, <2>4, <2>5
<1>9. CASE ReceiveFin(s, wnd)
  <2> DEFINE h == Acknowledge(Handler, s, wnd)
  <2>1. /\ tcb.state \in {"Established", "CloseWait"} /\ s.kind = "fin" /\ Acceptable(tcb, s)
        /\ Becomes(Fin(h))
    BY <1>9 DEF ReceiveFin
  <2>2. HandlerInv(h, n) /\ h.t.state = tcb.state /\ h.t.rcvNxt = tcb.rcvNxt
    BY <1>1, <1>2, <2>1, AcknowledgeKeeps
  <2> HIDE DEF h
  <2>3. HandlerInv(Fin(h), n)
    BY <1>2, <1>5, <2>1, <2>2, FinKeeps
  <2> QED
    BY <1>4, <2>1, <2>3
<1>10. CASE LastAck(s)
  <2>1. /\ tcb.state = "LastAck" /\ Acceptable(tcb, s)
        /\ Becomes(FreeTcb(Handler)) \/ (s.kind = "fin" /\ Becomes(Fin(Handler)))
    BY <1>10 DEF LastAck
  <2>2. HandlerInv(FreeTcb(Handler), n)
    BY <1>1, <2>1, FreeKeeps
  <2>3. s.kind = "fin" => HandlerInv(Fin(Handler), n)
    BY <1>1, <1>2, <1>5, <2>1, FinKeeps
  <2> QED
    BY <1>4, <2>1, <2>2, <2>3
<1> QED
  BY <1>6, <1>7, <1>8, <1>9, <1>10

(***************************************************************************)
(* The steps of the environment.                                           *)
(***************************************************************************)
LEMMA NodeSame ==
    ASSUME HandlerInv(Handler, iss), UNCHANGED node, Bound <=> Bound', PeerBase' = PeerBase,
           PeerType', PoolOK(Handler)', fresh => PeerOK(Handler, iss)'
    PROVE  HandlerInv(Handler, iss)'
<1>1. Handler' = Handler /\ iss' = iss /\ fresh' = fresh
  BY DEF node, Handler
<1>2. Handler \in Record /\ iss \in Nat /\ TcbOK(Handler, iss) /\ RingOK(Handler)
  BY DEF HandlerInv, Basic
<1>3. TcbOK(Handler, iss)' /\ RingOK(Handler)'
  BY <1>1, <1>2 DEF TcbOK, RingOK, Resent
<1>4. Mine(iss) <=> Mine(iss)'
  BY <1>1 DEF Mine
<1>5. ASSUME fresh
      PROVE  NumbersOK(Handler, iss)' /\ RequestsOK(Handler, iss)' /\ WireOK(Handler, iss)'
  <2>1. NumbersOK(Handler, iss) /\ RequestsOK(Handler, iss) /\ WireOK(Handler, iss)
    BY <1>5 DEF HandlerInv, Exact
  <2>2. NumbersOK(Handler, iss)'
    BY <1>1, <1>4, <2>1 DEF NumbersOK
  <2>3. RequestsOK(Handler, iss)'
    BY <1>1, <1>4, <2>1 DEF RequestsOK
  <2>4. WireOK(Handler, iss)'
    BY <1>1, <1>4, <2>1 DEF WireOK, After
  <2> QED
    BY <2>2, <2>3, <2>4
<1> QED
  BY <1>1, <1>2, <1>3, <1>5 DEF HandlerInv, Basic, Exact

LEMMA OthersStep ==
    ASSUME HandlerInv(Handler, iss), OtherConnections
    PROVE  HandlerInv(Handler, iss)' /\ others' \in 0..Others
<1>1. /\ UNCHANGED node /\ peer' = peer /\ others' \in 0..Others /\ others' + used <= Blocks
  BY DEF OtherConnections
<1>2. Handler' = Handler /\ Handler.used = used /\ iss' = iss
  BY <1>1 DEF node, Handler
<1>3. PoolOK(Handler) /\ PeerType /\ Handler \in Record
  BY DEF HandlerInv, Basic
<1>4. (Bound <=> Bound') /\ PeerBase' = PeerBase
  BY <1>1 DEF Bound, PeerBase
<1>5. PoolOK(Handler)'
  <2>1. Handler.used \in Nat /\ others' \in Nat /\ Blocks \in Nat
    BY <1>1, <1>3, RecordFacts, Sizes
  <2>2. Handler.used + others' <= Blocks
    BY <1>1, <1>2, <2>1
  <2>3. Unbroken(Handler)' <=> Unbroken(Handler)
    BY <1>2 DEF Unbroken
  <2> QED
    BY <1>2, <1>3, <2>1, <2>2, <2>3 DEF PoolOK
<1>6. fresh => PeerOK(Handler, iss)'
  BY <1>1, <1>2, <1>4 DEF HandlerInv, Exact, PeerOK, After, Unbroken
<1>7. PeerType'
  BY <1>1, <1>3 DEF PeerType
<1> QED
  BY <1>1, <1>4, <1>5, <1>6, <1>7, NodeSame

LEMMA PeerFacts ==
    ASSUME PeerType
    PROVE  /\ peer \in Peer
           /\ peer.nxt \in 1..(Requests + 2) /\ peer.acks \in Seq(Nat) /\ peer.rcvNxt \in Nat
           /\ peer.got \in Seq(Nat) /\ peer.finished \in BOOLEAN /\ peer.reset \in BOOLEAN
           /\ Len(peer.acks) = peer.nxt /\ Len(peer.acks) \in Nat /\ Len(peer.got) \in Nat
           /\ 1 \in 1..Len(peer.acks) /\ PeerBase \in Int /\ (Bound <=> peer.rcvNxt # 0)
           /\ peer.rcvNxt = 0 => peer.nxt = 1
<1>1. /\ peer.nxt \in 1..(Requests + 2) /\ peer.acks \in Seq(Nat) /\ peer.rcvNxt \in Nat
      /\ peer.got \in Seq(Nat) /\ peer.finished \in BOOLEAN /\ peer.reset \in BOOLEAN
      /\ Len(peer.acks) = peer.nxt
  BY DEF PeerType, Peer
<1>2. Len(peer.acks) \in Nat /\ Len(peer.got) \in Nat
  BY <1>1
<1>3. 1 \in 1..Len(peer.acks)
  BY <1>1, <1>2
<1>4. PeerBase \in Int
  <2>1. peer.acks[1] \in Nat
    BY <1>1, <1>3
  <2> QED
    BY <2>1 DEF PeerBase
<1>5. Bound <=> peer.rcvNxt # 0
  BY <1>1 DEF Bound
<1> QED
  BY <1>1, <1>2, <1>3, <1>4, <1>5 DEF PeerType

\* The peer's numbers and what it read do not depend on what it sends.
LEMMA PeerSendsStep ==
    ASSUME HandlerInv(Handler, iss), PeerSends
    PROVE  HandlerInv(Handler, iss)'
<1> DEFINE acks == Append(peer.acks, peer.rcvNxt)
<1>1. PeerType /\ PoolOK(Handler)
  BY DEF HandlerInv, Basic
<1>2. /\ UNCHANGED node /\ others' = others /\ peer.rcvNxt > 0 /\ peer.nxt <= Requests + 1
      /\ peer' = [peer EXCEPT !.nxt = @ + 1, !.acks = acks]
  BY DEF PeerSends
<1>3. Handler' = Handler /\ iss' = iss
  BY <1>2 DEF node, Handler
<1>4. /\ peer \in Peer
      /\ peer.nxt \in 1..(Requests + 2) /\ peer.acks \in Seq(Nat) /\ peer.rcvNxt \in Nat
      /\ Len(peer.acks) = peer.nxt /\ Len(peer.acks) \in Nat /\ 1 \in 1..Len(peer.acks)
      /\ PeerBase \in Int
  BY <1>1, PeerFacts
<1>5. /\ acks \in Seq(Nat) /\ Len(acks) = Len(peer.acks) + 1
      /\ \A i \in 1..Len(peer.acks) : acks[i] = peer.acks[i]
      /\ acks[Len(peer.acks) + 1] = peer.rcvNxt
  BY <1>4, AppendProperties
<1> HIDE DEF acks
<1>6. peer.nxt + 1 \in 1..(Requests + 2)
  <2>1. peer.nxt \in Nat /\ peer.nxt >= 1 /\ Requests \in Nat
    BY <1>4, Sizes
  <2> QED
    BY <1>2, <2>1
<1>7. /\ peer' \in Peer
      /\ peer'.nxt = peer.nxt + 1 /\ peer'.acks = acks /\ peer'.rcvNxt = peer.rcvNxt
      /\ peer'.got = peer.got /\ peer'.finished = peer.finished /\ peer'.reset = peer.reset
  BY <1>2, <1>4, <1>5, <1>6 DEF Peer
<1>8. Bound /\ Bound' /\ PeerBase' = PeerBase
  <2>1. peer'.acks[1] = peer.acks[1]
    BY <1>4, <1>5, <1>7
  <2> QED
    BY <1>2, <1>7, <2>1 DEF Bound, PeerBase
<1>9. PeerType'
  <2>1. Len(peer'.acks) = peer'.nxt
    BY <1>4, <1>5, <1>7
  <2>2. peer'.rcvNxt # 0
    BY <1>2, <1>4, <1>7
  <2> QED
    BY <1>7, <2>1, <2>2 DEF PeerType
<1>10. ASSUME fresh PROVE PeerOK(Handler, iss)'
  <2>1. PeerOK(Handler, iss)
    BY <1>10 DEF HandlerInv, Exact
  <2>2. /\ PeerBase < peer.rcvNxt
        /\ \A i \in 1..Len(peer.acks) : PeerBase < peer.acks[i] /\ peer.acks[i] <= peer.rcvNxt
    BY <1>8, <2>1 DEF PeerOK
  <2>3. \A i \in 1..Len(acks) : PeerBase < acks[i] /\ acks[i] <= peer.rcvNxt
    <3>1. ASSUME NEW i \in 1..Len(acks) PROVE PeerBase < acks[i] /\ acks[i] <= peer.rcvNxt
      <4>1. CASE i \in 1..Len(peer.acks)
        BY <1>5, <2>2, <4>1
      <4>2. CASE i = Len(peer.acks) + 1
        BY <1>4, <1>5, <2>2, <4>2
      <4> QED
        BY <1>4, <1>5, <4>1, <4>2
    <3> QED
      BY <3>1
  <2>4. After(Handler, peer.rcvNxt)' <=> After(Handler, peer.rcvNxt)
    BY <1>3, <1>7, <1>8 DEF After
  <2>5. Unbroken(Handler)' <=> Unbroken(Handler)
    BY <1>3 DEF Unbroken
  <2> QED
    BY <1>3, <1>7, <1>8, <2>1, <2>3, <2>4, <2>5 DEF PeerOK
<1>11. PoolOK(Handler)'
  BY <1>1, <1>2, <1>3 DEF PoolOK, Unbroken
<1> QED
  BY <1>2, <1>8, <1>9, <1>10, <1>11, NodeSame

LEMMA PeerResetsStep ==
    ASSUME HandlerInv(Handler, iss), PeerResets
    PROVE  HandlerInv(Handler, iss)'
<1>1. PeerType /\ PoolOK(Handler)
  BY DEF HandlerInv, Basic
<1>2. /\ UNCHANGED node /\ others' = others /\ peer.rcvNxt > 0
      /\ peer' = [peer EXCEPT !.reset = TRUE]
  BY DEF PeerResets
<1>3. Handler' = Handler /\ iss' = iss
  BY <1>2 DEF node, Handler
<1>4. /\ peer' \in Peer
      /\ peer'.nxt = peer.nxt /\ peer'.acks = peer.acks /\ peer'.rcvNxt = peer.rcvNxt
      /\ peer'.got = peer.got /\ peer'.finished = peer.finished
  BY <1>1, <1>2 DEF PeerType, Peer
<1>5. Bound /\ Bound' /\ PeerBase' = PeerBase
  BY <1>2, <1>4 DEF Bound, PeerBase
<1>6. PeerType'
  BY <1>1, <1>4 DEF PeerType
<1>7. ASSUME fresh PROVE PeerOK(Handler, iss)'
  <2>1. PeerOK(Handler, iss)
    BY <1>7 DEF HandlerInv, Exact
  <2>2. After(Handler, peer.rcvNxt)' <=> After(Handler, peer.rcvNxt)
    BY <1>3, <1>4, <1>5 DEF After
  <2>3. Unbroken(Handler)' <=> Unbroken(Handler)
    BY <1>3 DEF Unbroken
  <2> QED
    BY <1>3, <1>4, <1>5, <2>1, <2>2, <2>3 DEF PeerOK
<1>8. PoolOK(Handler)'
  BY <1>1, <1>2, <1>3 DEF PoolOK, Unbroken
<1> QED
  BY <1>2, <1>5, <1>6, <1>7, <1>8, NodeSame

\* The SYN of a connection, of an old one maybe: the peer knows no other then.
LEMMA PeerReceivesSyn ==
    ASSUME HandlerInv(Handler, iss), NEW w \in wire, PeerReceives(w), ~Bound
    PROVE  HandlerInv(Handler, iss)'
<1> DEFINE n == iss
           h == Handler
<1>1. n \in Nat /\ h \in Record /\ TcbOK(h, n) /\ RingOK(h) /\ PoolOK(h) /\ PeerType
  BY DEF HandlerInv, Basic
<1>2. peer \in Peer /\ peer.rcvNxt = 0 /\ peer.nxt = 1
  BY <1>1, PeerFacts
<1>3. w \in h.wire /\ w \in [seq : Nat, what : What, unit : Nat]
  <2>1. h.wire = wire
    BY DEF Handler
  <2> QED
    BY <1>1, <2>1, RecordFacts
<1>4. w.seq \in Nat /\ w.seq + 1 \in Nat
  BY <1>3
<1>5. /\ UNCHANGED node /\ others' = others /\ w.what = "SYN"
      /\ peer' = [peer EXCEPT !.rcvNxt = w.seq + 1, !.finished = FALSE, !.acks = <<w.seq + 1>>,
                              !.got = peer.got]
  BY <1>2 DEF PeerReceives
<1>6. h' = h /\ n' = n /\ fresh' = fresh
  BY <1>5 DEF node, Handler
<1>7. <<w.seq + 1>> \in Seq(Nat) /\ Len(<<w.seq + 1>>) = 1 /\ <<w.seq + 1>>[1] = w.seq + 1
  BY <1>4
<1>8. /\ peer' \in Peer
      /\ peer'.nxt = 1 /\ peer'.acks = <<w.seq + 1>> /\ peer'.rcvNxt = w.seq + 1
      /\ peer'.got = peer.got /\ ~peer'.finished
  BY <1>2, <1>4, <1>5, <1>7 DEF Peer
<1>9. Bound' /\ PeerBase' = w.seq
  <2>1. peer'.rcvNxt > 0
    BY <1>4, <1>8
  <2>2. peer'.acks[1] = w.seq + 1 /\ (w.seq + 1) - 1 = w.seq
    BY <1>4, <1>7, <1>8
  <2> QED
    BY <2>1, <2>2 DEF Bound, PeerBase
<1>10. Basic(h, n)'
  <2>1. PeerType'
    BY <1>7, <1>8 DEF PeerType
  <2>2. PoolOK(Handler)'
    BY <1>1, <1>5, <1>6 DEF PoolOK, Unbroken
  <2>3. TcbOK(Handler, iss)' /\ RingOK(Handler)'
    BY <1>1, <1>6 DEF TcbOK, RingOK, Resent
  <2> QED
    BY <1>1, <1>6, <2>1, <2>2, <2>3 DEF Basic
<1>11. ASSUME fresh PROVE Exact(h, n)'
  <2>1. /\ NumbersOK(h, n) /\ RequestsOK(h, n) /\ WireOK(h, n) /\ peer.got = << >>
        /\ h.sent = 0 /\ h.delivered = << >> /\ h.t.state \in {"Closed", "SynReceived"}
    <3>1. NumbersOK(h, n) /\ RequestsOK(h, n) /\ WireOK(h, n) /\ PeerOK(h, n)
      BY <1>11 DEF HandlerInv, Exact
    <3> QED
      BY <3>1 DEF RequestsOK, PeerOK
  <2>2. NumbersOK(Handler, iss)'
    <3>1. ~Mine(n)
      BY DEF Mine
    <3>2. h.t.state # "Closed" =>
             /\ \E fin \in Fins(h.t) : h.t.nxt + Len(h.t.queue) = n + 1 + fin + 0
             /\ h.t.queue = << >> /\ ~h.t.full /\ (h.t.state = "SynReceived" => h.t.una = n)
      BY <2>1, <3>1 DEF NumbersOK
    <3>3. (IF Mine(n)' THEN h.sent ELSE 0) = 0
      BY <2>1
    <3> QED
      BY <1>6, <2>1, <3>2, <3>3 DEF NumbersOK
  <2>3. RequestsOK(Handler, iss)'
    BY <1>6, <1>9, <2>1 DEF RequestsOK
  <2>4. WireOK(Handler, iss)'
    <3>1. \A v \in h.wire : v.what # "data"
      BY <2>1 DEF WireOK
    <3> QED
      BY <1>6, <2>1, <3>1 DEF WireOK
  <2>5. PeerOK(Handler, iss)'
    <3>1. PeerBase' < peer'.rcvNxt
      BY <1>4, <1>8, <1>9
    <3>2. PeerBase' # n => peer'.rcvNxt < n
      <4>1. w.seq <= n /\ (w.seq < n => w.seq + 1 < n)
        BY <1>3, <1>5, <2>1 DEF WireOK
      <4>2. w.seq # n => w.seq + 1 < n
        <5> HIDE DEF n
        <5> QED
          BY <1>1, <1>4, <4>1
      <4> QED
        BY <1>8, <1>9, <4>2
    <3>3. \E v \in h.wire : v.seq = peer'.rcvNxt - 1
      <4>1. w.seq = peer'.rcvNxt - 1
        BY <1>4, <1>8
      <4> QED
        BY <1>3, <4>1
    <3>4. ASSUME NEW i \in 1..Len(peer'.acks)
          PROVE  PeerBase' < peer'.acks[i] /\ peer'.acks[i] <= peer'.rcvNxt
      <4>1. i = 1 /\ peer'.acks[1] = w.seq + 1
        BY <1>7, <1>8
      <4> QED
        BY <1>4, <1>8, <1>9, <4>1
    <3>5. peer'.rcvNxt = PeerBase' + 1 + Len(peer'.got)
      <4>1. Len(peer'.got) = 0
        BY <1>8, <2>1
      <4> QED
        BY <1>4, <1>8, <1>9, <4>1
    <3>6. ~After(Handler, peer.rcvNxt)'
      <4>1. ASSUME NEW f \in h.wire, w.seq < f.seq, f.seq < w.seq + 1 PROVE FALSE
        <5>1. f.seq \in Nat
          BY <1>1, RecordFacts
        <5> QED
          BY <1>4, <4>1, <5>1
      <4> QED
        BY <1>6, <1>8, <1>9, <4>1 DEF After
    <3>7. \A i \in 1..Len(peer'.got) : peer'.got[i] = i
      BY <1>8, <2>1
    <3> QED
      BY <1>6, <1>8, <1>9, <3>1, <3>2, <3>3, <3>4, <3>5, <3>6, <3>7 DEF PeerOK
  <2> QED
    BY <2>2, <2>3, <2>4, <2>5 DEF Exact
<1> QED
  BY <1>6, <1>10, <1>11 DEF HandlerInv

\* The next unit or the FIN of the connection that the peer knows.
LEMMA PeerReceivesNext ==
    ASSUME HandlerInv(Handler, iss), NEW w \in wire, PeerReceives(w), Bound
    PROVE  HandlerInv(Handler, iss)'
<1> DEFINE n == iss
           h == Handler
           r == peer.rcvNxt
           base == PeerBase
           count == Len(peer.got)
<1>1. PoolOK(h) /\ PeerType /\ h \in Record /\ n \in Nat
  BY DEF HandlerInv, Basic
<1>2. /\ peer \in Peer
      /\ r \in Nat /\ peer.got \in Seq(Nat) /\ count \in Nat /\ base \in Int
      /\ peer.rcvNxt # 0 /\ Len(peer.acks) = peer.nxt
  BY <1>1, PeerFacts
<1>3. w \in h.wire /\ w \in [seq : Nat, what : What, unit : Nat]
  <2>1. h.wire = wire
    BY DEF Handler
  <2> QED
    BY <1>1, <2>1, RecordFacts
<1>4. w.seq \in Nat /\ w.what \in What /\ w.unit \in Nat /\ w.seq + 1 \in Nat
  BY <1>3
<1>5. /\ UNCHANGED node /\ others' = others /\ w.seq = r /\ ~peer.finished
      /\ peer' = [peer EXCEPT !.rcvNxt = w.seq + 1, !.finished = w.what = "FIN",
                              !.acks = peer.acks,
                              !.got = IF w.what = "data" THEN Append(peer.got, w.unit) ELSE peer.got]
  <2>1. peer' = [peer EXCEPT !.rcvNxt = w.seq + 1, !.finished = w.what = "FIN",
                             !.acks = IF peer.rcvNxt = 0 THEN <<w.seq + 1>> ELSE peer.acks,
                             !.got = IF w.what = "data" THEN Append(peer.got, w.unit) ELSE peer.got]
    BY DEF PeerReceives
  <2>2. (IF peer.rcvNxt = 0 THEN <<w.seq + 1>> ELSE peer.acks) = peer.acks
    BY <1>2
  <2>3. UNCHANGED node /\ others' = others /\ w.seq = r /\ ~peer.finished
    BY <1>2 DEF PeerReceives
  <2> QED
    BY <2>1, <2>2, <2>3
<1>6. Handler' = Handler /\ iss' = iss
  BY <1>5 DEF node, Handler
<1>7. /\ peer' \in Peer /\ peer'.nxt = peer.nxt /\ peer'.acks = peer.acks /\ peer'.rcvNxt = r + 1
      /\ peer'.reset = peer.reset
      /\ (w.what = "FIN" => peer'.finished) /\ (w.what = "data" => ~peer'.finished)
      /\ (w.what = "FIN" => peer'.got = peer.got)
      /\ (w.what = "data" => peer'.got = Append(peer.got, w.unit))
  <2>1. (IF w.what = "data" THEN Append(peer.got, w.unit) ELSE peer.got) \in Seq(Nat)
    BY <1>2, <1>4
  <2> QED
    BY <1>2, <1>4, <1>5, <2>1 DEF Peer
<1>8. Bound' /\ PeerBase' = PeerBase
  <2>1. peer'.rcvNxt > 0
    BY <1>2, <1>7
  <2> QED
    BY <1>7, <2>1 DEF Bound, PeerBase
<1>9. PeerType'
  <2>1. peer'.rcvNxt # 0
    BY <1>2, <1>7
  <2> QED
    BY <1>2, <1>7, <2>1 DEF PeerType
<1>10. ASSUME fresh PROVE PeerOK(Handler, iss)'
  <2>1. WireOK(h, n) /\ PeerOK(h, n)
    BY <1>10 DEF HandlerInv, Exact
  <2>2. /\ base < r /\ (base # n => r < n)
        /\ \A i \in 1..Len(peer.acks) : base < peer.acks[i] /\ peer.acks[i] <= r
        /\ r = base + 1 + count /\ ~After(h, r)
        /\ Unbroken(h) => \A i \in 1..count : peer.got[i] = i
    BY <1>5, <2>1 DEF PeerOK
  <2>3. w.what \in {"data", "FIN"}
    <3>1. PICK v \in h.wire : v.seq = r - 1
      BY <2>1 DEF PeerOK
    <3>2. w.what = "SYN" => r < r
      <4>1. w.what = "SYN" /\ v.seq < w.seq => v.seq + 1 < w.seq
        BY <1>3, <2>1 DEF WireOK
      <4>2. v.seq < w.seq /\ v.seq + 1 = r
        <5> HIDE DEF r
        <5> QED
          BY <1>2, <1>5, <3>1
      <4> QED
        BY <1>5, <4>1, <4>2
    <3> HIDE DEF r
    <3> QED
      BY <1>2, <1>4, <3>2 DEF What
  <2>4. base # n => r + 1 < n
    <3>1. w.seq < n => w.seq + 1 < n
      BY <1>3, <2>1 DEF WireOK
    <3> QED
      BY <1>5, <2>2, <3>1
  <2>5. base < r + 1 /\ (r + 1) - 1 = r
    <3>1. base \in Int /\ r \in Nat /\ base < r
      BY <1>2, <2>2
    <3> HIDE DEF r, base
    <3> QED
      BY ONLY <3>1
  <2>6. \E v \in h.wire : v.seq = (r + 1) - 1
    BY <1>3, <1>5, <2>5
  <2>7. \A i \in 1..Len(peer.acks) : base < peer.acks[i] /\ peer.acks[i] <= r + 1
    <3>1. ASSUME NEW i \in 1..Len(peer.acks) PROVE peer.acks[i] <= r + 1
      <4>1. peer.acks \in Seq(Nat)
        BY <1>1, PeerFacts
      <4>2. peer.acks[i] \in Nat /\ peer.acks[i] <= r
        BY <2>2, <4>1
      <4> HIDE DEF r
      <4> QED
        BY <1>2, <4>2
    <3> QED
      BY <2>2, <3>1
  <2>8. w.what = "data" => r + 1 = base + 1 + Len(peer'.got) /\ ~After(h, r + 1)
    <3>1. SUFFICES ASSUME w.what = "data"
                   PROVE  r + 1 = base + 1 + Len(peer'.got) /\ ~After(h, r + 1)
      OBVIOUS
    <3>2. Len(peer'.got) = count + 1
      BY <1>2, <1>4, <1>7, <3>1, AppendProperties
    <3>3. ASSUME NEW f \in h.wire, f.what = "FIN", base < f.seq, f.seq < r + 1 PROVE FALSE
      <4>1. f.seq \in Nat
        BY <1>1, RecordFacts
      <4>2. f.seq < r \/ f.seq = r
        BY <1>2, <3>3, <4>1
      <4>3. ~(f.seq < r)
        BY <2>2, <3>3 DEF After
      <4>4. f.seq = w.seq
        BY <1>5, <4>2, <4>3
      <4>5. f = w
        BY <1>3, <2>1, <4>4 DEF WireOK
      <4> QED
        BY <3>1, <3>3, <4>5
    <3>4. r + 1 = base + 1 + (count + 1)
      <4> HIDE DEF r, base, count
      <4> QED
        BY <1>2, <2>2
    <3> QED
      BY <3>2, <3>3, <3>4 DEF After
  <2>9. Unbroken(h) => \A i \in 1..Len(peer'.got) : peer'.got[i] = i
    <3>1. SUFFICES ASSUME Unbroken(h), NEW i \in 1..Len(peer'.got) PROVE peer'.got[i] = i
      OBVIOUS
    <3>2. CASE w.what = "FIN"
      BY <1>7, <2>2, <3>1, <3>2
    <3>3. CASE w.what = "data"
      <4>1. /\ Len(peer'.got) = count + 1 /\ peer'.got[count + 1] = w.unit
            /\ \A m \in 1..count : peer'.got[m] = peer.got[m]
        <5>1. peer'.got = Append(peer.got, w.unit) /\ peer.got \in Seq(Nat) /\ w.unit \in Nat
          BY <1>2, <1>4, <1>7, <3>3
        <5> QED
          BY <5>1, AppendProperties
      <4>2. w.unit = count + 1
        <5>1. w.seq = base + w.unit
          BY <1>3, <1>5, <2>1, <2>2, <3>1, <3>3 DEF WireOK
        <5>2. r = base + w.unit /\ r = base + 1 + count
          BY <1>5, <2>2, <5>1
        <5>3. base \in Int /\ count \in Nat /\ w.unit \in Nat
          BY <1>2, <1>4
        <5> HIDE DEF r, base, count
        <5> QED
          BY <5>2, <5>3
      <4>3. i \in 1..count \/ i = count + 1
        BY <1>2, <3>1, <4>1
      <4> QED
        BY <2>2, <3>1, <4>1, <4>2, <4>3
    <3> QED
      BY <2>3, <3>2, <3>3
  <2>10. ~peer'.finished => w.what = "data"
    BY <1>7, <2>3
  <2>11. After(h, r + 1) <=> After(Handler, peer.rcvNxt)'
    BY <1>6, <1>7, <1>8 DEF After
  <2>12. Unbroken(Handler)' <=> Unbroken(h)
    BY <1>6 DEF Unbroken
  <2> QED
    BY <1>6, <1>7, <1>8, <2>4, <2>5, <2>6, <2>7, <2>8, <2>9, <2>10, <2>11, <2>12 DEF PeerOK
<1>11. PoolOK(Handler)'
  BY <1>1, <1>5, <1>6 DEF PoolOK, Unbroken
<1> QED
  BY <1>5, <1>8, <1>9, <1>10, <1>11, NodeSame

(***************************************************************************)
(* The invariant holds at first, and every step keeps it.                  *)
(***************************************************************************)
LEMMA TcpInitially == Init => TcpInv
<1> SUFFICES ASSUME Init PROVE TcpInv
  OBVIOUS
<1>1. /\ tcb = Closed /\ used = 0 /\ others = 0 /\ iss = 0 /\ fresh = TRUE
      /\ sent = 0 /\ refused = 0 /\ delivered = << >> /\ overtaken = FALSE /\ wire = {}
      /\ peer = [nxt |-> 1, acks |-> <<0>>, rcvNxt |-> 0, got |-> << >>, finished |-> FALSE,
                 reset |-> FALSE]
  BY DEF Init
<1> DEFINE h == Handler
<1>2. /\ h.t = Closed /\ h.used = 0 /\ h.sent = 0 /\ h.refused = 0 /\ h.wire = {}
      /\ h.delivered = << >> /\ h.overtaken = FALSE
  BY <1>1 DEF Handler
<1>3. h \in Record
  <2>1. << >> \in Seq(Nat) /\ 0 \in 0..MaxSent
    BY Sizes
  <2>2. Closed \in Tcb
    BY ClosedFacts
  <2> QED
    BY <1>1, <2>1, <2>2 DEF Handler, Record
<1>4. h.t.state = "Closed" /\ h.t.rtx = << >> /\ h.t.queue = << >> /\ Len(h.t.queue) = 0
  BY <1>2, ClosedFacts
<1>5. ~Bound
  BY <1>1 DEF Bound
<1> HIDE DEF h
<1>6. NumbersOK(h, 0) /\ RequestsOK(h, 0)
  BY <1>2, <1>4, <1>5 DEF NumbersOK, RequestsOK
<1>7. TcbOK(h, 0)
  <2>1. 0 <= 0 /\ 0 + 0 <= MaxSent
    BY Sizes
  <2> QED
    BY <1>2, <1>4, <2>1 DEF TcbOK
<1>8. RingOK(h)
  <2>1. Len(h.t.rtx) = 0
    BY <1>4
  <2>2. 0 <= UnackMax
    BY Sizes
  <2> QED
    BY <2>1, <2>2 DEF RingOK
<1>9. PoolOK(h)
  <2>1. Len(h.t.queue) = 0 /\ Payloads(h.t.rtx) = 0
    BY <1>4, ClosedFacts
  <2>2. 0 + 0 <= Blocks /\ 0 = 0 + 0
    BY Sizes
  <2> QED
    BY <1>1, <1>2, <2>1, <2>2 DEF PoolOK
<1>10. WireOK(h, 0)
  BY <1>2, <1>4 DEF WireOK
<1>11. PeerType
  <2>1. 1 \in 1..(Requests + 2) /\ <<0>> \in Seq(Nat) /\ << >> \in Seq(Nat)
    BY Sizes
  <2>2. peer \in Peer
    BY <1>1, <2>1 DEF Peer
  <2> QED
    BY <1>1, <2>2 DEF PeerType
<1>12. PeerOK(h, 0)
  <2>1. Len(peer.got) = 0 /\ peer.got = << >> /\ ~peer.finished /\ ~peer.reset
    BY <1>1
  <2> QED
    BY <1>5, <2>1 DEF PeerOK
<1>13. HandlerInv(h, 0)
  BY <1>3, <1>6, <1>7, <1>8, <1>9, <1>10, <1>11, <1>12 DEF HandlerInv, Basic, Exact
<1> QED
  BY <1>1, <1>13, Sizes DEF TcpInv, h

LEMMA TcpStep == TcpInv /\ [Next]_vars => TcpInv'
<1> SUFFICES ASSUME TcpInv, [Next]_vars PROVE TcpInv'
  OBVIOUS
<1>1. HandlerInv(Handler, iss) /\ fresh \in BOOLEAN /\ others \in 0..Others
  BY DEF TcpInv
<1>2. CASE Accept
  <2>1. fresh' \in BOOLEAN /\ others' = others
    BY <1>2 DEF Accept
  <2> QED
    BY <1>1, <1>2, <2>1, AcceptStep DEF TcpInv
<1>3. CASE Reset
  <2>1. fresh' = fresh /\ others' = others
    BY <1>3 DEF Reset
  <2> QED
    BY <1>1, <1>3, <2>1, ResetStep DEF TcpInv
<1>4. CASE Input
  <2>1. PICK s \in Segments, wnd \in Windows :
            \/ Establish(s, wnd) \/ ReceiveAck(s, wnd) \/ ReceiveData(s, wnd)
            \/ ReceiveFin(s, wnd) \/ LastAck(s)
    BY <1>4 DEF Input
  <2>2. fresh' = fresh /\ others' = others
    BY <2>1 DEF Establish, ReceiveAck, ReceiveData, ReceiveFin, LastAck
  <2>3. HandlerInv(Handler, iss)'
    BY <1>1, <2>1, InputStep
  <2> QED
    BY <1>1, <2>2, <2>3 DEF TcpInv
<1>5. ASSUME NEW late \in BOOLEAN, Run(late) PROVE TcpInv'
  <2>1. fresh' = fresh /\ others' = others
    BY <1>5 DEF Run
  <2> QED
    BY <1>1, <1>5, <2>1, RunStep DEF TcpInv
<1>6. CASE Halt
  <2>1. fresh' = fresh /\ others' = others
    BY <1>6 DEF Halt
  <2> QED
    BY <1>1, <1>6, <2>1, HaltStep DEF TcpInv
<1>7. CASE OtherConnections
  <2>1. fresh' = fresh
    BY <1>7 DEF OtherConnections, node
  <2> QED
    BY <1>1, <1>7, <2>1, OthersStep DEF TcpInv
<1>8. CASE PeerSends
  <2>1. fresh' = fresh /\ others' = others
    BY <1>8 DEF PeerSends, node
  <2> QED
    BY <1>1, <1>8, <2>1, PeerSendsStep DEF TcpInv
<1>9. CASE PeerResets
  <2>1. fresh' = fresh /\ others' = others
    BY <1>9 DEF PeerResets, node
  <2> QED
    BY <1>1, <1>9, <2>1, PeerResetsStep DEF TcpInv
<1>10. ASSUME NEW w \in wire, PeerReceives(w) PROVE TcpInv'
  <2>1. fresh' = fresh /\ others' = others
    BY <1>10 DEF PeerReceives, node
  <2>2. HandlerInv(Handler, iss)'
    BY <1>1, <1>10, PeerReceivesSyn, PeerReceivesNext
  <2> QED
    BY <1>1, <2>1, <2>2 DEF TcpInv
<1>11. CASE UNCHANGED vars
  <2>1. UNCHANGED node /\ others' = others /\ peer' = peer
    BY <1>11 DEF vars
  <2>2. Handler' = Handler /\ iss' = iss /\ fresh' = fresh
    BY <2>1 DEF node, Handler
  <2>3. (Bound <=> Bound') /\ PeerBase' = PeerBase
    BY <2>1 DEF Bound, PeerBase
  <2>4. PoolOK(Handler) /\ PeerType /\ (fresh => PeerOK(Handler, iss))
    BY <1>1 DEF HandlerInv, Basic, Exact
  <2>5. PoolOK(Handler)' /\ PeerType'
    BY <2>1, <2>2, <2>4 DEF PoolOK, PeerType, Unbroken
  <2>6. fresh => PeerOK(Handler, iss)'
    BY <2>1, <2>2, <2>3, <2>4 DEF PeerOK, After, Unbroken
  <2>7. HandlerInv(Handler, iss)'
    BY <1>1, <2>1, <2>3, <2>5, <2>6, NodeSame
  <2> QED
    BY <1>1, <2>1, <2>2, <2>7 DEF TcpInv
<1> QED
  BY <1>2, <1>3, <1>4, <1>5, <1>6, <1>7, <1>8, <1>9, <1>10, <1>11 DEF Next

LEMMA TcpAlways == Spec => []TcpInv
<1> QED
  BY TcpInitially, TcpStep, PTL DEF Spec

(***************************************************************************)
(* What follows from it.                                                   *)
(***************************************************************************)
LEMMA TcpInvTypeOK == TcpInv => TcpTypeOK
<1> SUFFICES ASSUME TcpInv PROVE TcpTypeOK
  OBVIOUS
<1> DEFINE h == Handler
<1>1. /\ h \in Record /\ iss \in Nat /\ TcbOK(h, iss) /\ RingOK(h) /\ PoolOK(h)
      /\ fresh \in BOOLEAN /\ others \in 0..Others
  BY DEF TcpInv, HandlerInv, Basic
<1>2. h.t = tcb /\ h.used = used /\ h.sent = sent /\ h.refused = refused
  BY DEF Handler
<1>3. /\ tcb \in Tcb /\ used \in Nat /\ tcb.una \in Nat /\ tcb.nxt \in Nat /\ tcb.wl2 \in Nat
      /\ tcb.wnd \in Nat /\ tcb.rcvNxt \in Nat /\ tcb.full \in BOOLEAN /\ tcb.armed \in BOOLEAN
      /\ Len(tcb.queue) \in Nat /\ sent \in Nat /\ refused \in Nat
  BY <1>1, <1>2, RecordFacts
<1>4. tcb.state \in {"Closed", "SynReceived", "Established", "CloseWait", "LastAck", "Halted"}
  BY <1>3 DEF Tcb
<1>5. sent + refused \in 0..MaxSent /\ sent <= MaxSent
  <2>1. sent + refused <= MaxSent /\ MaxSent \in Nat
    BY <1>1, <1>2, Sizes DEF TcbOK
  <2> QED
    BY <1>3, <2>1
<1>6. tcb.rcvNxt \in 0..(Requests + 2)
  <2>1. tcb.state = "Closed" => tcb.rcvNxt = 0
    BY <1>1, <1>2, ClosedFacts DEF TcbOK, Closed
  <2>2. tcb.state # "Closed" => tcb.rcvNxt \in 1..(Requests + 2)
    BY <1>1, <1>2 DEF TcbOK
  <2> QED
    BY <2>1, <2>2, Sizes
<1>7. ASSUME tcb.state # "Closed"
      PROVE  {tcb.una, tcb.nxt} \subseteq Numbers /\ tcb.una <= tcb.nxt /\ tcb.wl2 <= tcb.nxt
  <2>1. iss <= tcb.una /\ tcb.una <= tcb.nxt /\ tcb.wl2 <= tcb.nxt
    BY <1>1, <1>2, <1>7 DEF TcbOK
  <2>2. PICK fin \in Fins(tcb) : tcb.nxt + Len(tcb.queue) <= iss + 1 + fin + sent
    BY <1>1, <1>2, <1>7 DEF TcbOK
  <2>3. fin \in {0, 1}
    BY DEF Fins
  <2>4. tcb.nxt <= iss + MaxSent + 2
    BY <1>1, <1>3, <1>5, <2>2, <2>3, Sizes
  <2>5. tcb.una \in Numbers /\ tcb.nxt \in Numbers
    BY <1>1, <1>3, <2>1, <2>4, Sizes DEF Numbers
  <2> QED
    BY <2>1, <2>5
<1>8. Len(tcb.rtx) <= UnackMax
  BY <1>1, <1>2 DEF RingOK
<1>9. used + others <= Blocks /\ others \in Nat
  BY <1>1, <1>2 DEF PoolOK
<1> QED
  BY <1>1, <1>3, <1>4, <1>5, <1>6, <1>7, <1>8, <1>9 DEF TcpTypeOK

\* The numbers of a connection are those of its SYN, of the units given to Send() and of its
\* FIN, whatever the clock gave it to begin with, the ring (kTcpUnackMax) is never overrun and
\* the connections together never hold more blocks than the pool of tcp.cpp has, for any sizes
\* of them.
THEOREM TcpTypeCorrect == Spec => []TcpTypeOK
<1> QED
  BY TcpAlways, TcpInvTypeOK, PTL

\* The application is handed the units of the peer in their order and each once, however
\* often the peer sends them again and whatever order the network delivers them in, over any
\* number of connections each of which began above the numbers of those before it.  The clock
\* of TcpInitTcb() does not see to that: without "fresh" it does not hold.
THEOREM RequestsAreTakenOnce == Spec => []RequestsOnce
<1>1. TcpInv => RequestsOnce
  <2> SUFFICES ASSUME TcpInv, fresh PROVE \A i \in DOMAIN delivered : delivered[i] = i
    BY DEF RequestsOnce
  <2>1. RequestsOK(Handler, iss) /\ Handler \in Record /\ Handler.delivered = delivered
    BY DEF TcpInv, HandlerInv, Basic, Exact, Handler
  <2>2. DOMAIN delivered = 1..Len(delivered)
    BY <2>1, RecordFacts
  <2> QED
    BY <2>1, <2>2 DEF RequestsOK
<1> QED
  BY <1>1, TcpAlways, PTL

\* The peer reads the units given to Send() in their order and none twice, those sent from
\* the queue and those sent again from the ring included, as long as no unit was sent past
\* queued ones, Send() refused none (its caller does not look) and each connection began
\* above the numbers of those before it.
THEOREM PeerReadsInOrder == Spec => []ReceivedPrefix
<1>1. TcpInv => ReceivedPrefix
  <2> SUFFICES ASSUME TcpInv, fresh, ~overtaken, refused = 0
               PROVE  \A i \in DOMAIN peer.got : peer.got[i] = i
    BY DEF ReceivedPrefix
  <2>1. PeerOK(Handler, iss) /\ PeerType /\ Unbroken(Handler)
    BY DEF TcpInv, HandlerInv, Basic, Exact, Handler, Unbroken
  <2>2. DOMAIN peer.got = 1..Len(peer.got)
    BY <2>1, PeerFacts
  <2> QED
    BY <2>1, <2>2 DEF PeerOK
<1> QED
  BY <1>1, TcpAlways, PTL

\* The blocks that a connection has taken of the pool are those of its ring and of its queue,
\* after an acknowledgement, a retransmission given up, Abort(), RST and the end alike.
THEOREM BlocksAccounted == Spec => []PoolAccounted
<1>1. TcpInv => PoolAccounted
  <2> SUFFICES ASSUME TcpInv PROVE PoolAccounted
    OBVIOUS
  <2>1. PoolOK(Handler) /\ Handler.used = used /\ Handler.t = tcb
    BY DEF TcpInv, HandlerInv, Basic, Handler
  <2> QED
    BY <2>1 DEF PoolOK, PoolAccounted
<1> QED
  BY <1>1, TcpAlways, PTL
=============================================================================
