------------------------ MODULE E131BridgeTheorems -------------------------
(***************************************************************************)
(* The safety of the sACN bridge, for any number of ports, any senders and *)
(* priorities, and any time-outs.                                          *)
(***************************************************************************)
EXTENDS E131BridgeProperties, TLAPS

\* A port that waits without a length has dropped what it took.
EmptyDropped == pending \ filled \subseteq dropped

BridgeInv == BridgeTypeOK /\ SourcesWatched /\ ShownOrWaiting /\ EmptyDropped

(***************************************************************************)
(* Ages, sources and packets.                                              *)
(***************************************************************************)
LEMMA OldestNat == Oldest \in Nat /\ 0 \in 0..Oldest
<1> DEFINE S == {MergeTimeout + 1, PriorityTimeout + 1, LossTimeout}
<1>1. S \subseteq Nat
  BY BridgeAssumption
<1>2. \E n \in S : \A m \in S : m <= n
  BY BridgeAssumption
<1>3. Oldest \in S
  BY <1>2 DEF Oldest
<1> QED
  BY <1>1, <1>3

LEMMA OlderType == \A age \in 0..Oldest : Older(age) \in 0..Oldest
BY OldestNat DEF Older

LEMMA LongerType == \A age \in 0..LossTimeout : Longer(age) \in 0..LossTimeout
BY BridgeAssumption DEF Longer

LEMMA StreamFacts ==
    ASSUME NEW p \in Ports, NEW s \in Streams[p]
    PROVE  s \in Stream /\ s # None
BY BridgeAssumption DEF Stream

LEMMA LevelFacts ==
    ASSUME NEW p \in Ports, NEW prio \in Priorities[p]
    PROVE  prio \in Level
BY DEF Level

LEMMA LowestLevel == 0 \in Level /\ Lowest \in Level
<1> DEFINE L == UNION { Priorities[p] : p \in Ports }
<1>1. Level = L \cup {0, Lowest}
  BY DEF Level
<1> HIDE DEF L
<1> QED
  BY <1>1

LEMMA SilentType == Silent \in [age : 0..Oldest, priority : Level]
<1>1. Oldest \in 0..Oldest
  BY OldestNat
<1> QED
  BY <1>1, LowestLevel DEF Silent

LEMMA ArrivalType == Arrival => packetAge' \in 0..LossTimeout /\ lost' \in BOOLEAN
<1> SUFFICES ASSUME Arrival PROVE packetAge' \in 0..LossTimeout /\ lost' \in BOOLEAN
  OBVIOUS
<1>1. 0 \in 0..LossTimeout
  BY BridgeAssumption
<1>2. packetAge' \in 0..LossTimeout
  BY <1>1 DEF Arrival
<1>3. lost' \in BOOLEAN
  BY Zenon DEF Arrival
<1> QED
  BY <1>2, <1>3

LEMMA StillSyncType == StillSync \in BOOLEAN
BY Zenon DEF StillSync

LEMMA AddressType == \A option \in Option : option.address \in SyncAddresses \cup {0}
<1> SUFFICES ASSUME NEW option \in Option PROVE option.address \in SyncAddresses \cup {0}
  OBVIOUS
<1>1. CASE option = Forcing
  BY <1>1 DEF Forcing
<1>2. CASE option \in [force : {FALSE}, address : SyncAddresses \cup {0}]
  BY <1>2
<1> QED
  BY <1>1, <1>2 DEF Option

LEMMA GoneFacts ==
    ASSUME NEW source \in Source
    PROVE  Gone(source) \in Source /\ Gone(source).id = None
BY DEF Gone, Source

LEMMA ContinuedFacts ==
    ASSUME NEW source \in Source
    PROVE  Continued(source) \in Source /\ Continued(source).id = source.id
BY OldestNat DEF Continued, Source

LEMMA ExpiredFacts ==
    ASSUME NEW source \in Source
    PROVE  /\ Expired(source) \in Source
           /\ Expired(source).id # None => Expired(source) = source /\ ~TimedOut(source)
BY GoneFacts DEF Expired

LEMMA AgedFacts ==
    ASSUME NEW f \in [Ports -> Source]
    PROVE  /\ Aged(f) \in [Ports -> Source]
           /\ \A p \in Ports : Aged(f)[p].id = f[p].id
BY OlderType DEF Aged, Source

(***************************************************************************)
(* What the time-outs and the priority leave of port p and of the others.  *)
(***************************************************************************)
Left(p, c) ==
    /\ c.a \in Source /\ c.b \in Source
    /\ c.a.id \in {a[p].id, None} /\ c.b.id \in {b[p].id, None}
    /\ c.merging \subseteq Ports /\ c.mode \in BOOLEAN
    /\ c.a.id # None /\ c.b.id # None => p \in c.merging
    /\ merging \ {p} \subseteq c.merging

LEMMA CheckedFacts ==
    ASSUME BridgeInv, NEW p \in Ports
    PROVE  Left(p, Checked(p))
<1> DEFINE c == Checked(p)
           rest == IF TimedOut(a[p]) \/ TimedOut(b[p]) THEN merging \ {p} ELSE merging
<1>1. a[p] \in Source /\ b[p] \in Source /\ merging \subseteq Ports
  BY DEF BridgeInv, BridgeTypeOK
<1>2. a[p].id # None /\ b[p].id # None => p \in merging
  BY DEF BridgeInv, SourcesWatched
<1>3. CASE ~mergeMode
  <2>1. c = [a |-> a[p], b |-> b[p], merging |-> merging, mode |-> FALSE]
    BY <1>3 DEF Checked
  <2> QED
    BY <1>1, <1>2, <2>1 DEF Left
<1>4. CASE mergeMode
  <2>1. c = [a |-> Expired(a[p]), b |-> Expired(b[p]), merging |-> rest, mode |-> rest # {}]
    BY <1>4 DEF Checked
  <2>2. c.a = Expired(a[p]) /\ c.b = Expired(b[p]) /\ c.merging = rest /\ c.mode \in BOOLEAN
    BY <2>1
  <2>3. c.a \in Source /\ (c.a.id # None => c.a = a[p] /\ ~TimedOut(a[p]))
    BY <1>1, <2>2, ExpiredFacts
  <2>4. c.b \in Source /\ (c.b.id # None => c.b = b[p] /\ ~TimedOut(b[p]))
    BY <1>1, <2>2, ExpiredFacts
  <2> HIDE DEF c
  <2>5. Left(p, c)
    BY <1>1, <1>2, <2>2, <2>3, <2>4 DEF Left
  <2> QED
    BY <2>5 DEF c
<1> QED
  BY <1>3, <1>4

LEMMA RankedFacts ==
    ASSUME NEW p \in Ports, NEW c, Left(p, c), NEW prio,
           c = [a |-> c.a, b |-> c.b, merging |-> c.merging, mode |-> c.mode]
    PROVE  Left(p, Ranked(c, prio))
<1> DEFINE r == [c EXCEPT !.a = Gone(c.a), !.b = Gone(c.b), !.mode = FALSE]
<1>1. r.a = Gone(c.a) /\ r.b = Gone(c.b) /\ r.mode = FALSE /\ r.merging = c.merging
  OBVIOUS
<1>2. r.a \in Source /\ r.b \in Source /\ r.a.id = None /\ r.b.id = None
  BY <1>1, GoneFacts DEF Left
<1>3. Left(p, r)
  BY <1>1, <1>2 DEF Left
<1> QED
  BY <1>3 DEF Ranked

LEMMA CheckedRecord ==
    ASSUME NEW p
    PROVE  LET c == Checked(p)
           IN  c = [a |-> c.a, b |-> c.b, merging |-> c.merging, mode |-> c.mode]
BY DEF Checked

(***************************************************************************)
(* The steps.                                                              *)
(***************************************************************************)
\* What is left to show of a step that changes only port p's sources.
LEMMA PortStep ==
    ASSUME BridgeInv, NEW p \in Ports, NEW sa \in Source, NEW sb \in Source,
           a' = [a EXCEPT ![p] = sa], b' = [b EXCEPT ![p] = sb],
           merging \ {p} \subseteq merging', merging' \subseteq Ports,
           sa.id # None /\ sb.id # None => p \in merging' /\ sa.id # sb.id
    PROVE  /\ a' \in [Ports -> Source] /\ b' \in [Ports -> Source]
           /\ SourcesWatched'
<1>1. a \in [Ports -> Source] /\ b \in [Ports -> Source]
  BY DEF BridgeInv, BridgeTypeOK
<1>2. a'[p] = sa /\ b'[p] = sb /\ \A q \in Ports \ {p} : a'[q] = a[q] /\ b'[q] = b[q]
  BY <1>1
<1>3. SourcesWatched'
  BY <1>2 DEF BridgeInv, SourcesWatched
<1> QED
  BY <1>1, <1>3

LEMMA AcceptStep ==
    ASSUME BridgeInv, NEW p \in Ports, NEW s \in Streams[p], NEW prio \in Priorities[p],
           NEW option \in Option, Arrival, priority' = prio, Accept(p, s, prio, option)
    PROVE  BridgeInv'
<1> DEFINE c == Ranked(Checked(p), prio)
           role == Role(p, s)
           merge == role \in {"newA", "newB", "mergeA", "mergeB"}
           sa == CASE role \in {"first", "newA"} -> Taken(s)
                   [] role \in {"a", "mergeA"} -> Continued(c.a)
                   [] OTHER -> c.a
           sb == CASE role = "newB" -> Taken(s)
                   [] role \in {"b", "mergeB"} -> Continued(c.b)
                   [] OTHER -> c.b
<1>1. Left(p, c)
  BY CheckedFacts, RankedFacts, CheckedRecord
<1>2. s \in Stream /\ s # None
  BY StreamFacts
<1>3. Taken(s) \in Source /\ Taken(s).id = s
  BY <1>2, OldestNat DEF Taken, Source
<1>4. /\ Continued(c.a) \in Source /\ Continued(c.a).id = c.a.id
      /\ Continued(c.b) \in Source /\ Continued(c.b).id = c.b.id
  BY <1>1, ContinuedFacts DEF Left
<1>5. /\ a[p].id # None /\ b[p].id # None => a[p].id # b[p].id
  BY DEF BridgeInv, SourcesWatched
<1>6. /\ a' = [a EXCEPT ![p] = sa] /\ b' = [b EXCEPT ![p] = sb]
      /\ merging' = IF merge THEN c.merging \cup {p} ELSE c.merging
      /\ mergeMode' = (c.mode \/ merge)
      /\ slots' = [slots EXCEPT ![p] = CASE merge -> Merged(p, s)
                                         [] role = "other" -> @
                                         [] OTHER -> {s}]
      /\ filled' = IF role = "other" THEN filled ELSE filled \cup {p}
      /\ dropped' = IF p \in filled' THEN dropped \ {p} ELSE dropped \cup {p}
      /\ heard' = IF role = "other" THEN heard
                  ELSE [heard EXCEPT ![p][s] = [age |-> 0, priority |-> prio]]
      /\ Synchronize(p, s, sa, sb, option)
      /\ IF synchronized' THEN Buffer(p) ELSE Output(p)
  BY DEF Accept, Marked
<1> HIDE DEF c
<1>7. sa \in Source /\ sb \in Source
  BY <1>1, <1>3, <1>4 DEF Left
<1>8. sa.id # None /\ sb.id # None => (merge \/ p \in c.merging) /\ sa.id # sb.id
  <2>1. /\ role = "first" => a[p].id = None /\ b[p].id = None
        /\ role = "a" => b[p].id = None
        /\ role = "b" => a[p].id = None
        /\ role = "newB" => a[p].id # s
        /\ role = "newA" => b[p].id # s
    BY DEF Role
  <2>2. c.a.id \in {a[p].id, None} /\ c.b.id \in {b[p].id, None}
    BY <1>1 DEF Left
  <2>3. c.a.id # None /\ c.b.id # None => p \in c.merging
    BY <1>1 DEF Left
  <2>4. CASE role \in {"first", "a", "b"}
    BY <1>3, <1>4, <2>1, <2>2, <2>4
  <2>5. CASE role \in {"newA", "newB"}
    BY <1>2, <1>3, <2>1, <2>2, <2>5
  <2>6. CASE role \in {"mergeA", "mergeB"}
    BY <1>4, <1>5, <2>2, <2>6
  <2>7. CASE role \notin {"first", "a", "b", "newA", "newB", "mergeA", "mergeB"}
    BY <1>5, <2>2, <2>3, <2>7
  <2> QED
    BY <2>4, <2>5, <2>6, <2>7
<1>9. merging' \subseteq Ports /\ merging \ {p} \subseteq merging'
  BY <1>1, <1>6 DEF Left
<1>10. a' \in [Ports -> Source] /\ b' \in [Ports -> Source] /\ SourcesWatched'
  <2>1. sa.id # None /\ sb.id # None => p \in merging' /\ sa.id # sb.id
    BY <1>6, <1>8
  <2> HIDE DEF sa, sb, merge
  <2> QED
    BY <1>6, <1>7, <1>9, <2>1, PortStep
<1>11. slots' \in [Ports -> SUBSET Stream]
  <2>1. Merged(p, s) \in SUBSET Stream
    BY <1>2 DEF Merged, BridgeInv, BridgeTypeOK, Source
  <2>2. slots \in [Ports -> SUBSET Stream]
    BY DEF BridgeInv, BridgeTypeOK
  <2> QED
    BY <1>2, <1>6, <2>1, <2>2
<1>12. heard' \in [Ports -> [Stream -> [age : 0..Oldest, priority : Level]]]
  <2>1. [age |-> 0, priority |-> prio] \in [age : 0..Oldest, priority : Level]
    BY OldestNat, LevelFacts
  <2>2. heard \in [Ports -> [Stream -> [age : 0..Oldest, priority : Level]]]
    BY DEF BridgeInv, BridgeTypeOK
  <2> QED
    BY <1>2, <1>6, <2>1, <2>2
<1>13. /\ synchronized' \in BOOLEAN /\ forced' \in BOOLEAN
       /\ {syncA', syncB'} \subseteq SyncAddresses \cup {0} /\ syncAge' \in 0..LossTimeout
  <2>1. option.address \in SyncAddresses \cup {0}
    BY AddressType
  <2>2. forced \in BOOLEAN /\ syncA \in SyncAddresses \cup {0} /\ syncB \in SyncAddresses \cup {0}
        /\ syncAge \in 0..LossTimeout
    BY DEF BridgeInv, BridgeTypeOK
  <2>3. syncA' \in SyncAddresses \cup {0} /\ syncB' \in SyncAddresses \cup {0} /\ syncAge' = syncAge
    BY <1>6, <2>1, <2>2 DEF Synchronize
  <2>4. synchronized' \in BOOLEAN /\ forced' \in BOOLEAN
    BY <1>6, <2>2, Zenon DEF Synchronize
  <2> QED
    BY <2>2, <2>3, <2>4
<1>14. /\ {transmitting, pending, filled, shown, dropped}' \subseteq SUBSET Ports
       /\ ShownOrWaiting' /\ EmptyDropped'
  <2>1. {transmitting, pending, filled, shown, dropped} \subseteq SUBSET Ports
    BY DEF BridgeInv, BridgeTypeOK
  <2>2. /\ filled' \in SUBSET Ports /\ filled \subseteq filled'
        /\ dropped' = IF p \in filled' THEN dropped \ {p} ELSE dropped \cup {p}
        /\ (Buffer(p) \/ Output(p))
    <3> HIDE DEF role
    <3> QED
      BY <1>6, <2>1
  <2>3. /\ transmitting' \in SUBSET Ports /\ dropped' \in SUBSET Ports
        /\ pending' \in SUBSET Ports /\ shown' \in SUBSET Ports
    BY <2>1, <2>2 DEF Buffer, Output
  <2>4. ShownOrWaiting'
    <3> SUFFICES ASSUME NEW q \in Ports
                 PROVE  q \in (pending' \cap filled') \cup shown' \cup dropped'
      BY DEF ShownOrWaiting
    <3>1. q \in (pending \cap filled) \cup shown \cup dropped
      BY DEF BridgeInv, ShownOrWaiting
    <3>2. CASE Buffer(p)
      BY <2>2, <3>1, <3>2 DEF Buffer
    <3>3. CASE Output(p)
      BY <2>2, <3>1, <3>3 DEF Output
    <3> QED
      BY <2>2, <3>2, <3>3
  <2>5. EmptyDropped'
    BY <2>2 DEF Buffer, Output, BridgeInv, EmptyDropped
  <2> QED
    BY <2>2, <2>3, <2>4, <2>5
<1>15. priority' \in Level /\ packetAge' \in 0..LossTimeout /\ lost' \in BOOLEAN
  BY LevelFacts, ArrivalType
<1>16. mergeMode' \in BOOLEAN
  BY <1>1, <1>6 DEF Left
<1>17. BridgeTypeOK'
  BY <1>9, <1>10, <1>11, <1>12, <1>13, <1>14, <1>15, <1>16 DEF BridgeTypeOK
<1> QED
  BY <1>10, <1>14, <1>17 DEF BridgeInv

LEMMA RefuseStep ==
    ASSUME BridgeInv, NEW p \in Ports, Arrival, Refuse(p)
    PROVE  BridgeInv'
<1> DEFINE c == Checked(p)
<1>1. Left(p, c)
  BY CheckedFacts
<1>2. a' = [a EXCEPT ![p] = c.a] /\ b' = [b EXCEPT ![p] = c.b]
      /\ merging' = c.merging /\ mergeMode' = c.mode /\ synchronized' = StillSync
      /\ UNCHANGED <<output, priority, forced, syncA, syncB, syncAge, heard>>
  BY DEF Refuse
<1> HIDE DEF c
<1>3. a[p].id # None /\ b[p].id # None => a[p].id # b[p].id
  BY DEF BridgeInv, SourcesWatched
<1>4. a' \in [Ports -> Source] /\ b' \in [Ports -> Source] /\ SourcesWatched'
  <2>1. c.a \in Source /\ c.b \in Source /\ merging' \subseteq Ports /\ merging \ {p} \subseteq merging'
    BY <1>1, <1>2 DEF Left
  <2>2. c.a.id # None /\ c.b.id # None => p \in merging' /\ c.a.id # c.b.id
    BY <1>1, <1>2, <1>3 DEF Left
  <2> QED
    BY <1>2, <2>1, <2>2, PortStep
<1>5. packetAge' \in 0..LossTimeout /\ lost' \in BOOLEAN
  BY ArrivalType
<1>6. synchronized' \in BOOLEAN /\ mergeMode' \in BOOLEAN /\ merging' \subseteq Ports
  BY <1>1, <1>2, StillSyncType DEF Left
<1>7. ShownOrWaiting' /\ EmptyDropped'
  BY <1>2 DEF output, BridgeInv, ShownOrWaiting, EmptyDropped
<1>8. BridgeTypeOK'
  BY <1>2, <1>4, <1>5, <1>6 DEF output, BridgeInv, BridgeTypeOK
<1> QED
  BY <1>4, <1>7, <1>8 DEF BridgeInv

\* The end of a stream, or of the network: sources are only forgotten, and a
\* port that keeps both stays marked.
LEMMA ForgetStep ==
    ASSUME BridgeInv, NEW fa \in SUBSET Ports, NEW fb \in SUBSET Ports,
           a' = [q \in Ports |-> IF q \in fa THEN Gone(a[q]) ELSE a[q]],
           b' = [q \in Ports |-> IF q \in fb THEN Gone(b[q]) ELSE b[q]],
           \A q \in Ports \ (fa \cup fb) : q \in merging => q \in merging'
    PROVE  a' \in [Ports -> Source] /\ b' \in [Ports -> Source] /\ SourcesWatched'
<1>1. a \in [Ports -> Source] /\ b \in [Ports -> Source]
  BY DEF BridgeInv, BridgeTypeOK
<1>2. \A q \in Ports : /\ Gone(a[q]) \in Source /\ Gone(a[q]).id = None
                       /\ Gone(b[q]) \in Source /\ Gone(b[q]).id = None
  BY <1>1, GoneFacts
<1>3. a' \in [Ports -> Source] /\ b' \in [Ports -> Source]
  BY <1>1, <1>2
<1>4. SourcesWatched'
  <2> SUFFICES ASSUME NEW q \in Ports, a'[q].id # None, b'[q].id # None
               PROVE  q \in merging' /\ a'[q].id # b'[q].id
    BY DEF SourcesWatched
  <2>1. q \notin fa \cup fb /\ a'[q] = a[q] /\ b'[q] = b[q]
    BY <1>2
  <2> QED
    BY <2>1 DEF BridgeInv, SourcesWatched
<1> QED
  BY <1>3, <1>4

LEMMA TerminatedStep ==
    ASSUME BridgeInv, NEW p \in Ports, NEW s \in Streams[p], StreamTerminated(p, s)
    PROVE  BridgeInv'
<1> DEFINE ofA == a[p].id = s
           ofB == b[p].id = s
           Dropped(q) == IF q \notin transmitting THEN {}
                         ELSE (IF ofA THEN {a[q].id} ELSE {}) \cup (IF ofB THEN {b[q].id} ELSE {})
           fa == IF ofA THEN transmitting ELSE {}
           fb == IF ofB THEN transmitting ELSE {}
<1>t. transmitting \subseteq Ports /\ merging \subseteq Ports
      /\ heard \in [Ports -> [Stream -> [age : 0..Oldest, priority : Level]]]
  BY DEF BridgeInv, BridgeTypeOK
<1>1. /\ a' = [q \in Ports |-> IF q \in transmitting /\ ofA THEN Gone(a[q]) ELSE a[q]]
      /\ b' = [q \in Ports |-> IF q \in transmitting /\ ofB THEN Gone(b[q]) ELSE b[q]]
      /\ merging' = { q \in merging : Dropped(q) \subseteq {None} }
      /\ IF mergeMode
         THEN UNCHANGED <<transmitting, filled, dropped>>
         ELSE /\ transmitting' = {} /\ filled' = filled \ transmitting
              /\ dropped' = dropped \cup (pending \cap transmitting)
      /\ heard' = [q \in Ports |-> [t \in Stream |->
                      IF t \in Dropped(q) THEN Silent ELSE heard[q][t]]]
      /\ synchronized' = StillSync /\ Arrival
      /\ UNCHANGED <<pending, slots, shown, priority, mergeMode, forced, syncA, syncB, syncAge>>
  BY DEF StreamTerminated
<1>2. /\ a' = [q \in Ports |-> IF q \in fa THEN Gone(a[q]) ELSE a[q]]
      /\ b' = [q \in Ports |-> IF q \in fb THEN Gone(b[q]) ELSE b[q]]
  BY <1>1
<1>3. \A q \in Ports \ (fa \cup fb) : q \in merging => q \in merging'
  BY <1>1
<1>4. fa \in SUBSET Ports /\ fb \in SUBSET Ports
  BY <1>t
<1>5. a' \in [Ports -> Source] /\ b' \in [Ports -> Source] /\ SourcesWatched'
  <2> HIDE DEF fa, fb
  <2> QED
    BY <1>2, <1>3, <1>4, ForgetStep
<1>6. heard' \in [Ports -> [Stream -> [age : 0..Oldest, priority : Level]]]
  BY <1>1, <1>t, SilentType
<1>7. packetAge' \in 0..LossTimeout /\ lost' \in BOOLEAN
  BY <1>1, ArrivalType
<1>8. synchronized' \in BOOLEAN /\ merging' \subseteq Ports
      /\ {transmitting, filled, dropped}' \subseteq SUBSET Ports
  <2>1. {transmitting, filled, dropped, pending} \subseteq SUBSET Ports
    BY DEF BridgeInv, BridgeTypeOK
  <2> QED
    BY <1>1, <1>t, <2>1, StillSyncType
<1>9. ShownOrWaiting' /\ EmptyDropped'
  BY <1>1 DEF BridgeInv, ShownOrWaiting, EmptyDropped
<1>10. BridgeTypeOK'
  BY <1>1, <1>5, <1>6, <1>7, <1>8 DEF BridgeInv, BridgeTypeOK
<1> QED
  BY <1>5, <1>9, <1>10 DEF BridgeInv

LEMMA LostStep ==
    ASSUME BridgeInv, NetworkLost
    PROVE  BridgeInv'
<1>1. /\ a' = [q \in Ports |-> IF q \in transmitting THEN Gone(a[q]) ELSE a[q]]
      /\ b' = [q \in Ports |-> IF q \in transmitting THEN Gone(b[q]) ELSE b[q]]
      /\ merging' = merging \ transmitting /\ transmitting' = {}
      /\ filled' = filled \ transmitting /\ dropped' = dropped \cup (pending \cap transmitting)
      /\ mergeMode' = FALSE /\ synchronized' = FALSE /\ forced' = FALSE /\ lost' = TRUE
      /\ priority' = Lowest
      /\ heard' = [p \in Ports |-> [s \in Stream |-> [heard[p][s] EXCEPT !.priority = 0]]]
      /\ UNCHANGED <<pending, slots, shown, syncA, syncB, syncAge, packetAge>>
  BY DEF NetworkLost
<1>2. a' \in [Ports -> Source] /\ b' \in [Ports -> Source] /\ SourcesWatched'
  <2>1. transmitting \in SUBSET Ports
    BY DEF BridgeInv, BridgeTypeOK
  <2>2. \A q \in Ports \ (transmitting \cup transmitting) : q \in merging => q \in merging'
    BY <1>1
  <2> QED
    BY <1>1, <2>1, <2>2, ForgetStep
<1>3. heard' \in [Ports -> [Stream -> [age : 0..Oldest, priority : Level]]] /\ priority' \in Level
  <2>1. heard \in [Ports -> [Stream -> [age : 0..Oldest, priority : Level]]]
    BY DEF BridgeInv, BridgeTypeOK
  <2>2. ASSUME NEW m \in [age : 0..Oldest, priority : Level]
        PROVE  [m EXCEPT !.priority = 0] \in [age : 0..Oldest, priority : Level]
    BY LowestLevel
  <2>3. heard' \in [Ports -> [Stream -> [age : 0..Oldest, priority : Level]]]
    BY <1>1, <2>1, <2>2
  <2> QED
    BY <1>1, <2>3, LowestLevel
<1>4. {mergeMode, synchronized, forced, lost}' \subseteq BOOLEAN
  BY <1>1, Zenon
<1>5. ShownOrWaiting' /\ EmptyDropped'
  BY <1>1 DEF BridgeInv, ShownOrWaiting, EmptyDropped
<1>6. BridgeTypeOK'
  <2>1. {merging, transmitting, pending, filled, shown, dropped}' \subseteq SUBSET Ports
    BY <1>1 DEF BridgeInv, BridgeTypeOK
  <2>2. /\ slots' \in [Ports -> SUBSET Stream]
        /\ {syncA, syncB}' \subseteq SyncAddresses \cup {0}
        /\ {syncAge, packetAge}' \subseteq 0..LossTimeout
    BY <1>1 DEF BridgeInv, BridgeTypeOK
  <2> QED
    BY <1>2, <1>3, <1>4, <2>1, <2>2 DEF BridgeTypeOK
<1> QED
  BY <1>2, <1>5, <1>6 DEF BridgeInv

LEMMA TickStep ==
    ASSUME BridgeInv, Tick
    PROVE  BridgeInv'
<1>1. /\ a' = Aged(a) /\ b' = Aged(b)
      /\ packetAge' = Longer(packetAge) /\ syncAge' = Longer(syncAge)
      /\ heard' = [p \in Ports |-> [s \in Stream |-> Later(heard[p][s])]]
      /\ UNCHANGED <<merging, output, priority, mergeMode, synchronized, forced, syncA, syncB, lost>>
  BY DEF Tick
<1>2. /\ a' \in [Ports -> Source] /\ b' \in [Ports -> Source]
      /\ \A p \in Ports : a'[p].id = a[p].id /\ b'[p].id = b[p].id
  BY <1>1, AgedFacts DEF BridgeInv, BridgeTypeOK
<1>3. heard' \in [Ports -> [Stream -> [age : 0..Oldest, priority : Level]]]
  <2>1. heard \in [Ports -> [Stream -> [age : 0..Oldest, priority : Level]]]
    BY DEF BridgeInv, BridgeTypeOK
  <2>2. ASSUME NEW h \in [age : 0..Oldest, priority : Level]
        PROVE  Later(h) \in [age : 0..Oldest, priority : Level]
    <3>1. Older(h.age) \in 0..Oldest /\ h.priority \in Level /\ 0 \in Level
      BY OlderType DEF Level
    <3> QED
      BY <3>1 DEF Later
  <2> QED
    BY <1>1, <2>1, <2>2
<1>4. {syncAge, packetAge}' \subseteq 0..LossTimeout
  BY <1>1, LongerType DEF BridgeInv, BridgeTypeOK
<1>5. SourcesWatched' /\ ShownOrWaiting' /\ EmptyDropped'
  BY <1>1, <1>2 DEF output, BridgeInv, SourcesWatched, ShownOrWaiting, EmptyDropped
<1>6. BridgeTypeOK'
  BY <1>1, <1>2, <1>3, <1>4 DEF output, BridgeInv, BridgeTypeOK
<1> QED
  BY <1>5, <1>6 DEF BridgeInv

LEMMA SyncStep ==
    ASSUME BridgeInv, NEW address, SyncPacket(address)
    PROVE  BridgeInv'
<1>1. UNCHANGED <<a, b, merging, slots, dropped, priority, mergeMode, forced, syncA, syncB, heard>>
  BY DEF SyncPacket
<1>2. packetAge' \in 0..LossTimeout /\ lost' \in BOOLEAN /\ synchronized' \in BOOLEAN
  BY ArrivalType, StillSyncType DEF SyncPacket
<1>3. /\ {transmitting, pending, filled, shown}' \subseteq SUBSET Ports /\ syncAge' \in 0..LossTimeout
      /\ ShownOrWaiting' /\ EmptyDropped'
  BY BridgeAssumption DEF SyncPacket, BridgeInv, BridgeTypeOK, ShownOrWaiting, EmptyDropped
<1>4. BridgeTypeOK'
  BY <1>1, <1>2, <1>3 DEF BridgeInv, BridgeTypeOK
<1> QED
  BY <1>1, <1>3, <1>4 DEF BridgeInv, SourcesWatched

(***************************************************************************)
(* The theorems.                                                           *)
(***************************************************************************)
\* The bridge starts without sources, every port with the slots it was given.
THEOREM BridgeInitially == Init => BridgeInv
<1> SUFFICES ASSUME Init PROVE BridgeInv
  OBVIOUS
<1>1. [id |-> None, age |-> 0] \in Source
  BY OldestNat DEF Source
<1>2. a \in [Ports -> Source] /\ b \in [Ports -> Source] /\ \A p \in Ports : a[p].id = None
  BY <1>1 DEF Init
<1>3. heard \in [Ports -> [Stream -> [age : 0..Oldest, priority : Level]]]
  BY SilentType DEF Init
<1>4. {syncAge, packetAge} \subseteq 0..LossTimeout /\ priority \in Level
  BY BridgeAssumption, LowestLevel DEF Init
<1>5. BridgeTypeOK
  BY <1>2, <1>3, <1>4 DEF Init, BridgeTypeOK
<1> QED
  BY <1>2, <1>5 DEF BridgeInv, Init, SourcesWatched, ShownOrWaiting, EmptyDropped

\* Every packet, time-out and loss keeps BridgeInv.
THEOREM BridgeStep == BridgeInv /\ [Next]_vars => BridgeInv'
<1> SUFFICES ASSUME BridgeInv, [Next]_vars PROVE BridgeInv'
  OBVIOUS
<1>1. ASSUME NEW p \in Ports, AnyDmxPacket(p) PROVE BridgeInv'
  <2>1. PICK s \in Streams[p], prio \in Priorities[p], option \in Option :
            DmxPacket(p, s, prio, option)
    BY <1>1 DEF AnyDmxPacket
  <2> QED
    BY <2>1, AcceptStep, RefuseStep DEF DmxPacket
<1>2. ASSUME NEW p \in Ports, NEW s \in Streams[p], StreamTerminated(p, s) PROVE BridgeInv'
  BY <1>2, TerminatedStep
<1>3. ASSUME NEW address \in SyncAddresses, SyncPacket(address) PROVE BridgeInv'
  BY <1>3, SyncStep
<1>4. CASE Ignored
  <2>1. packetAge' \in 0..LossTimeout /\ lost' \in BOOLEAN /\ synchronized' \in BOOLEAN
    BY <1>4, ArrivalType, StillSyncType DEF Ignored
  <2> QED
    BY <1>4, <2>1 DEF Ignored, output, BridgeInv, BridgeTypeOK, SourcesWatched, ShownOrWaiting, EmptyDropped
<1>5. CASE NetworkLost
  BY <1>5, LostStep
<1>6. CASE Tick
  BY <1>6, TickStep
<1>7. CASE UNCHANGED vars
  BY <1>7 DEF vars, output, sync, BridgeInv, BridgeTypeOK, SourcesWatched, ShownOrWaiting, EmptyDropped
<1> QED
  BY <1>1, <1>2, <1>3, <1>4, <1>5, <1>6, <1>7 DEF Next

LEMMA BridgeSafe == Spec => []BridgeInv
BY BridgeInitially, BridgeStep, PTL DEF Spec

\* The variables keep their types, for every set of ports, senders, priorities
\* and time-outs.
THEOREM BridgeTypeCorrect == Spec => []BridgeTypeOK
<1>1. BridgeInv => BridgeTypeOK
  BY DEF BridgeInv
<1> QED
  BY BridgeSafe, <1>1, PTL

\* A port with two sources merges two different streams and is marked, although
\* HandleDmx() tells its nine cases apart by what the sources were before the
\* time-outs and the priority forgot them.
THEOREM SourcesAlwaysWatched == Spec => []SourcesWatched
<1>1. BridgeInv => SourcesWatched
  BY DEF BridgeInv
<1> QED
  BY BridgeSafe, <1>1, PTL

\* The slots a port took last are with the transmitter or wait, with their length,
\* for a synchronisation packet, unless a stream or the network ended while they
\* waited, or a third stream's packet was taken for theirs without a length.
THEOREM AlwaysShownOrWaiting == Spec => []ShownOrWaiting
<1>1. BridgeInv => ShownOrWaiting
  BY DEF BridgeInv
<1> QED
  BY BridgeSafe, <1>1, PTL

(***************************************************************************)
(* PriorityKept.  For port p with what is heard of its streams in h, its   *)
(* sources in x and y, and the priority of the bridge in prio: a source is *)
(* at least as young as its stream was heard, every stream was heard with  *)
(* a priority of the port or with none, and no source heard within the     *)
(* time-out has a higher one than the bridge.  The last holds only of a    *)
(* port on whose account another one cannot lower the priority they all    *)
(* share.                                                                  *)
(***************************************************************************)
Young(h, source) == source.id # None => source.age <= h[source.id].age

FromPort(p, h) ==
    \A t \in Stream : h[t].age < PriorityTimeout => h[t].priority \in Priorities[p] \cup {0}

Below(h, source, prio) ==
    source.id # None /\ h[source.id].age < PriorityTimeout => h[source.id].priority <= prio

\* No other port accepts packets of a priority below one of p's.
Lowermost(p) == \A q \in Ports \ {p} : \A m \in Priorities[p], n \in Priorities[q] : m <= n

\* The packets to p are all of one priority.
OnePriority(p) == \A m, n \in Priorities[p] : m = n

PortKept(p, h, x, y, prio) ==
    /\ Young(h, x) /\ Young(h, y) /\ FromPort(p, h)
    /\ Lowermost(p) => Below(h, x, prio) /\ Below(h, y, prio)

KeptInv == \A p \in Ports : PortKept(p, heard[p], a[p], b[p], priority)

PrioritiesApart ==
    /\ PriorityTimeout <= MergeTimeout + 1
    /\ \A p \in Ports : Lowermost(p) \/ OnePriority(p)

Heard == [age : 0..Oldest, priority : Level]

LEMMA OldestBounds ==
    Oldest \in Nat /\ MergeTimeout + 1 <= Oldest /\ PriorityTimeout + 1 <= Oldest
<1> DEFINE S == {MergeTimeout + 1, PriorityTimeout + 1, LossTimeout}
<1>1. S \subseteq Nat
  BY BridgeAssumption
<1>2. \E n \in S : \A m \in S : m <= n
  BY BridgeAssumption
<1>3. Oldest \in S /\ \A m \in S : m <= Oldest
  BY <1>2 DEF Oldest
<1> QED
  BY <1>1, <1>3

LEMMA LevelNat == Level \subseteq Nat
<1>1. UNION { Priorities[p] : p \in Ports } \subseteq Nat
  BY BridgeAssumption
<1> QED
  BY <1>1 DEF Level, Lowest

LEMMA OlderFacts ==
    /\ \A m, n \in 0..Oldest : m <= n => Older(m) <= Older(n)
    /\ \A m \in 0..Oldest : m <= Older(m) /\ Older(m) # 0
BY OldestBounds, BridgeAssumption DEF Older

\* What BridgeInv says of the port.
LEMMA PortTypes ==
    ASSUME BridgeInv, NEW p \in Ports
    PROVE  /\ a[p] \in Source /\ b[p] \in Source /\ heard[p] \in [Stream -> Heard]
           /\ priority \in Level
BY DEF BridgeInv, BridgeTypeOK, Heard

LEMMA SilentFacts == Silent \in Heard /\ Silent.age = Oldest
BY SilentType DEF Silent, Heard

(***************************************************************************)
(* A source that is kept or forgotten while streams keep what was heard of *)
(* them or fall silent.                                                    *)
(***************************************************************************)
Quieter(h, g) == \A t \in Stream : g[t] = h[t] \/ g[t] = Silent

LEMMA QuieterSource ==
    ASSUME NEW h \in [Stream -> Heard], NEW g \in [Stream -> Heard], Quieter(h, g),
           NEW x \in Source, NEW z \in Source, z.id = None \/ z = x
    PROVE  /\ Young(h, x) => Young(g, z)
           /\ \A prio : Below(h, x, prio) => Below(g, z, prio)
<1>1. CASE z.id = None
  BY <1>1 DEF Young, Below
<1>2. CASE z.id # None
  <2>1. z = x /\ x.id \in Stream /\ x.age \in 0..Oldest
    BY <1>2 DEF Source
  <2>2. CASE g[x.id] = h[x.id]
    BY <1>2, <2>1, <2>2 DEF Young, Below
  <2>3. CASE g[x.id] = Silent
    <3>1. g[x.id].age = Oldest
      BY <2>3, SilentFacts
    <3>2. x.age <= g[x.id].age /\ ~(g[x.id].age < PriorityTimeout)
      BY <2>1, <3>1, OldestBounds, BridgeAssumption
    <3> QED
      BY <2>1, <3>2 DEF Young, Below
  <2> QED
    BY <2>1, <2>2, <2>3 DEF Quieter
<1> QED
  BY <1>1, <1>2

LEMMA QuieterPort ==
    ASSUME NEW p \in Ports, NEW prio, NEW h \in [Stream -> Heard], NEW g \in [Stream -> Heard],
           Quieter(h, g), NEW x \in Source, NEW y \in Source, NEW x2 \in Source, NEW y2 \in Source,
           x2.id = None \/ x2 = x, y2.id = None \/ y2 = y, PortKept(p, h, x, y, prio)
    PROVE  PortKept(p, g, x2, y2, prio)
<1>1. Young(g, x2) /\ Young(g, y2)
  BY QuieterSource DEF PortKept
<1>2. Lowermost(p) => Below(g, x2, prio) /\ Below(g, y2, prio)
  BY QuieterSource DEF PortKept
<1>3. FromPort(p, g)
  <2> SUFFICES ASSUME NEW t \in Stream, g[t].age < PriorityTimeout
               PROVE  g[t].priority \in Priorities[p] \cup {0}
    BY DEF FromPort
  <2>1. g[t] # Silent
    BY SilentFacts, OldestBounds, BridgeAssumption
  <2> QED
    BY <2>1 DEF Quieter, PortKept, FromPort
<1> QED
  BY <1>1, <1>2, <1>3 DEF PortKept

\* Nothing but silence: whatever the sources and the priority are.
LEMMA AllSilent ==
    ASSUME NEW p \in Ports, NEW prio, NEW g \in [Stream -> Heard], \A t \in Stream : g[t] = Silent,
           NEW x \in Source, NEW y \in Source
    PROVE  PortKept(p, g, x, y, prio)
<1>1. \A t \in Stream : g[t].age = Oldest /\ ~(g[t].age < PriorityTimeout)
  BY SilentFacts, OldestBounds, BridgeAssumption
<1>2. ASSUME NEW z \in Source PROVE Young(g, z) /\ Below(g, z, prio)
  <2>1. z.id # None => z.id \in Stream /\ z.age <= Oldest
    BY OldestBounds DEF Source
  <2> QED
    BY <1>1, <2>1 DEF Young, Below
<1> QED
  BY <1>1, <1>2 DEF PortKept, FromPort

(***************************************************************************)
(* Time passes for sources and streams alike.                              *)
(***************************************************************************)
LEMMA LaterFacts ==
    ASSUME NEW m \in Heard
    PROVE  /\ Later(m) \in Heard /\ Later(m).age = Older(m.age)
           /\ Later(m).age < PriorityTimeout => m.age < PriorityTimeout /\ Later(m).priority = m.priority
<1>1. m.age \in 0..Oldest /\ Older(m.age) \in 0..Oldest /\ m.age <= Older(m.age)
  BY OlderType, OlderFacts DEF Heard
<1>2. m.priority \in Level /\ 0 \in Level
  BY DEF Heard, Level
<1>3. Later(m) \in Heard /\ Later(m).age = Older(m.age)
  BY <1>1, <1>2 DEF Later, Heard
<1>4. Later(m).age < PriorityTimeout => Later(m).priority = m.priority
  BY <1>3 DEF Later
<1>5. Older(m.age) < PriorityTimeout => m.age < PriorityTimeout
  BY <1>1, BridgeAssumption
<1> QED
  BY <1>3, <1>4, <1>5

LEMMA LaterSource ==
    ASSUME NEW h \in [Stream -> Heard], NEW g \in [Stream -> Heard],
           \A t \in Stream : g[t] = Later(h[t]),
           NEW x \in Source, NEW z \in Source, z.id = x.id, z.age = Older(x.age), NEW prio
    PROVE  /\ Young(h, x) => Young(g, z)
           /\ Below(h, x, prio) => Below(g, z, prio)
<1>1. CASE x.id = None
  BY <1>1 DEF Young, Below
<1>2. CASE x.id # None
  <2>1. x.id \in Stream /\ x.age \in 0..Oldest /\ h[x.id] \in Heard /\ h[x.id].age \in 0..Oldest
    BY <1>2 DEF Source, Heard
  <2>2. /\ g[x.id].age = Older(h[x.id].age)
        /\ g[x.id].age < PriorityTimeout =>
              h[x.id].age < PriorityTimeout /\ g[x.id].priority = h[x.id].priority
    BY <2>1, LaterFacts
  <2>3. Young(h, x) => Young(g, z)
    <3>1. x.age <= h[x.id].age => Older(x.age) <= Older(h[x.id].age)
      BY <2>1, OlderFacts
    <3> QED
      BY <1>2, <2>2, <3>1 DEF Young
  <2>4. Below(h, x, prio) => Below(g, z, prio)
    BY <1>2, <2>2 DEF Below
  <2> QED
    BY <2>3, <2>4
<1> QED
  BY <1>1, <1>2

LEMMA TickKept ==
    ASSUME BridgeInv, BridgeInv', KeptInv, Tick
    PROVE  KeptInv'
<1> SUFFICES ASSUME NEW p \in Ports PROVE PortKept(p, heard[p], a[p], b[p], priority)'
  BY DEF KeptInv
<1>1. /\ a' = Aged(a) /\ b' = Aged(b) /\ priority' = priority
      /\ heard' = [q \in Ports |-> [s \in Stream |-> Later(heard[q][s])]]
  BY DEF Tick
<1>2. /\ a[p] \in Source /\ b[p] \in Source /\ heard[p] \in [Stream -> Heard]
      /\ a'[p] \in Source /\ b'[p] \in Source /\ heard'[p] \in [Stream -> Heard]
  BY PortTypes DEF BridgeInv, BridgeTypeOK, Heard
<1>3. \A s \in Stream : heard'[p][s] = Later(heard[p][s])
  BY <1>1
<1>4. /\ a'[p].id = a[p].id /\ a'[p].age = Older(a[p].age)
      /\ b'[p].id = b[p].id /\ b'[p].age = Older(b[p].age)
  BY <1>1, <1>2 DEF Aged, Source
<1>5. PortKept(p, heard[p], a[p], b[p], priority)
  BY DEF KeptInv
<1>6. Young(heard'[p], a'[p]) /\ Young(heard'[p], b'[p])
  BY <1>2, <1>3, <1>4, <1>5, LaterSource DEF PortKept
<1>7. Lowermost(p) => Below(heard'[p], a'[p], priority) /\ Below(heard'[p], b'[p], priority)
  BY <1>2, <1>3, <1>4, <1>5, LaterSource DEF PortKept
<1>8. FromPort(p, heard'[p])
  <2> SUFFICES ASSUME NEW t \in Stream, heard'[p][t].age < PriorityTimeout
               PROVE  heard'[p][t].priority \in Priorities[p] \cup {0}
    BY DEF FromPort
  <2>1. heard[p][t] \in Heard /\ heard'[p][t] = Later(heard[p][t])
    BY <1>2, <1>3
  <2>2. heard[p][t].age < PriorityTimeout /\ heard'[p][t].priority = heard[p][t].priority
    BY <2>1, LaterFacts
  <2> QED
    BY <1>5, <2>2 DEF PortKept, FromPort
<1> QED
  BY <1>1, <1>6, <1>7, <1>8 DEF PortKept

(***************************************************************************)
(* The ends of streams and of the network, and a packet that is refused.   *)
(***************************************************************************)
LEMMA QuietKept ==
    ASSUME BridgeInv, BridgeInv', KeptInv, priority' = priority,
           \A q \in Ports : /\ a'[q].id = None \/ a'[q] = a[q]
                            /\ b'[q].id = None \/ b'[q] = b[q]
                            /\ Quieter(heard[q], heard'[q])
    PROVE  KeptInv'
<1> SUFFICES ASSUME NEW p \in Ports PROVE PortKept(p, heard[p], a[p], b[p], priority)'
  BY DEF KeptInv
<1>1. /\ a[p] \in Source /\ b[p] \in Source /\ heard[p] \in [Stream -> Heard]
      /\ a'[p] \in Source /\ b'[p] \in Source /\ heard'[p] \in [Stream -> Heard]
  BY PortTypes DEF BridgeInv, BridgeTypeOK, Heard
<1>2. PortKept(p, heard[p], a[p], b[p], priority)
  BY DEF KeptInv
<1>3. PortKept(p, heard'[p], a'[p], b'[p], priority)
  BY <1>1, <1>2, QuieterPort
<1> QED
  BY <1>3

LEMMA TerminatedKept ==
    ASSUME BridgeInv, BridgeInv', KeptInv, NEW p \in Ports, NEW s \in Streams[p],
           StreamTerminated(p, s)
    PROVE  KeptInv'
<1> DEFINE Dropped(q) == IF q \notin transmitting THEN {}
                         ELSE (IF a[p].id = s THEN {a[q].id} ELSE {})
                              \cup (IF b[p].id = s THEN {b[q].id} ELSE {})
<1>1. /\ a' = [q \in Ports |-> IF q \in transmitting /\ a[p].id = s THEN Gone(a[q]) ELSE a[q]]
      /\ b' = [q \in Ports |-> IF q \in transmitting /\ b[p].id = s THEN Gone(b[q]) ELSE b[q]]
      /\ heard' = [q \in Ports |-> [t \in Stream |->
                      IF t \in Dropped(q) THEN Silent ELSE heard[q][t]]]
      /\ priority' = priority
  BY DEF StreamTerminated
<1> HIDE DEF Dropped
<1> SUFFICES ASSUME NEW q \in Ports
             PROVE  /\ a'[q].id = None \/ a'[q] = a[q]
                    /\ b'[q].id = None \/ b'[q] = b[q]
                    /\ Quieter(heard[q], heard'[q])
  BY <1>1, QuietKept
<1>2. Gone(a[q]).id = None /\ Gone(b[q]).id = None
  BY PortTypes, GoneFacts
<1>3. Quieter(heard[q], heard'[q])
  BY <1>1 DEF Quieter
<1> QED
  BY <1>1, <1>2, <1>3

LEMMA RefuseKept ==
    ASSUME BridgeInv, BridgeInv', KeptInv, NEW p \in Ports, Refuse(p)
    PROVE  KeptInv'
<1>1. /\ a' = [a EXCEPT ![p] = Checked(p).a] /\ b' = [b EXCEPT ![p] = Checked(p).b]
      /\ UNCHANGED <<priority, heard>>
  BY DEF Refuse
<1>2. /\ Checked(p).a.id = None \/ Checked(p).a = a[p]
      /\ Checked(p).b.id = None \/ Checked(p).b = b[p]
  BY PortTypes, ExpiredFacts DEF Checked
<1> SUFFICES ASSUME NEW q \in Ports
             PROVE  /\ a'[q].id = None \/ a'[q] = a[q]
                    /\ b'[q].id = None \/ b'[q] = b[q]
                    /\ Quieter(heard[q], heard'[q])
  BY <1>1, QuietKept
<1>3. Quieter(heard[q], heard'[q])
  BY <1>1 DEF Quieter
<1>4. a \in [Ports -> Source] /\ b \in [Ports -> Source]
  BY DEF BridgeInv, BridgeTypeOK
<1> QED
  BY <1>1, <1>2, <1>3, <1>4

\* Nobody is outranked by what was heard before the network was lost.
LEMMA LostKept ==
    ASSUME BridgeInv, BridgeInv', KeptInv, NetworkLost
    PROVE  KeptInv'
<1> SUFFICES ASSUME NEW p \in Ports PROVE PortKept(p, heard[p], a[p], b[p], priority)'
  BY DEF KeptInv
<1> DEFINE h == heard[p]
           g == heard'[p]
<1>1. /\ a[p] \in Source /\ b[p] \in Source /\ h \in [Stream -> Heard]
      /\ a'[p] \in Source /\ b'[p] \in Source /\ g \in [Stream -> Heard]
  BY DEF BridgeInv, BridgeTypeOK, Heard
<1>2. \A t \in Stream : g[t] = [h[t] EXCEPT !.priority = 0]
  BY DEF NetworkLost
<1>3. \A t \in Stream : g[t].age = h[t].age /\ g[t].priority = 0
  <2> SUFFICES ASSUME NEW t \in Stream PROVE g[t].age = h[t].age /\ g[t].priority = 0
    OBVIOUS
  <2>1. h[t] \in Heard
    BY <1>1
  <2> HIDE DEF h, g
  <2> QED
    BY <1>2, <2>1 DEF Heard
<1>4. /\ a'[p] = a[p] \/ a'[p].id = None
      /\ b'[p] = b[p] \/ b'[p].id = None
      /\ priority' = Lowest
  BY <1>1, GoneFacts DEF NetworkLost
<1>5. PortKept(p, h, a[p], b[p], priority)
  BY DEF KeptInv
<1> HIDE DEF h, g
<1>6. Young(g, a'[p]) /\ Young(g, b'[p])
  BY <1>1, <1>3, <1>4, <1>5 DEF PortKept, Young, Source
<1>7. Below(g, a'[p], Lowest) /\ Below(g, b'[p], Lowest)
  BY <1>1, <1>3 DEF Below, Source, Lowest
<1>8. FromPort(p, g)
  BY <1>3 DEF FromPort
<1>9. PortKept(p, g, a'[p], b'[p], Lowest)
  BY <1>6, <1>7, <1>8 DEF PortKept
<1> QED
  BY <1>4, <1>9 DEF g

(***************************************************************************)
(* A packet that is accepted.                                              *)
(***************************************************************************)
LEMMA HeardFacts ==
    ASSUME NEW m \in Heard
    PROVE  m.age \in Nat /\ m.priority \in Nat
<1>1. m.age \in 0..Oldest /\ m.priority \in Level
  BY DEF Heard
<1>2. m.priority \in Nat
  BY <1>1, LevelNat
<1>3. m.age \in Nat
  BY <1>1
<1> QED
  BY <1>2, <1>3

\* What the time-outs and the priority leave of port p are its sources or none,
\* and a packet of lower priority leaves only sources that were not heard
\* within the time-out.
LEMMA RankedSources ==
    ASSUME BridgeInv, KeptInv, NEW p \in Ports, NEW prio \in Priorities[p], ~Refused(p, prio)
    PROVE  /\ Ranked(Checked(p), prio).a.id = None \/ Ranked(Checked(p), prio).a = a[p]
           /\ Ranked(Checked(p), prio).b.id = None \/ Ranked(Checked(p), prio).b = b[p]
           /\ Lowermost(p) => /\ Below(heard[p], Ranked(Checked(p), prio).a, prio)
                              /\ Below(heard[p], Ranked(Checked(p), prio).b, prio)
<1> DEFINE c == Checked(p)
           r == Ranked(c, prio)
<1>1. /\ a[p] \in Source /\ b[p] \in Source /\ heard[p] \in [Stream -> Heard]
      /\ priority \in Nat /\ prio \in Nat
  BY PortTypes, LevelNat, LevelFacts
<1>2. /\ c.a.id = None \/ c.a = a[p]
      /\ c.b.id = None \/ c.b = b[p]
      /\ c.a \in Source /\ c.b \in Source
  BY <1>1, ExpiredFacts DEF Checked
<1>3. PortKept(p, heard[p], a[p], b[p], priority)
  BY DEF KeptInv
<1>4. c = [a |-> c.a, b |-> c.b, merging |-> c.merging, mode |-> c.mode]
  BY CheckedRecord
<1>5. prio < priority => PriorityTimedOut(c)
  BY DEF Refused
<1> HIDE DEF c
<1>6. CASE prio > priority
  <2>1. r = [c EXCEPT !.a = Gone(c.a), !.b = Gone(c.b), !.mode = FALSE]
    BY <1>6 DEF Ranked
  <2>2. r.a = Gone(c.a) /\ r.b = Gone(c.b)
    BY <1>4, <2>1
  <2>3. r.a.id = None /\ r.b.id = None
    BY <1>2, <2>2, GoneFacts
  <2> QED
    BY <2>3 DEF c, Below
<1>7. CASE ~(prio > priority)
  <2>1. r = c
    BY <1>7 DEF Ranked
  <2>2. ASSUME NEW x \in Source, NEW z \in {a[p], b[p]}, x.id = None \/ x = z,
               prio < priority => (x.id # None => x.age >= PriorityTimeout),
               Lowermost(p)
        PROVE  Below(heard[p], x, prio)
    <3> SUFFICES ASSUME x.id # None, heard[p][x.id].age < PriorityTimeout
                 PROVE  heard[p][x.id].priority <= prio
      BY DEF Below
    <3>1. x.id \in Stream /\ x.age \in Nat /\ heard[p][x.id] \in Heard
      BY <1>1 DEF Source
    <3>2. heard[p][x.id].age \in Nat /\ heard[p][x.id].priority \in Nat
      BY <3>1, HeardFacts
    <3>3. x.age <= heard[p][x.id].age
      BY <1>3, <2>2 DEF PortKept, Young
    <3>4. heard[p][x.id].priority <= priority
      BY <1>3, <2>2 DEF PortKept, Below
    <3>5. ~(prio < priority)
      BY <2>2, <3>1, <3>2, <3>3, BridgeAssumption
    <3> QED
      BY <1>1, <3>2, <3>4, <3>5
  <2>3. prio < priority => /\ c.a.id # None => c.a.age >= PriorityTimeout
                           /\ c.b.id # None => c.b.age >= PriorityTimeout
    <3>1. c.a.age \in Nat /\ c.b.age \in Nat
      BY <1>2 DEF Source
    <3> QED
      BY <1>5, <3>1, BridgeAssumption DEF PriorityTimedOut
  <2>4. Lowermost(p) => Below(heard[p], c.a, prio)
    BY <1>2, <2>2, <2>3
  <2>5. Lowermost(p) => Below(heard[p], c.b, prio)
    BY <1>2, <2>2, <2>3
  <2> QED
    BY <1>2, <2>1, <2>4, <2>5 DEF c
<1> QED
  BY <1>1, <1>6, <1>7

LEMMA AcceptKept ==
    ASSUME BridgeInv, BridgeInv', KeptInv, NEW p \in Ports, NEW s \in Streams[p],
           NEW prio \in Priorities[p], NEW option \in Option,
           ~Refused(p, prio), priority' = prio, Accept(p, s, prio, option)
    PROVE  KeptInv'
<1> DEFINE c == Ranked(Checked(p), prio)
           role == Role(p, s)
           sa == CASE role \in {"first", "newA"} -> Taken(s)
                   [] role \in {"a", "mergeA"} -> Continued(c.a)
                   [] OTHER -> c.a
           sb == CASE role = "newB" -> Taken(s)
                   [] role \in {"b", "mergeB"} -> Continued(c.b)
                   [] OTHER -> c.b
<1>1. /\ a' = [a EXCEPT ![p] = sa] /\ b' = [b EXCEPT ![p] = sb]
      /\ heard' = IF role = "other" THEN heard
                  ELSE [heard EXCEPT ![p][s] = [age |-> 0, priority |-> prio]]
  BY DEF Accept
<1>2. /\ c.a.id = None \/ c.a = a[p]
      /\ c.b.id = None \/ c.b = b[p]
      /\ Lowermost(p) => Below(heard[p], c.a, prio) /\ Below(heard[p], c.b, prio)
  BY RankedSources
<1>3. s \in Stream /\ s # None
  BY StreamFacts
<1>4. Left(p, c)
  BY CheckedFacts, RankedFacts, CheckedRecord
<1>5. role = Role(p, s)
  OBVIOUS
<1> HIDE DEF c, role
<1>6. a \in [Ports -> Source] /\ b \in [Ports -> Source] /\ heard \in [Ports -> [Stream -> Heard]]
  BY DEF BridgeInv, BridgeTypeOK, Heard
<1>7. ASSUME NEW q \in Ports PROVE PortKept(q, heard[q], a[q], b[q], priority)
  BY DEF KeptInv
<1>8. a'[p] \in Source /\ b'[p] \in Source /\ heard'[p] \in [Stream -> Heard]
  BY DEF BridgeInv, BridgeTypeOK, Heard
<1>9. a'[p] = sa /\ b'[p] = sb
  BY <1>1, <1>6
<1>10. PortKept(p, heard'[p], a'[p], b'[p], prio)
  <2>1. CASE role = "other"
    <3>1. sa = c.a /\ sb = c.b /\ heard' = heard
      BY <1>1, <2>1
    <3>2. Young(heard[p], a'[p]) /\ Young(heard[p], b'[p])
      BY <1>2, <1>7, <1>9, <3>1 DEF PortKept, Young
    <3> QED
      BY <1>2, <1>7, <1>9, <3>1, <3>2 DEF PortKept
  <2>2. CASE role # "other"
    <3>1. heard'[p] = [heard[p] EXCEPT ![s] = [age |-> 0, priority |-> prio]]
      BY <1>1, <1>6, <2>2
    <3>2. /\ role \in {"a", "mergeA"} => a[p].id = s
          /\ role \in {"b", "mergeB"} => b[p].id = s
          /\ role \in {"b", "newB", "mergeB"} => a[p].id # s
          /\ role \in {"first", "a", "newA", "mergeA"} => b[p].id # s
          /\ role \in {"first", "a", "b", "newA", "newB", "mergeA", "mergeB", "other"}
      BY <1>3, <1>5 DEF Role
    <3>3. /\ Continued(c.a).id = c.a.id /\ Continued(c.a).age = 0
          /\ Continued(c.b).id = c.b.id /\ Continued(c.b).age = 0
          /\ Taken(s).id = s /\ Taken(s).age = 0
      BY <1>4 DEF Left, Continued, Taken, Source
    <3>4. \/ sa.id = None
          \/ sa.id = s /\ sa.age = 0
          \/ sa = a[p] /\ sa.id # s
      <4>1. CASE role \in {"first", "newA"}
        BY <3>3, <4>1
      <4>2. CASE role \in {"a", "mergeA"}
        BY <1>2, <3>2, <3>3, <4>2
      <4>3. CASE role \in {"b", "newB", "mergeB"}
        BY <1>2, <3>2, <4>3
      <4> QED
        BY <2>2, <3>2, <4>1, <4>2, <4>3
    <3>5. \/ sb.id = None
          \/ sb.id = s /\ sb.age = 0
          \/ sb = b[p] /\ sb.id # s
      <4>1. CASE role = "newB"
        BY <3>3, <4>1
      <4>2. CASE role \in {"b", "mergeB"}
        BY <1>2, <3>2, <3>3, <4>2
      <4>3. CASE role \in {"first", "a", "newA", "mergeA"}
        BY <1>2, <3>2, <4>3
      <4> QED
        BY <2>2, <3>2, <4>1, <4>2, <4>3
    <3>6. /\ sa = a[p] /\ sa.id # s => sa = c.a \/ sa.id = None
          /\ sb = b[p] /\ sb.id # s => sb = c.b \/ sb.id = None
      BY <1>2, <3>2, <3>3
    <3> HIDE DEF sa, sb
    <3>7. Young(heard'[p], a'[p]) /\ (Lowermost(p) => Below(heard'[p], a'[p], prio))
      <4>1. CASE sa.id = None
        BY <1>9, <4>1 DEF Young, Below
      <4>2. CASE sa.id # None
        <5>1. sa = a[p] /\ sa.id # s => (Lowermost(p) => Below(heard[p], a[p], prio))
          BY <1>2, <3>6, <4>2
        <5>2. Young(heard[p], a[p])
          BY <1>7 DEF PortKept
        <5>3. CASE sa.id = s /\ sa.age = 0
          BY <1>3, <1>6, <1>8, <1>9, <3>1, <5>3, BridgeAssumption DEF Young, Below
        <5>4. CASE sa = a[p] /\ sa.id # s
          <6>1. a[p].id \in Stream /\ a[p].id # s
            BY <1>6, <4>2, <5>4 DEF Source
          <6>2. heard'[p][a[p].id] = heard[p][a[p].id]
            BY <1>6, <3>1, <6>1
          <6> QED
            BY <1>9, <5>1, <5>2, <5>4, <6>2 DEF Young, Below
        <5> QED
          BY <3>4, <4>2, <5>3, <5>4
      <4> QED
        BY <4>1, <4>2
    <3>8. Young(heard'[p], b'[p]) /\ (Lowermost(p) => Below(heard'[p], b'[p], prio))
      <4>1. CASE sb.id = None
        BY <1>9, <4>1 DEF Young, Below
      <4>2. CASE sb.id # None
        <5>1. sb = b[p] /\ sb.id # s => (Lowermost(p) => Below(heard[p], b[p], prio))
          BY <1>2, <3>6, <4>2
        <5>2. Young(heard[p], b[p])
          BY <1>7 DEF PortKept
        <5>3. CASE sb.id = s /\ sb.age = 0
          BY <1>3, <1>6, <1>8, <1>9, <3>1, <5>3, BridgeAssumption DEF Young, Below
        <5>4. CASE sb = b[p] /\ sb.id # s
          <6>1. b[p].id \in Stream /\ b[p].id # s
            BY <1>6, <4>2, <5>4 DEF Source
          <6>2. heard'[p][b[p].id] = heard[p][b[p].id]
            BY <1>6, <3>1, <6>1
          <6> QED
            BY <1>9, <5>1, <5>2, <5>4, <6>2 DEF Young, Below
        <5> QED
          BY <3>5, <4>2, <5>3, <5>4
      <4> QED
        BY <4>1, <4>2
    <3>9. FromPort(p, heard'[p])
      BY <1>3, <1>6, <1>7, <3>1 DEF PortKept, FromPort
    <3> QED
      BY <3>7, <3>8, <3>9 DEF PortKept
  <2> QED
    BY <2>1, <2>2
<1>11. ASSUME NEW q \in Ports \ {p}
       PROVE  PortKept(q, heard'[q], a'[q], b'[q], prio)
  <2>1. a'[q] = a[q] /\ b'[q] = b[q] /\ heard'[q] = heard[q]
    BY <1>1, <1>6
  <2>2. Young(heard[q], a[q]) /\ Young(heard[q], b[q]) /\ FromPort(q, heard[q])
    BY <1>7 DEF PortKept
  <2>3. ASSUME NEW z \in Source, Lowermost(q) PROVE Below(heard[q], z, prio)
    BY <2>2, <2>3, BridgeAssumption DEF FromPort, Lowermost, Below, Source
  <2> QED
    BY <1>6, <2>1, <2>2, <2>3 DEF PortKept
<1> QED
  BY <1>10, <1>11 DEF KeptInv

(***************************************************************************)
(* The theorems about priorities.                                          *)
(***************************************************************************)
LEMMA KeptInitially == Init /\ BridgeInv => KeptInv
<1> SUFFICES ASSUME Init, BridgeInv, NEW p \in Ports
             PROVE  PortKept(p, heard[p], a[p], b[p], priority)
  BY DEF KeptInv
<1>1. \A t \in Stream : heard[p][t] = Silent
  BY DEF Init
<1> QED
  BY <1>1, PortTypes, AllSilent

LEMMA KeptStep == BridgeInv /\ BridgeInv' /\ KeptInv /\ [Next]_vars => KeptInv'
<1> SUFFICES ASSUME BridgeInv, BridgeInv', KeptInv, [Next]_vars PROVE KeptInv'
  OBVIOUS
<1>1. ASSUME NEW p \in Ports, AnyDmxPacket(p) PROVE KeptInv'
  <2>1. PICK s \in Streams[p], prio \in Priorities[p], option \in Option :
            DmxPacket(p, s, prio, option)
    BY <1>1 DEF AnyDmxPacket
  <2> QED
    BY <2>1, AcceptKept, RefuseKept DEF DmxPacket
<1>2. ASSUME NEW p \in Ports, NEW s \in Streams[p], StreamTerminated(p, s) PROVE KeptInv'
  BY <1>2, TerminatedKept
<1>3. CASE UNCHANGED <<a, b, heard, priority>>
  BY <1>3 DEF KeptInv
<1>4. ASSUME NEW address \in SyncAddresses, SyncPacket(address) PROVE KeptInv'
  BY <1>3, <1>4 DEF SyncPacket
<1>5. CASE Ignored
  BY <1>3, <1>5 DEF Ignored
<1>6. CASE NetworkLost
  BY <1>6, LostKept
<1>7. CASE Tick
  BY <1>7, TickKept
<1>8. CASE UNCHANGED vars
  BY <1>3, <1>8 DEF vars
<1> QED
  BY <1>1, <1>2, <1>4, <1>5, <1>6, <1>7, <1>8 DEF Next

\* What PriorityKept says of one stream of one port in one step.
Respected(p, s) ==
    heard'[p][s].age = 0 /\ heard'[p][s] # heard[p][s] =>
       \A t \in {a[p].id, b[p].id} \ {s, None} :
          heard[p][t].age < PriorityTimeout => heard[p][t].priority <= heard'[p][s].priority

\* A packet is accepted: either it is not of lower priority than the bridge, or
\* every source of the port timed out.
LEMMA AcceptRespects ==
    ASSUME BridgeInv, KeptInv, PrioritiesApart, NEW p \in Ports, NEW s \in Streams[p],
           NEW prio \in Priorities[p], NEW option \in Option,
           ~Refused(p, prio), Accept(p, s, prio, option),
           NEW q \in Ports, NEW r \in Streams[q]
    PROVE  Respected(q, r)
<1> SUFFICES ASSUME heard'[q][r].age = 0, heard'[q][r] # heard[q][r],
                    NEW t \in {a[q].id, b[q].id} \ {r, None},
                    heard[q][t].age < PriorityTimeout
             PROVE  heard[q][t].priority <= heard'[q][r].priority
  BY DEF Respected
<1>1. /\ a[p] \in Source /\ b[p] \in Source /\ heard \in [Ports -> [Stream -> Heard]]
      /\ priority \in Nat /\ prio \in Nat
  BY PortTypes, LevelNat, LevelFacts DEF BridgeInv, BridgeTypeOK, Heard
<1>2. heard' = heard \/ heard' = [heard EXCEPT ![p][s] = [age |-> 0, priority |-> prio]]
  BY DEF Accept
<1>3. q = p /\ r = s /\ heard'[p][s].priority = prio
  BY <1>1, <1>2, StreamFacts
<1>4. t \in Stream /\ heard[p][t] \in Heard
  BY <1>1, <1>3 DEF Source
<1>5. heard[p][t].age \in Nat /\ heard[p][t].priority \in Nat
  BY <1>4, HeardFacts
<1>6. PortKept(p, heard[p], a[p], b[p], priority)
  BY DEF KeptInv
<1>7. CASE OnePriority(p)
  <2>1. heard[p][t].priority \in Priorities[p] \cup {0}
    BY <1>3, <1>4, <1>6 DEF PortKept, FromPort
  <2> QED
    BY <1>1, <1>3, <1>5, <1>7, <2>1 DEF OnePriority
<1>8. CASE Lowermost(p)
  <2>1. heard[p][t].priority <= priority
    BY <1>3, <1>6, <1>8 DEF PortKept, Below
  <2>2. ASSUME prio < priority PROVE FALSE
    <3>1. PriorityTimedOut(Checked(p))
      BY <2>2 DEF Refused
    <3>2. ASSUME NEW x \in Source, x.id = t, Young(heard[p], x)
          PROVE  Expired(x) = x /\ x.age < PriorityTimeout
      <4>1. x.age \in Nat /\ x.age < PriorityTimeout
        BY <1>3, <1>5, <3>2, BridgeAssumption DEF Young, Source
      <4>2. ~TimedOut(x)
        BY <4>1, BridgeAssumption DEF TimedOut, PrioritiesApart
      <4> QED
        BY <4>1, <4>2 DEF Expired
    <3>3. Young(heard[p], a[p]) /\ Young(heard[p], b[p])
      BY <1>6 DEF PortKept
    <3>4. a[p].id = t => Checked(p).a = a[p] /\ a[p].age < PriorityTimeout
      BY <1>1, <3>2, <3>3 DEF Checked
    <3>5. b[p].id = t => Checked(p).b = b[p] /\ b[p].age < PriorityTimeout
      BY <1>1, <3>2, <3>3 DEF Checked
    <3>6. a[p].age \in Nat /\ b[p].age \in Nat
      BY <1>1 DEF Source
    <3>7. CASE a[p].id = t
      BY <3>1, <3>4, <3>6, <3>7, BridgeAssumption DEF PriorityTimedOut
    <3>8. CASE b[p].id = t
      BY <3>1, <3>5, <3>6, <3>8, BridgeAssumption DEF PriorityTimedOut
    <3> QED
      BY <1>3, <3>7, <3>8
  <2> QED
    BY <1>1, <1>3, <1>5, <2>1, <2>2
<1> QED
  BY <1>7, <1>8 DEF PrioritiesApart

(***************************************************************************)
(* A stream was heard just now only if a packet came just now.             *)
(***************************************************************************)
Recent == \A p \in Ports : \A s \in Stream : heard[p][s].age = 0 => packetAge = 0

LEMMA RecentInitially == Init => Recent
BY SilentFacts, OldestBounds, BridgeAssumption DEF Init, Recent

LEMMA RecentStep == BridgeInv /\ Recent /\ [Next]_vars => Recent'
<1> SUFFICES ASSUME BridgeInv, Recent, [Next]_vars PROVE Recent'
  OBVIOUS
<1>1. CASE packetAge' = 0
  BY <1>1 DEF Recent
<1>2. CASE UNCHANGED <<heard, packetAge>>
  BY <1>2 DEF Recent
<1>3. ASSUME NEW p \in Ports, AnyDmxPacket(p) PROVE Recent'
  BY <1>1, <1>3 DEF AnyDmxPacket, DmxPacket, Arrival
<1>4. ASSUME NEW p \in Ports, NEW s \in Streams[p], StreamTerminated(p, s) PROVE Recent'
  BY <1>1, <1>4 DEF StreamTerminated, Arrival
<1>5. ASSUME NEW address \in SyncAddresses, SyncPacket(address) PROVE Recent'
  BY <1>1, <1>5 DEF SyncPacket, Arrival
<1>6. CASE Ignored
  BY <1>1, <1>6 DEF Ignored, Arrival
<1>7. CASE NetworkLost
  <2> SUFFICES ASSUME NEW p \in Ports, NEW s \in Stream, heard'[p][s].age = 0
               PROVE  packetAge' = 0
    BY DEF Recent
  <2>1. heard[p][s] \in Heard
    BY PortTypes
  <2>2. heard'[p][s].age = heard[p][s].age /\ packetAge' = packetAge
    BY <1>7, <2>1 DEF NetworkLost, Heard
  <2> QED
    BY <2>2 DEF Recent
<1>8. CASE Tick
  <2> SUFFICES ASSUME NEW p \in Ports, NEW s \in Stream PROVE heard'[p][s].age # 0
    BY DEF Recent
  <2>1. heard[p][s] \in Heard /\ heard[p][s].age \in 0..Oldest
    BY PortTypes DEF Heard
  <2>2. heard'[p][s] = Later(heard[p][s])
    BY <1>8 DEF Tick
  <2> QED
    BY <2>1, <2>2, LaterFacts, OlderFacts
<1>9. CASE UNCHANGED vars
  BY <1>2, <1>9 DEF vars
<1> QED
  BY <1>3, <1>4, <1>5, <1>6, <1>7, <1>8, <1>9 DEF Next

\* In a step that accepts nothing no stream becomes heard.
LEMMA OtherRespects ==
    ASSUME BridgeInv, NEW q \in Ports, NEW r \in Streams[q],
           \/ heard' = heard
           \/ Quieter(heard[q], heard'[q])
           \/ \A t \in Stream : heard'[q][t] = Later(heard[q][t])
    PROVE  Respected(q, r)
<1>1. r \in Stream /\ heard[q] \in [Stream -> Heard]
  BY StreamFacts, PortTypes
<1>2. heard[q][r] \in Heard /\ heard[q][r].age \in 0..Oldest
  BY <1>1 DEF Heard
<1>3. Silent.age # 0
  BY SilentFacts, OldestBounds, BridgeAssumption
<1>4. Later(heard[q][r]).age # 0
  BY <1>2, LaterFacts, OlderFacts
<1>5. heard'[q][r].age = 0 => heard'[q][r] = heard[q][r]
  BY <1>1, <1>3, <1>4 DEF Quieter
<1> QED
  BY <1>5 DEF Respected

LEMMA StepRespects ==
    ASSUME BridgeInv, KeptInv, Recent, PrioritiesApart, [Next]_vars,
           NEW q \in Ports, NEW r \in Streams[q]
    PROVE  Respected(q, r)
<1>1. ASSUME NEW p \in Ports, AnyDmxPacket(p) PROVE Respected(q, r)
  <2>1. PICK s \in Streams[p], prio \in Priorities[p], option \in Option :
            DmxPacket(p, s, prio, option)
    BY <1>1 DEF AnyDmxPacket
  <2>2. CASE Refuse(p)
    BY <2>2, OtherRespects DEF Refuse
  <2> QED
    BY <2>1, <2>2, AcceptRespects DEF DmxPacket
<1>2. ASSUME NEW p \in Ports, NEW s \in Streams[p], StreamTerminated(p, s) PROVE Respected(q, r)
  <2>1. Quieter(heard[q], heard'[q])
    BY <1>2 DEF StreamTerminated, Quieter
  <2> QED
    BY <2>1, OtherRespects
<1>3. CASE heard' = heard
  BY <1>3, OtherRespects
<1>4. ASSUME NEW address \in SyncAddresses, SyncPacket(address) PROVE Respected(q, r)
  BY <1>3, <1>4 DEF SyncPacket
<1>5. CASE Ignored
  BY <1>3, <1>5 DEF Ignored
<1>6. CASE NetworkLost
  <2>1. r \in Stream /\ heard[q][r] \in Heard
    BY StreamFacts, PortTypes
  <2>2. heard'[q][r].age = heard[q][r].age
    BY <1>6, <2>1 DEF NetworkLost, Heard
  <2>3. packetAge # 0
    BY <1>6, BridgeAssumption DEF NetworkLost
  <2> QED
    BY <2>1, <2>2, <2>3 DEF Recent, Respected
<1>7. CASE Tick
  <2>1. \A t \in Stream : heard'[q][t] = Later(heard[q][t])
    BY <1>7 DEF Tick
  <2> QED
    BY <2>1, OtherRespects
<1>8. CASE UNCHANGED vars
  BY <1>3, <1>8 DEF vars
<1> QED
  BY <1>1, <1>2, <1>4, <1>5, <1>6, <1>7, <1>8 DEF Next

\* A packet is not accepted while a source of the port is of higher priority and
\* was heard within the time-out: with a priority time-out that is not longer
\* than that of the merge, and when no other port lowers the priority they all
\* share (a single port, or ports whose priorities do not overlap).
THEOREM PriorityAlwaysKept ==
    ASSUME PrioritiesApart
    PROVE  Spec => PriorityKept
<1>1. BridgeInv /\ KeptInv /\ Recent /\ [Next]_vars =>
         [\A p \in Ports : \A s \in Streams[p] :
             heard'[p][s].age = 0 /\ heard'[p][s] # heard[p][s] =>
                \A t \in {a[p].id, b[p].id} \ {s, None} :
                   heard[p][t].age < PriorityTimeout =>
                      heard[p][t].priority <= heard'[p][s].priority]_vars
  BY StepRespects DEF Respected
<1>2. Init => BridgeInv /\ KeptInv /\ Recent
  BY BridgeInitially, KeptInitially, RecentInitially
<1>3. BridgeInv /\ KeptInv /\ Recent /\ [Next]_vars => BridgeInv' /\ KeptInv' /\ Recent'
  BY BridgeStep, KeptStep, RecentStep
<1> QED
  BY <1>1, <1>2, <1>3, PTL DEF Spec, PriorityKept

(***************************************************************************)
(* SilentLeaves.  A source is at least as old as its stream was heard: a   *)
(* source whose stream fell silent has timed out itself.                   *)
(***************************************************************************)
Elder(h, source) == source.id # None => h[source.id].age <= source.age

ElderInv == \A p \in Ports : Elder(heard[p], a[p]) /\ Elder(heard[p], b[p])

\* What a packet of stream u that is accepted does to the port: a third stream
\* changes no source, any other becomes a source and leaves the slots of the
\* sources there were, or of none.
LEMMA Accepted ==
    ASSUME BridgeInv, NEW p \in Ports, NEW u \in Streams[p], NEW prio \in Priorities[p],
           NEW option, Accept(p, u, prio, option)
    PROVE  LET c == Ranked(Checked(p), prio)
           IN  /\ \A q \in Ports \ {p} : /\ a'[q] = a[q] /\ b'[q] = b[q]
                                         /\ slots'[q] = slots[q] /\ heard'[q] = heard[q]
               /\ \/ /\ Role(p, u) = "other" /\ heard' = heard /\ slots' = slots
                     /\ a'[p] = c.a /\ b'[p] = c.b
                  \/ /\ Role(p, u) # "other"
                     /\ heard'[p][u].age = 0
                     /\ \A v \in Stream \ {u} : heard'[p][v] = heard[p][v]
                     /\ slots'[p] \subseteq {a[p].id, b[p].id, u} \ {None}
                     /\ a'[p] = c.a \/ a'[p].id = u \/ a'[p].id = None
                     /\ b'[p] = c.b \/ b'[p].id = u \/ b'[p].id = None
<1> DEFINE c == Ranked(Checked(p), prio)
           role == Role(p, u)
           merge == role \in {"newA", "newB", "mergeA", "mergeB"}
           sa == CASE role \in {"first", "newA"} -> Taken(u)
                   [] role \in {"a", "mergeA"} -> Continued(c.a)
                   [] OTHER -> c.a
           sb == CASE role = "newB" -> Taken(u)
                   [] role \in {"b", "mergeB"} -> Continued(c.b)
                   [] OTHER -> c.b
<1>1. /\ a' = [a EXCEPT ![p] = sa] /\ b' = [b EXCEPT ![p] = sb]
      /\ heard' = IF role = "other" THEN heard
                  ELSE [heard EXCEPT ![p][u] = [age |-> 0, priority |-> prio]]
      /\ slots' = [slots EXCEPT ![p] = CASE merge -> Merged(p, u)
                                         [] role = "other" -> @
                                         [] OTHER -> {u}]
  BY DEF Accept
<1>2. u \in Stream /\ u # None
  BY StreamFacts
<1>3. Left(p, c)
  BY CheckedFacts, RankedFacts, CheckedRecord
<1>4. /\ role \in {"a", "mergeA"} => a[p].id = u
      /\ role \in {"b", "mergeB"} => b[p].id = u
  BY <1>2 DEF Role
<1> HIDE DEF c, role
<1>5. /\ a \in [Ports -> Source] /\ b \in [Ports -> Source]
      /\ slots \in [Ports -> SUBSET Stream] /\ heard \in [Ports -> [Stream -> Heard]]
  BY DEF BridgeInv, BridgeTypeOK, Heard
<1>6. Continued(c.a).id = c.a.id /\ Continued(c.b).id = c.b.id /\ Taken(u).id = u
  BY <1>3, ContinuedFacts DEF Left, Taken
<1>7. /\ sa = c.a \/ sa.id = u \/ sa.id = None
      /\ sb = c.b \/ sb.id = u \/ sb.id = None
  BY <1>3, <1>4, <1>6 DEF Left
<1>8. role = "other" => sa = c.a /\ sb = c.b
  OBVIOUS
<1> HIDE DEF sa, sb
<1>9. a'[p] = sa /\ b'[p] = sb
  BY <1>1, <1>5
<1>10. \A q \in Ports \ {p} : /\ a'[q] = a[q] /\ b'[q] = b[q]
                              /\ slots'[q] = slots[q] /\ heard'[q] = heard[q]
  BY <1>1, <1>5
<1>11. CASE role = "other"
  <2>1. slots' = slots
    BY <1>1, <1>5, <1>11
  <2> QED
    BY <1>1, <1>8, <1>9, <1>10, <1>11, <2>1 DEF role, c
<1>12. CASE role # "other"
  <2>1. heard'[p] = [heard[p] EXCEPT ![u] = [age |-> 0, priority |-> prio]]
    BY <1>1, <1>5, <1>12
  <2>2. heard'[p][u].age = 0 /\ \A v \in Stream \ {u} : heard'[p][v] = heard[p][v]
    BY <1>2, <1>5, <2>1
  <2>3. slots'[p] = Merged(p, u) \/ slots'[p] = {u}
    BY <1>1, <1>5, <1>12
  <2>4. slots'[p] \subseteq {a[p].id, b[p].id, u} \ {None}
    BY <1>2, <2>3 DEF Merged
  <2> QED
    BY <1>7, <1>9, <1>10, <1>12, <2>2, <2>4 DEF role, c
<1> QED
  BY <1>11, <1>12

\* The sources the time-outs leave are as they were or none.
LEMMA CheckedSources ==
    ASSUME BridgeInv, NEW p \in Ports
    PROVE  /\ Checked(p).a = a[p] \/ Checked(p).a.id = None
           /\ Checked(p).b = b[p] \/ Checked(p).b.id = None
BY PortTypes, ExpiredFacts DEF Checked

LEMMA RankedLeaves ==
    ASSUME BridgeInv, NEW p \in Ports, NEW prio
    PROVE  LET c == Checked(p)
               r == Ranked(c, prio)
           IN  (r.a = c.a \/ r.a.id = None) /\ (r.b = c.b \/ r.b.id = None)
<1> DEFINE c == Checked(p)
<1>1. c.a \in Source /\ c.b \in Source
  BY CheckedFacts DEF Left
<1>2. c = [a |-> c.a, b |-> c.b, merging |-> c.merging, mode |-> c.mode]
  BY CheckedRecord
<1> HIDE DEF c
<1>3. Gone(c.a).id = None /\ Gone(c.b).id = None
  BY <1>1, GoneFacts
<1>4. LET r == Ranked(c, prio)
      IN  (r.a = c.a \/ r.a.id = None) /\ (r.b = c.b \/ r.b.id = None)
  BY <1>2, <1>3 DEF Ranked
<1> QED
  BY <1>4 DEF c

LEMMA ElderInitially == Init => ElderInv
<1> SUFFICES ASSUME Init, NEW p \in Ports PROVE Elder(heard[p], a[p]) /\ Elder(heard[p], b[p])
  BY DEF ElderInv
<1>1. a[p].id = None /\ b[p].id = None
  BY DEF Init
<1> QED
  BY <1>1 DEF Elder

LEMMA AcceptElder ==
    ASSUME BridgeInv, BridgeInv', ElderInv, NEW p \in Ports, NEW u \in Streams[p],
           NEW prio \in Priorities[p], NEW option, Accept(p, u, prio, option)
    PROVE  ElderInv'
<1> SUFFICES ASSUME NEW q \in Ports
             PROVE  Elder(heard'[q], a'[q]) /\ Elder(heard'[q], b'[q])
  BY DEF ElderInv
<1>1. Elder(heard[q], a[q]) /\ Elder(heard[q], b[q])
  BY DEF ElderInv
<1>2. CASE q # p
  BY <1>1, <1>2, Accepted
<1>3. CASE q = p
  <2> DEFINE c == Ranked(Checked(p), prio)
             h == heard[p]
             g == heard'[p]
  <2>1. /\ a[p] \in Source /\ b[p] \in Source /\ h \in [Stream -> Heard]
        /\ a'[p] \in Source /\ b'[p] \in Source /\ g \in [Stream -> Heard]
    BY DEF BridgeInv, BridgeTypeOK, Heard
  <2>2. /\ c.a = a[p] \/ c.a.id = None
        /\ c.b = b[p] \/ c.b.id = None
    BY CheckedSources, RankedLeaves
  <2>3. \/ /\ g = h /\ a'[p] = c.a /\ b'[p] = c.b
        \/ /\ g[u].age = 0 /\ \A v \in Stream \ {u} : g[v] = h[v]
           /\ a'[p] = c.a \/ a'[p].id = u \/ a'[p].id = None
           /\ b'[p] = c.b \/ b'[p].id = u \/ b'[p].id = None
    BY Accepted
  <2> HIDE DEF c, h, g
  <2>4. CASE g = h /\ a'[p] = c.a /\ b'[p] = c.b
    BY <1>1, <1>3, <2>2, <2>4 DEF Elder, h, g
  <2>5. CASE g[u].age = 0 /\ \A v \in Stream \ {u} : g[v] = h[v]
    <3>1. ASSUME NEW x \in Source, NEW z \in Source, Elder(h, x), z = x \/ z.id = u \/ z.id = None
          PROVE  Elder(g, z)
      <4> SUFFICES ASSUME z.id # None PROVE g[z.id].age <= z.age
        BY DEF Elder
      <4>1. z.id \in Stream /\ z.age \in Nat
        BY OldestNat DEF Source
      <4> QED
        BY <2>5, <3>1, <4>1 DEF Elder
    <3>2. Elder(g, a'[p]) /\ Elder(g, b'[p])
      BY <1>1, <1>3, <2>1, <2>2, <2>3, <3>1 DEF Elder, h
    <3> QED
      BY <1>3, <3>2 DEF g
  <2> QED
    BY <2>3, <2>4, <2>5
<1> QED
  BY <1>2, <1>3

LEMMA RefuseElder ==
    ASSUME BridgeInv, ElderInv, NEW p \in Ports, Refuse(p)
    PROVE  ElderInv'
<1> SUFFICES ASSUME NEW q \in Ports
             PROVE  Elder(heard'[q], a'[q]) /\ Elder(heard'[q], b'[q])
  BY DEF ElderInv
<1>1. a \in [Ports -> Source] /\ b \in [Ports -> Source]
  BY DEF BridgeInv, BridgeTypeOK
<1>2. /\ a' = [a EXCEPT ![p] = Checked(p).a] /\ b' = [b EXCEPT ![p] = Checked(p).b]
      /\ heard' = heard
  BY DEF Refuse
<1>3. /\ a'[q] = a[q] \/ a'[q].id = None
      /\ b'[q] = b[q] \/ b'[q].id = None
  BY <1>1, <1>2, CheckedSources
<1> QED
  BY <1>2, <1>3 DEF ElderInv, Elder

LEMMA TerminatedElder ==
    ASSUME BridgeInv, ElderInv, NEW p \in Ports, NEW s \in Streams[p], StreamTerminated(p, s)
    PROVE  ElderInv'
<1> DEFINE ofA == a[p].id = s
           ofB == b[p].id = s
           Dropped(q) == IF q \notin transmitting THEN {}
                         ELSE (IF ofA THEN {a[q].id} ELSE {}) \cup (IF ofB THEN {b[q].id} ELSE {})
<1>1. /\ a' = [q \in Ports |-> IF q \in transmitting /\ ofA THEN Gone(a[q]) ELSE a[q]]
      /\ b' = [q \in Ports |-> IF q \in transmitting /\ ofB THEN Gone(b[q]) ELSE b[q]]
      /\ heard' = [q \in Ports |-> [t \in Stream |->
                      IF t \in Dropped(q) THEN Silent ELSE heard[q][t]]]
  BY DEF StreamTerminated
<1> HIDE DEF ofA, ofB
<1> SUFFICES ASSUME NEW q \in Ports
             PROVE  Elder(heard'[q], a'[q]) /\ Elder(heard'[q], b'[q])
  BY DEF ElderInv
<1>2. a[q] \in Source /\ b[q] \in Source /\ Gone(a[q]).id = None /\ Gone(b[q]).id = None
  BY PortTypes, GoneFacts
<1>3. a[q].id # None /\ b[q].id # None => a[q].id # b[q].id
  BY DEF BridgeInv, SourcesWatched
<1>4. Elder(heard[q], a[q]) /\ Elder(heard[q], b[q])
  BY DEF ElderInv
<1>5. a'[q].id # None => a'[q] = a[q] /\ a[q].id \in Stream /\ a[q].id \notin Dropped(q)
  BY <1>1, <1>2, <1>3 DEF Source
<1>6. b'[q].id # None => b'[q] = b[q] /\ b[q].id \in Stream /\ b[q].id \notin Dropped(q)
  BY <1>1, <1>2, <1>3 DEF Source
<1> HIDE DEF Dropped
<1>7. \A t \in Stream : t \notin Dropped(q) => heard'[q][t] = heard[q][t]
  BY <1>1
<1> QED
  BY <1>4, <1>5, <1>6, <1>7 DEF Elder

LEMMA LostElder ==
    ASSUME BridgeInv, BridgeInv', ElderInv, NetworkLost
    PROVE  ElderInv'
<1> SUFFICES ASSUME NEW p \in Ports
             PROVE  Elder(heard'[p], a'[p]) /\ Elder(heard'[p], b'[p])
  BY DEF ElderInv
<1>1. a[p] \in Source /\ b[p] \in Source /\ heard[p] \in [Stream -> Heard]
      /\ heard'[p] \in [Stream -> Heard]
  BY DEF BridgeInv, BridgeTypeOK, Heard
<1>2. ASSUME NEW t \in Stream PROVE heard'[p][t].age = heard[p][t].age
  <2>1. heard[p][t] \in Heard /\ heard'[p][t] = [heard[p][t] EXCEPT !.priority = 0]
    BY <1>1 DEF NetworkLost
  <2> QED
    BY <2>1 DEF Heard
<1>3. /\ a'[p] = a[p] \/ a'[p].id = None
      /\ b'[p] = b[p] \/ b'[p].id = None
  BY <1>1, GoneFacts DEF NetworkLost
<1> QED
  BY <1>1, <1>2, <1>3 DEF ElderInv, Elder, Source

LEMMA TickElder ==
    ASSUME BridgeInv, ElderInv, Tick
    PROVE  ElderInv'
<1> SUFFICES ASSUME NEW p \in Ports
             PROVE  Elder(heard'[p], a'[p]) /\ Elder(heard'[p], b'[p])
  BY DEF ElderInv
<1>1. a[p] \in Source /\ b[p] \in Source /\ heard[p] \in [Stream -> Heard]
  BY PortTypes
<1>2. /\ a'[p].id = a[p].id /\ a'[p].age = Older(a[p].age)
      /\ b'[p].id = b[p].id /\ b'[p].age = Older(b[p].age)
  BY <1>1 DEF Tick, Aged, Source
<1>3. \A t \in Stream : heard'[p][t].age = Older(heard[p][t].age)
  BY DEF Tick, Later
<1>4. ASSUME NEW x \in Source, Elder(heard[p], x), x.id # None
      PROVE  heard'[p][x.id].age <= Older(x.age)
  <2>1. x.id \in Stream /\ x.age \in 0..Oldest
    BY <1>4 DEF Source
  <2>2. heard[p][x.id].age \in 0..Oldest /\ heard[p][x.id].age <= x.age
    BY <1>1, <1>4, <2>1 DEF Elder, Heard
  <2> QED
    BY <1>3, <2>1, <2>2, OlderFacts
<1> QED
  BY <1>1, <1>2, <1>4 DEF ElderInv, Elder

LEMMA ElderStep == BridgeInv /\ BridgeInv' /\ ElderInv /\ [Next]_vars => ElderInv'
<1> SUFFICES ASSUME BridgeInv, BridgeInv', ElderInv, [Next]_vars PROVE ElderInv'
  OBVIOUS
<1>1. ASSUME NEW p \in Ports, AnyDmxPacket(p) PROVE ElderInv'
  <2>1. PICK u \in Streams[p], prio \in Priorities[p], option \in Option :
            DmxPacket(p, u, prio, option)
    BY <1>1 DEF AnyDmxPacket
  <2> QED
    BY <2>1, AcceptElder, RefuseElder DEF DmxPacket
<1>2. ASSUME NEW p \in Ports, NEW s \in Streams[p], StreamTerminated(p, s) PROVE ElderInv'
  BY <1>2, TerminatedElder
<1>3. CASE UNCHANGED <<a, b, heard>>
  BY <1>3 DEF ElderInv
<1>4. ASSUME NEW address \in SyncAddresses, SyncPacket(address) PROVE ElderInv'
  BY <1>3, <1>4 DEF SyncPacket
<1>5. CASE Ignored
  BY <1>3, <1>5 DEF Ignored
<1>6. CASE NetworkLost
  BY <1>6, LostElder
<1>7. CASE Tick
  BY <1>7, TickElder
<1>8. CASE UNCHANGED vars
  BY <1>3, <1>8 DEF vars
<1> QED
  BY <1>1, <1>2, <1>4, <1>5, <1>6, <1>7, <1>8 DEF Next

(***************************************************************************)
(* Once stream s is heard often enough on port p and stream t is not, t is *)
(* out of the sources for good, or else both are merged under the          *)
(* time-outs: the next packet of the port then forgets t.                  *)
(***************************************************************************)
Settled(p, s, t) ==
    heard[p][s].age <= MergeTimeout /\ heard[p][t].age > MergeTimeout /\ ~lost

Fresh(p, s) == heard[p][s].age = 0
Out(p, t) == t \notin {a[p].id, b[p].id}
Pair(p, s, t) == mergeMode /\ {a[p].id, b[p].id} = {s, t}
Absent(p, t) == t \notin slots[p]

\* The sources of the port are as they were or none.
Remaining(p) == /\ a'[p].id = a[p].id \/ a'[p].id = None
                /\ b'[p].id = b[p].id \/ b'[p].id = None

LEMMA ExpiredAway ==
    ASSUME BridgeInv, ElderInv, NEW p \in Ports, NEW t \in Streams[p],
           heard[p][t].age > MergeTimeout, mergeMode
    PROVE  Checked(p).a.id # t /\ Checked(p).b.id # t
<1>1. /\ a[p] \in Source /\ b[p] \in Source /\ t \in Stream /\ t # None
      /\ heard[p] \in [Stream -> Heard]
  BY PortTypes, StreamFacts
<1>2. heard[p][t].age \in Nat
  BY <1>1, HeardFacts
<1>3. ASSUME NEW x \in Source, Elder(heard[p], x) PROVE Expired(x).id # t
  <2>1. CASE x.id # t
    BY <1>1, <1>3, <2>1, GoneFacts DEF Expired
  <2>2. CASE x.id = t
    <3>1. x.age \in Nat /\ heard[p][t].age <= x.age
      BY <1>1, <1>3, <2>2, OldestNat DEF Elder, Source
    <3>2. TimedOut(x)
      BY <1>2, <3>1, BridgeAssumption DEF TimedOut
    <3> QED
      BY <1>1, <1>3, <3>2, GoneFacts DEF Expired
  <2> QED
    BY <2>1, <2>2
<1>4. Checked(p).a = Expired(a[p]) /\ Checked(p).b = Expired(b[p])
  BY DEF Checked
<1> QED
  BY <1>1, <1>3, <1>4 DEF ElderInv

\* A packet to the port, when t is out of its sources or the time-outs are looked
\* at: t is out afterwards, and its slots do not come back.
LEMMA AcceptAway ==
    ASSUME BridgeInv, ElderInv, NEW p \in Ports, NEW u \in Streams[p], NEW prio \in Priorities[p],
           NEW option, Accept(p, u, prio, option), NEW t \in Streams[p],
           heard[p][t].age > MergeTimeout, heard'[p][t].age > MergeTimeout,
           Out(p, t) \/ mergeMode
    PROVE  /\ Out(p, t)'
           /\ Out(p, t) /\ (Absent(p, t) \/ Role(p, u) # "other") => Absent(p, t)'
<1> DEFINE c == Checked(p)
           r == Ranked(c, prio)
<1>1. t # None /\ u # None
  BY StreamFacts
<1>2. c.a.id # t /\ c.b.id # t
  BY <1>1, CheckedSources, ExpiredAway DEF Out
<1>3. r.a.id # t /\ r.b.id # t
  BY <1>1, <1>2, RankedLeaves
<1>4. CASE Role(p, u) = "other"
  BY <1>3, <1>4, Accepted DEF Out, Absent
<1>5. CASE Role(p, u) # "other"
  <2>1. heard'[p][u].age = 0
    BY <1>5, Accepted
  <2>2. u # t
    BY <2>1, BridgeAssumption
  <2>3. Out(p, t)'
    BY <1>1, <1>3, <1>5, <2>2, Accepted DEF Out
  <2>4. slots'[p] \subseteq {a[p].id, b[p].id, u} \ {None}
    BY <1>5, Accepted
  <2> QED
    BY <2>2, <2>3, <2>4 DEF Out, Absent
<1> QED
  BY <1>4, <1>5

\* Every other step leaves the sources of the port or forgets some, and no
\* stream becomes heard there.
LEMMA StepCases ==
    ASSUME BridgeInv, [Next]_vars, NEW p \in Ports
    PROVE  \/ \E u \in Streams[p], prio \in Priorities[p], option \in Option :
                 Accept(p, u, prio, option) /\ priority' = prio
           \/ /\ Remaining(p) /\ slots'[p] = slots[p]
              /\ \A v \in Stream : heard'[p][v].age = 0 => heard[p][v].age = 0
<1> DEFINE Calm == /\ Remaining(p) /\ slots'[p] = slots[p]
                   /\ \A v \in Stream : heard'[p][v].age = 0 => heard[p][v].age = 0
           Accepts == \E u \in Streams[p], prio \in Priorities[p], option \in Option :
                         Accept(p, u, prio, option) /\ priority' = prio
<1>t. /\ a \in [Ports -> Source] /\ b \in [Ports -> Source]
      /\ heard \in [Ports -> [Stream -> Heard]]
  BY DEF BridgeInv, BridgeTypeOK, Heard
<1>g. Gone(a[p]).id = None /\ Gone(b[p]).id = None
  BY <1>t, GoneFacts
<1>u. UNCHANGED <<a, b, slots, heard>> => Calm
  BY DEF Remaining
<1>1. ASSUME NEW q \in Ports, AnyDmxPacket(q)
      PROVE  Accepts \/ Calm
  <2>1. PICK u \in Streams[q], prio \in Priorities[q], option \in Option :
            DmxPacket(q, u, prio, option)
    BY <1>1 DEF AnyDmxPacket
  <2>2. CASE Refuse(q)
    <3>1. /\ a' = [a EXCEPT ![q] = Checked(q).a] /\ b' = [b EXCEPT ![q] = Checked(q).b]
          /\ slots' = slots /\ heard' = heard
      BY <2>2 DEF Refuse, output
    <3>2. Remaining(p)
      BY <1>t, <3>1, CheckedSources DEF Remaining
    <3> QED
      BY <3>1, <3>2
  <2>3. CASE Accept(q, u, prio, option) /\ priority' = prio /\ q # p
    BY <2>3, Accepted DEF Remaining
  <2> HIDE DEF Calm
  <2> QED
    BY <2>1, <2>2, <2>3 DEF DmxPacket
<1>2. ASSUME NEW q \in Ports, NEW s \in Streams[q], StreamTerminated(q, s) PROVE Calm
  <2>1. Remaining(p) /\ slots'[p] = slots[p]
    BY <1>2, <1>g DEF StreamTerminated, Remaining
  <2>2. \A v \in Stream : heard'[p][v] = Silent \/ heard'[p][v] = heard[p][v]
    BY <1>2 DEF StreamTerminated
  <2>3. Silent.age # 0
    BY SilentFacts, OldestBounds, BridgeAssumption
  <2> QED
    BY <2>1, <2>2, <2>3
<1>3. ASSUME NEW address \in SyncAddresses, SyncPacket(address) PROVE Calm
  BY <1>3, <1>u DEF SyncPacket
<1>4. ASSUME Ignored PROVE Calm
  BY <1>4, <1>u DEF Ignored, output
<1>5. ASSUME NetworkLost PROVE Calm
  <2>1. Remaining(p) /\ slots'[p] = slots[p]
    BY <1>5, <1>g DEF NetworkLost, Remaining
  <2>2. \A v \in Stream : heard[p][v] \in Heard /\ heard'[p][v] = [heard[p][v] EXCEPT !.priority = 0]
    BY <1>5, <1>t DEF NetworkLost
  <2>3. \A v \in Stream : heard'[p][v].age = heard[p][v].age
    BY <2>2 DEF Heard
  <2> QED
    BY <2>1, <2>3
<1>6. ASSUME Tick PROVE Calm
  <2>1. Remaining(p) /\ slots'[p] = slots[p]
    BY <1>6, <1>t, AgedFacts DEF Tick, output, Remaining
  <2>2. ASSUME NEW v \in Stream PROVE heard'[p][v].age # 0
    <3>1. heard[p][v] \in Heard /\ heard[p][v].age \in 0..Oldest /\ heard'[p][v] = Later(heard[p][v])
      BY <1>6, <1>t DEF Tick, Heard
    <3> QED
      BY <3>1, LaterFacts, OlderFacts
  <2> QED
    BY <2>1, <2>2
<1>7. ASSUME UNCHANGED vars PROVE Calm
  BY <1>7, <1>u DEF vars, output
<1> HIDE DEF Calm, Accepts
<1>8. Accepts \/ Calm
  BY <1>1, <1>2, <1>3, <1>4, <1>5, <1>6, <1>7 DEF Next
<1> QED
  BY <1>8 DEF Calm, Accepts

LEMMA OutStep ==
    ASSUME BridgeInv, ElderInv, [Next]_vars, NEW p \in Ports, NEW s, NEW t \in Streams[p],
           Settled(p, s, t), Settled(p, s, t)', Out(p, t)
    PROVE  Out(p, t)' /\ (Absent(p, t) => Absent(p, t)')
<1>1. ASSUME NEW u \in Streams[p], NEW prio \in Priorities[p], NEW option,
             Accept(p, u, prio, option)
      PROVE  Out(p, t)' /\ (Absent(p, t) => Absent(p, t)')
  BY <1>1, AcceptAway DEF Settled
<1>2. CASE Remaining(p) /\ slots'[p] = slots[p]
  BY <1>2, StreamFacts DEF Remaining, Out, Absent
<1> QED
  BY <1>1, <1>2, StepCases

\* s is heard: t is out, or both are sources and the time-outs are looked at.
LEMMA FreshStep ==
    ASSUME BridgeInv, ElderInv, [Next]_vars, priority' = priority,
           NEW p \in Ports, NEW s \in Streams[p], NEW t \in Streams[p], s # t,
           Settled(p, s, t), Settled(p, s, t)', ~Fresh(p, s), Fresh(p, s)'
    PROVE  /\ Out(p, t)' \/ Pair(p, s, t)'
           /\ Out(p, t) \/ mergeMode => Out(p, t)'
           /\ Out(p, t) => Absent(p, t)'
<1>1. s \in Stream /\ t \in Stream /\ s # None /\ t # None
  BY StreamFacts
<1>2. PICK u \in Streams[p], prio \in Priorities[p], option \in Option :
          Accept(p, u, prio, option) /\ priority' = prio
  BY <1>1, StepCases DEF Fresh
<1>3. Role(p, u) # "other" /\ u = s
  BY <1>1, <1>2, Accepted DEF Fresh
<1>4. Out(p, t) \/ mergeMode => Out(p, t)'
  BY <1>2, AcceptAway DEF Settled
<1>5. Out(p, t) => Absent(p, t)'
  BY <1>2, <1>3, AcceptAway DEF Settled
<1>6. ASSUME ~Out(p, t), ~mergeMode PROVE Pair(p, s, t)'
  <2> DEFINE c == Ranked(Checked(p), prio)
             role == Role(p, s)
  <2>1. c = [a |-> a[p], b |-> b[p], merging |-> merging, mode |-> FALSE]
    <3>1. Checked(p) = [a |-> a[p], b |-> b[p], merging |-> merging, mode |-> FALSE]
      BY <1>6 DEF Checked
    <3>2. priority \in Nat /\ prio = priority
      BY <1>2, PortTypes, LevelNat
    <3>3. ~(prio > priority)
      BY <3>2
    <3> QED
      BY <3>1, <3>3 DEF Ranked
  <2>2. a \in [Ports -> Source] /\ b \in [Ports -> Source]
    BY DEF BridgeInv, BridgeTypeOK
  <2>3. c.a = a[p] /\ c.b = b[p]
    BY <2>1
  <2>4. /\ Continued(c.a).id = a[p].id /\ Continued(c.b).id = b[p].id
        /\ Taken(s).id = s
    BY <2>2, <2>3, ContinuedFacts DEF Taken
  <2>5. /\ mergeMode' = (c.mode \/ role \in {"newA", "newB", "mergeA", "mergeB"})
        /\ a' = [a EXCEPT ![p] = CASE role \in {"first", "newA"} -> Taken(s)
                                   [] role \in {"a", "mergeA"} -> Continued(c.a)
                                   [] OTHER -> c.a]
        /\ b' = [b EXCEPT ![p] = CASE role = "newB" -> Taken(s)
                                   [] role \in {"b", "mergeB"} -> Continued(c.b)
                                   [] OTHER -> c.b]
    BY <1>2, <1>3 DEF Accept
  <2>6. \/ a[p].id = t /\ role \in {"newB", "mergeB"} /\ (role = "mergeB" => b[p].id = s)
        \/ b[p].id = t /\ role \in {"newA", "mergeA"} /\ (role = "mergeA" => a[p].id = s)
    BY <1>1, <1>3, <1>6 DEF Role, Out
  <2> HIDE DEF c, role
  <2>7. CASE a[p].id = t /\ role \in {"newB", "mergeB"} /\ (role = "mergeB" => b[p].id = s)
    <3>1. a'[p].id = t /\ b'[p].id = s
      BY <2>2, <2>3, <2>4, <2>5, <2>7
    <3> QED
      BY <2>5, <2>7, <3>1 DEF Pair
  <2>8. CASE b[p].id = t /\ role \in {"newA", "mergeA"} /\ (role = "mergeA" => a[p].id = s)
    <3>1. a'[p].id = s /\ b'[p].id = t
      BY <2>2, <2>3, <2>4, <2>5, <2>8
    <3> QED
      BY <2>5, <2>8, <3>1 DEF Pair
  <2> QED
    BY <2>6, <2>7, <2>8
<1> QED
  BY <1>4, <1>5, <1>6

\* The time-outs of another port leave the merge mode on for this one.
LEMMA CheckedElsewhere ==
    ASSUME BridgeInv, mergeMode, NEW p \in Ports, NEW q \in Ports \ {p}, p \in merging
    PROVE  Checked(q).mode
BY DEF Checked

\* While both are merged, every step keeps that or forgets t.
LEMMA PairStep ==
    ASSUME BridgeInv, ElderInv, [Next]_vars, priority' = priority,
           NEW p \in Ports, NEW s \in Streams[p], NEW t \in Streams[p], s # t,
           Settled(p, s, t), Settled(p, s, t)', Pair(p, s, t)
    PROVE  Out(p, t)' \/ Pair(p, s, t)'
<1>1. s \in Stream /\ t \in Stream /\ s # None /\ t # None
  BY StreamFacts
<1>2. /\ mergeMode /\ {a[p].id, b[p].id} = {s, t} /\ p \in merging
      /\ a \in [Ports -> Source] /\ b \in [Ports -> Source]
  BY <1>1 DEF Pair, BridgeInv, SourcesWatched, BridgeTypeOK
<1>3. a'[p] = a[p] /\ b'[p] = b[p] /\ mergeMode' => Pair(p, s, t)'
  BY <1>2 DEF Pair
<1>4. ASSUME NEW q \in Ports, AnyDmxPacket(q) PROVE Out(p, t)' \/ Pair(p, s, t)'
  <2>1. PICK u \in Streams[q], prio \in Priorities[q], option \in Option :
            DmxPacket(q, u, prio, option)
    BY <1>4 DEF AnyDmxPacket
  <2>2. CASE Refuse(q)
    <3>1. /\ a' = [a EXCEPT ![q] = Checked(q).a] /\ b' = [b EXCEPT ![q] = Checked(q).b]
          /\ mergeMode' = Checked(q).mode
      BY <2>2 DEF Refuse
    <3>2. CASE q = p
      BY <1>2, <3>1, <3>2, ExpiredAway DEF Settled, Out
    <3>3. CASE q # p
      BY <1>2, <1>3, <3>1, <3>3, CheckedElsewhere
    <3> QED
      BY <3>2, <3>3
  <2>3. CASE Accept(q, u, prio, option) /\ priority' = prio
    <3>1. CASE q = p
      BY <1>2, <2>3, <3>1, AcceptAway DEF Settled
    <3>2. CASE q # p
      <4>1. ~(prio > priority)
        <5>1. priority \in Nat
          BY PortTypes, LevelNat
        <5>2. prio = priority
          BY <2>3
        <5> QED
          BY <5>1, <5>2
      <4>2. Ranked(Checked(q), prio).mode
        BY <1>2, <3>2, <4>1, CheckedElsewhere DEF Ranked
      <4>3. mergeMode'
        BY <2>3, <4>2 DEF Accept
      <4> QED
        BY <1>3, <2>3, <3>2, <4>3, Accepted
    <3> QED
      BY <3>1, <3>2
  <2> QED
    BY <2>1, <2>2, <2>3 DEF DmxPacket
<1>5. ASSUME NEW q \in Ports, NEW r \in Streams[q], StreamTerminated(q, r)
      PROVE  Out(p, t)' \/ Pair(p, s, t)'
  <2> DEFINE ofA == a[q].id = r
             ofB == b[q].id = r
             Dropped == IF p \notin transmitting THEN {}
                        ELSE (IF ofA THEN {a[p].id} ELSE {}) \cup (IF ofB THEN {b[p].id} ELSE {})
  <2>1. /\ a'[p] = IF p \in transmitting /\ ofA THEN Gone(a[p]) ELSE a[p]
        /\ b'[p] = IF p \in transmitting /\ ofB THEN Gone(b[p]) ELSE b[p]
        /\ heard'[p][s] = IF s \in Dropped THEN Silent ELSE heard[p][s]
        /\ mergeMode' = mergeMode
    BY <1>1, <1>5 DEF StreamTerminated
  <2>2. s \notin Dropped
    <3>1. ~(Silent.age <= MergeTimeout)
      BY SilentFacts, OldestBounds, BridgeAssumption
    <3> QED
      BY <2>1, <3>1 DEF Settled
  <2>3. Gone(a[p]).id = None /\ Gone(b[p]).id = None
    BY <1>2, GoneFacts
  <2> QED
    BY <1>1, <1>2, <2>1, <2>2, <2>3 DEF Out, Pair
<1>6. ASSUME UNCHANGED <<a, b, mergeMode>> PROVE Pair(p, s, t)'
  BY <1>2, <1>3, <1>6
<1>7. ASSUME NEW address \in SyncAddresses, SyncPacket(address) PROVE Pair(p, s, t)'
  BY <1>6, <1>7 DEF SyncPacket
<1>8. CASE Ignored
  BY <1>6, <1>8 DEF Ignored
<1>9. ASSUME NetworkLost PROVE FALSE
  BY <1>9 DEF NetworkLost, Settled
<1>10. CASE Tick
  BY <1>2, <1>10, AgedFacts DEF Tick, Pair
<1>11. CASE UNCHANGED vars
  BY <1>6, <1>11 DEF vars
<1> QED
  BY <1>4, <1>5, <1>7, <1>8, <1>9, <1>10, <1>11 DEF Next

SilentInv == BridgeInv /\ ElderInv

\* A stream that fell silent leaves the slots of a port to which another keeps
\* sending, as long as the priority stays and the network is not lost: for every
\* set of ports and senders and all time-outs.
THEOREM SilentAlwaysLeaves == Spec => SilentLeaves
<1> SUFFICES ASSUME NEW p \in Ports, NEW s \in Streams[p], NEW t \in Streams[p], s # t
             PROVE  Spec =>
                      (/\ []<>(heard[p][s].age = 0) /\ []<>(heard[p][s].age # 0)
                       /\ <>[](heard[p][s].age <= MergeTimeout)
                       /\ <>[](heard[p][t].age > MergeTimeout)
                       /\ <>[](~lost) /\ <>[][priority' = priority]_vars
                       => <>[](t \notin slots[p]))
  BY DEF SilentLeaves
<1>1. Init => SilentInv
  BY BridgeInitially, ElderInitially DEF SilentInv
<1>2. SilentInv /\ [Next]_vars => SilentInv'
  BY BridgeStep, ElderStep DEF SilentInv
<1>3. SilentInv /\ [Next]_vars /\ Settled(p, s, t) /\ Settled(p, s, t)' /\ Out(p, t) =>
         Out(p, t)' /\ (Absent(p, t) => Absent(p, t)')
  BY OutStep DEF SilentInv
<1>4. /\ SilentInv /\ [Next]_vars /\ [priority' = priority]_vars
      /\ Settled(p, s, t) /\ Settled(p, s, t)' /\ Pair(p, s, t)
      => Out(p, t)' \/ Pair(p, s, t)'
  <2>1. [priority' = priority]_vars => priority' = priority
    BY DEF vars
  <2> QED
    BY <2>1, PairStep DEF SilentInv
<1>5. /\ SilentInv /\ [Next]_vars /\ [priority' = priority]_vars
      /\ Settled(p, s, t) /\ Settled(p, s, t)' /\ ~Fresh(p, s) /\ Fresh(p, s)'
      => /\ Out(p, t)' \/ Pair(p, s, t)'
         /\ Out(p, t) \/ Pair(p, s, t) => Out(p, t)'
         /\ Out(p, t) => Absent(p, t)'
  <2>1. [priority' = priority]_vars => priority' = priority
    BY DEF vars
  <2> QED
    BY <2>1, FreshStep DEF SilentInv, Pair
<1>6. /\ Fresh(p, s) <=> heard[p][s].age = 0
      /\ ~Fresh(p, s) <=> heard[p][s].age # 0
      /\ heard[p][s].age <= MergeTimeout /\ heard[p][t].age > MergeTimeout /\ ~lost
         => Settled(p, s, t)
      /\ Absent(p, t) <=> t \notin slots[p]
  BY DEF Fresh, Settled, Absent
<1> QED
  BY <1>1, <1>2, <1>3, <1>4, <1>5, <1>6, PTL DEF Spec
=============================================================================
