------------------------ MODULE ArtNetMergeTheorems ------------------------
(***************************************************************************)
(* The safety of the merge, for any number of ports, any senders and any   *)
(* time-outs.                                                              *)
(***************************************************************************)
EXTENDS ArtNetMergeProperties, TLAPS

\* A source that is live has given slots.
Given(source) == Live(source) => source.data \in Stream
WithSlots == \A p \in Ports : Given(a[p]) /\ Given(b[p])

\* Two sources of one port.
Distinct(sa, sb) ==
    Live(sa) /\ Live(sb) => <<sa.ip, sa.physical>> # <<sb.ip, sb.physical>>

\* A port that waits without a length has dropped what it took.
EmptyDropped == pending \ filled \subseteq dropped

MergeInv == MergeTypeOK /\ WithSlots /\ MergeWatched /\ TwoStreams /\ ShownOrPending /\ EmptyDropped

(***************************************************************************)
(* Ages and sources.                                                       *)
(***************************************************************************)
LEMMA OldestNat == Oldest \in Nat /\ 0 \in 0..Oldest
BY MergeAssumption DEF Oldest, Max2

LEMMA OlderType == \A age \in 0..Oldest : Older(age) \in 0..Oldest
BY OldestNat DEF Older

LEMMA StreamFacts ==
    ASSUME NEW p \in Ports, NEW s \in Streams[p]
    PROVE  s \in Stream /\ s.ip # None
BY MergeAssumption DEF Stream

LEMMA TakenFacts ==
    ASSUME NEW p \in Ports, NEW s \in Streams[p]
    PROVE  /\ Taken(s) \in Source /\ Live(Taken(s)) /\ Given(Taken(s))
           /\ Taken(s).ip = s.ip /\ Taken(s).physical = s.physical /\ Taken(s).data = s
BY StreamFacts, OldestNat DEF Taken, Source, Live, Given

LEMMA ForgottenFacts ==
    ASSUME NEW f \in [Ports -> Source]
    PROVE  /\ Forgotten(f) \in [Ports -> Source]
           /\ \A p \in Ports : ~Live(Forgotten(f)[p])
BY DEF Forgotten, Source, Live

LEMMA AgedFacts ==
    ASSUME NEW f \in [Ports -> Source]
    PROVE  /\ Aged(f) \in [Ports -> Source]
           /\ \A p \in Ports : /\ Aged(f)[p].ip = f[p].ip
                               /\ Aged(f)[p].physical = f[p].physical
                               /\ Aged(f)[p].data = f[p].data
BY OlderType DEF Aged, Source

LEMMA ExpiredFacts ==
    ASSUME NEW source \in Source
    PROVE  /\ Expired(source) \in Source
           /\ Live(Expired(source)) => Expired(source) = source /\ ~TimedOut(source)
BY DEF Expired, Source, Live

\* What CheckMergeTimeouts() leaves of port p and of the others.
LEMMA CheckedFacts ==
    ASSUME MergeInv, NEW p \in Ports, NEW c, c = Checked(p)
    PROVE  /\ c.a \in Source /\ c.b \in Source
           /\ Live(c.a) => c.a = a[p]
           /\ Live(c.b) => c.b = b[p]
           /\ c.merging \subseteq Ports /\ c.mode \in BOOLEAN
           /\ c.mode => c.merging # {}
           /\ Live(c.a) /\ Live(c.b) => p \in c.merging /\ c.mode
           /\ \A q \in Ports \ {p} :
                 Live(a[q]) /\ Live(b[q]) => q \in c.merging /\ c.mode
<1>1. a[p] \in Source /\ b[p] \in Source /\ merging \subseteq Ports /\ mergeMode \in BOOLEAN
  BY DEF MergeInv, MergeTypeOK
<1>2. /\ mergeMode => merging # {}
      /\ \A q \in Ports : Live(a[q]) /\ Live(b[q]) => q \in merging /\ mergeMode
  BY DEF MergeInv, MergeWatched
<1>3. CASE ~mergeMode
  BY <1>1, <1>2, <1>3 DEF Checked
<1>4. CASE mergeMode
  <2> DEFINE rest == IF TimedOut(a[p]) \/ TimedOut(b[p]) THEN merging \ {p} ELSE merging
  <2>1. c = [a |-> Expired(a[p]), b |-> Expired(b[p]), merging |-> rest, mode |-> rest # {}]
    BY <1>4 DEF Checked, StillMerging
  <2>2. c.a = Expired(a[p]) /\ c.b = Expired(b[p]) /\ c.merging = rest /\ c.mode = (rest # {})
    BY <2>1
  <2>3. Live(c.a) => c.a = a[p] /\ ~TimedOut(a[p])
    BY <1>1, <2>2, ExpiredFacts
  <2>4. Live(c.b) => c.b = b[p] /\ ~TimedOut(b[p])
    BY <1>1, <2>2, ExpiredFacts
  <2>5. c.a \in Source /\ c.b \in Source
    BY <1>1, <2>2, ExpiredFacts
  <2>6. Live(c.a) /\ Live(c.b) => p \in c.merging /\ c.mode
    BY <1>2, <2>2, <2>3, <2>4
  <2>7. \A q \in Ports \ {p} : Live(a[q]) /\ Live(b[q]) => q \in c.merging /\ c.mode
    BY <1>2, <2>2
  <2> QED
    BY <1>1, <2>2, <2>3, <2>4, <2>5, <2>6, <2>7
<1> QED
  BY <1>1, <1>3, <1>4

\* Which source is taken, and what is known of the other one.
LEMMA SlotFacts ==
    ASSUME NEW sa, NEW sb, NEW s, s.ip # None, Distinct(sa, sb),
           NEW slot \in Slot(sa, sb, s)
    PROVE  \/ slot = "a" /\ ~Live(sb)
           \/ slot = "b" /\ ~Live(sa)
           \/ slot = "mergeA" /\ Live(sb) /\ <<s.ip, s.physical>> # <<sb.ip, sb.physical>>
           \/ slot = "mergeB" /\ Live(sa) /\ <<sa.ip, sa.physical>> # <<s.ip, s.physical>>
<1> USE DEF Slot, Live, Distinct, SameStream
<1>1. CASE sa.ip = None /\ sb.ip = None
  BY <1>1
<1>2. CASE sa.ip = s.ip /\ sb.ip = None
  BY <1>2
<1>3. CASE sa.ip = None /\ sb.ip = s.ip
  BY <1>3
<1>4. CASE sa.ip \notin {None, s.ip} /\ sb.ip = None
  BY <1>4
<1>5. CASE sa.ip = None /\ sb.ip \notin {None, s.ip}
  BY <1>5
<1>6. CASE sa.ip # None /\ sb.ip # None
  <2>1. Slot(sa, sb, s) = IF SameStream(sa, s) THEN {"mergeA"}
                          ELSE IF SameStream(sb, s) THEN {"mergeB"} ELSE {}
    BY <1>6
  <2> QED
    BY <1>6, <2>1
<1> QED
  BY <1>1, <1>2, <1>3, <1>4, <1>5, <1>6

(***************************************************************************)
(* The steps.                                                              *)
(***************************************************************************)
\* A packet taken for a source.  All but port p is as CheckMergeTimeouts() left it.
LEMMA AcceptStep ==
    ASSUME MergeInv, NEW p \in Ports, NEW s \in Streams[p], NEW c, c = Checked(p),
           NEW slot \in Slot(c.a, c.b, s), Accept(p, s, c, slot),
           packetAge' = 0, dmxIp' = s.ip, UNCHANGED <<ltp, syncLeft>>
    PROVE  MergeInv'
<1> DEFINE merge == slot \in {"mergeA", "mergeB"}
           sa == IF slot \in {"a", "mergeA"} THEN Taken(s) ELSE c.a
           sb == IF slot \in {"b", "mergeB"} THEN Taken(s) ELSE c.b
<1>1. /\ c.a \in Source /\ c.b \in Source
      /\ Live(c.a) => c.a = a[p]
      /\ Live(c.b) => c.b = b[p]
      /\ c.merging \subseteq Ports /\ c.mode \in BOOLEAN
      /\ c.mode => c.merging # {}
      /\ Live(c.a) /\ Live(c.b) => p \in c.merging /\ c.mode
      /\ \A q \in Ports \ {p} : Live(a[q]) /\ Live(b[q]) => q \in c.merging /\ c.mode
  BY CheckedFacts
<1>2. Given(c.a) /\ Given(c.b) /\ Distinct(c.a, c.b)
  BY <1>1 DEF MergeInv, WithSlots, TwoStreams, Distinct, Given
<1>3. s \in Stream /\ s.ip # None
  BY StreamFacts
<1>4. /\ Taken(s) \in Source /\ Live(Taken(s)) /\ Given(Taken(s))
      /\ Taken(s).ip = s.ip /\ Taken(s).physical = s.physical /\ Taken(s).data = s
  BY TakenFacts
<1>5. \/ slot = "a" /\ ~Live(c.b)
      \/ slot = "b" /\ ~Live(c.a)
      \/ slot = "mergeA" /\ Live(c.b) /\ <<s.ip, s.physical>> # <<c.b.ip, c.b.physical>>
      \/ slot = "mergeB" /\ Live(c.a) /\ <<c.a.ip, c.a.physical>> # <<s.ip, s.physical>>
  BY <1>2, <1>3, SlotFacts
<1>6. sa \in Source /\ sb \in Source /\ Given(sa) /\ Given(sb) /\ Distinct(sa, sb)
  BY <1>1, <1>2, <1>4, <1>5 DEF Distinct
<1>7. merge => Live(sa) /\ Live(sb)
  BY <1>4, <1>5
<1>8. Live(sa) /\ Live(sb) => merge
  BY <1>5
<1>9. /\ a \in [Ports -> Source] /\ b \in [Ports -> Source]
      /\ slots \in [Ports -> SUBSET Stream] /\ heard \in [Ports -> [Stream -> 0..Oldest]]
      /\ {ltp, filled, pending, transmitting, started, shown, dropped} \subseteq SUBSET Ports
      /\ syncLeft \in 0..SyncTimeout
  BY DEF MergeInv, MergeTypeOK
<1>10. /\ a' = [a EXCEPT ![p] = sa] /\ b' = [b EXCEPT ![p] = sb]
       /\ merging' = IF merge THEN c.merging \cup {p} ELSE c.merging
       /\ mergeMode' = (c.mode \/ merge)
       /\ slots' = [slots EXCEPT ![p] = IF merge THEN Merged(p, sa, sb, s) ELSE {s}]
       /\ filled' = filled \cup {p} /\ dropped' = dropped \ {p}
       /\ heard' = [heard EXCEPT ![p][s] = 0]
       /\ Buffer(p) \/ Output(p)
  BY DEF Accept
<1>11. /\ a' \in [Ports -> Source] /\ b' \in [Ports -> Source]
       /\ a'[p] = sa /\ b'[p] = sb
       /\ \A q \in Ports \ {p} : a'[q] = a[q] /\ b'[q] = b[q]
  BY <1>6, <1>9, <1>10
<1>12. slots' \in [Ports -> SUBSET Stream]
  <2>1. (IF merge THEN Merged(p, sa, sb, s) ELSE {s}) \in SUBSET Stream
    BY <1>3, <1>6, <1>7 DEF Merged, Given
  <2> QED
    BY <1>9, <1>10, <2>1
<1>13. {pending, transmitting, started, shown, dropped}' \subseteq SUBSET Ports
  BY <1>9, <1>10 DEF Buffer, Output
<1>14. heard' \in [Ports -> [Stream -> 0..Oldest]]
  BY <1>3, <1>9, <1>10, OldestNat
<1>15. MergeTypeOK'
  <2>1. merging' \in SUBSET Ports /\ filled' \in SUBSET Ports /\ ltp' \in SUBSET Ports
    BY <1>1, <1>9, <1>10
  <2>2. mergeMode' \in BOOLEAN
    BY <1>1, <1>10
  <2>3. dmxIp' \in {t.ip : t \in Stream} \cup {None} /\ packetAge' \in 0..Oldest /\ syncLeft' \in 0..SyncTimeout
    BY <1>3, <1>9, OldestNat
  <2> QED
    BY <1>11, <1>12, <1>13, <1>14, <2>1, <2>2, <2>3 DEF MergeTypeOK
<1>16. WithSlots'
  <2> SUFFICES ASSUME NEW q \in Ports PROVE Given(a'[q]) /\ Given(b'[q])
    BY DEF WithSlots, Given, Live
  <2> QED
    BY <1>6, <1>11 DEF MergeInv, WithSlots
<1>17. MergeWatched'
  <2>1. mergeMode' => merging' # {}
    BY <1>1, <1>10
  <2>2. ASSUME NEW q \in Ports, Live(a'[q]), Live(b'[q]) PROVE q \in merging' /\ mergeMode'
    <3>1. CASE q = p
      BY <1>8, <1>10, <1>11, <2>2, <3>1
    <3>2. CASE q # p
      BY <1>1, <1>10, <1>11, <2>2, <3>2
    <3> QED
      BY <3>1, <3>2
  <2> QED
    BY <2>1, <2>2 DEF MergeWatched, Live
<1>18. TwoStreams'
  <2> SUFFICES ASSUME NEW q \in Ports PROVE Distinct(a'[q], b'[q])
    BY DEF TwoStreams, Distinct, Live
  <2> QED
    BY <1>6, <1>11 DEF MergeInv, TwoStreams, Distinct
<1>19. ShownOrPending' /\ EmptyDropped'
  <2>1. ASSUME NEW q \in Ports
        PROVE  q \in (pending' \cap filled') \cup shown' \cup dropped'
    <3>1. q \in (pending \cap filled) \cup shown \cup dropped
      BY DEF MergeInv, ShownOrPending
    <3> QED
      BY <1>10, <3>1 DEF Buffer, Output
  <2>2. EmptyDropped'
    BY <1>10 DEF MergeInv, EmptyDropped, Buffer, Output
  <2> QED
    BY <2>1, <2>2 DEF ShownOrPending
<1> QED
  BY <1>15, <1>16, <1>17, <1>18, <1>19 DEF MergeInv

LEMMA DiscardStep ==
    ASSUME MergeInv, NEW p \in Ports, NEW s \in Streams[p], NEW c, c = Checked(p), Discard(p, c),
           packetAge' = 0, dmxIp' = s.ip, UNCHANGED <<ltp, syncLeft>>
    PROVE  MergeInv'
<1>1. /\ c.a \in Source /\ c.b \in Source
      /\ Live(c.a) => c.a = a[p]
      /\ Live(c.b) => c.b = b[p]
      /\ c.merging \subseteq Ports /\ c.mode \in BOOLEAN
      /\ c.mode => c.merging # {}
      /\ Live(c.a) /\ Live(c.b) => p \in c.merging /\ c.mode
      /\ \A q \in Ports \ {p} : Live(a[q]) /\ Live(b[q]) => q \in c.merging /\ c.mode
  BY CheckedFacts
<1>2. a \in [Ports -> Source] /\ b \in [Ports -> Source]
  BY DEF MergeInv, MergeTypeOK
<1>3. /\ a' \in [Ports -> Source] /\ b' \in [Ports -> Source]
      /\ a'[p] = c.a /\ b'[p] = c.b /\ merging' = c.merging /\ mergeMode' = c.mode
      /\ \A q \in Ports \ {p} : a'[q] = a[q] /\ b'[q] = b[q]
  BY <1>1, <1>2 DEF Discard
<1>4. MergeTypeOK'
  <2>1. dmxIp' \in {t.ip : t \in Stream} \cup {None} /\ packetAge' \in 0..Oldest
    BY StreamFacts, OldestNat
  <2> QED
    BY <1>1, <1>3, <2>1 DEF MergeInv, MergeTypeOK, Discard, data
<1>5. WithSlots'
  <2> SUFFICES ASSUME NEW q \in Ports PROVE Given(a'[q]) /\ Given(b'[q])
    BY DEF WithSlots, Given, Live
  <2> QED
    BY <1>1, <1>3 DEF MergeInv, WithSlots, Given
<1>6. MergeWatched'
  <2> SUFFICES ASSUME NEW q \in Ports, Live(a'[q]), Live(b'[q]) PROVE q \in merging' /\ mergeMode'
    BY <1>1, <1>3 DEF MergeWatched, Live
  <2> QED
    BY <1>1, <1>3
<1>7. TwoStreams'
  <2> SUFFICES ASSUME NEW q \in Ports PROVE Distinct(a'[q], b'[q])
    BY DEF TwoStreams, Distinct, Live
  <2> QED
    BY <1>1, <1>3 DEF MergeInv, TwoStreams, Distinct
<1>8. ShownOrPending' /\ EmptyDropped'
  BY DEF MergeInv, ShownOrPending, EmptyDropped, Discard, data
<1> QED
  BY <1>4, <1>5, <1>6, <1>7, <1>8 DEF MergeInv

\* The steps that leave the sources alone, except for their ages, or forget
\* them all, and what is left of MergeInv to show for them.
LEMMA SourcesKept ==
    ASSUME MergeInv, merging' = merging, mergeMode' = mergeMode,
           NEW f \in [Ports -> Source], NEW g \in [Ports -> Source], a' = f, b' = g,
           \A p \in Ports : /\ f[p].ip = a[p].ip /\ f[p].physical = a[p].physical
                            /\ f[p].data = a[p].data
                            /\ g[p].ip = b[p].ip /\ g[p].physical = b[p].physical
                            /\ g[p].data = b[p].data
    PROVE  WithSlots' /\ MergeWatched' /\ TwoStreams'
BY DEF MergeInv, WithSlots, MergeWatched, TwoStreams, Given, Live

LEMMA SourcesForgotten ==
    ASSUME MergeInv, a' = Forgotten(a), b' = Forgotten(b), mergeMode' = FALSE
    PROVE  /\ a' \in [Ports -> Source] /\ b' \in [Ports -> Source]
           /\ WithSlots' /\ MergeWatched' /\ TwoStreams'
<1>1. a \in [Ports -> Source] /\ b \in [Ports -> Source]
  BY DEF MergeInv, MergeTypeOK
<1>2. /\ a' \in [Ports -> Source] /\ b' \in [Ports -> Source]
      /\ \A p \in Ports : ~Live(a'[p]) /\ ~Live(b'[p])
  BY <1>1, ForgottenFacts
<1> QED
  BY <1>2 DEF WithSlots, MergeWatched, TwoStreams, Given, Live

LEMMA UnheardType == Unheard \in [Ports -> [Stream -> 0..Oldest]]
BY OldestNat DEF Unheard

\* The node starts without sources.
THEOREM MergeInitially == Init => MergeInv
<1> SUFFICES ASSUME Init PROVE MergeInv
  OBVIOUS
<1> DEFINE empty == [ip |-> None, physical |-> 256, age |-> 0, data |-> NoStream]
<1>1. empty \in Source /\ ~Live(empty)
  BY OldestNat DEF Source, Live
<1>2. /\ a \in [Ports -> Source] /\ b \in [Ports -> Source]
      /\ \A p \in Ports : ~Live(a[p]) /\ ~Live(b[p])
  BY <1>1 DEF Init
<1>3. heard \in [Ports -> [Stream -> 0..Oldest]]
  BY OldestNat DEF Init
<1>4. MergeTypeOK
  <2>1. syncLeft \in 0..SyncTimeout /\ packetAge \in 0..Oldest
    BY MergeAssumption, OldestNat DEF Init
  <2> QED
    BY <1>2, <1>3, <2>1 DEF Init, MergeTypeOK
<1>5. WithSlots /\ MergeWatched /\ TwoStreams
  BY <1>2 DEF Init, WithSlots, MergeWatched, TwoStreams, Given
<1> QED
  BY <1>4, <1>5 DEF MergeInv, Init, ShownOrPending, EmptyDropped

\* Every packet, command, time-out and turn of the super-loop keeps MergeInv.
THEOREM MergeStep == MergeInv /\ [Next]_vars => MergeInv'
<1> SUFFICES ASSUME MergeInv, [Next]_vars PROVE MergeInv'
  OBVIOUS
<1>t. /\ a \in [Ports -> Source] /\ b \in [Ports -> Source]
      /\ {merging, ltp, filled, pending, transmitting, started, shown, dropped} \subseteq SUBSET Ports
      /\ slots \in [Ports -> SUBSET Stream] /\ mergeMode \in BOOLEAN
      /\ dmxIp \in {s.ip : s \in Stream} \cup {None}
      /\ syncLeft \in 0..SyncTimeout /\ packetAge \in 0..Oldest
      /\ heard \in [Ports -> [Stream -> 0..Oldest]]
  BY DEF MergeInv, MergeTypeOK
<1>0. 0 \in 0..Oldest /\ SyncTimeout \in Nat
  BY OldestNat, MergeAssumption
<1>k. ASSUME UNCHANGED <<a, b, merging, mergeMode>> PROVE WithSlots' /\ MergeWatched' /\ TwoStreams'
  BY <1>t, <1>k, SourcesKept
<1>1. ASSUME NEW p \in Ports, NEW s \in Streams[p], ArtDmx(p, s) PROVE MergeInv'
  <2>1. packetAge' = 0 /\ dmxIp' = s.ip /\ UNCHANGED <<ltp, syncLeft>>
    BY <1>1 DEF ArtDmx
  <2>2. \/ \E slot \in Slot(Checked(p).a, Checked(p).b, s) : Accept(p, s, Checked(p), slot)
        \/ Discard(p, Checked(p))
    BY <1>1 DEF ArtDmx
  <2> QED
    BY <2>1, <2>2, AcceptStep, DiscardStep
<1>2. ASSUME NEW ip, ArtSync(ip) PROVE MergeInv'
  <2>1. MergeTypeOK' /\ ShownOrPending' /\ EmptyDropped'
    BY <1>0, <1>2, <1>t DEF ArtSync, Flush, data, MergeTypeOK, ShownOrPending, EmptyDropped, MergeInv
  <2>2. WithSlots' /\ MergeWatched' /\ TwoStreams'
    BY <1>2, <1>k DEF ArtSync
  <2> QED
    BY <2>1, <2>2 DEF MergeInv
<1>3. CASE ArtAddressCancel
  <2>1. a' \in [Ports -> Source] /\ b' \in [Ports -> Source] /\ WithSlots' /\ MergeWatched' /\ TwoStreams'
    BY <1>3, SourcesForgotten DEF ArtAddressCancel, Cancel
  <2>2. MergeTypeOK' /\ ShownOrPending' /\ EmptyDropped'
    <3>1. heard' \in [Ports -> [Stream -> 0..Oldest]]
      BY <1>3, UnheardType DEF ArtAddressCancel, Cancel
    <3>2. merging' \in SUBSET Ports /\ mergeMode' \in BOOLEAN /\ packetAge' \in 0..Oldest
      BY <1>0, <1>3 DEF ArtAddressCancel, Cancel
    <3>3. UNCHANGED <<ltp, filled, pending, transmitting, started, shown, dropped, slots, dmxIp, syncLeft>>
      BY <1>3 DEF ArtAddressCancel, data
    <3>4. MergeTypeOK'
      BY <1>t, <2>1, <3>1, <3>2, <3>3 DEF MergeTypeOK
    <3>5. ShownOrPending' /\ EmptyDropped'
      BY <3>3 DEF ShownOrPending, EmptyDropped, MergeInv
    <3> QED
      BY <3>4, <3>5
  <2> QED
    BY <2>1, <2>2 DEF MergeInv
<1>4. ASSUME NEW p \in Commanded, ArtAddressMergeMode(p) PROVE MergeInv'
  <2>1. p \in Ports
    BY MergeAssumption
  <2>2. MergeTypeOK' /\ ShownOrPending' /\ EmptyDropped'
    BY <1>0, <1>4, <1>t, <2>1 DEF ArtAddressMergeMode, data, MergeTypeOK, ShownOrPending, EmptyDropped, MergeInv
  <2>3. WithSlots' /\ MergeWatched' /\ TwoStreams'
    BY <1>4, <1>k DEF ArtAddressMergeMode
  <2> QED
    BY <2>2, <2>3 DEF MergeInv
<1>5. ASSUME NEW p \in Commanded, ArtRdm(p) PROVE MergeInv'
  <2>1. MergeTypeOK' /\ ShownOrPending' /\ EmptyDropped'
    BY <1>0, <1>5, <1>t DEF ArtRdm, MergeTypeOK, ShownOrPending, EmptyDropped, MergeInv
  <2>2. WithSlots' /\ MergeWatched' /\ TwoStreams'
    BY <1>5, <1>k DEF ArtRdm
  <2> QED
    BY <2>1, <2>2 DEF MergeInv
<1>6. CASE NetworkLost
  <2>1. /\ a' \in [Ports -> Source] /\ b' \in [Ports -> Source]
        /\ WithSlots' /\ MergeWatched' /\ TwoStreams'
    <3>1. CASE \E p \in Ports : a[p].ip # None \/ b[p].ip # None
      BY <1>6, <3>1, SourcesForgotten DEF NetworkLost
    <3>2. CASE \A p \in Ports : a[p].ip = None /\ b[p].ip = None
      BY <1>6, <1>t, <3>2 DEF NetworkLost, MergeInv, WithSlots, MergeWatched, TwoStreams, Given, Live
    <3> QED
      BY <3>1, <3>2
  <2>2. /\ filled' \in SUBSET Ports /\ dropped' \in SUBSET Ports
        /\ heard' \in [Ports -> [Stream -> 0..Oldest]]
    BY <1>6, <1>t, UnheardType DEF NetworkLost
  <2>3. /\ mergeMode' = FALSE /\ syncLeft' = 0
        /\ merging' = merging /\ ltp' = ltp /\ slots' = slots /\ pending' = pending
        /\ transmitting' = transmitting /\ started' = started /\ shown' = shown
        /\ dmxIp' = dmxIp /\ packetAge' = packetAge
    BY <1>6 DEF NetworkLost
  <2>4. MergeTypeOK'
    <3>1. {merging, ltp, filled, pending, transmitting, started, shown, dropped}' \subseteq SUBSET Ports
      BY <1>t, <2>2, <2>3
    <3>2. syncLeft' \in 0..SyncTimeout
      BY <1>0, <2>3
    <3>3. mergeMode' \in BOOLEAN
      BY <2>3, Zenon
    <3>4. slots' \in [Ports -> SUBSET Stream] /\ packetAge' \in 0..Oldest
      BY <1>t, <2>3
    <3>5. dmxIp' \in {s.ip : s \in Stream} \cup {None}
      BY <1>t, <2>3
    <3> QED
      BY <2>1, <2>2, <3>1, <3>2, <3>3, <3>4, <3>5 DEF MergeTypeOK
  <2>5. ShownOrPending' /\ EmptyDropped'
    BY <1>6, <2>3 DEF NetworkLost, ShownOrPending, EmptyDropped, MergeInv
  <2> QED
    BY <2>1, <2>4, <2>5 DEF MergeInv
<1>7. CASE Tick
  <2>1. /\ a' \in [Ports -> Source] /\ b' \in [Ports -> Source]
        /\ WithSlots' /\ MergeWatched' /\ TwoStreams'
    BY <1>7, <1>t, AgedFacts, SourcesKept DEF Tick
  <2>2. heard' \in [Ports -> [Stream -> 0..Oldest]] /\ packetAge' \in 0..Oldest
    BY <1>7, <1>t, OlderType DEF Tick
  <2>3. syncLeft' \in 0..SyncTimeout
    BY <1>0, <1>7, <1>t DEF Tick
  <2>4. MergeTypeOK' /\ ShownOrPending' /\ EmptyDropped'
    BY <1>7, <1>t, <2>1, <2>2, <2>3 DEF Tick, data, MergeTypeOK, ShownOrPending, EmptyDropped, MergeInv
  <2> QED
    BY <2>1, <2>4 DEF MergeInv
<1>8. CASE UNCHANGED vars
  <2>1. MergeTypeOK' /\ ShownOrPending' /\ EmptyDropped'
    BY <1>8, <1>t DEF vars, data, MergeTypeOK, ShownOrPending, EmptyDropped, MergeInv
  <2> QED
    BY <1>8, <1>k, <2>1 DEF vars, MergeInv
<1> QED
  BY <1>1, <1>2, <1>3, <1>4, <1>5, <1>6, <1>7, <1>8 DEF Next

LEMMA MergeSafe == Spec => []MergeInv
BY MergeInitially, MergeStep, PTL DEF Spec

\* The variables keep their types, for every set of ports, senders and time-outs.
THEOREM MergeTypeCorrect == Spec => []MergeTypeOK
<1>1. MergeInv => MergeTypeOK
  BY DEF MergeInv
<1> QED
  BY MergeSafe, <1>1, PTL

\* The node watches the time-outs as long as any port has two sources, although
\* CheckMergeTimeouts() looks at one port and decides for the whole node.
THEOREM MergeAlwaysWatched == Spec => []MergeWatched
<1>1. MergeInv => MergeWatched
  BY DEF MergeInv
<1> QED
  BY MergeSafe, <1>1, PTL

\* The two sources of a port are never one stream taken twice, whichever of them
\* timed out first.
THEOREM AlwaysTwoStreams == Spec => []TwoStreams
<1>1. MergeInv => TwoStreams
  BY DEF MergeInv
<1> QED
  BY MergeSafe, <1>1, PTL

\* The slots a port took last are with the transmitter or wait, with their length,
\* for the next ArtSync, unless the network was lost while they waited.
THEOREM AlwaysShownOrPending == Spec => []ShownOrPending
<1>1. MergeInv => ShownOrPending
  BY DEF MergeInv
<1> QED
  BY MergeSafe, <1>1, PTL

(***************************************************************************)
(* What is merged: the sources of a port are the streams heard lately.     *)
(***************************************************************************)

\* A live source keeps what the stream it was taken for sent last, as old as
\* the last packet heard of that stream (h[t]: time since one of t was accepted).
Remembers(p, h, source) ==
    Live(source) => /\ source.data \in Streams[p]
                    /\ source.data.ip = source.ip /\ source.data.physical = source.physical
                    /\ h[source.data] = source.age

\* Every stream heard within the time-out is one of the two sources.
Holds(h, sa, sb) ==
    \A t \in Stream : h[t] <= MergeTimeout =>
        (Live(sa) /\ sa.data = t) \/ (Live(sb) /\ sb.data = t)

PortHeard(p, h, sa, sb) == Remembers(p, h, sa) /\ Remembers(p, h, sb) /\ Holds(h, sa, sb)

HeardInv == \A p \in Ports : PortHeard(p, heard[p], a[p], b[p])

LEMMA OldestFacts == Oldest \in Nat /\ MergeTimeout \in Nat /\ MergeTimeout < Oldest
BY MergeAssumption DEF Oldest, Max2

\* The source a packet is taken for is not live or already that of its stream.
LEMMA SlotSource ==
    ASSUME NEW sa, NEW sb, NEW s, s.ip # None, NEW slot \in Slot(sa, sb, s)
    PROVE  /\ slot \in {"a", "mergeA"} => ~Live(sa) \/ SameStream(sa, s)
           /\ slot \in {"b", "mergeB"} => ~Live(sb) \/ SameStream(sb, s)
<1> USE DEF Slot, Live, SameStream
<1>1. CASE sa.ip = None /\ sb.ip = None
  BY <1>1
<1>2. CASE sa.ip = s.ip /\ sb.ip = None
  BY <1>2
<1>3. CASE sa.ip = None /\ sb.ip = s.ip
  BY <1>3
<1>4. CASE sa.ip \notin {None, s.ip} /\ sb.ip = None
  BY <1>4
<1>5. CASE sa.ip = None /\ sb.ip \notin {None, s.ip}
  BY <1>5
<1>6. CASE sa.ip # None /\ sb.ip # None
  <2>1. Slot(sa, sb, s) = IF SameStream(sa, s) THEN {"mergeA"}
                          ELSE IF SameStream(sb, s) THEN {"mergeB"} ELSE {}
    BY <1>6
  <2> QED
    BY <2>1
<1> QED
  BY <1>1, <1>2, <1>3, <1>4, <1>5, <1>6

\* A packet of a stream that is a live source is never discarded.
LEMMA SlotFound ==
    ASSUME NEW sa, NEW sb, NEW s, s.ip # None, Distinct(sa, sb),
           (Live(sa) /\ SameStream(sa, s)) \/ (Live(sb) /\ SameStream(sb, s))
    PROVE  Slot(sa, sb, s) # {}
<1> USE DEF Slot, Live, SameStream
<1>1. CASE sa.ip = s.ip /\ sb.ip = None
  BY <1>1
<1>2. CASE sa.ip = None /\ sb.ip = s.ip
  BY <1>2
<1>3. CASE sa.ip # None /\ sb.ip # None
  <2>1. Slot(sa, sb, s) = IF SameStream(sa, s) THEN {"mergeA"}
                          ELSE IF SameStream(sb, s) THEN {"mergeB"} ELSE {}
    BY <1>3
  <2> QED
    BY <2>1
<1> QED
  BY <1>1, <1>2, <1>3

LEMMA PortHeardSwap ==
    ASSUME NEW p, NEW h, NEW sa, NEW sb
    PROVE  PortHeard(p, h, sa, sb) <=> PortHeard(p, h, sb, sa)
BY DEF PortHeard, Holds

\* A packet of s takes the place of a source that is not live or is of s.
LEMMA TakenHeard ==
    ASSUME NEW p \in Ports, NEW s \in Streams[p], NEW h \in [Stream -> 0..Oldest],
           NEW sa, NEW sb, PortHeard(p, h, sa, sb),
           ~Live(sa) \/ SameStream(sa, s), ~Live(sb) \/ ~SameStream(sb, s)
    PROVE  PortHeard(p, [h EXCEPT ![s] = 0], Taken(s), sb)
<1> DEFINE g == [h EXCEPT ![s] = 0]
<1>1. s \in Stream /\ s.ip # None
  BY StreamFacts
<1>2. /\ Live(Taken(s)) /\ Taken(s).data = s /\ Taken(s).age = 0
      /\ Taken(s).ip = s.ip /\ Taken(s).physical = s.physical
  BY <1>1 DEF Taken, Live
<1>3. g[s] = 0 /\ \A t \in Stream \ {s} : g[t] = h[t]
  BY <1>1
<1> HIDE DEF g
<1>4. Remembers(p, g, Taken(s))
  BY <1>2, <1>3 DEF Remembers
<1>5. Live(sb) => sb.data \in Stream \ {s}
  BY StreamFacts DEF PortHeard, Remembers, SameStream
<1>6. Remembers(p, g, sb)
  BY <1>3, <1>5 DEF PortHeard, Remembers
<1>7. ASSUME NEW t \in Stream, g[t] <= MergeTimeout
      PROVE  (Live(Taken(s)) /\ Taken(s).data = t) \/ (Live(sb) /\ sb.data = t)
  <2>1. CASE t = s
    BY <1>2, <2>1
  <2>2. CASE t # s
    <3>1. (Live(sa) /\ sa.data = t) \/ (Live(sb) /\ sb.data = t)
      BY <1>3, <1>7, <2>2 DEF PortHeard, Holds
    <3>2. ~(Live(sa) /\ sa.data = t)
      <4> SUFFICES ASSUME Live(sa), sa.data = t PROVE FALSE
        OBVIOUS
      <4>1. t \in Streams[p] /\ t.ip = sa.ip /\ t.physical = sa.physical
        BY DEF PortHeard, Remembers
      <4>2. t.ip = s.ip /\ t.physical = s.physical
        BY <4>1 DEF SameStream
      <4> QED
        BY <2>2, <4>1, <4>2, MergeAssumption
    <3> QED
      BY <3>1, <3>2
  <2> QED
    BY <2>1, <2>2
<1>8. Holds(g, Taken(s), sb)
  BY <1>7 DEF Holds
<1> QED
  BY <1>4, <1>6, <1>8 DEF PortHeard, g

\* CheckMergeTimeouts() forgets no stream that was heard within the time-out and
\* leaves, while the node watches the time-outs, no other.
LEMMA CheckedHeard ==
    ASSUME MergeInv, HeardInv, NEW p \in Ports, NEW c, c = Checked(p)
    PROVE  /\ PortHeard(p, heard[p], c.a, c.b)
           /\ mergeMode => /\ Live(c.a) => c.a.age <= MergeTimeout
                           /\ Live(c.b) => c.b.age <= MergeTimeout
<1>1. a[p] \in Source /\ b[p] \in Source /\ heard[p] \in [Stream -> 0..Oldest]
  BY DEF MergeInv, MergeTypeOK
<1>2. PortHeard(p, heard[p], a[p], b[p])
  BY DEF HeardInv
<1>3. CASE ~mergeMode
  BY <1>2, <1>3 DEF Checked
<1>4. CASE mergeMode
  <2>1. c.a = Expired(a[p]) /\ c.b = Expired(b[p])
    BY <1>4 DEF Checked
  <2>2. ASSUME NEW source \in Source
        PROVE  /\ source.age \in Nat
               /\ source.age <= MergeTimeout => Expired(source) = source
               /\ Live(Expired(source)) => Expired(source) = source /\ source.age <= MergeTimeout
    <3>1. source.age \in Nat /\ MergeTimeout \in Nat
      <4>1. source.age \in 0..Oldest
        BY DEF Source
      <4> QED
        BY <4>1, OldestFacts
    <3>2. TimedOut(source) <=> ~(source.age <= MergeTimeout)
      BY <3>1 DEF TimedOut
    <3>3. Live(Expired(source)) => Expired(source) = source /\ ~TimedOut(source)
      BY ExpiredFacts
    <3> QED
      BY <3>1, <3>2, <3>3 DEF Expired
  <2>3. Remembers(p, heard[p], c.a) /\ Remembers(p, heard[p], c.b)
    BY <1>1, <1>2, <2>1, <2>2 DEF PortHeard, Remembers
  <2>4. Holds(heard[p], c.a, c.b)
    <3> SUFFICES ASSUME NEW t \in Stream, heard[p][t] <= MergeTimeout
                 PROVE  (Live(c.a) /\ c.a.data = t) \/ (Live(c.b) /\ c.b.data = t)
      BY DEF Holds
    <3>1. (Live(a[p]) /\ a[p].data = t) \/ (Live(b[p]) /\ b[p].data = t)
      BY <1>2 DEF PortHeard, Holds
    <3>2. Live(a[p]) /\ a[p].data = t => a[p].age <= MergeTimeout
      BY <1>2 DEF PortHeard, Remembers
    <3>3. Live(b[p]) /\ b[p].data = t => b[p].age <= MergeTimeout
      BY <1>2 DEF PortHeard, Remembers
    <3> QED
      BY <1>1, <2>1, <2>2, <3>1, <3>2, <3>3
  <2>5. /\ Live(c.a) => c.a.age <= MergeTimeout
        /\ Live(c.b) => c.b.age <= MergeTimeout
    BY <1>1, <2>1, <2>2
  <2> QED
    BY <2>3, <2>4, <2>5 DEF PortHeard
<1> QED
  BY <1>3, <1>4

\* A packet that is accepted: the sources of its port are still those heard, and
\* the slots those of the sources it is merged with.
LEMMA AcceptHeard ==
    ASSUME MergeInv, HeardInv, NEW p \in Ports, NEW s \in Streams[p], NEW c, c = Checked(p),
           NEW slot \in Slot(c.a, c.b, s), Accept(p, s, c, slot)
    PROVE  /\ HeardInv'
           /\ IF p \in ltp THEN slots'[p] = {s}
              ELSE slots'[p] = { r.data : r \in {x \in {a'[p], b'[p]} : Live(x)} }
           /\ mergeMode => /\ Live(a'[p]) => a'[p].age <= MergeTimeout
                           /\ Live(b'[p]) => b'[p].age <= MergeTimeout
<1> DEFINE merge == slot \in {"mergeA", "mergeB"}
           sa == IF slot \in {"a", "mergeA"} THEN Taken(s) ELSE c.a
           sb == IF slot \in {"b", "mergeB"} THEN Taken(s) ELSE c.b
           h == [heard[p] EXCEPT ![s] = 0]
<1>1. /\ a \in [Ports -> Source] /\ b \in [Ports -> Source]
      /\ slots \in [Ports -> SUBSET Stream] /\ heard \in [Ports -> [Stream -> 0..Oldest]]
  BY DEF MergeInv, MergeTypeOK
<1>2. s \in Stream /\ s.ip # None
  BY StreamFacts
<1>3. Live(Taken(s)) /\ Taken(s).data = s /\ Taken(s).age <= MergeTimeout
  BY <1>2, OldestFacts DEF Taken, Live
<1>4. /\ PortHeard(p, heard[p], c.a, c.b)
      /\ mergeMode => /\ Live(c.a) => c.a.age <= MergeTimeout
                      /\ Live(c.b) => c.b.age <= MergeTimeout
  BY CheckedHeard
<1>5. Distinct(c.a, c.b)
  BY CheckedFacts DEF MergeInv, TwoStreams, Distinct
<1>6. \/ slot = "a" /\ ~Live(c.b)
      \/ slot = "b" /\ ~Live(c.a)
      \/ slot = "mergeA" /\ Live(c.b) /\ ~SameStream(c.b, s)
      \/ slot = "mergeB" /\ Live(c.a) /\ ~SameStream(c.a, s)
  BY <1>2, <1>5, SlotFacts DEF SameStream
<1>7. /\ slot \in {"a", "mergeA"} => ~Live(c.a) \/ SameStream(c.a, s)
      /\ slot \in {"b", "mergeB"} => ~Live(c.b) \/ SameStream(c.b, s)
  BY <1>2, SlotSource
<1>8. /\ a' = [a EXCEPT ![p] = sa] /\ b' = [b EXCEPT ![p] = sb]
      /\ slots' = [slots EXCEPT ![p] = IF merge THEN Merged(p, sa, sb, s) ELSE {s}]
      /\ heard' = [heard EXCEPT ![p][s] = 0]
  BY DEF Accept
<1>9. /\ a'[p] = sa /\ b'[p] = sb /\ heard'[p] = h
      /\ slots'[p] = IF merge THEN Merged(p, sa, sb, s) ELSE {s}
      /\ \A q \in Ports \ {p} : a'[q] = a[q] /\ b'[q] = b[q] /\ heard'[q] = heard[q]
  BY <1>1, <1>8
<1>10. PortHeard(p, h, sa, sb)
  <2>1. heard[p] \in [Stream -> 0..Oldest]
    BY <1>1
  <2>2. CASE slot \in {"a", "mergeA"}
    BY <1>4, <1>6, <1>7, <2>1, <2>2, TakenHeard
  <2>3. CASE slot \in {"b", "mergeB"}
    <3>1. PortHeard(p, heard[p], c.b, c.a)
      BY <1>4, PortHeardSwap
    <3>2. PortHeard(p, h, Taken(s), c.a)
      BY <1>6, <1>7, <2>1, <2>3, <3>1, TakenHeard
    <3> QED
      BY <2>3, <3>2, PortHeardSwap
  <2> QED
    BY <1>6, <2>2, <2>3
<1>11. HeardInv'
  <2>1. ASSUME NEW q \in Ports PROVE PortHeard(q, heard'[q], a'[q], b'[q])
    <3>1. CASE q = p
      BY <1>9, <1>10, <3>1
    <3>2. CASE q # p
      BY <1>9, <3>2 DEF HeardInv
    <3> QED
      BY <3>1, <3>2
  <2> QED
    BY <2>1 DEF HeardInv, PortHeard, Remembers, Holds, Live
<1>12. mergeMode => (Live(sa) => sa.age <= MergeTimeout) /\ (Live(sb) => sb.age <= MergeTimeout)
  BY <1>3, <1>4
<1>13. merge => Live(sa) /\ Live(sb)
  BY <1>3, <1>6
<1>14. ~merge => \/ sa = Taken(s) /\ ~Live(sb)
                 \/ sb = Taken(s) /\ ~Live(sa)
  BY <1>6
<1>15. (IF merge THEN {sa.data, sb.data} ELSE {s}) = { r.data : r \in {x \in {sa, sb} : Live(x)} }
  <2> HIDE DEF sa, sb, merge
  <2>1. CASE merge
    <3>1. {x \in {sa, sb} : Live(x)} = {sa, sb}
      BY <1>13, <2>1
    <3> QED
      BY <2>1, <3>1
  <2>2. CASE ~merge
    <3>1. {x \in {sa, sb} : Live(x)} = {Taken(s)}
      BY <1>3, <1>14, <2>2
    <3> QED
      BY <1>3, <2>2, <3>1
  <2> QED
    BY <2>1, <2>2
<1> HIDE DEF sa, sb, merge, h
<1>16. IF p \in ltp THEN slots'[p] = {s}
       ELSE slots'[p] = { r.data : r \in {x \in {a'[p], b'[p]} : Live(x)} }
  BY <1>9, <1>15 DEF Merged
<1> QED
  BY <1>9, <1>11, <1>12, <1>16

LEMMA DiscardHeard ==
    ASSUME MergeInv, HeardInv, NEW p \in Ports, NEW c, c = Checked(p), Discard(p, c)
    PROVE  HeardInv'
<1>1. /\ a \in [Ports -> Source] /\ b \in [Ports -> Source]
  BY DEF MergeInv, MergeTypeOK
<1>2. /\ a'[p] = c.a /\ b'[p] = c.b /\ heard' = heard
      /\ \A q \in Ports \ {p} : a'[q] = a[q] /\ b'[q] = b[q]
  BY <1>1 DEF Discard
<1>3. ASSUME NEW q \in Ports PROVE PortHeard(q, heard'[q], a'[q], b'[q])
  <2>1. CASE q = p
    BY <1>2, <2>1, CheckedHeard
  <2>2. CASE q # p
    BY <1>2, <2>2 DEF HeardInv
  <2> QED
    BY <2>1, <2>2
<1> QED
  BY <1>3 DEF HeardInv, PortHeard, Remembers, Holds, Live

\* No stream is heard once all sources are forgotten.
LEMMA ForgottenHeard ==
    ASSUME NEW f, NEW g, NEW h, h = Unheard,
           \A p \in Ports : ~Live(f[p]) /\ ~Live(g[p])
    PROVE  \A p \in Ports : PortHeard(p, h[p], f[p], g[p])
<1>1. \A p \in Ports : \A t \in Stream : ~(h[p][t] <= MergeTimeout)
  BY OldestFacts DEF Unheard
<1> QED
  BY <1>1 DEF PortHeard, Remembers, Holds

LEMMA OlderFacts ==
    \A age \in 0..Oldest : age <= Older(age)
BY OldestFacts DEF Older

\* Sources and streams grow old together.
LEMMA AgedHeard ==
    ASSUME MergeInv, HeardInv, NEW h,
           h = [p \in Ports |-> [s \in Stream |-> Older(heard[p][s])]]
    PROVE  \A p \in Ports : PortHeard(p, h[p], Aged(a)[p], Aged(b)[p])
<1>1. ASSUME NEW f \in [Ports -> Source], NEW p \in Ports
      PROVE  Aged(f)[p] = [f[p] EXCEPT !.age = Older(@)]
             /\ Aged(f)[p].age = Older(f[p].age) /\ Aged(f)[p].data = f[p].data
             /\ Aged(f)[p].ip = f[p].ip /\ Aged(f)[p].physical = f[p].physical
  BY DEF Aged, Source
<1>2. /\ a \in [Ports -> Source] /\ b \in [Ports -> Source]
      /\ heard \in [Ports -> [Stream -> 0..Oldest]]
  BY DEF MergeInv, MergeTypeOK
<1>3. ASSUME NEW p \in Ports, NEW f \in [Ports -> Source], Remembers(p, heard[p], f[p])
      PROVE  Remembers(p, h[p], Aged(f)[p])
  <2> DEFINE g == Aged(f)[p]
             d == f[p].data
             i == h[p]
  <2>1. /\ g.age = Older(f[p].age) /\ g.data = d
        /\ g.ip = f[p].ip /\ g.physical = f[p].physical
    BY <1>1
  <2> HIDE DEF g
  <2> SUFFICES ASSUME Live(g) PROVE Remembers(p, i, g)
    BY DEF g, Remembers
  <2>2. /\ d \in Streams[p] /\ d.ip = f[p].ip
        /\ d.physical = f[p].physical /\ heard[p][d] = f[p].age
    BY <1>3, <2>1 DEF Remembers, Live
  <2>3. i[d] = Older(heard[p][d])
    BY <2>2, StreamFacts
  <2>4. i[d] = g.age
    BY <2>1, <2>2, <2>3
  <2> HIDE DEF d, i
  <2> QED
    BY <2>1, <2>2, <2>4 DEF Remembers
<1>4. ASSUME NEW p \in Ports PROVE Holds(h[p], Aged(a)[p], Aged(b)[p])
  <2> SUFFICES ASSUME NEW t \in Stream, h[p][t] <= MergeTimeout
               PROVE  \/ Live(Aged(a)[p]) /\ Aged(a)[p].data = t
                      \/ Live(Aged(b)[p]) /\ Aged(b)[p].data = t
    BY DEF Holds
  <2>1. heard[p][t] \in 0..Oldest /\ h[p][t] = Older(heard[p][t])
    BY <1>2
  <2>2. heard[p][t] <= MergeTimeout
    <3> DEFINE x == heard[p][t]
    <3>1. x \in 0..Oldest /\ x <= Older(x) /\ Older(x) \in 0..Oldest /\ Older(x) <= MergeTimeout
      BY <2>1, OlderFacts, OlderType
    <3> HIDE DEF x
    <3>2. x <= MergeTimeout
      BY <3>1, OldestFacts
    <3> QED
      BY <3>2 DEF x
  <2>3. (Live(a[p]) /\ a[p].data = t) \/ (Live(b[p]) /\ b[p].data = t)
    BY <2>2 DEF HeardInv, PortHeard, Holds
  <2> QED
    BY <1>1, <1>2, <2>3 DEF Live
<1> QED
  BY <1>2, <1>3, <1>4 DEF HeardInv, PortHeard

LEMMA HeardInitially == Init => HeardInv
<1> SUFFICES ASSUME Init PROVE HeardInv
  OBVIOUS
<1>1. \A p \in Ports : ~Live(a[p]) /\ ~Live(b[p])
  BY DEF Init, Live
<1>2. heard = Unheard
  BY DEF Init, Unheard
<1> QED
  BY <1>1, <1>2, ForgottenHeard DEF HeardInv

\* Every packet, command, time-out and turn of the super-loop keeps HeardInv.
LEMMA HeardStep == MergeInv /\ HeardInv /\ [Next]_vars => HeardInv'
<1> SUFFICES ASSUME MergeInv, HeardInv, [Next]_vars PROVE HeardInv'
  OBVIOUS
<1>0. a \in [Ports -> Source] /\ b \in [Ports -> Source]
  BY DEF MergeInv, MergeTypeOK
<1>k. ASSUME \A p \in Ports : PortHeard(p, heard'[p], a'[p], b'[p]) PROVE HeardInv'
  BY <1>k DEF HeardInv, PortHeard, Remembers, Holds, Live
<1>u. ASSUME UNCHANGED <<a, b, heard>> PROVE HeardInv'
  BY <1>k, <1>u DEF HeardInv
<1>f. ASSUME a' = Forgotten(a), b' = Forgotten(b), heard' = Unheard PROVE HeardInv'
  <2>1. \A p \in Ports : ~Live(a'[p]) /\ ~Live(b'[p])
    BY <1>0, <1>f, ForgottenFacts
  <2> QED
    BY <1>f, <1>k, <2>1, ForgottenHeard
<1>1. ASSUME NEW p \in Ports, NEW s \in Streams[p], ArtDmx(p, s) PROVE HeardInv'
  <2>1. \/ \E slot \in Slot(Checked(p).a, Checked(p).b, s) : Accept(p, s, Checked(p), slot)
        \/ Discard(p, Checked(p))
    BY <1>1 DEF ArtDmx
  <2> QED
    BY <2>1, AcceptHeard, DiscardHeard
<1>2. ASSUME NEW ip, ArtSync(ip) PROVE HeardInv'
  BY <1>2, <1>u DEF ArtSync
<1>3. CASE ArtAddressCancel
  BY <1>3, <1>f DEF ArtAddressCancel, Cancel
<1>4. ASSUME NEW p \in Commanded, ArtAddressMergeMode(p) PROVE HeardInv'
  BY <1>4, <1>u DEF ArtAddressMergeMode
<1>5. ASSUME NEW p \in Commanded, ArtRdm(p) PROVE HeardInv'
  BY <1>5, <1>u DEF ArtRdm
<1>6. CASE NetworkLost
  BY <1>6, <1>u, <1>f DEF NetworkLost
<1>7. CASE Tick
  <2>1. \A p \in Ports : PortHeard(p, heard'[p], a'[p], b'[p])
    BY <1>7, AgedHeard DEF Tick
  <2> QED
    BY <1>k, <2>1
<1>8. CASE UNCHANGED vars
  BY <1>8, <1>u DEF vars
<1> QED
  BY <1>1, <1>2, <1>3, <1>4, <1>5, <1>6, <1>7, <1>8 DEF Next

\* The slots of a port after a packet of stream s was accepted or, though s was
\* heard at this very moment, discarded: which cannot be.
LEMMA DmxOutput ==
    ASSUME MergeInv, HeardInv, NEW p \in Ports, NEW s \in Streams[p],
           ArtDmx(p, s), heard'[p][s] = 0
    PROVE  IF p \in ltp THEN s \in slots'[p]
           ELSE /\ LiveStreams(p)' \subseteq slots'[p]
                /\ mergeMode => slots'[p] \subseteq LiveStreams(p)'
<1> DEFINE c == Checked(p)
<1>0. s \in Stream /\ s.ip # None
  BY StreamFacts
<1>1. Slot(c.a, c.b, s) # {}
  <2> SUFFICES ASSUME Slot(c.a, c.b, s) = {} PROVE FALSE
    OBVIOUS
  <2>1. heard' = heard
    BY DEF ArtDmx, Discard
  <2>2. heard[p][s] <= MergeTimeout
    BY <2>1, OldestFacts
  <2>3. PortHeard(p, heard[p], c.a, c.b)
    BY CheckedHeard
  <2>4. (Live(c.a) /\ SameStream(c.a, s)) \/ (Live(c.b) /\ SameStream(c.b, s))
    BY <1>0, <2>2, <2>3 DEF PortHeard, Holds, Remembers, SameStream
  <2>5. Distinct(c.a, c.b)
    BY CheckedFacts DEF MergeInv, TwoStreams, Distinct
  <2> QED
    BY <1>0, <2>4, <2>5, SlotFound
<1>2. PICK slot \in Slot(c.a, c.b, s) : Accept(p, s, c, slot)
  BY <1>1 DEF ArtDmx
<1>3. /\ HeardInv'
      /\ IF p \in ltp THEN slots'[p] = {s}
         ELSE slots'[p] = { r.data : r \in {x \in {a'[p], b'[p]} : Live(x)} }
      /\ mergeMode => /\ Live(a'[p]) => a'[p].age <= MergeTimeout
                      /\ Live(b'[p]) => b'[p].age <= MergeTimeout
  BY <1>2, AcceptHeard
<1>4. PortHeard(p, heard'[p], a'[p], b'[p])
  BY <1>3 DEF HeardInv, PortHeard, Remembers, Holds, Live
<1>5. LiveStreams(p)' = { t \in Stream : heard'[p][t] <= MergeTimeout }
  BY DEF LiveStreams
<1>6. CASE p \in ltp
  BY <1>3, <1>6
<1>7. CASE p \notin ltp
  <2>1. slots'[p] = { r.data : r \in {x \in {a'[p], b'[p]} : Live(x)} }
    BY <1>3, <1>7
  <2>2. ASSUME NEW t \in Stream, heard'[p][t] <= MergeTimeout PROVE t \in slots'[p]
    BY <1>4, <2>1, <2>2 DEF PortHeard, Holds
  <2>3. ASSUME mergeMode, NEW r \in {a'[p], b'[p]}, Live(r)
        PROVE  r.data \in Stream /\ heard'[p][r.data] <= MergeTimeout
    <3>1. Remembers(p, heard'[p], r) /\ r.age <= MergeTimeout
      BY <1>3, <1>4, <2>3 DEF PortHeard
    <3> QED
      BY <2>3, <3>1, StreamFacts DEF Remembers
  <2> QED
    BY <1>5, <1>7, <2>1, <2>2, <2>3
<1> QED
  BY <1>6, <1>7

\* What a port sends after a packet is what its streams sent last: of all that
\* were heard within the time-out (HTP), whichever source had timed out, however
\* the other ports, commands and losses of the network came between.
THEOREM OutputAlwaysMerged == Spec => MergedOutput
<1>1. MergeInv /\ HeardInv /\ [Next]_vars =>
        [\A p \in Ports : \A s \in Streams[p] :
            heard'[p][s] = 0 /\ ArtDmx(p, s) =>
               IF p \in ltp THEN s \in slots'[p]
               ELSE /\ LiveStreams(p)' \subseteq slots'[p]
                    /\ mergeMode => slots'[p] \subseteq LiveStreams(p)']_vars
  BY DmxOutput
<1> QED
  BY <1>1, MergeSafe, HeardInitially, HeardStep, PTL DEF Spec, MergedOutput
=============================================================================
