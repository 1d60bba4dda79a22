------------------------ MODULE RdmDiscoveryTheorems ------------------------
(***************************************************************************)
(* The safety of the discovery of one port, for every UID width, every set *)
(* of devices, every table size and every number of tries, on a line that  *)
(* loses and delays what it likes while devices come and go.               *)
(***************************************************************************)
EXTENDS RdmDiscoveryProperties, SequenceTheorems, FiniteSetTheorems, WellFoundedInduction,
        TLAPS

(***************************************************************************)
(* What AddUid and Delete of the table of devices do to a table, for every *)
(* size of the table.                                                      *)
(***************************************************************************)

\* AddUid() keeps a table a table, adds at most the UID given and no second
\* copy of one.
LEMMA AddUidFacts ==
    ASSUME NEW U, NEW list \in Seq(U), NEW uid \in U
    PROVE  /\ AddUid(list, uid) \in Seq(U)
           /\ Uids(list) \subseteq Uids(AddUid(list, uid))
           /\ Uids(AddUid(list, uid)) \subseteq Uids(list) \cup {uid}
           /\ NoDuplicates(list) => NoDuplicates(AddUid(list, uid))
<1>1. CASE Len(list) = TableSize \/ Exist(list, uid)
  <2>1. AddUid(list, uid) = list
    BY <1>1 DEF AddUid
  <2> QED
    BY <2>1
<1>2. CASE ~(Len(list) = TableSize \/ Exist(list, uid))
  <2> DEFINE new == Append(list, uid)
  <2>1. AddUid(list, uid) = new
    BY <1>2 DEF AddUid
  <2>2. /\ new \in Seq(U)
        /\ Len(new) = Len(list) + 1
        /\ Len(list) \in Nat
        /\ \A i \in 1..Len(list) : new[i] = list[i]
        /\ new[Len(list) + 1] = uid
    OBVIOUS
  <2>3. \A i \in 1..Len(list) : list[i] # uid
    BY <1>2 DEF Exist
  <2> HIDE DEF new
  <2>4. Uids(list) \subseteq Uids(new)
    BY <2>2 DEF Uids
  <2>5. Uids(new) \subseteq Uids(list) \cup {uid}
    <3>1. \A i \in 1..Len(new) : i \in 1..Len(list) \/ i = Len(list) + 1
      BY <2>2
    <3> QED
      BY <2>2, <3>1 DEF Uids
  <2>6. ASSUME NoDuplicates(list) PROVE NoDuplicates(new)
    <3>1. \A i \in 1..Len(new) : i \in 1..Len(list) \/ i = Len(list) + 1
      BY <2>2
    <3> QED
      BY <2>2, <2>3, <2>6, <3>1 DEF NoDuplicates
  <2> QED
    BY <2>1, <2>2, <2>4, <2>5, <2>6
<1> QED
  BY <1>1, <1>2

\* The search of Delete() finds the UID when it is there.
LEMMA FirstIndexFacts ==
    ASSUME NEW U, NEW list \in Seq(U), NEW uid, Exist(list, uid)
    PROVE  FirstIndex(list, uid) \in 1..Len(list) /\ list[FirstIndex(list, uid)] = uid
<1> DEFINE S == { i \in Nat : i \in 1..Len(list) /\ list[i] = uid }
<1>1. S # {} /\ S \subseteq Nat
  BY DEF Exist
<1>2. PICK m \in S : \A n \in S : ~(<<n, m>> \in OpToRel(<, Nat))
  <2> HIDE DEF S
  <2> QED
    BY <1>1, NatLessThanWellFounded, WFMin
<1>3. \A n \in S : ~(n < m)
  BY <1>1, <1>2 DEF OpToRel
<1>4. \A j \in 1..(m - 1) : list[j] # uid
  <2>1. Len(list) \in Nat /\ m \in 1..Len(list)
    OBVIOUS
  <2> SUFFICES ASSUME NEW j \in 1..(m - 1), list[j] = uid PROVE FALSE
    OBVIOUS
  <2>2. j \in S /\ j < m
    BY <2>1
  <2> QED
    BY <1>3, <2>2
<1>5. m \in 1..Len(list) /\ list[m] = uid
  OBVIOUS
<1> QED
  BY <1>4, <1>5 DEF FirstIndex

\* Delete() keeps a table a table, takes nothing but the UID given, leaves one
\* entry less when the UID was there, and makes no second copy.
LEMMA DeleteFacts ==
    ASSUME NEW U, NEW list \in Seq(U), NEW uid
    PROVE  /\ Delete(list, uid) \in Seq(U)
           /\ Len(list) - 1 <= Len(Delete(list, uid))
           /\ Uids(Delete(list, uid)) \subseteq Uids(list)
           /\ Uids(list) \ {uid} \subseteq Uids(Delete(list, uid))
           /\ NoDuplicates(list) => NoDuplicates(Delete(list, uid))
<1>1. CASE ~Exist(list, uid)
  BY <1>1 DEF Delete
<1>2. CASE Exist(list, uid)
  <2> DEFINE k == FirstIndex(list, uid)
             n == Len(list)
             new == [ j \in 1..(n - 1) |-> IF j < k THEN list[j] ELSE list[j + 1] ]
  <2>1. k \in 1..n /\ list[k] = uid
    BY <1>2, FirstIndexFacts
  <2>2. Delete(list, uid) = new
    BY <1>2 DEF Delete
  <2>3. n \in Nat /\ n - 1 \in Nat
    BY <2>1
  <2> HIDE DEF k
  <2>4. \A i \in 1..n : list[i] \in U
    OBVIOUS
  <2>5. new \in Seq(U) /\ Len(new) = n - 1
    <3>1. new \in [1..(n - 1) -> U]
      BY <2>1, <2>3, <2>4
    <3> HIDE DEF new, n
    <3> QED
      BY <3>1, <2>3
  <2>6. \A j \in 1..(n - 1) : new[j] = IF j < k THEN list[j] ELSE list[j + 1]
    OBVIOUS
  <2> HIDE DEF new
  <2>7. Uids(new) \subseteq Uids(list)
    BY <2>1, <2>3, <2>5, <2>6 DEF Uids
  <2>8. Uids(list) \ {uid} \subseteq Uids(new)
    <3> SUFFICES ASSUME NEW i \in 1..n, list[i] # uid
                 PROVE  list[i] \in Uids(new)
      BY DEF Uids
    <3>1. CASE i < k
      <4>1. i \in 1..(n - 1) /\ new[i] = list[i]
        BY <2>1, <2>3, <2>6, <3>1
      <4> QED
        BY <4>1, <2>5 DEF Uids
    <3>2. CASE ~(i < k)
      <4>1. i - 1 \in 1..(n - 1) /\ new[i - 1] = list[i]
        <5>1. i # k
          BY <2>1
        <5>2. i - 1 \in 1..(n - 1) /\ ~(i - 1 < k) /\ (i - 1) + 1 = i
          BY <2>1, <2>3, <3>2, <5>1
        <5> QED
          BY <2>6, <5>2
      <4> QED
        BY <4>1, <2>5 DEF Uids
    <3> QED
      BY <3>1, <3>2
  <2>9. ASSUME NoDuplicates(list) PROVE NoDuplicates(new)
    <3> SUFFICES ASSUME NEW i \in 1..(n - 1), NEW j \in 1..(n - 1), new[i] = new[j]
                 PROVE  i = j
      BY <2>5 DEF NoDuplicates
    <3> DEFINE at(x) == IF x < k THEN x ELSE x + 1
    <3>1. at(i) \in 1..n /\ at(j) \in 1..n
      BY <2>1, <2>3
    <3>2. list[at(i)] = new[i] /\ list[at(j)] = new[j]
      BY <2>6
    <3>3. at(i) = at(j)
      BY <2>9, <3>1, <3>2 DEF NoDuplicates
    <3> QED
      BY <2>1, <2>3, <3>3
  <2> QED
    BY <2>2, <2>3, <2>5, <2>7, <2>8, <2>9
<1> QED
  BY <1>1, <1>2

(***************************************************************************)
(* The UIDs.                                                               *)
(***************************************************************************)
LEMMA UidFacts ==
    /\ HighBit \in Nat /\ HighBit > 0 /\ HighBit % 2 = 0
    /\ LastUid \in Nat /\ LastUid + 1 \in Uid
    /\ \A u \in Nat : u <= LastUid => u \in Uid
    /\ \A u \in Uid : u \in Nat /\ u <= LastUid + 1
    /\ 0 \in Uid
    /\ Devices \subseteq Uid
BY DiscoveryAssumption DEF Uid, LastUid

\* mid_position is the rounded mean: masking the top bit loses nothing.
LEMMA MidPositionFacts ==
    ASSUME NEW l \in Uid, NEW u \in Uid
    PROVE  MidPosition(l, u) = (l + u) \div 2
<1> DEFINE H == HighBit \div 2
<1>1. H \in Nat /\ HighBit = 2 * H /\ l \in Nat /\ u \in Nat
  BY DiscoveryAssumption DEF Uid
<1> HIDE DEF H
<1>2. \A x \in Nat, k \in Nat : (x + 2 * k) \div 2 = (x \div 2) + k
  OBVIOUS
<1>3. CASE l < HighBit /\ u < HighBit
  BY <1>1, <1>3 DEF MidPosition, Low, HalfTop
<1>4. CASE l < HighBit /\ u >= HighBit
  <2>1. l + u = (l + (u - HighBit)) + 2 * H /\ l + (u - HighBit) \in Nat
    BY <1>1, <1>4
  <2>2. MidPosition(l, u) = (l + (u - HighBit)) \div 2 + H
    BY <1>1, <1>4 DEF MidPosition, Low, HalfTop, H
  <2> QED
    BY <1>1, <1>2, <2>1, <2>2
<1>5. CASE l >= HighBit /\ u < HighBit
  <2>1. l + u = ((l - HighBit) + u) + 2 * H /\ (l - HighBit) + u \in Nat
    BY <1>1, <1>5
  <2>2. MidPosition(l, u) = ((l - HighBit) + u) \div 2 + H
    BY <1>1, <1>5 DEF MidPosition, Low, HalfTop, H
  <2> QED
    BY <1>1, <1>2, <2>1, <2>2
<1>6. CASE l >= HighBit /\ u >= HighBit
  <2>1. l + u = ((l - HighBit) + (u - HighBit)) + 2 * HighBit
        /\ (l - HighBit) + (u - HighBit) \in Nat
    BY <1>1, <1>6
  <2>2. MidPosition(l, u) = ((l - HighBit) + (u - HighBit)) \div 2 + H + H
    BY <1>1, <1>6 DEF MidPosition, Low, HalfTop, H
  <2> QED
    BY <1>1, <1>2, <2>1, <2>2
<1> QED
  BY <1>1, <1>3, <1>4, <1>5, <1>6

\* The two halves of a branch of more than one UID.
LEMMA MidBetween ==
    ASSUME NEW l \in Uid, NEW u \in Uid, l < u
    PROVE  /\ MidPosition(l, u) \in Uid /\ MidPosition(l, u) + 1 \in Uid
           /\ l <= MidPosition(l, u) /\ MidPosition(l, u) < u
<1> DEFINE m == (l + u) \div 2
<1>1. l \in Nat /\ u \in Nat /\ u <= LastUid + 1
  BY UidFacts
<1>2. m \in Nat /\ l <= m /\ m < u
  BY <1>1
<1>3. m <= LastUid /\ m + 1 <= LastUid + 1
  BY <1>1, <1>2, UidFacts
<1>4. m \in Uid /\ m + 1 \in Uid
  <2> HIDE DEF m
  <2> QED
    BY <1>2, <1>3, DiscoveryAssumption DEF Uid, LastUid
<1> QED
  BY <1>2, <1>4, MidPositionFacts

\* Pushing the two halves of a branch.
LEMMA PushFacts ==
    ASSUME NEW stack \in Seq(UidRange), NEW l \in Uid, NEW u \in Uid, l < u
    PROVE  /\ stack \o Halves(l, u) \in Seq(UidRange)
           /\ Len(stack \o Halves(l, u)) = Len(stack) + 2
           /\ \A i \in 1..Len(stack) : (stack \o Halves(l, u))[i] = stack[i]
           /\ (stack \o Halves(l, u))[Len(stack) + 1] = <<l, MidPosition(l, u)>>
           /\ (stack \o Halves(l, u))[Len(stack) + 2] = <<MidPosition(l, u) + 1, u>>
<1> DEFINE m == MidPosition(l, u)
<1>1. m \in Uid /\ m + 1 \in Uid
  BY MidBetween
<1> HIDE DEF m
<1> DEFINE a == <<l, m>>
           b == <<m + 1, u>>
<1>2. a \in UidRange /\ b \in UidRange
  BY <1>1 DEF UidRange
<1>3. Halves(l, u) = <<a, b>>
  BY DEF Halves, m
<1> HIDE DEF a, b
<1>4. <<a, b>> \in Seq(UidRange) /\ Len(<<a, b>>) = 2 /\ <<a, b>>[1] = a /\ <<a, b>>[2] = b
  BY <1>2
<1>5. /\ stack \o <<a, b>> \in Seq(UidRange)
      /\ Len(stack \o <<a, b>>) = Len(stack) + 2
      /\ \A i \in 1..(Len(stack) + 2) : (stack \o <<a, b>>)[i] =
            IF i <= Len(stack) THEN stack[i] ELSE <<a, b>>[i - Len(stack)]
  BY <1>4, ConcatProperties
<1>6. Len(stack) \in Nat
  OBVIOUS
<1> QED
  BY <1>3, <1>4, <1>5, <1>6 DEF a, b, m

\* Popping the top of the stack.
LEMMA PopFacts ==
    ASSUME discovery.stack \in Seq(UidRange), discovery.stack # << >>
    PROVE  /\ Len(discovery.stack) \in Nat \ {0}
           /\ Top \in UidRange
           /\ Rest \in Seq(UidRange)
           /\ Len(Rest) = Len(discovery.stack) - 1
           /\ \A i \in 1..(Len(discovery.stack) - 1) : Rest[i] = discovery.stack[i]
<1> DEFINE s == discovery.stack
           n == Len(s)
<1>1. n \in Nat \ {0}
  BY EmptySeq
<1>2. \A i \in 1..n : s[i] \in UidRange
  BY ElementOfSeq
<1>3. /\ SubSeq(s, 1, n - 1) \in Seq(UidRange)
      /\ Len(SubSeq(s, 1, n - 1)) = IF 1 <= n - 1 THEN (n - 1) - 1 + 1 ELSE 0
      /\ \A i \in 1..((n - 1) - 1 + 1) : SubSeq(s, 1, n - 1)[i] = s[1 + i - 1]
  <2>1. 1 \in Int /\ n - 1 \in Int /\ \A i \in 1..(n - 1) : s[i] \in UidRange
    BY <1>1, <1>2
  <2> HIDE DEF s, n
  <2> QED
    BY <2>1, SubSeqProperties
<1> QED
  BY <1>1, <1>2, <1>3 DEF Top, Rest

(***************************************************************************)
(* The line.                                                               *)
(***************************************************************************)
\* A frame that names a device names one that exists.
Genuine(frame) == frame.kind \in {"dub", "mute"} => frame.uid \in Devices

LEMMA RequestFacts ==
    /\ Broadcast \in Request
    /\ \A uid \in Uid : MuteOf(uid) \in Request
    /\ \A range \in UidRange : BranchOf(range) \in Request
BY UidFacts DEF Request, Broadcast, MuteOf, BranchOf, UidRange

\* Whatever is asked, the answers are frames that name existing devices.
LEMMA AnswersFacts ==
    ASSUME present \subseteq Devices, NEW req \in Request, NEW f \in Answers(req)
    PROVE  f \in Frame /\ Genuine(f)
<1> USE UidFacts DEF Frame, NoFrame, Genuine, Request
<1>1. CASE req.pid = "dub"
  <2>1. f \in BranchAnswers(req.lower, req.upper)
    BY <1>1 DEF Answers
  <2>2. CASE f = NoFrame \/ f = [kind |-> "garbage", uid |-> 0]
    BY <2>2
  <2>3. CASE \E d \in Answering(req.lower, req.upper) : f = [kind |-> "dub", uid |-> d]
    BY <2>3 DEF Answering
  <2> QED
    BY <2>1, <2>2, <2>3 DEF BranchAnswers
<1>2. CASE req.pid = "mute"
  BY <1>2 DEF Answers
<1>3. CASE req.pid \notin {"dub", "mute"}
  BY <1>3 DEF Answers
<1> QED
  BY <1>1, <1>2, <1>3

LineOK ==
    /\ message \in Request
    /\ rx \in [ready : BOOLEAN, frame : Frame] /\ Genuine(rx.frame)
    /\ wire \in Frame /\ Genuine(wire)
    /\ present \subseteq Devices
    /\ muted \subseteq present
    /\ lost \in Nat

LEMMA TransmitFacts ==
    ASSUME LineOK, NEW req \in Request, Transmit(req), UNCHANGED <<rx, present>>
    PROVE  LineOK'
<1>1. MutedAfter(req) \subseteq present
  BY DEF MutedAfter, LineOK
<1>2. wire' \in Frame /\ Genuine(wire')
  <2>1. CASE wire' \in Answers(req)
    BY <2>1, AnswersFacts DEF LineOK
  <2>2. CASE wire' = NoFrame
    BY <2>2, UidFacts DEF NoFrame, Frame, Genuine
  <2> QED
    BY <2>1, <2>2 DEF Transmit
<1>3. lost' \in Nat /\ muted' \subseteq present /\ message' = req
  <2>1. lost' \in Nat
    <3>1. lost' = lost \/ lost' = lost + 1
      BY DEF Transmit
    <3> QED
      BY <3>1 DEF LineOK
  <2>2. muted' = muted \/ muted' = MutedAfter(req)
    BY DEF Transmit
  <2> QED
    BY <1>1, <2>1, <2>2 DEF Transmit, LineOK
<1> QED
  BY <1>2, <1>3 DEF LineOK, Genuine

LEMMA ReceiveFacts ==
    ASSUME LineOK, ReceiveOnly, UNCHANGED present
    PROVE  LineOK'
BY DEF LineOK, ReceiveOnly, Drained, Genuine

\* The types of the line are kept by every step of the machine that sends a
\* request, reads a frame or leaves the line alone.
LineKept ==
    \/ ReceiveOnly /\ UNCHANGED present
    \/ UNCHANGED <<line, present>>
    \/ \E req \in Request : Transmit(req) /\ UNCHANGED <<rx, present>>

LEMMA LineKeptFacts == LineOK /\ LineKept => LineOK'
<1> SUFFICES ASSUME LineOK, LineKept PROVE LineOK'
  OBVIOUS
<1>1. CASE UNCHANGED <<line, present>>
  BY <1>1 DEF line, LineOK, Genuine
<1> QED
  BY <1>1, TransmitFacts, ReceiveFacts DEF LineKept

(***************************************************************************)
(* The inductive invariant.                                                *)
(***************************************************************************)
ControlOK ==
    /\ state \in State /\ savedState \in State \ {"LateResponse"}
    /\ isFinished \in BOOLEAN /\ doIncremental \in BOOLEAN /\ response \in BOOLEAN

\* The counters of the retries.  That of quick find loses at most one try before
\* it is renewed.
CountersOK ==
    /\ unmute \in Counted(UnmuteTries)
    /\ single \in [counter : Nat, running : BOOLEAN]
    /\ quickBranch \in Counted(QuickBranchTries)
    /\ quickFind \in [counter : 0..QuickFindTries, running : BOOLEAN, uid : Uid]
    /\ Where # "Idle" =>
          IF quickFind.running THEN quickFind.counter = QuickFindTries
          ELSE quickFind.counter \in {QuickFindTries, QuickFindTries - 1}

\* The stack ascends, and a branch that is open lies above it.
Ascending(stack) ==
    /\ \A i \in 1..Len(stack) : stack[i][1] <= stack[i][2] /\ stack[i][2] <= LastUid
    /\ \A i, j \in 1..Len(stack) : i < j => stack[i][2] < stack[j][1]

DiscoveryType ==
    discovery \in [counter : 0..BranchTries, running : BOOLEAN, stack : Seq(UidRange),
                   lower : Uid, upper : Uid, pdl : UidRange]
AboveStack ==
    /\ discovery.lower <= discovery.upper /\ discovery.upper <= LastUid
    /\ \A i \in 1..Len(discovery.stack) : discovery.stack[i][2] < discovery.lower
Asked ==
    discovery.lower < discovery.upper /\ discovery.pdl = <<discovery.lower, discovery.upper>>

BranchOK ==
    /\ DiscoveryType
    /\ Where # "Idle" => Ascending(discovery.stack)
    /\ Where \notin {"Idle", "Discovery"} => ~discovery.running
    /\ BranchOpen => AboveStack
    /\ BranchOpen /\ Where # "SingleDevice" => Asked

\* The table, and the probe that walks down it.
TableOK ==
    /\ tod \in Seq(Uid) /\ NoDuplicates(tod) /\ Uids(tod) \subseteq Devices
    /\ mute \in [entries : Nat, counter : 0..MuteTries, running : BOOLEAN, uid : Uid]
    /\ Where = "Unmute" => ~mute.running /\ mute.counter = MuteTries
    /\ Where = "Mute" \/ (Where = "Unmute" /\ doIncremental) => mute.entries <= Len(tod)
    /\ Where = "Mute" /\ (mute.running \/ mute.counter = 0) /\ mute.entries # 0
          => tod[mute.entries] = mute.uid

IInv == ControlOK /\ LineOK /\ CountersOK /\ BranchOK /\ TableOK

\* A change of state leads to the state asked for, now or after the pause.
LEMMA NewStateFacts ==
    ASSUME ControlOK, NEW next \in State \ {"LateResponse"}, NEW late \in BOOLEAN,
           NewState(next, late)
    PROVE  /\ state' \in State /\ savedState' \in State \ {"LateResponse"}
           /\ Where' = next
BY DEF ControlOK, NewState, Where, State

LEMMA StartPreserves ==
    ASSUME IInv, NEW incremental \in BOOLEAN, Start(incremental) PROVE IInv'
<1> USE DEF IInv
<1>1. Where' = "Unmute" /\ ControlOK'
  <2>1. "Unmute" \in State \ {"LateResponse"}
    BY DEF State
  <2> QED
    BY <2>1, NewStateFacts DEF Start, ControlOK
<1>2. LineOK'
  BY LineKeptFacts DEF LineKept, Start
<1>3. CountersOK'
  <2>1. /\ UnmuteTries \in 0..UnmuteTries /\ QuickBranchTries \in 0..QuickBranchTries
        /\ QuickFindTries \in 0..QuickFindTries /\ MuteTries \in Nat
    BY DiscoveryAssumption
  <2>2. quickFind' = [quickFind EXCEPT !.counter = QuickFindTries, !.running = FALSE]
    BY DEF Start
  <2>3. /\ quickFind' \in [counter : 0..QuickFindTries, running : BOOLEAN, uid : Uid]
        /\ ~quickFind'.running /\ quickFind'.counter = QuickFindTries
    BY <2>1, <2>2 DEF CountersOK
  <2>4. /\ unmute' \in Counted(UnmuteTries)
        /\ single' \in [counter : Nat, running : BOOLEAN]
        /\ quickBranch' \in Counted(QuickBranchTries)
    BY <2>1 DEF Start, Counted
  <2> QED
    BY <2>3, <2>4 DEF CountersOK
<1>4. BranchOK'
  <2> DEFINE r == <<0, LastUid>>
  <2>1. r \in UidRange /\ r[1] = 0 /\ r[2] = LastUid
    BY UidFacts DEF UidRange
  <2> HIDE DEF r
  <2>2. <<r>> \in Seq(UidRange) /\ Len(<<r>>) = 1 /\ <<r>>[1] = r
    BY <2>1
  <2>3. discovery' = [discovery EXCEPT !.stack = <<r>>, !.counter = BranchTries,
                                       !.running = FALSE]
    BY DEF Start, r
  <2>4. Ascending(<<r>>)
    BY <2>1, <2>2, UidFacts DEF Ascending
  <2>5. BranchTries \in 0..BranchTries
    BY DiscoveryAssumption
  <2>6. DiscoveryType' /\ discovery'.stack = <<r>> /\ ~discovery'.running
    BY <2>2, <2>3, <2>5 DEF BranchOK, DiscoveryType
  <2>7. ~BranchOpen' /\ Ascending(discovery.stack)'
    BY <1>1, <2>4, <2>6 DEF BranchOpen, Ascending
  <2> QED
    BY <2>6, <2>7 DEF BranchOK
<1>5. TableOK'
  <2>1. tod' = tod \/ tod' = << >>
    BY DEF Start, TodAtStart, EmptyTod
  <2>2. tod' \in Seq(Uid) /\ NoDuplicates(tod') /\ Uids(tod') \subseteq Devices
    <3>1. CASE tod' = tod
      BY <3>1 DEF TableOK
    <3>2. CASE tod' = << >>
      BY <3>2 DEF NoDuplicates, Uids
    <3> QED
      BY <2>1, <3>1, <3>2
  <2>3. incremental => mute'.entries = Len(tod) /\ tod' = tod
    BY DEF Start, TodAtStart, TableOK
  <2>4. /\ mute' \in [entries : Nat, counter : 0..MuteTries, running : BOOLEAN, uid : Uid]
        /\ ~mute'.running /\ mute'.counter = MuteTries
    <3>1. MuteTries \in 0..MuteTries /\ Len(tod) \in Nat
      BY DiscoveryAssumption DEF TableOK
    <3>2. \E n \in {Len(tod), mute.entries} :
            mute' = [mute EXCEPT !.entries = n, !.counter = MuteTries, !.running = FALSE]
      BY DEF Start
    <3> QED
      BY <3>1, <3>2 DEF TableOK
  <2> QED
    BY <1>1, <2>2, <2>3, <2>4 DEF TableOK, Start
<1> QED
  BY <1>1, <1>2, <1>3, <1>4, <1>5

(***************************************************************************)
(* What a step leaves alone.                                               *)
(***************************************************************************)
LEMMA CountersKept ==
    ASSUME CountersOK, UNCHANGED <<unmute, single, quickBranch, quickFind>>,
           Where' = "Idle" \/ Where # "Idle"
    PROVE  CountersOK'
BY DEF CountersOK

LEMMA BranchKept ==
    ASSUME BranchOK, UNCHANGED discovery,
           \/ Where' = Where \/ Where' = "Idle"
           \/ Where # "Idle" /\ ~discovery.running /\ Where' \in {"Mute", "Discovery", "Finished"}
           \/ {Where, Where'} \subseteq {"Dub", "QuickFind", "QuickFindDiscovery"}
    PROVE  BranchOK'
<1>1. Ascending(discovery.stack)' <=> Ascending(discovery.stack)
  BY DEF Ascending
<1>2. (DiscoveryType' <=> DiscoveryType) /\ (AboveStack' <=> AboveStack) /\ (Asked' <=> Asked)
  BY DEF DiscoveryType, AboveStack, Asked
<1>3. CASE Where' = Where
  BY <1>1, <1>2, <1>3 DEF BranchOK, BranchOpen
<1>4. CASE Where' # Where
  BY <1>1, <1>2, <1>4 DEF BranchOK, BranchOpen
<1> QED
  BY <1>3, <1>4

LEMMA TableKept ==
    ASSUME TableOK, UNCHANGED <<tod, mute, doIncremental>>,
           Where' = Where \/ Where' \notin {"Unmute", "Mute"}
    PROVE  TableOK'
BY DEF TableOK

LEMMA StopPreserves == IInv /\ Stop => IInv'
<1> SUFFICES ASSUME IInv, Stop PROVE IInv'
  OBVIOUS
<1>1. Where' = "Idle" /\ ControlOK'
  BY NewStateFacts DEF Stop, ControlOK, IInv, State
<1>2. LineOK'
  BY LineKeptFacts DEF LineKept, Stop, IInv
<1>3. CountersOK' /\ BranchOK' /\ TableOK'
  BY <1>1, CountersKept, BranchKept, TableKept DEF Stop, IInv
<1> QED
  BY <1>1, <1>2, <1>3 DEF IInv

LEMMA OthersPreserve == IInv /\ (IsFinished \/ Deliver \/ Replug) => IInv'
<1> SUFFICES ASSUME IInv, IsFinished \/ Deliver \/ Replug PROVE IInv'
  OBVIOUS
<1>1. Where' = Where /\ ControlOK'
  BY DEF IInv, ControlOK, IsFinished, Deliver, Replug, Where, machine
<1>2. CountersOK' /\ BranchOK' /\ TableOK'
  BY <1>1, CountersKept, BranchKept, TableKept DEF IInv, IsFinished, Deliver, Replug, machine
<1>3. LineOK'
  <2>1. CASE IsFinished
    BY <2>1, LineKeptFacts DEF IInv, IsFinished, LineKept
  <2>2. CASE Deliver
    BY <2>2, UidFacts DEF IInv, LineOK, Deliver, Genuine, NoFrame, Frame
  <2>3. CASE Replug
    BY <2>3, UidFacts DEF IInv, LineOK, Replug, Genuine, NoFrame, Frame
  <2> QED
    BY <2>1, <2>2, <2>3
<1> QED
  BY <1>1, <1>2, <1>3 DEF IInv

LEMMA InitHolds == Init => IInv
<1> SUFFICES ASSUME Init PROVE IInv
  OBVIOUS
<1>1. Where = "Idle"
  BY DEF Init, Where
<1>2. ControlOK
  BY DEF Init, ControlOK, State
<1>3. LineOK
  BY UidFacts DEF Init, LineOK, Request, Frame, NoFrame, Genuine
<1>4. /\ 0 \in 0..UnmuteTries /\ 0 \in 0..MuteTries /\ 0 \in 0..BranchTries
      /\ 0 \in 0..QuickFindTries /\ 0 \in 0..QuickBranchTries
  BY DiscoveryAssumption
<1>5. CountersOK
  BY <1>1, <1>4, UidFacts DEF Init, CountersOK, Counted
<1>6. BranchOK
  <2>1. << >> \in Seq(UidRange) /\ <<0, 0>> \in UidRange
    BY UidFacts DEF UidRange
  <2>2. DiscoveryType
    BY <1>4, <2>1, UidFacts DEF Init, DiscoveryType
  <2> QED
    BY <1>1, <2>2 DEF BranchOK, BranchOpen
<1>7. TableOK
  BY <1>1, <1>4, UidFacts DEF Init, TableOK, NoDuplicates, Uids, EmptyTod
<1> QED
  BY <1>2, <1>3, <1>5, <1>6, <1>7 DEF IInv

LEMMA PausePreserves ==
    ASSUME IInv, LateResponse \/ Finish PROVE IInv'
<1>1. Where' \in {Where, "Idle"} /\ ControlOK'
  <2>1. CASE LateResponse
    BY <2>1 DEF LateResponse, IInv, ControlOK, Where
  <2>2. CASE Finish
    BY <2>2, NewStateFacts DEF Finish, IInv, ControlOK, State
  <2> QED
    BY <2>1, <2>2
<1>2. LineOK'
  BY LineKeptFacts DEF LateResponse, Finish, LineKept, IInv
<1>3. CountersOK' /\ BranchOK' /\ TableOK'
  BY <1>1, CountersKept, BranchKept, TableKept DEF LateResponse, Finish, IInv
<1> QED
  BY <1>1, <1>2, <1>3 DEF IInv

LEMMA UnmutingPreserves ==
    ASSUME IInv, Unmuting PROVE IInv'
<1> USE DEF IInv
<1>1. ASSUME UnmuteDone PROVE IInv'
  <2>1. Where = "Unmute" /\ (doIncremental => Where' = "Mute")
        /\ (~doIncremental => Where' = "Discovery") /\ ControlOK'
    BY <1>1, NewStateFacts DEF UnmuteDone, Where, ControlOK, State
  <2>2. LineOK'
    BY <1>1, LineKeptFacts DEF UnmuteDone, LineKept
  <2>3. CountersOK'
    <3>1. UnmuteTries \in 0..UnmuteTries
      BY DiscoveryAssumption
    <3>2. unmute' \in Counted(UnmuteTries)
      BY <1>1, <3>1 DEF UnmuteDone, Counted
    <3> QED
      BY <1>1, <2>1, <3>2 DEF UnmuteDone, CountersOK
  <2>4. BranchOK'
    <3>1. ~discovery.running
      BY <2>1 DEF BranchOK
    <3> QED
      BY <1>1, <2>1, <3>1, BranchKept DEF UnmuteDone
  <2>5. TableOK'
    <3>1. ~mute.running /\ mute.counter # 0
      BY <2>1, DiscoveryAssumption DEF TableOK
    <3>2. UNCHANGED <<tod, mute, doIncremental>>
      BY <1>1 DEF UnmuteDone
    <3> QED
      BY <2>1, <3>1, <3>2 DEF TableOK
  <2> QED
    BY <2>1, <2>2, <2>3, <2>4, <2>5
<1>2. ASSUME UnmuteSend \/ UnmuteWait PROVE IInv'
  <2>1. Where' = Where /\ Where = "Unmute" /\ ControlOK'
    BY <1>2 DEF UnmuteSend, UnmuteWait, Where, ControlOK
  <2>2. LineOK'
    BY <1>2, LineKeptFacts, RequestFacts DEF UnmuteSend, UnmuteWait, LineKept
  <2>3. CountersOK'
    <3>1. \E c \in 0..UnmuteTries, r \in BOOLEAN : unmute' = [counter |-> c, running |-> r]
      <4>1. unmute.counter \in 0..UnmuteTries /\ unmute.running \in BOOLEAN
            /\ unmute = [counter |-> unmute.counter, running |-> unmute.running]
            /\ unmute.counter # 0
        BY <1>2 DEF CountersOK, Counted, UnmuteSend, UnmuteWait
      <4>2. unmute.counter - 1 \in 0..UnmuteTries
        BY <4>1, DiscoveryAssumption
      <4> QED
        BY <1>2, <4>1, <4>2 DEF UnmuteSend, UnmuteWait, CountTry
    <3>2. unmute' \in Counted(UnmuteTries)
      BY <3>1 DEF Counted
    <3> QED
      BY <1>2, <2>1, <3>2 DEF UnmuteSend, UnmuteWait, CountersOK
  <2>4. BranchOK' /\ TableOK'
    BY <1>2, <2>1, BranchKept, TableKept DEF UnmuteSend, UnmuteWait
  <2> QED
    BY <2>1, <2>2, <2>3, <2>4
<1> QED
  BY <1>1, <1>2 DEF Unmuting

\* The probe of the table: the cursor moves down as Delete() shortens the table.
LEMMA MutingPreserves ==
    ASSUME IInv, Muting PROVE IInv'
<1> USE DEF IInv
<1> DEFINE MuteType(m) ==
      m \in [entries : Nat, counter : 0..MuteTries, running : BOOLEAN, uid : Uid]
<1>1. MuteTries \in 0..MuteTries /\ MuteTries # 0
  BY DiscoveryAssumption
<1>2. state = "Mute" /\ Where = "Mute" /\ MuteType(mute) /\ tod \in Seq(Uid) /\ Len(tod) \in Nat
      /\ mute.entries <= Len(tod) /\ ~discovery.running
  <2>1. state = "Mute" /\ Where = "Mute"
    BY DEF Muting, MuteDone, MuteGone, MuteSend, MuteReceive, MuteTimeout, Where
  <2> QED
    BY <2>1 DEF TableOK, BranchOK
<1>3. mute.entries # 0 => tod[mute.entries] \in Uid
  BY <1>2
<1>4. ASSUME MuteDone PROVE IInv'
  <2>1. Where' = "Discovery" /\ ControlOK'
    BY <1>4, NewStateFacts DEF MuteDone, ControlOK, State
  <2>2. LineOK'
    BY <1>4, LineKeptFacts DEF MuteDone, LineKept
  <2>3. CountersOK' /\ BranchOK'
    BY <1>2, <1>4, <2>1, CountersKept, BranchKept DEF MuteDone
  <2>4. TableOK'
    <3>1. MuteType(mute')
      BY <1>2, <1>4 DEF MuteDone
    <3> QED
      BY <1>4, <2>1, <3>1 DEF MuteDone, TableOK
  <2> QED
    BY <2>1, <2>2, <2>3, <2>4
<1>5. ASSUME MuteGone \/ MuteSend \/ MuteReceive \/ MuteTimeout PROVE IInv'
  <2>1. Where' = Where /\ ControlOK'
    BY <1>5 DEF MuteGone, MuteSend, MuteReceive, MuteTimeout, ControlOK, Where
  <2>2. LineOK'
    <3>1. MuteSend => MuteOf(tod[mute.entries]) \in Request
      BY <1>3, RequestFacts DEF MuteSend
    <3>2. message \in Request
      BY DEF LineOK
    <3> QED
      BY <1>5, <3>1, <3>2, LineKeptFacts
         DEF MuteGone, MuteSend, MuteReceive, MuteTimeout, LineKept
  <2>3. CountersOK' /\ BranchOK'
    BY <1>5, <2>1, CountersKept, BranchKept DEF MuteGone, MuteSend, MuteReceive, MuteTimeout
  <2>4. mute.entries # 0 /\ mute.entries - 1 \in Nat
    BY <1>2, <1>5 DEF MuteGone, MuteSend, MuteReceive, MuteTimeout
  <2>5. ASSUME MuteGone PROVE TableOK'
    <3>1. /\ tod' \in Seq(Uid) /\ Len(tod) - 1 <= Len(tod')
          /\ Uids(tod') \subseteq Uids(tod) /\ NoDuplicates(tod')
      BY <1>2, <2>5, DeleteFacts DEF MuteGone, TableOK
    <3>2. /\ MuteType(mute') /\ mute'.entries = mute.entries - 1
          /\ mute'.counter = MuteTries /\ ~mute'.running
      BY <1>1, <1>2, <2>4, <2>5 DEF MuteGone, NextEntry
    <3>3. Len(tod') \in Nat
      BY <3>1
    <3>4. mute'.entries <= Len(tod')
      BY <1>2, <3>1, <3>2, <3>3
    <3> QED
      BY <1>1, <1>2, <2>1, <3>1, <3>2, <3>4 DEF TableOK
  <2>6. ASSUME MuteSend PROVE TableOK'
    <3>1. /\ MuteType(mute') /\ mute'.entries = mute.entries /\ mute'.uid = tod[mute.entries]
      BY <1>2, <1>3, <2>4, <2>6 DEF MuteSend
    <3> QED
      BY <1>2, <2>1, <2>6, <3>1 DEF MuteSend, TableOK
  <2>7. ASSUME MuteReceive PROVE TableOK'
    <3>1. /\ MuteType(mute') /\ mute'.entries = mute.entries - 1
          /\ mute'.counter # 0 /\ ~mute'.running
      BY <1>2, <2>4, <2>7 DEF MuteReceive, NextEntry
    <3>2. mute'.entries <= Len(tod)
      BY <1>2, <2>4, <3>1
    <3> QED
      BY <1>2, <2>1, <2>7, <3>1, <3>2 DEF MuteReceive, TableOK
  <2>8. ASSUME MuteTimeout PROVE TableOK'
    <3>1. mute.counter - 1 \in 0..MuteTries
      <4>1. mute.counter \in 0..MuteTries /\ mute.counter # 0
        BY <1>2, <2>8 DEF MuteTimeout
      <4> QED
        BY <4>1, DiscoveryAssumption
    <3>2. /\ MuteType(mute') /\ mute'.entries = mute.entries /\ mute'.uid = mute.uid
      BY <1>2, <2>8, <3>1 DEF MuteTimeout, CountTry
    <3>3. mute.running
      BY <2>8 DEF MuteTimeout
    <3> QED
      BY <1>2, <2>1, <2>8, <3>2, <3>3 DEF MuteTimeout, TableOK
  <2>9. TableOK'
    BY <1>5, <2>5, <2>6, <2>7, <2>8
  <2> QED
    BY <2>1, <2>2, <2>3, <2>9
<1> QED
  BY <1>4, <1>5 DEF Muting

\* The popped branch lies above what is left of the stack.
LEMMA PopAscends ==
    ASSUME discovery.stack \in Seq(UidRange), discovery.stack # << >>, Ascending(discovery.stack)
    PROVE  /\ Ascending(Rest)
           /\ Top[1] <= Top[2] /\ Top[2] <= LastUid
           /\ \A i \in 1..Len(Rest) : Rest[i][2] < Top[1]
<1> DEFINE s == discovery.stack
           n == Len(s)
<1>1. n \in Nat \ {0} /\ Len(Rest) = n - 1 /\ \A i \in 1..(n - 1) : Rest[i] = s[i]
  BY PopFacts
<1>2. Top = s[n]
  BY DEF Top
<1>3. Ascending(s)
  OBVIOUS
<1> HIDE DEF s, n
<1>4. n = Len(s)
  BY DEF n
<1>5. \A i \in 1..(n - 1) : i \in 1..n /\ i < n /\ n \in 1..n
  BY <1>1
<1>6. n \in 1..n
  BY <1>1
<1> QED
  BY <1>1, <1>2, <1>3, <1>4, <1>5, <1>6 DEF Ascending

\* The halves of a branch above the stack may be pushed on it.
LEMMA SplitAscends ==
    ASSUME NEW stack \in Seq(UidRange), NEW l \in Uid, NEW u \in Uid, l < u, u <= LastUid,
           Ascending(stack), \A i \in 1..Len(stack) : stack[i][2] < l
    PROVE  stack \o Halves(l, u) \in Seq(UidRange) /\ Ascending(stack \o Halves(l, u))
<1> DEFINE new == stack \o Halves(l, u)
           n == Len(stack)
           m == MidPosition(l, u)
<1>1. /\ new \in Seq(UidRange) /\ Len(new) = n + 2
      /\ \A i \in 1..n : new[i] = stack[i]
      /\ new[n + 1] = <<l, m>> /\ new[n + 2] = <<m + 1, u>>
  BY PushFacts
<1>2. m \in Nat /\ l <= m /\ m < u /\ n \in Nat /\ l \in Nat /\ u \in Nat /\ LastUid \in Nat
  BY MidBetween, UidFacts
<1> HIDE DEF new, m
<1>3. \A i \in 1..Len(new) : i \in 1..n \/ i = n + 1 \/ i = n + 2
  BY <1>1, <1>2
<1>4. \A i \in 1..n : stack[i][1] \in Nat /\ stack[i][2] \in Nat
  <2>1. \A i \in 1..n : stack[i] \in UidRange
    OBVIOUS
  <2>2. \A r \in UidRange : r[1] \in Nat /\ r[2] \in Nat
    BY UidFacts DEF UidRange
  <2> QED
    BY <2>1, <2>2
<1>5. \A i \in 1..n : new[i][1] <= new[i][2] /\ new[i][2] <= LastUid /\ new[i][2] < l
  BY <1>1 DEF Ascending
<1>6. new[n + 1][1] = l /\ new[n + 1][2] = m /\ new[n + 2][1] = m + 1 /\ new[n + 2][2] = u
  BY <1>1
<1>7. ASSUME NEW i \in 1..Len(new) PROVE new[i][1] <= new[i][2] /\ new[i][2] <= LastUid
  <2>1. l <= m /\ m <= LastUid /\ m + 1 <= u
    BY <1>2
  <2> QED
    BY <1>3, <1>5, <1>6, <2>1
<1>8. ASSUME NEW i \in 1..Len(new), NEW j \in 1..Len(new), i < j PROVE new[i][2] < new[j][1]
  <2>1. CASE i \in 1..n /\ j \in 1..n
    BY <1>1, <1>8, <2>1 DEF Ascending
  <2>2. CASE i \in 1..n /\ j \notin 1..n
    <3>1. new[i][2] < l /\ new[i][2] \in Nat
      BY <1>1, <1>4, <1>5, <2>2
    <3>2. new[j][1] = l \/ new[j][1] = m + 1
      BY <1>3, <1>6, <2>2
    <3> QED
      BY <1>2, <3>1, <3>2
  <2>3. CASE i \notin 1..n
    <3>1. i = n + 1 /\ j = n + 2
      BY <1>1, <1>2, <1>3, <1>8, <2>3
    <3> QED
      BY <1>2, <1>6, <3>1
  <2> QED
    BY <2>1, <2>2, <2>3
<1> QED
  BY <1>1, <1>7, <1>8 DEF Ascending, new

LEMMA BranchRequestPreserves ==
    ASSUME IInv, BranchReceive \/ BranchTimeout PROVE IInv'
<1> USE DEF IInv
<1>1. state = "Discovery" /\ Where = "Discovery" /\ discovery.running
  BY DEF BranchReceive, BranchTimeout, Where
<1>2. Where' \in {"Discovery", "Dub"} /\ (BranchTimeout => Where' = "Discovery") /\ ControlOK'
      /\ (BranchReceive => Where' = "Dub")
  <2>1. CASE BranchReceive
    <3>1. state # "LateResponse" /\ Received \in BOOLEAN
      BY <1>1 DEF LineOK, Received
    <3> QED
      BY <1>1, <2>1, <3>1, NewStateFacts DEF BranchReceive, BranchTimeout, ControlOK, State
  <2>2. CASE BranchTimeout
    BY <1>1, <2>2 DEF BranchTimeout, BranchReceive, ControlOK, Where, State, NewState
  <2> QED
    BY <2>1, <2>2
<1>3. LineOK'
  BY LineKeptFacts DEF BranchReceive, BranchTimeout, LineKept, LineOK
<1>4. CountersOK' /\ TableOK'
  BY <1>1, <1>2, CountersKept, TableKept DEF BranchReceive, BranchTimeout
<1>5. BranchOK'
  <2>1. /\ DiscoveryType'
        /\ discovery'.stack = discovery.stack /\ discovery'.pdl = discovery.pdl
        /\ discovery'.lower = discovery.lower /\ discovery'.upper = discovery.upper
        /\ BranchReceive => ~discovery'.running
    <3>1. DiscoveryType
      BY DEF BranchOK
    <3>2. CASE BranchReceive
      BY <3>1, <3>2 DEF BranchReceive, DiscoveryType
    <3>3. CASE BranchTimeout
      <4>1. discovery.counter \in 0..BranchTries /\ discovery.counter # 0
        BY <3>1, <3>3 DEF DiscoveryType, BranchTimeout
      <4>2. discovery.counter - 1 \in 0..BranchTries
        BY <4>1, DiscoveryAssumption
      <4>3. discovery' = [discovery EXCEPT !.counter = discovery.counter - 1]
        BY <3>3 DEF BranchTimeout, CountTry
      <4>4. ~BranchReceive
        BY <3>3 DEF BranchTimeout, BranchReceive
      <4> QED
        BY <3>1, <4>2, <4>3, <4>4 DEF DiscoveryType
    <3> QED
      BY <3>2, <3>3
  <2>2. BranchOpen /\ AboveStack /\ Asked /\ Ascending(discovery.stack)
    BY <1>1 DEF BranchOpen, BranchOK
  <2>3. AboveStack' /\ Asked' /\ Ascending(discovery.stack)'
    BY <2>1, <2>2 DEF AboveStack, Asked, Ascending
  <2> QED
    BY <1>2, <2>1, <2>3 DEF BranchOK
<1> QED
  BY <1>2, <1>3, <1>4, <1>5

\* A branch is popped: alone on its UID, or asked.
LEMMA PopPreserves ==
    ASSUME IInv, PopSingle \/ PopBranch PROVE IInv'
<1> USE DEF IInv
<1>1. /\ state = "Discovery" /\ Where = "Discovery" /\ discovery.stack # << >>
      /\ discovery.stack \in Seq(UidRange) /\ Ascending(discovery.stack)
  <2>1. state = "Discovery" /\ Where = "Discovery" /\ discovery.stack # << >>
    BY DEF PopSingle, PopBranch, Where
  <2> QED
    BY <2>1 DEF BranchOK, DiscoveryType
<1>2. /\ Top \in UidRange /\ Top[1] \in Uid /\ Top[2] \in Uid /\ Top = <<Top[1], Top[2]>>
      /\ Rest \in Seq(UidRange)
      /\ Ascending(Rest) /\ Top[1] <= Top[2] /\ Top[2] <= LastUid
      /\ \A i \in 1..Len(Rest) : Rest[i][2] < Top[1]
  <2>1. Top \in UidRange /\ Rest \in Seq(UidRange)
    BY <1>1, PopFacts
  <2>2. Top[1] \in Uid /\ Top[2] \in Uid /\ Top = <<Top[1], Top[2]>>
    BY <2>1 DEF UidRange
  <2> QED
    BY <1>1, <2>1, <2>2, PopAscends
<1>3. (PopSingle => Where' = "SingleDevice") /\ (PopBranch => Where' = "Discovery") /\ ControlOK'
  <2>1. CASE PopSingle
    <3>1. Top[1] = Top[2]
      BY <2>1 DEF PopSingle
    <3> QED
      BY <2>1, <3>1, NewStateFacts DEF PopSingle, PopBranch, ControlOK, State
  <2>2. CASE PopBranch
    <3>1. Top[1] # Top[2]
      BY <2>2 DEF PopBranch
    <3> QED
      BY <1>1, <2>2, <3>1 DEF PopSingle, PopBranch, ControlOK, Where
  <2> QED
    BY <2>1, <2>2
<1>4. LineOK'
  <2>1. BranchOf(Top) \in Request
    BY <1>2, RequestFacts
  <2> QED
    BY <2>1, LineKeptFacts DEF PopSingle, PopBranch, LineKept
<1>5. CountersOK'
  <2>1. quickBranch' \in Counted(QuickBranchTries)
    BY DEF PopSingle, PopBranch, CountersOK, Counted
  <2>2. UNCHANGED <<unmute, single, quickFind>>
    BY DEF PopSingle, PopBranch
  <2> QED
    BY <1>1, <2>1, <2>2 DEF CountersOK
<1>6. TableOK'
  BY <1>1, <1>3, TableKept DEF PopSingle, PopBranch
<1>7. ASSUME PopSingle PROVE BranchOK'
  <2>1. /\ DiscoveryType' /\ ~discovery'.running /\ discovery'.stack = Rest
        /\ discovery'.lower = Top[1] /\ discovery'.upper = Top[2]
    BY <1>2, <1>7 DEF PopSingle, BranchOK, DiscoveryType
  <2>2. Ascending(discovery.stack)' /\ AboveStack'
    BY <1>2, <2>1 DEF Ascending, AboveStack
  <2> QED
    BY <1>3, <1>7, <2>1, <2>2 DEF BranchOK
<1>8. ASSUME PopBranch PROVE BranchOK'
  <2>1. /\ DiscoveryType' /\ discovery'.stack = Rest
        /\ discovery'.lower = Top[1] /\ discovery'.upper = Top[2] /\ discovery'.pdl = Top
    <3>1. BranchTries \in 0..BranchTries
      BY DiscoveryAssumption
    <3> QED
      BY <1>2, <1>8, <3>1 DEF PopBranch, BranchOK, DiscoveryType
  <2>2. Ascending(discovery.stack)' /\ AboveStack'
    BY <1>2, <2>1 DEF Ascending, AboveStack
  <2>3. Asked'
    <3>1. Top[1] < Top[2]
      BY <1>2, <1>8, UidFacts DEF PopBranch
    <3> QED
      BY <1>2, <2>1, <3>1 DEF Asked
  <2> QED
    BY <1>3, <1>8, <2>1, <2>2, <2>3 DEF BranchOK
<1> QED
  BY <1>3, <1>4, <1>5, <1>6, <1>7, <1>8

LEMMA DubPreserves ==
    ASSUME IInv, SearchDone \/ DubSilent \/ DubValid \/ DubSplit PROVE IInv'
<1> USE DEF IInv
<1>1. /\ (SearchDone => Where = "Discovery" /\ ~discovery.running)
      /\ (DubSilent \/ DubValid \/ DubSplit => Where = "Dub")
      /\ state \in {"Discovery", "Dub"} /\ Where = state
  BY DEF SearchDone, DubSilent, DubValid, DubSplit, Where
<1>2. ControlOK' /\ (SearchDone => Where' = "Finished")
      /\ (DubSilent \/ DubSplit => Where' = "Discovery") /\ (DubValid => Where' = "QuickFind")
  <2>1. CASE SearchDone
    <3>1. ~DubSilent /\ ~DubValid /\ ~DubSplit
      BY <2>1 DEF SearchDone, DubSilent, DubValid, DubSplit
    <3> QED
      BY <2>1, <3>1, NewStateFacts DEF SearchDone, ControlOK, State
  <2>2. CASE DubSilent
    <3>1. ~SearchDone /\ ~DubValid /\ ~DubSplit
      BY <2>2 DEF SearchDone, DubSilent, DubValid, DubSplit
    <3> QED
      BY <2>2, <3>1, NewStateFacts DEF DubSilent, ControlOK, State
  <2>3. CASE DubValid
    <3>1. ~SearchDone /\ ~DubSilent /\ ~DubSplit
      BY <2>3 DEF SearchDone, DubSilent, DubValid, DubSplit
    <3> QED
      BY <2>3, <3>1, NewStateFacts DEF DubValid, ControlOK, State
  <2>4. CASE DubSplit
    <3>1. ~SearchDone /\ ~DubSilent /\ ~DubValid
      BY <2>4 DEF SearchDone, DubSilent, DubValid, DubSplit
    <3> QED
      BY <2>4, <3>1, NewStateFacts DEF DubSplit, ControlOK, State
  <2> QED
    BY <2>1, <2>2, <2>3, <2>4
<1>3. LineOK'
  BY LineKeptFacts DEF SearchDone, DubSilent, DubValid, DubSplit, LineKept
<1>4. TableOK'
  BY <1>1, <1>2, TableKept DEF SearchDone, DubSilent, DubValid, DubSplit
<1>5. CountersOK'
  <2>1. CASE DubValid
    <3>1. rx.frame.uid \in Uid
      BY DEF LineOK, Frame
    <3>2. /\ quickFind' \in [counter : 0..QuickFindTries, running : BOOLEAN, uid : Uid]
          /\ quickFind'.counter = quickFind.counter /\ quickFind'.running = quickFind.running
      BY <2>1, <3>1 DEF DubValid, CountersOK
    <3>3. UNCHANGED <<unmute, single, quickBranch>>
      BY <2>1 DEF DubValid
    <3> QED
      BY <1>1, <2>1, <3>2, <3>3 DEF CountersOK
  <2>2. CASE ~DubValid
    BY <1>1, <2>2, CountersKept DEF SearchDone, DubSilent, DubSplit
  <2> QED
    BY <2>1, <2>2
<1>6. BranchOK'
  <2>1. CASE ~DubSplit
    <3>1. UNCHANGED discovery
      BY <2>1 DEF SearchDone, DubSilent, DubValid
    <3>2. ~discovery.running
      BY <1>1 DEF BranchOK
    <3> QED
      BY <1>1, <1>2, <2>1, <3>1, <3>2, BranchKept
  <2>2. CASE DubSplit
    <3>1. /\ DiscoveryType /\ ~discovery.running /\ AboveStack /\ Asked
          /\ Ascending(discovery.stack)
      BY <1>1, <2>2 DEF BranchOK, BranchOpen
    <3> DEFINE new == discovery.stack \o Halves(discovery.lower, discovery.upper)
    <3>2. new \in Seq(UidRange) /\ Ascending(new)
      BY <3>1, SplitAscends DEF DiscoveryType, AboveStack, Asked
    <3>3. discovery' = [discovery EXCEPT !.stack = new]
      BY <2>2 DEF DubSplit
    <3> HIDE DEF new
    <3>4. DiscoveryType' /\ discovery'.stack = new /\ ~discovery'.running
      BY <3>1, <3>2, <3>3 DEF DiscoveryType
    <3>5. Ascending(discovery.stack)'
      BY <3>2, <3>4 DEF Ascending
    <3> QED
      BY <1>2, <2>2, <3>4, <3>5 DEF BranchOK, BranchOpen
  <2> QED
    BY <2>1, <2>2
<1> QED
  BY <1>2, <1>3, <1>4, <1>5, <1>6

LEMMA SingleDevicePreserves ==
    ASSUME IInv, SingleDevice PROVE IInv'
<1> USE DEF IInv, SingleDevice
<1>1. Where = "SingleDevice" /\ ~discovery.running /\ discovery.lower \in Uid
  <2>1. Where = "SingleDevice"
    BY DEF SingleGiveUp, SingleSend, SingleReceive, SingleTimeout, Where
  <2> QED
    BY <2>1 DEF BranchOK, DiscoveryType
<1>2. Where' \in {"SingleDevice", "Discovery"} /\ ControlOK'
  <2>1. CASE SingleGiveUp
    BY <2>1, NewStateFacts DEF SingleGiveUp, ControlOK, State
  <2>2. CASE SingleSend \/ SingleTimeout
    BY <1>1, <2>2 DEF SingleSend, SingleTimeout, ControlOK, Where
  <2>3. CASE SingleReceive
    <3>1. CASE SingleAcknowledged
      BY <2>3, <3>1, NewStateFacts DEF SingleReceive, ControlOK, State
    <3>2. CASE ~SingleAcknowledged
      BY <1>1, <2>3, <3>2 DEF SingleReceive, ControlOK, Where
    <3> QED
      BY <3>1, <3>2
  <2> QED
    BY <2>1, <2>2, <2>3
<1>3. LineOK'
  <2>1. MuteOf(discovery.lower) \in Request /\ message \in Request
    BY <1>1, RequestFacts DEF LineOK
  <2> QED
    BY <2>1, LineKeptFacts DEF SingleGiveUp, SingleSend, SingleReceive, SingleTimeout, LineKept
<1>4. CountersOK'
  <2>1. single' \in [counter : Nat, running : BOOLEAN]
    <3>1. QuickBranchTries \in Nat /\ single \in [counter : Nat, running : BOOLEAN]
      BY DiscoveryAssumption DEF CountersOK
    <3>2. CASE SingleTimeout
      <4>1. single.counter - 1 \in Nat
        BY <3>1, <3>2 DEF SingleTimeout
      <4>2. single' = [single EXCEPT !.counter = single.counter - 1]
        BY <3>2 DEF SingleTimeout, CountTry
      <4> QED
        BY <3>1, <4>1, <4>2
    <3>3. CASE SingleGiveUp
      BY <3>1, <3>3 DEF SingleGiveUp
    <3>4. CASE SingleSend
      <4>1. single' = [single EXCEPT !.running = TRUE]
        BY <3>4 DEF SingleSend
      <4> QED
        BY <3>1, <4>1
    <3>5. CASE SingleReceive
      <4>1. single' \in {single, [counter |-> QuickBranchTries, running |-> FALSE]}
        BY <3>5 DEF SingleReceive
      <4>2. [counter |-> QuickBranchTries, running |-> FALSE] \in [counter : Nat, running : BOOLEAN]
        BY <3>1
      <4> QED
        BY <3>1, <4>1, <4>2
    <3> QED
      BY <3>2, <3>3, <3>4, <3>5
  <2>2. UNCHANGED <<unmute, quickBranch, quickFind>>
    BY DEF SingleGiveUp, SingleSend, SingleReceive, SingleTimeout
  <2> QED
    BY <1>1, <2>1, <2>2 DEF CountersOK
<1>5. BranchOK'
  BY <1>1, <1>2, BranchKept DEF SingleGiveUp, SingleSend, SingleReceive, SingleTimeout
<1>6. TableOK'
  <2>1. CASE SingleReceive /\ SingleAcknowledged
    <3>1. discovery.lower \in Devices
      BY <2>1 DEF SingleAcknowledged, LineOK, Genuine
    <3>2. tod \in Seq(Uid) /\ NoDuplicates(tod) /\ Uids(tod) \subseteq Devices
      BY DEF TableOK
    <3>3. tod' = AddUid(tod, discovery.lower) /\ UNCHANGED mute
      BY <2>1 DEF SingleReceive
    <3>4. tod' \in Seq(Uid) /\ NoDuplicates(tod') /\ Uids(tod') \subseteq Devices
      BY <1>1, <3>1, <3>2, <3>3, AddUidFacts
    <3> QED
      BY <1>2, <3>3, <3>4 DEF TableOK
  <2>2. CASE ~(SingleReceive /\ SingleAcknowledged)
    BY <1>1, <1>2, <2>2, TableKept DEF SingleGiveUp, SingleSend, SingleReceive, SingleTimeout
  <2> QED
    BY <2>1, <2>2
<1> QED
  BY <1>2, <1>3, <1>4, <1>5, <1>6

LEMMA QuickFindPreserves ==
    ASSUME IInv, QuickFind PROVE IInv'
<1> USE DEF IInv, QuickFind
<1>1. Where = "QuickFind"
  BY DEF QuickFindSend, QuickFindReceive, QuickFindTimeout, Where
<1>2. Where' \in {"QuickFind", "QuickFindDiscovery"} /\ ControlOK'
  <2>1. CASE QuickFindSend \/ QuickFindTimeout
    BY <1>1, <2>1 DEF QuickFindSend, QuickFindTimeout, ControlOK, Where
  <2>2. CASE QuickFindReceive
    <3>1. CASE rx.frame.kind = "mute"
      BY <2>2, <3>1, NewStateFacts DEF QuickFindReceive, ControlOK, State
    <3>2. CASE rx.frame.kind # "mute"
      BY <1>1, <2>2, <3>2 DEF QuickFindReceive, ControlOK, Where
    <3> QED
      BY <3>1, <3>2
  <2> QED
    BY <2>1, <2>2
<1>3. LineOK'
  <2>1. MuteOf(quickFind.uid) \in Request
    BY RequestFacts DEF CountersOK
  <2> QED
    BY <2>1, LineKeptFacts DEF QuickFindSend, QuickFindReceive, QuickFindTimeout, LineKept
<1>4. CountersOK'
  <2> DEFINE QuickFindType(q) == q \in [counter : 0..QuickFindTries, running : BOOLEAN, uid : Uid]
  <2>1. QuickFindTries \in 0..QuickFindTries /\ QuickFindTries - 1 \in 0..QuickFindTries
        /\ QuickFindType(quickFind)
    BY DiscoveryAssumption DEF CountersOK
  <2>2. QuickFindType(quickFind')
        /\ IF quickFind'.running THEN quickFind'.counter = QuickFindTries
           ELSE quickFind'.counter \in {QuickFindTries, QuickFindTries - 1}
    <3>1. CASE QuickFindSend
      BY <2>1, <3>1 DEF QuickFindSend
    <3>2. CASE QuickFindReceive
      <4>1. CASE rx.frame.kind = "mute"
        BY <2>1, <3>2, <4>1 DEF QuickFindReceive
      <4>2. CASE rx.frame.kind # "mute"
        BY <1>1, <3>2, <4>2 DEF QuickFindReceive, CountersOK
      <4> QED
        BY <4>1, <4>2
    <3>3. CASE QuickFindTimeout
      <4>1. quickFind.counter = QuickFindTries
        BY <1>1, <3>3 DEF QuickFindTimeout, CountersOK
      <4>2. quickFind' = [quickFind EXCEPT !.counter = QuickFindTries - 1, !.running = FALSE]
        BY <3>3, <4>1 DEF QuickFindTimeout, CountTry
      <4> QED
        BY <2>1, <4>2
    <3> QED
      BY <3>1, <3>2, <3>3
  <2>3. UNCHANGED <<unmute, single, quickBranch>>
    BY DEF QuickFindSend, QuickFindReceive, QuickFindTimeout
  <2> QED
    BY <1>2, <2>2, <2>3 DEF CountersOK
<1>5. BranchOK'
  BY <1>1, <1>2, BranchKept DEF QuickFindSend, QuickFindReceive, QuickFindTimeout
<1>6. TableOK'
  <2>1. CASE QuickFindReceive /\ rx.frame.kind = "mute" /\ rx.frame.uid = quickFind.uid
    <3>1. quickFind.uid \in Devices /\ quickFind.uid \in Uid
      BY <2>1, UidFacts DEF LineOK, Genuine
    <3>2. tod \in Seq(Uid) /\ NoDuplicates(tod) /\ Uids(tod) \subseteq Devices
      BY DEF TableOK
    <3>3. tod' = AddUid(tod, quickFind.uid) /\ UNCHANGED mute
      BY <2>1 DEF QuickFindReceive
    <3>4. tod' \in Seq(Uid) /\ NoDuplicates(tod') /\ Uids(tod') \subseteq Devices
      BY <3>1, <3>2, <3>3, AddUidFacts
    <3> QED
      BY <1>2, <3>3, <3>4 DEF TableOK
  <2>2. CASE ~(QuickFindReceive /\ rx.frame.kind = "mute" /\ rx.frame.uid = quickFind.uid)
    <3>1. UNCHANGED <<tod, mute, doIncremental>>
      BY <2>2 DEF QuickFindSend, QuickFindReceive, QuickFindTimeout
    <3> QED
      BY <1>2, <3>1, TableKept
  <2> QED
    BY <2>1, <2>2
<1> QED
  BY <1>2, <1>3, <1>4, <1>5, <1>6

LEMMA QuickFindDiscoveryPreserves ==
    ASSUME IInv, QuickFindDiscovery PROVE IInv'
<1> USE DEF IInv, QuickFindDiscovery
<1>1. Where = "QuickFindDiscovery" /\ ~discovery.running /\ discovery.pdl \in UidRange
  <2>1. Where = "QuickFindDiscovery"
    BY DEF QuickBranchGiveUp, QuickBranchSend, QuickBranchReceive, QuickBranchTimeout, Where
  <2> QED
    BY <2>1 DEF BranchOK, DiscoveryType
<1>2. Where' \in {"QuickFindDiscovery", "QuickFind", "Dub", "Discovery"} /\ ControlOK'
  <2>1. CASE QuickBranchGiveUp
    BY <2>1, NewStateFacts DEF QuickBranchGiveUp, ControlOK, State
  <2>2. CASE QuickBranchSend \/ QuickBranchTimeout
    BY <1>1, <2>2 DEF QuickBranchSend, QuickBranchTimeout, ControlOK, Where
  <2>3. CASE QuickBranchReceive
    <3>1. CASE ValidResponse
      BY <2>3, <3>1, NewStateFacts DEF QuickBranchReceive, ControlOK, State
    <3>2. CASE ~ValidResponse
      BY <2>3, <3>2, NewStateFacts DEF QuickBranchReceive, ControlOK, State
    <3> QED
      BY <3>1, <3>2
  <2> QED
    BY <2>1, <2>2, <2>3
<1>3. LineOK'
  <2>1. BranchOf(discovery.pdl) \in Request
    BY <1>1, RequestFacts
  <2> QED
    BY <2>1, LineKeptFacts
       DEF QuickBranchGiveUp, QuickBranchSend, QuickBranchReceive, QuickBranchTimeout, LineKept
<1>4. CountersOK'
  <2>1. quickBranch' \in Counted(QuickBranchTries)
    <3>1. QuickBranchTries \in 0..QuickBranchTries /\ quickBranch \in Counted(QuickBranchTries)
      BY DiscoveryAssumption DEF CountersOK
    <3>2. CASE QuickBranchTimeout
      <4>1. quickBranch.counter \in 0..QuickBranchTries /\ quickBranch.counter # 0
        BY <3>1, <3>2 DEF QuickBranchTimeout, Counted
      <4>2. quickBranch.counter - 1 \in 0..QuickBranchTries
        BY <4>1, DiscoveryAssumption
      <4> QED
        BY <3>2, <4>2 DEF QuickBranchTimeout, CountTry, Counted
    <3>3. CASE QuickBranchGiveUp \/ QuickBranchReceive
      <4>1. quickBranch' = [counter |-> QuickBranchTries, running |-> FALSE]
        BY <3>3 DEF QuickBranchGiveUp, QuickBranchReceive
      <4> QED
        BY <3>1, <4>1 DEF Counted
    <3>4. CASE QuickBranchSend
      <4>1. quickBranch' = [quickBranch EXCEPT !.running = TRUE]
        BY <3>4 DEF QuickBranchSend
      <4> QED
        BY <3>1, <4>1 DEF Counted
    <3> QED
      BY <3>2, <3>3, <3>4
  <2>2. UNCHANGED <<unmute, single>>
    BY DEF QuickBranchGiveUp, QuickBranchSend, QuickBranchReceive, QuickBranchTimeout
  <2>3. /\ quickFind' \in [counter : 0..QuickFindTries, running : BOOLEAN, uid : Uid]
        /\ quickFind'.counter = quickFind.counter /\ quickFind'.running = quickFind.running
    <3>1. quickFind \in [counter : 0..QuickFindTries, running : BOOLEAN, uid : Uid]
          /\ rx.frame.uid \in Uid
      BY DEF CountersOK, LineOK, Frame
    <3> QED
      BY <3>1 DEF QuickBranchGiveUp, QuickBranchSend, QuickBranchReceive, QuickBranchTimeout
  <2> QED
    BY <1>1, <1>2, <2>1, <2>2, <2>3 DEF CountersOK
<1>5. BranchOK'
  BY <1>1, <1>2, BranchKept
     DEF QuickBranchGiveUp, QuickBranchSend, QuickBranchReceive, QuickBranchTimeout
<1>6. TableOK'
  BY <1>1, <1>2, TableKept
     DEF QuickBranchGiveUp, QuickBranchSend, QuickBranchReceive, QuickBranchTimeout
<1> QED
  BY <1>2, <1>3, <1>4, <1>5, <1>6

LEMMA StutterPreserves ==
    ASSUME IInv, UNCHANGED vars PROVE IInv'
BY DEF IInv, vars, machine, line, ControlOK, LineOK, Genuine, CountersOK, BranchOK,
       DiscoveryType, Ascending, AboveStack, Asked, BranchOpen, TableOK, Where

LEMMA StepPreserves ==
    ASSUME IInv, [Next]_vars PROVE IInv'
<1>1. CASE \E incremental \in BOOLEAN : Start(incremental)
  BY <1>1, StartPreserves
<1>2. CASE Stop \/ IsFinished \/ Deliver \/ Replug
  BY <1>2, StopPreserves, OthersPreserve
<1>3. CASE Process
  BY <1>3, PausePreserves, UnmutingPreserves, MutingPreserves, BranchRequestPreserves,
     PopPreserves, DubPreserves, SingleDevicePreserves, QuickFindPreserves,
     QuickFindDiscoveryPreserves DEF Process, Branching
<1>4. CASE UNCHANGED vars
  BY <1>4, StutterPreserves
<1> QED
  BY <1>1, <1>2, <1>3, <1>4 DEF Next

LEMMA Invariant == Spec => []IInv
BY InitHolds, StepPreserves, PTL DEF Spec

(***************************************************************************)
(* The theorems.                                                           *)
(***************************************************************************)
\* Every step of the machine, the line and the devices keeps the types, and the
\* branch of the code for a used-up quick-find counter is never taken
\* (rdm_discovery_statemachine.cpp, kQuickfind).
THEOREM TypeCorrect == Spec => []TypeOK
<1>1. IInv => TypeOK
  <2> SUFFICES ASSUME IInv PROVE TypeOK
    OBVIOUS
  <2>1. Where = "QuickFind" => quickFind.counter # 0
    BY DiscoveryAssumption DEF IInv, CountersOK
  <2> QED
    BY <2>1 DEF IInv, ControlOK, LineOK, CountersOK, BranchOK, DiscoveryType, TableOK, TypeOK
<1> QED
  BY <1>1, Invariant, PTL

\* The branches still to search are non-empty, ascending and disjoint, for
\* every width of the UID (the Push calls of kDub, the Pop of kDiscovery).
THEOREM BranchesAlwaysDisjoint == Spec => []BranchesDisjoint
<1>1. IInv => BranchesDisjoint
  <2> SUFFICES ASSUME IInv, Searching PROVE
        /\ \A i \in 1..Len(OpenRanges) :
              OpenRanges[i][1] <= OpenRanges[i][2] /\ OpenRanges[i][2] <= LastUid
        /\ \A i, j \in 1..Len(OpenRanges) : i < j => OpenRanges[i][2] < OpenRanges[j][1]
    BY DEF BranchesDisjoint
  <2> DEFINE s == discovery.stack
             r == <<discovery.lower, discovery.upper>>
             n == Len(s)
  <2>1. Ascending(s) /\ DiscoveryType
    BY DEF IInv, BranchOK, Searching, SearchStates
  <2>2. s \in Seq(UidRange) /\ n \in Nat /\ r \in UidRange
        /\ r[1] = discovery.lower /\ r[2] = discovery.upper
    BY <2>1 DEF DiscoveryType, UidRange
  <2>3. CASE ~BranchOpen
    <3>1. OpenRanges = s
      BY <2>2, <2>3 DEF OpenRanges
    <3> QED
      BY <2>1, <3>1 DEF Ascending
  <2>4. CASE BranchOpen
    <3>1. AboveStack
      BY <2>4 DEF IInv, BranchOK
    <3>2. OpenRanges = s \o <<r>>
      BY <2>4 DEF OpenRanges
    <3> HIDE DEF r
    <3>3. /\ Len(s \o <<r>>) = n + 1
          /\ \A i \in 1..(n + 1) : (s \o <<r>>)[i] = IF i <= n THEN s[i] ELSE <<r>>[i - n]
      BY <2>2, ConcatProperties
    <3>4. \A i \in 1..n : OpenRanges[i] = s[i]
      BY <2>2, <3>2, <3>3
    <3>5. Len(OpenRanges) = n + 1 /\ OpenRanges[n + 1] = r
      BY <2>2, <3>2, <3>3
    <3>6. \A i \in 1..(n + 1) : i \in 1..n \/ i = n + 1
      BY <2>2
    <3>7. \A i \in 1..n : s[i][2] < r[1]
      BY <2>2, <3>1 DEF AboveStack
    <3>8. r[1] <= r[2] /\ r[2] <= LastUid
      BY <2>2, <3>1 DEF AboveStack
    <3>9. \A i, j \in 1..(n + 1) : i < j => i \in 1..n
      BY <2>2
    <3> HIDE DEF s, n
    <3>10. ASSUME NEW i \in 1..(n + 1), NEW j \in 1..(n + 1), i < j
           PROVE  OpenRanges[i][2] < OpenRanges[j][1]
      BY <2>1, <3>4, <3>5, <3>6, <3>7, <3>9, <3>10 DEF Ascending, n
    <3>11. ASSUME NEW i \in 1..(n + 1)
           PROVE  OpenRanges[i][1] <= OpenRanges[i][2] /\ OpenRanges[i][2] <= LastUid
      BY <2>1, <3>4, <3>5, <3>6, <3>8 DEF Ascending, n
    <3> QED
      BY <3>5, <3>10, <3>11
  <2> QED
    BY <2>3, <2>4
<1> QED
  BY <1>1, Invariant, PTL

\* Quick find asks again exactly the branch it interrupted (the buffer pdl_ of
\* kDiscovery, sent again from kQuickfindDiscovery).
THEOREM BranchAlwaysRepeated == Spec => []BranchRepeated
<1>1. IInv => BranchRepeated
  BY DEF IInv, BranchOK, Asked, BranchOpen, BranchRepeated
<1> QED
  BY <1>1, Invariant, PTL

\* The table lists no device twice, whatever the line loses and delays
\* (Tod::AddUid(), Tod::Delete() and all their callers).
THEOREM NeverDuplicated == Spec => []NoDuplicateEntry
<1>1. IInv => NoDuplicateEntry
  BY DEF IInv, TableOK, NoDuplicateEntry
<1> QED
  BY <1>1, Invariant, PTL

\* The probe of kMute stays inside a table that shrinks under it.
THEOREM ProbeAlwaysInside == Spec => []ProbeInsideTable
<1>1. IInv => ProbeInsideTable
  BY DEF IInv, TableOK, ProbeInsideTable, Where
<1> QED
  BY <1>1, Invariant, PTL

\* Every entry of the table is a device that exists (the two AddUid() calls and
\* the comparisons of the source UID in front of them).
THEOREM NothingMadeUp == Spec => []OnlyDevicesListed
<1>1. IInv => OnlyDevicesListed
  BY DEF IInv, TableOK, OnlyDevicesListed
<1> QED
  BY <1>1, Invariant, PTL

(***************************************************************************)
(* What a full run lists was muted in this run.  The line may hold the     *)
(* acknowledgement of an earlier one when it begins: what matters is that  *)
(* none is left when the search begins.                                    *)
(***************************************************************************)
Current(frame) == frame.kind = "mute" => frame.uid \in muted

UnmuteOK ==
    /\ tod = EmptyTod /\ ~discovery.running /\ ~single.running
    /\ unmute.running => wire = NoFrame
    /\ unmute.counter = 0 => wire = NoFrame /\ ~rx.ready

SearchOK ==
    /\ Uids(tod) \subseteq muted
    /\ Current(wire) /\ (rx.ready => Current(rx.frame))
    /\ discovery.running \/ single.running => message.pid # "unmute"

MutedInv == ~doIncremental =>
    /\ Where # "Mute"
    /\ Where = "Unmute" => UnmuteOK
    /\ Searching => SearchOK

\* A request of the search mutes whom it acknowledges, and unmutes nobody.
LEMMA SearchSend ==
    ASSUME SearchOK, NEW req \in Request, req.pid # "unmute", Transmit(req), UNCHANGED <<rx, tod>>
    PROVE  SearchOK'
<1>1. muted \subseteq MutedAfter(req)
  BY DEF MutedAfter
<1>2. muted \subseteq muted' /\ message' = req
  BY <1>1 DEF Transmit
<1>3. Current(wire)'
  <2>1. CASE wire' = NoFrame
    BY <2>1 DEF Current, NoFrame
  <2>2. CASE wire' \in Answers(req) /\ muted' = MutedAfter(req)
    <3>1. CASE req.pid = "mute"
      <4>1. Answers(req) = { IF req.lower \in present
                             THEN [kind |-> "mute", uid |-> req.lower] ELSE NoFrame }
        BY <3>1 DEF Answers
      <4>2. muted' = muted \cup ({req.lower} \cap present)
        BY <2>2, <3>1 DEF MutedAfter
      <4> QED
        BY <2>2, <4>1, <4>2 DEF Current, NoFrame
    <3>2. CASE req.pid # "mute"
      <4>1. wire'.kind # "mute"
        BY <2>2, <3>2 DEF Answers, BranchAnswers, NoFrame
      <4> QED
        BY <4>1 DEF Current
    <3> QED
      BY <3>1, <3>2
  <2> QED
    BY <2>1, <2>2 DEF Transmit
<1> QED
  BY <1>2, <1>3 DEF SearchOK, Current

\* A step of the search that sends nothing.
LEMMA SearchRead ==
    ASSUME IInv, SearchOK, UNCHANGED <<tod, muted, wire, message>>, rx' \in {rx, Drained},
           discovery'.running => discovery.running, single'.running => single.running
    PROVE  SearchOK'
<1>1. rx'.ready => rx' = rx
  BY DEF Drained, IInv, LineOK
<1> QED
  BY <1>1 DEF SearchOK, Current

LEMMA MutedUnmuting ==
    ASSUME IInv, MutedInv, Unmuting, ~doIncremental
    PROVE  MutedInv'
<1>0. state = "Unmute" /\ Where = "Unmute" /\ UnmuteOK /\ UNCHANGED doIncremental
  BY DEF MutedInv, Unmuting, UnmuteDone, UnmuteSend, UnmuteWait, Where
<1>1. CASE UnmuteDone
  <2>1. Where' = "Discovery"
    BY <1>1, NewStateFacts DEF UnmuteDone, IInv, State
  <2>2. SearchOK'
    BY <1>0, <1>1 DEF UnmuteDone, UnmuteOK, SearchOK, Current, NoFrame, line, Uids, EmptyTod
  <2> QED
    BY <2>1, <2>2 DEF MutedInv
<1>2. CASE UnmuteSend
  <2>1. wire' = NoFrame
    BY <1>2 DEF UnmuteSend, Transmit, Answers, Broadcast
  <2>2. unmute'.counter # 0 /\ UNCHANGED <<state, savedState, tod, discovery, single>>
    BY <1>2 DEF UnmuteSend, IInv, CountersOK, Counted
  <2> QED
    BY <1>0, <2>1, <2>2 DEF MutedInv, UnmuteOK, Where, Searching, SearchStates
<1>3. CASE UnmuteWait
  <2>1. wire' = NoFrame /\ rx' = Drained /\ UNCHANGED <<state, savedState, tod, discovery, single>>
    BY <1>0, <1>3 DEF UnmuteWait, UnmuteOK, ReceiveOnly
  <2>2. ~rx'.ready
    BY <2>1 DEF Drained, IInv, LineOK
  <2> QED
    BY <1>0, <2>1, <2>2 DEF MutedInv, UnmuteOK, Where, Searching, SearchStates
<1> QED
  BY <1>1, <1>2, <1>3 DEF Unmuting

LEMMA MutedBranching ==
    ASSUME IInv, MutedInv, Branching, ~doIncremental
    PROVE  MutedInv'
<1>0. Searching /\ SearchOK /\ state \in SearchStates /\ UNCHANGED <<doIncremental, tod, single>>
  BY DEF MutedInv, Branching, BranchReceive, BranchTimeout, SearchDone, PopSingle, PopBranch,
         DubSilent, DubValid, DubSplit, Where, Searching, SearchStates
<1>1. Where' \in SearchStates \cup {"Finished"}
  BY NewStateFacts DEF Branching, BranchReceive, BranchTimeout, SearchDone, PopSingle, PopBranch,
     DubSilent, DubValid, DubSplit, Where, SearchStates, IInv, State
<1>2. SearchOK'
  <2>1. CASE BranchTimeout
    <3>1. message \in Request /\ message.pid # "unmute"
      BY <1>0, <2>1 DEF BranchTimeout, IInv, LineOK, SearchOK
    <3> QED
      BY <1>0, <2>1, <3>1, SearchSend DEF BranchTimeout
  <2>2. CASE PopBranch
    <3>1. BranchOf(Top) \in Request /\ BranchOf(Top).pid # "unmute"
      <4>1. Top \in UidRange
        BY <2>2, PopFacts DEF PopBranch, IInv, BranchOK, DiscoveryType
      <4> QED
        BY <4>1, RequestFacts DEF BranchOf
    <3> QED
      BY <1>0, <2>2, <3>1, SearchSend DEF PopBranch
  <2>3. CASE ~BranchTimeout /\ ~PopBranch
    <3>1. discovery \in [counter : 0..BranchTries, running : BOOLEAN, stack : Seq(UidRange),
                         lower : Uid, upper : Uid, pdl : UidRange]
      BY DEF IInv, BranchOK, DiscoveryType
    <3>2. discovery'.running => discovery.running
      BY <2>3, <3>1 DEF Branching, BranchReceive, SearchDone, PopSingle, DubSilent, DubValid, DubSplit
    <3>3. rx' \in {rx, Drained} /\ UNCHANGED <<muted, wire, message>>
      BY <2>3 DEF Branching, BranchReceive, SearchDone, PopSingle, DubSilent, DubValid, DubSplit,
                  ReceiveOnly, line
    <3> QED
      BY <1>0, <3>2, <3>3, SearchRead
  <2> QED
    BY <2>1, <2>2, <2>3
<1> QED
  BY <1>0, <1>1, <1>2 DEF MutedInv, SearchStates

\* The table grows by a device whose acknowledgement is in the buffer.
LEMMA SearchAdd ==
    ASSUME IInv, SearchOK, NEW uid \in Uid, rx.ready, rx.frame.kind = "mute", rx.frame.uid = uid,
           tod' = AddUid(tod, uid), ReceiveOnly, UNCHANGED discovery,
           single'.running => single.running
    PROVE  SearchOK'
<1>1. uid \in muted /\ tod \in Seq(Uid)
  BY DEF SearchOK, Current, IInv, TableOK
<1>2. Uids(tod') \subseteq Uids(tod) \cup {uid}
  BY <1>1, AddUidFacts
<1>3. ~rx'.ready
  BY DEF ReceiveOnly, Drained, IInv, LineOK
<1> QED
  BY <1>1, <1>2, <1>3 DEF SearchOK, Current, ReceiveOnly

LEMMA MutedSingleDevice ==
    ASSUME IInv, MutedInv, SingleDevice, ~doIncremental
    PROVE  MutedInv'
<1>0. Searching /\ SearchOK /\ UNCHANGED <<doIncremental, discovery>> /\ Where = "SingleDevice"
      /\ discovery.lower \in Uid
  BY DEF MutedInv, SingleDevice, SingleGiveUp, SingleSend, SingleReceive, SingleTimeout, Where,
         Searching, SearchStates, IInv, BranchOK, DiscoveryType
<1>1. Where' \in SearchStates
  <2>1. CASE SingleGiveUp
    BY <2>1, NewStateFacts DEF SingleGiveUp, IInv, State, SearchStates
  <2>2. CASE SingleSend \/ SingleTimeout
    BY <1>0, <2>2 DEF SingleSend, SingleTimeout, Where, SearchStates
  <2>3. CASE SingleReceive
    <3>1. CASE SingleAcknowledged
      BY <2>3, <3>1, NewStateFacts DEF SingleReceive, IInv, State, SearchStates
    <3>2. CASE ~SingleAcknowledged
      BY <1>0, <2>3, <3>2 DEF SingleReceive, Where, SearchStates
    <3> QED
      BY <3>1, <3>2
  <2> QED
    BY <2>1, <2>2, <2>3 DEF SingleDevice
<1>2. SearchOK'
  <2>1. CASE SingleGiveUp
    BY <1>0, <2>1, SearchRead DEF SingleGiveUp, line
  <2>2. CASE SingleSend
    BY <1>0, <2>2, SearchSend, RequestFacts DEF SingleSend, MuteOf
  <2>3. CASE SingleTimeout
    <3>1. message \in Request /\ message.pid # "unmute"
      BY <1>0, <2>3 DEF SingleTimeout, IInv, LineOK, SearchOK
    <3> QED
      BY <1>0, <2>3, <3>1, SearchSend DEF SingleTimeout
  <2>4. CASE SingleReceive /\ SingleAcknowledged
    BY <1>0, <2>4, SearchAdd DEF SingleReceive, SingleAcknowledged, Received
  <2>5. CASE SingleReceive /\ ~SingleAcknowledged
    BY <1>0, <2>5, SearchRead DEF SingleReceive, ReceiveOnly
  <2> QED
    BY <2>1, <2>2, <2>3, <2>4, <2>5 DEF SingleDevice
<1> QED
  BY <1>0, <1>1, <1>2 DEF MutedInv, SearchStates

LEMMA MutedQuickFind ==
    ASSUME IInv, MutedInv, QuickFind \/ QuickFindDiscovery, ~doIncremental
    PROVE  MutedInv'
<1> USE DEF QuickFind, QuickFindDiscovery
<1>0. Searching /\ SearchOK /\ UNCHANGED <<doIncremental, discovery, single>>
      /\ Where \in SearchStates /\ state = Where
  BY DEF MutedInv, QuickFindSend, QuickFindReceive, QuickFindTimeout, QuickBranchGiveUp,
         QuickBranchSend, QuickBranchReceive, QuickBranchTimeout, Where, Searching, SearchStates
<1>u. quickFind.uid \in Uid /\ discovery.pdl \in UidRange
  BY DEF IInv, CountersOK, BranchOK, DiscoveryType
<1>1. Where' \in SearchStates
  <2>1. CASE UNCHANGED <<state, savedState>>
    BY <1>0, <2>1 DEF Where, SearchStates
  <2>2. CASE ~UNCHANGED <<state, savedState>>
    BY <2>2, NewStateFacts DEF QuickFindSend, QuickFindReceive, QuickFindTimeout, QuickBranchGiveUp,
         QuickBranchSend, QuickBranchReceive, QuickBranchTimeout, IInv, State, SearchStates
  <2> QED
    BY <2>1, <2>2
<1>2. SearchOK'
  <2>1. CASE QuickFindSend
    BY <1>0, <1>u, <2>1, SearchSend, RequestFacts DEF QuickFindSend, MuteOf
  <2>2. CASE QuickBranchSend
    <3>1. BranchOf(discovery.pdl) \in Request /\ BranchOf(discovery.pdl).pid # "unmute"
      BY <1>u, RequestFacts DEF BranchOf
    <3> QED
      BY <1>0, <2>2, <3>1, SearchSend DEF QuickBranchSend
  <2>3. CASE QuickFindReceive /\ tod' # tod
    <3>1. /\ rx.ready /\ rx.frame.kind = "mute" /\ rx.frame.uid = quickFind.uid
          /\ tod' = AddUid(tod, quickFind.uid) /\ ReceiveOnly
      BY <2>3 DEF QuickFindReceive, Received
    <3> QED
      BY <1>0, <1>u, <3>1, SearchAdd
  <2>4. CASE QuickFindReceive /\ tod' = tod
    BY <1>0, <2>4, SearchRead DEF QuickFindReceive, ReceiveOnly
  <2>5. CASE QuickFindTimeout \/ QuickBranchGiveUp \/ QuickBranchReceive \/ QuickBranchTimeout
    BY <1>0, <2>5, SearchRead DEF QuickFindTimeout, QuickBranchGiveUp, QuickBranchReceive,
       QuickBranchTimeout, ReceiveOnly, line
  <2> QED
    BY <2>1, <2>2, <2>3, <2>4, <2>5
<1> QED
  BY <1>0, <1>1, <1>2 DEF MutedInv, SearchStates

LEMMA MutedStart ==
    ASSUME IInv, NEW incremental \in BOOLEAN, Start(incremental)
    PROVE  MutedInv'
<1> SUFFICES ASSUME ~incremental PROVE MutedInv'
  BY DEF Start, MutedInv
<1>1. Where' = "Unmute"
  BY NewStateFacts DEF Start, IInv, State
<1>2. /\ tod' = EmptyTod /\ ~single'.running /\ ~unmute'.running /\ unmute'.counter # 0
  BY DiscoveryAssumption DEF Start, TodAtStart
<1>3. ~discovery'.running
  <2>1. discovery \in [counter : 0..BranchTries, running : BOOLEAN, stack : Seq(UidRange),
                       lower : Uid, upper : Uid, pdl : UidRange]
    BY DEF IInv, BranchOK, DiscoveryType
  <2> QED
    BY <2>1 DEF Start
<1> QED
  BY <1>1, <1>2, <1>3 DEF MutedInv, UnmuteOK, Searching, SearchStates

LEMMA MutedOthers ==
    ASSUME IInv, MutedInv, ~HotPlug, ~doIncremental,
           Stop \/ IsFinished \/ Deliver \/ Replug \/ LateResponse \/ Finish \/ UNCHANGED vars
    PROVE  MutedInv'
<1>1. CASE Stop \/ Finish
  <2>1. Where' = "Idle"
    BY <1>1, NewStateFacts DEF Stop, Finish, IInv, State
  <2> QED
    BY <2>1 DEF MutedInv, Searching, SearchStates
<1>2. CASE IsFinished \/ UNCHANGED vars
  BY <1>2 DEF IsFinished, vars, machine, line, MutedInv, UnmuteOK, SearchOK, Current, Where, Searching
<1>3. CASE Replug
  <2>1. Where' = "Idle"
    BY <1>3 DEF Replug, machine, Where
  <2> QED
    BY <2>1 DEF MutedInv, Searching, SearchStates
<1>4. CASE Deliver
  <2>1. /\ Where' = Where /\ (Searching' <=> Searching) /\ wire # NoFrame /\ wire' = NoFrame
        /\ rx'.frame = wire
        /\ UNCHANGED <<doIncremental, tod, unmute, discovery, single, message, muted>>
    BY <1>4 DEF Deliver, machine, Where, Searching
  <2>2. UnmuteOK => UnmuteOK'
    BY <2>1 DEF UnmuteOK
  <2>3. SearchOK => SearchOK'
    BY <2>1 DEF SearchOK, Current, NoFrame
  <2> QED
    BY <2>1, <2>2, <2>3 DEF MutedInv
<1>5. CASE LateResponse
  <2>1. /\ Where' = Where /\ (Searching' <=> Searching)
    BY <1>5 DEF LateResponse, IInv, ControlOK, Where, Searching
  <2>2. rx' = Drained /\ ~rx'.ready
        /\ UNCHANGED <<doIncremental, tod, unmute, discovery, single, message, muted, wire>>
    BY <1>5 DEF LateResponse, ReceiveOnly, Drained, IInv, LineOK
  <2>3. UnmuteOK => UnmuteOK'
    BY <2>2 DEF UnmuteOK
  <2>4. SearchOK => SearchOK'
    BY <2>2 DEF SearchOK, Current
  <2> QED
    BY <2>1, <2>2, <2>3, <2>4 DEF MutedInv
<1> QED
  BY <1>1, <1>2, <1>3, <1>4, <1>5

LEMMA MutedStep ==
    ASSUME ~HotPlug
    PROVE  IInv /\ MutedInv /\ [Next]_vars => MutedInv'
<1> SUFFICES ASSUME IInv, MutedInv, [Next]_vars PROVE MutedInv'
  OBVIOUS
<1>1. CASE \E incremental \in BOOLEAN : Start(incremental)
  BY <1>1, MutedStart
<1>2. CASE doIncremental /\ ~\E incremental \in BOOLEAN : Start(incremental)
  <2>1. doIncremental' = doIncremental
    BY <1>2 DEF Next, vars, machine, Stop, IsFinished, Deliver, Replug, Process, LateResponse, Finish,
         Unmuting, UnmuteDone, UnmuteSend, UnmuteWait, Muting, MuteDone, MuteGone, MuteSend,
         MuteReceive, MuteTimeout, Branching, BranchReceive, BranchTimeout, SearchDone, PopSingle,
         PopBranch, DubSilent, DubValid, DubSplit, SingleDevice, SingleGiveUp, SingleSend,
         SingleReceive, SingleTimeout, QuickFind, QuickFindSend, QuickFindReceive, QuickFindTimeout,
         QuickFindDiscovery, QuickBranchGiveUp, QuickBranchSend, QuickBranchReceive, QuickBranchTimeout
  <2> QED
    BY <1>2, <2>1 DEF MutedInv
<1>3. CASE ~doIncremental /\ Muting
  BY <1>3 DEF MutedInv, Muting, MuteDone, MuteGone, MuteSend, MuteReceive, MuteTimeout, Where
<1>4. CASE ~doIncremental /\ Process /\ ~Muting
  BY <1>4, MutedUnmuting, MutedBranching, MutedSingleDevice, MutedQuickFind, MutedOthers DEF Process
<1>5. CASE ~doIncremental /\ (Stop \/ IsFinished \/ Deliver \/ Replug \/ UNCHANGED vars)
  BY <1>5, MutedOthers
<1> QED
  BY <1>1, <1>2, <1>3, <1>4, <1>5 DEF Next

\* A full discovery lists only devices muted since its DISC_UN_MUTE, also when
\* frames of an earlier run or late answers are on the line as it begins: the
\* drain of the receive buffer in kUnmute, and the source UID compared before
\* the two AddUid() calls.
THEOREM OnlyMutedAlwaysListed ==
    ASSUME ~HotPlug
    PROVE  Spec => []OnlyMutedListed
<1>1. Init => MutedInv
  BY DEF Init, MutedInv, Where, Searching, SearchStates
<1>2. MutedInv => OnlyMutedListed
  BY DEF MutedInv, SearchOK, OnlyMutedListed
<1>3. IInv /\ MutedInv /\ [Next]_vars => MutedInv'
  BY MutedStep
<1> QED
  BY <1>1, <1>2, <1>3, Invariant, PTL DEF Spec

(***************************************************************************)
(* Where each step of Process() leads, now or after the pause.             *)
(***************************************************************************)
LEMMA WhereUnmuting ==
    ASSUME IInv
    PROVE  /\ UnmuteDone => /\ state = "Unmute" /\ Where = "Unmute"
                            /\ Where' = IF doIncremental THEN "Mute" ELSE "Discovery"
           /\ UnmuteSend \/ UnmuteWait => state = "Unmute" /\ Where = "Unmute" /\ Where' = "Unmute"
           /\ MuteDone => state = "Mute" /\ Where = "Mute" /\ Where' = "Discovery"
           /\ MuteGone \/ MuteSend \/ MuteReceive \/ MuteTimeout =>
                 state = "Mute" /\ Where = "Mute" /\ Where' = "Mute"
<1>1. UnmuteDone => /\ state = "Unmute" /\ Where = "Unmute"
                    /\ Where' = IF doIncremental THEN "Mute" ELSE "Discovery"
  <2>1. UnmuteDone => state = "Unmute" /\ Where = "Unmute"
    BY DEF UnmuteDone, Where
  <2>2. UnmuteDone /\ doIncremental => Where' = "Mute"
    BY NewStateFacts DEF UnmuteDone, IInv, State
  <2>3. UnmuteDone /\ ~doIncremental => Where' = "Discovery"
    BY NewStateFacts DEF UnmuteDone, IInv, State
  <2> QED
    BY <2>1, <2>2, <2>3
<1>2. UnmuteSend \/ UnmuteWait => state = "Unmute" /\ Where = "Unmute" /\ Where' = "Unmute"
  BY DEF UnmuteSend, UnmuteWait, Where
<1>3. MuteDone => state = "Mute" /\ Where = "Mute" /\ Where' = "Discovery"
  BY NewStateFacts DEF MuteDone, IInv, Where, State
<1>4. MuteGone \/ MuteSend \/ MuteReceive \/ MuteTimeout =>
         state = "Mute" /\ Where = "Mute" /\ Where' = "Mute"
  BY DEF MuteGone, MuteSend, MuteReceive, MuteTimeout, Where
<1> QED
  BY <1>1, <1>2, <1>3, <1>4

LEMMA WhereBranching ==
    ASSUME IInv
    PROVE  /\ BranchReceive => state = "Discovery" /\ Where = "Discovery" /\ Where' = "Dub"
           /\ BranchTimeout \/ PopBranch =>
                 state = "Discovery" /\ Where = "Discovery" /\ Where' = "Discovery"
           /\ SearchDone => state = "Discovery" /\ Where = "Discovery" /\ Where' = "Finished"
           /\ PopSingle => state = "Discovery" /\ Where = "Discovery" /\ Where' = "SingleDevice"
           /\ DubSilent \/ DubSplit => state = "Dub" /\ Where = "Dub" /\ Where' = "Discovery"
           /\ DubValid => state = "Dub" /\ Where = "Dub" /\ Where' = "QuickFind"
<1>1. BranchReceive => state = "Discovery" /\ Where = "Discovery" /\ Where' = "Dub"
  BY NewStateFacts DEF BranchReceive, IInv, Where, State
<1>2. BranchTimeout \/ PopBranch =>
         state = "Discovery" /\ Where = "Discovery" /\ Where' = "Discovery"
  BY DEF BranchTimeout, PopBranch, Where
<1>3. SearchDone => state = "Discovery" /\ Where = "Discovery" /\ Where' = "Finished"
  BY NewStateFacts DEF SearchDone, IInv, Where, State
<1>4. PopSingle => state = "Discovery" /\ Where = "Discovery" /\ Where' = "SingleDevice"
  BY NewStateFacts DEF PopSingle, IInv, Where, State
<1>5. DubSilent => state = "Dub" /\ Where = "Dub" /\ Where' = "Discovery"
  BY NewStateFacts DEF DubSilent, IInv, Where, State
<1>6. DubSplit => state = "Dub" /\ Where = "Dub" /\ Where' = "Discovery"
  BY NewStateFacts DEF DubSplit, IInv, Where, State
<1>7. DubValid => state = "Dub" /\ Where = "Dub" /\ Where' = "QuickFind"
  BY NewStateFacts DEF DubValid, IInv, Where, State
<1> QED
  BY <1>1, <1>2, <1>3, <1>4, <1>5, <1>6, <1>7

LEMMA WhereFinding ==
    ASSUME IInv
    PROVE  /\ SingleDevice => state = "SingleDevice" /\ Where = "SingleDevice"
           /\ SingleGiveUp => Where' = "Discovery"
           /\ SingleSend \/ SingleTimeout => Where' = "SingleDevice"
           /\ SingleReceive => Where' = IF SingleAcknowledged THEN "Discovery" ELSE "SingleDevice"
           /\ QuickFind => state = "QuickFind" /\ Where = "QuickFind"
           /\ QuickFindSend \/ QuickFindTimeout => Where' = "QuickFind"
           /\ QuickFindReceive => Where' = IF rx.frame.kind = "mute" THEN "QuickFindDiscovery"
                                           ELSE "QuickFind"
           /\ QuickFindDiscovery => state = "QuickFindDiscovery" /\ Where = "QuickFindDiscovery"
           /\ QuickBranchGiveUp => Where' = "Discovery"
           /\ QuickBranchSend \/ QuickBranchTimeout => Where' = "QuickFindDiscovery"
           /\ QuickBranchReceive => Where' = IF ValidResponse THEN "QuickFind" ELSE "Dub"
<1>1. SingleDevice => state = "SingleDevice" /\ Where = "SingleDevice"
  BY DEF SingleDevice, SingleGiveUp, SingleSend, SingleReceive, SingleTimeout, Where
<1>2. SingleGiveUp => Where' = "Discovery"
  BY NewStateFacts DEF SingleGiveUp, IInv, State
<1>3. SingleSend \/ SingleTimeout => Where' = "SingleDevice"
  BY <1>1 DEF SingleDevice, SingleSend, SingleTimeout, Where
<1>4. SingleReceive => Where' = IF SingleAcknowledged THEN "Discovery" ELSE "SingleDevice"
  <2>1. SingleReceive /\ SingleAcknowledged => Where' = "Discovery"
    BY NewStateFacts DEF SingleReceive, IInv, State
  <2>2. SingleReceive /\ ~SingleAcknowledged => Where' = "SingleDevice"
    BY DEF SingleReceive, Where
  <2> QED
    BY <2>1, <2>2
<1>5. QuickFind => state = "QuickFind" /\ Where = "QuickFind"
  BY DEF QuickFind, QuickFindSend, QuickFindReceive, QuickFindTimeout, Where
<1>6. QuickFindSend \/ QuickFindTimeout => Where' = "QuickFind"
  BY DEF QuickFindSend, QuickFindTimeout, Where
<1>7. QuickFindReceive => Where' = IF rx.frame.kind = "mute" THEN "QuickFindDiscovery"
                                   ELSE "QuickFind"
  <2>1. QuickFindReceive /\ rx.frame.kind = "mute" => Where' = "QuickFindDiscovery"
    BY NewStateFacts DEF QuickFindReceive, IInv, State
  <2>2. QuickFindReceive /\ rx.frame.kind # "mute" => Where' = "QuickFind"
    BY DEF QuickFindReceive, Where
  <2> QED
    BY <2>1, <2>2
<1>8. QuickFindDiscovery => state = "QuickFindDiscovery" /\ Where = "QuickFindDiscovery"
  BY DEF QuickFindDiscovery, QuickBranchGiveUp, QuickBranchSend, QuickBranchReceive,
         QuickBranchTimeout, Where
<1>9. QuickBranchGiveUp => Where' = "Discovery"
  BY NewStateFacts DEF QuickBranchGiveUp, IInv, State
<1>10. QuickBranchSend \/ QuickBranchTimeout => Where' = "QuickFindDiscovery"
  BY DEF QuickBranchSend, QuickBranchTimeout, Where
<1>11. QuickBranchReceive => Where' = IF ValidResponse THEN "QuickFind" ELSE "Dub"
  <2>1. QuickBranchReceive /\ ValidResponse => Where' = "QuickFind"
    BY NewStateFacts DEF QuickBranchReceive, IInv, State
  <2>2. QuickBranchReceive /\ ~ValidResponse => Where' = "Dub"
    BY NewStateFacts DEF QuickBranchReceive, IInv, State
  <2> QED
    BY <2>1, <2>2
<1> QED
  BY <1>1, <1>2, <1>3, <1>4, <1>5, <1>6, <1>7, <1>8, <1>9, <1>10, <1>11

LEMMA WhereOther ==
    ASSUME IInv
    PROVE  /\ \A incremental \in BOOLEAN : Start(incremental) =>
                 state = "Idle" /\ Where = "Idle" /\ Where' = "Unmute"
           /\ Stop => Where' = "Idle"
           /\ Finish => Where = "Finished" /\ Where' = "Idle"
           /\ LateResponse \/ IsFinished \/ Deliver \/ Replug \/ UNCHANGED vars => Where' = Where
<1>1. \A incremental \in BOOLEAN : Start(incremental) =>
         state = "Idle" /\ Where = "Idle" /\ Where' = "Unmute"
  BY NewStateFacts DEF Start, Where, IInv, State
<1>2. Stop => Where' = "Idle"
  BY NewStateFacts DEF Stop, IInv, State
<1>3. Finish => Where = "Finished" /\ Where' = "Idle"
  BY NewStateFacts DEF Finish, Where, IInv, State
<1>4. LateResponse => Where' = Where
  BY DEF LateResponse, IInv, ControlOK, Where
<1>5. IsFinished \/ Deliver \/ Replug \/ UNCHANGED vars => Where' = Where
  BY DEF IsFinished, Deliver, Replug, vars, machine, Where
<1> QED
  BY <1>1, <1>2, <1>3, <1>4, <1>5

(***************************************************************************)
(* StackBounded.  The branch at depth i of the stack, and the one popped   *)
(* from above it, is what i halvings leave of the whole range or less.     *)
(***************************************************************************)
\* What the powers of two are, counted by the subsets of 1..n.
LEMMA PowerFacts ==
    ASSUME NEW n \in Nat
    PROVE  2^n \in Nat /\ 2^(n + 1) = 2 * 2^n
<1> DEFINE A == 1..n
           x == n + 1
           S == SUBSET A
           T == { s \in SUBSET (1..x) : x \in s }
           f == [s \in S |-> s \cup {x}]
<1>1. IsFiniteSet(A) /\ Cardinality(A) = n /\ IsFiniteSet(1..x) /\ Cardinality(1..x) = n + 1
  BY FS_Interval
<1>2. IsFiniteSet(S) /\ Cardinality(S) = 2^n /\ Cardinality(SUBSET (1..x)) = 2^(n + 1)
  BY <1>1, FS_SUBSET
<1>3. 1..x = A \cup {x} /\ x \notin A
  OBVIOUS
<1> HIDE DEF A, x
<1>4. f \in Bijection(S, T)
  <2>1. f \in [S -> T]
    BY <1>3
  <2>2. ASSUME NEW s \in S, NEW t \in S, f[s] = f[t] PROVE s = t
    <3>1. s \cup {x} = t \cup {x} /\ x \notin s /\ x \notin t
      BY <1>3, <2>2
    <3> QED
      BY <3>1
  <2>3. ASSUME NEW t \in T PROVE \E s \in S : f[s] = t
    <3>1. t \ {x} \in S /\ f[t \ {x}] = t
      BY <1>3
    <3> QED
      BY <3>1
  <2> HIDE DEF f, S, T
  <2>4. f \in Injection(S, T)
    BY <2>1, <2>2 DEF Injection, IsInjective
  <2>5. f \in Surjection(S, T)
    BY <2>1, <2>3 DEF Surjection
  <2> QED
    BY <2>4, <2>5 DEF Bijection
<1>5. IsFiniteSet(T) /\ Cardinality(T) = 2^n
  <2> HIDE DEF f, S, T
  <2> QED
    BY <1>2, <1>4, FS_Bijection DEF ExistsBijection
<1>6. SUBSET (1..x) = S \cup T /\ S \cap T = {}
  BY <1>3
<1> HIDE DEF S, T, f
<1>7. Cardinality(S \cup T) = Cardinality(S) + Cardinality(T) - Cardinality(S \cap T)
  BY <1>2, <1>5, FS_Union
<1>8. Cardinality(S \cap T) = 0
  BY <1>6, FS_EmptySet
<1>9. 2^n \in Nat
  BY <1>2, FS_CardinalityType
<1>10. 2^(n + 1) = 2^n + 2^n - 0
  BY <1>2, <1>5, <1>6, <1>7, <1>8
<1> DEFINE c == 2^n
           d == 2^(n + 1)
<1>11. c \in Nat /\ d = c + c - 0
  BY <1>9, <1>10
<1> HIDE DEF c, d
<1>12. d = 2 * c
  BY <1>11
<1> QED
  BY <1>9, <1>12 DEF c, d

\* Multiplying keeps the order.
LEMMA TimesFacts ==
    ASSUME NEW w \in Nat, NEW s \in Nat, NEW t \in Nat, t <= s
    PROVE  w * t <= w * s
<1>1. PICK k \in Nat : s = t + k
  <2>1. s - t \in Nat /\ s = t + (s - t)
    OBVIOUS
  <2> QED
    BY <2>1
<1>2. w * s = w * t + w * k
  BY <1>1
<1>3. w * k \in Nat /\ w * t \in Nat
  OBVIOUS
<1> DEFINE a == w * t
           b == w * k
           c == w * s
<1>4. a \in Nat /\ b \in Nat /\ c = a + b
  BY <1>2, <1>3
<1> HIDE DEF a, b, c
<1>5. a <= c
  BY <1>4
<1> QED
  BY <1>5 DEF a, c

\* A branch that n halvings may leave of the whole range.
Halved(n, l, u) == l <= u /\ 2^n * (u - l + 1) <= LastUid + 1

StackInv ==
    /\ \A i \in 1..Len(discovery.stack) :
          Halved(i - 1, discovery.stack[i][1], discovery.stack[i][2])
    /\ BranchOpen => Halved(Len(discovery.stack), discovery.lower, discovery.upper)

\* The lower half of a branch is no longer than the branch, and the upper half
\* is not longer than half of it.
LEMMA HalvesFacts ==
    ASSUME NEW n \in Nat, NEW l \in Uid, NEW u \in Uid, l < u, Halved(n, l, u)
    PROVE  /\ Halved(n, l, MidPosition(l, u))
           /\ Halved(n + 1, MidPosition(l, u) + 1, u)
<1> DEFINE m == MidPosition(l, u)
           w == 2^n
           C == LastUid + 1
<1>1. l \in Nat /\ u \in Nat /\ C \in Nat
  BY UidFacts
<1>2. m = (l + u) \div 2
  BY MidPositionFacts
<1> HIDE DEF m
<1>3. m \in Nat /\ l <= m /\ m < u /\ 2 * (u - m) <= u - l + 1
  BY <1>1, <1>2
<1>4. w \in Nat /\ 2^(n + 1) = 2 * w
  BY PowerFacts
<1>5. w * (u - l + 1) <= C
  BY DEF Halved
<1> HIDE DEF w, C
<1> DEFINE s == u - l + 1
           t == m - l + 1
           h == u - m
<1>6. s \in Nat /\ t \in Nat /\ h \in Nat /\ t <= s /\ 2 * h <= s /\ 2 * h \in Nat
  BY <1>1, <1>3
<1>7. w * s <= C
  BY <1>5
<1>8. u - (m + 1) + 1 = h /\ m + 1 <= u
  BY <1>1, <1>3
<1> HIDE DEF s, t, h
<1>9. w * t <= w * s /\ w * (2 * h) <= w * s
  BY <1>4, <1>6, TimesFacts
<1>10. w * t \in Nat /\ w * s \in Nat /\ w * (2 * h) \in Nat
  BY <1>4, <1>6
<1>11. w * t <= C /\ w * (2 * h) <= C
  BY <1>1, <1>7, <1>9, <1>10
<1>12. (2 * w) * h = w * (2 * h)
  BY <1>4, <1>6
<1>13. Halved(n, l, m)
  BY <1>3, <1>11 DEF Halved, t, w, C
<1>14. 2^(n + 1) * (u - (m + 1) + 1) <= C
  BY <1>4, <1>8, <1>11, <1>12
<1>15. Halved(n + 1, m + 1, u)
  BY <1>8, <1>14 DEF Halved, C
<1> QED
  BY <1>13, <1>15 DEF m

LEMMA StackStays ==
    ASSUME StackInv, BranchOpen' => BranchOpen,
           discovery'.stack = discovery.stack,
           discovery'.lower = discovery.lower, discovery'.upper = discovery.upper
    PROVE  StackInv'
BY DEF StackInv

\* The steps that neither push nor pop.
LEMMA StackUntouched ==
    ASSUME IInv, StackInv,
           Unmuting \/ Muting \/ BranchReceive \/ BranchTimeout \/ SearchDone \/ DubSilent
             \/ DubValid \/ SingleDevice \/ QuickFind \/ QuickFindDiscovery \/ LateResponse
             \/ Finish \/ Stop \/ IsFinished \/ Deliver \/ Replug \/ UNCHANGED vars
    PROVE  StackInv'
<1>1. DiscoveryType /\ (Where \notin {"Idle", "Discovery"} => ~discovery.running)
  BY DEF IInv, BranchOK
<1>2. /\ discovery'.stack = discovery.stack
      /\ discovery'.lower = discovery.lower /\ discovery'.upper = discovery.upper
  <2>1. CASE BranchReceive \/ BranchTimeout
    BY <1>1, <2>1 DEF BranchReceive, BranchTimeout, DiscoveryType
  <2>2. CASE UNCHANGED discovery
    BY <2>2
  <2>3. CASE Unmuting \/ Muting
    BY <2>3 DEF Unmuting, Muting, UnmuteDone, UnmuteSend, UnmuteWait, MuteDone, MuteGone,
                MuteSend, MuteReceive, MuteTimeout
  <2>4. CASE SearchDone \/ DubSilent \/ DubValid
    BY <2>4 DEF SearchDone, DubSilent, DubValid
  <2>5. CASE SingleDevice
    BY <2>5 DEF SingleDevice, SingleGiveUp, SingleSend, SingleReceive, SingleTimeout
  <2>6. CASE QuickFind \/ QuickFindDiscovery
    BY <2>6 DEF QuickFind, QuickFindSend, QuickFindReceive, QuickFindTimeout,
                QuickFindDiscovery, QuickBranchGiveUp, QuickBranchSend, QuickBranchReceive,
                QuickBranchTimeout
  <2>7. CASE LateResponse \/ Finish \/ Stop \/ IsFinished
    BY <2>7 DEF LateResponse, Finish, Stop, IsFinished
  <2>8. CASE Deliver \/ Replug \/ UNCHANGED vars
    BY <2>8 DEF Deliver, Replug, vars, machine
  <2> QED
    BY <2>1, <2>3, <2>4, <2>5, <2>6, <2>7, <2>8
<1>3. BranchOpen' => BranchOpen
  <2>1. CASE Unmuting
    <3>1. discovery' = discovery /\ Where = "Unmute" /\ Where' \in {"Unmute", "Mute", "Discovery"}
      BY <2>1, WhereUnmuting DEF Unmuting, UnmuteDone, UnmuteSend, UnmuteWait
    <3> QED
      BY <1>1, <3>1 DEF BranchOpen
  <2>2. CASE Muting
    <3>1. discovery' = discovery /\ Where = "Mute" /\ Where' \in {"Mute", "Discovery"}
      BY <2>2, WhereUnmuting DEF Muting, MuteDone, MuteGone, MuteSend, MuteReceive, MuteTimeout
    <3> QED
      BY <1>1, <3>1 DEF BranchOpen
  <2>3. CASE BranchReceive \/ BranchTimeout
    <3>1. Where = "Discovery" /\ discovery.running
      BY <2>3, WhereBranching DEF BranchReceive, BranchTimeout
    <3> QED
      BY <3>1 DEF BranchOpen
  <2>4. CASE SearchDone
    BY <2>4, WhereBranching DEF BranchOpen
  <2>5. CASE DubSilent \/ DubValid
    BY <2>5, WhereBranching DEF BranchOpen
  <2>6. CASE SingleDevice \/ QuickFind \/ QuickFindDiscovery
    BY <2>6, WhereFinding DEF BranchOpen
  <2>7. CASE Finish \/ Stop
    BY <2>7, WhereOther DEF BranchOpen
  <2>8. CASE LateResponse \/ IsFinished \/ Deliver \/ Replug \/ UNCHANGED vars
    <3>1. Where' = Where
      BY <2>8, WhereOther
    <3>2. discovery' = discovery
      BY <2>8 DEF LateResponse, IsFinished, Deliver, Replug, vars, machine
    <3> QED
      BY <3>1, <3>2 DEF BranchOpen
  <2> QED
    BY <2>1, <2>2, <2>3, <2>4, <2>5, <2>6, <2>7, <2>8
<1> QED
  BY <1>2, <1>3, StackStays

\* Start() pushes the whole range.
LEMMA StackStart ==
    ASSUME IInv, NEW incremental \in BOOLEAN, Start(incremental)
    PROVE  StackInv'
<1>1. discovery'.stack = << <<0, LastUid>> >>
  BY DEF Start, IInv, BranchOK, DiscoveryType
<1>2. ~BranchOpen'
  BY WhereOther DEF BranchOpen
<1>3. 2^0 = 1
  BY FS_EmptySet, FS_SUBSET, FS_Singleton
<1>4. Halved(0, 0, LastUid)
  <2>1. LastUid \in Nat /\ 1 * (LastUid - 0 + 1) <= LastUid + 1
    BY UidFacts
  <2> QED
    BY <1>3, <2>1 DEF Halved
<1> QED
  BY <1>1, <1>2, <1>4 DEF StackInv

LEMMA StackPop ==
    ASSUME IInv, StackInv, PopSingle \/ PopBranch
    PROVE  StackInv'
<1> DEFINE n == Len(discovery.stack)
<1>1. DiscoveryType /\ discovery.stack \in Seq(UidRange) /\ discovery.stack # << >>
  BY DEF IInv, BranchOK, DiscoveryType, PopSingle, PopBranch
<1>2. n \in Nat \ {0} /\ Rest \in Seq(UidRange) /\ Len(Rest) = n - 1
      /\ \A i \in 1..(n - 1) : Rest[i] = discovery.stack[i]
  BY <1>1, PopFacts
<1>3. /\ discovery'.stack = Rest
      /\ discovery'.lower = Top[1] /\ discovery'.upper = Top[2]
  BY <1>1 DEF PopSingle, PopBranch, DiscoveryType
<1>4. Halved(n - 1, Top[1], Top[2])
  BY <1>2 DEF StackInv, Top
<1>5. \A i \in 1..(n - 1) : i \in 1..n
  BY <1>2
<1> QED
  BY <1>2, <1>3, <1>4, <1>5 DEF StackInv

LEMMA StackSplit ==
    ASSUME IInv, StackInv, DubSplit
    PROVE  StackInv'
<1> DEFINE n == Len(discovery.stack)
           l == discovery.lower
           u == discovery.upper
           new == discovery.stack \o Halves(l, u)
<1>1. DiscoveryType /\ discovery.stack \in Seq(UidRange) /\ l \in Uid /\ u \in Uid
  BY DEF IInv, BranchOK, DiscoveryType
<1>2. Where = "Dub" /\ Where' = "Discovery"
  BY WhereBranching
<1>3. BranchOpen /\ ~discovery.running /\ l < u
  BY <1>2 DEF BranchOpen, IInv, BranchOK, Asked
<1>4. discovery'.stack = new /\ ~discovery'.running
  BY <1>1, <1>3 DEF DubSplit, DiscoveryType
<1>5. ~BranchOpen'
  BY <1>2, <1>4 DEF BranchOpen
<1>6. n \in Nat /\ Halved(n, l, u)
  BY <1>1, <1>3 DEF StackInv
<1>7. Halved(n, l, MidPosition(l, u)) /\ Halved(n + 1, MidPosition(l, u) + 1, u)
  BY <1>1, <1>3, <1>6, HalvesFacts
<1>8. /\ Len(new) = n + 2
      /\ \A i \in 1..n : new[i] = discovery.stack[i]
      /\ new[n + 1] = <<l, MidPosition(l, u)>>
      /\ new[n + 2] = <<MidPosition(l, u) + 1, u>>
  <2> DEFINE stack == discovery.stack
  <2>1. stack \in Seq(UidRange) /\ l \in Uid /\ u \in Uid /\ l < u
    BY <1>1, <1>3
  <2> HIDE DEF stack, l, u
  <2> QED
    BY ONLY <2>1, PushFacts DEF stack
<1> HIDE DEF new
<1>9. ASSUME NEW i \in 1..(n + 2) PROVE Halved(i - 1, new[i][1], new[i][2])
  <2>1. CASE i \in 1..n
    BY <1>8, <2>1 DEF StackInv
  <2>2. CASE i = n + 1
    <3>1. i - 1 = n
      BY <1>6, <2>2
    <3> QED
      BY <1>7, <1>8, <2>2, <3>1
  <2>3. CASE i = n + 2
    <3>1. i - 1 = n + 1
      BY <1>6, <2>3
    <3> QED
      BY <1>7, <1>8, <2>3, <3>1
  <2> QED
    BY <1>6, <2>1, <2>2, <2>3
<1> QED
  BY <1>4, <1>5, <1>8, <1>9 DEF StackInv

\* The stack holds at most one branch per bit of the UID and one: each pair that
\* kDub pushes lies in a branch half as long as the pair below it, so that the
\* Push() whose result nobody looks at never meets a full stack.
THEOREM StackAlwaysBounded == Spec => []StackBounded
<1>1. Init => StackInv
  BY DEF Init, StackInv, BranchOpen, Where
<1>2. IInv /\ IInv' /\ StackInv /\ [Next]_vars => StackInv'
  <2> SUFFICES ASSUME IInv, StackInv, [Next]_vars PROVE StackInv'
    OBVIOUS
  <2>1. ASSUME NEW incremental \in BOOLEAN, Start(incremental) PROVE StackInv'
    BY <2>1, StackStart
  <2>2. CASE PopSingle \/ PopBranch
    BY <2>2, StackPop
  <2>3. CASE DubSplit
    BY <2>3, StackSplit
  <2> QED
    BY <2>1, <2>2, <2>3, StackUntouched DEF Next, Process, Branching
<1>3. IInv /\ StackInv => StackBounded
  <2> SUFFICES ASSUME IInv, StackInv PROVE StackBounded
    OBVIOUS
  <2> DEFINE n == Len(discovery.stack)
             w == 2^n
             v == 2^(n - 1)
  <2>1. n \in Nat
    BY DEF IInv, BranchOK, DiscoveryType
  <2>2. w \in Nat /\ HighBit \in Nat /\ LastUid + 1 = 2 * HighBit - 1 /\ HighBit > 0
    BY <2>1, PowerFacts, UidFacts DEF LastUid
  <2>3. CASE n = 0
    <3>1. 2^0 = 1
      BY FS_EmptySet, FS_SUBSET, FS_Singleton
    <3> QED
      BY <2>2, <2>3, <3>1 DEF StackBounded
  <2>4. CASE n # 0
    <3> DEFINE l == discovery.stack[n][1]
               u == discovery.stack[n][2]
               s == u - l + 1
    <3>1. n - 1 \in Nat /\ (n - 1) + 1 = n /\ n \in 1..n
      BY <2>1, <2>4
    <3>2. v \in Nat /\ w = 2 * v
      BY <3>1, PowerFacts
    <3>3. Halved(n - 1, l, u)
      BY <3>1 DEF StackInv
    <3>4. l \in Uid /\ u \in Uid
      BY <3>1, ElementOfSeq DEF IInv, BranchOK, DiscoveryType, UidRange
    <3>5. s \in Nat /\ 1 <= s /\ v * s <= LastUid + 1
      <4>1. l <= u /\ v * s <= LastUid + 1
        BY <3>3 DEF Halved
      <4>2. l \in Nat /\ u \in Nat
        BY <3>4, UidFacts
      <4> HIDE DEF v, l, u
      <4> QED
        BY <4>1, <4>2
    <3> HIDE DEF s, v, w
    <3>6. v * 1 <= v * s /\ v * s \in Nat
      BY <3>2, <3>5, TimesFacts
    <3>7. v <= LastUid + 1
      BY <2>2, <3>2, <3>5, <3>6
    <3>8. w <= 4 * HighBit
      BY <2>2, <3>2, <3>7
    <3> QED
      BY <3>8 DEF StackBounded, w
  <2> QED
    BY <2>3, <2>4
<1> QED
  BY <1>1, <1>2, <1>3, Invariant, PTL DEF Spec

(***************************************************************************)
(* A discovery that finishes is complete: on a line that is punctual, whose*)
(* devices stay during a run, and that loses fewer messages than the       *)
(* protocol repeats.                                                       *)
(***************************************************************************)
Punctual ==
    /\ ~Late /\ ~HotPlug
    /\ MaxLost < UnmuteTries /\ MaxLost < MuteTries
    /\ MaxLost < BranchTries /\ MaxLost < QuickBranchTries

\* Nothing is on its way to the controller or waits to be read.
Quiet == wire = NoFrame /\ ~rx.ready

\* More tries are left than the line can lose messages.
Enough(counter) == lost + counter > MaxLost

\* Somebody answers the request.
Due(req) == \/ req.pid = "mute" /\ req.lower \in present
            \/ req.pid = "dub" /\ \E d \in present \ muted : req.lower <= d /\ d <= req.upper

\* The frame answers the request.
Proper(req, frame) ==
    \/ /\ req.pid = "mute" /\ req.lower \in present
       /\ frame = [kind |-> "mute", uid |-> req.lower]
    \/ /\ req.pid = "dub" /\ frame.kind \in {"dub", "garbage"}
       /\ frame.kind = "dub" => frame.uid \in present

\* What is heard answers the request, and whoever acknowledges is muted.
Hearing(req) ==
    /\ wire = NoFrame \/ Proper(req, wire)
    /\ rx.ready => wire = NoFrame /\ Proper(req, rx.frame)
    /\ ~Quiet => Due(req) /\ (req.pid = "mute" => req.lower \in muted)

\* The request was sent, and if somebody answers it then either the answer is
\* here or the line has lost one message more.
Awaiting(req, counter) ==
    /\ message = req /\ Hearing(req)
    /\ Due(req) => Enough(counter) /\ (Quiet => lost + counter > MaxLost + 1)

WholeRange == discovery.stack = << <<0, LastUid>> >>

UnmutePhase ==
    /\ WholeRange
    /\ doIncremental => mute.entries = Len(tod)
    /\ ~doIncremental => tod = EmptyTod
    /\ muted # {} => /\ Enough(unmute.counter)
                     /\ unmute.running => lost + unmute.counter > MaxLost + 1
    /\ unmute.running => wire = NoFrame /\ unmute.counter # 0
    /\ unmute.counter = 0 => Quiet

\* The entries above the cursor are muted, and no other device is.
MutePhase ==
    /\ WholeRange /\ doIncremental
    /\ \A i \in 1..Len(tod) : mute.entries < i => tod[i] \in muted
    /\ muted \subseteq Uids(tod)
    /\ mute.running => mute.entries # 0 /\ Awaiting(MuteOf(mute.uid), mute.counter)
    /\ ~mute.running => Quiet /\ Enough(mute.counter)

\* The UID lies in a branch that is still to be searched.
Open(d) ==
    \/ \E i \in 1..Len(discovery.stack) :
          discovery.stack[i][1] <= d /\ d <= discovery.stack[i][2]
    \/ BranchOpen /\ discovery.lower <= d /\ d <= discovery.upper

Covered == \A d \in present \ muted : Open(d)

\* The device that is being muted.
InHand == IF Where = "QuickFind" THEN {quickFind.uid}
          ELSE IF Where = "SingleDevice" THEN {discovery.lower} ELSE {}

Full == Len(tod) = TableSize

\* The table lists the muted devices, but for the one in hand or for lack of room.
Listed == /\ Uids(tod) \subseteq muted
          /\ muted \subseteq Uids(tod) \cup InHand \/ Full

Branch == BranchOf(discovery.pdl)

DiscoveryPhase ==
    /\ discovery.running => Awaiting(Branch, discovery.counter)
    /\ ~discovery.running => Quiet

DubPhase ==
    /\ Quiet
    /\ response /\ ValidResponse => rx.frame.uid \in present
    /\ ~response => ~Due(Branch)

QuickFindPhase ==
    /\ quickFind.uid \in present
    /\ quickFind.running => Hearing(MuteOf(quickFind.uid))
    /\ ~quickFind.running => Quiet

QuickBranchPhase ==
    /\ quickBranch.running => Awaiting(Branch, quickBranch.counter)
    /\ ~quickBranch.running => Quiet /\ (Due(Branch) => Enough(quickBranch.counter))

SinglePhase ==
    /\ discovery.lower = discovery.upper
    /\ single.running => Awaiting(MuteOf(discovery.lower), single.counter)
    /\ ~single.running => Quiet /\ Enough(single.counter)

FinishedPhase == Quiet /\ discovery.stack = << >>

\* The requests that are not in use are ready for use.
Spare ==
    /\ Where # "SingleDevice" => ~single.running /\ Enough(single.counter)
    /\ Where # "QuickFindDiscovery" => ~quickBranch.running /\ Enough(quickBranch.counter)
    /\ Where # "QuickFind" => ~quickFind.running

Complete == Uids(tod) = present \/ (Full /\ Uids(tod) \subseteq present)

Phase ==
    /\ Where = "Unmute" => UnmutePhase
    /\ Where = "Mute" => MutePhase
    /\ Searching => Listed /\ Covered
    /\ Where = "Discovery" => DiscoveryPhase
    /\ Where = "Dub" => DubPhase
    /\ Where = "QuickFind" => QuickFindPhase
    /\ Where = "QuickFindDiscovery" => QuickBranchPhase
    /\ Where = "SingleDevice" => SinglePhase
    /\ Where = "Finished" => FinishedPhase

CompleteInv ==
    /\ lost <= MaxLost
    /\ state = "LateResponse" /\ Where # "Idle" => Quiet
    /\ isFinished => state = "Idle" /\ Complete
    /\ Where # "Idle" => Spare /\ Phase

\* The numbers and the records CompleteInv speaks of.
LEMMA CompleteTypes ==
    ASSUME IInv
    PROVE  /\ lost \in Nat /\ MaxLost \in Nat
           /\ UnmuteTries \in Nat /\ MuteTries \in Nat /\ BranchTries \in Nat
           /\ QuickBranchTries \in Nat
           /\ unmute \in [counter : Nat, running : BOOLEAN]
           /\ mute \in [entries : Nat, counter : Nat, running : BOOLEAN, uid : Uid]
           /\ single \in [counter : Nat, running : BOOLEAN]
           /\ quickBranch \in [counter : Nat, running : BOOLEAN]
           /\ quickFind \in [counter : Nat, running : BOOLEAN, uid : Uid]
           /\ discovery \in [counter : Nat, running : BOOLEAN, stack : Seq(UidRange),
                             lower : Uid, upper : Uid, pdl : UidRange]
           /\ tod \in Seq(Uid) /\ Len(tod) \in Nat
           /\ muted \subseteq present /\ present \subseteq Devices
           /\ isFinished \in BOOLEAN /\ doIncremental \in BOOLEAN /\ response \in BOOLEAN
           /\ rx \in [ready : BOOLEAN, frame : Frame]
<1>1. lost \in Nat /\ MaxLost \in Nat
  BY DiscoveryAssumption DEF IInv, LineOK
<1>2. /\ UnmuteTries \in Nat /\ MuteTries \in Nat /\ BranchTries \in Nat
      /\ QuickBranchTries \in Nat
  BY DiscoveryAssumption
<1>3. /\ unmute \in [counter : Nat, running : BOOLEAN]
      /\ single \in [counter : Nat, running : BOOLEAN]
      /\ quickBranch \in [counter : Nat, running : BOOLEAN]
  BY <1>2 DEF IInv, CountersOK, Counted
<1>4. quickFind \in [counter : Nat, running : BOOLEAN, uid : Uid]
  BY DiscoveryAssumption DEF IInv, CountersOK
<1>5. mute \in [entries : Nat, counter : Nat, running : BOOLEAN, uid : Uid]
  BY <1>2 DEF IInv, TableOK
<1>6. discovery \in [counter : Nat, running : BOOLEAN, stack : Seq(UidRange),
                     lower : Uid, upper : Uid, pdl : UidRange]
  BY <1>2 DEF IInv, BranchOK, DiscoveryType
<1>7. tod \in Seq(Uid) /\ Len(tod) \in Nat
  BY DEF IInv, TableOK
<1>8. /\ muted \subseteq present /\ present \subseteq Devices
      /\ rx \in [ready : BOOLEAN, frame : Frame]
  BY DEF IInv, LineOK
<1>9. isFinished \in BOOLEAN /\ doIncremental \in BOOLEAN /\ response \in BOOLEAN
  BY DEF IInv, ControlOK
<1> QED
  BY <1>1, <1>2, <1>3, <1>4, <1>5, <1>6, <1>7, <1>8, <1>9

\* An answer answers, and only silence comes back when nobody has to.
LEMMA AnswersDue ==
    ASSUME NEW req \in Request, req.pid \in {"mute", "dub"}, NEW f \in Answers(req)
    PROVE  /\ f = NoFrame => ~Due(req)
           /\ f # NoFrame => Due(req) /\ Proper(req, f)
<1>1. CASE req.pid = "mute"
  BY <1>1 DEF Answers, Due, Proper, NoFrame
<1>2. CASE req.pid = "dub"
  <2>1. f \in BranchAnswers(req.lower, req.upper)
    BY <1>2 DEF Answers
  <2>2. CASE Answering(req.lower, req.upper) = {}
    <3>1. f = NoFrame
      BY <2>1, <2>2 DEF BranchAnswers
    <3>2. ~Due(req)
      BY <1>2, <2>2 DEF Due, Answering
    <3> QED
      BY <3>1, <3>2
  <2>3. CASE Answering(req.lower, req.upper) # {}
    <3>1. Due(req)
      BY <1>2, <2>3 DEF Due, Answering
    <3>2. \/ f = [kind |-> "garbage", uid |-> 0]
          \/ \E d \in Answering(req.lower, req.upper) : f = [kind |-> "dub", uid |-> d]
      BY <2>1, <2>3 DEF BranchAnswers
    <3>3. Proper(req, f) /\ f # NoFrame
      BY <1>2, <3>2 DEF Proper, NoFrame, Answering
    <3> QED
      BY <3>1, <3>3
  <2> QED
    BY <2>2, <2>3
<1> QED
  BY <1>1, <1>2

\* A request that is sent is awaited.
LEMMA SendFacts ==
    ASSUME LineOK, lost <= MaxLost, Quiet, NEW req \in Request, req.pid \in {"mute", "dub"},
           NEW c \in Nat, Due(req) => Enough(c), Transmit(req), UNCHANGED <<rx, present>>
    PROVE  /\ Awaiting(req, c)'
           /\ lost' \in Nat /\ lost <= lost' /\ lost' <= MaxLost
           /\ muted \subseteq muted' /\ muted' \subseteq present
           /\ req.pid = "dub" => muted' = muted
           /\ req.pid = "mute" => muted' \subseteq muted \cup {req.lower}
<1>1. lost \in Nat /\ MaxLost \in Nat /\ muted \subseteq present
  BY DiscoveryAssumption DEF LineOK
<1>2. message' = req /\ rx' = rx /\ present' = present /\ ~rx.ready
  BY DEF Transmit, Quiet
<1>3. /\ muted \subseteq MutedAfter(req) /\ MutedAfter(req) \subseteq present
      /\ req.pid = "dub" => MutedAfter(req) = muted
      /\ req.pid = "mute" => MutedAfter(req) \subseteq muted \cup {req.lower}
      /\ req.pid = "mute" /\ req.lower \in present => req.lower \in MutedAfter(req)
  BY <1>1 DEF MutedAfter
<1>4. CASE muted' = MutedAfter(req) /\ wire' \in Answers(req) /\ lost' = lost
  <2>1. /\ wire' = NoFrame => ~Due(req)
        /\ wire' # NoFrame => Due(req) /\ Proper(req, wire')
    BY <1>4, AnswersDue
  <2>2. Proper(req, wire') => (Proper(req, wire))'
    BY <1>2 DEF Proper
  <2>3. (Due(req))' <=> Due(req)
    BY <1>2, <1>3, <1>4 DEF Due
  <2>4. wire' # NoFrame => (req.pid = "mute" => req.lower \in muted')
    BY <1>3, <1>4, <2>1 DEF Due
  <2>5. (Hearing(req))'
    BY <1>2, <2>1, <2>2, <2>3, <2>4 DEF Hearing, Quiet
  <2>6. (Due(req))' => lost' + c > MaxLost /\ wire' # NoFrame
    BY <1>4, <2>1, <2>3 DEF Enough
  <2>7. (Awaiting(req, c))'
    BY <1>2, <2>5, <2>6 DEF Awaiting, Enough, Quiet
  <2> QED
    BY <1>1, <1>3, <1>4, <2>7
<1>5. CASE /\ lost < MaxLost /\ lost' = lost + 1
           /\ muted' \in {muted, MutedAfter(req)} /\ wire' = NoFrame
  <2>1. (Due(req))' <=> Due(req)
    BY <1>2, <1>3, <1>5 DEF Due
  <2>2. (Hearing(req))'
    BY <1>2, <1>5 DEF Hearing, Quiet
  <2>3. Due(req) => lost' + c > MaxLost + 1 /\ lost' + c > MaxLost
    BY <1>1, <1>5 DEF Enough
  <2>4. (Awaiting(req, c))'
    BY <1>2, <2>1, <2>2, <2>3 DEF Awaiting, Enough
  <2>5. lost' \in Nat /\ lost <= lost' /\ lost' <= MaxLost
    BY <1>1, <1>5
  <2> QED
    BY <1>1, <1>3, <1>5, <2>4, <2>5
<1> QED
  BY <1>4, <1>5 DEF Transmit

\* A frame that is completed in the buffer is still heard.
LEMMA DeliverFacts ==
    ASSUME Deliver, NEW req, NEW c
    PROVE  /\ Hearing(req) => (Hearing(req))'
           /\ Awaiting(req, c) => (Awaiting(req, c))'
<1>1. /\ wire # NoFrame /\ wire' = NoFrame /\ rx' = [ready |-> TRUE, frame |-> wire]
      /\ message' = message /\ muted' = muted /\ lost' = lost /\ present' = present
  BY DEF Deliver
<1>2. (Due(req))' <=> Due(req)
  BY <1>1 DEF Due
<1>3. \A f : Proper(req, f) => (Proper(req, f))'
  BY <1>1 DEF Proper
<1>4. ASSUME Hearing(req) PROVE (Hearing(req))'
  <2>1. Proper(req, wire) /\ Due(req) /\ (req.pid = "mute" => req.lower \in muted)
    BY <1>1, <1>4 DEF Hearing, Quiet
  <2>2. rx'.ready /\ rx'.frame = wire /\ (Proper(req, rx.frame))'
    BY <1>1, <2>1 DEF Proper
  <2> QED
    BY <1>1, <1>2, <2>1, <2>2 DEF Hearing
<1>5. ASSUME Awaiting(req, c) PROVE (Awaiting(req, c))'
  <2>1. ~Quiet'
    BY <1>1 DEF Quiet
  <2> QED
    BY <1>1, <1>2, <1>4, <1>5, <2>1 DEF Awaiting, Enough
<1> QED
  BY <1>4, <1>5

\* What an answer, its absence and the end of the tries say of the request.
LEMMA AwaitFacts ==
    ASSUME lost \in Nat, MaxLost \in Nat, lost <= MaxLost, NEW req, NEW c \in Nat, Awaiting(req, c)
    PROVE  /\ message = req
           /\ Received => /\ wire = NoFrame /\ Proper(req, rx.frame) /\ Due(req) /\ Enough(c)
                          /\ req.pid = "mute" => req.lower \in muted
           /\ c = 0 => Quiet /\ ~Due(req)
           /\ Quiet /\ Due(req) /\ c # 0 => c - 1 \in Nat /\ Enough(c - 1)
<1>1. message = req
  BY DEF Awaiting
<1>2. Received => /\ wire = NoFrame /\ Proper(req, rx.frame) /\ Due(req) /\ Enough(c)
                  /\ req.pid = "mute" => req.lower \in muted
  BY DEF Awaiting, Hearing, Received, Quiet
<1>3. c = 0 => Quiet /\ ~Due(req)
  <2>1. c = 0 => ~Due(req)
    BY DEF Awaiting, Enough
  <2>2. ~Quiet => Due(req)
    BY DEF Awaiting, Hearing
  <2> QED
    BY <2>1, <2>2
<1>4. Quiet /\ Due(req) /\ c # 0 => c - 1 \in Nat /\ Enough(c - 1)
  <2>1. Quiet /\ Due(req) => lost + c > MaxLost + 1
    BY DEF Awaiting
  <2>2. lost + c > MaxLost + 1 /\ c # 0 => c - 1 \in Nat /\ lost + (c - 1) > MaxLost
    OBVIOUS
  <2> QED
    BY <2>1, <2>2 DEF Enough
<1> QED
  BY <1>1, <1>2, <1>3, <1>4

\* What is enough after a loss was enough before it.
LEMMA EnoughStays ==
    ASSUME lost \in Nat, lost' \in Nat, MaxLost \in Nat, lost <= lost',
           NEW try, try.counter \in Nat, Enough(try.counter)
    PROVE  lost' + try.counter > MaxLost
BY DEF Enough

\* The requests not in use stay ready while the line loses more messages.
LEMMA SpareStays ==
    ASSUME lost \in Nat, MaxLost \in Nat, single.counter \in Nat, quickBranch.counter \in Nat,
           Spare, lost' \in Nat, lost <= lost',
           Where' = Where \/ Where \notin {"SingleDevice", "QuickFind", "QuickFindDiscovery"},
           UNCHANGED <<single, quickBranch, quickFind>>
    PROVE  Spare'
BY DEF Spare, Enough

\* Steps of Process() before the end find a run that is not finished.
LEMMA RunningFacts ==
    ASSUME CompleteInv, state # "Idle"
    PROVE  ~isFinished
BY DEF CompleteInv

LEMMA CompleteUnmuting ==
    ASSUME Punctual, IInv, CompleteInv, Unmuting
    PROVE  CompleteInv'
<1>0. /\ lost \in Nat /\ MaxLost \in Nat /\ UnmuteTries \in Nat /\ MuteTries \in Nat
      /\ unmute \in [counter : Nat, running : BOOLEAN] /\ unmute.counter \in Nat
      /\ single.counter \in Nat /\ quickBranch.counter \in Nat
      /\ Len(tod) \in Nat /\ muted \subseteq present
  BY CompleteTypes
<1> USE <1>0 DEF Punctual
<1>1. /\ state = "Unmute" /\ Where = "Unmute"
      /\ Where \notin {"Idle", "SingleDevice", "QuickFind", "QuickFindDiscovery"}
  BY WhereUnmuting DEF Unmuting
<1>2. lost <= MaxLost /\ Spare /\ UnmutePhase /\ ~isFinished
  BY <1>1 DEF CompleteInv, Phase
<1>3. isFinished' = isFinished /\ UNCHANGED <<single, quickBranch, quickFind>>
  BY DEF Unmuting, UnmuteDone, UnmuteSend, UnmuteWait
<1>4. CASE UnmuteDone
  <2>1. /\ UNCHANGED line /\ UNCHANGED <<doIncremental, tod, mute, discovery, present>>
        /\ unmute.counter = 0
    BY <1>4 DEF UnmuteDone
  <2>2. wire' = wire /\ rx' = rx /\ muted' = muted /\ lost' = lost
    BY <2>1 DEF line
  <2>3. Where' = IF doIncremental THEN "Mute" ELSE "Discovery"
    BY <1>4, WhereUnmuting
  <2>4. Quiet /\ Quiet' /\ muted = {} /\ ~unmute.running
    BY <1>2, <2>1, <2>2 DEF UnmutePhase, Quiet, Enough
  <2>5. Spare'
    BY <1>1, <1>2, <1>3, <2>2, SpareStays
  <2>6. CASE doIncremental
    <3>1. mute.entries = Len(tod) /\ ~mute.running /\ mute.counter = MuteTries /\ WholeRange
      BY <1>1, <1>2, <2>6 DEF UnmutePhase, IInv, TableOK
    <3>2. Enough(mute.counter)
      BY <3>1 DEF Enough
    <3>3. \A i \in 1..Len(tod) : ~(mute.entries < i)
      BY <3>1
    <3>4. MutePhase'
      BY <2>1, <2>2, <2>4, <2>6, <3>1, <3>2, <3>3 DEF MutePhase, WholeRange, Enough
    <3> QED
      BY <1>2, <1>3, <2>2, <2>3, <2>4, <2>5, <2>6, <3>4
      DEF CompleteInv, Phase, Searching, SearchStates
  <2>7. CASE ~doIncremental
    <3>1. tod = << >> /\ discovery.stack = << <<0, LastUid>> >>
      BY <1>2, <2>7 DEF UnmutePhase, WholeRange, EmptyTod
    <3>2. Listed'
      BY <2>1, <2>2, <2>4, <3>1 DEF Listed, Uids
    <3>3. Covered'
      <4>1. \A d \in present : d \in Nat /\ 0 <= d /\ d <= LastUid
        <5>1. Devices \subseteq 0..LastUid /\ LastUid \in Nat /\ present \subseteq Devices
          BY DiscoveryAssumption, UidFacts, CompleteTypes
        <5> QED
          BY <5>1
      <4> QED
        BY <2>1, <3>1, <4>1 DEF Covered, Open
    <3>4. ~discovery.running
      BY <1>1 DEF IInv, BranchOK
    <3>5. DiscoveryPhase'
      BY <2>1, <2>4, <3>4 DEF DiscoveryPhase
    <3> QED
      BY <1>2, <1>3, <2>2, <2>3, <2>4, <2>5, <2>7, <3>2, <3>3, <3>5
      DEF CompleteInv, Phase, Searching, SearchStates
  <2> QED
    BY <2>6, <2>7
<1>5. CASE UnmuteSend
  <2>1. /\ UNCHANGED <<state, doIncremental, tod, mute, discovery>>
        /\ unmute.counter # 0 /\ unmute' = [unmute EXCEPT !.running = TRUE]
        /\ Where' = Where
    BY <1>5, <1>1, WhereUnmuting DEF UnmuteSend
  <2>2. /\ wire' = NoFrame /\ lost' \in Nat /\ lost <= lost' /\ lost' <= MaxLost
        /\ muted' # {} => muted # {} /\ lost' = lost + 1
    <3>1. MutedAfter(Broadcast) = {} /\ Answers(Broadcast) = {NoFrame}
      BY DEF MutedAfter, Answers, Broadcast
    <3>2. \/ muted' = {} /\ wire' = NoFrame /\ lost' = lost
          \/ /\ lost < MaxLost /\ lost' = lost + 1 /\ wire' = NoFrame
             /\ muted' = muted \/ muted' = {}
      BY <1>5, <3>1 DEF UnmuteSend, Transmit
    <3> QED
      BY <1>2, <3>2
  <2>3. unmute'.counter = unmute.counter /\ unmute'.running
    BY <2>1
  <2>4. muted' # {} => lost' + unmute.counter > MaxLost + 1
    <3> DEFINE c == unmute.counter
    <3>1. c \in Nat /\ lost \in Nat /\ MaxLost \in Nat
      OBVIOUS
    <3>2. muted # {} => lost + c > MaxLost
      BY <1>2 DEF UnmutePhase, Enough
    <3> HIDE DEF c
    <3>3. lost' = lost + 1 /\ lost + c > MaxLost => lost' + c > MaxLost + 1
      BY ONLY <3>1
    <3> QED
      BY <2>2, <3>2, <3>3 DEF c
  <2>5. UnmutePhase'
    <3>1. /\ WholeRange' /\ (doIncremental' => mute'.entries = Len(tod'))
          /\ ~doIncremental' => tod' = EmptyTod
      BY <1>2, <2>1 DEF UnmutePhase, WholeRange
    <3>2. muted' # {} => lost' + unmute'.counter > MaxLost
      <4> DEFINE c == unmute.counter
                 n == lost'
      <4>1. c \in Nat /\ n \in Nat /\ unmute'.counter = c
        BY <2>2, <2>3
      <4>2. muted' # {} => n + c > MaxLost + 1
        BY <2>4
      <4> HIDE DEF c, n
      <4>3. n + c > MaxLost + 1 => n + c > MaxLost
        BY ONLY <1>0, <4>1
      <4> QED
        BY <4>1, <4>2, <4>3 DEF n
    <3> QED
      BY <2>1, <2>2, <2>3, <2>4, <3>1, <3>2 DEF UnmutePhase, Enough
  <2>6. Spare'
    BY <1>1, <1>2, <1>3, <2>1, <2>2, SpareStays
  <2> QED
    BY <1>1, <1>2, <1>3, <2>1, <2>2, <2>5, <2>6
    DEF CompleteInv, Phase, Searching, SearchStates
<1>6. CASE UnmuteWait
  <2>1. /\ UNCHANGED <<state, doIncremental, tod, mute, discovery>>
        /\ unmute.counter # 0 /\ unmute.running
        /\ Where' = Where /\ ReceiveOnly
    BY <1>6, <1>1, WhereUnmuting DEF UnmuteWait
  <2>2. wire = NoFrame /\ wire' = NoFrame /\ ~rx'.ready /\ muted' = muted /\ lost' = lost
    BY <1>2, <2>1 DEF ReceiveOnly, Drained, UnmutePhase
  <2>3. \/ unmute' = unmute
        \/ unmute' = [counter |-> unmute.counter - 1, running |-> FALSE]
    BY <1>6 DEF UnmuteWait, CountTry
  <2>4. UnmutePhase'
    <3>1. CASE unmute' = unmute
      BY <1>2, <2>1, <2>2, <3>1 DEF UnmutePhase, WholeRange, Enough
    <3>2. CASE unmute' = [counter |-> unmute.counter - 1, running |-> FALSE]
      <4>1. muted # {} => lost + (unmute.counter - 1) > MaxLost
        <5> DEFINE c == unmute.counter
        <5>1. muted # {} => lost + c > MaxLost + 1
          BY <1>2, <2>1 DEF UnmutePhase
        <5>2. c \in Nat
          OBVIOUS
        <5> HIDE DEF c
        <5>3. lost + c > MaxLost + 1 => lost + (c - 1) > MaxLost
          BY ONLY <1>0, <5>2
        <5> QED
          BY <5>1, <5>3 DEF c
      <4>2. unmute'.counter = unmute.counter - 1 /\ ~unmute'.running
        BY <3>2
      <4> QED
        BY <1>2, <2>1, <2>2, <4>1, <4>2 DEF UnmutePhase, WholeRange, Enough, Quiet
    <3> QED
      BY <2>3, <3>1, <3>2
  <2>5. Spare'
    BY <1>1, <1>2, <1>3, <2>1, <2>2, SpareStays
  <2> QED
    BY <1>1, <1>2, <1>3, <2>1, <2>2, <2>4, <2>5
    DEF CompleteInv, Phase, Searching, SearchStates
<1> QED
  BY <1>4, <1>5, <1>6 DEF Unmuting

\* Delete() of the entry at k moves the entries above it down.
LEMMA DeleteAt ==
    ASSUME NEW U, NEW list \in Seq(U), NoDuplicates(list), NEW k \in 1..Len(list)
    PROVE  /\ Len(Delete(list, list[k])) = Len(list) - 1
           /\ \A j \in 1..(Len(list) - 1) :
                 Delete(list, list[k])[j] = IF j < k THEN list[j] ELSE list[j + 1]
<1> DEFINE uid == list[k]
           f == FirstIndex(list, uid)
           n == Len(list)
           new == [ j \in 1..(n - 1) |-> IF j < f THEN list[j] ELSE list[j + 1] ]
<1>1. Exist(list, uid)
  BY DEF Exist
<1>2. f \in 1..n /\ list[f] = uid
  BY <1>1, FirstIndexFacts
<1>3. f = k
  BY <1>2 DEF NoDuplicates
<1>4. Delete(list, uid) = new
  BY <1>1 DEF Delete
<1>5. n \in Nat /\ n - 1 \in Nat
  BY <1>2
<1>6. Len(new) = n - 1
  <2>1. new \in [1..(n - 1) -> U]
    <3>1. \A i \in 1..n : list[i] \in U
      OBVIOUS
    <3>2. \A j \in 1..(n - 1) : j \in 1..n /\ j + 1 \in 1..n
      BY <1>5
    <3> HIDE DEF n, f
    <3> QED
      BY <3>1, <3>2
  <2> HIDE DEF new, n
  <2> QED
    BY <2>1, <1>5
<1>7. \A j \in 1..(n - 1) : new[j] = IF j < f THEN list[j] ELSE list[j + 1]
  OBVIOUS
<1> HIDE DEF new, f
<1> QED
  BY <1>3, <1>4, <1>6, <1>7

LEMMA CompleteMuting ==
    ASSUME Punctual, IInv, CompleteInv, Muting
    PROVE  CompleteInv'
<1>0. /\ lost \in Nat /\ MaxLost \in Nat /\ tod \in Seq(Uid) /\ Len(tod) \in Nat
      /\ single.counter \in Nat /\ quickBranch.counter \in Nat
      /\ mute.entries \in Nat /\ mute.counter \in Nat
      /\ mute \in [entries : Nat, counter : Nat, running : BOOLEAN, uid : Uid]
      /\ muted \subseteq present
  BY CompleteTypes
<1>1. /\ state = "Mute" /\ Where = "Mute"
      /\ Where \notin {"Idle", "SingleDevice", "QuickFind", "QuickFindDiscovery"}
  BY WhereUnmuting DEF Muting
<1>2. lost <= MaxLost /\ Spare /\ MutePhase /\ ~isFinished
  BY <1>1 DEF CompleteInv, Phase
<1>3. /\ isFinished' = isFinished /\ doIncremental' = doIncremental /\ present' = present
      /\ discovery' = discovery
      /\ UNCHANGED <<single, quickBranch, quickFind>>
  BY DEF Muting, MuteDone, MuteGone, MuteSend, MuteReceive, MuteTimeout
<1>4. /\ NoDuplicates(tod) /\ mute.entries <= Len(tod)
      /\ (mute.running \/ mute.counter = 0) /\ mute.entries # 0 => tod[mute.entries] = mute.uid
  BY <1>1 DEF IInv, TableOK
<1>5. mute.entries # 0 => mute.entries \in 1..Len(tod) /\ tod[mute.entries] \in Uid
  BY <1>0, <1>4
<1>6. ASSUME MutePhase', Where' = "Mute", lost' \in Nat, lost <= lost', lost' <= MaxLost,
             state' = state
      PROVE  CompleteInv'
  <2>1. Spare'
    BY <1>0, <1>1, <1>2, <1>3, <1>6, SpareStays
  <2> QED
    BY <1>1, <1>2, <1>3, <1>6, <2>1 DEF CompleteInv, Phase, Searching, SearchStates
<1>7. CASE MuteDone
  <2>1. /\ UNCHANGED line /\ UNCHANGED tod /\ mute.entries = 0 /\ Where' = "Discovery"
    BY <1>7, WhereUnmuting DEF MuteDone
  <2>2. wire' = wire /\ rx' = rx /\ muted' = muted /\ lost' = lost
    BY <2>1 DEF line
  <2>3. Quiet /\ Quiet'
    BY <1>2, <2>1, <2>2 DEF MutePhase, Quiet
  <2>4. Spare'
    BY <1>0, <1>1, <1>2, <1>3, <2>1, <2>2, SpareStays
  <2>5. Listed'
    <3>1. \A i \in 1..Len(tod) : mute.entries < i
      BY <1>0, <2>1
    <3> QED
      BY <1>2, <2>1, <2>2, <3>1 DEF Listed, Uids, MutePhase
  <2>6. Covered'
    <3>1. \A d \in present : d \in Nat /\ 0 <= d /\ d <= LastUid
      <4>1. Devices \subseteq 0..LastUid /\ LastUid \in Nat /\ present \subseteq Devices
        BY DiscoveryAssumption, UidFacts, CompleteTypes
      <4> QED
        BY <4>1
    <3>2. discovery'.stack = << <<0, LastUid>> >>
      BY <1>2, <1>3 DEF MutePhase, WholeRange
    <3> QED
      BY <1>3, <3>1, <3>2 DEF Covered, Open
  <2>7. DiscoveryPhase'
    <3>1. ~discovery.running
      BY <1>1 DEF IInv, BranchOK
    <3> QED
      BY <1>3, <2>3, <3>1 DEF DiscoveryPhase
  <2> QED
    BY <1>2, <1>3, <2>1, <2>2, <2>3, <2>4, <2>5, <2>6, <2>7
    DEF CompleteInv, Phase, Searching, SearchStates
<1>8. CASE MuteGone
  <2> DEFINE k == mute.entries
             n == Len(tod)
  <2>1. /\ UNCHANGED line /\ k # 0 /\ mute.counter = 0 /\ state' = state /\ Where' = "Mute"
        /\ tod' = Delete(tod, mute.uid)
        /\ mute' = [mute EXCEPT !.entries = k - 1, !.counter = MuteTries, !.running = FALSE]
    BY <1>8, WhereUnmuting DEF MuteGone, NextEntry
  <2>2. wire' = wire /\ rx' = rx /\ muted' = muted /\ lost' = lost
    BY <2>1 DEF line
  <2>3. ~Enough(mute.counter)
    BY <1>0, <1>2, <2>1 DEF Enough
  <2>4. Awaiting(MuteOf(mute.uid), mute.counter)
    BY <1>2, <2>3 DEF MutePhase
  <2>5. Quiet /\ ~Due(MuteOf(mute.uid))
    BY <1>0, <1>2, <2>1, <2>4, AwaitFacts
  <2>6. mute.uid \notin muted
    BY <1>0, <2>5 DEF Due, MuteOf
  <2>7. k \in 1..n /\ tod[k] = mute.uid
    BY <1>4, <1>5, <2>1
  <2>8. Len(tod') = n - 1 /\ \A j \in 1..(n - 1) : tod'[j] = IF j < k THEN tod[j] ELSE tod[j + 1]
    BY <1>0, <1>4, <2>1, <2>7, DeleteAt
  <2>9. mute'.entries = k - 1 /\ mute'.counter = MuteTries /\ ~mute'.running
    BY <1>0, <2>1
  <2>10. ASSUME NEW i \in 1..Len(tod'), mute'.entries < i PROVE tod'[i] \in muted'
    <3>1. i \in 1..(n - 1) /\ ~(i < k) /\ i + 1 \in 1..n /\ k < i + 1
      BY <1>0, <2>7, <2>8, <2>9, <2>10
    <3>2. tod'[i] = tod[i + 1]
      BY <2>8, <3>1
    <3> QED
      BY <1>2, <2>2, <3>1, <3>2 DEF MutePhase
  <2>11. muted' \subseteq (Uids(tod))'
    <3>1. Uids(tod) \ {mute.uid} \subseteq Uids(Delete(tod, mute.uid))
      BY <1>0, DeleteFacts
    <3>2. Uids(Delete(tod, mute.uid)) = (Uids(tod))'
      BY <2>1 DEF Uids
    <3> QED
      BY <1>2, <2>2, <2>6, <3>1, <3>2 DEF MutePhase
  <2>12. Quiet' /\ (Enough(mute.counter))'
    <3>1. Quiet'
      BY <2>2, <2>5 DEF Quiet
    <3>2. MuteTries \in Nat /\ MaxLost < MuteTries
      BY DiscoveryAssumption DEF Punctual
    <3> QED
      BY <1>0, <2>2, <2>9, <3>1, <3>2 DEF Enough
  <2>13. MutePhase'
    BY <1>2, <1>3, <2>9, <2>10, <2>11, <2>12 DEF MutePhase, WholeRange
  <2> QED
    BY <1>0, <1>2, <1>6, <2>1, <2>2, <2>13
<1>9. CASE MuteSend
  <2>1. PICK uid \in Uid : uid = tod[mute.entries]
    BY <1>5, <1>9 DEF MuteSend
  <2>2. /\ mute.entries # 0 /\ mute.counter # 0 /\ ~mute.running /\ UNCHANGED <<tod, rx, state>>
        /\ mute' = [mute EXCEPT !.uid = uid, !.running = TRUE]
        /\ Transmit(MuteOf(uid)) /\ Where' = "Mute"
    BY <1>9, <2>1, WhereUnmuting DEF MuteSend
  <2>3. /\ mute'.entries = mute.entries /\ mute'.counter = mute.counter /\ mute'.running
        /\ mute'.uid = uid
    BY <1>0, <2>2
  <2>4. PICK c \in Nat : c = mute.counter
    BY <1>0
  <2>5. Quiet /\ Enough(c)
    BY <1>2, <2>2, <2>4 DEF MutePhase
  <2>6. MuteOf(uid) \in Request /\ MuteOf(uid).pid = "mute" /\ MuteOf(uid).lower = uid
    BY RequestFacts DEF MuteOf
  <2>7. /\ (Awaiting(MuteOf(uid), c))'
        /\ lost' \in Nat /\ lost <= lost' /\ lost' <= MaxLost
        /\ muted \subseteq muted' /\ muted' \subseteq muted \cup {uid}
    BY <1>2, <1>3, <2>2, <2>5, <2>6, SendFacts DEF IInv
  <2>8. (Awaiting(MuteOf(mute.uid), mute.counter))'
    BY <2>3, <2>4, <2>7
  <2>9. uid \in Uids(tod)
    BY <1>5, <2>1, <2>2 DEF Uids
  <2>10. MutePhase'
    BY <1>2, <1>3, <2>2, <2>3, <2>7, <2>8, <2>9 DEF MutePhase, WholeRange
  <2> QED
    BY <1>6, <2>2, <2>7, <2>10
<1>10. CASE MuteReceive
  <2>1. /\ mute.entries # 0 /\ mute.running /\ Received /\ ReceiveOnly
        /\ mute' = [mute EXCEPT !.entries = mute.entries - 1, !.running = FALSE]
        /\ UNCHANGED <<tod, state>> /\ Where' = "Mute"
    BY <1>10, WhereUnmuting DEF MuteReceive, NextEntry
  <2>2. wire' = wire /\ ~rx'.ready /\ muted' = muted /\ lost' = lost
    BY <2>1 DEF ReceiveOnly, Drained
  <2>3. mute'.entries = mute.entries - 1 /\ mute'.counter = mute.counter /\ ~mute'.running
    BY <1>0, <2>1
  <2>4. Awaiting(MuteOf(mute.uid), mute.counter)
    BY <1>2, <2>1 DEF MutePhase
  <2>5. wire = NoFrame /\ Enough(mute.counter) /\ mute.uid \in muted
    <3>1. MuteOf(mute.uid).pid = "mute" /\ MuteOf(mute.uid).lower = mute.uid
      BY DEF MuteOf
    <3> QED
      BY <1>0, <1>2, <2>1, <2>4, <3>1, AwaitFacts
  <2>6. Quiet' /\ (Enough(mute.counter))'
    BY <2>2, <2>3, <2>5 DEF Quiet, Enough
  <2>7. ASSUME NEW i \in 1..Len(tod), mute.entries - 1 < i PROVE tod[i] \in muted
    <3>1. i = mute.entries \/ mute.entries < i
      BY <1>0, <2>7
    <3> QED
      BY <1>2, <1>4, <2>1, <2>5, <3>1 DEF MutePhase
  <2>8. MutePhase'
    BY <1>2, <1>3, <2>1, <2>2, <2>3, <2>6, <2>7 DEF MutePhase, WholeRange
  <2> QED
    BY <1>0, <1>2, <1>6, <2>1, <2>2, <2>8
<1>11. CASE MuteTimeout
  <2>1. /\ mute.entries # 0 /\ mute.counter # 0 /\ mute.running /\ ~Received /\ WindowElapsed
        /\ mute' = [mute EXCEPT !.counter = mute.counter - 1]
        /\ Transmit(message)
        /\ UNCHANGED <<tod, rx, state>> /\ Where' = "Mute"
    BY <1>11, WhereUnmuting DEF MuteTimeout, CountTry
  <2>2. PICK uid \in Uid : uid = mute.uid
    BY <1>0
  <2>3. Awaiting(MuteOf(uid), mute.counter)
    BY <1>2, <2>1, <2>2 DEF MutePhase
  <2>4. Quiet
    BY <2>1 DEF Quiet, Received, WindowElapsed, Punctual
  <2>5. mute.counter - 1 \in Nat
    BY <1>0, <2>1
  <2>6. PICK c \in Nat : c = mute.counter - 1
    BY <2>5
  <2>7. message = MuteOf(uid) /\ (Due(MuteOf(uid)) => Enough(c))
    BY <1>0, <1>2, <2>1, <2>3, <2>4, <2>6, AwaitFacts
  <2>8. MuteOf(uid) \in Request /\ MuteOf(uid).pid = "mute" /\ MuteOf(uid).lower = uid
    BY RequestFacts DEF MuteOf
  <2>9. /\ (Awaiting(MuteOf(uid), c))'
        /\ lost' \in Nat /\ lost <= lost' /\ lost' <= MaxLost
        /\ muted \subseteq muted' /\ muted' \subseteq muted \cup {uid}
    BY <1>2, <1>3, <2>1, <2>4, <2>7, <2>8, SendFacts DEF IInv
  <2>10. mute'.entries = mute.entries /\ mute'.counter = c /\ mute'.running /\ mute'.uid = uid
    BY <1>0, <2>1, <2>2, <2>6
  <2>11. (Awaiting(MuteOf(mute.uid), mute.counter))'
    BY <2>9, <2>10
  <2>12. uid \in Uids(tod)
    BY <1>4, <1>5, <2>1, <2>2 DEF Uids
  <2>13. MutePhase'
    BY <1>2, <1>3, <2>1, <2>9, <2>10, <2>11, <2>12 DEF MutePhase, WholeRange
  <2> QED
    BY <1>6, <2>1, <2>9, <2>13
<1> QED
  BY <1>7, <1>8, <1>9, <1>10, <1>11 DEF Muting

\* A step of the search that mutes nobody and lists nobody.
LEMMA SearchStays ==
    ASSUME Listed, Covered, UNCHANGED <<tod, present, muted>>, InHand \subseteq InHand',
           \A d \in present \ muted : Open(d) => (Open(d))'
    PROVE  Listed' /\ Covered'
<1>1. (Uids(tod))' = Uids(tod) /\ Full' = Full
  BY DEF Uids, Full
<1>2. Listed'
  BY <1>1 DEF Listed
<1>3. Covered'
  BY DEF Covered
<1> QED
  BY <1>2, <1>3

\* A branch in which nobody answers may be closed.
LEMMA SilentBranch ==
    ASSUME IInv, Where \in {"Dub", "QuickFindDiscovery"}, ~Due(Branch)
    PROVE  \A d \in present \ muted : ~(discovery.lower <= d /\ d <= discovery.upper)
<1>1. discovery.pdl = <<discovery.lower, discovery.upper>>
  BY DEF IInv, BranchOK, BranchOpen, Asked
<1>2. /\ Branch.pid = "dub" /\ Branch.lower = discovery.lower /\ Branch.upper = discovery.upper
  BY <1>1 DEF Branch, BranchOf
<1> QED
  BY <1>2 DEF Due

LEMMA BranchRequest ==
    ASSUME IInv
    PROVE  Branch \in Request /\ Branch.pid = "dub"
BY RequestFacts, CompleteTypes DEF Branch, BranchOf

LEMMA CompleteBranching ==
    ASSUME Punctual, IInv, CompleteInv, Branching
    PROVE  CompleteInv'
<1>0. /\ lost \in Nat /\ MaxLost \in Nat
      /\ single \in [counter : Nat, running : BOOLEAN]
      /\ quickBranch \in [counter : Nat, running : BOOLEAN]
      /\ quickFind \in [counter : Nat, running : BOOLEAN, uid : Uid]
      /\ discovery \in [counter : Nat, running : BOOLEAN, stack : Seq(UidRange),
                        lower : Uid, upper : Uid, pdl : UidRange]
      /\ muted \subseteq present /\ response \in BOOLEAN
      /\ rx \in [ready : BOOLEAN, frame : Frame]
  BY CompleteTypes
<1>1. /\ state \in {"Discovery", "Dub"} /\ Where = state
      /\ Where \notin {"Idle", "SingleDevice", "QuickFind", "QuickFindDiscovery"}
      /\ Searching
  BY WhereBranching DEF Branching, Searching, SearchStates
<1>2. /\ lost <= MaxLost /\ Spare /\ ~isFinished /\ Listed /\ Covered /\ InHand = {}
      /\ Where = "Discovery" => DiscoveryPhase
      /\ Where = "Dub" => DubPhase
  BY <1>1 DEF CompleteInv, Phase, InHand
<1>3. isFinished' = isFinished /\ present' = present /\ UNCHANGED <<tod, single>>
  BY DEF Branching, BranchReceive, BranchTimeout, SearchDone, PopSingle, PopBranch, DubSilent,
         DubValid, DubSplit
<1>4. CASE BranchReceive
  <2>1. /\ Where = "Discovery" /\ Where' = "Dub" /\ discovery.running
        /\ Received \/ discovery.counter = 0
        /\ ReceiveOnly /\ response' = Received
        /\ discovery' = [discovery EXCEPT !.running = FALSE]
        /\ UNCHANGED <<quickBranch, quickFind>>
    BY <1>4, WhereBranching DEF BranchReceive
  <2>2. Awaiting(Branch, discovery.counter)
    BY <1>2, <2>1 DEF DiscoveryPhase
  <2>3. /\ wire' = wire /\ ~rx'.ready /\ rx'.frame = rx.frame /\ muted' = muted /\ lost' = lost
    BY <1>0, <2>1 DEF ReceiveOnly, Drained
  <2>4. /\ Received => wire = NoFrame /\ Proper(Branch, rx.frame)
        /\ discovery.counter = 0 => Quiet /\ ~Due(Branch)
    BY <1>0, <1>2, <2>2, AwaitFacts
  <2>5. Quiet'
    BY <2>1, <2>3, <2>4 DEF Quiet
  <2>6. Branch' = Branch
    BY <1>0, <2>1 DEF Branch
  <2>7. (Due(Branch))' <=> Due(Branch)
    BY <1>3, <2>3, <2>6 DEF Due
  <2>8. DubPhase'
    <3>1. response' => wire = NoFrame /\ Proper(Branch, rx.frame)
      BY <2>1, <2>4
    <3>2. response' /\ ValidResponse' => (rx.frame.uid \in present)'
      BY <1>3, <2>3, <3>1, BranchRequest DEF Proper, ValidResponse
    <3>3. ~response' => ~Due(Branch)
      BY <2>1, <2>4
    <3> QED
      BY <2>5, <2>7, <3>2, <3>3 DEF DubPhase
  <2>9. Listed' /\ Covered'
    <3>1. BranchOpen /\ BranchOpen'
      BY <2>1 DEF BranchOpen
    <3>2. \A d \in present \ muted : Open(d) => (Open(d))'
      BY <1>0, <2>1, <3>1 DEF Open
    <3> QED
      BY <1>2, <1>3, <2>3, <3>2, SearchStays
  <2>10. Spare'
    BY <1>1, <1>2, <1>3, <2>1, <2>3 DEF Spare, Enough
  <2> QED
    BY <1>2, <1>3, <2>1, <2>3, <2>5, <2>8, <2>9, <2>10
    DEF CompleteInv, Phase, Searching, SearchStates
<1>5. CASE BranchTimeout
  <2>1. /\ Where = "Discovery" /\ Where' = "Discovery" /\ state' = state
        /\ discovery.running /\ ~Received /\ discovery.counter # 0 /\ WindowElapsed
        /\ discovery' = [discovery EXCEPT !.counter = discovery.counter - 1]
        /\ Transmit(message)
        /\ UNCHANGED <<quickBranch, quickFind, rx>>
    BY <1>5, WhereBranching DEF BranchTimeout, CountTry
  <2>2. Awaiting(Branch, discovery.counter)
    BY <1>2, <2>1 DEF DiscoveryPhase
  <2>3. Quiet
    BY <2>1 DEF Quiet, Received, WindowElapsed, Punctual
  <2>4. discovery.counter - 1 \in Nat
    BY <1>0, <2>1
  <2>5. PICK c \in Nat, req \in Request : c = discovery.counter - 1 /\ req = Branch
    BY <2>4, BranchRequest
  <2>6. message = req /\ (Due(req) => Enough(c)) /\ req.pid = "dub"
    BY <1>0, <1>2, <2>1, <2>2, <2>3, <2>5, AwaitFacts, BranchRequest
  <2>7. /\ (Awaiting(req, c))'
        /\ lost' \in Nat /\ lost <= lost' /\ lost' <= MaxLost /\ muted' = muted
    BY <1>2, <1>3, <2>1, <2>3, <2>6, SendFacts DEF IInv
  <2>8. discovery'.counter = c /\ discovery'.running /\ Branch' = req
        /\ discovery'.stack = discovery.stack /\ discovery'.lower = discovery.lower
        /\ discovery'.upper = discovery.upper
    BY <1>0, <2>1, <2>5 DEF Branch
  <2>9. DiscoveryPhase'
    BY <2>7, <2>8 DEF DiscoveryPhase
  <2>10. Listed' /\ Covered'
    <3>1. BranchOpen /\ BranchOpen'
      BY <2>1, <2>8 DEF BranchOpen
    <3>2. \A d \in present \ muted : Open(d) => (Open(d))'
      BY <2>8, <3>1 DEF Open
    <3> QED
      BY <1>2, <1>3, <2>7, <3>2, SearchStays
  <2>11. Spare'
    BY <1>0, <1>1, <1>2, <1>3, <2>1, <2>7, SpareStays
  <2> QED
    BY <1>1, <1>2, <1>3, <2>1, <2>7, <2>9, <2>10, <2>11
    DEF CompleteInv, Phase, Searching, SearchStates
<1>6. CASE SearchDone
  <2>1. /\ Where = "Discovery" /\ Where' = "Finished" /\ ~discovery.running
        /\ discovery.stack = << >>
        /\ UNCHANGED <<discovery, quickBranch, quickFind, line>>
    BY <1>6, WhereBranching DEF SearchDone
  <2>2. wire' = wire /\ rx' = rx /\ muted' = muted /\ lost' = lost
    BY <2>1 DEF line
  <2>3. Quiet /\ Quiet'
    BY <1>2, <2>1, <2>2 DEF DiscoveryPhase, Quiet
  <2>4. FinishedPhase'
    BY <2>1, <2>3 DEF FinishedPhase
  <2>5. Listed' /\ Covered'
    <3>1. ~BranchOpen
      BY <2>1 DEF BranchOpen
    <3>2. \A d \in present \ muted : Open(d) => (Open(d))'
      BY <2>1, <3>1 DEF Open
    <3> QED
      BY <1>2, <1>3, <2>2, <3>2, SearchStays
  <2>6. Spare'
    BY <1>1, <1>2, <1>3, <2>1, <2>2 DEF Spare, Enough
  <2> QED
    BY <1>2, <1>3, <2>1, <2>2, <2>3, <2>4, <2>5, <2>6
    DEF CompleteInv, Phase, Searching, SearchStates
<1>7. CASE PopSingle \/ PopBranch
  <2>1. /\ discovery.stack # << >> /\ ~discovery.running /\ Where = "Discovery"
    BY <1>7, WhereBranching DEF PopSingle, PopBranch
  <2>2. Quiet
    BY <1>2, <2>1 DEF DiscoveryPhase
  <2>3. /\ Len(discovery.stack) \in Nat \ {0} /\ Top \in UidRange /\ Rest \in Seq(UidRange)
        /\ Len(Rest) = Len(discovery.stack) - 1
        /\ \A i \in 1..(Len(discovery.stack) - 1) : Rest[i] = discovery.stack[i]
    BY <1>0, <2>1, PopFacts
  <2>4. /\ discovery'.stack = Rest
        /\ discovery'.lower = Top[1] /\ discovery'.upper = Top[2]
    BY <1>0, <1>7 DEF PopSingle, PopBranch
  <2>5. ASSUME BranchOpen', NEW d \in present \ muted, Open(d) PROVE (Open(d))'
    <3>1. ~BranchOpen
      BY <2>1 DEF BranchOpen
    <3>2. PICK i \in 1..Len(discovery.stack) :
             discovery.stack[i][1] <= d /\ d <= discovery.stack[i][2]
      BY <2>5, <3>1 DEF Open
    <3>3. CASE i = Len(discovery.stack)
      BY <2>4, <2>5, <3>2, <3>3 DEF Open, Top
    <3>4. CASE i # Len(discovery.stack)
      <4>1. i \in 1..(Len(discovery.stack) - 1)
        BY <2>3, <3>4
      <4>2. i \in 1..Len(Rest) /\ Rest[i][1] <= d /\ d <= Rest[i][2]
        BY <2>3, <3>2, <4>1
      <4> QED
        BY <2>4, <4>2 DEF Open
    <3> QED
      BY <3>3, <3>4
  <2>6. CASE PopSingle
    <3>1. /\ Top[1] = Top[2] /\ Where' = "SingleDevice"
          /\ quickBranch' = [quickBranch EXCEPT !.running = FALSE]
          /\ UNCHANGED <<quickFind, line>>
      BY <2>6, WhereBranching DEF PopSingle
    <3>2. wire' = wire /\ rx' = rx /\ muted' = muted /\ lost' = lost
      BY <3>1 DEF line
    <3>3. Quiet' /\ BranchOpen'
      BY <2>2, <3>1, <3>2 DEF Quiet, BranchOpen
    <3>4. SinglePhase'
      <4>1. ~single'.running /\ (Enough(single.counter))'
        BY <1>1, <1>2, <1>3, <3>2 DEF Spare, Enough
      <4> QED
        BY <2>4, <3>1, <3>3, <4>1 DEF SinglePhase
    <3>5. Listed' /\ Covered'
      BY <1>2, <1>3, <2>5, <3>2, <3>3, SearchStays
    <3>6. Spare'
      <4>1. ~quickBranch'.running /\ quickBranch'.counter = quickBranch.counter
        BY <1>0, <3>1
      <4> QED
        BY <1>1, <1>2, <3>1, <3>2, <4>1 DEF Spare, Enough
    <3> QED
      BY <1>2, <1>3, <3>1, <3>2, <3>3, <3>4, <3>5, <3>6
      DEF CompleteInv, Phase, Searching, SearchStates
  <2>7. CASE PopBranch
    <3>1. /\ Where' = "Discovery" /\ state' = state
          /\ discovery' = [discovery EXCEPT !.stack = Rest, !.lower = Top[1], !.upper = Top[2],
                                            !.pdl = Top, !.counter = BranchTries,
                                            !.running = TRUE]
          /\ Transmit(BranchOf(Top))
          /\ UNCHANGED <<quickBranch, quickFind, rx>>
      BY <2>7, WhereBranching DEF PopBranch
    <3>2. PICK c \in Nat, req \in Request : c = BranchTries /\ req = BranchOf(Top)
      BY <2>3, CompleteTypes, RequestFacts
    <3>3. req.pid = "dub" /\ Enough(c)
      BY <1>0, <3>2 DEF BranchOf, Enough, Punctual
    <3>4. /\ (Awaiting(req, c))'
          /\ lost' \in Nat /\ lost <= lost' /\ lost' <= MaxLost /\ muted' = muted
      BY <1>2, <1>3, <2>2, <3>1, <3>2, <3>3, SendFacts DEF IInv
    <3>5. discovery'.counter = c /\ discovery'.running /\ Branch' = req
      BY <1>0, <3>1, <3>2 DEF Branch
    <3>6. DiscoveryPhase' /\ BranchOpen'
      BY <3>1, <3>4, <3>5 DEF DiscoveryPhase, BranchOpen
    <3>7. Listed' /\ Covered'
      BY <1>2, <1>3, <2>5, <3>4, <3>6, SearchStays
    <3>8. Spare'
      BY <1>0, <1>1, <1>2, <1>3, <3>1, <3>4, SpareStays
    <3> QED
      BY <1>1, <1>2, <1>3, <3>1, <3>4, <3>6, <3>7, <3>8
      DEF CompleteInv, Phase, Searching, SearchStates
  <2> QED
    BY <1>7, <2>6, <2>7
<1>8. CASE DubSilent
  <2>1. /\ Where = "Dub" /\ Where' = "Discovery" /\ ~response
        /\ UNCHANGED <<discovery, quickBranch, quickFind, line>>
    BY <1>8, WhereBranching DEF DubSilent
  <2>2. wire' = wire /\ rx' = rx /\ muted' = muted /\ lost' = lost
    BY <2>1 DEF line
  <2>3. Quiet /\ Quiet' /\ ~Due(Branch)
    BY <1>2, <2>1, <2>2 DEF DubPhase, Quiet
  <2>4. ~discovery.running
    BY <2>1 DEF IInv, BranchOK
  <2>5. DiscoveryPhase'
    BY <2>1, <2>3, <2>4 DEF DiscoveryPhase
  <2>6. Listed' /\ Covered'
    <3>1. \A d \in present \ muted : Open(d) => (Open(d))'
      BY <2>1, <2>3, SilentBranch DEF Open
    <3> QED
      BY <1>2, <1>3, <2>2, <3>1, SearchStays
  <2>7. Spare'
    BY <1>1, <1>2, <1>3, <2>1, <2>2 DEF Spare, Enough
  <2> QED
    BY <1>2, <1>3, <2>1, <2>2, <2>3, <2>5, <2>6, <2>7
    DEF CompleteInv, Phase, Searching, SearchStates
<1>9. CASE DubValid
  <2>1. /\ Where = "Dub" /\ Where' = "QuickFind" /\ response /\ ValidResponse
        /\ quickFind' = [quickFind EXCEPT !.uid = rx.frame.uid]
        /\ UNCHANGED <<discovery, quickBranch, line>>
    BY <1>9, WhereBranching DEF DubValid
  <2>2. wire' = wire /\ rx' = rx /\ muted' = muted /\ lost' = lost
    BY <2>1 DEF line
  <2>3. Quiet' /\ rx.frame.uid \in present
    BY <1>2, <2>1, <2>2 DEF DubPhase, Quiet
  <2>4. quickFind'.uid = rx.frame.uid /\ ~quickFind'.running
    BY <1>0, <1>1, <1>2, <2>1 DEF Spare
  <2>5. QuickFindPhase'
    BY <1>3, <2>3, <2>4 DEF QuickFindPhase
  <2>6. Listed' /\ Covered'
    <3>1. \A d \in present \ muted : Open(d) => (Open(d))'
      BY <2>1 DEF Open, BranchOpen
    <3> QED
      BY <1>2, <1>3, <2>2, <3>1, SearchStays
  <2>7. Spare'
    BY <1>1, <1>2, <1>3, <2>1, <2>2 DEF Spare, Enough
  <2> QED
    BY <1>2, <1>3, <2>1, <2>2, <2>3, <2>5, <2>6, <2>7
    DEF CompleteInv, Phase, Searching, SearchStates
<1>10. CASE DubSplit
  <2> DEFINE n == Len(discovery.stack)
             l == discovery.lower
             u == discovery.upper
             m == MidPosition(l, u)
             new == discovery.stack \o Halves(l, u)
  <2>1. /\ Where = "Dub" /\ Where' = "Discovery"
        /\ discovery' = [discovery EXCEPT !.stack = new]
        /\ UNCHANGED <<quickBranch, quickFind, line>>
    BY <1>10, WhereBranching DEF DubSplit
  <2>2. wire' = wire /\ rx' = rx /\ muted' = muted /\ lost' = lost
    BY <2>1 DEF line
  <2>3. Quiet /\ Quiet'
    BY <1>2, <2>1, <2>2 DEF DubPhase, Quiet
  <2>4. ~discovery.running /\ l < u
    BY <2>1 DEF IInv, BranchOK, BranchOpen, Asked
  <2>5. discovery'.stack = new /\ ~discovery'.running
    BY <1>0, <2>1, <2>4
  <2>6. DiscoveryPhase'
    BY <2>3, <2>5 DEF DiscoveryPhase
  <2>7. ASSUME NEW d \in present \ muted, Open(d) PROVE (Open(d))'
    <3>1. /\ n \in Nat /\ Len(new) = n + 2
          /\ \A i \in 1..n : new[i] = discovery.stack[i]
          /\ new[n + 1] = <<l, m>>
          /\ new[n + 2] = <<m + 1, u>>
      BY <1>0, <2>4, PushFacts
    <3> HIDE DEF new
    <3>2. CASE \E i \in 1..n : discovery.stack[i][1] <= d /\ d <= discovery.stack[i][2]
      <4>1. PICK i \in 1..n : discovery.stack[i][1] <= d /\ d <= discovery.stack[i][2]
        BY <3>2
      <4>2. i \in 1..Len(new) /\ new[i][1] <= d /\ d <= new[i][2]
        BY <3>1, <4>1
      <4> QED
        BY <2>5, <4>2 DEF Open
    <3>3. CASE l <= d /\ d <= u
      <4>1. m \in Uid /\ d \in Uid
        BY <1>0, <2>4, MidBetween, UidFacts, CompleteTypes
      <4>2. m \in Nat /\ d \in Nat
        BY <4>1, UidFacts
      <4>3. d <= m \/ m + 1 <= d
        BY <4>2
      <4>4. n + 1 \in 1..Len(new) /\ n + 2 \in 1..Len(new)
        BY <3>1
      <4>5. \E i \in 1..Len(new) : new[i][1] <= d /\ d <= new[i][2]
        <5>1. CASE d <= m
          <6>1. new[n + 1][1] <= d /\ d <= new[n + 1][2]
            BY <3>1, <3>3, <5>1
          <6> QED
            BY <4>4, <6>1
        <5>2. CASE m + 1 <= d
          <6>1. new[n + 2][1] <= d /\ d <= new[n + 2][2]
            BY <3>1, <3>3, <5>2
          <6> QED
            BY <4>4, <6>1
        <5> QED
          BY <4>3, <5>1, <5>2
      <4> QED
        BY <2>5, <4>5 DEF Open
    <3> QED
      BY <2>7, <3>2, <3>3 DEF Open
  <2>8. Listed' /\ Covered'
    BY <1>2, <1>3, <2>2, <2>7, SearchStays
  <2>9. Spare'
    BY <1>1, <1>2, <1>3, <2>1, <2>2 DEF Spare, Enough
  <2> QED
    BY <1>2, <1>3, <2>1, <2>2, <2>3, <2>6, <2>8, <2>9
    DEF CompleteInv, Phase, Searching, SearchStates
<1> QED
  BY <1>4, <1>5, <1>6, <1>7, <1>8, <1>9, <1>10 DEF Branching

\* A step that mutes the device in hand and lists nobody.
LEMMA SearchMutes ==
    ASSUME Listed, Covered, UNCHANGED <<tod, present, discovery>>, NEW uid,
           muted \subseteq muted', muted' \subseteq muted \cup {uid},
           InHand' = {uid}, InHand = {uid}, BranchOpen'
    PROVE  Listed' /\ Covered'
<1>1. (Uids(tod))' = Uids(tod) /\ Full' = Full
  BY DEF Uids, Full
<1>2. Listed'
  BY <1>1 DEF Listed
<1>3. Covered'
  BY DEF Covered, Open
<1> QED
  BY <1>2, <1>3

\* The device in hand is listed, unless the table is full.
LEMMA SearchLists ==
    ASSUME tod \in Seq(Uid), Listed, NEW uid \in Uid, uid \in muted,
           tod' = AddUid(tod, uid), muted' = muted, InHand \subseteq {uid}
    PROVE  Listed'
<1>1. /\ Uids(tod) \subseteq Uids(AddUid(tod, uid))
      /\ Uids(AddUid(tod, uid)) \subseteq Uids(tod) \cup {uid}
  BY AddUidFacts
<1>2. (Uids(tod))' = Uids(AddUid(tod, uid))
  BY DEF Uids
<1>3. Full => Full'
  BY DEF Full, AddUid
<1>4. ~Full => uid \in Uids(AddUid(tod, uid))
  <2>1. CASE Exist(tod, uid)
    BY <1>1, <2>1 DEF Exist, Uids
  <2>2. CASE ~Exist(tod, uid)
    <3>1. ~Full => AddUid(tod, uid) = Append(tod, uid)
      BY <2>2 DEF Full, AddUid
    <3> DEFINE new == Append(tod, uid)
    <3>2. Len(new) \in 1..Len(new) /\ new[Len(new)] = uid
      OBVIOUS
    <3> HIDE DEF new
    <3>3. uid \in Uids(new)
      BY <3>2 DEF Uids
    <3> QED
      BY <3>1, <3>3 DEF new
  <2> QED
    BY <2>1, <2>2
<1> QED
  BY <1>1, <1>2, <1>3, <1>4 DEF Listed

LEMMA CompleteSingleDevice ==
    ASSUME Punctual, IInv, CompleteInv, SingleDevice
    PROVE  CompleteInv'
<1>0. /\ lost \in Nat /\ MaxLost \in Nat /\ QuickBranchTries \in Nat /\ tod \in Seq(Uid)
      /\ single \in [counter : Nat, running : BOOLEAN]
      /\ quickBranch \in [counter : Nat, running : BOOLEAN]
      /\ discovery.lower \in Uid
      /\ muted \subseteq present
      /\ rx \in [ready : BOOLEAN, frame : Frame]
  BY CompleteTypes
<1>1. state = "SingleDevice" /\ Where = "SingleDevice" /\ BranchOpen /\ Searching
  BY WhereFinding DEF Searching, SearchStates, BranchOpen
<1>2. /\ lost <= MaxLost /\ Spare /\ ~isFinished /\ Listed /\ Covered
      /\ InHand = {discovery.lower} /\ SinglePhase
  BY <1>1 DEF CompleteInv, Phase, InHand
<1>3. /\ isFinished' = isFinished /\ present' = present
      /\ UNCHANGED <<discovery, quickBranch, quickFind>>
  BY DEF SingleDevice, SingleGiveUp, SingleSend, SingleReceive, SingleTimeout
<1>4. PICK uid \in Uid : uid = discovery.lower
  BY <1>0
<1>5. /\ MuteOf(uid) \in Request /\ MuteOf(uid).pid = "mute" /\ MuteOf(uid).lower = uid
  BY RequestFacts DEF MuteOf
<1>6. \A d \in Nat : discovery.lower <= d /\ d <= discovery.upper => d = uid
  BY <1>2, <1>4, UidFacts DEF SinglePhase
<1>7. \A d \in present : d \in Nat
  BY UidFacts, CompleteTypes
<1>8. ASSUME uid \in muted \/ uid \notin present, present' = present, muted' = muted
      PROVE  Covered'
  <2>1. ASSUME NEW d \in present \ muted PROVE (Open(d))'
    <3>1. Open(d) /\ ~(discovery.lower <= d /\ d <= discovery.upper)
      BY <1>2, <1>6, <1>7, <1>8, <2>1 DEF Covered
    <3> QED
      BY <1>3, <3>1 DEF Open
  <2> QED
    BY <1>8, <2>1 DEF Covered
<1>9. ~discovery.running /\ ~discovery'.running
  BY <1>1, <1>3 DEF IInv, BranchOK
<1>10. single.counter = 0 => single.running /\ Quiet /\ uid \notin present
  <2>1. single.counter = 0 => ~Enough(single.counter)
    BY <1>0, <1>2 DEF Enough
  <2>2. single.counter = 0 => single.running /\ Awaiting(MuteOf(uid), single.counter)
    BY <1>2, <1>4, <2>1 DEF SinglePhase
  <2> QED
    BY <1>0, <1>2, <1>5, <2>2, AwaitFacts DEF Due
<1>11. ASSUME Listed', Covered', Where' = "Discovery", Quiet', UNCHANGED <<muted, lost>>,
              single' = [counter |-> QuickBranchTries, running |-> FALSE]
       PROVE  CompleteInv'
  <2>1. DiscoveryPhase'
    BY <1>9, <1>11 DEF DiscoveryPhase
  <2>2. (Enough(single.counter))' /\ ~single'.running
    <3>1. QuickBranchTries > MaxLost
      BY <1>0 DEF Punctual
    <3> QED
      BY <1>0, <1>11, <3>1 DEF Enough
  <2>3. Spare'
    BY <1>1, <1>2, <1>3, <1>11, <2>2 DEF Spare, Enough
  <2> QED
    BY <1>2, <1>3, <1>11, <2>1, <2>3 DEF CompleteInv, Phase, Searching, SearchStates
<1>12. CASE SingleGiveUp
  <2>1. /\ Where' = "Discovery" /\ single.counter = 0 /\ UNCHANGED <<tod, line>>
        /\ single' = [counter |-> QuickBranchTries, running |-> FALSE]
    BY <1>12, WhereFinding DEF SingleGiveUp
  <2>2. wire' = wire /\ rx' = rx /\ muted' = muted /\ lost' = lost
    BY <2>1 DEF line
  <2>3. Quiet /\ Quiet' /\ uid \notin present
    BY <1>10, <2>1, <2>2 DEF Quiet
  <2>4. Covered'
    BY <1>3, <1>8, <2>2, <2>3
  <2>5. Listed'
    <3>1. (Uids(tod))' = Uids(tod) /\ Full' = Full
      BY <2>1 DEF Uids, Full
    <3>2. uid \notin muted
      BY <1>0, <2>3
    <3> QED
      BY <1>2, <1>4, <2>2, <3>1, <3>2 DEF Listed
  <2> QED
    BY <1>11, <2>1, <2>2, <2>3, <2>4, <2>5
<1>13. ASSUME NEW c \in Nat, SingleSend \/ SingleTimeout, Transmit(MuteOf(uid)), Quiet,
              Due(MuteOf(uid)) => Enough(c), single' = [counter |-> c, running |-> TRUE]
       PROVE  CompleteInv'
  <2>1. UNCHANGED <<state, tod, rx>> /\ Where' = "SingleDevice"
    BY <1>13, WhereFinding DEF SingleSend, SingleTimeout
  <2>2. /\ (Awaiting(MuteOf(uid), c))'
        /\ lost' \in Nat /\ lost <= lost' /\ lost' <= MaxLost
        /\ muted \subseteq muted' /\ muted' \subseteq muted \cup {uid}
    BY <1>2, <1>3, <1>5, <1>13, <2>1, SendFacts DEF IInv
  <2>3. single'.counter = c /\ single'.running
    BY <1>13
  <2>4. (Awaiting(MuteOf(discovery.lower), single.counter))'
    BY <1>3, <1>4, <2>2, <2>3
  <2>5. SinglePhase'
    BY <1>2, <1>3, <2>3, <2>4 DEF SinglePhase
  <2>6. Listed' /\ Covered'
    <3>1. BranchOpen' /\ InHand' = {uid} /\ InHand = {uid}
      BY <1>2, <1>3, <1>4, <2>1 DEF BranchOpen, InHand
    <3> QED
      BY <1>2, <1>3, <2>1, <2>2, <3>1, SearchMutes
  <2>7. Spare'
    BY <1>0, <1>1, <1>2, <1>3, <2>1, <2>2 DEF Spare, Enough
  <2> QED
    BY <1>1, <1>2, <1>3, <2>1, <2>2, <2>5, <2>6, <2>7
    DEF CompleteInv, Phase, Searching, SearchStates
<1>14. CASE SingleSend
  <2>1. PICK c \in Nat : c = single.counter
    BY <1>0
  <2>2. /\ ~single.running /\ single' = [single EXCEPT !.running = TRUE]
        /\ Transmit(MuteOf(uid))
    BY <1>4, <1>14 DEF SingleSend
  <2>3. Quiet /\ Enough(c) /\ single' = [counter |-> c, running |-> TRUE]
    BY <1>0, <1>2, <2>1, <2>2 DEF SinglePhase
  <2> QED
    BY <1>13, <1>14, <2>2, <2>3
<1>15. CASE SingleTimeout
  <2>1. /\ single.running /\ single.counter # 0 /\ ~Received /\ WindowElapsed
        /\ single' = [single EXCEPT !.counter = single.counter - 1]
        /\ Transmit(message)
    BY <1>15 DEF SingleTimeout, CountTry
  <2>2. Awaiting(MuteOf(uid), single.counter)
    BY <1>2, <1>4, <2>1 DEF SinglePhase
  <2>3. Quiet
    BY <2>1 DEF Quiet, Received, WindowElapsed, Punctual
  <2>4. PICK c \in Nat : c = single.counter - 1
    BY <1>0, <2>1
  <2>5. message = MuteOf(uid) /\ (Due(MuteOf(uid)) => Enough(c))
    BY <1>0, <1>2, <2>1, <2>2, <2>3, <2>4, AwaitFacts
  <2>6. single' = [counter |-> c, running |-> TRUE]
    BY <1>0, <2>1, <2>4
  <2> QED
    BY <1>13, <1>15, <2>1, <2>3, <2>5, <2>6
<1>16. CASE SingleReceive
  <2>1. single.running /\ Received /\ ReceiveOnly
    BY <1>16 DEF SingleReceive
  <2>2. wire' = wire /\ ~rx'.ready /\ muted' = muted /\ lost' = lost
    BY <2>1 DEF ReceiveOnly, Drained
  <2>3. Awaiting(MuteOf(uid), single.counter)
    BY <1>2, <1>4, <2>1 DEF SinglePhase
  <2>4. wire = NoFrame /\ Proper(MuteOf(uid), rx.frame) /\ uid \in muted
    BY <1>0, <1>2, <1>5, <2>1, <2>3, AwaitFacts
  <2>5. SingleAcknowledged
    BY <1>4, <1>5, <2>4 DEF Proper, SingleAcknowledged
  <2>6. /\ tod' = AddUid(tod, uid) /\ Where' = "Discovery"
        /\ single' = [counter |-> QuickBranchTries, running |-> FALSE]
    BY <1>4, <1>16, <2>5, WhereFinding DEF SingleReceive
  <2>7. Quiet'
    BY <2>2, <2>4 DEF Quiet
  <2>8. Listed' /\ Covered'
    BY <1>0, <1>2, <1>3, <1>4, <1>8, <2>2, <2>4, <2>6, SearchLists
  <2> QED
    BY <1>11, <2>2, <2>6, <2>7, <2>8
<1> QED
  BY <1>12, <1>14, <1>15, <1>16 DEF SingleDevice

LEMMA CompleteQuickFind ==
    ASSUME Punctual, IInv, CompleteInv, QuickFind
    PROVE  CompleteInv'
<1>0. /\ lost \in Nat /\ MaxLost \in Nat /\ tod \in Seq(Uid)
      /\ single.counter \in Nat
      /\ quickBranch \in [counter : Nat, running : BOOLEAN]
      /\ quickFind \in [counter : Nat, running : BOOLEAN, uid : Uid]
      /\ muted \subseteq present
  BY CompleteTypes
<1>1. state = "QuickFind" /\ Where = "QuickFind" /\ BranchOpen /\ Searching
  BY WhereFinding DEF Searching, SearchStates, BranchOpen
<1>2. /\ lost <= MaxLost /\ Spare /\ ~isFinished /\ Listed /\ Covered
      /\ InHand = {quickFind.uid} /\ QuickFindPhase
  BY <1>1 DEF CompleteInv, Phase, InHand
<1>3. /\ isFinished' = isFinished /\ present' = present
      /\ UNCHANGED <<discovery, quickBranch, single>>
  BY DEF QuickFind, QuickFindSend, QuickFindReceive, QuickFindTimeout
<1>4. PICK uid \in Uid : uid = quickFind.uid
  BY <1>0
<1>5. /\ MuteOf(uid) \in Request /\ MuteOf(uid).pid = "mute" /\ MuteOf(uid).lower = uid
  BY RequestFacts DEF MuteOf
<1>6. CASE QuickFindSend
  <2>1. /\ Where' = "QuickFind" /\ ~quickFind.running /\ UNCHANGED <<state, tod, rx>>
        /\ quickFind' = [quickFind EXCEPT !.counter = QuickFindTries, !.running = TRUE]
        /\ Transmit(MuteOf(uid))
    BY <1>4, <1>6, WhereFinding DEF QuickFindSend
  <2>2. Quiet
    BY <1>2, <2>1 DEF QuickFindPhase
  <2>3. PICK c \in Nat : c = MaxLost + 1
    BY <1>0
  <2>4. Enough(c)
    BY <1>0, <2>3 DEF Enough
  <2>5. /\ (Awaiting(MuteOf(uid), c))'
        /\ lost' \in Nat /\ lost <= lost' /\ lost' <= MaxLost
        /\ muted \subseteq muted' /\ muted' \subseteq muted \cup {uid}
    BY <1>2, <1>3, <1>5, <2>1, <2>2, <2>4, SendFacts DEF IInv
  <2>6. quickFind'.uid = uid /\ quickFind'.running
    BY <1>0, <1>4, <2>1
  <2>7. (Hearing(MuteOf(quickFind.uid)))'
    <3>1. (Hearing(MuteOf(uid)))'
      BY <2>5 DEF Awaiting
    <3> QED
      BY <2>6, <3>1
  <2>8. QuickFindPhase'
    BY <1>2, <1>3, <1>4, <2>6, <2>7 DEF QuickFindPhase
  <2>9. Listed' /\ Covered'
    <3>1. BranchOpen' /\ InHand' = {uid} /\ InHand = {uid}
      BY <1>2, <1>4, <2>1, <2>6 DEF BranchOpen, InHand
    <3> QED
      BY <1>2, <1>3, <2>1, <2>5, <3>1, SearchMutes
  <2>10. Spare'
    <3>1. /\ ~single.running /\ Enough(single.counter)
          /\ ~quickBranch.running /\ Enough(quickBranch.counter)
      BY <1>1, <1>2 DEF Spare
    <3>2. (Enough(single.counter))' /\ (Enough(quickBranch.counter))'
      <4>1. lost \in Nat /\ lost' \in Nat /\ lost <= lost' /\ MaxLost \in Nat
        BY <1>0, <2>5
      <4>2. single.counter \in Nat /\ quickBranch.counter \in Nat
        BY <1>0
      <4>3. lost' + single.counter > MaxLost /\ lost' + quickBranch.counter > MaxLost
        BY <3>1, <4>1, <4>2, EnoughStays
      <4> QED
        BY <1>3, <4>3 DEF Enough
    <3> QED
      BY <1>3, <2>1, <3>1, <3>2 DEF Spare
  <2> QED
    BY <1>1, <1>2, <1>3, <2>1, <2>5, <2>8, <2>9, <2>10
    DEF CompleteInv, Phase, Searching, SearchStates
<1>7. CASE QuickFindReceive
  <2>1. quickFind.running /\ Received /\ ReceiveOnly
    BY <1>7 DEF QuickFindReceive
  <2>2. wire' = wire /\ ~rx'.ready /\ muted' = muted /\ lost' = lost
    BY <2>1 DEF ReceiveOnly, Drained
  <2>3. Hearing(MuteOf(uid))
    BY <1>2, <1>4, <2>1 DEF QuickFindPhase
  <2>4. wire = NoFrame /\ Proper(MuteOf(uid), rx.frame) /\ uid \in muted
    BY <1>5, <2>1, <2>3 DEF Hearing, Received, Quiet
  <2>5. rx.frame.kind = "mute" /\ rx.frame.uid = uid
    BY <1>5, <2>4 DEF Proper
  <2>6. tod' = AddUid(tod, uid) /\ Where' = "QuickFindDiscovery"
    BY <1>4, <1>7, <2>5, WhereFinding DEF QuickFindReceive
  <2>7. ~quickFind'.running
    <3>1. quickFind' = [quickFind EXCEPT !.counter = QuickFindTries, !.running = FALSE]
      BY <1>7, <2>5 DEF QuickFindReceive
    <3> QED
      BY <1>0, <3>1
  <2>8. Quiet'
    BY <2>2, <2>4 DEF Quiet
  <2>9. QuickBranchPhase'
    <3>1. ~quickBranch'.running /\ (Enough(quickBranch.counter))'
      BY <1>1, <1>2, <1>3, <2>2 DEF Spare, Enough
    <3> QED
      BY <2>8, <3>1 DEF QuickBranchPhase
  <2>10. Listed'
    BY <1>0, <1>2, <1>4, <2>2, <2>4, <2>6, SearchLists
  <2>11. Covered'
    BY <1>1, <1>2, <1>3, <2>2, <2>6 DEF Covered, Open, BranchOpen
  <2>12. Spare'
    BY <1>1, <1>2, <1>3, <2>2, <2>6, <2>7 DEF Spare, Enough
  <2> QED
    BY <1>2, <1>3, <2>2, <2>6, <2>8, <2>9, <2>10, <2>11, <2>12
    DEF CompleteInv, Phase, Searching, SearchStates
<1>8. CASE QuickFindTimeout
  <2>1. /\ Where' = "QuickFind" /\ UNCHANGED <<state, tod, line>>
        /\ ~Received /\ WindowElapsed
        /\ quickFind' = [quickFind EXCEPT !.counter = CountTry(quickFind.counter),
                                          !.running = FALSE]
    BY <1>8, WhereFinding DEF QuickFindTimeout
  <2>2. wire' = wire /\ rx' = rx /\ muted' = muted /\ lost' = lost
    BY <2>1 DEF line
  <2>3. Quiet'
    BY <2>1, <2>2 DEF Quiet, Received, WindowElapsed, Punctual
  <2>4. quickFind'.uid = quickFind.uid /\ ~quickFind'.running
    BY <1>0, <2>1
  <2>5. QuickFindPhase'
    BY <1>2, <1>3, <2>3, <2>4 DEF QuickFindPhase
  <2>6. Listed' /\ Covered'
    <3>1. InHand \subseteq InHand'
      BY <1>1, <2>1, <2>4 DEF InHand
    <3>2. \A d \in present \ muted : Open(d) => (Open(d))'
      BY <1>1, <1>3, <2>1 DEF Open, BranchOpen
    <3> QED
      BY <1>2, <1>3, <2>1, <2>2, <3>1, <3>2, SearchStays
  <2>7. Spare'
    BY <1>1, <1>2, <1>3, <2>1, <2>2 DEF Spare, Enough
  <2> QED
    BY <1>1, <1>2, <1>3, <2>1, <2>2, <2>5, <2>6, <2>7
    DEF CompleteInv, Phase, Searching, SearchStates
<1> QED
  BY <1>6, <1>7, <1>8 DEF QuickFind

LEMMA CompleteQuickBranch ==
    ASSUME Punctual, IInv, CompleteInv, QuickFindDiscovery
    PROVE  CompleteInv'
<1>0. /\ lost \in Nat /\ MaxLost \in Nat /\ QuickBranchTries \in Nat
      /\ single.counter \in Nat
      /\ quickBranch \in [counter : Nat, running : BOOLEAN]
      /\ quickFind \in [counter : Nat, running : BOOLEAN, uid : Uid]
      /\ muted \subseteq present
      /\ rx \in [ready : BOOLEAN, frame : Frame]
  BY CompleteTypes
<1>1. /\ state = "QuickFindDiscovery" /\ Where = "QuickFindDiscovery" /\ BranchOpen
      /\ Searching
  BY WhereFinding DEF Searching, SearchStates, BranchOpen
<1>2. /\ lost <= MaxLost /\ Spare /\ ~isFinished /\ Listed /\ Covered
      /\ InHand = {} /\ QuickBranchPhase
  BY <1>1 DEF CompleteInv, Phase, InHand
<1>3. /\ isFinished' = isFinished /\ present' = present
      /\ UNCHANGED <<discovery, single, tod>>
  BY DEF QuickFindDiscovery, QuickBranchGiveUp, QuickBranchSend, QuickBranchReceive,
         QuickBranchTimeout
<1>4. PICK req \in Request : req = Branch /\ req.pid = "dub"
  BY BranchRequest
<1>5. Branch' = req
  BY <1>3, <1>4 DEF Branch
<1>6. CASE QuickBranchGiveUp
  <2>1. /\ Where' = "Discovery" /\ quickBranch.counter = 0 /\ UNCHANGED <<line, quickFind>>
        /\ quickBranch' = [counter |-> QuickBranchTries, running |-> FALSE]
    BY <1>6, WhereFinding DEF QuickBranchGiveUp
  <2>2. wire' = wire /\ rx' = rx /\ muted' = muted /\ lost' = lost
    BY <2>1 DEF line
  <2>3. Quiet /\ ~Due(Branch)
    <3>1. CASE quickBranch.running
      BY <1>0, <1>2, <2>1, <3>1, AwaitFacts DEF QuickBranchPhase
    <3>2. CASE ~quickBranch.running
      <4>1. ~Enough(quickBranch.counter)
        BY <1>0, <1>2, <2>1 DEF Enough
      <4> QED
        BY <1>2, <3>2, <4>1 DEF QuickBranchPhase
    <3> QED
      BY <3>1, <3>2
  <2>4. Quiet'
    BY <2>2, <2>3 DEF Quiet
  <2>5. DiscoveryPhase'
    <3>1. ~discovery'.running
      BY <1>1, <1>3 DEF IInv, BranchOK
    <3> QED
      BY <2>4, <3>1 DEF DiscoveryPhase
  <2>6. Listed' /\ Covered'
    <3>1. \A d \in present \ muted : Open(d) => (Open(d))'
      BY <1>1, <1>3, <2>3, SilentBranch DEF Open
    <3> QED
      BY <1>2, <1>3, <2>2, <3>1, SearchStays
  <2>7. Spare'
    <3>1. ~quickBranch'.running /\ (Enough(quickBranch.counter))'
      <4>1. QuickBranchTries > MaxLost
        BY <1>0 DEF Punctual
      <4> QED
        BY <1>0, <2>1, <2>2, <4>1 DEF Enough
    <3> QED
      BY <1>1, <1>2, <1>3, <2>1, <2>2, <3>1 DEF Spare, Enough
  <2> QED
    BY <1>2, <1>3, <2>1, <2>2, <2>4, <2>5, <2>6, <2>7
    DEF CompleteInv, Phase, Searching, SearchStates
<1>7. CASE QuickBranchSend
  <2>1. /\ Where' = "QuickFindDiscovery" /\ ~quickBranch.running
        /\ UNCHANGED <<state, quickFind, rx>>
        /\ quickBranch' = [quickBranch EXCEPT !.running = TRUE]
        /\ Transmit(req)
    BY <1>4, <1>7, WhereFinding DEF QuickBranchSend, Branch
  <2>2. PICK c \in Nat : c = quickBranch.counter
    BY <1>0
  <2>3. Quiet /\ (Due(req) => Enough(c))
    BY <1>2, <1>4, <2>1, <2>2 DEF QuickBranchPhase
  <2>4. /\ (Awaiting(req, c))'
        /\ lost' \in Nat /\ lost <= lost' /\ lost' <= MaxLost /\ muted' = muted
    BY <1>2, <1>3, <1>4, <2>1, <2>3, SendFacts DEF IInv
  <2>5. quickBranch'.counter = c /\ quickBranch'.running
    BY <1>0, <2>1, <2>2
  <2>6. QuickBranchPhase'
    BY <1>5, <2>4, <2>5 DEF QuickBranchPhase
  <2>7. Listed' /\ Covered'
    <3>1. InHand \subseteq InHand'
      BY <1>2
    <3>2. \A d \in present \ muted : Open(d) => (Open(d))'
      BY <1>1, <1>3, <2>1 DEF Open, BranchOpen
    <3> QED
      BY <1>2, <1>3, <2>4, <3>1, <3>2, SearchStays
  <2>8. Spare'
    BY <1>0, <1>1, <1>2, <1>3, <2>1, <2>4 DEF Spare, Enough
  <2> QED
    BY <1>1, <1>2, <1>3, <2>1, <2>4, <2>6, <2>7, <2>8
    DEF CompleteInv, Phase, Searching, SearchStates
<1>8. CASE QuickBranchReceive
  <2>1. /\ quickBranch.running /\ Received /\ ReceiveOnly /\ response' = TRUE
        /\ quickBranch' = [counter |-> QuickBranchTries, running |-> FALSE]
    BY <1>8 DEF QuickBranchReceive
  <2>2. wire' = wire /\ ~rx'.ready /\ rx'.frame = rx.frame /\ muted' = muted /\ lost' = lost
    BY <1>0, <2>1 DEF ReceiveOnly, Drained
  <2>3. wire = NoFrame /\ Proper(Branch, rx.frame)
    BY <1>0, <1>2, <2>1, AwaitFacts DEF QuickBranchPhase
  <2>4. Quiet'
    BY <2>2, <2>3 DEF Quiet
  <2>5. ~quickBranch'.running /\ (Enough(quickBranch.counter))'
    <3>1. QuickBranchTries > MaxLost
      BY <1>0 DEF Punctual
    <3> QED
      BY <1>0, <2>1, <2>2, <3>1 DEF Enough
  <2>6. Where' \in {"QuickFind", "Dub"}
    BY <1>8, WhereFinding
  <2>7. Listed' /\ Covered'
    <3>1. InHand \subseteq InHand'
      BY <1>2
    <3>2. \A d \in present \ muted : Open(d) => (Open(d))'
      BY <1>1, <1>3, <2>6 DEF Open, BranchOpen
    <3> QED
      BY <1>2, <1>3, <2>2, <3>1, <3>2, SearchStays
  <2>8. CASE ValidResponse
    <3>1. Where' = "QuickFind" /\ quickFind' = [quickFind EXCEPT !.uid = rx.frame.uid]
      BY <1>8, <2>8, WhereFinding DEF QuickBranchReceive
    <3>2. quickFind'.uid = rx.frame.uid /\ ~quickFind'.running
      BY <1>0, <1>1, <1>2, <3>1 DEF Spare
    <3>3. rx.frame.uid \in present
      BY <1>4, <2>3, <2>8 DEF Proper, ValidResponse
    <3>4. QuickFindPhase'
      BY <1>3, <2>4, <3>2, <3>3 DEF QuickFindPhase
    <3>5. Spare'
      BY <1>1, <1>2, <1>3, <2>2, <2>5, <3>1 DEF Spare, Enough
    <3> QED
      BY <1>2, <1>3, <2>2, <2>4, <2>7, <3>1, <3>4, <3>5
      DEF CompleteInv, Phase, Searching, SearchStates
  <2>9. CASE ~ValidResponse
    <3>1. Where' = "Dub" /\ quickFind' = quickFind
      BY <1>8, <2>9, WhereFinding DEF QuickBranchReceive
    <3>2. DubPhase'
      BY <2>1, <2>2, <2>4, <2>9 DEF DubPhase, ValidResponse
    <3>3. Spare'
      BY <1>1, <1>2, <1>3, <2>2, <2>5, <3>1 DEF Spare, Enough
    <3> QED
      BY <1>2, <1>3, <2>2, <2>4, <2>7, <3>1, <3>2, <3>3
      DEF CompleteInv, Phase, Searching, SearchStates
  <2> QED
    BY <2>8, <2>9
<1>9. CASE QuickBranchTimeout
  <2>1. /\ Where' = "QuickFindDiscovery" /\ UNCHANGED <<state, quickFind, line>>
        /\ quickBranch.counter # 0 /\ quickBranch.running
        /\ ~Received /\ WindowElapsed
        /\ quickBranch' = [counter |-> quickBranch.counter - 1, running |-> FALSE]
    BY <1>9, WhereFinding DEF QuickBranchTimeout, CountTry
  <2>2. wire' = wire /\ rx' = rx /\ muted' = muted /\ lost' = lost
    BY <2>1 DEF line
  <2>3. Quiet
    BY <2>1 DEF Quiet, Received, WindowElapsed, Punctual
  <2>4. PICK c \in Nat : c = quickBranch.counter - 1
    BY <1>0, <2>1
  <2>5. Due(Branch) => Enough(c)
    BY <1>0, <1>2, <2>1, <2>3, <2>4, AwaitFacts DEF QuickBranchPhase
  <2>6. (Due(Branch))' => (Enough(c))'
    BY <1>3, <1>4, <1>5, <2>2, <2>5 DEF Due, Enough
  <2>7. QuickBranchPhase'
    BY <2>1, <2>2, <2>3, <2>4, <2>6 DEF QuickBranchPhase, Quiet
  <2>8. Listed' /\ Covered'
    <3>1. InHand \subseteq InHand'
      BY <1>2
    <3>2. \A d \in present \ muted : Open(d) => (Open(d))'
      BY <1>1, <1>3, <2>1 DEF Open, BranchOpen
    <3> QED
      BY <1>2, <1>3, <2>2, <3>1, <3>2, SearchStays
  <2>9. Spare'
    BY <1>1, <1>2, <1>3, <2>1, <2>2 DEF Spare, Enough
  <2> QED
    BY <1>1, <1>2, <1>3, <2>1, <2>2, <2>7, <2>8, <2>9
    DEF CompleteInv, Phase, Searching, SearchStates
<1> QED
  BY <1>6, <1>7, <1>8, <1>9 DEF QuickFindDiscovery

\* A step that leaves all but the pause and the end of the run as they are.
LEMMA PhaseStays ==
    ASSUME Where' = Where,
           UNCHANGED <<doIncremental, tod, response, unmute, mute, discovery, single,
                       quickFind, quickBranch, line, present>>
    PROVE  /\ Spare => Spare'
           /\ Phase => Phase'
           /\ Complete => Complete'
           /\ Quiet => Quiet'
<1>1. /\ message' = message /\ rx' = rx /\ wire' = wire /\ muted' = muted /\ lost' = lost
      /\ UNCHANGED <<doIncremental, tod, response, unmute, mute, discovery, single,
                     quickFind, quickBranch, present>>
  BY DEF line
<1>2. Quiet' = Quiet /\ Branch' = Branch /\ InHand' = InHand /\ BranchOpen' = BranchOpen
  BY <1>1 DEF Quiet, Branch, InHand, BranchOpen
<1>3. UnmutePhase => UnmutePhase'
  BY <1>1, <1>2 DEF UnmutePhase, WholeRange, Enough
<1>4. MutePhase => MutePhase'
  BY <1>1, <1>2 DEF MutePhase, WholeRange, Uids, Awaiting, Hearing, Proper, Due, Enough, Quiet
<1>5. Listed /\ Covered => Listed' /\ Covered'
  <2>1. (Uids(tod))' = Uids(tod) /\ Full' = Full
    BY <1>1 DEF Uids, Full
  <2>2. Listed => Listed'
    BY <1>1, <1>2, <2>1 DEF Listed
  <2>3. Covered => Covered'
    BY <1>1, <1>2 DEF Covered, Open
  <2> QED
    BY <2>2, <2>3
<1>6. DiscoveryPhase => DiscoveryPhase'
  BY <1>1, <1>2 DEF DiscoveryPhase, Awaiting, Hearing, Proper, Due, Enough
<1>7. DubPhase => DubPhase'
  BY <1>1, <1>2 DEF DubPhase, ValidResponse, Due
<1>8. QuickFindPhase => QuickFindPhase'
  BY <1>1, <1>2 DEF QuickFindPhase, Hearing, Proper, Due
<1>9. QuickBranchPhase => QuickBranchPhase'
  BY <1>1, <1>2 DEF QuickBranchPhase, Awaiting, Hearing, Proper, Due, Enough
<1>10. SinglePhase => SinglePhase'
  BY <1>1, <1>2 DEF SinglePhase, Awaiting, Hearing, Proper, Due, Enough
<1>11. FinishedPhase => FinishedPhase'
  BY <1>1, <1>2 DEF FinishedPhase
<1>12. Phase => Phase'
  BY <1>3, <1>4, <1>5, <1>6, <1>7, <1>8, <1>9, <1>10, <1>11 DEF Phase, Searching
<1>13. Spare => Spare'
  BY <1>1 DEF Spare, Enough
<1>14. Complete => Complete'
  BY <1>1 DEF Complete, Full, Uids
<1> QED
  BY <1>2, <1>12, <1>13, <1>14

\* When the stack is empty and no branch is open nobody is left to be found.
LEMMA FinishedComplete ==
    ASSUME IInv, CompleteInv, Where = "Finished"
    PROVE  Complete
<1>1. Listed /\ Covered /\ FinishedPhase /\ InHand = {}
  BY DEF CompleteInv, Phase, Searching, InHand
<1>2. present \subseteq muted
  <2>1. ~BranchOpen /\ discovery.stack = << >>
    BY <1>1 DEF BranchOpen, FinishedPhase
  <2> QED
    BY <1>1, <2>1 DEF Covered, Open
<1>3. muted = present
  BY <1>2, CompleteTypes
<1> QED
  BY <1>1, <1>3 DEF Complete, Listed

LEMMA CompleteStart ==
    ASSUME Punctual, IInv, CompleteInv, NEW incremental \in BOOLEAN, Start(incremental)
    PROVE  CompleteInv'
<1>0. /\ lost \in Nat /\ MaxLost \in Nat
      /\ mute \in [entries : Nat, counter : Nat, running : BOOLEAN, uid : Uid]
      /\ discovery \in [counter : Nat, running : BOOLEAN, stack : Seq(UidRange),
                        lower : Uid, upper : Uid, pdl : UidRange]
      /\ quickFind \in [counter : Nat, running : BOOLEAN, uid : Uid]
      /\ UnmuteTries \in Nat /\ MuteTries \in Nat /\ QuickBranchTries \in Nat
  BY CompleteTypes
<1>1. /\ Where' = "Unmute" /\ ~isFinished' /\ UNCHANGED line /\ doIncremental' = incremental
      /\ tod' = (IF incremental THEN tod ELSE EmptyTod)
      /\ state' = "Unmute"
  BY WhereOther DEF Start, TodAtStart, NewState
<1>2. /\ unmute' = [counter |-> UnmuteTries, running |-> FALSE]
      /\ single' = [counter |-> MuteTries, running |-> FALSE]
      /\ quickBranch' = [counter |-> QuickBranchTries, running |-> FALSE]
      /\ ~quickFind'.running
      /\ discovery'.stack = << <<0, LastUid>> >>
      /\ incremental => mute'.entries = Len(tod)
  BY <1>0 DEF Start
<1>3. wire' = wire /\ rx' = rx /\ muted' = muted /\ lost' = lost /\ lost <= MaxLost
  BY <1>1 DEF line, CompleteInv
<1>4. lost + UnmuteTries > MaxLost /\ lost + MuteTries > MaxLost
      /\ lost + QuickBranchTries > MaxLost /\ UnmuteTries # 0
  BY <1>0 DEF Punctual
<1>5. UnmutePhase'
  BY <1>1, <1>2, <1>3, <1>4 DEF UnmutePhase, WholeRange, Enough
<1>6. Spare'
  BY <1>1, <1>2, <1>3, <1>4 DEF Spare, Enough
<1> QED
  BY <1>1, <1>3, <1>5, <1>6 DEF CompleteInv, Phase, Searching, SearchStates

LEMMA CompleteDeliver ==
    ASSUME Punctual, IInv, CompleteInv, Deliver
    PROVE  CompleteInv'
<1>1. /\ UNCHANGED <<state, savedState, isFinished, doIncremental, tod, response, unmute,
                     mute, discovery, single, quickFind, quickBranch, present>>
      /\ muted' = muted /\ lost' = lost /\ ~Quiet /\ wire' = NoFrame
  BY DEF Deliver, machine, Quiet
<1>2. Where' = Where /\ Branch' = Branch /\ InHand' = InHand /\ BranchOpen' = BranchOpen
  BY <1>1 DEF Where, Branch, InHand, BranchOpen
<1>3. (Uids(tod))' = Uids(tod) /\ Full' = Full
  BY <1>1 DEF Uids, Full
<1>4. Listed => Listed'
  BY <1>1, <1>2, <1>3 DEF Listed
<1>5. Covered => Covered'
  BY <1>1, <1>2 DEF Covered, Open
<1>6. PICK req1, req2, req3, req4, c1, c2, c3, c4 :
         /\ req1 = MuteOf(mute.uid) /\ c1 = mute.counter
         /\ req2 = Branch /\ c2 = discovery.counter /\ c3 = quickBranch.counter
         /\ req3 = MuteOf(quickFind.uid)
         /\ req4 = MuteOf(discovery.lower) /\ c4 = single.counter
  OBVIOUS
<1>7. /\ (MuteOf(mute.uid))' = req1 /\ mute'.counter = c1
      /\ Branch' = req2 /\ discovery'.counter = c2 /\ quickBranch'.counter = c3
      /\ (MuteOf(quickFind.uid))' = req3
      /\ (MuteOf(discovery.lower))' = req4 /\ single'.counter = c4
  BY <1>1, <1>2, <1>6 DEF MuteOf
<1>8. /\ Awaiting(req1, c1) => (Awaiting(req1, c1))'
      /\ Awaiting(req2, c2) => (Awaiting(req2, c2))'
      /\ Awaiting(req2, c3) => (Awaiting(req2, c3))'
      /\ Hearing(req3) => (Hearing(req3))'
      /\ Awaiting(req4, c4) => (Awaiting(req4, c4))'
  BY DeliverFacts
<1>9. UnmutePhase => UnmutePhase'
  BY <1>1 DEF UnmutePhase, WholeRange, Enough, Quiet
<1>10. MutePhase => MutePhase'
  BY <1>1, <1>3, <1>6, <1>7, <1>8 DEF MutePhase, WholeRange
<1>11. DiscoveryPhase => DiscoveryPhase'
  BY <1>1, <1>6, <1>7, <1>8 DEF DiscoveryPhase
<1>12. QuickFindPhase => QuickFindPhase'
  BY <1>1, <1>6, <1>7, <1>8 DEF QuickFindPhase
<1>13. QuickBranchPhase => QuickBranchPhase'
  BY <1>1, <1>6, <1>7, <1>8 DEF QuickBranchPhase
<1>14. SinglePhase => SinglePhase'
  BY <1>1, <1>6, <1>7, <1>8 DEF SinglePhase
<1>15. ~DubPhase /\ ~FinishedPhase
  BY <1>1 DEF DubPhase, FinishedPhase
<1>16. Phase => Phase'
  BY <1>2, <1>4, <1>5, <1>9, <1>10, <1>11, <1>12, <1>13, <1>14, <1>15 DEF Phase, Searching
<1>17. Spare => Spare'
  BY <1>1, <1>2 DEF Spare, Enough
<1>18. Complete => Complete'
  BY <1>1, <1>3 DEF Complete
<1> QED
  BY <1>1, <1>2, <1>16, <1>17, <1>18 DEF CompleteInv

LEMMA CompleteOthers ==
    ASSUME Punctual, IInv, CompleteInv,
           LateResponse \/ Finish \/ Stop \/ IsFinished \/ Replug \/ UNCHANGED vars
    PROVE  CompleteInv'
<1>1. CASE LateResponse
  <2>1. /\ state = "LateResponse" /\ ReceiveOnly /\ Where' = Where
        /\ UNCHANGED <<isFinished, doIncremental, tod, response, unmute, mute, discovery,
                       single, quickFind, quickBranch, present>>
        /\ state' = savedState \/ (Received /\ state' = state)
    BY <1>1, WhereOther DEF LateResponse
  <2>2. UNCHANGED <<message, wire, muted, lost>> /\ rx' = Drained
    BY <2>1 DEF ReceiveOnly
  <2>3. ~isFinished /\ lost <= MaxLost
    BY <2>1 DEF CompleteInv
  <2>4. CASE Where = "Idle"
    BY <2>1, <2>2, <2>3, <2>4 DEF CompleteInv
  <2>5. CASE Where # "Idle"
    <3>1. Quiet /\ Spare /\ Phase
      BY <2>1, <2>5 DEF CompleteInv
    <3>2. rx' = rx
      BY <2>2, <3>1, CompleteTypes DEF Drained, Quiet
    <3>3. Spare' /\ Phase' /\ Quiet'
      BY <2>1, <2>2, <3>1, <3>2, PhaseStays DEF line
    <3> QED
      BY <2>1, <2>2, <2>3, <3>3 DEF CompleteInv
  <2> QED
    BY <2>4, <2>5
<1>2. CASE Finish
  <2>1. /\ Where = "Finished" /\ Where' = "Idle" /\ state' = "Idle"
        /\ UNCHANGED <<tod, present, line>>
    BY <1>2, WhereOther DEF Finish, NewState
  <2>2. Complete
    BY <2>1, FinishedComplete
  <2>3. Complete'
    BY <2>1, <2>2 DEF Complete, Full, Uids
  <2> QED
    BY <2>1, <2>3 DEF CompleteInv, line
<1>3. CASE Stop
  <2>1. Where' = "Idle" /\ ~isFinished' /\ UNCHANGED line
    BY <1>3, WhereOther DEF Stop
  <2> QED
    BY <2>1 DEF CompleteInv, line
<1>4. CASE IsFinished
  <2>1. state' = state /\ ~isFinished' /\ state = "Idle" /\ Where = "Idle" /\ Where' = "Idle"
        /\ UNCHANGED line
    BY <1>4 DEF IsFinished, Where
  <2> QED
    BY <2>1 DEF CompleteInv, line
<1>5. CASE Replug
  <2>1. state = "Idle" /\ ~isFinished /\ UNCHANGED <<state, isFinished, lost>>
    BY <1>5 DEF Replug, machine, Punctual
  <2> QED
    BY <2>1 DEF CompleteInv, Where
<1>6. CASE UNCHANGED vars
  <2>1. /\ UNCHANGED <<state, isFinished, doIncremental, tod, response, unmute, mute,
                       discovery, single, quickFind, quickBranch, line, present>>
        /\ Where' = Where
    BY <1>6 DEF vars, machine, Where
  <2>2. lost' = lost
    BY <2>1 DEF line
  <2> QED
    BY <2>1, <2>2, PhaseStays DEF CompleteInv
<1> QED
  BY <1>1, <1>2, <1>3, <1>4, <1>5, <1>6

LEMMA CompleteInvariant ==
    ASSUME Punctual
    PROVE  Spec => []CompleteInv
<1>1. Init => CompleteInv
  BY DiscoveryAssumption DEF Init, CompleteInv, Where
<1>2. IInv /\ CompleteInv /\ [Next]_vars => CompleteInv'
  <2> SUFFICES ASSUME IInv, CompleteInv, [Next]_vars PROVE CompleteInv'
    OBVIOUS
  <2>1. ASSUME NEW incremental \in BOOLEAN, Start(incremental) PROVE CompleteInv'
    BY <2>1, CompleteStart
  <2>2. CASE Process
    BY <2>2, CompleteUnmuting, CompleteMuting, CompleteBranching, CompleteSingleDevice,
       CompleteQuickFind, CompleteQuickBranch, CompleteOthers DEF Process
  <2> QED
    BY <2>1, <2>2, CompleteDeliver, CompleteOthers DEF Next
<1> QED
  BY <1>1, <1>2, Invariant, PTL DEF Spec

\* On a line that is punctual and loses fewer messages than each request is
\* tried, a discovery that finishes lists exactly the devices of the line, or
\* the table is full of them: the search of kDiscovery and kDub with its detours
\* through kQuickfind and kSingleDevice, and the probe of kMute in front of it.
THEOREM AlwaysCompleteAtFinish ==
    ASSUME Punctual
    PROVE  Spec => []CompleteAtFinish
<1>1. IInv /\ CompleteInv => CompleteAtFinish
  <2> SUFFICES ASSUME IInv, CompleteInv,
                      isFinished \/ state = "Finished", state \in {"Idle", "Finished"}
               PROVE  Complete
    BY CompleteTypes DEF CompleteAtFinish, Complete, Full
  <2>1. CASE state = "Finished"
    BY <2>1, FinishedComplete DEF Where
  <2>2. CASE state # "Finished"
    BY <2>2 DEF CompleteInv
  <2> QED
    BY <2>1, <2>2
<1> QED
  BY <1>1, Invariant, CompleteInvariant, PTL

(***************************************************************************)
(* The discovery of one port implements DiscoveryPromise.                  *)
(***************************************************************************)
\* A table without duplicates lists as many devices as it has entries.
LEMMA UidsCounted ==
    ASSUME NEW U, NEW list \in Seq(U), NoDuplicates(list)
    PROVE  Cardinality(Uids(list)) = Len(list)
<1> DEFINE A == 1..Len(list)
           f == [i \in A |-> list[i]]
           B == Uids(list)
<1>1. Len(list) \in Nat /\ IsFiniteSet(A) /\ Cardinality(A) = Len(list)
  <2>1. Len(list) \in Nat
    OBVIOUS
  <2> DEFINE n == Len(list)
  <2>2. n \in Nat
    BY <2>1
  <2> HIDE DEF n
  <2>3. IsFiniteSet(1..n) /\ Cardinality(1..n) = IF 1 > n THEN 0 ELSE n - 1 + 1
    BY <2>2, FS_Interval
  <2> QED
    BY <2>2, <2>3 DEF n
<1>2. \A i \in A : list[i] \in B
  BY DEF Uids
<1>3. \A b \in B : \E i \in A : list[i] = b
  BY DEF Uids
<1>4. \A i, j \in A : list[i] = list[j] => i = j
  BY DEF NoDuplicates
<1> HIDE DEF A, B
<1>5. f \in [A -> B]
  BY <1>2
<1>6. \A i \in A : f[i] = list[i]
  OBVIOUS
<1> HIDE DEF f
<1>7. f \in Bijection(A, B)
  BY <1>3, <1>4, <1>5, <1>6 DEF Bijection, Injection, Surjection, IsInjective
<1>8. Cardinality(A) = Cardinality(B)
  BY <1>1, <1>7, FS_Bijection DEF ExistsBijection
<1> QED
  BY <1>1, <1>8 DEF B

\* Delete() of an entry of a table without duplicates takes exactly that device.
LEMMA DeleteTakes ==
    ASSUME NEW U, NEW list \in Seq(U), NoDuplicates(list), NEW k \in 1..Len(list)
    PROVE  Uids(Delete(list, list[k])) = Uids(list) \ {list[k]}
<1> DEFINE new == Delete(list, list[k])
           n == Len(list)
<1>1. /\ Uids(new) \subseteq Uids(list) /\ Uids(list) \ {list[k]} \subseteq Uids(new)
  BY DeleteFacts
<1>2. /\ Len(new) = n - 1
      /\ \A j \in 1..(n - 1) : new[j] = IF j < k THEN list[j] ELSE list[j + 1]
  BY DeleteAt
<1>3. n \in Nat
  OBVIOUS
<1> HIDE DEF new
<1>4. ASSUME NEW j \in 1..Len(new) PROVE new[j] # list[k]
  <2>1. j \in 1..(n - 1) /\ j \in 1..n /\ j + 1 \in 1..n /\ j + 1 # j
    BY <1>2, <1>3, <1>4
  <2>2. CASE j < k
    <3>1. j # k /\ new[j] = list[j]
      BY <1>2, <2>1, <2>2
    <3> QED
      BY <2>1, <3>1 DEF NoDuplicates
  <2>3. CASE ~(j < k)
    <3>1. j + 1 # k /\ new[j] = list[j + 1]
      BY <1>2, <2>1, <2>3
    <3> QED
      BY <2>1, <3>1 DEF NoDuplicates
  <2> QED
    BY <2>2, <2>3
<1>5. list[k] \notin Uids(new)
  BY <1>4 DEF Uids
<1> QED
  BY <1>1, <1>5 DEF new

\* The table never has more entries than there is room for.
Fits == Len(tod) <= TableSize

\* The device that is deleted has left the line, and the one that is added is
\* on it.
LEMMA GoneFacts ==
    ASSUME Punctual, IInv, CompleteInv, MuteGone
    PROVE  /\ doIncremental /\ mute.uid \notin present
           /\ mute.entries \in 1..Len(tod) /\ tod[mute.entries] = mute.uid
<1>0. /\ lost \in Nat /\ MaxLost \in Nat /\ Len(tod) \in Nat
      /\ mute.entries \in Nat /\ mute.counter \in Nat
  BY CompleteTypes
<1>1. Where = "Mute" /\ mute.entries # 0 /\ mute.counter = 0
  BY WhereUnmuting DEF MuteGone
<1>2. lost <= MaxLost /\ MutePhase
  BY <1>1 DEF CompleteInv, Phase
<1>3. ~Enough(mute.counter)
  BY <1>0, <1>1, <1>2 DEF Enough
<1>4. Awaiting(MuteOf(mute.uid), mute.counter)
  BY <1>2, <1>3 DEF MutePhase
<1>5. ~Due(MuteOf(mute.uid))
  BY <1>0, <1>1, <1>2, <1>4, AwaitFacts
<1>6. mute.uid \notin present
  BY <1>5 DEF Due, MuteOf
<1>7. mute.entries <= Len(tod) /\ tod[mute.entries] = mute.uid
  BY <1>1 DEF IInv, TableOK
<1> QED
  BY <1>0, <1>1, <1>2, <1>6, <1>7 DEF MutePhase

LEMMA FoundFacts ==
    ASSUME Punctual, IInv, CompleteInv, SingleReceive \/ QuickFindReceive
    PROVE  \E uid \in Uid : uid \in present /\ tod' = AddUid(tod, uid)
<1>0. /\ lost \in Nat /\ MaxLost \in Nat /\ lost <= MaxLost
      /\ single.counter \in Nat /\ discovery.lower \in Uid /\ quickFind.uid \in Uid
  BY CompleteTypes DEF CompleteInv
<1>1. CASE SingleReceive
  <2>1. Where = "SingleDevice" /\ single.running /\ Received
    BY <1>1, WhereFinding DEF SingleDevice, SingleReceive
  <2>2. SinglePhase
    BY <2>1 DEF CompleteInv, Phase
  <2>3. Proper(MuteOf(discovery.lower), rx.frame)
    BY <1>0, <2>1, <2>2, AwaitFacts DEF SinglePhase
  <2>4. SingleAcknowledged /\ discovery.lower \in present
    BY <2>3 DEF Proper, MuteOf, SingleAcknowledged
  <2>5. tod' = AddUid(tod, discovery.lower)
    BY <1>1, <2>4 DEF SingleReceive
  <2> QED
    BY <1>0, <2>4, <2>5
<1>2. CASE QuickFindReceive
  <2>1. Where = "QuickFind" /\ quickFind.running /\ Received
    BY <1>2, WhereFinding DEF QuickFind, QuickFindReceive
  <2>2. QuickFindPhase
    BY <2>1 DEF CompleteInv, Phase
  <2>3. Proper(MuteOf(quickFind.uid), rx.frame)
    BY <2>1, <2>2 DEF QuickFindPhase, Hearing, Received
  <2>4. rx.frame = [kind |-> "mute", uid |-> quickFind.uid]
    BY <2>3 DEF Proper, MuteOf
  <2>5. tod' = AddUid(tod, quickFind.uid)
    BY <1>2, <2>4 DEF QuickFindReceive
  <2> QED
    BY <1>0, <2>2, <2>5 DEF QuickFindPhase
<1> QED
  BY <1>1, <1>2

\* The steps that take the table as it is.
TableStays ==
    \/ Unmuting \/ MuteDone \/ MuteSend \/ MuteReceive \/ MuteTimeout \/ Branching
    \/ SingleGiveUp \/ SingleSend \/ SingleTimeout \/ QuickFindSend \/ QuickFindTimeout
    \/ QuickFindDiscovery

LEMMA TableStaysFacts ==
    ASSUME IInv, TableStays
    PROVE  UNCHANGED <<tod, doIncremental, present>> /\ state # "Idle" /\ state' # "Idle"
<1>1. UNCHANGED <<tod, doIncremental, present>>
  <2>1. CASE Unmuting \/ MuteDone \/ MuteSend \/ MuteReceive \/ MuteTimeout
    BY <2>1 DEF Unmuting, UnmuteDone, UnmuteSend, UnmuteWait, MuteDone, MuteSend,
                MuteReceive, MuteTimeout
  <2>2. CASE Branching
    BY <2>2 DEF Branching, BranchReceive, BranchTimeout, SearchDone, PopSingle, PopBranch,
                DubSilent, DubValid, DubSplit
  <2>3. CASE SingleGiveUp \/ SingleSend \/ SingleTimeout \/ QuickFindSend \/ QuickFindTimeout
    BY <2>3 DEF SingleGiveUp, SingleSend, SingleTimeout, QuickFindSend, QuickFindTimeout
  <2>4. CASE QuickFindDiscovery
    BY <2>4 DEF QuickFindDiscovery, QuickBranchGiveUp, QuickBranchSend, QuickBranchReceive,
                QuickBranchTimeout
  <2> QED
    BY <2>1, <2>2, <2>3, <2>4 DEF TableStays
<1>2. Where # "Idle" /\ Where' # "Idle"
  <2>1. CASE Unmuting \/ MuteDone \/ MuteSend \/ MuteReceive \/ MuteTimeout
    BY <2>1, WhereUnmuting DEF Unmuting
  <2>2. CASE Branching
    BY <2>2, WhereBranching DEF Branching
  <2>3. CASE SingleGiveUp \/ SingleSend \/ SingleTimeout
    BY <2>3, WhereFinding DEF SingleDevice
  <2>4. CASE QuickFindSend \/ QuickFindTimeout
    BY <2>4, WhereFinding DEF QuickFind
  <2>5. CASE QuickFindDiscovery
    BY <2>5, WhereFinding DEF QuickFindDiscovery
  <2> QED
    BY <2>1, <2>2, <2>3, <2>4, <2>5 DEF TableStays
<1>3. state # "Idle" /\ state' # "Idle"
  BY <1>2 DEF Where
<1> QED
  BY <1>1, <1>3

LEMMA FitsStays ==
    ASSUME Punctual, IInv, CompleteInv, Fits, [Next]_vars
    PROVE  Fits'
<1>0. tod \in Seq(Uid) /\ Len(tod) \in Nat /\ TableSize \in Nat /\ NoDuplicates(tod)
  BY CompleteTypes, TableSizeAssumption DEF IInv, TableOK
<1>1. CASE tod' = tod
  BY <1>1 DEF Fits
<1>2. ASSUME NEW incremental \in BOOLEAN, Start(incremental) PROVE Fits'
  <2>1. tod' = tod \/ tod' = << >>
    BY <1>2 DEF Start, TodAtStart, EmptyTod
  <2>2. CASE tod' = << >>
    BY <1>0, <2>2 DEF Fits
  <2> QED
    BY <1>1, <2>1, <2>2
<1>3. CASE MuteGone
  <2>1. Len(tod') = Len(tod) - 1
    <3>1. tod' = Delete(tod, tod[mute.entries])
      BY <1>3, GoneFacts DEF MuteGone
    <3> QED
      BY <1>0, <1>3, <3>1, GoneFacts, DeleteAt
  <2> QED
    BY <1>0, <2>1 DEF Fits
<1>4. CASE SingleReceive \/ QuickFindReceive
  <2>1. PICK uid \in Uid : tod' = AddUid(tod, uid)
    BY <1>4, FoundFacts
  <2>2. CASE Len(tod) # TableSize
    <3>1. Len(tod') = Len(tod) \/ Len(tod') = Len(tod) + 1
      BY <1>0, <2>1 DEF AddUid
    <3> QED
      BY <1>0, <2>2, <3>1 DEF Fits
  <2>3. CASE Len(tod) = TableSize
    BY <1>1, <2>1, <2>3 DEF AddUid
  <2> QED
    BY <2>2, <2>3
<1>5. CASE TableStays
  BY <1>1, <1>5, TableStaysFacts
<1>6. CASE LateResponse \/ Finish \/ Stop \/ IsFinished \/ Deliver \/ Replug \/ UNCHANGED vars
  BY <1>1, <1>6 DEF LateResponse, Finish, Stop, IsFinished, Deliver, Replug, vars, machine
<1> QED
  BY <1>2, <1>3, <1>4, <1>5, <1>6
  DEF Next, Process, Muting, SingleDevice, QuickFind, TableStays

\* The promise counts as this module counts.
LEMMA PromiseCounts == \A S : Promise!Cardinality(S) = Cardinality(S)
BY DEF Promise!Cardinality, Cardinality

LEMMA PromiseStep ==
    ASSUME Punctual, IInv, CompleteInv, Fits, [Next]_vars
    PROVE  [Promise!Next]_(Promise!vars)
<1>0. /\ tod \in Seq(Uid) /\ Len(tod) \in Nat /\ TableSize \in Nat /\ NoDuplicates(tod)
      /\ isFinished \in BOOLEAN /\ doIncremental \in BOOLEAN
      /\ isFinished => state = "Idle"
  BY CompleteTypes, TableSizeAssumption DEF IInv, TableOK, CompleteInv
<1>1. Cardinality(Uids(tod)) = Len(tod)
  BY <1>0, UidsCounted
<1>2. ASSUME tod' = tod PROVE (Uids(tod))' = Uids(tod)
  BY <1>2 DEF Uids
<1>3. ASSUME UNCHANGED <<tod, doIncremental, present>>, state # "Idle", state' # "Idle"
      PROVE  UNCHANGED Promise!vars
  BY <1>2, <1>3 DEF Promise!vars
<1>4. ASSUME NEW incremental \in BOOLEAN, Start(incremental) PROVE Promise!Begin
  <2>1. /\ state = "Idle" /\ ~isFinished /\ state' = "Unmute"
        /\ doIncremental' = incremental /\ present' = present
        /\ tod' = IF incremental THEN tod ELSE EmptyTod
    BY <1>4 DEF Start, NewState, TodAtStart
  <2>2. CASE incremental
    BY <1>2, <2>1, <2>2 DEF Promise!Begin
  <2>3. CASE ~incremental
    <3>1. (Uids(tod))' = {}
      BY <2>1, <2>3 DEF Uids, EmptyTod
    <3> QED
      BY <2>1, <2>3, <3>1 DEF Promise!Begin
  <2> QED
    BY <2>2, <2>3
<1>5. CASE Stop \/ LateResponse
  <2>1. UNCHANGED <<tod, doIncremental, present>> /\ state # "Idle"
    BY <1>5 DEF Stop, LateResponse
  <2>2. ~isFinished'
    BY <1>0, <1>5, <2>1 DEF Stop, LateResponse
  <2>3. CASE state' # "Idle"
    BY <1>3, <2>1, <2>3
  <2>4. CASE state' = "Idle"
    BY <1>2, <2>1, <2>2, <2>4 DEF Promise!Next, Promise!Abandon
  <2> QED
    BY <2>3, <2>4
<1>6. CASE IsFinished
  BY <1>2, <1>6 DEF IsFinished, Promise!Next, Promise!Collect
<1>7. CASE Finish
  <2>1. /\ state = "Finished" /\ state' = "Idle" /\ isFinished'
        /\ UNCHANGED <<tod, doIncremental, present>>
    BY <1>7 DEF Finish, NewState
  <2>2. Complete
    BY <2>1, FinishedComplete DEF Where
  <2>3. Promise!Complete
    BY <1>1, <2>2, PromiseCounts DEF Complete, Full, Promise!Complete
  <2> QED
    BY <1>2, <2>1, <2>3 DEF Promise!Next, Promise!Finish
<1>8. CASE MuteGone
  <2>1. /\ doIncremental /\ mute.uid \notin present
        /\ mute.entries \in 1..Len(tod) /\ tod[mute.entries] = mute.uid
    BY <1>8, GoneFacts
  <2>2. /\ state = "Mute" /\ state' = "Mute" /\ tod' = Delete(tod, mute.uid)
        /\ UNCHANGED <<doIncremental, present>>
    BY <1>8 DEF MuteGone
  <2>3. (Uids(tod))' = Uids(tod) \ {mute.uid}
    <3>1. Uids(Delete(tod, tod[mute.entries])) = Uids(tod) \ {tod[mute.entries]}
      BY <1>0, <2>1, DeleteTakes
    <3> QED
      BY <2>1, <2>2, <3>1 DEF Uids
  <2>4. mute.uid \in Uids(tod)
    BY <2>1 DEF Uids
  <2> QED
    BY <2>1, <2>2, <2>3, <2>4 DEF Promise!Next, Promise!Forget
<1>9. CASE SingleReceive \/ QuickFindReceive
  <2>1. PICK uid \in Uid : uid \in present /\ tod' = AddUid(tod, uid)
    BY <1>9, FoundFacts
  <2>2. UNCHANGED <<doIncremental, present>> /\ state # "Idle"
    BY <1>9 DEF SingleReceive, QuickFindReceive
  <2>3. state' # "Idle"
    <3>1. Where' # "Idle"
      BY <1>9, WhereFinding
    <3> QED
      BY <3>1 DEF Where
  <2>4. CASE Len(tod) = TableSize \/ Exist(tod, uid)
    <3>1. tod' = tod
      BY <2>1, <2>4 DEF AddUid
    <3> QED
      BY <1>3, <2>2, <2>3, <3>1
  <2>5. CASE Len(tod) # TableSize /\ ~Exist(tod, uid)
    <3> DEFINE new == Append(tod, uid)
    <3>1. tod' = new /\ uid \notin Uids(tod)
      BY <2>1, <2>5 DEF AddUid, Exist, Uids
    <3>2. /\ Len(new) = Len(tod) + 1 /\ new[Len(tod) + 1] = uid
          /\ \A i \in 1..Len(tod) : new[i] = tod[i]
      BY <1>0
    <3> HIDE DEF new
    <3>3. \A i \in 1..Len(new) : i \in 1..Len(tod) \/ i = Len(tod) + 1
      BY <1>0, <3>2
    <3>4. \A i \in 1..Len(tod) : i \in 1..Len(new)
      BY <1>0, <3>2
    <3>5. Len(tod) + 1 \in 1..Len(new)
      BY <1>0, <3>2
    <3>6. Uids(new) = Uids(tod) \cup {uid}
      BY <3>2, <3>3, <3>4, <3>5 DEF Uids
    <3>7. (Uids(tod))' = Uids(tod) \cup {uid}
      BY <3>1, <3>6 DEF Uids
    <3>8. Cardinality(Uids(tod)) < TableSize
      BY <1>0, <1>1, <2>5 DEF Fits
    <3> QED
      BY <2>1, <2>2, <2>3, <3>1, <3>7, <3>8, PromiseCounts DEF Promise!Next, Promise!Learn
  <2> QED
    BY <2>4, <2>5
<1>10. CASE TableStays
  BY <1>3, <1>10, TableStaysFacts
<1>11. CASE Replug
  <2>1. /\ state = "Idle" /\ ~isFinished /\ state' = "Idle" /\ ~isFinished'
        /\ present' \in SUBSET Devices /\ UNCHANGED <<tod, doIncremental>>
    BY <1>11 DEF Replug, machine, Punctual
  <2> QED
    BY <1>2, <2>1 DEF Promise!Next, Promise!Change
<1>12. CASE Deliver \/ UNCHANGED vars
  <2>1. UNCHANGED <<state, isFinished, tod, doIncremental, present>>
    BY <1>12 DEF Deliver, vars, machine
  <2> QED
    BY <1>2, <2>1 DEF Promise!vars
<1> QED
  BY <1>4, <1>5, <1>6, <1>7, <1>8, <1>9, <1>10, <1>11, <1>12
  DEF Next, Process, Muting, SingleDevice, QuickFind, TableStays, Promise!Next

\* On a line that is punctual and loses fewer messages than each request is
\* tried, every step of the protocol is a step of DiscoveryPromise or leaves it
\* alone: a run forgets only devices that left, lists only devices that are
\* there, one at a time, and reports an end only with a complete table.
THEOREM DiscoveryKeepsPromise ==
    ASSUME Punctual
    PROVE  Spec => ImplementsPromise
<1>1. Init => Promise!Init
  <2> SUFFICES ASSUME Init PROVE Promise!Init
    OBVIOUS
  <2>1. Uids(tod) = {}
    BY DEF Init, EmptyTod, Uids
  <2> QED
    BY <2>1 DEF Init, Promise!Init
<1>2. Init => Fits
  BY TableSizeAssumption DEF Init, Fits, EmptyTod
<1>3. IInv /\ CompleteInv /\ Fits /\ [Next]_vars => Fits'
  BY FitsStays
<1>4. IInv /\ CompleteInv /\ Fits /\ [Next]_vars => [Promise!Next]_(Promise!vars)
  BY PromiseStep
<1> QED
  BY <1>1, <1>2, <1>3, <1>4, Invariant, CompleteInvariant, PTL
  DEF Spec, ImplementsPromise, Promise!Spec
=============================================================================
