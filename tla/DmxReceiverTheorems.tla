------------------------ MODULE DmxReceiverTheorems ------------------------
(***************************************************************************)
(* The safety of the receiver, for buffers, messages and frames of any     *)
(* length, senders that stop anywhere, and any number of interrupts.       *)
(***************************************************************************)
EXTENDS DmxReceiverProperties, Integers, TLAPS

Message == {"rdm", "sumh", "suml"}

Types ==
    /\ state \in {"idle", "break", "data", "disc"} \cup Message
    /\ dmx \in [data : [0..MaxSlots -> Bytes], slots : Int, done : BOOLEAN]
    /\ rdm \in [data : [0..(RdmSize - 1) -> Bytes], index : 0..(RdmSize + 1), done : BOOLEAN]
    /\ enabled \in BOOLEAN /\ quiet \in BOOLEAN /\ raced \in BOOLEAN
    /\ line \in [frame : AnyFrame \cup {Idle}, pos : Nat]
    /\ line.pos <= Slots(line.frame)
    /\ pc \in {"main", "dmxStore", "dmxCopy", "rdmClear", "rdmCheck"}
    /\ taken \in 0..Interrupts /\ delivered \subseteq 1..Frames /\ loaded \in Int

\* There is room for what comes next, but for the one byte behind a message
\* without end, and a buffer that is being filled has no flag.
FillOK ==
    /\ state = "rdm" => rdm.index <= RdmSize
    /\ state = "sumh" => rdm.index + 2 <= RdmSize
    /\ state = "suml" => rdm.index + 1 <= RdmSize
    /\ state = "data" => ~dmx.done
    /\ state \in Message => ~rdm.done

\* What was received is not newer than the frame on the line, and a break is
\* followed by the start code of the frame it began.
LineOK ==
    /\ dmx.data[0][1].id <= line.frame.id
    /\ rdm.data[0][1].id <= line.frame.id
    /\ line.pos # 0 => line.frame # Idle
    /\ enabled /\ state = "break" => line.pos = 1

\* As long as no interrupt came in the middle of a call: the length belongs to
\* the data, and a call works on a buffer that nobody fills.
CallOK == ~raced =>
    /\ dmx.slots \in 0..(MaxSlots + 1) /\ loaded \in 0..(MaxSlots + 1)
    /\ state = "data" => dmx.slots \in 1..MaxSlots
    /\ dmx.done => dmx.slots >= 1
    /\ pc = "dmxStore" => loaded = dmx.slots /\ dmx.done
    /\ pc \in {"dmxStore", "dmxCopy"} => state # "data"
    /\ pc = "rdmClear" => state \notin Message
    /\ state \in Message => rdm.index >= 1

DmxInStep == state = "data" /\ dmx.data[0] = <<line.frame, 0>> /\ line.pos # 0 =>
    /\ dmx.slots = line.pos - 1
    /\ \A i \in 0..(dmx.slots - 1) : dmx.data[i] = <<line.frame, i>>

RdmInStep == state \in Message /\ rdm.data[0] = <<line.frame, 0>> /\ line.pos # 0 =>
    /\ rdm.index = line.pos - 1
    /\ \A i \in 0..(rdm.index - 1) : rdm.data[i] = <<line.frame, i>>

StepOK == ~raced /\ enabled => DmxInStep /\ RdmInStep

\* The first n slots received are those of one packet, and no more than it has.
Packet(n) == n \in 1..(MaxSlots + 1) /\ n - 1 <= dmx.data[0][1].len /\ Whole(dmx.data, n)

\* Where the line goes idle between frames, a packet that is being received is
\* the frame on the line, and what is flagged is one packet.
PacketOK == IdleBetween /\ ~raced =>
    /\ enabled /\ state = "data" =>
          /\ ~quiet /\ dmx.data[0] = <<line.frame, 0>> /\ line.frame.kind = "dmx"
          /\ Packet(dmx.slots)
    /\ dmx.done => Packet(dmx.slots)
    /\ pc = "dmxCopy" => Packet(dmx.slots + 1)
    /\ WholePacket

ReceiverInv == Types /\ FillOK /\ LineOK /\ CallOK /\ StepOK /\ PacketOK

(***************************************************************************)
(* Frames and bytes.                                                       *)
(***************************************************************************)
LEMMA Sizes ==
    /\ MaxSlots \in Nat /\ MaxSlots >= 1 /\ RdmSize \in Nat /\ RdmSize >= 5
    /\ MinLength \in Nat /\ MinLength > 2 /\ DiscMax \in Nat /\ DiscMax >= 1 /\ DiscMax <= RdmSize
    /\ Frames \in Nat /\ Interrupts \in Nat
    /\ Lengths \subseteq 1..(RdmSize - 2)
BY ReceiverAssumption

LEMMA FrameFacts ==
    ASSUME NEW f \in AnyFrame
    PROVE  /\ Slots(f) \in 1..RdmSize /\ f.id \in 1..Frames /\ f # Idle
           /\ f.len \in Nat
           /\ \A i \in 0..(Slots(f) - 1) : <<f, i>> \in Bytes
<1>1. f.len \in 1..(RdmSize - 2) /\ f.id \in 1..Frames
  BY Sizes DEF AnyFrame
<1>2. Slots(f) \in 1..RdmSize
  BY <1>1, Sizes DEF Slots
<1>3. f # Idle
  BY <1>1, Sizes DEF Idle
<1>4. ASSUME NEW i \in 0..(Slots(f) - 1) PROVE <<f, i>> \in Bytes
  <2>1. i \in 0..(RdmSize + MaxSlots)
    BY <1>2, Sizes
  <2> QED
    BY <2>1 DEF Bytes
<1>5. f.len \in Nat
  BY <1>1, Sizes
<1> QED
  BY <1>1, <1>2, <1>3, <1>4, <1>5

LEMMA ByteFacts ==
    ASSUME NEW b \in Bytes
    PROVE  /\ b = <<b[1], b[2]>> /\ b[1] \in AnyFrame \cup {Idle} /\ b[1].id \in 0..Frames
           /\ Value(b) = SC => b[1] \in AnyFrame
<1>1. CASE b = Empty
  BY <1>1, Sizes DEF Empty, Idle, Value, SC, NSC
<1>2. CASE b # Empty
  <2>1. PICK f \in AnyFrame, i \in 0..(RdmSize + MaxSlots) : b = <<f, i>>
    BY <1>2 DEF Bytes
  <2> QED
    BY <2>1, FrameFacts
<1> QED
  BY <1>1, <1>2

\* With its checksum a message of that many bytes fits, or it is too long.
LEMMA ValueFits ==
    ASSUME NEW b \in Bytes, NEW n \in Nat, n = Value(b), n > 2, n <= RdmSize
    PROVE  n + 2 <= RdmSize
<1>1. CASE b[1].kind = "rdm" /\ b[2] = 2
  <2>1. b[1] # Idle
    BY <1>1 DEF Idle
  <2>2. b[1].len \in 1..(RdmSize - 2)
    BY <2>1, ByteFacts, Sizes DEF AnyFrame
  <2>3. Value(b) = b[1].len
    BY <1>1 DEF Value, SC, NSC
  <2> QED
    BY <2>2, <2>3, Sizes
<1>2. CASE ~(b[1].kind = "rdm" /\ b[2] = 2)
  <2>1. Value(b) \in {0, 1, 204}
    BY <1>2 DEF Value, SC, NSC
  <2> QED
    BY <2>1, Sizes, LengthAssumption DEF SC
<1> QED
  BY <1>1, <1>2

\* The byte that comes next.
LEMMA NextByte ==
    ASSUME Types, LineOK, line.pos # 0
    PROVE  /\ line.frame \in AnyFrame /\ line.pos \in 1..Slots(line.frame)
           /\ <<line.frame, line.pos - 1>> \in Bytes
           /\ line.frame.id \in 1..Frames
<1>1. line.frame \in AnyFrame
  BY DEF Types, LineOK
<1>2. line.pos \in 1..Slots(line.frame)
  BY <1>1, FrameFacts DEF Types
<1> QED
  BY <1>1, <1>2, FrameFacts

(***************************************************************************)
(* A byte.  What the state is when it comes, for each branch of the        *)
(* handler.                                                                *)
(***************************************************************************)
Coming == <<line.frame, line.pos - 1>>

LEMMA Parts ==
    ASSUME Types
    PROVE  /\ dmx.data \in [0..MaxSlots -> Bytes] /\ dmx.slots \in Int /\ dmx.done \in BOOLEAN
           /\ rdm.data \in [0..(RdmSize - 1) -> Bytes] /\ rdm.index \in 0..(RdmSize + 1)
           /\ rdm.done \in BOOLEAN
           /\ dmx = [data |-> dmx.data, slots |-> dmx.slots, done |-> dmx.done]
           /\ rdm = [data |-> rdm.data, index |-> rdm.index, done |-> rdm.done]
           /\ line = [frame |-> line.frame, pos |-> line.pos]
           /\ dmx.data[0] \in Bytes /\ rdm.data[0] \in Bytes
           /\ dmx.data[0][1].id \in Int /\ rdm.data[0][1].id \in Int /\ line.frame.id \in Int
<1>1. /\ dmx.data \in [0..MaxSlots -> Bytes] /\ rdm.data \in [0..(RdmSize - 1) -> Bytes]
      /\ dmx = [data |-> dmx.data, slots |-> dmx.slots, done |-> dmx.done]
      /\ rdm = [data |-> rdm.data, index |-> rdm.index, done |-> rdm.done]
      /\ line = [frame |-> line.frame, pos |-> line.pos]
  BY DEF Types
<1>2. dmx.data[0] \in Bytes /\ rdm.data[0] \in Bytes
  BY <1>1, Sizes
<1>3. dmx.data[0][1].id \in Int /\ rdm.data[0][1].id \in Int
  BY <1>2, ByteFacts
<1>4. line.frame.id \in Int
  BY FrameFacts DEF Types, Idle
<1> QED
  BY <1>1, <1>2, <1>3, <1>4 DEF Types

\* The handler got the byte, and nothing else moved but the line.
Received ==
    /\ line.pos # 0 /\ enabled /\ Byte(Coming)
    /\ line' = [line EXCEPT !.pos = IF @ = Slots(line.frame) THEN 0 ELSE @ + 1]
    /\ quiet' = FALSE /\ raced' = (raced \/ pc # "main") /\ taken' \in 0..Interrupts
    /\ UNCHANGED <<enabled, pc, loaded, got, delivered>>

LEMMA ReceivedFacts ==
    ASSUME ReceiverInv, Received
    PROVE  /\ line.frame \in AnyFrame /\ line.pos \in 1..Slots(line.frame)
           /\ Slots(line.frame) \in Nat
           /\ Coming \in Bytes /\ Coming[1] = line.frame /\ Coming[2] = line.pos - 1
           /\ line'.frame = line.frame
           /\ line'.pos = IF line.pos = Slots(line.frame) THEN 0 ELSE line.pos + 1
           /\ line' \in [frame : AnyFrame \cup {Idle}, pos : Nat]
           /\ line'.pos <= Slots(line'.frame)
<1>1. /\ line.frame \in AnyFrame /\ line.pos \in 1..Slots(line.frame) /\ Coming \in Bytes
  BY NextByte DEF ReceiverInv, Received, Coming
<1>2. Slots(line.frame) \in Nat
  BY <1>1, FrameFacts, Sizes
<1>3. /\ line'.frame = line.frame
      /\ line'.pos = IF line.pos = Slots(line.frame) THEN 0 ELSE line.pos + 1
      /\ line' = [frame |-> line'.frame, pos |-> line'.pos]
  BY Parts DEF Received, ReceiverInv
<1> QED
  BY <1>1, <1>2, <1>3 DEF Coming

LEMMA DmxSlotStep ==
    ASSUME ReceiverInv, Received, DmxSlot(Coming)
    PROVE  ReceiverInv'
<1> DEFINE n == dmx.slots + 1
<1>1. /\ dmx'.data = [dmx.data EXCEPT ![dmx.slots] = Coming] /\ dmx'.slots = n
      /\ dmx'.done = (n > MaxSlots)
      /\ dmx' = [data |-> dmx'.data, slots |-> dmx'.slots, done |-> dmx'.done]
      /\ state = "data" /\ state' = (IF n > MaxSlots THEN "idle" ELSE "data") /\ rdm' = rdm
  BY Parts DEF DmxSlot, Store, ReceiverInv
<1>2. /\ dmx'.data \in [0..MaxSlots -> Bytes]
      /\ \A j \in 0..MaxSlots : dmx'.data[j] = IF j = dmx.slots THEN Coming ELSE dmx.data[j]
  <2>1. /\ dmx.data \in [0..MaxSlots -> Bytes] /\ Coming \in Bytes /\ dmx.slots \in Int
    BY Parts, ReceivedFacts DEF ReceiverInv
  <2> QED
    BY <1>1, <2>1
<1>3. dmx'.done \in BOOLEAN
  <2>1. CASE n > MaxSlots
    BY <1>1, <2>1
  <2>2. CASE ~(n > MaxSlots)
    BY <1>1, <2>2
  <2> QED
    BY <2>1, <2>2
<1>4. dmx' \in [data : [0..MaxSlots -> Bytes], slots : Int, done : BOOLEAN]
  <2>1. dmx' = [data |-> dmx'.data, slots |-> dmx'.slots, done |-> dmx'.done]
    BY <1>1
  <2>2. dmx'.slots \in Int
    BY <1>1, Parts DEF ReceiverInv
  <2> QED
    BY <1>2, <1>3, <2>1, <2>2
<1>5. Types'
  BY <1>1, <1>4, ReceivedFacts DEF Types, Received, ReceiverInv
<1>6. FillOK'
  <2>1. state' = "data" => ~dmx'.done
    BY <1>1, Sizes, Parts DEF ReceiverInv
  <2> QED
    BY <1>1, <2>1 DEF FillOK, Message
<1>7. LineOK'
  <2>1. dmx'.data[0][1].id <= line.frame.id
    <3>1. dmx'.data[0] \in {Coming, dmx.data[0]}
      BY <1>2, Sizes
    <3> QED
      BY <3>1, ReceivedFacts, Parts DEF LineOK, ReceiverInv
  <2> QED
    BY <1>1, <2>1, ReceivedFacts DEF LineOK, ReceiverInv
<1>8. ASSUME raced' PROVE CallOK' /\ StepOK' /\ PacketOK'
  BY <1>8 DEF CallOK, StepOK, PacketOK
<1>9. ASSUME ~raced' PROVE CallOK' /\ StepOK' /\ PacketOK'
  <2>1. ~raced /\ pc = "main"
    BY <1>9 DEF Received
  <2>2. dmx.slots \in 1..MaxSlots
    BY <1>1, <2>1 DEF CallOK, ReceiverInv
  <2>3. CallOK'
    BY <1>1, <2>1, <2>2, Sizes DEF CallOK, ReceiverInv, Received, Message
  <2>4. dmx'.data[0] = dmx.data[0]
    BY <1>2, <2>2, Sizes
  <2>5. ASSUME dmx.data[0] = <<line.frame, 0>>
        PROVE  dmx.slots = line.pos - 1 /\ \A i \in 0..dmx.slots : dmx'.data[i] = <<line.frame, i>>
    <3>1. dmx.slots = line.pos - 1 /\ \A i \in 0..(dmx.slots - 1) : dmx.data[i] = <<line.frame, i>>
      BY <1>1, <2>1, <2>5 DEF ReceiverInv, StepOK, DmxInStep, Received
    <3> QED
      BY <1>2, <2>2, <3>1, Sizes DEF Coming
  <2>6. StepOK'
    <3>1. DmxInStep'
      BY <1>1, <2>2, <2>4, <2>5, ReceivedFacts DEF DmxInStep
    <3>2. RdmInStep'
      BY <1>1 DEF RdmInStep, Message
    <3> QED
      BY <3>1, <3>2 DEF StepOK
  <2>7. PacketOK'
    <3> SUFFICES ASSUME IdleBetween PROVE PacketOK'
      BY DEF PacketOK
    <3>1. dmx.data[0] = <<line.frame, 0>> /\ line.frame.kind = "dmx"
      BY <1>1, <2>1 DEF PacketOK, ReceiverInv, Received
    <3>2. line.pos - 1 <= line.frame.len
      <4>1. line.frame.len \in Nat
        BY ReceivedFacts, FrameFacts
      <4> QED
        BY <3>1, <4>1, ReceivedFacts DEF Slots
    <3>3. Packet(dmx.slots)'
      BY <1>1, <2>2, <2>4, <2>5, <3>1, <3>2, Sizes DEF Packet, Whole
    <3> QED
      BY <1>1, <2>1, <2>4, <3>1, <3>3, ReceivedFacts DEF PacketOK, Received, WholePacket, ReceiverInv
  <2> QED
    BY <2>3, <2>6, <2>7
<1> QED
  BY <1>5, <1>6, <1>7, <1>8, <1>9 DEF ReceiverInv

LEMMA FirstOfResponseStep ==
    ASSUME ReceiverInv, Received, FirstOfResponse(Coming)
    PROVE  ReceiverInv'
<1>1. /\ rdm' = [data |-> [rdm.data EXCEPT ![0] = Coming], index |-> 1, done |-> FALSE]
      /\ state' = "disc" /\ dmx' = dmx
  BY Parts DEF FirstOfResponse, Store, ReceiverInv
<1>2. /\ rdm'.data \in [0..(RdmSize - 1) -> Bytes] /\ rdm'.data[0] = Coming
  <2>1. rdm.data \in [0..(RdmSize - 1) -> Bytes] /\ Coming \in Bytes
    BY Parts, ReceivedFacts DEF ReceiverInv
  <2>0. 0 \in 0..(RdmSize - 1)
    BY Sizes
  <2>2. rdm'.data = [rdm.data EXCEPT ![0] = Coming]
    BY <1>1
  <2> QED
    BY <2>0, <2>1, <2>2
<1>3. Types'
  <2>1. rdm' \in [data : [0..(RdmSize - 1) -> Bytes], index : 0..(RdmSize + 1), done : BOOLEAN]
    BY <1>1, <1>2, Sizes
  <2> QED
    BY <1>1, <2>1, ReceivedFacts DEF Types, Received, ReceiverInv
<1>4. FillOK' /\ LineOK'
  BY <1>1, <1>2, ReceivedFacts, Parts DEF FillOK, LineOK, Message, ReceiverInv
<1>5. CallOK' /\ StepOK'
  BY <1>1 DEF CallOK, StepOK, DmxInStep, RdmInStep, Message, ReceiverInv, Received
<1>6. PacketOK'
  BY <1>1 DEF PacketOK, Packet, Whole, WholePacket, ReceiverInv, Received
<1> QED
  BY <1>3, <1>4, <1>5, <1>6 DEF ReceiverInv

LEMMA StartCodeStep ==
    ASSUME ReceiverInv, Received, StartCode(Coming)
    PROVE  ReceiverInv'
<1>0. state = "break" /\ line.pos = 1 /\ Coming = <<line.frame, 0>> /\ Coming[1] = line.frame
  BY ReceivedFacts DEF StartCode, LineOK, Received, ReceiverInv, Coming
<1>p. line'.pos # 0 => line'.pos = 2
  BY <1>0, ReceivedFacts
<1>b. ~raced' => ~raced /\ pc' = "main" /\ loaded' = loaded /\ loaded \in 0..(MaxSlots + 1)
                  /\ dmx.slots \in 0..(MaxSlots + 1)
  BY DEF Received, ReceiverInv, CallOK
<1>1. CASE state' = "data"
  <2>1. /\ dmx' = [data |-> [dmx.data EXCEPT ![0] = Coming], slots |-> 1, done |-> FALSE]
        /\ rdm' = rdm /\ Value(Coming) = NSC
    BY <1>1, Parts DEF StartCode, Store, FirstIndex, ReceiverInv
  <2>2. dmx'.data \in [0..MaxSlots -> Bytes] /\ dmx'.data[0] = Coming
    <3>1. dmx.data \in [0..MaxSlots -> Bytes] /\ Coming \in Bytes /\ 0 \in 0..MaxSlots
      BY Sizes, Parts, ReceivedFacts DEF ReceiverInv
    <3>2. dmx'.data = [dmx.data EXCEPT ![0] = Coming]
      BY <2>1
    <3> QED
      BY <3>1, <3>2
  <2>3. Types'
    <3>1. dmx' \in [data : [0..MaxSlots -> Bytes], slots : Int, done : BOOLEAN]
      BY <2>1, <2>2
    <3> QED
      BY <1>1, <2>1, <3>1, ReceivedFacts DEF Types, Received, ReceiverInv
  <2>4. FillOK' /\ LineOK'
    <3>1. FillOK'
      BY <1>1, <2>1 DEF FillOK, Message
    <3>2. /\ dmx'.data[0][1].id <= line'.frame.id /\ rdm'.data[0][1].id <= line'.frame.id
          /\ line'.frame # Idle
      BY <1>0, <2>1, <2>2, ReceivedFacts, FrameFacts, Parts DEF LineOK, ReceiverInv
    <3> QED
      BY <1>1, <3>1, <3>2 DEF LineOK
  <2>5. CallOK'
    BY <1>1, <2>1, <1>b, Sizes DEF CallOK, ReceiverInv, Received, Message
  <2>6. StepOK'
    <3>1. \A i \in 0..(dmx'.slots - 1) : dmx'.data[i] = <<line.frame, i>>
      BY <1>0, <2>1, <2>2
    <3> QED
      BY <1>1, <1>p, <2>1, <3>1, ReceivedFacts DEF StepOK, DmxInStep, RdmInStep, Message
  <2>7. PacketOK'
    <3>1. line.frame.kind = "dmx"
      <4>1. line.frame.kind \in FrameKinds
        BY ReceivedFacts DEF AnyFrame
      <4>2. line.frame.kind \in {"dmx", "rdm", "disc", "other"}
        BY <4>1, ReceiverAssumption
      <4> QED
        BY <1>0, <2>1, <4>2 DEF Value, NSC, SC
    <3>2. Packet(1)'
      <4>1. line.frame.len \in Nat
        BY ReceivedFacts, FrameFacts
      <4>2. \A i \in 0..(1 - 1) : i = 0
        OBVIOUS
      <4> QED
        BY <1>0, <2>2, <4>1, <4>2, Sizes DEF Packet, Whole
    <3> QED
      BY <1>0, <1>1, <2>1, <2>2, <3>1, <3>2, ReceivedFacts
      DEF PacketOK, Received, WholePacket, ReceiverInv, CallOK
  <2> QED
    BY <2>3, <2>4, <2>5, <2>6, <2>7 DEF ReceiverInv
<1>2. CASE state' = "rdm"
  <2>1. /\ rdm' = [data |-> [rdm.data EXCEPT ![0] = Coming], index |-> 1, done |-> FALSE]
        /\ dmx' = dmx
    BY <1>2, Parts DEF StartCode, Store, FirstIndex, ReceiverInv
  <2>2. rdm'.data \in [0..(RdmSize - 1) -> Bytes] /\ rdm'.data[0] = Coming
    <3>1. rdm.data \in [0..(RdmSize - 1) -> Bytes] /\ Coming \in Bytes /\ 0 \in 0..(RdmSize - 1)
      BY Sizes, Parts, ReceivedFacts DEF ReceiverInv
    <3>2. rdm'.data = [rdm.data EXCEPT ![0] = Coming]
      BY <2>1
    <3> QED
      BY <3>1, <3>2
  <2>3. Types'
    <3>1. rdm' \in [data : [0..(RdmSize - 1) -> Bytes], index : 0..(RdmSize + 1), done : BOOLEAN]
      BY <2>1, <2>2, Sizes
    <3> QED
      BY <1>2, <2>1, <3>1, ReceivedFacts DEF Types, Received, ReceiverInv, Message
  <2>4. FillOK' /\ LineOK'
    <3>1. FillOK'
      BY <1>2, <2>1, Sizes DEF FillOK, Message
    <3>2. /\ dmx'.data[0][1].id <= line'.frame.id /\ rdm'.data[0][1].id <= line'.frame.id
          /\ line'.frame # Idle
      BY <1>0, <2>1, <2>2, ReceivedFacts, FrameFacts, Parts DEF LineOK, ReceiverInv
    <3> QED
      BY <1>2, <3>1, <3>2 DEF LineOK, Message
  <2>5. CallOK'
    BY <1>2, <2>1, <1>b, Sizes DEF CallOK, ReceiverInv, Received, Message
  <2>6. StepOK'
    <3>1. \A i \in 0..(rdm'.index - 1) : rdm'.data[i] = <<line.frame, i>>
      BY <1>0, <2>1, <2>2
    <3> QED
      BY <1>2, <1>p, <2>1, <3>1, ReceivedFacts DEF StepOK, DmxInStep, RdmInStep, Message
  <2>7. PacketOK'
    BY <1>2, <2>1 DEF PacketOK, Packet, Whole, WholePacket, ReceiverInv, Received
  <2> QED
    BY <2>3, <2>4, <2>5, <2>6, <2>7 DEF ReceiverInv
<1>3. CASE state' = "idle"
  <2>1. /\ dmx' = [data |-> dmx.data, slots |-> 0, done |-> FALSE]
        /\ rdm' = [data |-> rdm.data, index |-> 0, done |-> FALSE]
    BY <1>3, Parts DEF StartCode, ReceiverInv
  <2>2. Types'
    <3>1. dmx' \in [data : [0..MaxSlots -> Bytes], slots : Int, done : BOOLEAN]
      BY <2>1, Parts DEF ReceiverInv
    <3>2. rdm' \in [data : [0..(RdmSize - 1) -> Bytes], index : 0..(RdmSize + 1), done : BOOLEAN]
      <4>1. rdm.data \in [0..(RdmSize - 1) -> Bytes]
        BY DEF Types, ReceiverInv
      <4>2. rdm' = [data |-> rdm.data, index |-> 0, done |-> FALSE]
        BY <2>1
      <4>3. 0 \in 0..(RdmSize + 1)
        BY Sizes
      <4> QED
        BY <4>1, <4>2, <4>3
    <3> QED
      BY <1>3, <3>1, <3>2, ReceivedFacts DEF Types, Received, ReceiverInv
  <2>3. FillOK' /\ LineOK'
    BY <1>3, <2>1, ReceivedFacts, Parts DEF FillOK, LineOK, Message, ReceiverInv
  <2>4. CallOK'
    BY <1>3, <2>1, <1>b, Sizes DEF CallOK, ReceiverInv, Received, Message
  <2>5. StepOK'
    BY <1>3 DEF StepOK, DmxInStep, RdmInStep, Message
  <2>6. PacketOK'
    BY <1>3, <2>1 DEF PacketOK, WholePacket, ReceiverInv, Received, CallOK
  <2> QED
    BY <2>2, <2>3, <2>4, <2>5, <2>6 DEF ReceiverInv
<1> QED
  BY <1>1, <1>2, <1>3 DEF StartCode

\* A slot of a message or of its checksum, stored and counted.
LEMMA MessageSlotStep ==
    ASSUME ReceiverInv, Received, state \in {"rdm", "sumh"},
           rdm' = [data |-> [rdm.data EXCEPT ![rdm.index] = Coming], index |-> rdm.index + 1,
                   done |-> rdm.done],
           state' \in {"idle"} \cup Message, state' = "rdm" => rdm.index + 1 <= RdmSize,
           state' = "sumh" => rdm.index + 3 <= RdmSize,
           state' = "suml" => rdm.index + 2 <= RdmSize,
           dmx' = dmx
    PROVE  ReceiverInv'
<1>1. rdm.index <= RdmSize /\ ~rdm.done /\ rdm.index \in Nat /\ rdm'.index = rdm.index + 1
  BY Parts, Sizes DEF ReceiverInv, FillOK, Message
<1>2. /\ rdm'.data \in [0..(RdmSize - 1) -> Bytes]
      /\ \A j \in 0..(RdmSize - 1) : rdm'.data[j] = IF j = rdm.index THEN Coming ELSE rdm.data[j]
  <2>1. rdm.data \in [0..(RdmSize - 1) -> Bytes] /\ Coming \in Bytes
    BY Parts, ReceivedFacts DEF ReceiverInv
  <2> QED
    BY <2>1
<1>3. Types'
  <2>1. rdm' \in [data : [0..(RdmSize - 1) -> Bytes], index : 0..(RdmSize + 1), done : BOOLEAN]
    <3>1. rdm.index + 1 \in 0..(RdmSize + 1)
      BY <1>1, Sizes
    <3>2. [rdm.data EXCEPT ![rdm.index] = Coming] \in [0..(RdmSize - 1) -> Bytes]
      BY <1>2
    <3>3. rdm.done \in BOOLEAN
      BY Parts DEF ReceiverInv
    <3> QED
      BY <3>1, <3>2, <3>3
  <2> QED
    BY <2>1, ReceivedFacts DEF Types, Received, ReceiverInv, Message
<1>4. FillOK'
  BY <1>1 DEF FillOK, Message
<1>5. LineOK'
  <2>1. rdm'.data[0][1].id <= line.frame.id
    <3>1. rdm'.data[0] \in {Coming, rdm.data[0]}
      BY <1>2, Sizes
    <3> QED
      BY <3>1, ReceivedFacts, Parts DEF LineOK, ReceiverInv
  <2> QED
    BY <2>1, ReceivedFacts DEF LineOK, ReceiverInv, Message
<1>6. ASSUME raced' PROVE CallOK' /\ StepOK'
  BY <1>6 DEF CallOK, StepOK
<1>7. ASSUME ~raced' PROVE CallOK' /\ StepOK'
  <2>1. ~raced /\ pc = "main"
    BY <1>7 DEF Received
  <2>2. rdm.index >= 1
    BY <2>1 DEF CallOK, ReceiverInv, Message
  <2>3. CallOK'
    BY <1>1, <2>1, <2>2 DEF CallOK, ReceiverInv, Received, Message
  <2>4. rdm'.data[0] = rdm.data[0]
    BY <1>2, <2>2, Sizes
  <2>5. ASSUME rdm.data[0] = <<line.frame, 0>>, state' \in Message
        PROVE  rdm.index = line.pos - 1 /\ \A i \in 0..rdm.index : rdm'.data[i] = <<line.frame, i>>
    <3>0. rdm.index + 1 <= RdmSize
      BY <1>1, <2>5, Sizes DEF Message
    <3>1. rdm.index = line.pos - 1 /\ \A i \in 0..(rdm.index - 1) : rdm.data[i] = <<line.frame, i>>
      BY <2>1, <2>5 DEF ReceiverInv, StepOK, RdmInStep, Received, Message
    <3> QED
      BY <1>1, <1>2, <3>0, <3>1, Sizes DEF Coming
  <2>6. RdmInStep'
    BY <1>1, <2>4, <2>5, ReceivedFacts DEF RdmInStep
  <2>7. DmxInStep'
    BY DEF DmxInStep, Message
  <2> QED
    BY <2>3, <2>6, <2>7 DEF StepOK
<1>8. PacketOK'
  BY DEF PacketOK, Packet, Whole, WholePacket, ReceiverInv, Received, Message
<1> QED
  BY <1>3, <1>4, <1>5, <1>6, <1>7, <1>8 DEF ReceiverInv

\* Behind the array nothing is stored.
LEMMA SpilledStep ==
    ASSUME Types, rdm' = [Spilled(rdm, rdm.index, Coming) EXCEPT !.index = @ + 1]
    PROVE  rdm' = [data |-> [rdm.data EXCEPT ![rdm.index] = Coming], index |-> rdm.index + 1,
                   done |-> rdm.done]
<1>1. CASE rdm.index = RdmSize
  <2>1. [rdm.data EXCEPT ![rdm.index] = Coming] = rdm.data
    <3>1. rdm.data \in [0..(RdmSize - 1) -> Bytes] /\ rdm.index \notin 0..(RdmSize - 1)
      BY <1>1, Parts, Sizes
    <3> QED
      BY <3>1
  <2> QED
    BY <1>1, <2>1, Parts DEF Spilled
<1>2. CASE rdm.index # RdmSize
  BY <1>2, Parts DEF Spilled, Store
<1> QED
  BY <1>1, <1>2

LEMMA RdmSlotStep ==
    ASSUME ReceiverInv, Received, RdmSlot(Coming)
    PROVE  ReceiverInv'
<1>1. /\ rdm' = [data |-> [rdm.data EXCEPT ![rdm.index] = Coming], index |-> rdm.index + 1,
                 done |-> rdm.done]
      /\ state = "rdm" /\ dmx' = dmx
  BY SpilledStep DEF RdmSlot, ReceiverInv
<1>2. /\ state' \in {"sumh", "idle", "rdm"} /\ (state' # "idle" => rdm.index + 1 <= RdmSize)
      /\ state' = "sumh" => rdm.index + 1 = Value(rdm'.data[2]) /\ rdm.index + 1 > 2
  <2> DEFINE n == rdm.index + 1
             v == Value(rdm'.data[2])
  <2>1. n \in Int /\ RdmSize \in Int /\ MinLength \in Int
    BY Parts, Sizes DEF ReceiverInv
  <2>2. state' = CASE n \in MinLength..RdmSize /\ n = v -> "sumh"
                   [] n > RdmSize -> "idle"
                   [] OTHER -> "rdm"
    BY <1>1 DEF RdmSlot, TooLong
  <2> HIDE DEF v
  <2>3. MinLength > 2
    BY Sizes
  <2>4. state' = "sumh" => n \in MinLength..RdmSize /\ n = v
    BY <2>1, <2>2
  <2> QED
    BY <2>1, <2>2, <2>3, <2>4 DEF v
<1>3. state' = "sumh" => rdm.index + 3 <= RdmSize
  <2> SUFFICES ASSUME state' = "sumh" PROVE rdm.index + 3 <= RdmSize
    OBVIOUS
  <2>1. rdm'.data[2] \in Bytes
    <3>1. rdm'.data = [rdm.data EXCEPT ![rdm.index] = Coming]
      BY <1>1
    <3>2. /\ rdm.data \in [0..(RdmSize - 1) -> Bytes] /\ Coming \in Bytes
          /\ 2 \in 0..(RdmSize - 1)
      BY Parts, ReceivedFacts, Sizes DEF ReceiverInv
    <3> QED
      BY <3>1, <3>2
  <2> QED
    BY <1>2, <2>1, ValueFits, Parts DEF ReceiverInv
<1> QED
  BY <1>1, <1>2, <1>3, MessageSlotStep DEF Message

LEMMA RdmChecksumStep ==
    ASSUME ReceiverInv, Received, RdmChecksum(Coming)
    PROVE  ReceiverInv'
<1>1. CASE state = "sumh"
  <2>1. /\ rdm' = [data |-> [rdm.data EXCEPT ![rdm.index] = Coming], index |-> rdm.index + 1,
                   done |-> rdm.done]
        /\ state' = "suml" /\ dmx' = dmx
    BY <1>1, Parts DEF RdmChecksum, Store, ReceiverInv
  <2>2. rdm.index + 2 <= RdmSize
    BY <1>1 DEF ReceiverInv, FillOK
  <2> QED
    BY <1>1, <2>1, <2>2, MessageSlotStep DEF Message
<1>2. CASE state = "suml"
  <2>1. /\ rdm' = [data |-> [rdm.data EXCEPT ![rdm.index] = Coming], index |-> rdm.index, done |-> TRUE]
        /\ state' = "idle" /\ dmx' = dmx
    BY <1>2, Parts DEF RdmChecksum, Store, ReceiverInv
  <2>2. /\ rdm'.data \in [0..(RdmSize - 1) -> Bytes]
        /\ rdm'.data[0] \in {Coming, rdm.data[0]}
    <3>1. rdm.data \in [0..(RdmSize - 1) -> Bytes] /\ Coming \in Bytes
      BY Parts, ReceivedFacts DEF ReceiverInv
    <3>2. rdm'.data = [rdm.data EXCEPT ![rdm.index] = Coming]
      BY <2>1
    <3>3. 0 \in 0..(RdmSize - 1)
      BY Sizes
    <3> QED
      BY <3>1, <3>2, <3>3
  <2>3. rdm' \in [data : [0..(RdmSize - 1) -> Bytes], index : 0..(RdmSize + 1), done : BOOLEAN]
    BY <2>1, <2>2, Parts DEF ReceiverInv
  <2>4. Types'
    BY <2>1, <2>3, ReceivedFacts DEF Types, Received, ReceiverInv
  <2>5. LineOK'
    <3>1. rdm'.data[0][1].id <= line.frame.id
      BY <2>2, ReceivedFacts, Parts DEF LineOK, ReceiverInv
    <3>2. dmx.data[0][1].id <= line.frame.id
      BY DEF LineOK, ReceiverInv
    <3>3. state' = "idle" /\ dmx' = dmx /\ line'.frame = line.frame /\ line.frame # Idle
      BY <2>1, ReceivedFacts, FrameFacts
    <3> QED
      BY <3>1, <3>2, <3>3 DEF LineOK
  <2>6. FillOK' /\ CallOK' /\ StepOK'
    BY <2>1 DEF FillOK, CallOK, StepOK, DmxInStep, RdmInStep, Message, ReceiverInv, Received
  <2>7. PacketOK'
    BY <2>1 DEF PacketOK, Packet, Whole, WholePacket, ReceiverInv, Received
  <2> QED
    BY <2>4, <2>5, <2>6, <2>7 DEF ReceiverInv
<1> QED
  BY <1>1, <1>2 DEF RdmChecksum

LEMMA ResponseSlotStep ==
    ASSUME ReceiverInv, Received, ResponseSlot(Coming)
    PROVE  ReceiverInv'
<1>1. state = "disc" /\ state' = "disc" /\ dmx' = dmx
  BY DEF ResponseSlot
<1>2. /\ rdm' \in [data : [0..(RdmSize - 1) -> Bytes], index : 0..(RdmSize + 1), done : BOOLEAN]
      /\ rdm'.data[0] \in {Coming, rdm.data[0]}
  <2>1. CASE rdm.index < DiscMax
    <3>1. rdm' = [data |-> [rdm.data EXCEPT ![rdm.index] = Coming], index |-> rdm.index + 1,
                  done |-> rdm.done]
      BY <2>1, Parts DEF ResponseSlot, Store, ReceiverInv
    <3>2. rdm.data \in [0..(RdmSize - 1) -> Bytes] /\ Coming \in Bytes
      BY Parts, ReceivedFacts DEF ReceiverInv
    <3>3. [rdm.data EXCEPT ![rdm.index] = Coming] \in [0..(RdmSize - 1) -> Bytes]
      BY <3>2
    <3>4. rdm.index \in 0..(RdmSize + 1) /\ rdm.done \in BOOLEAN
      BY Parts DEF ReceiverInv
    <3>5. rdm.index + 1 \in 0..(RdmSize + 1)
      BY <2>1, <3>4, Sizes
    <3> QED
      BY <3>1, <3>2, <3>3, <3>4, <3>5, Sizes
  <2>2. CASE ~(rdm.index < DiscMax)
    BY <2>2 DEF ResponseSlot, Types, ReceiverInv
  <2> QED
    BY <2>1, <2>2
<1>3. Types'
  BY <1>1, <1>2, ReceivedFacts DEF Types, Received, ReceiverInv
<1>4. LineOK'
  <2>1. rdm'.data[0][1].id <= line.frame.id
    BY <1>2, ReceivedFacts, Parts DEF LineOK, ReceiverInv
  <2> QED
    BY <1>1, <2>1, ReceivedFacts DEF LineOK, ReceiverInv
<1>5. FillOK' /\ CallOK' /\ StepOK'
  BY <1>1 DEF FillOK, CallOK, StepOK, DmxInStep, RdmInStep, Message, ReceiverInv, Received
<1>6. PacketOK'
  BY <1>1 DEF PacketOK, Packet, Whole, WholePacket, ReceiverInv, Received
<1> QED
  BY <1>3, <1>4, <1>5, <1>6 DEF ReceiverInv

LEMMA ByteStep ==
    ASSUME ReceiverInv, Received
    PROVE  ReceiverInv'
<1>1. \/ FirstOfResponse(Coming) \/ StartCode(Coming) \/ DmxSlot(Coming)
      \/ RdmSlot(Coming) \/ RdmChecksum(Coming) \/ ResponseSlot(Coming)
  BY DEF Received, Byte
<1> QED
  BY <1>1, FirstOfResponseStep, StartCodeStep, DmxSlotStep, RdmSlotStep, RdmChecksumStep,
     ResponseSlotStep

(***************************************************************************)
(* The line.                                                               *)
(***************************************************************************)
LEMMA FrameByteStep ==
    ASSUME ReceiverInv, FrameByte
    PROVE  ReceiverInv'
<1>t. taken' \in 0..Interrupts
  <2>1. taken \in 0..Interrupts
    BY DEF Types, ReceiverInv
  <2>2. taken' = 0 \/ (taken < Interrupts /\ taken' = taken + 1)
    BY DEF FrameByte, Interrupt
  <2> QED
    BY <2>1, <2>2, Sizes
<1>1. CASE enabled
  <2>1. Received
    BY <1>1, <1>t DEF FrameByte, Interrupt, Received, Coming
  <2> QED
    BY <2>1, ByteStep
<1>2. CASE ~enabled
  <2>1. /\ UNCHANGED <<state, dmx, rdm, enabled, pc, loaded, got, delivered>>
        /\ line.pos # 0 /\ quiet' = FALSE /\ raced' = (raced \/ pc # "main")
        /\ line' = [line EXCEPT !.pos = IF @ = Slots(line.frame) THEN 0 ELSE @ + 1]
    BY <1>2 DEF FrameByte, Interrupt, rx
  <2>2. line.frame \in AnyFrame /\ line.pos \in 1..Slots(line.frame) /\ Slots(line.frame) \in Nat
    BY <2>1, NextByte, FrameFacts, Sizes DEF ReceiverInv
  <2>3. /\ line'.frame = line.frame
        /\ line'.pos = IF line.pos = Slots(line.frame) THEN 0 ELSE line.pos + 1
        /\ line' = [frame |-> line'.frame, pos |-> line'.pos]
    BY <2>1, Parts DEF ReceiverInv
  <2>4. Types'
    <3>1. line' \in [frame : AnyFrame \cup {Idle}, pos : Nat] /\ line'.pos <= Slots(line'.frame)
      BY <2>2, <2>3
    <3>2. raced' \in BOOLEAN
      BY <2>1 DEF Types, ReceiverInv
    <3> QED
      BY <1>t, <2>1, <3>1, <3>2 DEF Types, ReceiverInv
  <2>5. FillOK' /\ LineOK' /\ CallOK' /\ StepOK' /\ PacketOK'
    BY <1>2, <2>1, <2>2, <2>3
    DEF FillOK, LineOK, CallOK, StepOK, PacketOK, Packet, Whole, WholePacket, ReceiverInv
  <2> QED
    BY <2>4, <2>5 DEF ReceiverInv
<1> QED
  BY <1>1, <1>2

LEMMA FrameStartStep ==
    ASSUME ReceiverInv, FrameStart
    PROVE  ReceiverInv'
<1>1. PICK f \in NewFrames(line.frame.id + 1) :
          /\ Interrupt(IF f.kind = "disc" THEN UNCHANGED rx ELSE FramingError)
          /\ line' = [frame |-> f, pos |-> 1]
  BY DEF FrameStart
<1>2. /\ f \in AnyFrame /\ f.id = line.frame.id + 1 /\ line'.frame = f /\ line'.pos = 1
  <2>1. line.frame.id \in 0..Frames /\ line.frame.id < Frames
    BY FrameFacts, Sizes DEF FrameStart, Types, Idle, ReceiverInv
  <2>2. f.id = line.frame.id + 1 /\ f \in [kind : FrameKinds, id : {line.frame.id + 1}, len : Lengths]
    BY DEF NewFrames
  <2>3. line.frame.id + 1 \in 1..Frames
    BY <2>1, Sizes
  <2> QED
    BY <1>1, <2>2, <2>3 DEF AnyFrame
<1>3. /\ UNCHANGED <<dmx, rdm, enabled, pc, loaded, got, delivered>>
      /\ quiet' = FALSE /\ raced' = (raced \/ pc # "main") /\ taken' \in 0..Interrupts
      /\ state' = state \/ (state' = "break" /\ state = "idle")
      /\ line.pos = 0 /\ (IdleBetween => quiet)
  BY <1>1, Sizes DEF FrameStart, Interrupt, FramingError, rx, Types, ReceiverInv
<1>4. Types'
  <2>1. Slots(f) \in Nat /\ 1 <= Slots(f) /\ line' \in [frame : AnyFrame \cup {Idle}, pos : Nat]
    BY <1>1, <1>2, FrameFacts, Sizes
  <2> QED
    BY <1>2, <1>3, <2>1 DEF Types, ReceiverInv
<1>5. FillOK' /\ LineOK' /\ CallOK'
  <2>1. LineOK'
    <3>1. /\ dmx.data[0][1].id \in Int /\ rdm.data[0][1].id \in Int /\ line.frame.id \in Int
          /\ dmx.data[0][1].id <= line.frame.id /\ rdm.data[0][1].id <= line.frame.id
      BY Parts DEF LineOK, ReceiverInv
    <3>2. f # Idle
      BY <1>2, FrameFacts
    <3>3. dmx.data[0][1].id <= f.id /\ rdm.data[0][1].id <= f.id
      BY <1>2, <3>1
    <3> QED
      BY <1>2, <1>3, <3>2, <3>3 DEF LineOK
  <2> QED
    BY <1>3, <2>1 DEF FillOK, CallOK, Message, ReceiverInv
<1>6. StepOK'
  <2>1. dmx.data[0] # <<f, 0>> /\ rdm.data[0] # <<f, 0>>
    BY <1>2, Parts DEF LineOK, ReceiverInv
  <2> QED
    BY <1>2, <1>3, <2>1 DEF StepOK, DmxInStep, RdmInStep
<1>7. PacketOK'
  BY <1>3 DEF PacketOK, Packet, Whole, WholePacket, ReceiverInv
<1> QED
  BY <1>4, <1>5, <1>6, <1>7 DEF ReceiverInv

LEMMA FrameCutStep ==
    ASSUME ReceiverInv, FrameCut
    PROVE  ReceiverInv'
<1>1. /\ UNCHANGED <<state, dmx, rdm, enabled, quiet, pc, taken, raced, loaded, got, delivered>>
      /\ line.pos > 1 /\ line'.pos = 0 /\ line'.frame = line.frame
      /\ line' = [frame |-> line.frame, pos |-> 0]
  BY Parts DEF FrameCut, rx, consumer, ReceiverInv
<1>2. line.frame \in AnyFrame /\ Slots(line.frame) \in Nat /\ line.pos \in Nat
  BY <1>1, FrameFacts, Sizes DEF LineOK, Types, ReceiverInv
<1>3. Types'
  BY <1>1, <1>2 DEF Types, ReceiverInv
<1>4. LineOK'
  BY <1>1, <1>2 DEF LineOK, ReceiverInv
<1>5. FillOK' /\ CallOK' /\ StepOK' /\ PacketOK'
  BY <1>1 DEF FillOK, CallOK, StepOK, DmxInStep, RdmInStep, PacketOK, Packet, Whole, WholePacket,
              ReceiverInv
<1> QED
  BY <1>3, <1>4, <1>5 DEF ReceiverInv

LEMMA LineIdleStep ==
    ASSUME ReceiverInv, LineIdle
    PROVE  ReceiverInv'
<1>1. /\ UNCHANGED <<line, enabled, pc, loaded, got, delivered>>
      /\ quiet' = TRUE /\ raced' = (raced \/ pc # "main") /\ taken' \in 0..Interrupts
      /\ IF enabled THEN IdleLine ELSE UNCHANGED rx
  BY Sizes DEF LineIdle, Interrupt, Types, ReceiverInv
<1>2. CASE ~enabled \/ state \notin {"data", "disc"}
  <2>1. UNCHANGED <<state, dmx, rdm>>
    BY <1>1, <1>2 DEF IdleLine, EndsPacket, EndsResponse, rx
  <2>2. Types'
    BY <1>1, <2>1 DEF Types, ReceiverInv
  <2>3. FillOK' /\ LineOK'
    BY <1>1, <2>1 DEF FillOK, LineOK, Message, ReceiverInv
  <2>4. CallOK'
    BY <1>1, <2>1 DEF CallOK, Message, ReceiverInv
  <2>5. StepOK'
    BY <1>1, <2>1 DEF StepOK, DmxInStep, RdmInStep, Message, ReceiverInv
  <2>6. PacketOK'
    BY <1>1, <1>2, <2>1 DEF PacketOK, Packet, Whole, WholePacket, ReceiverInv
  <2> QED
    BY <2>2, <2>3, <2>4, <2>5, <2>6 DEF ReceiverInv
<1>3. CASE enabled /\ state = "data"
  <2>1. /\ state' = "idle" /\ rdm' = rdm
        /\ dmx' = [data |-> dmx.data, slots |-> dmx.slots, done |-> TRUE]
    BY <1>1, <1>3, Parts DEF IdleLine, EndsPacket, EndsResponse, ReceiverInv
  <2>2. Types'
    BY <1>1, <2>1, Parts DEF Types, ReceiverInv
  <2>3. FillOK' /\ LineOK' /\ StepOK'
    BY <1>1, <2>1 DEF FillOK, LineOK, StepOK, DmxInStep, RdmInStep, Message, ReceiverInv
  <2>4. CallOK'
    <3> SUFFICES ASSUME ~raced' PROVE CallOK'
      BY DEF CallOK
    <3>1. ~raced /\ pc = "main"
      BY <1>1
    <3>2. dmx.slots \in 1..MaxSlots /\ loaded \in 0..(MaxSlots + 1)
      BY <1>3, <3>1 DEF CallOK, ReceiverInv
    <3> QED
      BY <1>1, <2>1, <3>1, <3>2, Sizes DEF CallOK, Message
  <2>5. PacketOK'
    BY <1>1, <1>3, <2>1 DEF PacketOK, Packet, Whole, WholePacket, ReceiverInv
  <2> QED
    BY <2>2, <2>3, <2>4, <2>5 DEF ReceiverInv
<1>4. CASE enabled /\ state = "disc"
  <2>1. /\ state' = "idle" /\ dmx' = dmx
        /\ rdm' = [data |-> rdm.data, index |-> rdm.index, done |-> TRUE]
    BY <1>1, <1>4, Parts DEF IdleLine, EndsPacket, EndsResponse, ReceiverInv
  <2>2. Types'
    BY <1>1, <2>1, Parts DEF Types, ReceiverInv
  <2>3. FillOK' /\ LineOK' /\ CallOK' /\ StepOK'
    BY <1>1, <2>1 DEF FillOK, LineOK, CallOK, StepOK, DmxInStep, RdmInStep, Message, ReceiverInv
  <2>4. PacketOK'
    BY <1>1, <2>1 DEF PacketOK, Packet, Whole, WholePacket, ReceiverInv
  <2> QED
    BY <2>2, <2>3, <2>4 DEF ReceiverInv
<1> QED
  BY <1>2, <1>3, <1>4

(***************************************************************************)
(* The polling calls.                                                      *)
(***************************************************************************)
LEMMA DmxCallStep ==
    ASSUME ReceiverInv, DmxLoad \/ DmxStore \/ DmxCopy
    PROVE  ReceiverInv'
<1>1. CASE DmxLoad
  <2>1. /\ pc = "main" /\ dmx.done = TRUE /\ pc' = "dmxStore" /\ loaded' = dmx.slots /\ got' = Nothing
        /\ UNCHANGED <<state, dmx, rdm, enabled, line, quiet, raced, delivered>> /\ taken' = 0
    BY <1>1 DEF DmxLoad, rx, Types, ReceiverInv
  <2>2. Types'
    <3>1. Types /\ dmx.slots \in Int
      BY Parts DEF ReceiverInv
    <3>2. 0 \in 0..Interrupts
      BY Sizes
    <3> QED
      BY <2>1, <3>1, <3>2 DEF Types
  <2>3. FillOK' /\ LineOK' /\ CallOK' /\ StepOK'
    BY <2>1 DEF FillOK, LineOK, CallOK, StepOK, DmxInStep, RdmInStep, ReceiverInv
  <2>4. PacketOK'
    BY <2>1 DEF PacketOK, Packet, Whole, WholePacket, Nothing, ReceiverInv
  <2> QED
    BY <2>2, <2>3, <2>4 DEF ReceiverInv
<1>2. CASE DmxStore
  <2>1. /\ pc = "dmxStore" /\ pc' = "dmxCopy"
        /\ dmx' = [data |-> dmx.data, slots |-> loaded - 1, done |-> FALSE]
        /\ UNCHANGED <<state, rdm, enabled, line, quiet, taken, raced, loaded, got, delivered>>
    BY <1>2, Parts DEF DmxStore, ReceiverInv
  <2>2. Types'
    BY <2>1, Parts DEF Types, ReceiverInv
  <2>3. FillOK' /\ LineOK'
    BY <2>1 DEF FillOK, LineOK, ReceiverInv
  <2>4. ~raced => /\ loaded = dmx.slots /\ dmx.done /\ dmx.slots \in 1..(MaxSlots + 1)
                  /\ state # "data"
    BY <2>1, Sizes DEF CallOK, ReceiverInv
  <2>5. CallOK'
    BY <2>1, <2>4, Sizes DEF CallOK, ReceiverInv
  <2>6. StepOK'
    BY <2>1, <2>4 DEF StepOK, DmxInStep, RdmInStep, ReceiverInv
  <2>7. PacketOK'
    <3> SUFFICES ASSUME IdleBetween, ~raced PROVE PacketOK'
      BY <2>1 DEF PacketOK
    <3>1. Packet(dmx.slots) /\ WholePacket
      BY <2>4 DEF PacketOK, ReceiverInv
    <3>2. loaded - 1 + 1 = dmx.slots
      BY <2>4, Sizes
    <3>3. Packet(dmx.slots + 1)'
      BY <2>1, <3>1, <3>2 DEF Packet, Whole
    <3> QED
      BY <2>1, <2>4, <3>1, <3>3 DEF PacketOK, WholePacket
  <2> QED
    BY <2>2, <2>3, <2>5, <2>6, <2>7 DEF ReceiverInv
<1>3. CASE DmxCopy
  <2>1. /\ pc = "dmxCopy" /\ pc' = "main"
        /\ UNCHANGED <<state, dmx, rdm, enabled, line, quiet, taken, raced, loaded, delivered>>
    BY <1>3 DEF DmxCopy, rx
  <2>2. Types' /\ FillOK' /\ LineOK' /\ CallOK' /\ StepOK'
    BY <2>1 DEF Types, FillOK, LineOK, CallOK, StepOK, DmxInStep, RdmInStep, ReceiverInv
  <2>3. PacketOK'
    <3> SUFFICES ASSUME IdleBetween, ~raced PROVE PacketOK'
      BY <2>1 DEF PacketOK
    <3>1. Packet(dmx.slots + 1) /\ dmx.slots \in Int
      BY <2>1, Parts DEF PacketOK, ReceiverInv
    <3>2. dmx.slots <= MaxSlots /\ Whole(dmx.data, dmx.slots + 1) /\ dmx.slots <= dmx.data[0][1].len
      <4>1. dmx.slots + 1 - 1 = dmx.slots
        BY <3>1
      <4> QED
        BY <3>1, <4>1, Sizes DEF Packet
    <3>3. WholePacket'
      BY <1>3, <3>2 DEF DmxCopy, WholePacket
    <3> QED
      BY <2>1, <3>3 DEF PacketOK, Packet, Whole, ReceiverInv
  <2> QED
    BY <2>2, <2>3 DEF ReceiverInv
<1> QED
  BY <1>1, <1>2, <1>3

LEMMA RdmCallStep ==
    ASSUME ReceiverInv, RdmTest \/ RdmClear \/ RdmCheck
    PROVE  ReceiverInv'
<1>1. CASE RdmTest
  <2>1. /\ pc = "main" /\ rdm.done /\ pc' = "rdmClear" /\ got' = Nothing /\ taken' = 0
        /\ UNCHANGED <<state, dmx, rdm, enabled, line, quiet, raced, loaded, delivered>>
    BY <1>1 DEF RdmTest, rx
  <2>2. Types'
    BY <2>1, Sizes DEF Types, ReceiverInv
  <2>3. FillOK' /\ LineOK' /\ CallOK' /\ StepOK'
    BY <2>1 DEF FillOK, LineOK, CallOK, StepOK, DmxInStep, RdmInStep, ReceiverInv
  <2>4. PacketOK'
    BY <2>1 DEF PacketOK, Packet, Whole, WholePacket, Nothing, ReceiverInv
  <2> QED
    BY <2>2, <2>3, <2>4 DEF ReceiverInv
<1>2. CASE RdmClear
  <2>1. /\ pc = "rdmClear" /\ pc' = "rdmCheck"
        /\ rdm' = [data |-> rdm.data, index |-> 0, done |-> FALSE]
        /\ UNCHANGED <<state, dmx, enabled, line, quiet, taken, raced, loaded, got, delivered>>
    BY <1>2, Parts DEF RdmClear, Cleared, ReceiverInv
  <2>2. Types'
    BY <2>1, Parts, Sizes DEF Types, ReceiverInv
  <2>3. FillOK' /\ LineOK'
    BY <2>1, Sizes DEF FillOK, LineOK, ReceiverInv
  <2>4. CallOK' /\ StepOK' /\ PacketOK'
    BY <2>1 DEF CallOK, StepOK, DmxInStep, RdmInStep, PacketOK, Packet, Whole, WholePacket, ReceiverInv
  <2> QED
    BY <2>2, <2>3, <2>4 DEF ReceiverInv
<1>3. CASE RdmCheck
  <2>1. /\ pc = "rdmCheck" /\ pc' = "main"
        /\ UNCHANGED <<state, dmx, rdm, enabled, line, quiet, taken, raced, loaded>>
    BY <1>3 DEF RdmCheck, rx
  <2>2. delivered' \subseteq 1..Frames
    <3>1. Value(rdm.data[0]) = SC => rdm.data[0][1].id \in 1..Frames
      BY Parts, ByteFacts, FrameFacts DEF ReceiverInv
    <3>2. delivered \subseteq 1..Frames
      BY DEF Types, ReceiverInv
    <3>3. \/ delivered' = delivered
          \/ Value(rdm.data[0]) = SC /\ delivered' = delivered \cup {rdm.data[0][1].id}
      BY <1>3 DEF RdmCheck
    <3> QED
      BY <3>1, <3>2, <3>3
  <2>3. got'.what # "dmx"
    BY <1>3 DEF RdmCheck, Nothing
  <2>4. Types'
    BY <2>1, <2>2 DEF Types, ReceiverInv
  <2>5. FillOK' /\ LineOK' /\ CallOK' /\ StepOK'
    BY <2>1 DEF FillOK, LineOK, CallOK, StepOK, DmxInStep, RdmInStep, ReceiverInv
  <2>6. PacketOK'
    BY <2>1, <2>3 DEF PacketOK, Packet, Whole, WholePacket, ReceiverInv
  <2> QED
    BY <2>4, <2>5, <2>6 DEF ReceiverInv
<1> QED
  BY <1>1, <1>2, <1>3

(***************************************************************************)
(* The direction of the port.                                              *)
(***************************************************************************)
LEMMA DirectionStep ==
    ASSUME ReceiverInv, Disable \/ TurnToOutput \/ Enable
    PROVE  ReceiverInv'
<1>1. /\ UNCHANGED <<dmx, rdm, line, quiet, pc, taken, raced, loaded, got, delivered>>
      /\ \/ enabled' = FALSE /\ state' \in {state, "idle"}
         \/ enabled' = TRUE /\ state' = "idle"
  BY DEF Disable, TurnToOutput, Enable, rx, consumer
<1>t. Types'
  BY <1>1 DEF Types, ReceiverInv
<1>f. FillOK'
  BY <1>1 DEF FillOK, Message, ReceiverInv
<1>l. LineOK'
  BY <1>1 DEF LineOK, ReceiverInv
<1>c. CallOK'
  BY <1>1 DEF CallOK, Message, ReceiverInv
<1>s. StepOK'
  <2>1. ASSUME ~raced', enabled', DmxInStep PROVE DmxInStep'
    BY <1>1, <2>1 DEF DmxInStep
  <2>2. ASSUME ~raced', enabled', RdmInStep PROVE RdmInStep'
    BY <1>1, <2>2 DEF RdmInStep, Message
  <2>3. ASSUME ~raced', enabled', ~enabled PROVE DmxInStep' /\ RdmInStep'
    BY <1>1, <2>3 DEF DmxInStep, RdmInStep, Message
  <2> QED
    BY <1>1, <2>1, <2>2, <2>3 DEF StepOK, ReceiverInv
<1>3. PacketOK'
  BY <1>1 DEF PacketOK, Packet, Whole, WholePacket, ReceiverInv
<1> QED
  BY <1>t, <1>f, <1>l, <1>c, <1>s, <1>3 DEF ReceiverInv

(***************************************************************************)
(* The theorems.                                                           *)
(***************************************************************************)
LEMMA ReceiverInitially == Init => ReceiverInv
<1> SUFFICES ASSUME Init PROVE ReceiverInv
  OBVIOUS
<1>1. Empty \in Bytes /\ Empty[1] = Idle /\ Idle.id = 0
  BY DEF Bytes, Empty, Idle
<1>2. /\ dmx \in [data : [0..MaxSlots -> Bytes], slots : Int, done : BOOLEAN]
      /\ rdm \in [data : [0..(RdmSize - 1) -> Bytes], index : 0..(RdmSize + 1), done : BOOLEAN]
  BY <1>1, Sizes DEF Init
<1>3. line \in [frame : AnyFrame \cup {Idle}, pos : Nat] /\ line.pos <= Slots(line.frame)
  BY Sizes DEF Init, Slots, Idle
<1>4. dmx.data[0] = Empty /\ rdm.data[0] = Empty
  BY Sizes DEF Init
<1>5. Types
  <2>1. enabled \in BOOLEAN /\ quiet \in BOOLEAN /\ raced \in BOOLEAN
    BY DEF Init
  <2>2. taken \in 0..Interrupts /\ delivered \subseteq 1..Frames /\ loaded \in Int
    BY Sizes DEF Init
  <2>3. /\ state \in {"idle", "break", "data", "disc"} \cup Message
        /\ pc \in {"main", "dmxStore", "dmxCopy", "rdmClear", "rdmCheck"}
    BY DEF Init
  <2> QED
    BY <1>2, <1>3, <2>1, <2>2, <2>3 DEF Types
<1>6. FillOK /\ LineOK /\ CallOK /\ StepOK
  BY <1>1, <1>4, Sizes DEF Init, FillOK, LineOK, CallOK, StepOK, DmxInStep, RdmInStep, Message
<1>7. PacketOK
  BY DEF Init, PacketOK, WholePacket, Nothing
<1> QED
  BY <1>5, <1>6, <1>7 DEF ReceiverInv

LEMMA ReceiverStuttering ==
    ASSUME ReceiverInv, UNCHANGED vars
    PROVE  ReceiverInv'
<1>1. UNCHANGED <<state, dmx, rdm, enabled, line, quiet, pc, taken, raced, loaded, got, delivered>>
  BY DEF vars, rx, consumer
<1>2. Types' /\ FillOK' /\ LineOK' /\ CallOK'
  BY <1>1 DEF Types, FillOK, LineOK, CallOK, ReceiverInv
<1>3. StepOK' /\ PacketOK'
  BY <1>1 DEF StepOK, DmxInStep, RdmInStep, PacketOK, Packet, Whole, WholePacket, ReceiverInv
<1> QED
  BY <1>2, <1>3 DEF ReceiverInv

LEMMA ReceiverInductive == Spec => []ReceiverInv
<1>1. ReceiverInv /\ [Next]_vars => ReceiverInv'
  BY FrameStartStep, FrameByteStep, FrameCutStep, LineIdleStep, DmxCallStep, RdmCallStep,
     DirectionStep, ReceiverStuttering DEF Next, Line, Poll
<1> QED
  BY ReceiverInitially, <1>1, PTL DEF Spec

\* However the interrupts and the calls come, IrqHandlerDmxRdmInput() stores the
\* checksum of an RDM message inside its buffer and the slots of a message
\* without end no further than the one byte behind it; DMX slots stay inside
\* theirs as long as no interrupt came in the middle of a call.
THEOREM ReceiverTypeCorrect == Spec => []ReceiverTypeOK
<1>1. ReceiverInv => ReceiverTypeOK
  <2> SUFFICES ASSUME ReceiverInv PROVE ReceiverTypeOK
    OBVIOUS
  <2>1. /\ \A i \in 0..MaxSlots : dmx.data[i] \in Bytes
        /\ rdm.data \in [0..(RdmSize - 1) -> Bytes]
    BY Parts DEF ReceiverInv
  <2>2. line.pos \in 0..Slots(line.frame)
    <3>1. Slots(line.frame) \in Int
      <4>1. CASE line.frame = Idle
        BY <4>1, Sizes DEF Idle, Slots
      <4>2. CASE line.frame \in AnyFrame
        <5>1. Slots(line.frame) \in 1..RdmSize
          BY <4>2, FrameFacts
        <5> QED
          BY <5>1, Sizes
      <4> QED
        BY <4>1, <4>2 DEF Types, ReceiverInv
    <3> QED
      BY <3>1 DEF Types, ReceiverInv
  <2>3. ~raced => dmx.slots \in 0..(MaxSlots + 1) /\ loaded \in 0..(MaxSlots + 1)
    BY DEF CallOK, ReceiverInv
  <2>4. /\ ~raced /\ state = "data" => dmx.slots <= MaxSlots
        /\ state = "rdm" => rdm.index <= RdmSize
        /\ state \in {"sumh", "suml"} => rdm.index < RdmSize
    BY Parts, Sizes DEF CallOK, FillOK, ReceiverInv
  <2> QED
    BY <2>1, <2>2, <2>3, <2>4, Parts DEF ReceiverTypeOK, Types, Message, ReceiverInv
<1> QED
  BY <1>1, ReceiverInductive, PTL

\* The buffer never runs ahead of the frame on the line, nor behind it, for
\* frames of any length, cut anywhere, on a port turned round at any time.
THEOREM AlwaysInStep == Spec => []InStep
<1>1. ReceiverInv => InStep
  BY DEF ReceiverInv, StepOK, DmxInStep, RdmInStep, InStep, Message
<1> QED
  BY <1>1, ReceiverInductive, PTL

\* What GetDmxAvailable() hands out is one packet from its start code on, for
\* packets of any length, if the line is idle between frames.
THEOREM AlwaysWholePacket ==
    ASSUME IdleBetween
    PROVE  Spec => []WholePacket
<1>1. ReceiverInv => WholePacket
  BY DEF ReceiverInv, PacketOK, WholePacket
<1> QED
  BY <1>1, ReceiverInductive, PTL

(***************************************************************************)
(* No message is handed out twice, as long as a call is not interrupted    *)
(* by all bytes of a message: the shortest has MinLength + 2, a            *)
(* millisecond, and a call takes microseconds.                             *)
(***************************************************************************)
Receiving == state \in Message \cup {"disc"}
InRdmCall == pc \in {"rdmClear", "rdmCheck"}

\* The buffer begins with the first byte of a message.
Begun == rdm.data[0][2] = 0 /\ rdm.data[0][1].kind = "rdm"

\* The bytes in the buffer were on the line already.
Sent(b) ==
    /\ b[1].id <= line.frame.id
    /\ b[1].id = line.frame.id /\ line.pos # 0 => b[2] < line.pos - 1
Long(f) == f.kind = "rdm" => f.len >= MinLength
BytesSent == \A i \in 0..(RdmSize - 1) : Sent(rdm.data[i]) /\ Long(rdm.data[i][1])

DeliveredOK ==
    /\ \A d \in delivered : d <= line.frame.id
    /\ line.pos = 1 => line.frame.id \notin delivered

\* What is in the buffer and may still be handed out was not.
NotYet == Begun /\ (rdm.done \/ Receiving \/ InRdmCall) => rdm.data[0][1].id \notin delivered

\* Of a message that began in the middle of the call, no more bytes have come
\* than interrupts.
Overlapping == Begun /\ (Receiving \/ (pc = "rdmCheck" /\ rdm.done))
RdmCallOK == InRdmCall =>
    /\ got = Nothing
    /\ Receiving => rdm.index <= taken
    /\ Overlapping => \A i \in 0..(RdmSize - 1) : i >= taken => rdm.data[i] # <<rdm.data[0][1], i>>

OnceInv ==
    /\ Receiving => ~rdm.done
    /\ Long(line.frame) /\ BytesSent /\ DeliveredOK /\ NotYet /\ RdmCallOK

LEMMA DataFacts ==
    ASSUME Types
    PROVE  /\ 0 \in 0..(RdmSize - 1)
           /\ \A i \in 0..(RdmSize - 1) : /\ rdm.data[i] \in Bytes /\ rdm.data[i][1].id \in Int
                                    /\ rdm.data[i][2] \in Nat
           /\ line.frame.id \in Int /\ line.pos \in Nat /\ taken \in Nat /\ rdm.index \in Nat
<1>1. ASSUME NEW b \in Bytes PROVE b[1].id \in Int /\ b[2] \in Nat
  <2>1. b[1].id \in Int
    BY ByteFacts
  <2>2. CASE b = Empty
    BY <2>1, <2>2 DEF Empty
  <2>3. CASE b # Empty
    <3>1. PICK f \in AnyFrame, i \in 0..(RdmSize + MaxSlots) : b = <<f, i>>
      BY <2>3 DEF Bytes
    <3> QED
      BY <2>1, <3>1, Sizes
  <2> QED
    BY <2>1, <2>2, <2>3
<1>2. \A i \in 0..(RdmSize - 1) : rdm.data[i] \in Bytes
  BY Parts
<1>3. line.frame.id \in Int /\ 0 \in 0..(RdmSize - 1)
  BY Parts, Sizes
<1>4. line.pos \in Nat /\ taken \in Nat /\ rdm.index \in Nat
  BY Sizes DEF Types
<1> QED
  BY <1>1, <1>2, <1>3, <1>4

\* What a byte does to the buffer of messages: nothing, it empties it, or it is
\* stored, at the index or at the beginning.
Stored(w) ==
    /\ rdm'.data = [rdm.data EXCEPT ![w] = Coming] /\ rdm'.index \in Nat /\ rdm'.index <= w + 1
    /\ (Receiving /\ w = rdm.index) \/ (~Receiving /\ w = 0)
    /\ Receiving' => ~rdm'.done
Untouched == rdm' = rdm /\ (Receiving' => Receiving)
Emptied == rdm'.data = rdm.data /\ ~rdm'.done /\ ~Receiving'

LEMMA ByteEffect ==
    ASSUME ReceiverInv, Receiving => ~rdm.done, Byte(Coming)
    PROVE  Untouched \/ Emptied \/ Stored(0) \/ Stored(rdm.index)
<1>1. /\ rdm = [data |-> rdm.data, index |-> rdm.index, done |-> rdm.done] /\ rdm.index \in Nat
      /\ rdm.done \in BOOLEAN
  BY Parts, Sizes DEF ReceiverInv
<1>2. CASE FirstOfResponse(Coming)
  <2>1. /\ state = "idle" /\ state' = "disc"
        /\ rdm' = [data |-> [rdm.data EXCEPT ![0] = Coming], index |-> 1, done |-> FALSE]
    BY <1>1, <1>2 DEF FirstOfResponse, Store
  <2> QED
    BY <2>1 DEF Stored, Receiving, Message
<1>3. CASE StartCode(Coming)
  <2>1. \/ state = "break" /\ state' = "data" /\ rdm' = rdm
        \/ /\ state = "break" /\ state' = "rdm"
           /\ rdm' = [data |-> [rdm.data EXCEPT ![0] = Coming], index |-> 1, done |-> FALSE]
        \/ state' = "idle" /\ rdm' = [data |-> rdm.data, index |-> 0, done |-> FALSE]
    BY <1>1, <1>3 DEF StartCode, Store, FirstIndex
  <2> QED
    BY <2>1 DEF Stored, Untouched, Emptied, Receiving, Message
<1>4. CASE DmxSlot(Coming)
  <2>1. rdm' = rdm /\ state' \in {"idle", "data"}
    BY <1>4 DEF DmxSlot
  <2> QED
    BY <2>1 DEF Untouched, Receiving, Message
<1>5. CASE RdmSlot(Coming)
  <2>1. /\ state = "rdm"
        /\ rdm' = [data |-> [rdm.data EXCEPT ![rdm.index] = Coming], index |-> rdm.index + 1,
                   done |-> rdm.done]
    BY <1>5, SpilledStep DEF RdmSlot, ReceiverInv
  <2>2. ~rdm.done
    BY <2>1 DEF ReceiverInv, FillOK, Message
  <2> QED
    BY <1>1, <2>1, <2>2 DEF Stored, Receiving, Message
<1>6. CASE RdmChecksum(Coming)
  <2>1. state \in Message /\ ~rdm.done
    BY <1>6 DEF RdmChecksum, ReceiverInv, FillOK, Message
  <2>2. \/ rdm' = [data |-> [rdm.data EXCEPT ![rdm.index] = Coming], index |-> rdm.index + 1,
                   done |-> rdm.done]
        \/ /\ state' = "idle"
           /\ rdm' = [data |-> [rdm.data EXCEPT ![rdm.index] = Coming], index |-> rdm.index,
                      done |-> TRUE]
    BY <1>1, <1>6 DEF RdmChecksum, Store
  <2> QED
    BY <1>1, <2>1, <2>2 DEF Stored, Receiving, Message
<1>7. CASE ResponseSlot(Coming)
  <2>1. state = "disc" /\ state' = state
    BY <1>7 DEF ResponseSlot
  <2>2. \/ rdm' = rdm
        \/ rdm' = [data |-> [rdm.data EXCEPT ![rdm.index] = Coming], index |-> rdm.index + 1,
                   done |-> rdm.done]
    BY <1>1, <1>7 DEF ResponseSlot, Store
  <2>3. ~rdm.done
    BY <2>1 DEF Receiving
  <2> QED
    BY <1>1, <2>1, <2>2, <2>3 DEF Stored, Untouched, Receiving, Message
<1> QED
  BY <1>2, <1>3, <1>4, <1>5, <1>6, <1>7 DEF Byte

LEMMA FrameByteOnce ==
    ASSUME ReceiverInv, OnceInv, FrameByte
    PROVE  OnceInv'
<1>1. /\ line.frame \in AnyFrame /\ line.pos \in Nat /\ line.pos >= 1 /\ line'.frame = line.frame
      /\ line'.pos \in {0, line.pos + 1}
  <2>1. line.pos # 0 /\ line' = [line EXCEPT !.pos = IF @ = Slots(line.frame) THEN 0 ELSE @ + 1]
    BY DEF FrameByte
  <2>2. line.frame \in AnyFrame /\ line.pos \in 1..Slots(line.frame) /\ Slots(line.frame) \in Nat
    BY <2>1, NextByte, FrameFacts, Sizes DEF ReceiverInv
  <2> QED
    BY <2>1, <2>2, Parts DEF ReceiverInv
<1>2. /\ UNCHANGED <<enabled, pc, loaded, got, delivered>>
      /\ pc # "main" => taken' = taken + 1
      /\ IF enabled THEN Byte(Coming) ELSE UNCHANGED rx
  BY DEF FrameByte, Interrupt, Coming
<1>3. Untouched \/ Emptied \/ Stored(0) \/ Stored(rdm.index)
  <2>1. CASE enabled
    BY <1>2, <2>1, ByteEffect DEF OnceInv
  <2>2. CASE ~enabled
    BY <1>2, <2>2 DEF Untouched, Receiving, rx
  <2> QED
    BY <2>1, <2>2
<1>4. PICK w \in Nat : (Untouched \/ Emptied \/ Stored(w)) /\ w \in {0, rdm.index}
  BY <1>3, DataFacts DEF ReceiverInv
<1>5. /\ 0 \in 0..(RdmSize - 1) /\ line.frame.id \in Int /\ taken \in Nat /\ rdm.index \in Nat
      /\ \A i \in 0..(RdmSize - 1) : rdm.data[i][1].id \in Int /\ rdm.data[i][2] \in Nat
  BY DataFacts DEF ReceiverInv
<1>6. Coming[1] = line.frame /\ Coming[2] = line.pos - 1
  BY DEF Coming
<1>7. ASSUME NEW i \in 0..(RdmSize - 1)
      PROVE  \/ rdm'.data[i] = rdm.data[i]
             \/ Stored(w) /\ w = i /\ rdm'.data[i] = Coming
  <2>1. rdm.data \in [0..(RdmSize - 1) -> Bytes]
    BY Parts DEF ReceiverInv
  <2> QED
    BY <1>4, <2>1 DEF Untouched, Emptied, Stored
<1>8. Receiving' => ~rdm'.done
  BY <1>4 DEF Untouched, Emptied, Stored, OnceInv
<1>9. Long(line.frame)'
  BY <1>1 DEF Long, OnceInv
<1>10. BytesSent'
  <2>1. ASSUME NEW i \in 0..(RdmSize - 1) PROVE Sent(rdm.data[i])' /\ Long(rdm.data[i][1])'
    <3>1. Sent(rdm.data[i]) /\ Long(rdm.data[i][1]) /\ Long(line.frame)
      BY DEF OnceInv, BytesSent
    <3>2. CASE rdm'.data[i] = rdm.data[i]
      BY <1>1, <1>5, <3>1, <3>2 DEF Sent, Long
    <3>3. CASE rdm'.data[i] = Coming
      BY <1>1, <1>5, <1>6, <3>1, <3>3 DEF Sent, Long
    <3> QED
      BY <1>7, <3>2, <3>3
  <2> QED
    BY <2>1 DEF BytesSent
<1>11. DeliveredOK'
  BY <1>1, <1>2 DEF DeliveredOK, OnceInv
<1>12. Begun' /\ rdm'.data[0] = Coming => line.pos = 1
  BY <1>1, <1>6 DEF Begun
<1>13. NotYet'
  <2> SUFFICES ASSUME Begun', rdm'.done \/ Receiving' \/ InRdmCall'
               PROVE  rdm'.data[0][1].id \notin delivered'
    BY DEF NotYet
  <2>1. CASE rdm'.data[0] = Coming
    BY <1>2, <1>6, <1>12, <2>1 DEF OnceInv, DeliveredOK
  <2>2. CASE rdm'.data[0] = rdm.data[0] /\ (rdm.done \/ Receiving \/ InRdmCall)
    BY <1>2, <2>2 DEF OnceInv, NotYet, Begun
  <2>3. InRdmCall' => InRdmCall
    BY <1>2 DEF InRdmCall
  <2>4. \/ rdm.done \/ Receiving \/ InRdmCall
        \/ rdm'.data[0] = Coming
    <3>1. Stored(w) /\ ~Receiving => rdm'.data[0] = Coming
      <4>1. rdm.data \in [0..(RdmSize - 1) -> Bytes]
        BY Parts DEF ReceiverInv
      <4> QED
        BY <1>5, <4>1 DEF Stored
    <3> QED
      BY <1>4, <2>3, <3>1 DEF Untouched, Emptied
  <2>5. rdm'.data[0] = Coming \/ rdm'.data[0] = rdm.data[0]
    BY <1>5, <1>7
  <2> QED
    BY <2>1, <2>2, <2>4, <2>5
<1>14. RdmCallOK'
  <2> SUFFICES ASSUME InRdmCall' PROVE RdmCallOK'
    BY DEF RdmCallOK
  <2>1. InRdmCall /\ taken' = taken + 1 /\ got' = Nothing /\ pc' = pc
    BY <1>2 DEF InRdmCall, OnceInv, RdmCallOK
  <2>2. /\ Receiving => rdm.index <= taken
        /\ Overlapping => \A i \in 0..(RdmSize - 1) : i >= taken => rdm.data[i] # <<rdm.data[0][1], i>>
    BY <2>1 DEF OnceInv, RdmCallOK
  <2>3. Stored(w) => w <= taken
    BY <1>5, <2>2 DEF Stored
  <2>4. Receiving' => rdm'.index <= taken'
    <3>1. CASE Stored(w)
      <4>1. rdm'.index \in Nat /\ rdm'.index <= w + 1 /\ w <= taken
        BY <2>3, <3>1 DEF Stored
      <4> QED
        BY <1>5, <2>1, <4>1
    <3>2. CASE Untouched \/ Emptied
      BY <1>5, <2>1, <2>2, <3>2 DEF Untouched, Emptied
    <3> QED
      BY <1>4, <3>1, <3>2
  <2>5. ASSUME Overlapping', NEW i \in 0..(RdmSize - 1), i >= taken'
        PROVE  rdm'.data[i] # <<rdm'.data[0][1], i>>
    <3>1. i >= taken + 1 /\ i \in Nat /\ i > 0 /\ i >= taken
      BY <1>5, <2>1, <2>5
    <3>2. rdm'.data[i] = rdm.data[i]
      <4>1. ~(Stored(w) /\ w = i)
        BY <1>5, <2>3, <3>1
      <4> QED
        BY <1>7, <2>5, <4>1
    <3>3. CASE rdm'.data[0] = Coming
      <4>1. line.pos = 1
        BY <1>12, <2>5, <3>3 DEF Overlapping
      <4>2. Sent(rdm.data[i])
        BY <2>5 DEF OnceInv, BytesSent
      <4>3. rdm.data[i] # <<line.frame, i>>
        BY <1>1, <1>5, <2>5, <3>1, <4>1, <4>2 DEF Sent
      <4> QED
        BY <1>6, <3>2, <3>3, <4>3
    <3>4. CASE rdm'.data[0] # Coming
      <4>1. rdm'.data[0] = rdm.data[0]
        BY <1>5, <1>7, <3>4
      <4>2. Begun /\ (Receiving \/ (pc = "rdmCheck" /\ rdm.done))
        <5>1. Begun
          BY <2>5, <4>1 DEF Overlapping, Begun
        <5>2. Stored(w) => Receiving
          <6>1. rdm.data \in [0..(RdmSize - 1) -> Bytes]
            BY Parts DEF ReceiverInv
          <6> QED
            BY <1>5, <3>4, <6>1 DEF Stored
        <5>3. Receiving' \/ (pc' = "rdmCheck" /\ rdm'.done)
          BY <2>5 DEF Overlapping
        <5> QED
          BY <1>4, <2>1, <5>1, <5>2, <5>3 DEF Untouched, Emptied
      <4>3. rdm.data[i] # <<rdm.data[0][1], i>>
        BY <2>2, <2>5, <3>1, <4>2 DEF Overlapping
      <4> QED
        BY <3>2, <4>1, <4>3
    <3> QED
      BY <3>3, <3>4
  <2> QED
    BY <2>1, <2>4, <2>5 DEF RdmCallOK
<1> QED
  BY <1>8, <1>9, <1>10, <1>11, <1>13, <1>14 DEF OnceInv

LEMMA FrameStartOnce ==
    ASSUME ReceiverInv, OnceInv, FrameStart
    PROVE  OnceInv'
<1>1. PICK f \in NewFrames(line.frame.id + 1) :
          /\ Interrupt(IF f.kind = "disc" THEN UNCHANGED rx ELSE FramingError)
          /\ line' = [frame |-> f, pos |-> 1]
  BY DEF FrameStart
<1>2. f.id = line.frame.id + 1 /\ Long(f) /\ line'.frame = f /\ line'.pos = 1
  <2>1. f.id = line.frame.id + 1 /\ Long(f)
    BY DEF NewFrames, Long
  <2> QED
    BY <1>1, <2>1
<1>3. /\ UNCHANGED <<dmx, rdm, pc, got, delivered>>
      /\ state' = state \/ (state' = "break" /\ state = "idle")
      /\ pc # "main" => taken' = taken + 1
  BY <1>1 DEF FrameStart, Interrupt, FramingError, rx
<1>4. /\ line.frame.id \in Int /\ taken \in Nat /\ rdm.index \in Nat
      /\ \A i \in 0..(RdmSize - 1) : rdm.data[i][1].id \in Int /\ rdm.data[i][2] \in Nat
  BY DataFacts DEF ReceiverInv
<1>5. (Receiving' <=> Receiving) /\ (InRdmCall' <=> InRdmCall) /\ (Begun' <=> Begun)
  BY <1>3 DEF Receiving, InRdmCall, Begun, Message
<1>6. BytesSent'
  <2>1. ASSUME NEW i \in 0..(RdmSize - 1) PROVE Sent(rdm.data[i])' /\ Long(rdm.data[i][1])'
    <3>1. Sent(rdm.data[i]) /\ Long(rdm.data[i][1])
      BY DEF OnceInv, BytesSent
    <3> QED
      BY <1>2, <1>3, <1>4, <3>1 DEF Sent, Long
  <2> QED
    BY <2>1 DEF BytesSent
<1>7. DeliveredOK'
  <2>1. \A d \in delivered : d <= line.frame.id /\ d \in Int
    BY Sizes DEF OnceInv, DeliveredOK, ReceiverInv, Types
  <2> QED
    BY <1>2, <1>3, <1>4, <2>1 DEF DeliveredOK
<1>8. NotYet'
  BY <1>3, <1>5 DEF OnceInv, NotYet
<1>9. RdmCallOK'
  <2> SUFFICES ASSUME InRdmCall' PROVE RdmCallOK'
    BY DEF RdmCallOK
  <2>1. InRdmCall /\ taken' = taken + 1 /\ RdmCallOK
    BY <1>3, <1>5 DEF InRdmCall, OnceInv
  <2>2. Receiving => rdm.index <= taken'
    BY <1>4, <2>1 DEF RdmCallOK
  <2>3. Overlapping' <=> Overlapping
    BY <1>3, <1>5 DEF Overlapping
  <2>4. Overlapping => \A i \in 0..(RdmSize - 1) : i >= taken' => rdm.data[i] # <<rdm.data[0][1], i>>
    BY <1>4, <2>1, Sizes DEF RdmCallOK
  <2> QED
    BY <1>3, <1>5, <2>1, <2>2, <2>3, <2>4 DEF RdmCallOK
<1> QED
  BY <1>2, <1>3, <1>5, <1>6, <1>7, <1>8, <1>9 DEF OnceInv

\* Nothing is stored, and no call goes on.
LEMMA SameOnce ==
    ASSUME ReceiverInv, OnceInv, rdm'.data = rdm.data, rdm'.index = rdm.index,
           line'.frame = line.frame, line'.pos \in {0, line.pos},
           UNCHANGED <<pc, got, delivered>>, Receiving' => Receiving,
           rdm'.done => rdm.done \/ (Receiving /\ ~Receiving'),
           taken' = taken \/ taken' = taken + 1 \/ pc = "main"
    PROVE  OnceInv'
<1>1. /\ taken \in Nat /\ rdm.index \in Nat /\ line.pos \in Nat
      /\ \A i \in 0..(RdmSize - 1) : rdm.data[i][2] \in Nat
  BY DataFacts DEF ReceiverInv
<1>2. (InRdmCall' <=> InRdmCall) /\ (Begun' <=> Begun)
  BY DEF InRdmCall, Begun
<1>3. Receiving' => ~rdm'.done
  BY DEF OnceInv
<1>4. Long(line.frame)'
  BY DEF OnceInv, Long
<1>5. BytesSent'
  <2>1. ASSUME NEW i \in 0..(RdmSize - 1) PROVE Sent(rdm.data[i])' /\ Long(rdm.data[i][1])'
    <3>1. Sent(rdm.data[i]) /\ Long(rdm.data[i][1])
      BY DEF OnceInv, BytesSent
    <3> QED
      BY <1>1, <3>1 DEF Sent, Long
  <2> QED
    BY <2>1 DEF BytesSent
<1>6. DeliveredOK'
  BY DEF OnceInv, DeliveredOK
<1>7. NotYet'
  BY <1>2 DEF OnceInv, NotYet
<1>8. RdmCallOK'
  <2> SUFFICES ASSUME InRdmCall' PROVE RdmCallOK'
    BY DEF RdmCallOK
  <2>1. InRdmCall /\ RdmCallOK /\ taken' \in {taken, taken + 1}
    BY <1>2 DEF InRdmCall, OnceInv
  <2>2. Receiving => rdm.index <= taken'
    BY <1>1, <2>1 DEF RdmCallOK
  <2>3. Overlapping' => Overlapping
    BY <1>2 DEF Overlapping
  <2>4. Overlapping => \A i \in 0..(RdmSize - 1) : i >= taken' => rdm.data[i] # <<rdm.data[0][1], i>>
    BY <1>1, <2>1, Sizes DEF RdmCallOK
  <2> QED
    BY <1>2, <2>1, <2>2, <2>3, <2>4 DEF RdmCallOK
<1> QED
  BY <1>3, <1>4, <1>5, <1>6, <1>7, <1>8 DEF OnceInv

LEMMA LineIdleOnce ==
    ASSUME ReceiverInv, OnceInv, LineIdle
    PROVE  OnceInv'
<1>1. /\ UNCHANGED <<line, pc, got, delivered>> /\ (pc # "main" => taken' = taken + 1)
      /\ IdleLine \/ UNCHANGED rx
  BY DEF LineIdle, Interrupt
<1>2. \/ UNCHANGED <<state, rdm>>
      \/ state' = "idle" /\ rdm' = rdm
      \/ state = "disc" /\ state' = "idle" /\ rdm' = [rdm EXCEPT !.done = TRUE]
  BY <1>1 DEF IdleLine, EndsPacket, EndsResponse, rx
<1>3. /\ rdm'.data = rdm.data /\ rdm'.index = rdm.index /\ (Receiving' => Receiving)
      /\ rdm'.done => rdm.done \/ (Receiving /\ ~Receiving')
  BY <1>2, Parts DEF ReceiverInv, Receiving, Message
<1> QED
  BY <1>1, <1>3, SameOnce

LEMMA OtherOnce ==
    ASSUME ReceiverInv, OnceInv, FrameCut \/ Disable \/ TurnToOutput \/ Enable \/ UNCHANGED vars
    PROVE  OnceInv'
<1>1. /\ UNCHANGED <<rdm, pc, taken, got, delivered>> /\ state' \in {state, "idle"}
      /\ line'.frame = line.frame /\ line'.pos \in {0, line.pos}
  BY Parts DEF FrameCut, Disable, TurnToOutput, Enable, vars, rx, consumer, ReceiverInv
<1>2. Receiving' => Receiving
  BY <1>1 DEF Receiving, Message
<1> QED
  BY <1>1, <1>2, SameOnce

LEMMA DmxCallOnce ==
    ASSUME ReceiverInv, OnceInv, DmxLoad \/ DmxStore \/ DmxCopy
    PROVE  OnceInv'
<1>1. /\ UNCHANGED <<state, rdm, line, delivered>> /\ ~InRdmCall /\ ~InRdmCall'
  BY DEF DmxLoad, DmxStore, DmxCopy, rx, InRdmCall
<1>2. (Receiving' <=> Receiving) /\ (Begun' <=> Begun)
  BY <1>1 DEF Receiving, Begun
<1>3. BytesSent' /\ DeliveredOK' /\ Long(line.frame)'
  BY <1>1 DEF OnceInv, BytesSent, DeliveredOK, Sent, Long
<1>4. NotYet' /\ RdmCallOK'
  BY <1>1, <1>2 DEF OnceInv, NotYet, RdmCallOK
<1> QED
  BY <1>1, <1>2, <1>3, <1>4 DEF OnceInv

LEMMA RdmTestOnce ==
    ASSUME ReceiverInv, OnceInv, RdmTest
    PROVE  OnceInv'
<1>1. /\ pc = "main" /\ rdm.done /\ pc' = "rdmClear" /\ got' = Nothing
      /\ UNCHANGED <<state, rdm, line, delivered>>
  BY DEF RdmTest, rx
<1>2. ~Receiving' /\ (Begun' <=> Begun) /\ ~Receiving
  BY <1>1 DEF OnceInv, Receiving, Begun
<1>3. BytesSent' /\ DeliveredOK' /\ Long(line.frame)'
  BY <1>1 DEF OnceInv, BytesSent, DeliveredOK, Sent, Long
<1>4. NotYet'
  BY <1>1, <1>2 DEF OnceInv, NotYet
<1>5. RdmCallOK'
  BY <1>1, <1>2 DEF RdmCallOK, Overlapping
<1> QED
  BY <1>2, <1>3, <1>4, <1>5 DEF OnceInv

LEMMA RdmClearOnce ==
    ASSUME ReceiverInv, OnceInv, RdmClear
    PROVE  OnceInv'
<1>1. /\ pc = "rdmClear" /\ pc' = "rdmCheck"
      /\ rdm'.data = rdm.data /\ rdm'.index = 0 /\ rdm'.done = FALSE
      /\ UNCHANGED <<state, line, taken, got, delivered>>
  BY Parts DEF RdmClear, Cleared, ReceiverInv
<1>2. (Receiving' <=> Receiving) /\ (Begun' <=> Begun) /\ InRdmCall /\ InRdmCall'
  BY <1>1 DEF Receiving, Begun, InRdmCall
<1>3. BytesSent' /\ DeliveredOK' /\ Long(line.frame)'
  BY <1>1 DEF OnceInv, BytesSent, DeliveredOK, Sent, Long
<1>4. NotYet'
  BY <1>1, <1>2 DEF OnceInv, NotYet
<1>5. RdmCallOK'
  <2>1. RdmCallOK /\ 0 <= taken
    BY DataFacts DEF OnceInv, ReceiverInv
  <2>2. Overlapping' => Overlapping
    BY <1>1, <1>2 DEF Overlapping
  <2> QED
    BY <1>1, <1>2, <2>1, <2>2 DEF RdmCallOK
<1> QED
  BY <1>1, <1>2, <1>3, <1>4, <1>5 DEF OnceInv

\* What is handed out begins with the first byte of a message, and no other is
\* on its way into the buffer.
LEMMA HandedOut ==
    ASSUME ReceiverInv, OnceInv, Interrupts < MinLength + 2, RdmCheck,
           Value(rdm.data[0]) = SC, ChecksumRight(rdm.data)
    PROVE  Begun /\ ~Receiving /\ ~rdm.done
<1> DEFINE f == rdm.data[0][1]
<1>1. /\ rdm.data[0] \in Bytes /\ Value(rdm.data[0]) = SC /\ Whole(rdm.data, f.len + 2)
      /\ InRdmCall /\ pc = "rdmCheck"
  BY Parts DEF ReceiverInv, ChecksumRight, RdmCheck, InRdmCall
<1>a. \A i \in 0..((f.len + 2) - 1) : rdm.data[i] = <<f, i>>
  <2>1. Whole(rdm.data, f.len + 2)
    BY <1>1
  <2> QED
    BY ONLY <2>1 DEF Whole
<1>2. f \in AnyFrame /\ f.len \in Nat /\ f.len + 2 <= RdmSize
  <2>1. f \in AnyFrame
    BY <1>1, ByteFacts
  <2>2. f.len \in 1..(RdmSize - 2)
    BY <2>1, Sizes DEF AnyFrame
  <2> QED
    BY <2>1, <2>2, Sizes
<1>3. rdm.data[0][2] = 0
  <2>1. rdm.data[0] = <<f, 0>>
    <3>1. 0 \in 0..((f.len + 2) - 1)
      <4> HIDE DEF f
      <4> QED
        BY <1>2
    <3> HIDE DEF f
    <3> QED
      BY <1>a, <3>1
  <2> HIDE DEF f
  <2> QED
    BY <2>1
<1>4. f.kind = "rdm"
  BY <1>1, <1>3 DEF Value, SC, NSC
<1>5. Begun
  BY <1>3, <1>4 DEF Begun
<1>6. f.len >= MinLength
  <2>1. Long(f)
    BY DataFacts DEF OnceInv, BytesSent, ReceiverInv
  <2> QED
    BY <1>4, <2>1 DEF Long
<1>7. taken \in 0..(RdmSize - 1) /\ taken \in 0..((f.len + 2) - 1) /\ taken >= taken
  <2>1. taken \in 0..Interrupts
    BY DEF ReceiverInv, Types
  <2> HIDE DEF f
  <2> QED
    BY <1>2, <1>6, <2>1, Sizes
<1>8. rdm.data[taken] = <<f, taken>>
  <2> HIDE DEF f
  <2> QED
    BY <1>a, <1>7
<1>9. ~Overlapping
  BY <1>1, <1>7, <1>8 DEF OnceInv, RdmCallOK
<1> QED
  BY <1>1, <1>5, <1>9 DEF Overlapping

LEMMA RdmCheckOnce ==
    ASSUME ReceiverInv, OnceInv, Interrupts < MinLength + 2, RdmCheck
    PROVE  OnceInv'
<1>1. /\ pc = "rdmCheck" /\ pc' = "main" /\ UNCHANGED <<state, rdm, line>>
      /\ \/ delivered' = delivered
         \/ /\ Value(rdm.data[0]) = SC /\ ChecksumRight(rdm.data)
            /\ delivered' = delivered \cup {rdm.data[0][1].id}
  BY DEF RdmCheck, rx
<1>2. (Receiving' <=> Receiving) /\ (Begun' <=> Begun) /\ InRdmCall /\ ~InRdmCall'
  BY <1>1 DEF Receiving, Begun, InRdmCall
<1>3. BytesSent' /\ Long(line.frame)'
  BY <1>1 DEF OnceInv, BytesSent, Sent, Long
<1>4. CASE delivered' = delivered
  <2>1. DeliveredOK'
    BY <1>1, <1>4 DEF OnceInv, DeliveredOK
  <2>2. NotYet' /\ RdmCallOK'
    BY <1>1, <1>2, <1>4 DEF OnceInv, NotYet, RdmCallOK
  <2> QED
    BY <1>1, <1>2, <1>3, <2>1, <2>2 DEF OnceInv
<1>5. CASE /\ Value(rdm.data[0]) = SC /\ ChecksumRight(rdm.data)
           /\ delivered' = delivered \cup {rdm.data[0][1].id}
  <2>1. Begun /\ ~Receiving /\ ~rdm.done
    BY <1>5, HandedOut
  <2>2. /\ Sent(rdm.data[0]) /\ rdm.data[0][2] = 0 /\ rdm.data[0][1].id \in Int
        /\ line.frame.id \in Int /\ line.pos \in Nat
    BY <2>1, DataFacts DEF OnceInv, BytesSent, Begun, ReceiverInv
  <2>3. DeliveredOK'
    BY <1>1, <1>5, <2>2 DEF OnceInv, DeliveredOK, Sent
  <2>4. NotYet' /\ RdmCallOK'
    BY <1>1, <1>2, <2>1 DEF NotYet, RdmCallOK
  <2> QED
    BY <1>1, <1>2, <1>3, <2>1, <2>3, <2>4 DEF OnceInv
<1> QED
  BY <1>1, <1>4, <1>5

LEMMA OnceInitially == Init => OnceInv
<1> SUFFICES ASSUME Init PROVE OnceInv
  OBVIOUS
<1>1. /\ state = "idle" /\ rdm.done = FALSE /\ line.frame = Idle /\ line.pos = 0 /\ pc = "main"
      /\ delivered = {} /\ \A i \in 0..(RdmSize - 1) : rdm.data[i] = Empty
  BY DEF Init
<1>2. /\ Empty[1] = Idle /\ Empty[2] = 0 /\ Idle.id = 0 /\ Idle.kind = "none"
  BY DEF Empty, Idle
<1>3. ~Receiving /\ ~InRdmCall
  BY <1>1 DEF Receiving, InRdmCall, Message
<1>4. BytesSent
  BY <1>1, <1>2 DEF BytesSent, Sent, Long
<1>5. DeliveredOK /\ Long(line.frame)
  BY <1>1, <1>2 DEF DeliveredOK, Long
<1>6. NotYet /\ RdmCallOK
  BY <1>1, <1>3 DEF NotYet, RdmCallOK
<1> QED
  BY <1>3, <1>4, <1>5, <1>6 DEF OnceInv

\* No RDM message is handed out twice by RdmReceive(), for messages, buffers and frames of any
\* length and a port turned round at any time, as long as fewer interrupts come in the middle
\* of the call than the shortest message has bytes.
THEOREM HandedOutOnce ==
    ASSUME Interrupts < MinLength + 2
    PROVE  Spec => RdmOnce
<1>1. OnceInv /\ ReceiverInv /\ [Next]_vars => OnceInv'
  BY FrameStartOnce, FrameByteOnce, LineIdleOnce, OtherOnce, DmxCallOnce, RdmTestOnce,
     RdmClearOnce, RdmCheckOnce DEF Next, Line, Poll
<1>2. ASSUME OnceInv, ReceiverInv, [Next]_vars, pc = "rdmCheck", got'.what = "rdm"
      PROVE  got'.frame.id \notin delivered
  <2>1. got.what = "none"
    BY <1>2 DEF OnceInv, RdmCallOK, InRdmCall, Nothing
  <2>2. got' = got \/ RdmCheck
    BY <1>2 DEF Next, Line, Poll, FrameStart, FrameByte, FrameCut, LineIdle, Interrupt, DmxLoad,
                DmxStore, DmxCopy, RdmTest, RdmClear, Disable, TurnToOutput, Enable, vars, consumer
  <2>3. RdmCheck
    BY <1>2, <2>1, <2>2
  <2>4. Value(rdm.data[0]) = SC /\ ChecksumRight(rdm.data) /\ got'.frame = rdm.data[0][1]
    BY <1>2, <2>3 DEF RdmCheck, Nothing
  <2>5. Begun /\ InRdmCall
    BY <1>2, <2>3, <2>4, HandedOut DEF InRdmCall
  <2> QED
    BY <1>2, <2>4, <2>5 DEF OnceInv, NotYet
<1> QED
  BY <1>1, <1>2, OnceInitially, ReceiverInductive, PTL DEF Spec, RdmOnce

(***************************************************************************)
(* What is under way comes to its end.  That the line falls silent again   *)
(* and again stands for senders that end what they begin; that the port is *)
(* turned back is stated with its guard, for want of ENABLED.              *)
(***************************************************************************)
FallsSilent == []<>quiet
TurnsBack == []<>enabled \/ []<><<Enable>>_vars

UnderWay == state \in {"data", "disc"}

\* A port that hears the line receives nothing while it is silent.
SilentOK == UnderWay /\ quiet => ~enabled

\* Bytes, breaks and polling calls do not take a packet or a response for
\* anything else.
LEMMA UnderWayStep ==
    ASSUME [Next]_vars, UnderWay
    PROVE  UnderWay' \/ state' = "idle"
<1>1. ASSUME NEW b, Byte(b) PROVE UnderWay' \/ state' = "idle"
  BY <1>1 DEF Byte, FirstOfResponse, StartCode, DmxSlot, RdmSlot, RdmChecksum, ResponseSlot, UnderWay
<1>2. CASE Line
  <2>1. CASE FrameStart
    BY <2>1 DEF FrameStart, Interrupt, FramingError, rx, UnderWay
  <2>2. CASE FrameByte
    BY <2>2, <1>1 DEF FrameByte, Interrupt, rx, UnderWay
  <2>3. CASE FrameCut \/ LineIdle
    BY <2>3 DEF FrameCut, LineIdle, Interrupt, IdleLine, rx, UnderWay
  <2> QED
    BY <1>2, <2>1, <2>2, <2>3 DEF Line
<1>3. CASE Poll
  BY <1>3 DEF Poll, DmxLoad, DmxStore, DmxCopy, RdmTest, RdmClear, RdmCheck, rx, UnderWay
<1>4. CASE Disable \/ TurnToOutput \/ Enable \/ UNCHANGED vars
  BY <1>4 DEF Disable, TurnToOutput, Enable, rx, vars, UnderWay
<1> QED
  BY <1>2, <1>3, <1>4 DEF Next

LEMMA SilentStep ==
    ASSUME SilentOK, [Next]_vars
    PROVE  SilentOK'
<1> SUFFICES ASSUME UnderWay', quiet', enabled' PROVE FALSE
  BY DEF SilentOK
<1>1. CASE LineIdle
  BY <1>1 DEF LineIdle, Interrupt, IdleLine, EndsPacket, EndsResponse, rx, UnderWay
<1>2. CASE FrameStart \/ FrameByte
  BY <1>2 DEF FrameStart, FrameByte
<1>3. CASE FrameCut \/ Poll \/ TurnToOutput \/ UNCHANGED vars
  BY <1>3 DEF FrameCut, Poll, DmxLoad, DmxStore, DmxCopy, RdmTest, RdmClear, RdmCheck,
              TurnToOutput, rx, vars, UnderWay, SilentOK
<1>4. CASE Disable \/ Enable
  BY <1>4 DEF Disable, Enable, UnderWay
<1> QED
  BY <1>1, <1>2, <1>3, <1>4 DEF Next, Line

\* A port that is turned away stays so until it is turned back, which ends
\* what it was receiving.
LEMMA AwayStep ==
    ASSUME [Next]_vars, ~enabled
    PROVE  ~enabled' \/ state' = "idle"
BY DEF Next, Line, Poll, FrameStart, FrameByte, FrameCut, LineIdle, Interrupt, DmxLoad, DmxStore,
       DmxCopy, RdmTest, RdmClear, RdmCheck, Disable, TurnToOutput, Enable, vars

\* A DMX packet or a discovery response that is being received comes to its
\* end, cut short or not, however often the port is turned round meanwhile.
THEOREM AlwaysRecovers == Spec /\ FallsSilent /\ TurnsBack => Recovers
<1>1. Init => SilentOK
  BY DEF Init, SilentOK, UnderWay
<1>2. <<Enable>>_vars => (state = "idle")'
  BY DEF Enable
<1>3. UnderWay /\ [Next]_vars => UnderWay' \/ (state = "idle")'
  BY UnderWayStep
<1>4. SilentOK /\ [Next]_vars => SilentOK'
  BY SilentStep
<1>5. ~enabled /\ [Next]_vars => ~enabled' \/ (state = "idle")'
  BY AwayStep
<1>6. /\ UnderWay <=> state \in {"data", "disc"}
      /\ SilentOK => (UnderWay /\ quiet => ~enabled)
  BY DEF UnderWay, SilentOK
<1> QED
  BY <1>1, <1>2, <1>3, <1>4, <1>5, <1>6, PTL DEF Spec, FallsSilent, TurnsBack, Recovers
=============================================================================
