---------------------------- MODULE DmxReceiver ----------------------------
(***************************************************************************)
(* The receiver of a DMX512/RDM port (lib-dmx/src/gd32/dmx.cpp): the       *)
(* interrupt handler takes bytes, breaks and idle lines from the UART, the *)
(* super-loop polls for a DMX packet or an RDM message.  The two share the *)
(* receive buffer and nothing protects it.                                 *)
(*                                                                         *)
(* A byte on the line is <<frame, pos>>: which frame and which slot of it. *)
(* Buffers hold such bytes, so a packet put together from two is seen.     *)
(***************************************************************************)
EXTENDS Naturals

CONSTANTS
    MaxSlots,      \* kChannelsMax
    MinLength,     \* e120::kMessageLengthMin
    RdmSize,       \* sizeof(TRdmMessage): the longest message and its checksum
    DiscMax,       \* the longest discovery response the receiver keeps
    FrameKinds,    \* a subset of {"dmx", "rdm", "disc", "other"}
    Lengths,       \* slots of a DMX packet, message_length of an RDM message
    Frames,        \* bound: how many frames are told apart
    IdleBetween,   \* the line is idle for a slot time between two frames
    Gaps,          \* and may be so between two slots
    Interrupts     \* bound: how many interrupts come in the middle of a call

ASSUME ReceiverAssumption ==
    /\ MaxSlots \in Nat \ {0} /\ MinLength \in Nat /\ MinLength > 2
    /\ RdmSize \in Nat /\ RdmSize >= MinLength + 2
    /\ DiscMax \in 1..RdmSize /\ Frames \in Nat \ {0}
    /\ FrameKinds \subseteq {"dmx", "rdm", "disc", "other"}
    /\ Lengths \subseteq 1..(RdmSize - 2)
    /\ {IdleBetween, Gaps} \subseteq BOOLEAN /\ Interrupts \in Nat

SC == 204          \* E120_SC_RDM
NSC == 0           \* kStartCode

\* A start code in the place of a length is a length like any other: with its
\* checksum it fits (the longest, 255, makes 257 bytes) or it is too long.
ASSUME LengthAssumption == RdmSize \notin {SC, SC + 1}

VARIABLES
    state,       \* rx_buffer.state
    dmx,         \* rx_buffer.dmx.current: data, slots_in_packet without and with its flag
    rdm,         \* rx_buffer.rdm: data[sizeof(TRdmMessage)], index without and with its flag
    enabled,     \* the port hears the line and its interrupts are on
    line,        \* the frame on the line and its next slot
    quiet,       \* the idle line was seen since the last byte
    pc,          \* where the polling call of the super-loop is
    taken,       \* interrupts since it began
    raced,       \* whether one ever came in the middle of a call
    loaded,      \* its local variable slots_in_packet
    got,         \* what the last call returned
    delivered    \* RDM messages returned so far

rx == <<state, dmx, rdm>>
consumer == <<pc, taken, raced, loaded, got, delivered>>
vars == <<rx, enabled, line, quiet, consumer>>

Idle == [kind |-> "none", id |-> 0, len |-> 0]
Nothing == [what |-> "none"]
Empty == <<Idle, 0>>

\* The slots of a frame, its start code and checksum included.
Slots(f) == CASE f.kind \in {"dmx", "other"} -> 1 + f.len
              [] f.kind = "rdm" -> f.len + 2
              [] OTHER -> DiscMax

\* The value of a byte, as far as the receiver looks at it.
Value(b) == CASE b[1].kind = "none" -> NSC
              [] b[2] = 0 /\ b[1].kind = "rdm" -> SC
              [] b[2] = 0 /\ b[1].kind = "dmx" -> NSC
              [] b[2] = 2 /\ b[1].kind = "rdm" -> b[1].len
              [] OTHER -> 1

Init ==
    /\ state = "idle"
    /\ dmx = [data |-> [i \in 0..MaxSlots |-> Empty], slots |-> 0, done |-> FALSE]
    /\ rdm = [data |-> [i \in 0..(RdmSize - 1) |-> Empty], index |-> 0, done |-> FALSE]
    /\ enabled = TRUE
    /\ line = [frame |-> Idle, pos |-> 0] /\ quiet = TRUE
    /\ pc = "main" /\ taken = 0 /\ raced = FALSE /\ loaded = 0 /\ got = Nothing /\ delivered = {}

(***************************************************************************)
(* IrqHandlerDmxRdmInput().                                                *)
(***************************************************************************)
Store(buffer, i, b) == [buffer EXCEPT !.data[i] = b]

\* Variant that must break WholePacket: the idle line ends no packet.
DeafToIdle(s) == FALSE

\* The idle line ends a DMX packet.
EndsPacket(s) == s = "data"

\* Variant that must break Recovers: the idle line ends no response.
EndlessResponse(s) == FALSE

\* The idle line ends a discovery response, and whatever is taken for one.
EndsResponse(s) == s = "disc"

IdleLine ==
    /\ \/ EndsPacket(state) /\ state' = "idle"
          /\ dmx' = [dmx EXCEPT !.done = TRUE] /\ UNCHANGED rdm
       \/ EndsResponse(state) /\ state' = "idle"
          /\ rdm' = [rdm EXCEPT !.done = TRUE] /\ UNCHANGED dmx
       \/ ~EndsPacket(state) /\ ~EndsResponse(state) /\ UNCHANGED rx

FramingError ==
    /\ state' = IF state = "idle" THEN "break" ELSE state
    /\ UNCHANGED <<dmx, rdm>>

FirstOfResponse(b) ==
    /\ state = "idle" /\ state' = "disc"
    /\ rdm' = [Store(rdm, 0, b) EXCEPT !.index = 1, !.done = FALSE]
    /\ UNCHANGED dmx

\* Variant that must break InStep: the start code is not counted.
StartUncounted == 0

\* The start code is the first slot.
FirstIndex == 1

StartCode(b) ==
    /\ state = "break"
    /\ \/ /\ Value(b) = NSC /\ state' = "data"
          /\ dmx' = [Store(dmx, 0, b) EXCEPT !.slots = FirstIndex, !.done = FALSE]
          /\ UNCHANGED rdm
       \/ /\ Value(b) = SC /\ state' = "rdm"
          /\ rdm' = [Store(rdm, 0, b) EXCEPT !.index = FirstIndex, !.done = FALSE]
          /\ UNCHANGED dmx
       \/ /\ Value(b) \notin {NSC, SC} /\ state' = "idle"
          /\ dmx' = [dmx EXCEPT !.slots = 0, !.done = FALSE]
          /\ rdm' = [rdm EXCEPT !.index = 0, !.done = FALSE]

DmxSlot(b) ==
    /\ state = "data"
    /\ LET n == dmx.slots + 1
       IN  /\ dmx' = [Store(dmx, dmx.slots, b) EXCEPT !.slots = n, !.done = n > MaxSlots]
           /\ state' = IF n > MaxSlots THEN "idle" ELSE "data"
    /\ UNCHANGED rdm

\* Variant that must break ReceiverTypeOK: the length alone ends a message.
EndsByLength(n) == FALSE

\* A message longer than the buffer is given up.
TooLong(n) == n > RdmSize

\* The byte is stored before its index is looked at: that of a message without
\* end goes to the byte behind the array, which is padding that nothing reads.
Spilled(buffer, i, b) == IF i = RdmSize THEN buffer ELSE Store(buffer, i, b)

RdmSlot(b) ==
    /\ state = "rdm"
    /\ rdm' = [Spilled(rdm, rdm.index, b) EXCEPT !.index = @ + 1]
    /\ LET n == rdm'.index
       IN  state' = CASE n \in MinLength..RdmSize /\ n = Value(rdm'.data[2]) -> "sumh"
                      [] TooLong(n) -> "idle"
                      [] OTHER -> "rdm"
    /\ UNCHANGED dmx

RdmChecksum(b) ==
    /\ \/ /\ state = "sumh" /\ state' = "suml"
          /\ rdm' = [Store(rdm, rdm.index, b) EXCEPT !.index = @ + 1]
       \/ /\ state = "suml" /\ state' = "idle"
          /\ rdm' = [Store(rdm, rdm.index, b) EXCEPT !.done = TRUE]
    /\ UNCHANGED dmx

ResponseSlot(b) ==
    /\ state = "disc" /\ state' = state
    /\ rdm' = IF rdm.index < DiscMax THEN [Store(rdm, rdm.index, b) EXCEPT !.index = @ + 1]
              ELSE rdm
    /\ UNCHANGED dmx

Byte(b) == \/ FirstOfResponse(b) \/ StartCode(b) \/ DmxSlot(b)
           \/ RdmSlot(b) \/ RdmChecksum(b) \/ ResponseSlot(b)

(***************************************************************************)
(* The line.  What comes while the interrupts are off is lost.             *)
(***************************************************************************)
Interrupt(handler) ==
    /\ \/ pc = "main" /\ taken' = 0
       \/ pc # "main" /\ taken < Interrupts /\ taken' = taken + 1
    /\ raced' = (raced \/ pc # "main")
    /\ IF enabled THEN handler ELSE UNCHANGED rx
    /\ UNCHANGED <<enabled, pc, loaded, got>>

\* What senders send: 1 to 512 slots, messages of 24 to 255 bytes.
NewFrames(id) ==
    { f \in [kind : FrameKinds, id : {id}, len : Lengths] :
        IF f.kind = "rdm" THEN f.len >= MinLength ELSE f.len <= MaxSlots }

\* A frame begins, with a break unless it is a discovery response.
FrameStart ==
    /\ line.pos = 0 /\ (IdleBetween => quiet)
    /\ line.frame.id < Frames
    /\ \E f \in NewFrames(line.frame.id + 1) :
          /\ Interrupt(IF f.kind = "disc" THEN UNCHANGED rx ELSE FramingError)
          /\ line' = [frame |-> f, pos |-> 1]
    /\ quiet' = FALSE /\ UNCHANGED delivered

\* line.pos is one more than the slot that comes next, 0 between frames.
FrameByte ==
    /\ line.pos # 0
    /\ Interrupt(Byte(<<line.frame, line.pos - 1>>))
    /\ line' = [line EXCEPT !.pos = IF @ = Slots(line.frame) THEN 0 ELSE @ + 1]
    /\ quiet' = FALSE /\ UNCHANGED delivered

\* The sender stops in the middle of a frame.
FrameCut ==
    /\ line.pos > 1
    /\ line' = [line EXCEPT !.pos = 0]
    /\ UNCHANGED <<rx, enabled, quiet, consumer>>

LineIdle ==
    /\ ~quiet /\ (line.pos = 0 \/ (Gaps /\ line.pos > 1))
    /\ Interrupt(IdleLine)
    /\ quiet' = TRUE /\ UNCHANGED <<line, delivered>>

(***************************************************************************)
(* The super-loop.                                                         *)
(***************************************************************************)
\* GetDmxAvailable(), as far as the test of the flag.
DmxLoad ==
    /\ pc = "main" /\ dmx.done
    /\ loaded' = dmx.slots /\ pc' = "dmxStore" /\ got' = Nothing
    /\ taken' = 0 /\ UNCHANGED <<rx, enabled, line, quiet, raced, delivered>>

\* Its end: the flag is cleared by storing the length it loaded.
DmxStore ==
    /\ pc = "dmxStore"
    /\ dmx' = [dmx EXCEPT !.slots = loaded - 1, !.done = FALSE]
    /\ pc' = "dmxCopy"
    /\ UNCHANGED <<state, rdm, enabled, line, quiet, taken, raced, loaded, got, delivered>>

\* The first n bytes of a buffer are those of the frame that begins it.
Whole(data, n) == \A i \in 0..(n - 1) : data[i] = <<data[0][1], i>>

\* The caller reads length and data through the pointer it was given.
DmxCopy ==
    /\ pc = "dmxCopy" /\ pc' = "main"
    /\ got' = [what |-> "dmx", slots |-> dmx.slots, frame |-> dmx.data[0][1],
               whole |-> dmx.slots <= MaxSlots /\ Whole(dmx.data, dmx.slots + 1)]
    /\ UNCHANGED <<rx, enabled, line, quiet, taken, raced, loaded, delivered>>

\* Variant that must break RdmOnce: the flag is not cleared.
FlagKept == rdm

\* The index and its flag are cleared before the message is looked at.
Cleared == [rdm EXCEPT !.index = 0, !.done = FALSE]

\* RdmReceive(), in three steps: the test, the clearing, the checksum.
RdmTest ==
    /\ pc = "main" /\ rdm.done
    /\ pc' = "rdmClear" /\ got' = Nothing
    /\ taken' = 0 /\ UNCHANGED <<rx, enabled, line, quiet, raced, loaded, delivered>>

RdmClear ==
    /\ pc = "rdmClear" /\ pc' = "rdmCheck"
    /\ rdm' = Cleared
    /\ UNCHANGED <<state, dmx, enabled, line, quiet, taken, raced, loaded, got, delivered>>

\* The checksum is right: all bytes are those of the message data[0] began.
ChecksumRight(data) == Whole(data, data[0][1].len + 2)

RdmCheck ==
    /\ pc = "rdmCheck" /\ pc' = "main"
    /\ \/ /\ Value(rdm.data[0]) # SC
          /\ got' = [what |-> "response"]
          /\ UNCHANGED delivered
       \/ /\ Value(rdm.data[0]) = SC /\ ChecksumRight(rdm.data)
          /\ got' = [what |-> "rdm", frame |-> rdm.data[0][1]]
          /\ delivered' = delivered \cup {rdm.data[0][1].id}
       \/ /\ Value(rdm.data[0]) = SC /\ ~ChecksumRight(rdm.data)
          /\ got' = Nothing /\ UNCHANGED delivered
    /\ UNCHANGED <<rx, enabled, line, quiet, taken, raced, loaded>>

\* SetPortDirection() of an input port without data: DataDisable().
Disable ==
    /\ pc = "main" /\ enabled
    /\ enabled' = FALSE /\ state' = "idle"
    /\ UNCHANGED <<dmx, rdm, line, quiet, consumer>>

\* SetPortDirection() to output: DataDisable() sees the new direction and leaves
\* the receiver as it is; the transceiver hears nothing any more.
TurnToOutput ==
    /\ pc = "main" /\ enabled
    /\ enabled' = FALSE
    /\ UNCHANGED <<rx, line, quiet, consumer>>

\* SetPortDirection() to input: DataEnable().  After an RDM request it is the
\* timer interrupt that does so, in the middle of any call.
Enable ==
    /\ ~enabled
    /\ enabled' = TRUE /\ state' = "idle"
    /\ UNCHANGED <<dmx, rdm, line, quiet, consumer>>

Poll == DmxLoad \/ DmxStore \/ DmxCopy \/ RdmTest \/ RdmClear \/ RdmCheck

Line == FrameStart \/ FrameByte \/ FrameCut \/ LineIdle

Next == Line \/ Poll \/ Disable \/ TurnToOutput \/ Enable

Spec == Init /\ [][Next]_vars

\* Senders end the frames they begin, the line goes idle, and a polling call
\* comes to its end.
FairSpec ==
    /\ Spec
    /\ WF_vars(FrameByte) /\ WF_vars(LineIdle)
    /\ WF_vars(Poll) /\ WF_vars(Enable)
=============================================================================
