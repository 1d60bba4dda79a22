------------------------ MODULE DmxReceiverProperties ------------------------
(***************************************************************************)
(* What the receiver of a port guarantees those who poll it.               *)
(***************************************************************************)
EXTENDS DmxReceiver

AnyFrame == [kind : FrameKinds, id : 1..Frames, len : Lengths]

Bytes == { <<f, i>> : f \in AnyFrame, i \in 0..(RdmSize + MaxSlots) } \cup {Empty}

\* Bytes go where there is room for them: DMX slots and the checksum of an RDM
\* message inside their buffer, the slots of a message without end as far as the
\* one byte behind it (RdmSize), which kRdmData writes before it tests the index.
ReceiverTypeOK ==
    /\ state \in {"idle", "break", "data", "rdm", "sumh", "suml", "disc"}
    /\ ~raced => dmx.slots \in 0..(MaxSlots + 1) /\ loaded \in 0..(MaxSlots + 1)
    /\ \A i \in 0..MaxSlots : dmx.data[i] \in Bytes
    /\ rdm.data \in [0..(RdmSize - 1) -> Bytes]
    /\ rdm.index \in 0..(RdmSize + 1)
    /\ ~raced /\ state = "data" => dmx.slots <= MaxSlots
    /\ state = "rdm" => rdm.index <= RdmSize
    /\ state \in {"sumh", "suml"} => rdm.index < RdmSize
    /\ dmx.done \in BOOLEAN /\ rdm.done \in BOOLEAN
    /\ enabled \in BOOLEAN /\ quiet \in BOOLEAN
    /\ line.frame \in AnyFrame \cup {Idle} /\ line.pos \in 0..Slots(line.frame)
    /\ pc \in {"main", "dmxStore", "dmxCopy", "rdmClear", "rdmCheck"}
    /\ taken \in 0..Interrupts /\ raced \in BOOLEAN /\ delivered \subseteq 1..Frames

\* While the packet that is being received is the frame on the line, the buffer
\* holds the slots the line has sent of it, no more, no less, and in order:
\* whatever was truncated, swallowed or switched off before, as long as no
\* interrupt came in the middle of a call.
InStep ==
    ~raced /\ enabled =>
    /\ state = "data" /\ dmx.data[0] = <<line.frame, 0>> /\ line.pos # 0 =>
          /\ dmx.slots = line.pos - 1
          /\ \A i \in 0..(dmx.slots - 1) : dmx.data[i] = <<line.frame, i>>
    /\ state \in {"rdm", "sumh", "suml"} /\ rdm.data[0] = <<line.frame, 0>> /\ line.pos # 0 =>
          /\ rdm.index = line.pos - 1
          /\ \A i \in 0..(rdm.index - 1) : rdm.data[i] = <<line.frame, i>>

\* A DMX packet handed out is the packet one sender sent, from its start code
\* to the last slot before the line went idle, never slots of two packets, as
\* long as no interrupt came in the middle of a call.
WholePacket ==
    got.what = "dmx" /\ ~raced => got.whole /\ got.slots <= got.frame.len

\* No RDM message is handed out twice, even when the interrupt handler runs
\* between the steps of RdmReceive().
RdmOnce ==
    [][pc = "rdmCheck" /\ got'.what = "rdm" => got'.frame.id \notin delivered]_vars

\* A packet or a discovery response under way comes to its end, whether it is
\* complete, cut short, or the port is turned round in the middle of it.
Recovers == state \in {"data", "disc"} ~> state = "idle"
=============================================================================
