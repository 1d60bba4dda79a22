----------------------- MODULE DmxTransmitterProperties -----------------------
(***************************************************************************)
(* What the transmitter of a port guarantees on the line.                  *)
(***************************************************************************)
EXTENDS DmxTransmitter

Packet == 0..(Packets + 1)

TransmitterTypeOK ==
    /\ buf \in [{0, 1} -> [head : Packet, tail : Packet]]
    /\ read \in {0, 1} /\ write \in {0, 1} /\ pending \in BOOLEAN
    /\ state \in {"idle", "break", "mab", "inter"}
    /\ rdm \in {"idle", "break", "mab", "direction"}
    /\ port \in {"idle", "tx", "rx"} /\ direction \in {"input", "output"}
    /\ style \in {"delta", "constant"} /\ continuous \in BOOLEAN /\ started \in BOOLEAN
    /\ alarm \in BOOLEAN /\ dma.what \in {"none", "dmx", "rdm"}
    /\ packet \in 0..Packets /\ newest \in 0..Packets
    /\ {filled, hurried, clashed} \subseteq BOOLEAN

\* The end of a DMX frame, and the packet its last slots came from.
FrameEnds == dma.what = "dmx" /\ dma' = Nothing
Tail == buf[dma.from].tail

\* The two buffers keep the super-loop and the DMA apart: a frame that did not
\* begin in the middle of SetSendDataInternal() is one packet, the newest there
\* was when it began, however many packets were set while it went out; and one
\* that did begin there still ends with that packet or the one being copied,
\* never with an older one, unless FullOn() writes the buffer that is sent.
WholeFrame ==
    [][FrameEnds /\ ~dma.filled /\ ~dma.refilled =>
          /\ dma.calm => dma.head = dma.newest /\ Tail = dma.newest
          /\ Tail \in {dma.newest, dma.newest + 1}]_vars

\* The pin is low for a break only while the DMA sends nothing: no break cuts
\* into a frame, wherever in a frame, its break or its pause the port is stopped,
\* restarted or asked for RDM.  Excepted is what follows a break that was begun
\* while a request was out, or while a frame was out that the driver does not
\* wait for, until the next break that is begun rightly.  It does not wait on a
\* port whose state is kIdle, and not for the first port in constant style.
LineClean ==
    ~clashed /\ dma # Nothing => state # "break" /\ rdm # "break"

\* An RDM request is sent and then the port listens for the answer, unless a
\* break is begun in the middle of it, for DMX or for another request, or it was
\* itself begun while a frame was out, on a port whose state was kIdle.
RdmListens == rdm # "idle" ~> (rdm = "idle" /\ port = "rx") \/ clashed
=============================================================================
