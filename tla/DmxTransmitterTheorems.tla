----------------------- MODULE DmxTransmitterTheorems -----------------------
(***************************************************************************)
(* The safety of the transmitter: the breaks on the line and the two       *)
(* buffers, for any number of packets and any interleaving of the          *)
(* super-loop with the timer and the DMA.                                  *)
(***************************************************************************)
EXTENDS DmxTransmitterProperties, TLAPS

(***************************************************************************)
(* Control: where the super-loop is, and what the DMA can be sending.      *)
(***************************************************************************)
Copying == pc \in {"head", "tail"}
Setting == pc \in {"flip", "head", "tail"}

DmxFrame == [what : {"dmx"}, head : Packet, from : {0, 1}, newest : 0..Packets,
             calm : BOOLEAN, filled : BOOLEAN, refilled : BOOLEAN]
RdmFrame == [what |-> "rdm"]

ControlOK ==
    /\ pc \in {"main", "flip", "head", "tail", "direct", "wait", "start", "waitRdm", "startRdm",
               "drain", "drainTC", "drained", "enable", "fill"}
    /\ then \in {"main", "direct", "wait", "waitRdm", "enable", "fill"}
    /\ Setting => then \in {"direct", "main"}
    /\ dma \in {Nothing, RdmFrame} \cup DmxFrame

\* A break is begun only where the machine was found idle, or the call did not
\* wait; if the DMA sends by then, it was the timer that began it.
BeginInv ==
    /\ pc \in {"wait", "start", "waitRdm", "startRdm"} /\ ~hurried => state = "idle"
    /\ pc \in {"start", "startRdm"} /\ dma # Nothing =>
          state = "mab" \/ (state = "idle" /\ rdm = "mab")

\* What keeps the line clean: DMX and RDM are not at work together, and the timer
\* that ends a break runs only while the DMA is silent.
LineInv == ~clashed =>
    /\ state # "idle" => rdm = "idle"
    /\ state \in {"break", "inter"} => dma = Nothing
    /\ state = "mab" /\ alarm => dma = Nothing
    /\ rdm \in {"break", "direction"} => dma = Nothing
    /\ rdm = "mab" /\ alarm => dma = Nothing

(***************************************************************************)
(* Data: the buffers.                                                      *)
(***************************************************************************)
\* The counters of packets and the buffer being filled.
BuffersInv ==
    /\ packet = IF Setting THEN newest + 1 ELSE newest
    /\ pc = "flip" => read = write
    /\ pc = "tail" => buf[write].head = packet
    /\ ~filled /\ ~Copying => buf[write].head = newest /\ buf[write].tail = newest

\* The frame going out is of the buffer at the read index.  It can be the one
\* being filled only if it began after the super-loop had chosen that buffer.
FrameInv == dma.what = "dmx" =>
    /\ dma.from = read
    /\ Copying /\ read = write => ~dma.calm /\ dma.newest = newest
    /\ ~dma.filled /\ ~dma.refilled =>
          /\ dma.calm => dma.head = dma.newest /\ buf[read].tail = dma.newest
          /\ \/ buf[read].tail \in {dma.newest, dma.newest + 1}
             \/ Copying /\ read = write

TransmitterInv == TransmitterTypeOK /\ ControlOK /\ BeginInv /\ LineInv /\ BuffersInv /\ FrameInv

LEMMA PacketFacts == Packets \in Nat /\ Packet = 0..(Packets + 1)
BY TransmitterAssumption DEF Packet

LEMMA DmaWhat ==
    ASSUME ControlOK
    PROVE  /\ dma = Nothing <=> dma.what = "none"
           /\ dma.what = "dmx" => dma \in DmxFrame
           /\ dma.what \in {"none", "dmx", "rdm"}
BY DEF ControlOK, Nothing, RdmFrame, DmxFrame

\* The node starts with an empty packet and a silent line.
THEOREM TransmitterInitially == Init => TransmitterInv
<1> SUFFICES ASSUME Init PROVE TransmitterInv
  OBVIOUS
<1>1. TransmitterTypeOK
  <2>1. Blank \in [head : Packet, tail : Packet]
    BY PacketFacts DEF Blank
  <2>2. buf \in [{0, 1} -> [head : Packet, tail : Packet]]
    BY <2>1 DEF Init
  <2>3. packet \in 0..Packets /\ newest \in 0..Packets
    BY PacketFacts DEF Init
  <2>4. pending \in BOOLEAN /\ {filled, hurried, clashed} \subseteq BOOLEAN
    BY DEF Init
  <2>5. continuous \in BOOLEAN /\ started \in BOOLEAN /\ alarm \in BOOLEAN
    BY DEF Init
  <2>6. dma.what = "none"
    BY DEF Init, Nothing
  <2> QED
    BY <2>2, <2>3, <2>4, <2>5, <2>6 DEF Init, TransmitterTypeOK
<1>2. ControlOK
  BY DEF Init, ControlOK, Setting
<1>3. BeginInv /\ LineInv
  BY DEF Init, BeginInv, LineInv
<1>4. FrameInv
  BY DEF Init, FrameInv, Nothing
<1>5. BuffersInv
  BY DEF Init, BuffersInv, Setting, Copying, Blank
<1> QED
  BY <1>1, <1>2, <1>3, <1>4, <1>5 DEF TransmitterInv

(***************************************************************************)
(* The interrupts.                                                         *)
(***************************************************************************)
\* The timer ends the mark-after-break and the DMA takes the head of a buffer.
LEMMA FrameBegins ==
    ASSUME TransmitterInv, read' = Flipped, dma' = DmxHead,
           UNCHANGED <<buf, write, call, ghost>>
    PROVE  /\ read' = write /\ read' \in {0, 1} /\ dma' \in DmxFrame
           /\ FrameInv'
<1>t. /\ buf \in [{0, 1} -> [head : Packet, tail : Packet]]
      /\ read \in {0, 1} /\ write \in {0, 1} /\ newest \in 0..Packets /\ filled \in BOOLEAN
  BY DEF TransmitterInv, TransmitterTypeOK
<1>1. read' = write /\ read' \in {0, 1}
  BY <1>t DEF Flipped
<1>2. dma' \in DmxFrame
  BY <1>t, <1>1 DEF DmxHead, DmxFrame
<1>3. /\ dma'.what = "dmx" /\ dma'.head = buf[write].head /\ dma'.from = write
      /\ dma'.newest = newest /\ dma'.calm = ~Setting /\ dma'.filled = filled /\ dma'.refilled = FALSE
  BY <1>1 DEF DmxHead, Setting
<1>4. Copying => Setting
  BY DEF Copying, Setting
<1>5. ~filled /\ ~Copying => buf[write].head = newest /\ buf[write].tail = newest
  BY DEF TransmitterInv, BuffersInv
<1>6. Copying' = Copying
  BY DEF Copying, call
<1> QED
  BY <1>1, <1>2, <1>3, <1>4, <1>5, <1>6 DEF FrameInv, ghost

LEMMA TimerStep ==
    ASSUME TransmitterInv, TimerInterrupt
    PROVE  TransmitterInv'
<1> USE DEF TransmitterInv, buffers, machine, config, call, ghost
<1>0. alarm /\ UNCHANGED <<buf, write, pending, config, call, ghost>>
  BY DEF TimerInterrupt
<1>1. ASSUME state # "idle", state = "mab", read' = Flipped, dma' = DmxHead, alarm' = FALSE,
             UNCHANGED <<state, rdm, port, direction>>
      PROVE  TransmitterInv'
  <2>1. read' = write /\ read' \in {0, 1} /\ dma' \in DmxFrame /\ FrameInv'
    BY <1>0, <1>1, FrameBegins
  <2>2. TransmitterTypeOK'
    <3>1. dma'.what = "dmx" /\ alarm' = FALSE /\ read' \in {0, 1}
      BY <1>1, <2>1 DEF DmxFrame
    <3>2. UNCHANGED <<buf, write, pending, state, rdm, port, direction, style, continuous, started>>
      BY <1>0, <1>1
    <3>3. UNCHANGED <<packet, newest, filled, hurried, clashed>>
      BY <1>0
    <3> QED
      <4>1. /\ buf' \in [{0, 1} -> [head : Packet, tail : Packet]]
            /\ write' \in {0, 1} /\ pending' \in BOOLEAN
        BY <3>2 DEF TransmitterTypeOK
      <4>2. /\ packet' \in 0..Packets /\ newest' \in 0..Packets
            /\ {filled', hurried', clashed'} \subseteq BOOLEAN
        BY <3>3 DEF TransmitterTypeOK
      <4> QED
        BY <3>1, <3>2, <4>1, <4>2 DEF TransmitterTypeOK
  <2>3. ControlOK'
    BY <1>0, <2>1 DEF ControlOK, Setting
  <2>4. BeginInv' /\ LineInv'
    BY <1>0, <1>1 DEF BeginInv, LineInv
  <2>5. BuffersInv'
    BY <1>0, <2>1 DEF BuffersInv, Setting, Copying
  <2> QED
    BY <2>1, <2>2, <2>3, <2>4, <2>5
<1>2. ASSUME read' = read, dma' = dma \/ (state = "idle" /\ rdm = "mab" /\ dma' = RdmFrame),
             TransmitterTypeOK'
      PROVE  ControlOK' /\ BuffersInv' /\ FrameInv'
  <2>1. ControlOK'
    BY <1>0, <1>2 DEF ControlOK, Setting
  <2>2. BuffersInv'
    BY <1>0, <1>2 DEF BuffersInv, Setting, Copying
  <2>3. FrameInv'
    BY <1>0, <1>2 DEF FrameInv, RdmFrame, Copying
  <2> QED
    BY <2>1, <2>2, <2>3
<1>3. ASSUME state # "idle", UNCHANGED <<rdm, port, direction, read, dma>>, alarm' = TRUE,
             \/ state = "inter" /\ state' = "break"
             \/ state = "break" /\ state' = "mab"
      PROVE  TransmitterInv'
  <2>1. TransmitterTypeOK'
    BY <1>0, <1>3 DEF TransmitterTypeOK
  <2>2. BeginInv' /\ LineInv'
    BY <1>0, <1>3 DEF BeginInv, LineInv
  <2> QED
    BY <1>2, <1>3, <2>1, <2>2
<1>4. CASE RdmTimer
  <2>1. TransmitterTypeOK'
    <3>1. /\ rdm' \in {"idle", "break", "mab", "direction"} /\ alarm' \in BOOLEAN
          /\ port' \in {"idle", "tx", "rx"} /\ direction' \in {"input", "output"}
      BY <1>4 DEF TransmitterTypeOK, RdmTimer, TurnsRound
    <3>2. dma'.what \in {"none", "dmx", "rdm"} /\ read' = read /\ state' = state
      BY <1>4 DEF TransmitterTypeOK, RdmTimer, TurnsRound
    <3> QED
      BY <1>0, <3>1, <3>2 DEF TransmitterTypeOK
  <2>2. BeginInv' /\ LineInv'
    BY <1>0, <1>4 DEF BeginInv, LineInv, RdmTimer, TurnsRound
  <2>3. read' = read /\ (dma' = dma \/ (state = "idle" /\ rdm = "mab" /\ dma' = RdmFrame))
    BY <1>4 DEF RdmTimer, TurnsRound, RdmFrame
  <2> QED
    BY <1>2, <2>1, <2>2, <2>3
<1>5. CASE DmxTimer
  BY <1>1, <1>3, <1>5 DEF DmxTimer
<1> QED
  BY <1>4, <1>5 DEF TimerInterrupt

\* The DMA interrupt ends a frame: the DMA is silent, whatever follows.
LEMMA DmaStep ==
    ASSUME TransmitterInv, DmaInterrupt
    PROVE  TransmitterInv'
<1> USE DEF TransmitterInv, DmaInterrupt, Nothing, buffers, machine, config, call, ghost
<1>1. TransmitterTypeOK'
  <2>1. UNCHANGED <<buf, read, write, pending, port, direction, style, continuous, started>>
    OBVIOUS
  <2>2. UNCHANGED <<packet, newest, filled, hurried, clashed>> /\ dma'.what = "none"
    OBVIOUS
  <2>3. state' \in {state, "idle", "inter"} /\ rdm' \in {rdm, "direction"}
    OBVIOUS
  <2>4. alarm' \in {alarm, TRUE}
    OBVIOUS
  <2> HIDE DEF DmaInterrupt
  <2>5. /\ state' \in {"idle", "break", "mab", "inter"}
        /\ rdm' \in {"idle", "break", "mab", "direction"} /\ alarm' \in BOOLEAN
    BY <2>3, <2>4 DEF TransmitterTypeOK
  <2> QED
    BY <2>1, <2>2, <2>5 DEF TransmitterTypeOK
<1>2. ControlOK'
  BY DEF ControlOK, Setting
<1>3. BeginInv' /\ LineInv'
  BY DEF BeginInv, LineInv, ControlOK, TransmitterTypeOK, Setting
<1>4. BuffersInv'
  BY DEF BuffersInv, ControlOK, TransmitterTypeOK, Setting, Copying
<1>5. FrameInv'
  BY DEF FrameInv, BuffersInv, ControlOK, TransmitterTypeOK, Setting, Copying
<1> QED
  BY <1>1, <1>2, <1>3, <1>4, <1>5

(***************************************************************************)
(* The steps of the super-loop.                                            *)
(***************************************************************************)
LEMMA SetDataStep ==
    ASSUME TransmitterInv, NEW send \in {"direct", "main"}, SetData(send)
    PROVE  TransmitterInv'
<1> USE DEF TransmitterInv, SetData, buffers, machine, config, call, ghost
<1>1. TransmitterTypeOK'
  BY PacketFacts DEF TransmitterTypeOK
<1>2. ControlOK'
  BY DEF ControlOK, Setting
<1>3. BeginInv' /\ LineInv'
  BY DEF BeginInv, LineInv, ControlOK, TransmitterTypeOK, Setting
<1>4. BuffersInv'
  BY DEF BuffersInv, ControlOK, TransmitterTypeOK, Setting, Copying
<1>5. FrameInv'
  BY DEF FrameInv, BuffersInv, ControlOK, TransmitterTypeOK, Setting, Copying
<1> QED
  BY <1>1, <1>2, <1>3, <1>4, <1>5

LEMMA FlipStep ==
    ASSUME TransmitterInv, FlipWrite
    PROVE  TransmitterInv'
<1> USE DEF TransmitterInv, FlipWrite, Goto, OtherIndex, buffers, machine, config, call, ghost
<1>1. TransmitterTypeOK'
  BY PacketFacts DEF TransmitterTypeOK
<1>2. ControlOK'
  BY DEF ControlOK, Setting
<1>3. BeginInv' /\ LineInv'
  BY DEF BeginInv, LineInv, ControlOK, TransmitterTypeOK, Setting
<1>4. BuffersInv'
  BY DEF BuffersInv, ControlOK, TransmitterTypeOK, Setting, Copying
<1>5. FrameInv'
  BY DEF FrameInv, BuffersInv, ControlOK, TransmitterTypeOK, Setting, Copying
<1> QED
  BY <1>1, <1>2, <1>3, <1>4, <1>5

LEMMA HeadStep ==
    ASSUME TransmitterInv, CopyHead
    PROVE  TransmitterInv'
<1> USE DEF TransmitterInv, CopyHead, Goto, buffers, machine, config, call, ghost
<1>1. TransmitterTypeOK'
  BY PacketFacts DEF TransmitterTypeOK
<1>2. ControlOK'
  BY DEF ControlOK, Setting
<1>3. BeginInv' /\ LineInv'
  BY DEF BeginInv, LineInv, ControlOK, TransmitterTypeOK, Setting
<1>4. BuffersInv'
  BY DEF BuffersInv, ControlOK, TransmitterTypeOK, Setting, Copying
<1>5. FrameInv'
  BY DEF FrameInv, BuffersInv, ControlOK, TransmitterTypeOK, Setting, Copying
<1> QED
  BY <1>1, <1>2, <1>3, <1>4, <1>5

LEMMA TailStep ==
    ASSUME TransmitterInv, CopyTail
    PROVE  TransmitterInv'
<1> USE DEF TransmitterInv, CopyTail, Goto, buffers, machine, config, call, ghost
<1>1. TransmitterTypeOK'
  <2>1. buf' \in [{0, 1} -> [head : Packet, tail : Packet]]
    BY PacketFacts DEF TransmitterTypeOK
  <2>2. newest' \in 0..Packets
    BY DEF TransmitterTypeOK
  <2>3. filled' \in BOOLEAN /\ hurried' \in BOOLEAN /\ clashed' \in BOOLEAN
    BY DEF TransmitterTypeOK
  <2> QED
    BY <2>1, <2>2, <2>3 DEF TransmitterTypeOK
<1>2. ControlOK'
  BY DEF ControlOK, Setting
<1>3. BeginInv' /\ LineInv'
  BY DEF BeginInv, LineInv, ControlOK, TransmitterTypeOK, Setting
<1>4. BuffersInv'
  BY DEF BuffersInv, ControlOK, TransmitterTypeOK, Setting, Copying
<1>5. FrameInv'
  BY DEF FrameInv, BuffersInv, ControlOK, TransmitterTypeOK, Setting, Copying
<1> QED
  BY <1>1, <1>2, <1>3, <1>4, <1>5

LEMMA DirectStep ==
    ASSUME TransmitterInv, Direct
    PROVE  TransmitterInv'
<1> USE DEF TransmitterInv, Direct, CanStart, Goto, buffers, machine, config, call, ghost
<1>1. TransmitterTypeOK'
  <2>1. UNCHANGED <<buffers, machine, config, alarm, dma, packet, newest, filled, clashed>>
    OBVIOUS
  <2>2. hurried' \in {hurried, FALSE}
    OBVIOUS
  <2>3. hurried' \in BOOLEAN
    BY <2>2 DEF TransmitterTypeOK
  <2> HIDE DEF Direct, CanStart
  <2> QED
    BY <2>1, <2>3 DEF TransmitterTypeOK
<1>2. ControlOK'
  BY DEF ControlOK, Setting
<1>3. BeginInv' /\ LineInv'
  BY DEF BeginInv, LineInv, ControlOK, TransmitterTypeOK, Setting
<1>4. BuffersInv'
  BY DEF BuffersInv, ControlOK, TransmitterTypeOK, Setting, Copying
<1>5. FrameInv'
  BY DEF FrameInv, BuffersInv, ControlOK, TransmitterTypeOK, Setting, Copying
<1> QED
  BY <1>1, <1>2, <1>3, <1>4, <1>5

LEMMA SilentStep ==
    ASSUME TransmitterInv, LineSilent
    PROVE  TransmitterInv'
<1> USE DEF TransmitterInv, LineSilent, Goto, buffers, machine, config, call, ghost
<1>1. TransmitterTypeOK'
  BY PacketFacts DEF TransmitterTypeOK
<1>2. ControlOK'
  BY DEF ControlOK, Setting
<1>3. BeginInv' /\ LineInv'
  BY DEF BeginInv, LineInv, ControlOK, TransmitterTypeOK, Setting
<1>4. BuffersInv'
  BY DEF BuffersInv, ControlOK, TransmitterTypeOK, Setting, Copying
<1>5. FrameInv'
  BY DEF FrameInv, BuffersInv, ControlOK, TransmitterTypeOK, Setting, Copying
<1> QED
  BY <1>1, <1>2, <1>3, <1>4, <1>5

LEMMA StartDmxStep ==
    ASSUME TransmitterInv, StartDmxOutput
    PROVE  TransmitterInv'
<1> USE DEF TransmitterInv, StartDmxOutput, Clashes, Goto, buffers, machine, config, call, ghost
<1>1. TransmitterTypeOK'
  BY PacketFacts DEF TransmitterTypeOK
<1>2. ControlOK'
  BY DEF ControlOK, Setting
<1>3. BeginInv' /\ LineInv'
  BY DEF BeginInv, LineInv, ControlOK, TransmitterTypeOK, Setting
<1>4. BuffersInv'
  BY DEF BuffersInv, ControlOK, TransmitterTypeOK, Setting, Copying
<1>5. FrameInv'
  BY DEF FrameInv, BuffersInv, ControlOK, TransmitterTypeOK, Setting, Copying
<1> QED
  BY <1>1, <1>2, <1>3, <1>4, <1>5

LEMMA StartRdmStep ==
    ASSUME TransmitterInv, StartRdmOutput
    PROVE  TransmitterInv'
<1> USE DEF TransmitterInv, StartRdmOutput, Clashes, Goto, buffers, machine, config, call, ghost
<1>1. TransmitterTypeOK'
  BY PacketFacts DEF TransmitterTypeOK
<1>2. ControlOK'
  BY DEF ControlOK, Setting
<1>3. BeginInv' /\ LineInv'
  BY DEF BeginInv, LineInv, ControlOK, TransmitterTypeOK, Setting
<1>4. BuffersInv'
  BY DEF BuffersInv, ControlOK, TransmitterTypeOK, Setting, Copying
<1>5. FrameInv'
  BY DEF FrameInv, BuffersInv, ControlOK, TransmitterTypeOK, Setting, Copying
<1> QED
  BY <1>1, <1>2, <1>3, <1>4, <1>5

LEMMA DrainStep ==
    ASSUME TransmitterInv, Drain
    PROVE  TransmitterInv'
<1> USE DEF TransmitterInv, Drain, Goto, buffers, machine, config, call, ghost
<1>1. TransmitterTypeOK'
  BY PacketFacts DEF TransmitterTypeOK
<1>2. ControlOK'
  BY DEF ControlOK, Setting
<1>3. BeginInv' /\ LineInv'
  BY DEF BeginInv, LineInv, ControlOK, TransmitterTypeOK, Setting
<1>4. BuffersInv'
  BY DEF BuffersInv, ControlOK, TransmitterTypeOK, Setting, Copying
<1>5. FrameInv'
  BY DEF FrameInv, BuffersInv, ControlOK, TransmitterTypeOK, Setting, Copying
<1> QED
  BY <1>1, <1>2, <1>3, <1>4, <1>5

LEMMA DrainedStep ==
    ASSUME TransmitterInv, Drained
    PROVE  TransmitterInv'
<1> USE DEF TransmitterInv, Drained, Goto, buffers, machine, config, call, ghost
<1>1. TransmitterTypeOK'
  BY PacketFacts DEF TransmitterTypeOK
<1>2. ControlOK'
  BY DEF ControlOK, Setting
<1>3. BeginInv' /\ LineInv'
  BY DEF BeginInv, LineInv, ControlOK, TransmitterTypeOK, Setting
<1>4. BuffersInv'
  BY DEF BuffersInv, ControlOK, TransmitterTypeOK, Setting, Copying
<1>5. FrameInv'
  BY DEF FrameInv, BuffersInv, ControlOK, TransmitterTypeOK, Setting, Copying
<1> QED
  BY <1>1, <1>2, <1>3, <1>4, <1>5

LEMMA EnableStep ==
    ASSUME TransmitterInv, Enable
    PROVE  TransmitterInv'
<1> USE DEF TransmitterInv, Enable, Styled, Restarted, Goto, buffers, machine, config, call, ghost
<1>1. TransmitterTypeOK'
  <2>1. UNCHANGED <<buf, read, write, pending, rdm, direction, started, alarm, dma>>
    OBVIOUS
  <2>2. UNCHANGED <<packet, newest, filled, clashed>> /\ state' \in {state, "idle"}
    OBVIOUS
  <2>3. port' \in {"tx", "idle", "rx"} /\ style' = style
    BY DEF TransmitterTypeOK
  <2>4. continuous' \in BOOLEAN
    BY DEF TransmitterTypeOK
  <2>5. hurried' \in {hurried, FALSE}
    BY DEF TransmitterTypeOK
  <2> HIDE DEF Enable, Styled, Restarted
  <2>6. /\ hurried' \in BOOLEAN /\ port' \in {"idle", "tx", "rx"}
        /\ state' \in {"idle", "break", "mab", "inter"}
    BY <2>2, <2>3, <2>5 DEF TransmitterTypeOK
  <2> QED
    BY <2>1, <2>2, <2>3, <2>4, <2>6 DEF TransmitterTypeOK
<1>2. ControlOK'
  BY DEF ControlOK, Setting
<1>3. BeginInv' /\ LineInv'
  BY DEF BeginInv, LineInv, ControlOK, TransmitterTypeOK, Setting
<1>4. BuffersInv'
  BY DEF BuffersInv, ControlOK, TransmitterTypeOK, Setting, Copying
<1>5. FrameInv'
  BY DEF FrameInv, BuffersInv, ControlOK, TransmitterTypeOK, Setting, Copying
<1> QED
  BY <1>1, <1>2, <1>3, <1>4, <1>5

LEMMA StyleStep ==
    ASSUME TransmitterInv, NEW s \in {"delta", "constant"}, SetOutputStyle(s)
    PROVE  TransmitterInv'
<1> USE DEF TransmitterInv, SetOutputStyle, Styled, Restarted, Goto, buffers, machine, config, call, ghost
<1>1. TransmitterTypeOK'
  <2>1. clashed' \in BOOLEAN /\ hurried' \in BOOLEAN /\ started' \in BOOLEAN /\ pending' \in BOOLEAN
    BY DEF TransmitterTypeOK
  <2>2. style' \in {"delta", "constant"} /\ continuous' \in BOOLEAN
    BY DEF TransmitterTypeOK
  <2>3. port' \in {"idle", "tx", "rx"} /\ direction' \in {"input", "output"}
    BY DEF TransmitterTypeOK
  <2> QED
    BY <2>1, <2>2, <2>3 DEF TransmitterTypeOK
<1>2. ControlOK'
  BY DEF ControlOK, Setting
<1>3. BeginInv' /\ LineInv'
  BY DEF BeginInv, LineInv, ControlOK, TransmitterTypeOK, Setting
<1>4. BuffersInv'
  BY DEF BuffersInv, ControlOK, TransmitterTypeOK, Setting, Copying
<1>5. FrameInv'
  BY DEF FrameInv, BuffersInv, ControlOK, TransmitterTypeOK, Setting, Copying
<1> QED
  BY <1>1, <1>2, <1>3, <1>4, <1>5

LEMMA OtherStep ==
    ASSUME TransmitterInv, NEW s \in {"delta", "constant"}, OtherStyled(s)
    PROVE  TransmitterInv'
<1> USE DEF TransmitterInv, OtherStyled, Restarted, Goto, buffers, machine, config, call, ghost
<1>1. TransmitterTypeOK'
  <2>1. clashed' \in BOOLEAN /\ hurried' \in BOOLEAN /\ started' \in BOOLEAN /\ pending' \in BOOLEAN
    BY DEF TransmitterTypeOK
  <2>2. style' \in {"delta", "constant"} /\ continuous' \in BOOLEAN
    BY DEF TransmitterTypeOK
  <2>3. port' \in {"idle", "tx", "rx"} /\ direction' \in {"input", "output"}
    BY DEF TransmitterTypeOK
  <2> QED
    BY <2>1, <2>2, <2>3 DEF TransmitterTypeOK
<1>2. ControlOK'
  BY DEF ControlOK, Setting
<1>3. BeginInv' /\ LineInv'
  BY DEF BeginInv, LineInv, ControlOK, TransmitterTypeOK, Setting
<1>4. BuffersInv'
  BY DEF BuffersInv, ControlOK, TransmitterTypeOK, Setting, Copying
<1>5. FrameInv'
  BY DEF FrameInv, BuffersInv, ControlOK, TransmitterTypeOK, Setting, Copying
<1> QED
  BY <1>1, <1>2, <1>3, <1>4, <1>5

LEMMA StartStep ==
    ASSUME TransmitterInv, Start
    PROVE  TransmitterInv'
<1> USE DEF TransmitterInv, Start, TurnToOutput, Disable, Goto, buffers, machine, config, call, ghost
<1>1. TransmitterTypeOK'
  BY PacketFacts DEF TransmitterTypeOK
<1>2. ControlOK'
  BY DEF ControlOK, Setting
<1>3. BeginInv' /\ LineInv'
  BY DEF BeginInv, LineInv, ControlOK, TransmitterTypeOK, Setting
<1>4. BuffersInv'
  BY DEF BuffersInv, ControlOK, TransmitterTypeOK, Setting, Copying
<1>5. FrameInv'
  BY DEF FrameInv, BuffersInv, ControlOK, TransmitterTypeOK, Setting, Copying
<1> QED
  BY <1>1, <1>2, <1>3, <1>4, <1>5

LEMMA StopStep ==
    ASSUME TransmitterInv, Stop
    PROVE  TransmitterInv'
<1> USE DEF TransmitterInv, Stop, Disable, buffers, machine, config, call, ghost
<1>1. TransmitterTypeOK'
  <2>1. UNCHANGED <<buf, read, write, pending, state, rdm, style, continuous, alarm, dma>>
    OBVIOUS
  <2>2. UNCHANGED <<packet, newest, filled, hurried, clashed>>
    OBVIOUS
  <2>3. started' = FALSE /\ port' = "idle" /\ direction' = "output"
    OBVIOUS
  <2> HIDE DEF Stop, Disable
  <2>4. /\ started' \in BOOLEAN /\ port' \in {"idle", "tx", "rx"}
        /\ direction' \in {"input", "output"}
    BY <2>3
  <2> QED
    BY <2>1, <2>2, <2>4 DEF TransmitterTypeOK
<1>2. ControlOK'
  BY DEF ControlOK, Setting
<1>3. BeginInv' /\ LineInv'
  BY DEF BeginInv, LineInv, ControlOK, TransmitterTypeOK, Setting
<1>4. BuffersInv'
  BY DEF BuffersInv, ControlOK, TransmitterTypeOK, Setting, Copying
<1>5. FrameInv'
  BY DEF FrameInv, BuffersInv, ControlOK, TransmitterTypeOK, Setting, Copying
<1> QED
  BY <1>1, <1>2, <1>3, <1>4, <1>5

LEMMA SyncStep ==
    ASSUME TransmitterInv, Sync
    PROVE  TransmitterInv'
<1> USE DEF TransmitterInv, Sync, TurnToOutput, CanStart, Disable, Goto, buffers, machine, config, call, ghost
<1>1. TransmitterTypeOK'
  <2>1. clashed' \in BOOLEAN /\ hurried' \in BOOLEAN /\ started' \in BOOLEAN /\ pending' \in BOOLEAN
    BY DEF TransmitterTypeOK
  <2>2. style' \in {"delta", "constant"} /\ continuous' \in BOOLEAN
    BY DEF TransmitterTypeOK
  <2>3. port' \in {"idle", "tx", "rx"} /\ direction' \in {"input", "output"}
    BY DEF TransmitterTypeOK
  <2> QED
    BY <2>1, <2>2, <2>3 DEF TransmitterTypeOK
<1>2. ControlOK'
  BY DEF ControlOK, Setting
<1>3. BeginInv' /\ LineInv'
  BY DEF BeginInv, LineInv, ControlOK, TransmitterTypeOK, Setting
<1>4. BuffersInv'
  BY DEF BuffersInv, ControlOK, TransmitterTypeOK, Setting, Copying
<1>5. FrameInv'
  BY DEF FrameInv, BuffersInv, ControlOK, TransmitterTypeOK, Setting, Copying
<1> QED
  BY <1>1, <1>2, <1>3, <1>4, <1>5

LEMMA RdmStep ==
    ASSUME TransmitterInv, RdmTransmit
    PROVE  TransmitterInv'
<1> USE DEF TransmitterInv, RdmTransmit, Disable, buffers, machine, config, call, ghost
<1>1. TransmitterTypeOK'
  BY PacketFacts DEF TransmitterTypeOK
<1>2. ControlOK'
  BY DEF ControlOK, Setting
<1>3. BeginInv' /\ LineInv'
  BY DEF BeginInv, LineInv, ControlOK, TransmitterTypeOK, Setting
<1>4. BuffersInv'
  BY DEF BuffersInv, ControlOK, TransmitterTypeOK, Setting, Copying
<1>5. FrameInv'
  BY DEF FrameInv, BuffersInv, ControlOK, TransmitterTypeOK, Setting, Copying
<1> QED
  BY <1>1, <1>2, <1>3, <1>4, <1>5

LEMMA FullOnStep ==
    ASSUME TransmitterInv, FullOn
    PROVE  TransmitterInv'
<1> USE DEF TransmitterInv, FullOn, Disable, buffers, machine, config, call, ghost
<1>1. TransmitterTypeOK'
  BY PacketFacts DEF TransmitterTypeOK
<1>2. ControlOK'
  BY DEF ControlOK, Setting
<1>3. BeginInv' /\ LineInv'
  BY DEF BeginInv, LineInv, ControlOK, TransmitterTypeOK, Setting
<1>4. BuffersInv'
  BY DEF BuffersInv, ControlOK, TransmitterTypeOK, Setting, Copying
<1>5. FrameInv'
  BY DEF FrameInv, BuffersInv, ControlOK, TransmitterTypeOK, Setting, Copying
<1> QED
  BY <1>1, <1>2, <1>3, <1>4, <1>5

LEMMA FillStep ==
    ASSUME TransmitterInv, Fill
    PROVE  TransmitterInv'
<1> USE DEF TransmitterInv, Fill, Goto, buffers, machine, config, call, ghost
<1>t. /\ dma' \in {Nothing, RdmFrame} \cup DmxFrame /\ dma'.what = dma.what
      /\ dma = Nothing => dma' = Nothing
      /\ dma.what = "dmx" => /\ dma'.from = dma.from /\ dma'.calm = dma.calm
                             /\ dma'.newest = dma.newest /\ dma'.refilled = TRUE
  <2>1. CASE dma \in DmxFrame
    BY <2>1 DEF DmxFrame, Nothing
  <2>2. CASE dma \in {Nothing, RdmFrame}
    BY <2>2 DEF Nothing, RdmFrame
  <2> QED
    BY <2>1, <2>2 DEF ControlOK
<1>1. TransmitterTypeOK'
  <2>1. buf' \in [{0, 1} -> [head : Packet, tail : Packet]]
    BY PacketFacts DEF TransmitterTypeOK, Full
  <2>2. filled' \in BOOLEAN /\ hurried' \in BOOLEAN /\ clashed' \in BOOLEAN
    BY DEF TransmitterTypeOK
  <2> QED
    BY <1>t, <2>1, <2>2 DEF TransmitterTypeOK
<1>2. ControlOK'
  BY <1>t DEF ControlOK, Setting
<1>3. BeginInv' /\ LineInv'
  BY <1>t DEF BeginInv, LineInv
<1>4. BuffersInv'
  BY DEF BuffersInv, ControlOK, TransmitterTypeOK, Setting, Copying
<1>5. FrameInv'
  BY <1>t DEF FrameInv, BuffersInv, ControlOK, TransmitterTypeOK, Setting, Copying
<1> QED
  BY <1>1, <1>2, <1>3, <1>4, <1>5

\* Every interrupt and every step of the super-loop keeps TransmitterInv.
THEOREM TransmitterStep == TransmitterInv /\ [Next]_vars => TransmitterInv'
<1> SUFFICES ASSUME TransmitterInv, [Next]_vars PROVE TransmitterInv'
  OBVIOUS
<1>1. CASE TimerInterrupt \/ DmaInterrupt
  BY <1>1, TimerStep, DmaStep
<1>2. CASE Calls
  BY <1>2, SetDataStep, StyleStep, OtherStep, StartStep, StopStep, SyncStep, RdmStep, FullOnStep DEF Calls
<1>3. CASE Continue
  BY <1>3, FlipStep, HeadStep, TailStep, DirectStep, SilentStep, StartDmxStep, StartRdmStep,
     DrainStep, DrainedStep, EnableStep, FillStep DEF Continue
<1>4. CASE UNCHANGED vars
  BY <1>4 DEF vars, buffers, machine, config, call, ghost, TransmitterInv, TransmitterTypeOK,
     ControlOK, BeginInv, LineInv, BuffersInv, FrameInv, Setting, Copying
<1> QED
  BY <1>1, <1>2, <1>3, <1>4 DEF Next

LEMMA TransmitterSafe == Spec => []TransmitterInv
BY TransmitterInitially, TransmitterStep, PTL DEF Spec

\* The variables keep their types: the indices name one of the two buffers.
THEOREM TransmitterTypeCorrect == Spec => []TransmitterTypeOK
<1>1. TransmitterInv => TransmitterTypeOK
  BY DEF TransmitterInv
<1> QED
  BY TransmitterSafe, <1>1, PTL

\* No break is put on the line while the DMA sends, for any number of packets,
\* from one break that is begun rightly to the next that is not: one begun while
\* a request is out, or while a frame is out that the driver does not wait for,
\* on a port whose state is kIdle or the first in constant style.
THEOREM LineAlwaysClean == Spec => []LineClean
<1>1. TransmitterInv => LineClean
  <2> SUFFICES ASSUME TransmitterInv, ~clashed, dma # Nothing
               PROVE  state # "break" /\ rdm # "break"
    BY DEF LineClean
  <2> QED
    BY DEF TransmitterInv, LineInv
<1> QED
  BY TransmitterSafe, <1>1, PTL

\* A frame that ends is one packet and the newest, however many were set
\* while it went out.
THEOREM FrameAlwaysWhole == Spec => WholeFrame
<1> DEFINE Whole ==
      FrameEnds /\ ~dma.filled /\ ~dma.refilled =>
         /\ dma.calm => dma.head = dma.newest /\ Tail = dma.newest
         /\ Tail \in {dma.newest, dma.newest + 1}
<1>1. ASSUME TransmitterInv, Next, FrameEnds PROVE ~Copying
  <2>1. dma.what = "dmx" /\ dma' = Nothing /\ dma # Nothing
    BY <1>1 DEF FrameEnds, Nothing
  <2>2. CASE TimerInterrupt
    BY <2>1, <2>2 DEF TimerInterrupt, DmxTimer, RdmTimer, DmxHead, TurnsRound, Nothing
  <2>3. CASE DmaInterrupt
    BY <2>3 DEF DmaInterrupt, Copying
  <2>4. CASE Calls
    BY <2>1, <2>4 DEF Calls, SetData, SetOutputStyle, OtherStyled, Start, Stop, Sync, RdmTransmit, FullOn
  <2>5. CASE Fill
    <3>1. dma'.refilled = TRUE /\ dma'.what = "dmx"
      BY <1>1, <2>1, <2>5 DEF Fill, TransmitterInv, ControlOK, DmxFrame, Nothing, RdmFrame
    <3> QED
      BY <2>1, <3>1 DEF Nothing
  <2>6. CASE Continue /\ ~Fill
    BY <2>1, <2>6 DEF Continue, FlipWrite, CopyHead, CopyTail, Direct, LineSilent, StartDmxOutput,
       StartRdmOutput, Drain, Drained, Enable
  <2> QED
    BY <1>1, <2>2, <2>3, <2>4, <2>5, <2>6 DEF Next
<1>2. TransmitterInv /\ [Next]_vars => [Whole]_vars
  <2> SUFFICES ASSUME TransmitterInv, Next, FrameEnds, ~dma.filled, ~dma.refilled
               PROVE  /\ dma.calm => dma.head = dma.newest /\ Tail = dma.newest
                      /\ Tail \in {dma.newest, dma.newest + 1}
    OBVIOUS
  <2>1. ~Copying /\ dma.what = "dmx"
    BY <1>1 DEF FrameEnds
  <2> QED
    BY <2>1 DEF TransmitterInv, FrameInv, Tail
<1>3. Spec => [][Whole]_vars
  BY TransmitterSafe, <1>2, PTL DEF Spec
<1> QED
  BY <1>3 DEF WholeFrame

(***************************************************************************)
(* A request comes to its end.  The prover knows nothing of ENABLED, so    *)
(* that fairness is stated with the guards of the steps: a timer that runs *)
(* and a copy that began come to their end, and so does a transfer, even   *)
(* while the super-loop begins one copy after the other.                   *)
(***************************************************************************)
Sending == dma # Nothing /\ ~Copying

TimerFair == []<>~alarm \/ []<><<TimerInterrupt>>_vars
DmaFair == <>[]~Sending \/ []<><<DmaInterrupt>>_vars
CopyFair == /\ []<>~(pc = "head") \/ []<><<CopyHead>>_vars
            /\ []<>~(pc = "tail") \/ []<><<CopyTail>>_vars

\* The steps of a request: break and mark-after-break, the transfer, the time
\* before the port is turned round, and the answer that is listened for.
Breaking == rdm = "break" /\ alarm
Marking == rdm = "mab" /\ alarm
OnTheWay == rdm = "mab" /\ dma = RdmFrame
Ending == rdm = "direction" /\ alarm
Listening == rdm = "idle" /\ port = "rx"
RequestInv == ~clashed /\ rdm # "idle" => Breaking \/ Marking \/ OnTheWay \/ Ending

\* What the super-loop leaves of a request that is at work: all of it, unless
\* it begins a DMX frame.
LEMMA LoopKeeps ==
    ASSUME TransmitterInv, ~clashed, rdm # "idle", Calls \/ Continue \/ UNCHANGED vars
    PROVE  \/ clashed'
           \/ rdm' = rdm /\ alarm' = alarm /\ (dma = RdmFrame => dma' = RdmFrame)
<1>1. CASE Calls
  BY <1>1 DEF Calls, SetData, SetOutputStyle, OtherStyled, Start, Stop, Sync, RdmTransmit, FullOn, machine
<1>2. CASE StartDmxOutput
  BY <1>2 DEF StartDmxOutput, Clashes
<1>3. CASE StartRdmOutput
  BY <1>3 DEF StartRdmOutput, Clashes
<1>4. CASE Fill
  BY <1>4 DEF Fill, RdmFrame, machine
<1>5. CASE FlipWrite \/ CopyHead \/ CopyTail \/ Direct \/ LineSilent
  BY <1>5 DEF FlipWrite, CopyHead, CopyTail, Direct, LineSilent, machine
<1>6. CASE Drain \/ Drained \/ Enable
  BY <1>6 DEF Drain, Drained, Enable
<1>7. CASE UNCHANGED vars
  BY <1>7 DEF vars, machine
<1> QED
  BY <1>1, <1>2, <1>3, <1>4, <1>5, <1>6, <1>7 DEF Continue

\* What the interrupts make of it.
LEMMA InterruptsAdvance ==
    ASSUME TransmitterInv, RequestInv, ~clashed, rdm # "idle"
    PROVE  /\ Breaking /\ TimerInterrupt => Marking'
           /\ Marking /\ TimerInterrupt => OnTheWay'
           /\ OnTheWay /\ TimerInterrupt => OnTheWay'
           /\ Ending /\ TimerInterrupt => Listening'
           /\ OnTheWay /\ DmaInterrupt => Ending'
           /\ DmaInterrupt => OnTheWay
<1>1. state = "idle"
  BY DEF TransmitterInv, LineInv
<1>2. ASSUME TimerInterrupt
      PROVE  /\ Breaking => Marking'
             /\ Marking \/ OnTheWay => OnTheWay'
             /\ Ending => Listening'
  <2>1. RdmTimer
    BY <1>1, <1>2 DEF TimerInterrupt, DmxTimer
  <2> QED
    BY <2>1 DEF RdmTimer, TurnsRound, Breaking, Marking, OnTheWay, Ending, Listening, RdmFrame
<1>3. ASSUME DmaInterrupt PROVE OnTheWay /\ Ending'
  <2>1. dma # Nothing /\ rdm' = "direction" /\ alarm' = TRUE
    BY <1>1, <1>3 DEF DmaInterrupt
  <2>2. ~Breaking /\ ~Marking /\ ~Ending
    BY <2>1 DEF TransmitterInv, LineInv, Breaking, Marking, Ending
  <2>3. OnTheWay
    BY <2>2 DEF RequestInv
  <2> QED
    BY <2>1, <2>3 DEF Ending
<1> QED
  BY <1>2, <1>3

\* A clash is not forgotten while a request is at work.
LEMMA ClashedStays ==
    ASSUME TransmitterInv, [Next]_vars, clashed, rdm # "idle"
    PROVE  clashed'
<1>1. CASE TimerInterrupt \/ DmaInterrupt
  BY <1>1 DEF TimerInterrupt, DmaInterrupt, ghost
<1>2. CASE Calls
  BY <1>2 DEF Calls, SetData, SetOutputStyle, OtherStyled, Start, Stop, Sync, RdmTransmit, FullOn,
     ghost
<1>3. CASE Continue
  BY <1>3 DEF Continue, FlipWrite, CopyHead, CopyTail, Direct, LineSilent, StartDmxOutput,
     StartRdmOutput, Clashes, Drain, Drained, Enable, Fill, ghost
<1>4. CASE UNCHANGED vars
  BY <1>4 DEF vars, ghost
<1> QED
  BY <1>1, <1>2, <1>3, <1>4 DEF Next

\* A request begins with its break.
LEMMA RequestBegins ==
    ASSUME TransmitterInv, [Next]_vars, rdm = "idle"
    PROVE  rdm' = "idle" \/ Breaking'
<1>1. CASE TimerInterrupt
  BY <1>1 DEF TimerInterrupt, DmxTimer, RdmTimer
<1>2. CASE DmaInterrupt
  BY <1>2 DEF DmaInterrupt
<1>3. CASE Calls
  BY <1>3 DEF Calls, SetData, SetOutputStyle, OtherStyled, Start, Stop, Sync, RdmTransmit, FullOn, machine
<1>4. CASE StartRdmOutput
  BY <1>4 DEF StartRdmOutput, Breaking
<1>5. CASE FlipWrite \/ CopyHead \/ CopyTail \/ Direct \/ LineSilent \/ Fill
  BY <1>5 DEF FlipWrite, CopyHead, CopyTail, Direct, LineSilent, Fill, machine
<1>6. CASE StartDmxOutput \/ Drain \/ Drained \/ Enable
  BY <1>6 DEF StartDmxOutput, Drain, Drained, Enable
<1>7. CASE UNCHANGED vars
  BY <1>7 DEF vars, machine
<1> QED
  BY <1>1, <1>2, <1>3, <1>4, <1>5, <1>6, <1>7 DEF Next, Continue

LEMMA RequestStep ==
    ASSUME TransmitterInv, RequestInv, [Next]_vars, ~clashed
    PROVE  /\ Breaking => Breaking' \/ Marking' \/ clashed'
           /\ Marking => Marking' \/ OnTheWay' \/ clashed'
           /\ OnTheWay => OnTheWay' \/ Ending' \/ clashed'
           /\ Ending => Ending' \/ Listening' \/ clashed'
<1>r. Breaking \/ Marking \/ OnTheWay \/ Ending => rdm # "idle"
  BY DEF Breaking, Marking, OnTheWay, Ending
<1>1. CASE TimerInterrupt
  BY <1>r, <1>1, InterruptsAdvance
<1>3. CASE DmaInterrupt
  <2>1. rdm # "idle" => OnTheWay /\ Ending'
    BY <1>3, InterruptsAdvance
  <2>2. OnTheWay => ~Ending
    BY DEF OnTheWay, Ending
  <2>3. Marking /\ OnTheWay => FALSE
    BY DEF Marking, OnTheWay, RdmFrame, Nothing, TransmitterInv, LineInv
  <2>4. OnTheWay => ~Breaking
    BY DEF OnTheWay, Breaking
  <2> QED
    BY <1>r, <2>1, <2>2, <2>3, <2>4
<1>2. CASE Calls \/ Continue \/ UNCHANGED vars
  BY <1>2, LoopKeeps DEF Breaking, Marking, OnTheWay, Ending
<1> QED
  BY <1>1, <1>2, <1>3 DEF Next

LEMMA RequestSafe == Spec => [](TransmitterInv /\ RequestInv)
<1>1. Init => RequestInv
  BY DEF Init, RequestInv
<1>2. TransmitterInv /\ RequestInv /\ [Next]_vars => RequestInv'
  <2> SUFFICES ASSUME TransmitterInv, RequestInv, [Next]_vars, ~clashed', rdm' # "idle"
               PROVE  Breaking' \/ Marking' \/ OnTheWay' \/ Ending'
    BY DEF RequestInv
  <2>1. rdm # "idle" => ~clashed
    BY ClashedStays
  <2>2. CASE rdm = "idle"
    BY <2>2, RequestBegins
  <2>3. CASE rdm # "idle"
    <3>1. ~Listening'
      BY DEF Listening
    <3> QED
      BY <2>1, <2>3, <3>1, RequestStep DEF RequestInv
  <2> QED
    BY <2>2, <2>3
<1> QED
  BY <1>1, <1>2, TransmitterInitially, TransmitterStep, PTL DEF Spec

\* The super-loop leaves the copy again and again.
LEMMA CopiesEnd == Spec /\ CopyFair => []<>~Copying
<1>1. pc = "head" /\ [Next]_vars => (pc = "head")' \/ (pc = "tail")'
  <2> SUFFICES ASSUME pc = "head", [Next]_vars PROVE pc' = "head" \/ pc' = "tail"
    OBVIOUS
  <2>1. CASE CopyHead \/ TimerInterrupt \/ DmaInterrupt \/ UNCHANGED vars
    BY <2>1 DEF CopyHead, Goto, TimerInterrupt, DmaInterrupt, call, vars
  <2>2. ~Calls
    BY DEF Calls, SetData, SetOutputStyle, OtherStyled, Start, Stop, Sync, RdmTransmit, FullOn
  <2>3. Continue => CopyHead
    BY DEF Continue, FlipWrite, CopyTail, Direct, LineSilent, StartDmxOutput, StartRdmOutput,
           Drain, Drained, Enable, Fill
  <2> QED
    BY <2>1, <2>2, <2>3 DEF Next
<1>2. TransmitterInv /\ pc = "tail" /\ [Next]_vars => (pc = "tail")' \/ ~Copying'
  <2> SUFFICES ASSUME TransmitterInv, pc = "tail", [Next]_vars PROVE pc' = "tail" \/ ~Copying'
    OBVIOUS
  <2>1. CASE CopyTail
    BY <2>1 DEF CopyTail, Goto, TransmitterInv, ControlOK, Setting, Copying
  <2>2. CASE TimerInterrupt \/ DmaInterrupt \/ UNCHANGED vars
    BY <2>2 DEF TimerInterrupt, DmaInterrupt, call, vars
  <2>3. ~Calls
    BY DEF Calls, SetData, SetOutputStyle, OtherStyled, Start, Stop, Sync, RdmTransmit, FullOn
  <2>4. Continue => CopyTail
    BY DEF Continue, FlipWrite, CopyHead, Direct, LineSilent, StartDmxOutput, StartRdmOutput,
           Drain, Drained, Enable, Fill
  <2> QED
    BY <2>1, <2>2, <2>3, <2>4 DEF Next
<1>3. <<CopyHead>>_vars => (pc = "tail")'
  BY DEF CopyHead, Goto
<1>4. TransmitterInv /\ <<CopyTail>>_vars => ~Copying'
  BY DEF CopyTail, Goto, TransmitterInv, ControlOK, Setting, Copying
<1>5. Copying <=> pc = "head" \/ pc = "tail"
  BY DEF Copying
<1> QED
  BY <1>1, <1>2, <1>3, <1>4, <1>5, TransmitterSafe, PTL DEF Spec, CopyFair

\* An RDM request is sent and then the port listens for the answer, for any
\* number of packets, unless a break is begun in the middle of it, for DMX or for
\* another request, or it was itself begun while a frame was out, on a port whose
\* state was kIdle.
THEOREM RdmAlwaysListens == Spec /\ TimerFair /\ DmaFair /\ CopyFair => RdmListens
<1> DEFINE Inv == TransmitterInv /\ RequestInv
<1>1. Inv /\ [Next]_vars /\ ~clashed =>
        /\ Breaking => Breaking' \/ Marking' \/ clashed'
        /\ Marking => Marking' \/ OnTheWay' \/ clashed'
        /\ OnTheWay => OnTheWay' \/ Ending' \/ clashed'
        /\ Ending => Ending' \/ Listening' \/ clashed'
  BY RequestStep
<1>2. Inv /\ <<TimerInterrupt>>_vars /\ ~clashed =>
        /\ Breaking => Marking'
        /\ Marking => OnTheWay'
        /\ Ending => Listening'
  BY InterruptsAdvance DEF Breaking, Marking, Ending
<1>3. Inv /\ <<DmaInterrupt>>_vars /\ ~clashed => (OnTheWay => Ending')
  BY InterruptsAdvance DEF OnTheWay
<1>4. Inv => clashed \/ rdm = "idle" \/ Breaking \/ Marking \/ OnTheWay \/ Ending
  BY DEF RequestInv
<1>5. /\ Breaking \/ Marking \/ Ending => alarm
      /\ OnTheWay /\ ~Copying => Sending
      /\ rdm # "idle" <=> ~(rdm = "idle")
      /\ Listening <=> rdm = "idle" /\ port = "rx"
  BY DEF Breaking, Marking, Ending, OnTheWay, Sending, RdmFrame, Nothing, Listening
<1>6. Spec => []Inv
  BY RequestSafe
<1> HIDE DEF Inv
<1> QED
  BY <1>1, <1>2, <1>3, <1>4, <1>5, <1>6, CopiesEnd, PTL
  DEF Spec, TimerFair, DmaFair, RdmListens
=============================================================================
