--------------------------- MODULE DmxTransmitter ---------------------------
(***************************************************************************)
(* The transmitter of a DMX512/RDM port (lib-dmx/src/gd32/dmx.cpp): the    *)
(* super-loop fills one of two buffers, the timer interrupt makes break    *)
(* and mark-after-break, the DMA sends, its interrupt begins the pause.    *)
(* RDM requests use the same timer, the same DMA and the same line.        *)
(*                                                                         *)
(* A packet is its number.  A buffer holds the number of the packet its    *)
(* length and first slots (head) and its other slots (tail) come from.     *)
(***************************************************************************)
EXTENDS Naturals

CONSTANTS
    Packets,    \* bound: how many packets are set
    Fills       \* whether FullOn() is called

ASSUME TransmitterAssumption == Packets \in Nat \ {0} /\ Fills \in BOOLEAN

VARIABLES
    buf,         \* dmx.data[2]
    read, write, \* dmx.read_index, dmx.write_index
    pending,     \* dmx.data_pending
    state,       \* s_DmxTxBuffer.state
    style,       \* output_style
    continuous,  \* has_continuous_output_
    rdm,         \* s_RdmTxBuffer.state
    port,        \* sv_port_state
    direction,   \* port_direction_
    started,     \* DmxSend::started_
    alarm,       \* the timer's compare value is still to come
    dma,         \* what the DMA sends, and of which frame it sent the head
    pc, then,    \* where the super-loop is in a call, and what follows the drain
    packet,      \* packets set so far
    newest,      \* the last packet whose copy is complete
    filled,      \* FullOn() wrote a buffer and no packet was set since
    hurried,     \* the last call does not wait for the frame that is out
    clashed      \* the last break was begun while DMX or a request was at work

buffers == <<buf, read, write, pending>>
machine == <<state, rdm, port, direction>>
config == <<style, continuous, started>>
call == <<pc, then>>
ghost == <<packet, newest, filled, hurried, clashed>>
vars == <<buffers, machine, config, alarm, dma, call, ghost>>

Nothing == [what |-> "none"]
Full == Packets + 1
Blank == [head |-> 0, tail |-> 0]

Init ==
    /\ buf = [i \in {0, 1} |-> Blank] /\ read = 0 /\ write = 0 /\ pending = FALSE
    /\ state = "idle" /\ rdm = "idle" /\ port = "idle" /\ direction = "input"
    /\ style = "delta" /\ continuous = FALSE /\ started = FALSE
    /\ alarm = FALSE /\ dma = Nothing
    /\ pc = "main" /\ then = "main"
    /\ packet = 0 /\ newest = 0 /\ filled = FALSE
    /\ hurried = FALSE /\ clashed = FALSE

Goto(label) == pc' = label /\ UNCHANGED then

(***************************************************************************)
(* The interrupts.                                                         *)
(***************************************************************************)
\* Variant that must break WholeFrame: the flip is left out.
NotFlipped == read

\* DmaRestartDmxTx(): the buffer that was filled is sent, else the old one again.
Flipped == IF read # write THEN 1 - read ELSE read

\* The DMA was told the length and takes the first slots.
DmxHead ==
    [what |-> "dmx", head |-> buf[read'].head, from |-> read', newest |-> newest,
     calm |-> pc \notin {"flip", "head", "tail"}, filled |-> filled, refilled |-> FALSE]

\* The timer interrupt while the DMX machine is at work.
DmxTimer ==
    /\ state # "idle"
    /\ \/ state = "inter" /\ state' = "break" /\ alarm' = TRUE /\ UNCHANGED <<read, dma>>
       \/ state = "break" /\ state' = "mab" /\ alarm' = TRUE /\ UNCHANGED <<read, dma>>
       \/ state = "mab" /\ read' = Flipped /\ dma' = DmxHead
          /\ alarm' = FALSE /\ UNCHANGED state
    /\ UNCHANGED <<rdm, port, direction>>

\* Variant that must break RdmListens: the port is not turned round.
StaysOutput == port' = "idle" /\ UNCHANGED direction

\* The end of an RDM request turns the port round: SetPortDirection(kInput).
TurnsRound == port' = "rx" /\ direction' = "input"

\* The timer interrupt while only an RDM request is at work.
RdmTimer ==
    /\ state = "idle"
    /\ \/ rdm = "break" /\ rdm' = "mab" /\ alarm' = TRUE /\ UNCHANGED <<dma, port, direction>>
       \/ rdm = "mab" /\ dma' = [what |-> "rdm"] /\ alarm' = FALSE
          /\ UNCHANGED <<rdm, port, direction>>
       \/ rdm = "direction" /\ rdm' = "idle" /\ TurnsRound
          /\ alarm' = FALSE /\ UNCHANGED dma
       \/ rdm = "idle" /\ alarm' = FALSE /\ UNCHANGED <<rdm, dma, port, direction>>
    /\ UNCHANGED <<read, state>>

TimerInterrupt ==
    /\ alarm
    /\ DmxTimer \/ RdmTimer
    /\ UNCHANGED <<buf, write, pending, config, call, ghost>>

\* The DMA has sent the last slot of a frame; a copy that was under way when it
\* began is complete by then, two slots take longer than memcpy.
DmaInterrupt ==
    /\ dma # Nothing /\ pc \notin {"head", "tail"}
    /\ dma' = Nothing
    /\ pc' = IF pc = "drainTC" THEN "drained" ELSE pc
    /\ \/ /\ state # "idle" /\ style = "delta"
          /\ state' = "idle" /\ UNCHANGED <<rdm, alarm>>
       \/ /\ state # "idle" /\ style = "constant"
          /\ state' = "inter" /\ alarm' = TRUE /\ UNCHANGED rdm
       \/ /\ state = "idle" /\ rdm # "idle"
          /\ rdm' = "direction" /\ alarm' = TRUE /\ UNCHANGED state
       \/ /\ state = "idle" /\ rdm = "idle" /\ UNCHANGED <<state, rdm, alarm>>
    /\ UNCHANGED <<buffers, port, direction, config, then, ghost>>

(***************************************************************************)
(* SetSendDataInternal(), in the steps the interrupts can come between.    *)
(***************************************************************************)
OtherIndex(i) == 1 - i

\* SetData(), Sync(port_index): has the buffer that was filled last gone out?
SetData(send) ==
    /\ pc = "main" /\ packet < Packets
    /\ packet' = packet + 1
    /\ pc' = (IF read = write THEN "flip" ELSE "head") /\ then' = send
    /\ UNCHANGED <<buffers, machine, config, alarm, dma, newest, filled, hurried, clashed>>

FlipWrite ==
    /\ pc = "flip" /\ Goto("head")
    /\ write' = OtherIndex(write)
    /\ UNCHANGED <<buf, read, pending, machine, config, alarm, dma, ghost>>

CopyHead ==
    /\ pc = "head" /\ Goto("tail")
    /\ buf' = [buf EXCEPT ![write].head = packet] /\ pending' = TRUE
    /\ UNCHANGED <<read, write, machine, config, alarm, dma, ghost>>

CopyTail ==
    /\ pc = "tail" /\ Goto(then)
    /\ buf' = [buf EXCEPT ![write].tail = packet]
    /\ newest' = packet /\ filled' = FALSE
    /\ UNCHANGED <<read, write, pending, machine, config, alarm, dma, packet, hurried, clashed>>

\* Variant that must break LineClean: the machine may be at work already.
AnyState == port = "tx" /\ style = "delta"

\* Only an idle machine is started.
CanStart == port = "tx" /\ style = "delta" /\ state = "idle"

\* StartSendStyleDirect()
Direct ==
    /\ pc = "direct"
    /\ IF CanStart THEN pc' = "wait" /\ then' = "main" /\ hurried' = FALSE
       ELSE Goto("main") /\ UNCHANGED hurried
    /\ UNCHANGED <<buffers, machine, config, alarm, dma, packet, newest, filled, clashed>>

\* StartDmxOutput(), StartRdmOutput(): the line is silent, then the break begins.
LineSilent ==
    /\ pc \in {"wait", "waitRdm"} /\ dma = Nothing
    /\ Goto(IF pc = "wait" THEN "start" ELSE "startRdm")
    /\ UNCHANGED <<buffers, machine, config, alarm, dma, ghost>>

\* What is at work when a break begins: a request, or a frame that was not waited for.
Clashes == rdm # "idle" \/ (hurried /\ state # "idle")

\* Sync() goes on with the ports that are not started.
StartDmxOutput ==
    /\ pc = "start" /\ Goto(IF then = "enable" THEN "enable" ELSE "main")
    /\ state' = "break" /\ alarm' = TRUE
    /\ clashed' = Clashes
    /\ UNCHANGED <<buffers, rdm, port, direction, config, dma, packet, newest, filled, hurried>>

StartRdmOutput ==
    /\ pc = "startRdm" /\ Goto("main")
    /\ rdm' = "break" /\ alarm' = TRUE
    /\ clashed' = Clashes
    /\ UNCHANGED <<buffers, state, port, direction, config, dma, packet, newest, filled, hurried>>

(***************************************************************************)
(* DataDisable() of an output: nothing if the port is idle, else wait for  *)
(* the end of the frame; DataEnable().                                     *)
(***************************************************************************)
Disable(next) ==
    /\ direction' = "output" /\ port' = "idle" /\ then' = next
    /\ pc' = IF port = "idle" THEN next ELSE "drain"

\* In the pause between two frames the last slot may still be on its way out; if
\* it is not, the flag that was cleared is set at the end of the next frame.
Drain ==
    /\ pc = "drain" /\ UNCHANGED then
    /\ \/ state = "idle" /\ pc' = then /\ UNCHANGED state
       \/ state = "inter" /\ pc' = "drain" /\ state' = "idle"
       \/ state = "inter" /\ pc' = "drainTC" /\ UNCHANGED state
    /\ UNCHANGED <<buffers, rdm, port, direction, config, alarm, dma, ghost>>

Drained ==
    /\ pc = "drained" /\ Goto("drain")
    /\ state' = "idle"
    /\ UNCHANGED <<buffers, rdm, port, direction, config, alarm, dma, ghost>>

\* DataDisable() and StartDmxOutput() of a constant port that is in state p.
Restarted(p) ==
    /\ port' = "idle" /\ then' = "wait"
    /\ pc' = IF p = "idle" THEN "wait" ELSE "drain"

\* SetOutputStyle() of this port, in state p: the first constant port is started,
\* a later one restarts all of them.
Styled(s, p) ==
    /\ style' = s
    /\ \/ s = "constant" /\ ~continuous /\ continuous' = TRUE /\ port' = p
          /\ IF direction = "output" THEN pc' = "wait" /\ then' = "main" ELSE Goto("main")
       \/ s = "constant" /\ continuous /\ UNCHANGED continuous
          /\ IF direction = "output" THEN Restarted(p) ELSE Goto("main") /\ port' = p
       \/ s = "delta" /\ continuous' \in {FALSE, continuous} /\ port' = p /\ Goto("main")

\* DataEnable(); the end of a request may have turned the port round just before.
Enable ==
    /\ pc = "enable"
    /\ IF direction = "output" THEN state' = "idle" /\ Styled(style, "tx") /\ hurried' = FALSE
       ELSE port' = "rx" /\ Goto("main") /\ UNCHANGED <<state, style, continuous, hurried>>
    /\ UNCHANGED <<buffers, rdm, direction, started, alarm, dma, packet, newest, filled, clashed>>

(***************************************************************************)
(* What the Art-Net and E1.31 nodes and the RDM controller call.           *)
(***************************************************************************)
SetOutputStyle(s) ==
    /\ pc = "main" /\ s # style
    /\ Styled(s, port)
    /\ hurried' = (state # "idle" /\ (port = "idle" \/ ~continuous))
    /\ UNCHANGED <<buffers, state, rdm, direction, started, alarm, dma, packet, newest, filled,
                   clashed>>

\* SetOutputStyle() of another port, also by its DataEnable().
OtherStyled(s) ==
    /\ pc = "main"
    /\ \/ s = "constant" /\ style = "constant" /\ direction = "output"
          /\ Restarted(port) /\ UNCHANGED continuous
       \/ s = "constant" /\ ~(style = "constant" /\ direction = "output")
          /\ continuous' = TRUE /\ UNCHANGED <<port, call>>
       \/ s = "delta" /\ continuous' \in {style = "constant", continuous}
          /\ UNCHANGED <<port, call>>
    /\ hurried' = (state # "idle" /\ port = "idle")
    /\ UNCHANGED <<buffers, state, rdm, direction, style, started, alarm, dma, packet, newest,
                   filled, clashed>>

\* SetPortDirection() to output, with data: a port that was turned to input is
\* turned back.
TurnToOutput ==
    IF direction = "output" THEN Goto("enable") /\ UNCHANGED <<port, direction>>
    ELSE Disable("enable")

\* DmxSend::Start()
Start ==
    /\ pc = "main" /\ ~started /\ started' = TRUE
    /\ TurnToOutput
    /\ UNCHANGED <<buffers, state, rdm, style, continuous, alarm, dma, ghost>>

Stop ==
    /\ pc = "main" /\ started /\ started' = FALSE
    /\ Disable("main")
    /\ UNCHANGED <<buffers, state, rdm, style, continuous, alarm, dma, ghost>>

\* DmxSend::Sync(): what was set without being sent is sent, and then a port
\* that is not started is started.
Sync ==
    /\ pc = "main" /\ pending /\ pending' = FALSE /\ started' = TRUE
    /\ \/ CanStart /\ pc' = "wait" /\ then' = (IF started THEN "main" ELSE "enable")
          /\ hurried' = FALSE /\ UNCHANGED <<port, direction>>
       \/ ~CanStart /\ started /\ UNCHANGED <<call, port, direction, hurried>>
       \/ ~CanStart /\ ~started /\ TurnToOutput /\ UNCHANGED hurried
    /\ UNCHANGED <<buf, read, write, state, rdm, style, continuous, alarm, dma, packet, newest,
                   filled, clashed>>

\* RdmTransmit(): the port is disabled, then the request copied and sent.
RdmTransmit ==
    /\ pc = "main" /\ Disable("waitRdm")
    /\ hurried' = (state # "idle" /\ port = "idle")
    /\ UNCHANGED <<buffers, state, rdm, config, alarm, dma, packet, newest, filled, clashed>>

\* FullOn(), Blackout(): disable, write the first buffer, enable.
FullOn ==
    /\ Fills /\ pc = "main" /\ direction = "output"
    /\ Disable("fill")
    /\ UNCHANGED <<buffers, state, rdm, config, alarm, dma, ghost>>

Fill ==
    /\ pc = "fill" /\ Goto("enable")
    /\ buf' = [buf EXCEPT ![0] = [head |-> Full, tail |-> Full]]
    /\ filled' = TRUE
    /\ dma' = IF dma.what = "dmx" THEN [dma EXCEPT !.refilled = TRUE] ELSE dma
    /\ UNCHANGED <<read, write, pending, machine, config, alarm, packet, newest, hurried,
                   clashed>>

Calls == \/ \E send \in {"direct", "main"} : SetData(send)
         \/ \E s \in {"delta", "constant"} : SetOutputStyle(s) \/ OtherStyled(s)
         \/ Start \/ Stop \/ Sync \/ RdmTransmit \/ FullOn

Continue == \/ FlipWrite \/ CopyHead \/ CopyTail \/ Direct \/ LineSilent \/ StartDmxOutput
            \/ StartRdmOutput \/ Drain \/ Drained \/ Enable \/ Fill

Next == TimerInterrupt \/ DmaInterrupt \/ Calls \/ Continue

Spec == Init /\ [][Next]_vars

\* The timer and the DMA come to an end, and so does a call that can go on.
FairSpec == Spec /\ WF_vars(TimerInterrupt) /\ WF_vars(DmaInterrupt) /\ WF_vars(Continue)
=============================================================================
