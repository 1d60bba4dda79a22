# Formal models of the GD32 DMX512/RDM firmware

TLA+ specifications of the control logic of this firmware, the TLC models that
check them on small instances, and proofs, checked by TLAPS, that the main
invariants hold for every value of the constants.  Every definition translates
code of this repository; `PROJECT.json` names the lines.

## The system

The firmware turns a GD32 micro-controller into an Art-Net or sACN node with
several DMX512/RDM ports.  It has no operating system: `main()` calls
`network::Run()`, `dmxnode_node.Run()` and `board::Run()` for ever, and interrupt
handlers move the bytes of the RS-485 lines.  A "process" is therefore a state
machine that advances by one step per turn of the super-loop; concurrency is
the order in which network handlers, timers, interrupts and those steps meet.

| Component | State | Operations | Interacts with | What makes it correct |
|---|---|---|---|---|
| RDM discovery state machine, `lib-rdm/src/controller` | state and saved state, retry counters, stack of branches, pointer into the receive buffer | Full, Incremental, Stop, IsFinished, Process | the line through `RdmMessage`, the table | finds every device once, lists no other, ends |
| Table of devices, `rdm_tod.h` | up to 200 UIDs, mute bits, cursor | Reset, AddUid, Delete, Exist, Next, Mute | discovery, ArtTodData, RDM input | no duplicates, deletion keeps the rest |
| Discovery scheduler, `rdm_discovery.h` | enabled, waiting, kind, background bit masks, turn, timer | Enable, Disable, Full, Incremental, Stop, EnableBackground, DisableBackground, Run | one state machine for all ports, software timer, Art-Net | no request lost, every waiting port served, the commanded kind of run |
| Art-Net RDM, `lib-artnet/src/node/rdm` | GoodOutputB of each port, destination of RDM responses | ArtTodControl, ArtTodRequest, ArtRdm, poll reply | the scheduler | reports what is so |
| Art-Net DMX, `artnetnode.cpp` | two sources per port, merge state, sync state | ArtDmx, ArtSync, time-outs, failsafe | DMX node data | merge entered and left rightly |
| sACN bridge, `lib-e131` | sources, priorities, sequence numbers | data, sync, time-outs | DMX node data | the highest priority wins |
| DMX driver, `lib-dmx/src/gd32` | receiver state, double transmit buffers, port direction | interrupt handlers, RdmReceive, SetSendData | all of the above | whole frames only |
| Software timers, `lib-superloop` | table of 12 timers, cursor | Add, Delete, Change, Run | everyone | each timer fires at its time |
| TCP, UDP, ARP, ACD, AutoIP, DHCP, IGMP, `lib-network` | control blocks, queues, leases | packets, timers | HTTP, Art-Net | ordered delivery; one address |
| TFTP, flash installer, configuration store | transfer, flash sectors, dirty image | blocks, delayed writes | flash | what was written is what boots |
| Remote configuration, OSC, displays, show file, sensors, clock, board, vendor code | see `PROJECT.json` | | | |

The hard behaviours: answers that are lost, late, or overlap on the line;
handlers that stop, flush or disable a port between two steps of a run; requests
that wait while the settings they depend on change; a receive buffer that is
read one step after it was returned; a mute probe that deletes from the table it
walks; 48-bit arithmetic at the top bit; full tables.  `PROJECT.json` lists each
hazard at its line.

## What is modelled

| Modules | Code | What they are |
|---|---|---|
| `RdmTod` | `class rdm::Tod` | the table as a sequence; Exist, AddUid, Delete as operators |
| `RdmDiscovery`, `RdmDiscoveryProperties` | `rdm::discovery::StateMachine`, the line, the responders | the discovery of one port |
| `DiscoveryPromise` | | what a discovery promises, without its protocol |
| `RdmDiscoveryScheduler`, `...Properties` | `rdm::Discovery` and the Art-Net handlers that command it | the scheduler of all ports |
| `SoftwareTimers`, `...Properties` | `softwaretimers.cpp` | the pool of timers and their callbacks |
| `TimerPromise` | | one deadline per owner, without pool and cursor |
| `DmxReceiver`, `...Properties` | receive part of `dmx.cpp` | the interrupt handler and the polling calls |
| `DmxTransmitter`, `...Properties` | transmit part of `dmx.cpp`, `dmxsend.h` | timer and DMA interrupts, the calls that set data, start and stop |
| `ArtNetMerge`, `...Properties` | `artnetnode.cpp`, `dmxnodedata.h` | ArtDmx, ArtSync, merge, time-outs |
| `E131Bridge`, `...Properties` | `e131bridge.cpp` | sACN: priorities, merge, synchronisation, time-outs |
| `Tcp`, `TcpProperties` | `tcp.cpp`, its queue and its pool | one connection of the HTTP daemon |
| `RdmDiscoveryTheorems`, `RdmDiscoverySchedulerTheorems`, `SoftwareTimersTheorems`, `DmxReceiverTheorems`, `DmxTransmitterTheorems`, `ArtNetMergeTheorems`, `E131BridgeTheorems`, `TcpTheorems` | | the proofs |
| `MC...` | | the modules TLC is run on |

How they fit together: the promise of `RdmDiscovery` (a run ends, and lists what
it muted) is what `RdmDiscoveryScheduler` takes the state machine to do; the
scheduler asks `SoftwareTimers` for one timer; the frames of `RdmDiscovery` are
what `DmxReceiver` hands out and what `RdmTransmit` of `DmxTransmitter` sends;
`Start`, `Stop` and `Sync` of `DmxTransmitter` are what `ArtNetMerge` and
`E131Bridge` call.

### One port (`RdmDiscovery`)

The variables are the members of `StateMachine` under their own names
(`state`, `savedState`, `isFinished`, `doIncremental`, `unmute`, `mute`, `discovery`,
`single` for `discovery_single_device_`, `quickFind`, `quickBranch` for
`quick_find_discovery_`), the table `tod`, and the outside: the last `message` (a
retransmission repeats it), the receive buffer `rx` of the driver, the frame on
the `wire`, the devices `present` and `muted`.  `response` is whether `response_`
is not null; what it points to is `rx.frame` *at the time it is looked at*, as in
the code.

Each path of `Process()` from the switch to its return is one action, e.g.
`MuteGone` for the branch that deletes a device that never acknowledged.
`Start`, `Stop` and `IsFinished` are the calls of the scheduler, which may come
between any two steps.  `Deliver` is the interrupt handler completing a frame.

Abstractions, all deliberate:

* A UID is a number below `2 * HighBit`; the firmware has `HighBit = 2^47`.  Only
  order and the middle of two bounds matter to the search, and these are
  computed as in the code (`MidPosition`), with the top bit treated apart.
* Time is abstract.  A reception window has elapsed when no answer of a punctual
  responder is still on its way; with `Late = TRUE` it may close earlier and the
  answer then arrives in a later window.
* A frame is a discovery response of one device, the overlap of several
  (`garbage`), or the acknowledgement of a DISC_MUTE.  An overlap may be heard as
  any one of its devices, or as garbage; that an overlap passes the checksum as
  a device that does not exist is left out.
* A `Push()` that a full stack refuses is not modelled; `StackAlwaysBounded` proves that
  the stack never holds more than one branch per bit and one, far below 200.
* `Replug` lets devices appear and vanish: between runs, or with `HotPlug` at any
  time.
* `MaxLost` bounds how many requests or answers the line loses.

### All ports (`RdmDiscoveryScheduler`)

The bit masks `enabled_`, `waiting_`, `type_` and `s_bg_discovery` are sets of ports;
`portIndex` is the turn.  The one state machine appears as idle, running or
stopping, with the port and the kind of the run; that it comes back to idle is
`Terminates` of the module above.  `AtcFlush`, `AtcEnd`, `AtcIncon` and `AtcIncoff` are
the cases of `HandleTodControl()`, `SetRdm` and `PollReply` the node's functions of
that name, `TimerBackGround` the software timer, `Run` one call of `Run()` by the
super-loop: `Rest`, `StartTurn` and `SkipTurn` are its three outcomes when the machine
is idle.  Assumed: all ports are outputs, RDM is enabled in the node, and the
timer pool grants the one timer asked for.  `MaxStops` bounds ATC_END and
ATC_INCOFF: a stop leaves the turn where it is, so a controller that stops and
flushes one port for ever starves the others, and `WaitingServed` would fail.

### Software timers (`SoftwareTimers`)

`timers` is the pool in use, `current` the cursor of `SoftwareTimerRun()`, `handle`
what each owner remembers.  Add, delete and change are operators on the pool, so
that a callback, which runs in the middle of `Expire`, is one of them applied
between the load of the timer and the store of its next deadline.  The clock is
a counter modulo `Clock` (2^32 in the firmware) and `MaxLag` how late the super-loop
may look.  `TimerPromise` is one deadline per owner; the refinement maps the pool
to it whatever slot a timer lies in.  The handles' own counter is not wrapped.

### Receiver and transmitter (`DmxReceiver`, `DmxTransmitter`)

Each branch of `IrqHandlerDmxRdmInput()` is an action, byte by byte; a byte is the
frame it belongs to and its place in it, so that a packet put together from two
is seen.  `GetDmxAvailable()` and `RdmReceive()` are cut where the interrupt can
come between (`DmxLoad`, `DmxStore`, `DmxCopy`; `RdmTest`, `RdmClear`, `RdmCheck`).
`Disable`, `TurnToOutput` and `Enable` are the paths of `SetPortDirection()`.  That a start code
(204) in the place of a length byte leaves room for a checksum is `LengthAssumption`.

The transmitter has the timer interrupt (break, mark, frame, pause; the
turn-round after an RDM request), the DMA interrupt, and the calls of
`dmxsend.h` cut at the same kind of places: `SetData`, `FlipWrite`, `CopyHead`,
`CopyTail` for the copy into the buffer just selected, `LineSilent`, `Drain` for the
loops that wait for the line.  `WholeFrame` is about what leaves the line: the
head and the tail of a frame are told apart.  `Styled` is `SetOutputStyle()` of this port,
which `DataEnable()` calls too: the first constant port is started at once, a later
one makes the code stop and start *every* constant port, so that `OtherStyled` is the
same call for another port as this one feels it.  Two history variables say what the
properties except: `hurried`, the last call went on although a frame was out that the
driver does not wait for, and `clashed`, the last break was begun in the middle of a
request or of such a frame; the next break that is begun rightly clears it.

### Art-Net merge (`ArtNetMerge`)

A stream is a sender's address and physical port.  `Slot` holds the nine cases of
`HandleDmx()`, `Checked` is `CheckMergeTimeouts()` with its clearing of the
node-wide merge flag, `Accept` the rest of `HandleDmx()`; what is output is the
*set* of streams whose slots are in it (HTP) or the newest (LTP).  `syncLeft` is
`is_synchronous_mode` and the time left of it.  `heard` is a history variable:
how long ago a stream was last accepted; `dropped` another, the ports that lost their
length while data was pending, the only ones `ShownOrPending` excepts.  Abstractions: each port has a universe
of its own, the failsafe holds the last state, ages are not told apart beyond
the longest time-out, and `Commanded` bounds the ports ArtAddress and ArtRdm are
sent to.

### sACN bridge (`E131Bridge`)

The same shape with what E1.31 adds: the priority, one for all ports as in
`state_.priority`; `Refused` and `Ranked` for its two sides; `Synchronize`, `Buffer` and
`SyncPacket` for universe synchronisation with its forced and its timed form;
`StreamTerminated` and `NetworkLost` for the two branches of
`SetNetworkDataLossCondition()`.  `filled` is whether the length that goes with the slots
is not 0, which is what a synchronisation, the end of a stream and the loss of the
network clear; `dropped` is a history variable, the ports this happened to while
they waited.  `Role` looks at the sources as they were *before*
`Checked` and `Ranked` changed them, as `HandleDmx()` does with `kIpA` and `kIpB`.
Sequence numbers appear as packets that are `Ignored`.  Abstractions: a universe
per port, failsafe kHold, no input and no local merge, the two disable flags
FALSE, no change of configuration while packets come.

### TCP (`Tcp`)

One connection as the HTTP daemon uses it: Listen, Input, Run, Send, Abort.
Connect and Close have no caller.  A unit is a byte of the peer or a full segment
of the node.  The application answers a request with two `Send()`.  The segments of both directions are sets the network loses,
repeats and reorders; the peer opens, sends requests, acknowledges, closes and
resets.  `used` is the part of the block pool this connection holds, and others
(`OtherConnections`) take and return blocks at any time.  Bounds: `UnackMax` (8 in
the firmware), `RtxMaxRetry`, `Blocks`, the windows, and how often the peer connects
and asks.

`iss` is the number a connection begins with, `timing::Millis()` in the code.  Numbers are
counted from that of the first connection, and `Gaps` are the milliseconds from one
connection to the next: with a gap below what the last connection sent, the next one
begins at a number in use.  `fresh` is a history variable, TRUE as long as that did
not happen (`Unused`).  `sent` and `refused` count the units given to `Send()`, those it did not
take included, so that a unit has its number whether it is taken or not and a hole
is seen.  The wrap of the 32-bit numbers is left out.

## What is checked

| Run | Instance | What it shows |
|---|---|---|
| `discovery_exact` | UIDs 0..7, devices {2, 3, 6}, table of 2, no loss | `BranchesDisjoint`, `BranchRepeated`, `StackBounded`, `CompleteAtFinish`: three levels of branches, two devices in one branch of two UIDs, one on the other side of the top bit, and one more device than fits |
| `discovery_noisy` | UIDs 0..3, devices {0, 1}, late answers, one loss, hot-plug | `TypeOK`, `NoDuplicateEntry`, `ProbeInsideTable`, `OnlyDevicesListed` |
| `discovery_promise` | UIDs 0..3, two tries of everything, one loss, fairness | `OnlyMutedListed`; the protocol implements `DiscoveryPromise`; `Terminates` |
| `scheduler` | 2 ports, 3 stops, fairness | `SchedulerTypeOK`, `PortAgreed`, `NoLostWakeup`, `BackgroundTimerArmed`, `WaitingServed` |
| `timers` | 3 owners, pool of 2, periods 1 and 3, a clock of 8, callbacks that start and change timers | `HandlesLive`, `ImplementsPromise` (refinement of `TimerPromise`), `TimerServed` |
| `receiver` | 2 slots, messages of 3 to 5 bytes, all four kinds of frames, two frames told apart, cuts, gaps, one interrupt per call | `ReceiverTypeOK`, `InStep`, `WholePacket`, `RdmOnce`, `Recovers` |
| `transmitter` | 2 packets, FullOn, both styles, RDM requests | `LineClean`, `WholeFrame`, `RdmListens` |
| `artnet` | 2 ports, three streams of two senders on one, one on the other, HTP and LTP | `MergeWatched`, `TwoStreams`, `ShownOrPending`, `MergedOutput` |
| `e131` | 1 universe, three streams, two priorities, one synchronisation address | `SourcesWatched`, `ShownOrWaiting`, `PriorityKept`, `SilentLeaves` |
| `tcp` | 2 unacknowledged segments, 1 retry, pool of 2, windows of 1 and 2, 2 requests, 4 units, 2 connections 5 ms apart | `TcpTypeOK`, `RequestsOnce`, `ReceivedPrefix`, `PoolAccounted`, `AllAcknowledged` |
| `flush_stays_full` | 2 ports, 1 stop | a claim of `artnet.h` the code does not keep |
| `artnet_sync` | as `artnet` | an assertion of `dmxsend.h` the code does not keep |

The bounds.  With eight UIDs the search meets every case of the arithmetic (both
bounds below the top bit, both above, one on each side, a branch of two) and a
stack with more than one entry; three devices make overlaps inside overlaps.
One loss is enough to lose any one message of a run at any point; two tries are
enough to lose one and repeat it.  Two ports are enough for one to wait while the
other runs.  A pool of two with three owners is full, has a last timer that
moves, and wraps its clock within one period.  Two frames are enough for one to
run into another.  Three streams are one more than a port merges.  In the Art-Net run a time-out of
one tick separates what is in time from what is not; the order of the time-outs
is left open by letting packets come at any tick.  So it is in the `e131` run, which
has one universe: some 234,000 states.  Time-outs of two ticks for the merge and the
priority leave room for a packet between a source and its time-out, which with one
tick there is not; the properties were checked with two by hand (620,000 states),
and are proved for all time-outs.  With `FewSenders` and `Ports = {1, 2}` they hold of
two universes that share the priority, which takes some minutes and 1.1
million states.  A connection of the `tcp` run has six numbers, SYN, four units and FIN, so
that with a gap of five the second one begins above those of the first, right behind
them, or at the last of them.  Gaps of 0, 3 and 4 were checked by hand with `MaxSent = 3` (some 317,000, 313,000 and
82,000 states): all properties hold, and without `fresh` in them TLC finds requests
of the first connection delivered to the second with each of these gaps, and a unit read
twice with a gap of 0.

Completeness of a discovery needs its conditions.  `CompleteAtFinish` and
`ImplementsPromise` hold when answers are punctual, devices stay plugged in during
a run, and the line loses fewer messages than the smallest number of tries.  With
as many losses as `MuteTries` they fail: the answer to the *last* retransmission
of DISC_MUTE is never awaited, so the device is deleted although it is there, and
because it heard the DISC_MUTE it stays silent when the branches are searched.
`mute_.counter` is also shared by all the entries of the table.  `Terminates`
needs devices that stay: quick find renews its counter at each transmission, so
a device unplugged between its discovery response and the DISC_MUTE is asked for
ever.  The proofs name these conditions `Punctual`.

Other conditions a property names: `InStep` and `WholePacket` speak of runs in which
no interrupt came in the middle of a polling call (`raced`); the receiver takes
the line to be idle for a slot time between frames (`IdleBetween`); `RdmOnce` needs
that fewer interrupts than the shortest message has bytes come within one call (26
bytes take more than a millisecond, a call some microseconds; with exactly as many
TLC finds a message handed out twice); `PriorityKept` needs `PrioritiesApart`: a
priority time-out not longer than that of the merge (both are ten seconds), and a
single port or ports whose priorities do not overlap; `RdmListens` and `LineClean`
except what follows a break that was begun while an RDM request was out, or while a
frame was out that the driver does not wait for, until the next break that is begun
rightly (`clashed`): it does not wait on a port whose `sv_port_state` is `kIdle`, and not
for the first port in constant style; `RequestsOnce` and `ReceivedPrefix` speak of
connections each of which began above the numbers of those before it (`fresh`), and
`ReceivedPrefix` excludes besides a `Send()` that overtakes its own queue (`overtaken`) or
refuses a unit (`refused`); `AllAcknowledged` excepts an established connection that waits
for a segment without a copy (`Untracked`);
`ImplementsPromise` of the timers speaks of callbacks that delete no timer.

Fairness.  Weak fairness of `Process`, `RunToIdle`, `SoftwareTimerRun`, `Poll`,
`Continue` and the TCP `Run` because the super-loop never stops calling them; of
`Deliver`, `FrameByte` and `LineIdle` because a frame that began ends and a line
falls silent; of `TimerInterrupt` and `DmaInterrupt` because a timer that runs and
a transfer under way end; of `Enable` because an RDM request ends with the port
turned back; of `Halt` because a failed assertion stops the program.  Nothing is
assumed of packets, handlers, devices or peers: `AllAcknowledged` holds of a peer
that vanished.  `SilentLeaves` states its own premise, that one stream keeps
sending and the other does not, the priority stays and the network is not lost.

## What is proved

TLAPS proves, for every value of the constants that the assumptions allow:

* One port: `TypeCorrect`, `BranchesAlwaysDisjoint`, `BranchAlwaysRepeated`,
  `NeverDuplicated`, `ProbeAlwaysInside`, `NothingMadeUp`, for every UID width, set of devices,
  table size and number of tries, on a line with late answers and hot-plugging
  (`DiscoveryAssumption`, `TableSizeAssumption`: the top bit is an even number,
  devices lie below the broadcast UID, every request is tried at least once and
  quick find twice); `StackAlwaysBounded`, under the same assumptions and nothing
  else; `OnlyMutedAlwaysListed`, under `~HotPlug`; and under `Punctual`
  `AlwaysCompleteAtFinish` and `DiscoveryKeepsPromise`, the refinement of
  `DiscoveryPromise`.  `Punctual` is: no late answer, no hot-plugging, and fewer losses
  than each of the four numbers of tries.
* Scheduler: `SchedulerTypeCorrect`, `PortAlwaysAgreed`, `WakeupNeverLost`,
  `TimerAlwaysArmed`, for every number of ports (`PortsAssumption`).
* Timers: `TypeCorrect`, `HandlesAlwaysLive`, `CursorAlwaysInside`, for every pool,
  set of owners, period and clock, callbacks that delete timers included; and
  `PoolImplementsPromise`, the refinement of `TimerPromise`, for callbacks that delete
  none (the model value `NoDeadline` is assumed not to be a deadline).
* Transmitter: `TransmitterTypeCorrect`, `LineAlwaysClean`, `FrameAlwaysWhole`, for any
  number of packets (`TransmitterAssumption`), with the exceptions the properties name; and `RdmAlwaysListens`, a liveness
  property, under `TimerFair`, `DmaFair` and `CopyFair`.
* Art-Net merge: `MergeTypeCorrect`, `MergeAlwaysWatched`, `AlwaysTwoStreams`,
  `AlwaysShownOrPending`, `OutputAlwaysMerged`, for any ports, senders and time-outs
  (`MergeAssumption`: a stream is told by its address and its physical port).
* sACN bridge: `BridgeTypeCorrect`, `SourcesAlwaysWatched`, `AlwaysShownOrWaiting`, for
  any ports, senders, priorities and time-outs (`BridgeAssumption`);
  `PriorityAlwaysKept`, under `PrioritiesApart`; and `SilentAlwaysLeaves`, a liveness
  property.
* Receiver: `ReceiverTypeCorrect`, `AlwaysInStep`, and under `IdleBetween`
  `AlwaysWholePacket`, for buffers, messages and packets of any length, senders that
  stop anywhere and any number of interrupts (`ReceiverAssumption`, `LengthAssumption`); and
  `HandedOutOnce`, for fewer interrupts in a call than the shortest message has bytes;
  and `AlwaysRecovers`, a liveness property, under `FallsSilent` and `TurnsBack`.
* TCP: `TcpTypeCorrect`, `RequestsAreTakenOnce`, `PeerReadsInOrder`, `BlocksAccounted`, for a
  ring, a pool, windows, answers and requests of any number, and any number of
  connections one after the other, any time apart (`TcpAssumption`).  `RequestsAreTakenOnce`
  and `PeerReadsInOrder` are of connections that begin above the numbers of those before
  them, which the code does not ensure; the other two need nothing of the kind.

The type invariants of the timers, the transmitter and the two merges, and
`CursorInside`, are proved and not run again.

Along which argument.  For one port the properties follow from `IInv` of
`RdmDiscoveryTheorems`.  None is inductive alone.  `BranchesDisjoint` needs that
*below* the popped branch the stack ascends (`Ascending`, `AboveStack`), that a
branch in `kDub` has more than one UID (`Asked`), which is why its halves are
non-empty, and that the middle of two bounds lies between them (`MidBetween`, which
rests on `MidPositionFacts`: the masked sum of the code is the rounded mean).
`ProbeInsideTable` needs what `Delete` does to the length of the table
(`DeleteFacts`) and where the cursor stands before the probe begins.
`OnlyDevicesListed` needs that every frame on the line and in the receive buffer
names a device that exists (`LineOK`).  A state reached through the late-response
pause counts as the state it leads to (`Where`).  Each action group has a lemma,
with a step for each part of `IInv` that it can disturb; what a step leaves alone
is settled by `CountersKept`, `BranchKept` and `TableKept`.  `OnlyMutedAlwaysListed`
needs a second invariant on top, `MutedInv`: when kUnmute has used up its tries no
acknowledgement of an earlier run is on the line or in the buffer, and from then
on every acknowledgement is of a device muted since, also with late answers.

`StackBounded` rests on `StackInv`: entry `i` of the stack is a branch that `i - 1` halvings
leave of the whole range.  `kDub` pushes the lower half under the upper one and only
the upper half is one level deeper (`HalvesFacts`), so that the length of the stack
is paid for by the length of the branch on top, whatever the answers were.

`CompleteAtFinish` rests on `CompleteInv`, which says of every state of the machine what
is known of the devices.  Three facts run through it.  `Covered`: a device that is
not muted lies in the branch being searched or in one on the stack.  `Listed`: the
table holds the muted devices but for the one in hand, or is full.  And for each
kind of request how many losses are left against how many tries are left
(`Awaiting`): when a request that a device should answer has used up its tries, more
messages than `MaxLost` would have been lost, so that silence is really silence.
From that follow the two turns a search may take wrongly: no branch with a device
in it is taken for empty, and no listed device is deleted while it is there.
`DiscoveryKeepsPromise` takes the same invariant step by step: an addition to the
table is `Learn` of a device that is present, a deletion is `Forget` of one that is not,
an end is reported with a `Complete` table, and everything else is a stutter; the
table as a sequence is mapped to its set of UIDs, so that the limit of the promise
is met because the table holds no UID twice (`UidsCounted`).

For the scheduler `SchedulerInv` is the type invariant together with the three
invariants the run checks, inductive without further strengthening; `StopFacts`
says what a `Stop()` leaves.  `IInv` of `SoftwareTimersTheorems` adds to `HandlesLive` that identifiers
are below the next one to be given, so that a moved or a new timer is never
mistaken for another.  For the refinement a timer is looked up by its owner, which
the swap of the last timer into a free slot does not change; every operation, and
every callback in the middle of `Expire`, is shown to set the deadline of its own
owner and no other.  `ReceiverInv` adds what lies between
the line and the buffers: a break is followed by the start code of the frame it
began (`LineOK`), there is room
for the next byte and a buffer that is being filled has no flag (`FillOK`), a polling
call works on a buffer nobody fills (`CallOK`), and a packet under way is the frame
on the line (`PacketOK`).  `OnceInv` adds to it that the bytes in the buffer were on
the line already (`BytesSent`), that the message in the buffer was not handed out as
long as it may still be (`NotYet`), and that of a message that began in the middle
of a call no more bytes have come than interrupts (`RdmCallOK`): that is where a
bound on the interrupts is needed.  `TransmitterInv` adds which machine may be where while a
transfer is under way (who owns the line) and what the buffers hold relative to
the newest packet.  `MergeInv` adds that a live source has given slots; the
work is in what `CheckMergeTimeouts()` leaves of one port and of the others
(`CheckedFacts`).  `HeardInv` relates the sources to what was heard: a live source
keeps the last slots of its stream at the age it was heard (`Remembers`), and a
stream heard within the time-out is one of the two (`Holds`).  `BridgeInv` needs no strengthening, but the order of the code:
what the time-outs and the priority leave of a port (`Left`) is weaker than what
the nine cases assume of it, and `SourcesWatched` is what survives.  `KeptInv` adds for
`PriorityKept` that a source is no older than its stream was heard (`Young`), that a port
hears its own priorities only (`FromPort`), and that no source in time is of a higher
priority than the bridge (`Below`), unless all packets to the port are of one.

`SilentAlwaysLeaves` needs no fairness, because its premises already say that packets keep
coming, and so it can be had from step formulas and temporal logic alone.  Once the
premises have set in (`Settled`: `s` in time, `t` not) a port is in one of two states
that no step leaves but towards the first: `Out`, `t` is neither of its sources, and
`Pair`, both are and merge mode is on.  In `Out` no step puts `t` back into the slots.
When `s` comes again after a silence (`Fresh`), the time-outs are looked at, because a
live source is at least as old as its stream was heard (`ElderInv`): a port in
neither state enters one, a `Pair` becomes `Out`, and a port that is `Out` has its
slots written without `t` (`Absent`), for good.  `s` is silent for a tick infinitely
often, so this happens twice more.

`RdmAlwaysListens` and `AlwaysRecovers` need fairness, and state it with the guards of the
steps, because the prover knows nothing of ENABLED: a timer that runs infinitely long
fires (`TimerFair`), a copy that was begun is ended (`CopyFair`).  That is the weak
fairness of the run in other words.  Two premises are stronger than the fairness of
the run: a transfer ends although packets are copied again and again (`DmaFair`, strong
fairness, as the model lets no transfer end in the middle of a copy), and the line falls silent again and
again (`FallsSilent`).  In a run both follow from its weak fairness, as packets and
frames are finitely many; of any number of them the code needs just this, a DMA that
is slowed down by no copy and senders that end what they begin.  `RequestInv` says
that a request at work is in one of four states, break, mark-after-break, transfer and
the wait before the port is turned round, unless a break was begun in the middle of it,
or the request itself in the middle of a frame (`clashed`).  No step of the super-loop leaves one of them (`LoopKeeps`), each interrupt
goes on to the next (`InterruptsAdvance`), and each is left by the interrupt whose fairness is
given.  For `AlwaysRecovers` it is enough that a port that hears the line receives
nothing while it is silent (`SilentOK`), and that a port turned away comes back with its
receiver idle (`AwayStep`).

`TcpInv` is stated of a record the handlers pass along, so that it is kept by `SendData`,
`Push`, `Pop` and the acknowledgement, and each handler is their composition.  It has
two halves.  `Basic` holds whatever numbers the connections begin with: no number of a
connection lies beyond its SYN, the units sent and its FIN (`TcbOK`), an entry of the
ring is a copy of a segment sent or one without its payload (`RingOK`), and the blocks
in use are those of the ring and the queue (`PoolOK`).  `Exact` holds as long as the
connections began above each other (`fresh`): every unit that `Send()` took is in the queue
or has the number that belongs to it, the SYN and the FIN counted (`NumbersOK`); what
the application got is what was acknowledged (`RequestsOK`); the network holds one
segment of each number, of any connection there was, and no SYN follows directly on
another number (`WireOK`), so that what is delayed or repeated says nothing new; and
what the peer reads next follows what it read (`PeerOK`).

Every invariant, every action property and both refinements that the runs check
are proved, and of the liveness properties `SilentLeaves`, which rests on no fairness,
and `RdmListens` and `Recovers` under fairness stated by guards.  Only model-checked are
`Terminates`, `WaitingServed`, `TimerServed` and `AllAcknowledged`: what decreases there
(branches and tries left, ports before one's turn, timers before the cursor, segments
in flight) would have to be counted down by an induction over data.  That the weak
fairness of the runs, defined by ENABLED, implies the premises of `RdmAlwaysListens`
and `AlwaysRecovers` is argued above and not proved.  The two
violations are shown by TLC's counterexamples.

## Findings

`flush_stays_full`: `Discovery::Incremental()`, called by the background timer, turns
a full discovery that still waits into an incremental one.  `artnet_sync`: the
loss of the network clears the length of a port and leaves its data pending, so
that the next two ArtSync call `Sync()` on a port without a length.  A release build
goes on from there: the port sends a frame without slots and the packet is lost, which
is what the steps of `Flush` do.

What else the models show, without a run of its own:

* **Discovery and scheduler.** A port that waits is started after AtcIncoff or
  after RDM was disabled on it (`rdm_discovery.h:202`).  While one port is in discovery the poll reply reports
  every port by the state of that one, background discovery included
  (`artnetrdmcontroller.h:110`), and `ArtRdm` of the others is dropped.

* **Timers.** A callback that deletes its own timer makes `SoftwareTimerRun()`
  (`softwaretimers.cpp:168`) give the timer that was swapped into its slot the
  deleted one's interval, counted from now.  The sleep timer of the display
  (`display.cpp:34`) is such a callback: a one-second timer may wait five minutes.

* **Receiver.** `kRdmData` stores a byte before it tests the index (`dmx.cpp:296`, `:304`):
  of a message whose length byte fits nowhere the 258th byte goes to
  `data[sizeof(TRdmMessage)]`, one past the array (`:129`).  What lies there is padding, as
  `index` is aligned to four bytes behind 257, so that nothing is lost; but nothing in the
  code says so.  The model names the byte (`Spilled`) and `ReceiverTypeOK` admits this index
  and no further.  An interrupt between the load and the store of `slots_in_packet` in
  `GetDmxAvailable()` (`dmx.cpp:2079`) has its count overwritten.  Frames without
  an idle line between them run together.

* **Transmitter.** FullOn() and Blackout() write `data[0]` whichever buffer is sent (`dmx.cpp:1566`):
  in constant style the port may go on sending the other, although
  `artnet.h:147` says "Failsafe mode = outputs to full"; in delta style they begin
  no frame, and they enable output ports that are stopped, so that the next `Start()` fails
  the assertion of `DataEnable()` (`:1464`).  `SetOutputStyle(kConstant)`, which every start of a
  constant port calls, stops and starts all constant ports (`:2361`) and leaves their
  `sv_port_state` at `kIdle`: `Stop()` does nothing then, DMX goes on, and an RDM request begins
  in the middle of a frame.  The first constant port is started without waiting for a
  frame that is out (`:2354`).  The start of another constant port, or a change of its
  style, restarts a port on which an RDM request is out, and an ArtDmx packet during
  a request (`artnetnode.cpp:1040`) or a second request overwrites its timer: `LineClean` and
  `RdmListens` except these (`clashed`).  In delta style data set while a frame is out waits
  for the next trigger.

* **Art-Net merge.** The physical port of a source that timed out is still compared
  (`artnetnode.cpp:942`), so that a second stream of the same sender is discarded
  for ever.  `kOutputIsMerging` stays set when the network is lost: merge mode then
  does not end and ArtSync is ignored.  A packet discarded on one port is not
  looked at for later ports of its universe.  ArtSync restarts a port that ArtRdm
  stopped.  HTP with packets of different lengths makes the output length toggle.

* **sACN bridge.** The end of the streams of a port that waits for a synchronisation
  packet clears the length of its slots (`e131bridge.cpp:866`), the loss of the network
  likewise (`:844`), and neither clears `is_data_pending`: the next synchronisation packet
  syncs a port without a length, the assertion of `artnet_sync` (`dmxsend.h:101`) in a
  debug build, a frame without slots in a release build, and the packet is lost.  In
  a release build a packet of a third stream after a synchronisation, which clears
  every length, does the same.  `ShownOrWaiting` excepts these ports (`dropped`).  The priority outlives its stream.  A stream at priority 2 that took over a port
  from one at 1 and sends Stream_Terminated leaves the port without a source, on
  which `IsPriorityTimeOut()` is never true: the stream at 1 is refused as long as
  packets of any kind keep coming.  The priority is one for all universes, so a
  universe at a high one shuts out another at a low one for ten seconds at a time,
  and a rise on one port ends the merge mode of all.  The other way round a universe
  at a low priority lowers that of a universe whose priorities reach above it, when
  the sources it asks about timed out: with priorities 1 and 2 on one port and 1 on
  the other a source at 2 is displaced while it is heard (`PrioritiesApart` excludes
  it).  In merge mode a source that timed out and sends again is taken for the source
  it was, because the case was chosen before the time-outs cleared it
  (`e131bridge.cpp:713`): its slots are output, but it is no source, and a newcomer of
  lower priority is accepted although that stream was heard within the time-out.
  `PriorityKept` therefore speaks of the *sources* of a port.  The loss of the network
  ends merge mode for all ports, but clears the sources of the ports that transmit
  only: a port whose data waits for a synchronisation packet keeps both, outside merge
  mode, where their time-outs are not looked at.  If the network is lost again and
  again, a silent stream stays in the merged slots (`SilentLeaves` excludes it).
  After a rise the first packet is merged with the slots of the streams it
  displaced, because the case was chosen before. A terminated stream forgets that
  source of every transmitting port. The number of an out-of-sequence packet is
  stored although the packet is discarded. Priority 0 is refused at first. Leaving a
  synchronisation address does not ask whether the other source still uses it.

* **TCP.** A push onto an exhausted pool sets `full_` with no node, so that `IsEmpty()` is
  false and `Run()` calls `GetFront()`, which asserts (`network_tcp_datasegmentqueue.h:122`):
  the model's `Halted`; a build without assertions reads through a null pointer,
  which is not modelled.  An RST outside the window frees the connection although
  the comment at `tcp.cpp:1141` says to drop it.  A FIN is taken out of order.  In
  CLOSE-WAIT the FIN is sent before the queue is.  A segment sent while eight are
  unacknowledged is not tracked (`tcp.cpp:520`): if it is lost, an established connection
  waits for its acknowledgement for ever once the ring is empty (`Untracked`).  One sent with the pool
  exhausted is repeated without its payload, so that its data is lost for good if
  the first transmission was.  An established connection whose peer vanished with nothing
  outstanding is never freed, and a zero window is never probed.

  The initial number of a connection is the clock in milliseconds (`tcp.cpp:348`), while
  `SND.NXT` advances by bytes.  A connection that sent more bytes than milliseconds pass
  until the peer connects again leaves its numbers to the next one: a delayed
  acknowledgement of the old connection establishes the new one, a delayed request of
  the old one is handed to the application again, and a segment of the new one may be
  read on the old (`fresh`).

  `Send()` that finds a window too small queues the answer.  If the pool refuses a unit it
  returns -2, or 1, "queued", when it was the last one, as the result of `Push()` is not looked at
  (`tcp.cpp:1695`); if units are queued already it returns -2.  The HTTP daemon ignores every
  result (`httpdhandlerequest.cpp:190`, `:206`, `:212`), so that the peer reads the next answer past
  the hole (`refused`).

## Plan

1. Done: table, discovery, scheduler, timers, receiver, transmitter, Art-Net
   merge, sACN bridge, one TCP connection.
2. Done: proofs of every safety property of these modules and of both refinements.
3. `RdmResponder` and the RDM input handler with the mute bits of the table, and
   the way of an ArtRdm request through the node, which shares the receive buffer
   with the discovery (`HandleRdmIn`).
4. `Acd`, `AutoIp`, `Dhcp`: one address, given up on conflict.
5. `Tftp` with the flash installer, `ConfigStore` with a reset between two steps.

## Not modelled

The gateway of ArtRdm requests and responses (`HandleRdmIn` may take the answer to
a discovery request, and `rdm_destination_ip` never times out), show file and
failsafe recording, DMX input to the network, configuration by ArtAddress apart
from merge mode and style, UDP, ARP, ACD, AutoIP, DHCP, IGMP, mDNS, NTP, TFTP and
the flash, the configuration store: control worth a model, in the order of the
plan.  Formatting, parsing and display code, sensors, hardware registers and
vendored code have none; see the notes of the components in `PROJECT.json`.
