---------------------------- MODULE RdmDiscovery ----------------------------
(***************************************************************************)
(* The RDM discovery state machine of one port, rdm::discovery::           *)
(* StateMachine (lib-rdm/src/controller/rdm_discovery_statemachine.cpp),   *)
(* together with the RS-485 line and the responders it talks to.           *)
(*                                                                         *)
(* The super-loop calls Process() over and over.  One call is one action   *)
(* here; a call that only polls and finds nothing is a stuttering step.    *)
(* Time is abstract: a reception window of kReceiveTimeOut microseconds    *)
(* "has elapsed" (WindowElapsed) once the answer of a punctual responder   *)
(* would have arrived.  With Late = TRUE the window may also close while   *)
(* an answer is still on its way.                                          *)
(***************************************************************************)
EXTENDS RdmTod, FiniteSets

CONSTANTS
    HighBit,           \* the top bit of a UID: 0x800000000000 in the firmware
    Devices,           \* the UIDs of the responders that can be on the line
    UnmuteTries,       \* kUnmuteCounter
    MuteTries,         \* kMuteCounter
    BranchTries,       \* kDiscoveryCounter
    QuickFindTries,    \* kQuikfindCounter
    QuickBranchTries,  \* kQuikfindDiscoveryCounter
    MaxLost,           \* bound: how many requests or answers the line may lose
    Late,              \* may an answer come after the reception window
    HotPlug            \* may devices be plugged and unplugged during a run

Uid == 0..(2 * HighBit - 1)

\* The range Start() pushes ends below the broadcast UID (0xfffffffffffe).
LastUid == 2 * HighBit - 2

ASSUME DiscoveryAssumption ==
    /\ HighBit \in Nat \ {0} /\ HighBit % 2 = 0
    /\ Devices \subseteq 0..LastUid
    /\ IsFiniteSet(Devices)
    /\ UnmuteTries \in Nat \ {0}
    /\ MuteTries \in Nat \ {0}
    /\ BranchTries \in Nat \ {0}
    /\ QuickFindTries \in Nat \ {0, 1}
    /\ QuickBranchTries \in Nat \ {0}
    /\ MaxLost \in Nat
    /\ Late \in BOOLEAN /\ HotPlug \in BOOLEAN

\* enum class State
State == { "Idle", "Unmute", "Mute", "Discovery", "SingleDevice", "Dub",
           "QuickFind", "QuickFindDiscovery", "LateResponse", "Finished" }

\* What the line carries to the controller: the discovery response of one
\* device, the overlap of several, the acknowledgement of a DISC_MUTE.
Frame == [kind : {"none", "dub", "garbage", "mute"}, uid : Uid]
NoFrame == [kind |-> "none", uid |-> 0]

\* What the controller sends: DISC_UN_MUTE to all, DISC_MUTE to the UID lower,
\* DISC_UNIQUE_BRANCH of the range lower..upper.
Request == [pid : {"none", "unmute", "mute", "dub"}, lower : Uid, upper : Uid]
Broadcast == [pid |-> "unmute", lower |-> LastUid + 1, upper |-> LastUid + 1]
MuteOf(uid) == [pid |-> "mute", lower |-> uid, upper |-> uid]
BranchOf(range) == [pid |-> "dub", lower |-> range[1], upper |-> range[2]]

VARIABLES
    state, savedState,  \* state_, saved_state_
    isFinished,         \* is_finished_
    doIncremental,      \* do_incremental_
    tod,                \* *tod_
    response,           \* response_ # nullptr
    unmute,             \* unmute_
    mute,               \* mute_
    discovery,          \* discovery_
    single,             \* discovery_single_device_
    quickFind,          \* quick_find_
    quickBranch,        \* quick_find_discovery_
    message,            \* message_, the request a retransmission repeats
    rx,                 \* the receive buffer of the DMX driver
    wire,               \* the frame that is on its way to the controller
    present,            \* the devices that are plugged in
    muted,              \* the devices that are muted
    lost                \* how many messages the line has lost

machine == <<state, savedState, isFinished, doIncremental, tod, response,
             unmute, mute, discovery, single, quickFind, quickBranch>>
line == <<message, rx, wire, muted, lost>>
vars == <<machine, line, present>>

(***************************************************************************)
(* The line and the responders.                                            *)
(***************************************************************************)
\* The devices that answer a DISC_UNIQUE_BRANCH of the range l..u.
Answering(l, u) == { d \in present \ muted : l <= d /\ d <= u }

\* What a branch request brings back: silence, the one responder, or the
\* overlap of several, which the receiver may also capture as one of them.
BranchAnswers(l, u) ==
    LET A == Answering(l, u) IN
    IF A = {} THEN {NoFrame}
    ELSE { [kind |-> "dub", uid |-> d] : d \in A }
         \cup (IF \A d, e \in A : d = e THEN {} ELSE {[kind |-> "garbage", uid |-> 0]})

Answers(req) ==
    CASE req.pid = "dub" -> BranchAnswers(req.lower, req.upper)
      [] req.pid = "mute" -> { IF req.lower \in present
                               THEN [kind |-> "mute", uid |-> req.lower] ELSE NoFrame }
      [] OTHER -> {NoFrame}

MutedAfter(req) ==
    CASE req.pid = "unmute" -> {}
      [] req.pid = "mute" -> muted \cup ({req.lower} \cap present)
      [] OTHER -> muted

\* message_.Transmit(): the transceiver turns to output, so a frame that was
\* on its way is gone; the receive buffer keeps what it had.
Transmit(req) ==
    /\ message' = req
    /\ \/ /\ muted' = MutedAfter(req)
          /\ wire' \in Answers(req)
          /\ lost' = lost
       \/ /\ lost < MaxLost
          /\ lost' = lost + 1
          /\ muted' \in {muted, MutedAfter(req)}
          /\ wire' = NoFrame

\* The interrupt handler completes a frame in the receive buffer.
Deliver ==
    /\ wire # NoFrame
    /\ rx' = [ready |-> TRUE, frame |-> wire]
    /\ wire' = NoFrame
    /\ UNCHANGED <<machine, message, muted, lost, present>>

\* message_.Receive(): returns the buffer once per frame.
Received == rx.ready
Drained == [rx EXCEPT !.ready = FALSE]
ReceiveOnly == rx' = Drained /\ UNCHANGED <<message, wire, muted, lost>>

\* Variant that must break ImplementsPromise: the window is too short.
WindowTooShort == TRUE

\* timing::Micros() - micros > kReceiveTimeOut.
WindowElapsed == Late \/ wire = NoFrame

\* Devices are plugged, unplugged and power-cycled, between two runs or, with
\* HotPlug, at any time.  A device that comes back is not muted.
Replug ==
    /\ HotPlug \/ (state = "Idle" /\ ~isFinished)
    /\ present' \in SUBSET Devices
    /\ muted' \in SUBSET (muted \cap present')
    /\ wire' \in {wire, NoFrame}
    /\ UNCHANGED <<machine, message, rx, lost>>

(***************************************************************************)
(* Start, Stop and the change of state.                                    *)
(***************************************************************************)
\* NewState(): on the way to the next state a late response may be awaited.
NewState(next, late) ==
    IF late /\ state # "LateResponse"
    THEN state' = "LateResponse" /\ savedState' = next
    ELSE state' = next /\ UNCHANGED savedState

Init ==
    /\ state = "Idle" /\ savedState = "Idle"
    /\ isFinished = FALSE /\ doIncremental = FALSE
    /\ tod = EmptyTod
    /\ response = FALSE
    /\ unmute = [counter |-> 0, running |-> FALSE]
    /\ mute = [entries |-> 0, counter |-> 0, running |-> FALSE, uid |-> 0]
    /\ discovery = [counter |-> 0, running |-> FALSE, stack |-> << >>,
                    lower |-> 0, upper |-> 0, pdl |-> <<0, 0>>]
    /\ single = [counter |-> 0, running |-> FALSE]
    /\ quickFind = [counter |-> 0, running |-> FALSE, uid |-> 0]
    /\ quickBranch = [counter |-> 0, running |-> FALSE]
    /\ message = [pid |-> "none", lower |-> 0, upper |-> 0]
    /\ rx = [ready |-> FALSE, frame |-> NoFrame]
    /\ wire = NoFrame
    /\ present \in SUBSET Devices
    /\ muted \in SUBSET present
    /\ lost = 0

\* Variant that must break OnlyMutedListed: Full() forgets tod->Reset().
TodKept(incremental) == tod

\* Full() resets the table.
TodAtStart(incremental) == IF incremental THEN tod ELSE EmptyTod

\* Variant that must break Terminates: a try is not counted.
CountStuck(counter) == counter

\* A try without an answer.
CountTry(counter) == counter - 1

\* Full() and Incremental(), through Start().  The scheduler collects the end
\* of a run before it starts the next one.
Start(incremental) ==
    /\ state = "Idle" /\ ~isFinished
    /\ doIncremental' = incremental
    /\ isFinished' = FALSE
    /\ tod' = TodAtStart(incremental)
    /\ unmute' = [counter |-> UnmuteTries, running |-> FALSE]
    /\ mute' = [mute EXCEPT !.entries = IF incremental THEN Len(tod) ELSE @,
                            !.counter = MuteTries, !.running = FALSE]
    /\ discovery' = [discovery EXCEPT !.stack = << <<0, LastUid>> >>,
                                      !.counter = BranchTries, !.running = FALSE]
    /\ single' = [counter |-> MuteTries, running |-> FALSE]
    /\ quickFind' = [quickFind EXCEPT !.counter = QuickFindTries, !.running = FALSE]
    /\ quickBranch' = [counter |-> QuickBranchTries, running |-> FALSE]
    /\ NewState("Unmute", FALSE)
    /\ UNCHANGED <<response, line, present>>

\* Stop(): leaves through the late-response state, and the run never finishes.
Stop ==
    /\ state # "Idle"
    /\ isFinished' = FALSE
    /\ NewState("Idle", TRUE)
    /\ UNCHANGED <<doIncremental, tod, response, unmute, mute, discovery, single,
                   quickFind, quickBranch, line, present>>

\* IsFinished(): the scheduler learns of the end of a run once.
IsFinished ==
    /\ isFinished
    /\ state = "Idle"
    /\ isFinished' = FALSE
    /\ UNCHANGED <<state, savedState, doIncremental, tod, response, unmute, mute,
                   discovery, single, quickFind, quickBranch, line, present>>

(***************************************************************************)
(* Process(), state by state.                                              *)
(***************************************************************************)
\* kLateResponse: whatever arrives is thrown away, then the saved state.
LateResponse ==
    /\ state = "LateResponse"
    /\ ReceiveOnly
    /\ \/ state' = savedState
       \/ Received /\ state' = state
    /\ UNCHANGED <<savedState, isFinished, doIncremental, tod, response, unmute,
                   mute, discovery, single, quickFind, quickBranch, present>>

UnmuteDone ==
    /\ state = "Unmute" /\ unmute.counter = 0
    /\ unmute' = [counter |-> UnmuteTries, running |-> FALSE]
    /\ NewState(IF doIncremental THEN "Mute" ELSE "Discovery", FALSE)
    /\ UNCHANGED <<isFinished, doIncremental, tod, response, mute, discovery,
                   single, quickFind, quickBranch, line, present>>

UnmuteSend ==
    /\ state = "Unmute" /\ unmute.counter # 0 /\ ~unmute.running
    /\ Transmit(Broadcast)
    /\ unmute' = [unmute EXCEPT !.running = TRUE]
    /\ UNCHANGED <<state, savedState, isFinished, doIncremental, tod, response,
                   mute, discovery, single, quickFind, quickBranch, rx, present>>

\* Answers to a broadcast are not expected; they are read and forgotten.
UnmuteWait ==
    /\ state = "Unmute" /\ unmute.counter # 0 /\ unmute.running
    /\ ReceiveOnly
    /\ \/ /\ WindowElapsed
          /\ unmute' = [counter |-> CountTry(unmute.counter), running |-> FALSE]
       \/ Received /\ UNCHANGED unmute
    /\ UNCHANGED <<state, savedState, isFinished, doIncremental, tod, response,
                   mute, discovery, single, quickFind, quickBranch, present>>

\* Variant that must break ProbeInsideTable: the cursor does not move.
SameEntry(entries) == entries

\* mute_.tod_entries--: the probe goes from the last entry to the first.
NextEntry(entries) == entries - 1

MuteDone ==
    /\ state = "Mute" /\ mute.entries = 0
    /\ mute' = [mute EXCEPT !.running = FALSE]
    /\ NewState("Discovery", FALSE)
    /\ UNCHANGED <<isFinished, doIncremental, tod, response, unmute, discovery,
                   single, quickFind, quickBranch, line, present>>

\* A device of the table that never acknowledged is gone.
MuteGone ==
    /\ state = "Mute" /\ mute.entries # 0 /\ mute.counter = 0
    /\ tod' = Delete(tod, mute.uid)
    /\ mute' = [mute EXCEPT !.entries = NextEntry(@), !.counter = MuteTries, !.running = FALSE]
    /\ UNCHANGED <<state, savedState, isFinished, doIncremental, response, unmute,
                   discovery, single, quickFind, quickBranch, line, present>>

MuteSend ==
    /\ state = "Mute" /\ mute.entries # 0 /\ mute.counter # 0 /\ ~mute.running
    /\ mute' = [mute EXCEPT !.uid = tod[mute.entries], !.running = TRUE]
    /\ Transmit(MuteOf(tod[mute.entries]))
    /\ UNCHANGED <<state, savedState, isFinished, doIncremental, tod, response,
                   unmute, discovery, single, quickFind, quickBranch, rx, present>>

\* Any frame counts as the acknowledgement; the budget of tries is not renewed.
MuteReceive ==
    /\ state = "Mute" /\ mute.entries # 0 /\ mute.counter # 0 /\ mute.running
    /\ Received
    /\ ReceiveOnly
    /\ response' = TRUE
    /\ mute' = [mute EXCEPT !.entries = NextEntry(@), !.running = FALSE]
    /\ UNCHANGED <<state, savedState, isFinished, doIncremental, tod, unmute,
                   discovery, single, quickFind, quickBranch, present>>

MuteTimeout ==
    /\ state = "Mute" /\ mute.entries # 0 /\ mute.counter # 0 /\ mute.running
    /\ ~Received /\ WindowElapsed
    /\ response' = FALSE
    /\ mute' = [mute EXCEPT !.counter = CountTry(@)]
    /\ Transmit(message)
    /\ UNCHANGED <<state, savedState, isFinished, doIncremental, tod, unmute,
                   discovery, single, quickFind, quickBranch, rx, present>>

\* kDiscovery with a branch request out: an answer, or no tries left.
BranchReceive ==
    /\ state = "Discovery" /\ discovery.running
    /\ Received \/ discovery.counter = 0
    /\ ReceiveOnly
    /\ response' = Received
    /\ discovery' = [discovery EXCEPT !.running = FALSE]
    /\ NewState("Dub", FALSE)
    /\ UNCHANGED <<isFinished, doIncremental, tod, unmute, mute, single,
                   quickFind, quickBranch, present>>

BranchTimeout ==
    /\ state = "Discovery" /\ discovery.running
    /\ ~Received /\ discovery.counter # 0 /\ WindowElapsed
    /\ response' = FALSE
    /\ discovery' = [discovery EXCEPT !.counter = CountTry(@)]
    /\ Transmit(message)
    /\ UNCHANGED <<state, savedState, isFinished, doIncremental, tod, unmute, mute,
                   single, quickFind, quickBranch, rx, present>>

\* The stack is empty: the search is over.
SearchDone ==
    /\ state = "Discovery" /\ ~discovery.running
    /\ discovery.stack = << >>
    /\ NewState("Finished", TRUE)
    /\ UNCHANGED <<isFinished, doIncremental, tod, response, unmute, mute, discovery,
                   single, quickFind, quickBranch, line, present>>

\* stack.Pop() into lower_bound, upper_bound.
Top == discovery.stack[Len(discovery.stack)]
Rest == SubSeq(discovery.stack, 1, Len(discovery.stack) - 1)

PopSingle ==
    /\ state = "Discovery" /\ ~discovery.running
    /\ discovery.stack # << >> /\ Top[1] = Top[2]
    /\ discovery' = [discovery EXCEPT !.stack = Rest, !.lower = Top[1], !.upper = Top[2]]
    /\ quickBranch' = [quickBranch EXCEPT !.running = FALSE]
    /\ NewState("SingleDevice", TRUE)
    /\ UNCHANGED <<isFinished, doIncremental, tod, response, unmute, mute,
                   single, quickFind, line, present>>

\* Variant that must break BranchRepeated: pdl is filled once only.
PopBranchStale ==
    /\ state = "Discovery" /\ ~discovery.running
    /\ discovery.stack # << >> /\ Top[1] # Top[2]
    /\ discovery' = [discovery EXCEPT !.stack = Rest, !.lower = Top[1], !.upper = Top[2],
                        !.pdl = IF @ = <<0, 0>> THEN Top ELSE @,
                        !.counter = BranchTries, !.running = TRUE]
    /\ Transmit(BranchOf(Top))
    /\ UNCHANGED <<state, savedState, isFinished, doIncremental, tod, response, unmute,
                   mute, single, quickFind, quickBranch, rx, present>>

PopBranch ==
    /\ state = "Discovery" /\ ~discovery.running
    /\ discovery.stack # << >> /\ Top[1] # Top[2]
    /\ discovery' = [discovery EXCEPT !.stack = Rest, !.lower = Top[1], !.upper = Top[2],
                                      !.pdl = Top, !.counter = BranchTries, !.running = TRUE]
    /\ Transmit(BranchOf(Top))
    /\ UNCHANGED <<state, savedState, isFinished, doIncremental, tod, response, unmute,
                   mute, single, quickFind, quickBranch, rx, present>>

SingleGiveUp ==
    /\ state = "SingleDevice" /\ single.counter = 0
    /\ single' = [counter |-> QuickBranchTries, running |-> FALSE]
    /\ NewState("Discovery", TRUE)
    /\ UNCHANGED <<isFinished, doIncremental, tod, response, unmute, mute,
                   discovery, quickFind, quickBranch, line, present>>

SingleSend ==
    /\ state = "SingleDevice" /\ single.counter # 0 /\ ~single.running
    /\ single' = [single EXCEPT !.running = TRUE]
    /\ Transmit(MuteOf(discovery.lower))
    /\ UNCHANGED <<state, savedState, isFinished, doIncremental, tod, response, unmute,
                   mute, discovery, quickFind, quickBranch, rx, present>>

\* Variant that must break OnlyDevicesListed: the source UID is not compared.
AnyAcknowledged == TRUE

\* A discovery response whose source is the device asked.
SingleAcknowledged == rx.frame = [kind |-> "mute", uid |-> discovery.lower]

SingleReceive ==
    /\ state = "SingleDevice" /\ single.counter # 0 /\ single.running
    /\ Received
    /\ ReceiveOnly
    /\ response' = TRUE
    /\ IF SingleAcknowledged
       THEN /\ tod' = AddUid(tod, discovery.lower)
            /\ single' = [counter |-> QuickBranchTries, running |-> FALSE]
            /\ NewState("Discovery", FALSE)
       ELSE UNCHANGED <<tod, single, state, savedState>>
    /\ UNCHANGED <<isFinished, doIncremental, unmute, mute, discovery, quickFind,
                   quickBranch, present>>

SingleTimeout ==
    /\ state = "SingleDevice" /\ single.counter # 0 /\ single.running
    /\ ~Received /\ WindowElapsed
    /\ response' = FALSE
    /\ single' = [single EXCEPT !.counter = CountTry(@)]
    /\ Transmit(message)
    /\ UNCHANGED <<state, savedState, isFinished, doIncremental, tod, unmute, mute,
                   discovery, quickFind, quickBranch, rx, present>>

\* kDub without a response: the branch is empty.
DubSilent ==
    /\ state = "Dub" /\ ~response
    /\ NewState("Discovery", FALSE)
    /\ UNCHANGED <<isFinished, doIncremental, tod, response, unmute, mute, discovery,
                   single, quickFind, quickBranch, line, present>>

\* IsValidDiscoveryResponse(): looks into the driver's buffer, where response_
\* points, at the time of the call.  A frame it refuses may still be copied to
\* quick_find_.uid, which is read only after it accepted one.
ValidResponse == rx.frame.kind = "dub"

DubValid ==
    /\ state = "Dub" /\ response /\ ValidResponse
    /\ quickFind' = [quickFind EXCEPT !.uid = rx.frame.uid]
    /\ NewState("QuickFind", TRUE)
    /\ UNCHANGED <<isFinished, doIncremental, tod, response, unmute, mute, discovery,
                   single, quickBranch, line, present>>

\* Variant that must break TypeOK: the top bit stays in the sum.
LowUnmasked(x) == x

\* mid_position: the 48-bit mean, computed without the carry into bit 48.
Low(x) == IF x >= HighBit THEN x - HighBit ELSE x
HalfTop(x) == IF x >= HighBit THEN HighBit \div 2 ELSE 0
MidPosition(l, u) == (Low(l) + Low(u)) \div 2 + HalfTop(u) + HalfTop(l)

\* Variant that must break BranchesDisjoint: the halves share the middle.
HalvesOverlap(l, u) == LET mid == MidPosition(l, u) IN << <<l, mid>>, <<mid, u>> >>

\* Variant that must break StackBounded: the upper half keeps the lower bound.
HalvesNested(l, u) == LET mid == MidPosition(l, u) IN << <<l, mid>>, <<l, u>> >>

\* Variant that must break CompleteAtFinish: a UID lies in neither half.
HalvesGap(l, u) == LET mid == MidPosition(l, u) IN << <<l, mid>>, <<mid + 2, u>> >>

Halves(l, u) == LET mid == MidPosition(l, u) IN << <<l, mid>>, <<mid + 1, u>> >>

\* A collision: both halves of the branch are asked again.
DubSplit ==
    /\ state = "Dub" /\ response /\ ~ValidResponse
    /\ discovery' = [discovery EXCEPT
           !.stack = @ \o Halves(discovery.lower, discovery.upper)]
    /\ NewState("Discovery", TRUE)
    /\ UNCHANGED <<isFinished, doIncremental, tod, response, unmute, mute, single,
                   quickFind, quickBranch, line, present>>

\* kQuickfind: DISC_MUTE to the device whose answer was heard.  The counter is
\* set again on every transmission, so the branch of the code for counter 0 is
\* dead (last conjunct of TypeOK) and has no action here.
QuickFindSend ==
    /\ state = "QuickFind" /\ ~quickFind.running
    /\ WindowElapsed
    /\ quickFind' = [quickFind EXCEPT !.counter = QuickFindTries, !.running = TRUE]
    /\ Transmit(MuteOf(quickFind.uid))
    /\ UNCHANGED <<state, savedState, isFinished, doIncremental, tod, response, unmute,
                   mute, discovery, single, quickBranch, rx, present>>

QuickFindReceive ==
    /\ state = "QuickFind" /\ quickFind.running
    /\ Received
    /\ ReceiveOnly
    /\ response' = TRUE
    /\ IF rx.frame.kind = "mute"
       THEN /\ tod' = IF rx.frame.uid = quickFind.uid THEN AddUid(tod, quickFind.uid) ELSE tod
            /\ quickFind' = [quickFind EXCEPT !.counter = QuickFindTries, !.running = FALSE]
            /\ NewState("QuickFindDiscovery", FALSE)
       ELSE UNCHANGED <<tod, quickFind, state, savedState>>
    /\ UNCHANGED <<isFinished, doIncremental, unmute, mute, discovery, single,
                   quickBranch, present>>

QuickFindTimeout ==
    /\ state = "QuickFind" /\ quickFind.running
    /\ ~Received /\ WindowElapsed
    /\ response' = FALSE
    /\ quickFind' = [quickFind EXCEPT !.counter = CountTry(@), !.running = FALSE]
    /\ UNCHANGED <<state, savedState, isFinished, doIncremental, tod, unmute, mute,
                   discovery, single, quickBranch, line, present>>

\* kQuickfindDiscovery: the same branch again, without the device just muted.
QuickBranchGiveUp ==
    /\ state = "QuickFindDiscovery" /\ quickBranch.counter = 0
    /\ quickBranch' = [counter |-> QuickBranchTries, running |-> FALSE]
    /\ NewState("Discovery", TRUE)
    /\ UNCHANGED <<isFinished, doIncremental, tod, response, unmute, mute, discovery,
                   single, quickFind, line, present>>

QuickBranchSend ==
    /\ state = "QuickFindDiscovery" /\ quickBranch.counter # 0 /\ ~quickBranch.running
    /\ WindowElapsed
    /\ quickBranch' = [quickBranch EXCEPT !.running = TRUE]
    /\ Transmit(BranchOf(discovery.pdl))
    /\ UNCHANGED <<state, savedState, isFinished, doIncremental, tod, response, unmute,
                   mute, discovery, single, quickFind, rx, present>>

QuickBranchReceive ==
    /\ state = "QuickFindDiscovery" /\ quickBranch.counter # 0 /\ quickBranch.running
    /\ Received
    /\ ReceiveOnly
    /\ response' = TRUE
    /\ quickBranch' = [counter |-> QuickBranchTries, running |-> FALSE]
    /\ IF ValidResponse
       THEN quickFind' = [quickFind EXCEPT !.uid = rx.frame.uid] /\ NewState("QuickFind", TRUE)
       ELSE UNCHANGED quickFind /\ NewState("Dub", FALSE)
    /\ UNCHANGED <<isFinished, doIncremental, tod, unmute, mute, discovery, single,
                   present>>

QuickBranchTimeout ==
    /\ state = "QuickFindDiscovery" /\ quickBranch.counter # 0 /\ quickBranch.running
    /\ ~Received /\ WindowElapsed
    /\ response' = FALSE
    /\ quickBranch' = [counter |-> CountTry(quickBranch.counter), running |-> FALSE]
    /\ UNCHANGED <<state, savedState, isFinished, doIncremental, tod, unmute, mute,
                   discovery, single, quickFind, line, present>>

Finish ==
    /\ state = "Finished"
    /\ isFinished' = TRUE
    /\ NewState("Idle", FALSE)
    /\ UNCHANGED <<doIncremental, tod, response, unmute, mute, discovery, single,
                   quickFind, quickBranch, line, present>>

-----------------------------------------------------------------------------
Unmuting == UnmuteDone \/ UnmuteSend \/ UnmuteWait
Muting == MuteDone \/ MuteGone \/ MuteSend \/ MuteReceive \/ MuteTimeout
Branching == \/ BranchReceive \/ BranchTimeout \/ SearchDone \/ PopSingle \/ PopBranch
             \/ DubSilent \/ DubValid \/ DubSplit
SingleDevice == SingleGiveUp \/ SingleSend \/ SingleReceive \/ SingleTimeout
QuickFind == QuickFindSend \/ QuickFindReceive \/ QuickFindTimeout
QuickFindDiscovery == \/ QuickBranchGiveUp \/ QuickBranchSend
                      \/ QuickBranchReceive \/ QuickBranchTimeout

Process == \/ LateResponse \/ Unmuting \/ Muting \/ Branching \/ SingleDevice
           \/ QuickFind \/ QuickFindDiscovery \/ Finish

Next == \/ \E incremental \in BOOLEAN : Start(incremental)
        \/ Stop \/ IsFinished \/ Process
        \/ Deliver \/ Replug

Spec == Init /\ [][Next]_vars

\* The super-loop never stops calling Run(), and a responder that was heard
\* finishes its frame.
FairSpec == Spec /\ WF_vars(Process) /\ WF_vars(Deliver)
=============================================================================
