------------------------ MODULE RdmDiscoveryScheduler ------------------------
(***************************************************************************)
(* The discovery of all RDM ports of a node: class rdm::Discovery          *)
(* (lib-rdm/include/rdm_discovery.h), which owns the one state machine and *)
(* gives it to the ports in turn, and its user, the Art-Net node           *)
(* (lib-artnet/src/node/rdm/controller/handlerdm.cpp, ArtNetNode::SetRdm,  *)
(* the poll reply).                                                        *)
(*                                                                         *)
(* The state machine itself is the one of module RdmDiscovery, seen only   *)
(* as idle, running or on its way to a stop; that a run ends is what its   *)
(* property Terminates says.                                               *)
(***************************************************************************)
EXTENDS Naturals, FiniteSets

CONSTANTS
    NPorts,     \* kPorts
    MaxStops    \* bound: how many ATC_END and ATC_INCOFF a controller sends

ASSUME PortsAssumption == NPorts \in Nat \ {0} /\ MaxStops \in Nat

Port == 0..(NPorts - 1)

VARIABLES
    enabled,            \* enabled_
    waiting,            \* waiting_
    type,               \* type_: the ports whose request is for a full discovery
    background,         \* s_bg_discovery
    timer,              \* s_timer_id >= 0
    running,            \* running_
    portIndex,          \* port_index_ of Discovery
    machine,            \* the state machine
    rdmDisabled,        \* good_output_b of the ports, bit 7
    discoveryDisabled,  \* bit 4
    notRunning,         \* bit 5
    stops               \* how many stops were commanded

discoveryVars == <<enabled, waiting, type, background, timer, running, portIndex, machine>>
nodeVars == <<rdmDisabled, discoveryDisabled, notRunning, stops>>
vars == <<discoveryVars, nodeVars>>

Init ==
    /\ enabled \in SUBSET Port
    /\ waiting = enabled /\ type = enabled     \* ArtNetNode::Start(): Full() of all
    /\ running = (enabled # {})
    /\ background = {} /\ timer = FALSE
    /\ portIndex = 0
    /\ machine = [state |-> "idle", port |-> 0, incremental |-> FALSE, finished |-> FALSE]
    /\ rdmDisabled = Port \ enabled
    /\ discoveryDisabled = {} /\ notRunning = Port
    /\ stops = 0

(***************************************************************************)
(* Requests.                                                               *)
(***************************************************************************)
\* Full() and Incremental() on the ports of P.
Full(P) ==
    /\ waiting' = waiting \cup (P \cap enabled)
    /\ type' = type \cup (P \cap enabled)
    /\ running' = (running \/ P \cap enabled # {})

Incremental(P) ==
    /\ waiting' = waiting \cup (P \cap enabled)
    /\ type' = type \ (P \cap enabled)
    /\ running' = (running \/ P \cap enabled # {})

\* Stop(): only the port whose discovery is running; one that waits keeps
\* waiting.  The state machine pauses for a late response on its way to idle,
\* unless it is in that pause already.
Stop(p) ==
    IF p \in enabled /\ machine.state # "idle" /\ machine.port = p
    THEN /\ machine' \in { [machine EXCEPT !.state = s, !.finished = FALSE] :
                             s \in IF machine.state = "running" THEN {"stopping", "idle"}
                                   ELSE {"idle"} }
         /\ waiting' = waiting \ {p}
    ELSE UNCHANGED <<machine, waiting>>

(***************************************************************************)
(* The Art-Net node: ArtTodControl on an output port with RDM, ArtAddress, *)
(* ArtPollReply.                                                           *)
(***************************************************************************)
AtcFlush(p) ==
    /\ p \notin rdmDisabled
    /\ Full({p})
    /\ UNCHANGED <<enabled, background, timer, portIndex, machine, nodeVars>>

AtcEnd(p) ==
    /\ p \notin rdmDisabled
    /\ stops < MaxStops /\ stops' = stops + 1
    /\ Stop(p)
    /\ UNCHANGED <<enabled, type, background, timer, running, portIndex,
                   rdmDisabled, discoveryDisabled, notRunning>>

\* EnableBackground(): the one timer of all ports is added when there is none.
AtcIncon(p) ==
    /\ p \notin rdmDisabled
    /\ background' = background \cup ({p} \cap enabled)
    /\ timer' = TRUE
    /\ discoveryDisabled' = discoveryDisabled \ {p}
    /\ UNCHANGED <<enabled, waiting, type, running, portIndex, machine,
                   rdmDisabled, notRunning, stops>>

\* Variant that must break BackgroundTimerArmed: the timer goes with any port.
AtcIncoffAll(p) ==
    /\ p \notin rdmDisabled
    /\ stops < MaxStops /\ stops' = stops + 1
    /\ background' = background \ ({p} \cap enabled)
    /\ Stop(p)
    /\ timer' = FALSE
    /\ discoveryDisabled' = discoveryDisabled \cup {p}
    /\ UNCHANGED <<enabled, type, running, portIndex, rdmDisabled, notRunning>>

\* DisableBackground(): the timer goes with the last port.
AtcIncoff(p) ==
    /\ p \notin rdmDisabled
    /\ stops < MaxStops /\ stops' = stops + 1
    /\ background' = background \ ({p} \cap enabled)
    /\ Stop(p)
    /\ timer' = (timer /\ background' # {})
    /\ discoveryDisabled' = discoveryDisabled \cup {p}
    /\ UNCHANGED <<enabled, type, running, portIndex, rdmDisabled, notRunning>>

\* SetRdm(port, enable): Enable() or Disable(), requests are left alone.
SetRdm(p, enable) ==
    /\ enable <=> p \in rdmDisabled
    /\ rdmDisabled' = IF enable THEN rdmDisabled \ {p} ELSE rdmDisabled \cup {p}
    /\ enabled' = IF enable THEN enabled \cup {p} ELSE enabled \ {p}
    /\ UNCHANGED <<waiting, type, background, timer, running, portIndex, machine,
                   discoveryDisabled, notRunning, stops>>

\* ArtNetRdmController::IsRunning() passes its port by value to an overload
\* that overwrites it: the answer is the same for every port.
IsRunning(p) == machine.state # "idle"

\* SendPollReply(): bit 5 of GoodOutputB.
PollReply(p) ==
    /\ notRunning' = IF IsRunning(p) THEN notRunning \ {p} ELSE notRunning \cup {p}
    /\ UNCHANGED <<discoveryVars, rdmDisabled, discoveryDisabled, stops>>

\* TimerBackGround()
TimerBackGround ==
    /\ timer
    /\ Incremental(background)
    /\ UNCHANGED <<enabled, background, timer, portIndex, machine, nodeVars>>

(***************************************************************************)
(* Run(), called by the super-loop.                                        *)
(***************************************************************************)
\* StateMachine::Run(): where one step can take the machine.
Processed ==
    CASE machine.state = "running" ->
            {machine, [machine EXCEPT !.state = "idle", !.finished = TRUE]}
      [] machine.state = "stopping" -> {machine, [machine EXCEPT !.state = "idle"]}
      [] OTHER -> {machine}

\* Variant that must break SchedulerTypeOK: the turn does not wrap.
NextPortUnwrapped(p) == p + 1

NextPort(p) == IF p + 1 = NPorts THEN 0 ELSE p + 1

\* Variant that must break WaitingServed: the turn stays with the port.
TurnKept(m) == portIndex

\* The end of a run is collected: the turn passes to the next port.
Turn(m) == IF m.finished THEN NextPort(portIndex) ELSE portIndex

Started(p) == [state |-> "running", port |-> p, incremental |-> p \notin type,
               finished |-> FALSE]

\* Variant that must break NoLostWakeup: the end of a run sends the scheduler to
\* sleep although a port waits.
RestEarly(m) ==
    /\ machine' = [m EXCEPT !.finished = FALSE]
    /\ running' = (running /\ ~m.finished)
    /\ portIndex' = IF m.finished THEN 0 ELSE portIndex
    /\ UNCHANGED waiting

\* Nothing waits: the scheduler goes to sleep once the end was collected.
Rest(m) ==
    /\ waiting = {}
    /\ machine' = [m EXCEPT !.finished = FALSE]
    /\ running' = (running /\ ~m.finished)
    /\ portIndex' = IF m.finished THEN 0 ELSE portIndex
    /\ UNCHANGED waiting

\* Variant that must break PortAgreed: the turn passes when a run starts.
StartTurnPasses(m) ==
    /\ Turn(m) \in waiting
    /\ machine' = Started(Turn(m))
    /\ waiting' = waiting \ {Turn(m)}
    /\ portIndex' = NextPort(Turn(m))
    /\ UNCHANGED running

StartTurn(m) ==
    /\ Turn(m) \in waiting
    /\ machine' = Started(Turn(m))
    /\ waiting' = waiting \ {Turn(m)}
    /\ portIndex' = Turn(m)
    /\ UNCHANGED running

SkipTurn(m) ==
    /\ waiting # {} /\ Turn(m) \notin waiting
    /\ machine' = [m EXCEPT !.finished = FALSE]
    /\ portIndex' = NextPort(Turn(m))
    /\ UNCHANGED <<waiting, running>>

\* One call of Run() in which the machine goes to m.
RunTo(m) ==
    /\ IF running /\ m.state = "idle"
       THEN Rest(m) \/ StartTurn(m) \/ SkipTurn(m)
       ELSE machine' = m /\ UNCHANGED <<waiting, running, portIndex>>
    /\ UNCHANGED <<enabled, type, background, timer, nodeVars>>

Run == \E m \in Processed : RunTo(m)

\* A call of Run() in which a run comes to its end.
RunToIdle == \E m \in Processed : m.state = "idle" /\ RunTo(m)

-----------------------------------------------------------------------------
Command(p) == \/ AtcFlush(p) \/ AtcEnd(p) \/ AtcIncon(p) \/ AtcIncoff(p)
              \/ \E enable \in BOOLEAN : SetRdm(p, enable)
              \/ PollReply(p)

Next == (\E p \in Port : Command(p)) \/ TimerBackGround \/ Run

Spec == Init /\ [][Next]_vars

\* The super-loop calls Run() for ever and every run of the machine ends.
FairSpec == Spec /\ WF_vars(RunToIdle)
=============================================================================
