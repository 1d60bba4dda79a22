------------------- MODULE RdmDiscoverySchedulerProperties -------------------
(***************************************************************************)
(* What the scheduling of discoveries guarantees, and what the comments of *)
(* the Art-Net headers say of it.                                          *)
(***************************************************************************)
EXTENDS RdmDiscoveryScheduler

SchedulerTypeOK ==
    /\ enabled \subseteq Port /\ waiting \subseteq Port /\ type \subseteq Port
    /\ background \subseteq Port
    /\ timer \in BOOLEAN /\ running \in BOOLEAN
    /\ portIndex \in Port
    /\ machine \in [state : {"idle", "running", "stopping"}, port : Port,
                    incremental : BOOLEAN, finished : BOOLEAN]
    /\ rdmDisabled \subseteq Port /\ discoveryDisabled \subseteq Port
    /\ notRunning \subseteq Port
    /\ stops \in 0..MaxStops

Busy == machine.state # "idle" \/ machine.finished

\* The port whose turn it is is the port the state machine works for, through
\* every sequence of commands: the assertion port_index_ == port_index of Run().
PortAgreed == Busy => machine.port = portIndex

\* No request is lost and no end goes unnoticed: while a port waits or the
\* machine works, Run() does not return early on running_.
NoLostWakeup == waiting # {} \/ Busy => running

\* A port in background discovery has a timer that will ask for it, however
\* ports join, leave, are disabled and enabled again.
BackgroundTimerArmed == background # {} => timer

\* A port that waits gets its turn, although other ports keep asking.
WaitingServed == \A p \in Port : p \in waiting ~> p \notin waiting

\* artnet.h, kAtcFlush: "The port flushes its TOD and instigates full
\* discovery."  A flush that waits for its turn stays a full discovery.
FlushStaysFull ==
    [][\A p \in Port : p \in waiting \cap waiting' /\ p \in type => p \in type']_vars
=============================================================================
