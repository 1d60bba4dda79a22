-------------------- MODULE RdmDiscoverySchedulerTheorems --------------------
(***************************************************************************)
(* The safety of the discovery scheduler, for any number of ports and any  *)
(* sequence of commands.                                                   *)
(***************************************************************************)
EXTENDS RdmDiscoverySchedulerProperties, TLAPS

\* The types and the three safety invariants; every step preserves them together.
SchedulerInv ==
    SchedulerTypeOK /\ PortAgreed /\ NoLostWakeup /\ BackgroundTimerArmed

LEMMA SchedulerInitially == Init => SchedulerInv
<1> SUFFICES ASSUME Init PROVE SchedulerInv
  OBVIOUS
<1>1. SchedulerTypeOK
  <2>1. 0 \in Port /\ 0 \in 0..MaxStops
    BY PortsAssumption DEF Port
  <2>2. running \in BOOLEAN
    BY DEF Init
  <2> QED
    BY <2>1, <2>2 DEF SchedulerTypeOK, Init
<1>2. PortAgreed /\ NoLostWakeup /\ BackgroundTimerArmed
  BY DEF Init, PortAgreed, NoLostWakeup, BackgroundTimerArmed, Busy
<1> QED
  BY <1>1, <1>2 DEF SchedulerInv

\* Stop() works on the port of the machine and leaves nothing to collect.
LEMMA StopFacts ==
    ASSUME SchedulerInv, NEW p \in Port, Stop(p)
    PROVE  /\ machine' \in [state : {"idle", "running", "stopping"}, port : Port,
                            incremental : BOOLEAN, finished : BOOLEAN]
           /\ machine'.port = machine.port
           /\ waiting' \subseteq waiting
           /\ Busy' => Busy
<1> USE DEF SchedulerInv, SchedulerTypeOK, Busy
<1>1. CASE UNCHANGED <<machine, waiting>>
  BY <1>1
<1>2. CASE machine.state # "idle" /\ waiting' = waiting \ {p} /\
           \E s \in {"stopping", "idle"} :
              machine' = [machine EXCEPT !.state = s, !.finished = FALSE]
  BY <1>2
<1> QED
  BY <1>1, <1>2 DEF Stop

\* Where one call of StateMachine::Run() can take the machine.
LEMMA ProcessedFacts ==
    ASSUME SchedulerInv, NEW m \in Processed
    PROVE  /\ m \in [state : {"idle", "running", "stopping"}, port : Port,
                     incremental : BOOLEAN, finished : BOOLEAN]
           /\ m.port = machine.port
           /\ m.state # "idle" \/ m.finished => Busy
BY DEF SchedulerInv, SchedulerTypeOK, Busy, Processed

LEMMA SchedulerStep == SchedulerInv /\ [Next]_vars => SchedulerInv'
<1> SUFFICES ASSUME SchedulerInv, [Next]_vars PROVE SchedulerInv'
  OBVIOUS
<1> USE PortsAssumption DEF SchedulerInv
<1>1. ASSUME NEW p \in Port, Command(p) PROVE SchedulerInv'
  <2> USE DEF SchedulerTypeOK, PortAgreed, NoLostWakeup, BackgroundTimerArmed, Busy
  <2>1. CASE AtcFlush(p)
    BY <2>1 DEF AtcFlush, Full, nodeVars
  <2>2. CASE AtcEnd(p)
    <3>1. stops' \in 0..MaxStops
      BY <2>2 DEF AtcEnd
    <3> QED
      BY <2>2, <3>1, StopFacts DEF AtcEnd
  <2>3. CASE AtcIncon(p)
    BY <2>3 DEF AtcIncon
  <2>4. CASE AtcIncoff(p)
    <3>1. stops' \in 0..MaxStops
      BY <2>4 DEF AtcIncoff
    <3> QED
      BY <2>4, <3>1, StopFacts DEF AtcIncoff
  <2>5. CASE \E enable \in BOOLEAN : SetRdm(p, enable)
    BY <2>5 DEF SetRdm
  <2>6. CASE PollReply(p)
    BY <2>6 DEF PollReply, discoveryVars
  <2> QED
    BY <1>1, <2>1, <2>2, <2>3, <2>4, <2>5, <2>6 DEF Command
<1>2. CASE TimerBackGround
  BY <1>2 DEF TimerBackGround, Incremental, nodeVars, SchedulerTypeOK, PortAgreed,
              NoLostWakeup, BackgroundTimerArmed, Busy
<1>3. ASSUME NEW m \in Processed, RunTo(m) PROVE SchedulerInv'
  <2> USE DEF SchedulerTypeOK, PortAgreed, NoLostWakeup, BackgroundTimerArmed, Busy
  <2>1. UNCHANGED <<enabled, type, background, timer, rdmDisabled, discoveryDisabled,
                    notRunning, stops>>
    BY <1>3 DEF RunTo, nodeVars
  <2>2. /\ m \in [state : {"idle", "running", "stopping"}, port : Port,
                  incremental : BOOLEAN, finished : BOOLEAN]
        /\ m.port = machine.port
        /\ m.state # "idle" \/ m.finished => Busy
    BY ProcessedFacts
  <2>3. Turn(m) \in Port /\ NextPort(Turn(m)) \in Port
    BY <2>2 DEF Turn, NextPort, Port
  <2>4. CASE running /\ m.state = "idle" /\ Rest(m)
    <3>1. 0 \in Port
      BY DEF Port
    <3>2. machine' = [m EXCEPT !.finished = FALSE]
      BY <2>4 DEF Rest
    <3> QED
      BY <2>1, <2>2, <2>4, <3>1, <3>2 DEF Rest
  <2>5. CASE running /\ m.state = "idle" /\ StartTurn(m)
    BY <2>1, <2>2, <2>3, <2>5 DEF StartTurn, Started
  <2>6. CASE running /\ m.state = "idle" /\ SkipTurn(m)
    <3>1. machine' = [m EXCEPT !.finished = FALSE]
      BY <2>6 DEF SkipTurn
    <3> QED
      BY <2>1, <2>2, <2>3, <2>6, <3>1 DEF SkipTurn
  <2>7. CASE machine' = m /\ UNCHANGED <<waiting, running, portIndex>>
    BY <2>1, <2>2, <2>7
  <2> QED
    BY <1>3, <2>4, <2>5, <2>6, <2>7 DEF RunTo
<1>4. CASE UNCHANGED vars
  BY <1>4 DEF vars, discoveryVars, nodeVars, SchedulerTypeOK, PortAgreed,
              NoLostWakeup, BackgroundTimerArmed, Busy
<1> QED
  BY <1>1, <1>2, <1>3, <1>4 DEF Next, Run

\* The variables keep their types: the turn stays within the ports.
THEOREM SchedulerTypeCorrect == Spec => []SchedulerTypeOK
<1>1. SchedulerInv => SchedulerTypeOK
  BY DEF SchedulerInv
<1> QED
  BY <1>1, SchedulerInitially, SchedulerStep, PTL DEF Spec

\* The assertion port_index_ == port_index of Run() never fails.
THEOREM PortAlwaysAgreed == Spec => []PortAgreed
<1>1. SchedulerInv => PortAgreed
  BY DEF SchedulerInv
<1> QED
  BY <1>1, SchedulerInitially, SchedulerStep, PTL DEF Spec

\* Run() never returns early while a port waits or the machine works.
THEOREM WakeupNeverLost == Spec => []NoLostWakeup
<1>1. SchedulerInv => NoLostWakeup
  BY DEF SchedulerInv
<1> QED
  BY <1>1, SchedulerInitially, SchedulerStep, PTL DEF Spec

\* A port in background discovery always has a timer.
THEOREM TimerAlwaysArmed == Spec => []BackgroundTimerArmed
<1>1. SchedulerInv => BackgroundTimerArmed
  BY DEF SchedulerInv
<1> QED
  BY <1>1, SchedulerInitially, SchedulerStep, PTL DEF Spec
=============================================================================
