-------------------------- MODULE DiscoveryPromise --------------------------
(***************************************************************************)
(* What the RDM discovery of one port promises, without its protocol: from *)
(* the request for a run to its end the table of devices changes towards   *)
(* the population of the line, one device at a time, and a run that is     *)
(* reported as finished leaves the table equal to it.                      *)
(*                                                                         *)
(* The class behind this promise is rdm::discovery::StateMachine; module   *)
(* RdmDiscovery models it and implements this specification on a line that *)
(* loses fewer messages than the protocol repeats.                         *)
(***************************************************************************)
EXTENDS Naturals, FiniteSets

CONSTANTS Devices,    \* the devices that can be plugged in
          TableSize   \* the capacity of the table

VARIABLES
    phase,     \* "off", "running", or "done" until the end was collected
    full,      \* was the run asked to forget the table first
    table,     \* the set of devices listed
    present    \* the devices on the line

vars == <<phase, full, table, present>>

Complete == \/ table = present
            \/ Cardinality(table) = TableSize /\ table \subseteq present

Init == /\ phase = "off"
        /\ full \in BOOLEAN
        /\ table = {}
        /\ present \in SUBSET Devices

\* A full run starts from an empty table, an incremental one from the last.
Begin == /\ phase = "off"
         /\ phase' = "running"
         /\ \/ full' = TRUE /\ table' = {}
            \/ full' = FALSE /\ table' = table
         /\ UNCHANGED present

\* A device of the line is listed.
Learn == /\ phase = "running"
         /\ Cardinality(table) < TableSize
         /\ \E d \in present \ table : table' = table \cup {d}
         /\ UNCHANGED <<phase, full, present>>

\* A device that left the line is forgotten, by an incremental run only.
Forget == /\ phase = "running" /\ ~full
          /\ \E d \in table \ present : table' = table \ {d}
          /\ UNCHANGED <<phase, full, present>>

Finish == /\ phase = "running" /\ Complete
          /\ phase' = "done"
          /\ UNCHANGED <<full, table, present>>

\* The run was stopped: nothing is reported.
Abandon == /\ phase = "running"
           /\ phase' = "off"
           /\ UNCHANGED <<full, table, present>>

Collect == /\ phase = "done"
           /\ phase' = "off"
           /\ UNCHANGED <<full, table, present>>

\* Between runs devices come and go.
Change == /\ phase = "off"
          /\ present' \in SUBSET Devices
          /\ UNCHANGED <<phase, full, table>>

Next == Begin \/ Learn \/ Forget \/ Finish \/ Abandon \/ Collect \/ Change

Spec == Init /\ [][Next]_vars
=============================================================================
