-------------------------- MODULE MCDmxTransmitter --------------------------
(***************************************************************************)
(* Instances of the transmitter.                                           *)
(***************************************************************************)
EXTENDS DmxTransmitterProperties
=============================================================================
