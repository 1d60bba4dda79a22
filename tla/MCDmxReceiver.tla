--------------------------- MODULE MCDmxReceiver ---------------------------
(***************************************************************************)
(* Instances of the receiver: packets of one or two slots, messages of     *)
(* three or four slots and their checksum, buffers just as large.          *)
(***************************************************************************)
EXTENDS DmxReceiverProperties
=============================================================================
