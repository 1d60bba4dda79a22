--------------------------- MODULE MCRdmDiscovery ---------------------------
(***************************************************************************)
(* Instances of the discovery of one port.  HighBit = 4 makes the UIDs     *)
(* 0..7, with 7 the broadcast; three levels of branches lie between the    *)
(* whole range and a single UID.                                           *)
(***************************************************************************)
EXTENDS RdmDiscoveryProperties
=============================================================================
