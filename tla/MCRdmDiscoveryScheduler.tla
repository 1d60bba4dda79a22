----------------------- MODULE MCRdmDiscoveryScheduler -----------------------
(***************************************************************************)
(* Instances of the discovery scheduler.                                   *)
(***************************************************************************)
EXTENDS RdmDiscoverySchedulerProperties
=============================================================================
