-------------------------- MODULE MCSoftwareTimers --------------------------
(***************************************************************************)
(* Instances of the software timers: a clock of a few milliseconds that    *)
(* wraps, a pool one smaller than the number of its owners.                *)
(***************************************************************************)
EXTENDS SoftwareTimersProperties
=============================================================================
