----------------------------- MODULE MCWatchdog -----------------------------
(***************************************************************************)
(* Watchdog with times of a few ticks.                                     *)
(***************************************************************************)
EXTENDS Watchdog, TLC
=============================================================================
