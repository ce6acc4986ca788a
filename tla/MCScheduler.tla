----------------------------- MODULE MCScheduler -----------------------------
(***************************************************************************)
(* Model checking of Scheduler.  The processes other than the root are     *)
(* interchangeable in the runs that check invariants and action            *)
(* properties.                                                             *)
(***************************************************************************)
EXTENDS Scheduler, TLC

Interchangeable == Permutations(Proc \ {Root})
=============================================================================
