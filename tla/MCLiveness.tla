----------------------------- MODULE MCLiveness ------------------------------
(***************************************************************************)
(* Model checking of SchedulerLiveness: the root forks the others, wakes   *)
(* them and waits for files; they wake each other, and sleep.              *)
(***************************************************************************)
EXTENDS SchedulerLiveness

MCPrograms == [p \in Proc |-> IF p = Root THEN {"fork", "send", "io"}
                                          ELSE {"send", "receive", "sleep"}]
=============================================================================
