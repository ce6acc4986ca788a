------------------------------ MODULE MCMailbox ------------------------------
(***************************************************************************)
(* Model checking of Mailbox.  Message records are interchangeable.        *)
(***************************************************************************)
EXTENDS Mailbox, TLC

Interchangeable == Permutations(Msg)
=============================================================================
