--------------------------- MODULE MCClickCounters ---------------------------
(***************************************************************************)
(* Model checking of ClickCounters.  The processes other than the first    *)
(* and the counters other than rootClicks are interchangeable.             *)
(***************************************************************************)
EXTENDS ClickCounters, TLC

Interchangeable == Permutations(Proc \ {Root}) \cup Permutations(Counter \ {RootClicks})
=============================================================================
