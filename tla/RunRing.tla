------------------------------- MODULE RunRing -------------------------------
(***************************************************************************)
(* The run queue as April/Engine/schedule.c keeps it: a circular list      *)
(* threaded through the process records by `pnext' and `pprev', entered at *)
(* `run_q'.  Each action is one of the functions that relink it.  A record *)
(* that leaves the ring keeps its stale pointers, as in the code.          *)
(***************************************************************************)
EXTENDS Integers, Sequences, FiniteSets

CONSTANTS Proc,          \* the process records
          Nil            \* NULL

ASSUME ProcAssumption == IsFiniteSet(Proc) /\ Nil \notin Proc

VARIABLES run_q,         \* entry of the ring, or Nil
          pnext, pprev,  \* the links of each record, Nil before the first use
          runnable       \* the records whose state is `runnable'

vars == << run_q, pnext, pprev, runnable >>

Link == Proc \cup {Nil}

TypeOK ==
  /\ run_q \in Link
  /\ pnext \in [Proc -> Link]
  /\ pprev \in [Proc -> Link]
  /\ runnable \subseteq Proc

Init ==
  /\ run_q = Nil
  /\ pnext = [p \in Proc |-> Nil]
  /\ pprev = [p \in Proc |-> Nil]
  /\ runnable = {}
-----------------------------------------------------------------------------
(***************************************************************************)
(* add_to_run_q: nothing happens to a process that is runnable already.    *)
(***************************************************************************)
AddAlone(p) ==
  /\ run_q = Nil
  /\ run_q' = p
  /\ pnext' = [pnext EXCEPT ![p] = p]
  /\ pprev' = [pprev EXCEPT ![p] = p]

\* A slip: the links of run_q are changed before they are copied.
LinkFrontTooEarly(p) ==
  /\ run_q # Nil
  /\ pnext' = [pnext EXCEPT ![p] = p, ![run_q] = p]
  /\ pprev' = [pprev EXCEPT ![pnext[run_q]] = p, ![p] = run_q]
  /\ UNCHANGED run_q

LinkFront(p) ==
  /\ run_q # Nil
  /\ pnext' = [pnext EXCEPT ![p] = pnext[run_q], ![run_q] = p]
  /\ pprev' = [pprev EXCEPT ![pnext[run_q]] = p, ![p] = run_q]
  /\ UNCHANGED run_q

\* A slip: the back link of run_q is forgotten.
LinkBackHalf(p) ==
  /\ run_q # Nil
  /\ pprev' = [pprev EXCEPT ![p] = pprev[run_q]]
  /\ pnext' = [pnext EXCEPT ![pprev[run_q]] = p, ![p] = run_q]
  /\ UNCHANGED run_q

LinkBack(p) ==
  /\ run_q # Nil
  /\ pprev' = [pprev EXCEPT ![p] = pprev[run_q], ![run_q] = p]
  /\ pnext' = [pnext EXCEPT ![pprev[run_q]] = p, ![p] = run_q]
  /\ UNCHANGED run_q

add_to_run_q(p, front) ==
  /\ p \notin runnable
  /\ runnable' = runnable \cup {p}
  /\ \/ AddAlone(p)
     \/ front /\ LinkFront(p)
     \/ ~front /\ LinkBack(p)

(***************************************************************************)
(* remove_from_run_q: `run_q' moves to the successor of p even when it did *)
(* not point to p; a record linked to itself is taken to be the only one.  *)
(***************************************************************************)
\* A slip: run_q moves to the predecessor.
UnlinkOneBackwards(p) ==
  /\ pnext[p] # p
  /\ run_q' = pprev[p]
  /\ pnext' = [pnext EXCEPT ![pprev[p]] = pnext[p]]
  /\ pprev' = [pprev EXCEPT ![pnext[p]] = pprev[p]]

UnlinkOne(p) ==
  /\ pnext[p] # p
  /\ run_q' = pnext[p]
  /\ pnext' = [pnext EXCEPT ![pprev[p]] = pnext[p]]
  /\ pprev' = [pprev EXCEPT ![pnext[p]] = pprev[p]]

UnlinkLast(p) ==
  /\ pnext[p] = p
  /\ run_q' = Nil
  /\ UNCHANGED << pnext, pprev >>

remove_from_run_q(p) ==
  /\ p \in runnable
  /\ runnable' = runnable \ {p}
  /\ UnlinkOne(p) \/ UnlinkLast(p)

\* ps_pause: the turn goes to the next process.
ps_pause ==
  /\ run_q # Nil
  /\ run_q' = pnext[run_q]
  /\ UNCHANGED << pnext, pprev, runnable >>

(***************************************************************************)
(* ps_switch: enter P at once when it is runnable, put it second when not. *)
(* Without a P it is ps_pause.                                             *)
(***************************************************************************)
ps_switch(p) ==
  \/ add_to_run_q(p, TRUE)
  \/ /\ p \in runnable
     /\ run_q' = p
     /\ UNCHANGED << pnext, pprev, runnable >>

Next ==
  \/ \E p \in Proc : \/ add_to_run_q(p, FALSE)
                     \/ remove_from_run_q(p)
                     \/ ps_switch(p)
  \/ ps_pause

Spec == Init /\ [][Next]_vars
-----------------------------------------------------------------------------
(***************************************************************************)
(* What a walk along `pnext' from `run_q' meets, one record per runnable   *)
(* process: the loop of verifyRunQ and displayRunQ.                        *)
(***************************************************************************)
Walk == LET n == Cardinality(runnable)
            at[i \in 1..n] == IF i = 1 THEN run_q ELSE pnext[at[i - 1]]
        IN  IF run_q = Nil THEN << >> ELSE [i \in 1..n |-> at[i]]

(***************************************************************************)
(* The two links of a record in the ring undo each other, and verifyRunQ   *)
(* finds nothing to complain of: the walk meets every runnable process, no *)
(* other, and comes back to `run_q' after the last.                        *)
(***************************************************************************)
LinksAgree ==
  \A p \in runnable : /\ pnext[p] \in runnable /\ pprev[pnext[p]] = p
                      /\ pprev[p] \in runnable /\ pnext[pprev[p]] = p
WalkIsRunnable ==
  LET n == Cardinality(runnable) IN
  IF runnable = {} THEN run_q = Nil
  ELSE /\ run_q # Nil
       /\ {Walk[i] : i \in 1..n} = runnable
       /\ pnext[Walk[n]] = run_q
RingIsSound == LinksAgree /\ WalkIsRunnable

(***************************************************************************)
(* Each relinking does to the walk what RunQueue promises.                 *)
(***************************************************************************)
RQ == INSTANCE RunQueue WITH queue <- Walk

ImplementsRunQueue == RQ!Spec
=============================================================================
