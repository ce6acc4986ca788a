----------------------------- MODULE RunQueueOps -----------------------------
(***************************************************************************)
(* The run queue of April/Engine/schedule.c as a sequence in turn order:   *)
(* the head is the process `run_q' points to, the rest follow along        *)
(* `pnext'.  RunRing.tla holds the circular list that the code keeps.      *)
(***************************************************************************)
EXTENDS Integers, Sequences

Members(q) == {q[i] : i \in DOMAIN q}

\* Every process is in the queue at most once.
NoDuplicates(q) == \A i, j \in DOMAIN q : q[i] = q[j] => i = j

(***************************************************************************)
(* The queue with p put right behind its head, so that the pause that      *)
(* follows enters it, or behind its tail (add_to_run_q, front True and     *)
(* False).                                                                 *)
(***************************************************************************)
AddFront(q, p) == IF q = << >> THEN << p >> ELSE << Head(q), p >> \o Tail(q)
AddBack(q, p)  == Append(q, p)

\* The queue turned so that the process of its i-th place is the head.
TurnTo(q, i) == SubSeq(q, i, Len(q)) \o SubSeq(q, 1, i - 1)

(***************************************************************************)
(* The queue without the process of its i-th place.  `run_q' moves to the  *)
(* successor of the process that leaves, whether or not it was the head:   *)
(* removing another process turns the queue (remove_from_run_q).           *)
(***************************************************************************)
RemoveAt(q, i) == SubSeq(q, i + 1, Len(q)) \o SubSeq(q, 1, i - 1)

PlaceOf(q, p) == CHOOSE i \in DOMAIN q : q[i] = p
Remove(q, p)  == RemoveAt(q, PlaceOf(q, p))

\* The next process gets its turn (ps_pause).  A slip: the head keeps it.
KeepTurn(q) == q
Rotate(q) == IF q = << >> THEN q ELSE Append(Tail(q), Head(q))
=============================================================================
