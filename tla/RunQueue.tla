------------------------------- MODULE RunQueue -------------------------------
(***************************************************************************)
(* What the engine's run queue promises the scheduler: the runnable        *)
(* processes in turn order, entered behind the head or behind the tail,    *)
(* left by any of them, turned by a pause or a switch.                     *)
(***************************************************************************)
EXTENDS RunQueueOps

CONSTANT Proc            \* the process records

VARIABLE queue           \* the runnable processes, `run_q' first

Init == queue = << >>

EnterFront(p) == p \notin Members(queue) /\ queue' = AddFront(queue, p)
EnterBack(p)  == p \notin Members(queue) /\ queue' = AddBack(queue, p)
Leave(p)      == p \in Members(queue) /\ queue' = Remove(queue, p)
Pause         == queue # << >> /\ queue' = Rotate(queue)
SwitchTo(p)   == p \in Members(queue) /\ queue' = TurnTo(queue, PlaceOf(queue, p))

Next == \/ \E p \in Proc : EnterFront(p) \/ EnterBack(p) \/ Leave(p) \/ SwitchTo(p)
        \/ Pause

Spec == Init /\ [][Next]_queue
=============================================================================
