----------------------------- MODULE MessageQueue -----------------------------
(***************************************************************************)
(* What a process's mailbox promises the receive statement                 *)
(* (Doc/statement.texi, include/msg.ah): the messages are looked at in the *)
(* order they came, one that no pattern accepts stays in its place, one    *)
(* that a pattern accepts ends the receive, and an outdated one may be     *)
(* dropped before it is looked at.                                         *)
(***************************************************************************)
EXTENDS Integers, Sequences, SequencesExt

CONSTANTS Msg, None

VARIABLES queue,        \* the messages in their order
          mark,         \* how many of them the current receive has passed
          held          \* the message it is looking at, or None

vars == << queue, mark, held >>

Init == queue = << >> /\ mark = 0 /\ held = None

\* The queue becomes q with any new messages behind it.
Grows(q) == /\ IsPrefix(q, queue')
            /\ \A i \in Len(q) + 1 .. Len(queue') : ~Contains(queue, queue'[i])

Arrive == queue' # queue /\ Grows(queue) /\ UNCHANGED << mark, held >>

\* Between receives, or while a message is looked at: then it counts as passed, unless none
\* has been, and the one looked at will be kept before it.
PutFront == /\ mark = 0 \/ held # None
            /\ \E m \in Msg : ~Contains(queue, m) /\ queue' = << m >> \o queue
            /\ mark' = (IF mark = 0 THEN 0 ELSE mark + 1)
            /\ UNCHANGED held

Look == /\ held = None /\ mark < Len(queue)
        /\ held' = queue[mark + 1]
        /\ queue' = RemoveAt(queue, mark + 1)
        /\ UNCHANGED mark

Keep == /\ held # None
        /\ Grows(InsertAt(queue, mark + 1, held))
        /\ mark' = mark + 1
        /\ held' = None

Accept == held # None /\ held' = None /\ mark' = 0 /\ UNCHANGED queue

Drop == /\ held = None /\ mark < Len(queue)
        /\ Grows(RemoveAt(queue, mark + 1))
        /\ UNCHANGED << mark, held >>

GiveUp == held = None /\ mark' = 0 /\ UNCHANGED << queue, held >>

Next == Arrive \/ PutFront \/ Look \/ Keep \/ Accept \/ Drop \/ GiveUp

Spec == Init /\ [][Next]_vars
=============================================================================
