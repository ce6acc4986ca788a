------------------------------- MODULE Mailbox -------------------------------
(***************************************************************************)
(* The mailbox of one April process: the doubly linked list of message     *)
(* records of April/Engine/msg.c, and the receive statement of             *)
(* April/include/msg.ah that walks it.  Other processes send whenever this *)
(* one is not inside an escape; it may also send to itself.  A message may *)
(* carry a lease, after which it is dropped, and may ask for a receipt.    *)
(* Each message record is used once; an action that needs another when all *)
(* are used is not taken (msg_pool is the bound).                          *)
(***************************************************************************)
EXTENDS Integers, FiniteSets

CONSTANTS Msg,           \* the message records
          Nil,           \* NULL
          Senders,       \* who sends: a subset of {"other", "self"}
          Leases,        \* a subset of {"none", "running", "over"}
          Receipts,      \* may a message ask for a receipt: a subset of BOOLEAN
          Escapes,       \* a subset of {"next", "wait", "get"}
          Fronting,      \* is _front_msg used?
          Clashing       \* may a message be put in front with the number of the one
                         \* held for trial? (See FrontMsg.)

ASSUME MailboxAssumption ==
  /\ IsFiniteSet(Msg) /\ Nil \notin Msg
  /\ Senders \subseteq {"other", "self"}
  /\ Leases \subseteq {"none", "running", "over"}
  /\ Receipts \subseteq BOOLEAN
  /\ Escapes \subseteq {"next", "wait", "get"}
  /\ Fronting \in BOOLEAN /\ Clashing \in BOOLEAN

VARIABLES
  mail,       \* mfront, mback and sequence of the process, and the links and
              \* sequence numbers of the records
  from, lease, asks,   \* sender ("ack" of an acknowledgement this process sends
                       \* itself), lease and receipt request of each message
  phase,      \* what the process does
  escape,     \* the escape of its current receive
  scan,       \* Seq of the receive statement: the last message it has passed
  cursor,     \* the record that the loop of the escape has come to
  held,       \* the message that the patterns are tried on
  sent, gone  \* messages there have been; those accepted or dropped

msgVars == << from, lease, asks >>
recvVars == << escape, scan, cursor, held >>
vars == << mail, msgVars, phase, recvVars, sent, gone >>

Link == Msg \cup {Nil}

\* ##Seq before the first message of a receive.
NoneSeen == -10000

TypeOK ==
  /\ mail \in [mfront : Link, mback : Link, next : [Msg -> Link], prev : [Msg -> Link],
               sequence : Nat, seq : [Msg -> Int]]
  /\ from \in [Msg -> {"other", "self", "ack"}]
  /\ lease \in [Msg -> {"none", "running", "over"}]
  /\ asks \in [Msg -> BOOLEAN]
  /\ phase \in {"running", "looking", "trying", "waiting", "resting"}
  /\ escape \in {"next", "wait", "get"}
  /\ scan \in Int /\ cursor \in Link /\ held \in Link
  /\ sent \subseteq Msg /\ gone \subseteq sent

Init ==
  /\ mail = [mfront |-> Nil, mback |-> Nil, next |-> [m \in Msg |-> Nil],
             prev |-> [m \in Msg |-> Nil], sequence |-> 0, seq |-> [m \in Msg |-> 0]]
  /\ from = [m \in Msg |-> "other"]
  /\ lease = [m \in Msg |-> "none"]
  /\ asks = [m \in Msg |-> FALSE]
  /\ phase = "running" /\ escape = "next" /\ scan = NoneSeen /\ cursor = Nil /\ held = Nil
  /\ sent = {} /\ gone = {}
-----------------------------------------------------------------------------
(***************************************************************************)
(* The list.                                                               *)
(***************************************************************************)

\* Between the records l and n, Nil standing for the end of the list.  A slip: n keeps
\* its link to l.
LinkedForward(mb, l, m, n) ==
  [mb EXCEPT !.mfront = IF l = Nil THEN m ELSE @,
             !.mback  = IF n = Nil THEN m ELSE @,
             !.next   = [r \in Msg |-> CASE r = l -> m [] r = m -> n [] OTHER -> @[r]],
             !.prev   = [@ EXCEPT ![m] = l]]

Linked(mb, l, m, n) ==
  [mb EXCEPT !.mfront = IF l = Nil THEN m ELSE @,
             !.mback  = IF n = Nil THEN m ELSE @,
             !.next   = [r \in Msg |-> CASE r = l -> m [] r = m -> n [] OTHER -> @[r]],
             !.prev   = [r \in Msg |-> CASE r = n -> m [] r = m -> l [] OTHER -> @[r]]]

\* LocalMsg: the next sequence number, behind mback.
Appended(mb, m) ==
  LET numbered == [mb EXCEPT !.sequence = @ + 1, !.seq[m] = mb.sequence + 1]
  IN  Linked(numbered, mb.mback, m, Nil)

\* m_front_msg: the number before the first, and no back link from the first.  A slip:
\* the number of the first.
PutFrontSameNumber(mb, m) ==
  IF mb.mfront = Nil THEN Appended(mb, m)
  ELSE [mb EXCEPT !.seq[m] = mb.seq[mb.mfront], !.next[m] = mb.mfront, !.prev[m] = Nil,
                  !.mfront = m]

PutFront(mb, m) ==
  IF mb.mfront = Nil THEN Appended(mb, m)
  ELSE [mb EXCEPT !.seq[m] = mb.seq[mb.mfront] - 1, !.next[m] = mb.mfront, !.prev[m] = Nil,
                  !.mfront = m]

\* free_msg.  A slip: mback still points to a last record that is freed.
UnlinkedNotLast(mb, m) ==
  [mb EXCEPT !.mfront = IF mb.prev[m] = Nil THEN mb.next[m] ELSE @,
             !.next   = [r \in Msg |-> IF r = mb.prev[m] THEN mb.next[m] ELSE @[r]],
             !.prev   = [r \in Msg |-> IF r = mb.next[m] THEN mb.prev[m] ELSE @[r]]]

Unlinked(mb, m) ==
  [mb EXCEPT !.mfront = IF mb.prev[m] = Nil THEN mb.next[m] ELSE @,
             !.mback  = IF mb.next[m] = Nil THEN mb.prev[m] ELSE @,
             !.next   = [r \in Msg |-> IF r = mb.prev[m] THEN mb.next[m] ELSE @[r]],
             !.prev   = [r \in Msg |-> IF r = mb.next[m] THEN mb.prev[m] ELSE @[r]]]

\* The records from mfront on, as far as `next' leads.
Walk(mb) ==
  LET n == Cardinality(Msg)
      at[i \in 1..n] == IF i = 1 THEN mb.mfront
                        ELSE IF at[i - 1] = Nil THEN Nil ELSE mb.next[at[i - 1]]
  IN  [i \in 1..Cardinality({j \in 1..n : at[j] # Nil}) |-> at[i]]

Queued == {Walk(mail)[i] : i \in DOMAIN Walk(mail)}

\* m_replacemsg: back in the place of its number.  The walk is from mfront to the first
\* message with a higher number.  A slip: it goes behind all others.
ReplacedLast(mb, m) == Linked(mb, mb.mback, m, Nil)

Replaced(mb, m) ==
  LET w == Walk(mb)
      after == {i \in DOMAIN w : mb.seq[w[i]] >= mb.seq[m]}
  IN  IF after = {} THEN Linked(mb, mb.mback, m, Nil)
      ELSE LET n == w[CHOOSE i \in after : \A j \in after : i <= j]
           IN  Linked(mb, mb.prev[n], m, n)
-----------------------------------------------------------------------------
(***************************************************************************)
(* Sending.  An acknowledgement to this process itself is one more message *)
(* for it; replies(m, used) is the choice of a record for it.              *)
(***************************************************************************)
Replies(asked, sender, used) ==
  IF asked /\ sender = "self" THEN {{r} : r \in Msg \ used} ELSE {{}}

WithReply(mb, reply) ==
  IF reply = {} THEN mb ELSE Appended(mb, CHOOSE r \in reply : TRUE)

Acknowledged(senders, reply) == [m \in Msg |-> IF m \in reply THEN "ack" ELSE senders[m]]

LookFromFront(mb) == phase' = "looking" /\ cursor' = mb.mfront

\* A process that waits is made runnable and executes its escape again.  A slip: not if
\* its receive has passed a message before.
WakeAtFirst(mb) ==
  IF phase = "waiting" /\ scan = NoneSeen THEN LookFromFront(mb)
  ELSE phase' = (IF phase = "resting" THEN "running" ELSE phase) /\ UNCHANGED cursor

Wake(mb) ==
  IF phase = "waiting" THEN LookFromFront(mb)
  ELSE phase' = (IF phase = "resting" THEN "running" ELSE phase) /\ UNCHANGED cursor

\* sendAmsg, LocalMsg: an outdated message is dropped, with `timedout' to its sender.
Send(m, sender, term, asked) ==
  /\ phase # "looking" /\ (sender = "self" => phase \in {"running", "trying"})
  /\ m \notin sent
  /\ lease' = [lease EXCEPT ![m] = term]
  /\ asks' = [asks EXCEPT ![m] = asked]
  /\ \E reply \in Replies(asked, sender, sent \cup {m}) :
       /\ from' = Acknowledged([from EXCEPT ![m] = sender], reply)
       /\ sent' = sent \cup {m} \cup reply
       /\ IF term = "over"
            THEN /\ gone' = gone \cup {m}
                 /\ mail' = WithReply(mail, reply)
                 /\ UNCHANGED << phase, cursor >>
            ELSE /\ mail' = WithReply(Appended(mail, m), reply)
                 /\ Wake(mail')
                 /\ UNCHANGED gone
  /\ UNCHANGED << escape, scan, held >>

(***************************************************************************)
(* m_front_msg, in the program or in a pattern's guard, when a message is  *)
(* held for trial.  The number before that of the first in the queue is    *)
(* not looked for elsewhere: if it is the held one's, two messages of the  *)
(* same number will be in the queue, and both the loops over msgNo and     *)
(* m_replacemsg go wrong with them.                                        *)
(***************************************************************************)
FrontMsg(m, term, asked) ==
  /\ Fronting /\ phase \in {"running", "trying"}
  /\ held # Nil /\ mail.mfront # Nil /\ ~Clashing => mail.seq[mail.mfront] - 1 # mail.seq[held]
  /\ m \notin sent
  /\ from' = [from EXCEPT ![m] = "self"]
  /\ lease' = [lease EXCEPT ![m] = term]
  /\ asks' = [asks EXCEPT ![m] = asked]
  /\ sent' = sent \cup {m}
  /\ mail' = PutFront(mail, m)
  /\ UNCHANGED << phase, recvVars, gone >>

\* Time passes; time(NULL) is read once by an escape, before its loop.
LeaseEnds(m) ==
  /\ phase # "looking"
  /\ m \in sent \ gone /\ lease[m] = "running"
  /\ lease' = [lease EXCEPT ![m] = "over"]
  /\ UNCHANGED << mail, from, asks, phase, recvVars, sent, gone >>
-----------------------------------------------------------------------------
(***************************************************************************)
(* Receiving.                                                              *)
(***************************************************************************)
\* A receive statement begins, with m_nextmsg, m_waitmsg or m_getmsg.
BeginReceive(e) ==
  /\ phase = "running"
  /\ escape' = e
  /\ scan' = NoneSeen
  /\ LookFromFront(mail)
  /\ UNCHANGED << mail, msgVars, held, sent, gone >>

\* if(msg->sequence<=msgNo) msg = msg->next;
Pass ==
  /\ phase = "looking" /\ cursor # Nil
  /\ mail.seq[cursor] <= scan
  /\ cursor' = mail.next[cursor]
  /\ UNCHANGED << mail, msgVars, phase, escape, scan, held, sent, gone >>

(***************************************************************************)
(* A message whose lease is over: its successor is read, its sender told   *)
(* (not by m_waitmsg), and then it is freed.                               *)
(***************************************************************************)
DropOutdated ==
  /\ phase = "looking" /\ cursor # Nil
  /\ mail.seq[cursor] > scan /\ lease[cursor] = "over"
  /\ \E reply \in Replies(asks[cursor] /\ escape # "wait", from[cursor], sent) :
       /\ from' = Acknowledged(from, reply)
       /\ sent' = sent \cup reply
       /\ mail' = Unlinked(WithReply(mail, reply), cursor)
  /\ gone' = gone \cup {cursor}
  /\ cursor' = mail.next[cursor]
  /\ UNCHANGED << lease, asks, phase, escape, scan, held >>

\* The message is taken out of the queue for the patterns to be tried on it.  A slip: it
\* stays in the queue.
TakeMessageLeft ==
  /\ phase = "looking" /\ cursor # Nil
  /\ mail.seq[cursor] > scan /\ lease[cursor] # "over"
  /\ held' = cursor /\ cursor' = Nil
  /\ scan' = mail.seq[cursor]
  /\ phase' = "trying"
  /\ UNCHANGED << mail, msgVars, escape, sent, gone >>

TakeMessage ==
  /\ phase = "looking" /\ cursor # Nil
  /\ mail.seq[cursor] > scan /\ lease[cursor] # "over"
  /\ mail' = Unlinked(mail, cursor)
  /\ held' = cursor /\ cursor' = Nil
  /\ scan' = mail.seq[cursor]
  /\ phase' = "trying"
  /\ UNCHANGED << msgVars, escape, sent, gone >>

\* No message: the process waits, or its time is up, or m_getmsg fails.
NoMessage ==
  /\ phase = "looking" /\ cursor = Nil
  /\ \/ escape \in {"next", "wait"} /\ phase' = "waiting" /\ UNCHANGED scan
     \/ escape \in {"wait", "get"} /\ phase' = "running" /\ scan' = NoneSeen
  /\ UNCHANGED << mail, msgVars, escape, cursor, held, sent, gone >>

\* An alarm of this wait, or one left over from an earlier wait.
AlarmWakes ==
  /\ phase = "waiting"
  /\ LookFromFront(mail)
  /\ UNCHANGED << mail, msgVars, escape, scan, held, sent, gone >>

\* A pattern accepts the message, or an error in one ends the receive.
Accept ==
  /\ phase = "trying"
  /\ phase' = "running"
  /\ gone' = gone \cup {held}
  /\ held' = Nil /\ scan' = NoneSeen
  /\ UNCHANGED << mail, msgVars, escape, cursor, sent >>

(***************************************************************************)
(* No pattern accepts it: m_replacemsg, which tells the sender of an       *)
(* outdated message that it was dropped and puts it back all the same; and *)
(* the escape of the receive again.                                        *)
(***************************************************************************)
Reject ==
  /\ phase = "trying"
  /\ \E reply \in Replies(asks[held] /\ lease[held] = "over", from[held], sent) :
       /\ from' = Acknowledged(from, reply)
       /\ sent' = sent \cup reply
       /\ mail' = Replaced(WithReply(mail, reply), held)
       /\ LookFromFront(mail')
  /\ held' = Nil
  /\ UNCHANGED << lease, asks, escape, scan, gone >>

\* m_wait_msg: wait until there is any message.
AwaitAny ==
  /\ phase = "running" /\ mail.mfront = Nil
  /\ phase' = "resting"
  /\ UNCHANGED << mail, msgVars, recvVars, sent, gone >>

Next ==
  \/ \E m \in Msg :
       \/ \E sender \in Senders, term \in Leases, asked \in Receipts :
            Send(m, sender, term, asked)
       \/ \E term \in Leases, asked \in Receipts : FrontMsg(m, term, asked)
       \/ LeaseEnds(m)
  \/ \E e \in Escapes : BeginReceive(e)
  \/ Pass \/ DropOutdated \/ TakeMessage \/ NoMessage \/ AlarmWakes
  \/ Accept \/ Reject \/ AwaitAny

Spec == Init /\ [][Next]_vars
-----------------------------------------------------------------------------
(***************************************************************************)
(* The relinkings of front_msg, free_msg, m_replacemsg and their like      *)
(* leave a sound queue:                                                    *)
(* NothingLost - a message that was sent and neither accepted nor dropped  *)
(*   is in the queue, or held by the receive;                              *)
(* LinksAgree - mback is the last message, and a back link is right or     *)
(*   missing; missing in the message that was first when another was put   *)
(*   in front of it;                                                       *)
(* OrderKept - the sequence numbers ascend along the queue, also with      *)
(*   messages put in front of it: m_replacemsg and the msgNo of a receive  *)
(*   rely on that.                                                         *)
(***************************************************************************)
NothingLost == sent \ gone = Queued \cup ({held} \ {Nil})
LinksAgree ==
  LET w == Walk(mail) IN
  /\ mail.mback = IF w = << >> THEN Nil ELSE w[Cardinality(Queued)]
  /\ \A i \in DOMAIN w : mail.prev[w[i]] \in {Nil} \cup (IF i > 1 THEN {w[i - 1]} ELSE {})
OrderKept ==
  LET w == Walk(mail) IN \A i, j \in DOMAIN w : i < j => mail.seq[w[i]] < mail.seq[w[j]]
QueueIsSound == NothingLost /\ LinksAgree /\ OrderKept

(***************************************************************************)
(* A process that waits has no message it has not looked at, whatever it   *)
(* dropped and was sent while it looked; but the acknowledgement that      *)
(* m_nextmsg sends itself when it drops the last message it does miss.     *)
(***************************************************************************)
NoMessageMissed ==
  /\ phase = "waiting" => \A m \in Queued : mail.seq[m] <= scan \/ (from[m] = "ack" /\ escape = "next")
  /\ phase = "resting" => Queued = {}

(***************************************************************************)
(* A message that was accepted or dropped is never looked at again.        *)
(***************************************************************************)
NeverAgain == [][held' \notin gone]_vars

(***************************************************************************)
(* The list and the receive statement together do what MessageQueue        *)
(* promises.                                                               *)
(***************************************************************************)
MQ == INSTANCE MessageQueue
        WITH None <- Nil, queue <- Walk(mail),
             mark <- Cardinality({m \in Queued : mail.seq[m] <= scan})

ImplementsMessageQueue == MQ!Spec
=============================================================================
