--------------------------- MODULE SchedulerSafety ---------------------------
(***************************************************************************)
(* What follows for waits, deaths and the count of live processes from the *)
(* inductive invariant IInv of SchedulerProofs: each property is           *)
(* strengthened until every step keeps it where IInv holds.                *)
(***************************************************************************)
EXTENDS SchedulerProofs, FiniteSetTheorems

(***************************************************************************)
(* What the C thread does between two instructions: it changes no message, *)
(* no escape to be retried and no attachment, makes processes runnable     *)
(* whose alarm is due, that wait for a file or that are to be resumed, and *)
(* takes off an alarm only of a process it makes runnable.                 *)
(***************************************************************************)
MayWake(r) == \/ alarm[r] = "due"
              \/ state[r] = "wait_io"
              \/ Head(todo).op = "resume" /\ Head(todo).who = r
Buried(r) == Head(todo).op = "bury" /\ Head(todo).who = r

LEMMA HousekeepingLeaves ==
  Housekeeping => /\ todo # << >>
                  /\ UNCHANGED << mailVars, expired, ioVars, monitor, processno, pending >>
BY DEF Housekeeping, NextIs, Children, Wake, Timers, CheckIo, Trigger, Resume, Await, Poll,
       Recheck, Select, SetCurrent, Enter, Turn, Bury, timeVars, queueVars, procVars

LEMMA HousekeepingStates ==
  ASSUME IInv, Housekeeping, NEW r \in Proc
  PROVE  /\ \/ state'[r] = state[r]
            \/ state'[r] = "runnable" /\ MayWake(r)
            \/ state'[r] = "dead" /\ Buried(r)
         /\ alarm'[r] = alarm[r] \/ (alarm'[r] = "none" /\ state'[r] = "runnable")
<1>1. QueueOk(state, runQ) /\ alarm \in [Proc -> {"none", "set", "due"}]
  BY QueueOfInv DEF IInv, TypeOK
<1>2. CASE Timers
  <2>1. CASE UNCHANGED << alarm, state >> BY <2>1
  <2>2. CASE ~UNCHANGED << alarm, state >>
    <3>1. PICK p \in Proc : alarm[p] = "due" /\ alarm' = WithoutEntry(p) /\ MakeRunnable(p, TRUE)
      BY <1>2, <2>2 DEF Timers
    <3>2. state'[p] = "runnable" /\ \A s \in Proc : s # p => state'[s] = state[s]
      BY <1>1, <3>1, Woken
    <3> QED BY <1>1, <3>1, <3>2 DEF WithoutEntry, MayWake
  <2> QED BY <2>1, <2>2
<1>3. CASE Trigger
  <2>1. alarm' = alarm BY <1>3 DEF Trigger, timeVars
  <2>2. CASE UNCHANGED << state, runQ >> BY <2>1, <2>2
  <2>3. CASE ~UNCHANGED << state, runQ >>
    <3>1. todo # << >> /\ Head(todo).op = "triggerIo" BY <1>3 DEF Trigger, NextIs
    <3>2. Head(todo).set \subseteq Proc BY <3>1, FirstCall DEF Task
    <3>3. PICK p \in Head(todo).set : state[p] = "wait_io" /\ MakeRunnable(p, FALSE)
      BY <1>3, <2>3 DEF Trigger
    <3>4. state'[p] = "runnable" /\ \A s \in Proc : s # p => state'[s] = state[s]
      BY <1>1, <3>2, <3>3, Woken
    <3> QED BY <2>1, <3>3, <3>4 DEF MayWake
  <2> QED BY <2>2, <2>3
<1>4. CASE Resume
  <2>1. todo # << >> /\ Head(todo).op = "resume" /\ alarm' = alarm /\ MakeRunnable(Head(todo).who, FALSE)
    BY <1>4 DEF Resume, NextIs, timeVars
  <2>2. Head(todo).who \in Proc BY <2>1, FirstCall DEF IInv, ResumeOk
  <2>3. \A s \in Proc : IF s = Head(todo).who THEN state'[s] = "runnable" ELSE state'[s] = state[s]
    BY <1>1, <2>1, <2>2, Woken
  <2> QED BY <2>1, <2>3 DEF MayWake
<1>5. CASE Bury
  BY <1>1, <1>5 DEF Bury, NextIs, timeVars, Buried, QueueOk
<1>6. CASE Children \/ Wake \/ CheckIo \/ Await \/ Poll \/ Recheck \/ Select \/ SetCurrent \/ Enter \/ Turn
  <2>1. state' = state /\ alarm' = alarm
    BY <1>6 DEF Children, Wake, CheckIo, Await, Poll, Recheck, Select, SetCurrent, Enter, Turn,
                queueVars, timeVars
  <2> QED BY <2>1
<1> QED BY <1>2, <1>3, <1>4, <1>5, <1>6 DEF Housekeeping

(***************************************************************************)
(* The world changes no process state, no message and no call, and takes   *)
(* off no alarm.                                                           *)
(***************************************************************************)
LEMMA WorldLeaves ==
  IInv /\ World =>
    /\ UNCHANGED << queueVars, mailVars, attached, procVars, pending, todo >>
    /\ \A r \in Proc : alarm'[r] = "none" <=> alarm[r] = "none"
<1> SUFFICES ASSUME IInv, World
             PROVE  /\ UNCHANGED << queueVars, mailVars, attached, procVars, pending, todo >>
                    /\ \A r \in Proc : alarm'[r] = "none" <=> alarm[r] = "none"
  OBVIOUS
<1>1. CASE Tick BY <1>1 DEF Tick, timeVars, ioVars
<1>2. ASSUME NEW p \in Proc, AlarmDue(p)
      PROVE  /\ UNCHANGED << queueVars, mailVars, attached, procVars, pending, todo >>
             /\ \A r \in Proc : alarm'[r] = "none" <=> alarm[r] = "none"
  BY <1>2 DEF AlarmDue, IInv, TypeOK, ioVars
<1>3. ASSUME NEW p \in Proc, FileReady(p) \/ ChildExits(p)
      PROVE  /\ UNCHANGED << queueVars, mailVars, attached, procVars, pending, todo >>
             /\ alarm' = alarm
  BY <1>3 DEF FileReady, ChildExits, timeVars, ioVars
<1> QED BY <1>1, <1>2, <1>3 DEF World

(***************************************************************************)
(* No message is missed.                                                   *)
(***************************************************************************)
\* The processes that wait for a message still wait for it as they did.
Unmoved(r) == /\ state[r] = "wait_msg" /\ unseen'[r] = unseen[r] /\ seen'[r] = seen[r]
              /\ pending'[r] \in {pending[r], "none"}

LEMMA UnmovedKeeps ==
  ASSUME NoMessageMissed,
         \A r \in Proc : state'[r] = "wait_msg" =>
            \/ Unmoved(r)
            \/ unseen'[r] = 0 /\ (pending'[r] = "any" => seen'[r] = 0)
  PROVE  NoMessageMissed'
BY DEF NoMessageMissed, Unmoved

\* A step of one process to which nothing else is done, and that leaves the messages.
LEMMA SuspendedState ==
  ASSUME IInv, NEW p \in Proc, NEW reason, NEW then, Suspend(p, reason, then)
  PROVE  state'[p] = reason /\ \A r \in Proc : r # p => state'[r] = state[r]
BY DEF Suspend, IInv, TypeOK

LEMMA ReceiveMisses ==
  ASSUME NEW p \in Proc, IInv, NoMessageMissed,
         Receive(p) \/ AwaitAny(p) \/ ReceiveUntil(p)
  PROVE  NoMessageMissed'
<1>1. /\ todo = << >> /\ exec = p /\ unseen \in [Proc -> Nat] /\ seen \in [Proc -> Nat]
      /\ pending \in [Proc -> Retried \cup {"none"}]
  BY DEF Receive, AwaitAny, ReceiveUntil, Escape, Executes, IInv, TypeOK
<1>2. state[p] = "runnable" BY <1>1, Executing
<1>3. CASE TakeMessage(p)
  <2>1. /\ state' = state /\ pending' = [pending EXCEPT ![p] = "none"]
        /\ \A r \in Proc : r # p => unseen'[r] = unseen[r] /\ seen'[r] = seen[r]
    BY <1>1, <1>3 DEF TakeMessage, queueVars
  <2> QED BY <1>1, <1>2, <2>1, UnmovedKeeps DEF Unmoved
<1>4. CASE /\ unseen[p] = 0 /\ mailVars' = mailVars
           /\ \E op \in {"receive", "timeout"} : pending' = [pending EXCEPT ![p] = op]
           /\ SuspendFor(p, "wait_msg")
  <2>1. \A r \in Proc : r # p => state'[r] = state[r] BY <1>4, SuspendedState DEF SuspendFor
  <2>2. pending'[p] # "any" /\ \A r \in Proc : r # p => pending'[r] = pending[r] BY <1>1, <1>4
  <2>3. unseen' = unseen /\ seen' = seen BY <1>4 DEF mailVars
  <2> QED BY <1>4, <2>1, <2>2, <2>3, UnmovedKeeps DEF Unmoved
<1>5. CASE mailVars' = mailVars /\ queueVars' = queueVars /\ pending' = [pending EXCEPT ![p] = "none"]
  BY <1>1, <1>5, UnmovedKeeps DEF Unmoved, mailVars, queueVars
<1>6. CASE AwaitAny(p)
  <2>1. CASE unseen[p] + seen[p] > 0 BY <1>5, <1>6, <2>1 DEF AwaitAny, queueVars
  <2>2. CASE ~(unseen[p] + seen[p] > 0)
    <3>1. /\ pending' = [pending EXCEPT ![p] = "any"] /\ SuspendFor(p, "wait_msg")
          /\ unseen' = unseen /\ seen' = seen
      BY <1>6, <2>2 DEF AwaitAny, mailVars
    <3>2. unseen[p] = 0 /\ seen[p] = 0
      <4>1. unseen[p] \in Nat /\ seen[p] \in Nat BY <1>1
      <4> QED BY <2>2, <4>1
    <3>3. \A r \in Proc : r # p => state'[r] = state[r] BY <3>1, SuspendedState DEF SuspendFor
    <3>4. \A r \in Proc : r # p => pending'[r] = pending[r] BY <1>1, <3>1
    <3> QED BY <3>1, <3>2, <3>3, <3>4, UnmovedKeeps DEF Unmoved
  <2> QED BY <2>1, <2>2
<1>7. CASE Receive(p) BY <1>3, <1>4, <1>7 DEF Receive
<1>8. CASE ReceiveUntil(p)
  <2>1. TakeMessage(p) \/ (unseen[p] = 0 /\ UntilDeadline(p, "timeout", "wait_msg") /\ mailVars' = mailVars)
    BY <1>8 DEF ReceiveUntil
  <2>2. CASE unseen[p] = 0 /\ UntilDeadline(p, "timeout", "wait_msg") /\ mailVars' = mailVars
    BY <1>4, <1>5, <2>2 DEF UntilDeadline, queueVars
  <2> QED BY <1>3, <2>1, <2>2
<1> QED BY <1>6, <1>7, <1>8

\* A process that suspends for something else, or whose escape is answered.
LEMMA OthersMiss ==
  ASSUME NEW p \in Proc, IInv, NoMessageMissed,
         Sleep(p) \/ Delay(p) \/ FileIo(p) \/ Shell(p)
  PROVE  NoMessageMissed'
<1>1. /\ unseen' = unseen /\ seen' = seen /\ pending \in [Proc -> Retried \cup {"none"}]
  BY DEF Sleep, Delay, FileIo, Shell, mailVars, IInv, TypeOK
<1>2. \E op : pending' = [pending EXCEPT ![p] = op]
  <2>1. CASE Delay(p)
    <3>1. pending' = [pending EXCEPT ![p] = pending[p]] BY <1>1, <2>1 DEF Delay
    <3> QED BY <3>1
  <2>2. CASE Sleep(p) BY <2>2 DEF Sleep, UntilDeadline
  <2>3. CASE FileIo(p) BY <2>3 DEF FileIo
  <2>4. CASE Shell(p) BY <2>4 DEF Shell
  <2> QED BY <2>1, <2>2, <2>3, <2>4
<1>3. \A r \in Proc : r # p => pending'[r] = pending[r] BY <1>1, <1>2
<1>4. \/ state' = state /\ todo = << >> /\ exec = p
      \/ \E reason \in {"wait_timer", "wait_io", "wait_child"} : \E then : Suspend(p, reason, then)
  BY DEF Sleep, Delay, FileIo, Shell, UntilDeadline, SuspendFor, Escape, Executes, queueVars
<1>5. CASE state' = state /\ todo = << >> /\ exec = p
  <2>1. state[p] = "runnable" BY <1>5, Executing
  <2> QED BY <1>1, <1>3, <1>5, <2>1, UnmovedKeeps DEF Unmoved
<1>6. CASE \E reason \in {"wait_timer", "wait_io", "wait_child"} : \E then : Suspend(p, reason, then)
  <2>1. state'[p] # "wait_msg" /\ \A r \in Proc : r # p => state'[r] = state[r]
    BY <1>6, SuspendedState
  <2> QED BY <1>1, <1>3, <2>1, UnmovedKeeps DEF Unmoved
<1> QED BY <1>4, <1>5, <1>6

LEMMA ForkMisses ==
  ASSUME NEW p \in Proc, NEW q \in Proc, IInv, NoMessageMissed, Fork(p, q)
  PROVE  NoMessageMissed'
<1>1. /\ state' = [state EXCEPT ![q] = "runnable"] /\ unseen' = [unseen EXCEPT ![q] = 0]
      /\ seen' = [seen EXCEPT ![q] = 0] /\ pending' = [pending EXCEPT ![q] = "none"]
  BY DEF Fork
<1>2. \A r \in Proc : r # q => /\ state'[r] = state[r] /\ unseen'[r] = unseen[r]
                               /\ seen'[r] = seen[r] /\ pending'[r] = pending[r]
  BY <1>1 DEF IInv, TypeOK
<1>3. state'[q] = "runnable" BY <1>1 DEF IInv, TypeOK
<1> QED BY <1>2, <1>3, UnmovedKeeps DEF Unmoved

\* Whoever is sent a message either is made runnable or executes.
LEMMA SendMisses ==
  ASSUME NEW p \in Proc, NEW q \in Proc, NEW sender \in Proc, NEW receipt \in BOOLEAN,
         IInv, NoMessageMissed, Send(p, q, sender, receipt)
  PROVE  NoMessageMissed'
<1>1. /\ todo = << >> /\ exec = p /\ sender \in {p, current} /\ WakeReceiver(q)
      /\ unseen' = [r \in Proc |-> unseen[r] + (IF r = q THEN 1 ELSE 0)
                                             + (IF receipt /\ r = sender THEN 1 ELSE 0)]
      /\ UNCHANGED << seen, pending >> /\ unseen \in [Proc -> Nat]
  BY DEF Send, Fresh, Executes, IInv, TypeOK
<1>2. state[sender] = "runnable"
  <2>1. sender # NoProc BY SchedulerAssumption
  <2> QED BY <1>1, <2>1, Executing
<1>3. \A r \in Proc : r # q /\ r # sender => unseen'[r] = unseen[r]
  <2> SUFFICES ASSUME NEW r \in Proc, r # q, r # sender PROVE unseen'[r] = unseen[r] OBVIOUS
  <2>1. unseen[r] \in Nat /\ unseen'[r] = unseen[r] + 0 + 0 BY <1>1
  <2> QED BY <2>1
<1>4. state'[q] # "wait_msg" /\ \A r \in Proc : r # q => state'[r] = state[r]
  <2>1. CASE state[q] = "wait_msg" BY <1>1, <2>1, QueueOfInv, Woken DEF WakeReceiver
  <2>2. CASE state[q] # "wait_msg" BY <1>1, <2>2 DEF WakeReceiver
  <2> QED BY <2>1, <2>2
<1> QED BY <1>1, <1>2, <1>3, <1>4, UnmovedKeeps DEF Unmoved

\* The monitor that is told of a death is made runnable, and the dead process waits for nothing.
LEMMA TerminateMisses ==
  ASSUME NEW q \in Proc, NEW then, IInv, NoMessageMissed, Terminate(q, then)
  PROVE  NoMessageMissed'
<1> DEFINE stateT == IF ToldMonitor THEN [state EXCEPT ![monitor] = "runnable"] ELSE state
           mail   == [unseen EXCEPT ![q] = 0]
<1>1. /\ unseen' = (IF monitor = NoProc THEN mail ELSE [mail EXCEPT ![monitor] = @ + 1])
      /\ seen' = [seen EXCEPT ![q] = 0] /\ pending' = [pending EXCEPT ![q] = "none"]
      /\ state' = (IF stateT[q] = "runnable" THEN [stateT EXCEPT ![q] = "dead"] ELSE stateT)
  BY DEF Terminate
<1>2. /\ monitor \in Proc \cup {NoProc} /\ state \in [Proc -> States] /\ unseen \in [Proc -> Nat]
      /\ seen \in [Proc -> Nat] /\ pending \in [Proc -> Retried \cup {"none"}]
  BY DEF IInv, TypeOK
<1>3. \A r \in Proc : r # q => pending'[r] = pending[r] /\ seen'[r] = seen[r] BY <1>1, <1>2
<1>4. seen'[q] = 0 /\ pending'[q] = "none" BY <1>1, <1>2
<1>5. mail \in [Proc -> Nat] /\ mail[q] = 0 /\ \A r \in Proc : r # q => mail[r] = unseen[r]
  BY <1>2
<1>6. stateT \in [Proc -> States] /\ \A r \in Proc : stateT[r] = "wait_msg" => state[r] = "wait_msg" /\ r # monitor
  BY <1>2, SchedulerAssumption DEF ToldMonitor, States
<1> HIDE DEF stateT, mail
<1>7. \A r \in Proc : state'[r] = "wait_msg" => state[r] = "wait_msg" /\ r # monitor
  BY <1>1, <1>6
<1>8. \A r \in Proc : r # monitor => unseen'[r] = mail[r] BY <1>1, <1>5
<1> QED BY <1>3, <1>4, <1>5, <1>7, <1>8, UnmovedKeeps DEF Unmoved

LEMMA ProcessStepMisses == IInv /\ NoMessageMissed /\ ProcessStep => NoMessageMissed'
<1> SUFFICES ASSUME IInv, NoMessageMissed, ProcessStep PROVE NoMessageMissed' OBVIOUS
<1>1. CASE state' = state /\ mailVars' = mailVars
           /\ \A r \in Proc : pending'[r] \in {pending[r], "none"}
  BY <1>1, UnmovedKeeps DEF Unmoved, mailVars
<1>2. CASE RootFails BY <1>1, <1>2 DEF RootFails, mailVars
<1>3. ASSUME NEW p \in Proc,
             \/ Receive(p) \/ AwaitAny(p) \/ ReceiveUntil(p)
             \/ Sleep(p) \/ Delay(p) \/ FileIo(p) \/ Shell(p) \/ Die(p)
      PROVE  NoMessageMissed'
  BY <1>3, ReceiveMisses, OthersMiss, TerminateMisses DEF Die
<1>4. ASSUME NEW p \in Proc, NEW q \in Proc, Interrupt(p, q) PROVE NoMessageMissed'
  <2>1. CASE pending' = [pending EXCEPT ![q] = "none"] /\ queueVars' = queueVars /\ mailVars' = mailVars
    BY <1>1, <2>1 DEF IInv, TypeOK, queueVars
  <2>2. CASE UNCHANGED << state, mailVars, pending >> BY <1>1, <2>2
  <2> QED BY <1>4, <2>1, <2>2, TerminateMisses DEF Interrupt, queueVars
<1>5. ASSUME NEW p \in Proc, NEW q \in Proc, Fork(p, q) \/ Kill(p, q) \/ SetMonitor(p, q)
      PROVE  NoMessageMissed'
  <2>1. CASE SetMonitor(p, q) BY <1>1, <2>1 DEF SetMonitor, queueVars
  <2> QED BY <1>5, <2>1, ForkMisses, TerminateMisses DEF Kill
<1> QED BY <1>2, <1>3, <1>4, <1>5, SendMisses DEF ProcessStep

LEMMA NextMisses == IInv /\ NoMessageMissed /\ [Next]_vars => NoMessageMissed'
<1> SUFFICES ASSUME IInv, NoMessageMissed, [Next]_vars PROVE NoMessageMissed' OBVIOUS
<1>1. CASE Housekeeping
  <2>1. UNCHANGED << unseen, seen, pending >> BY <1>1, HousekeepingLeaves DEF mailVars
  <2>2. \A r \in Proc : state'[r] = "wait_msg" => state[r] = "wait_msg" BY <1>1, HousekeepingStates
  <2> QED BY <2>1, <2>2, UnmovedKeeps DEF Unmoved
<1>2. CASE World \/ Tickle \/ UNCHANGED vars
  <2>1. UNCHANGED << state, unseen, seen, pending >>
    BY <1>2, WorldLeaves DEF Tickle, vars, queueVars, mailVars
  <2> QED BY <2>1, UnmovedKeeps DEF Unmoved
<1> QED BY <1>1, <1>2, ProcessStepMisses DEF Next

(***************************************************************************)
(* No process that waits for a message has one it has not looked at, nor,  *)
(* when any would do, one at all: LocalMsg, the acknowledgements and the   *)
(* messages to the monitor find every process that m_nextmsg, m_waitmsg or *)
(* m_wait_msg suspended, for any number of processes and messages and      *)
(* however signals and time-outs come between.                             *)
(***************************************************************************)
THEOREM NoMessageIsMissed == ASSUME ShellsApart PROVE Spec => []NoMessageMissed
<1>1. Init => NoMessageMissed BY DEF Init, NoMessageMissed
<1>2. IInv /\ NoMessageMissed /\ [Next]_vars => NoMessageMissed' BY NextMisses
<1> QED BY <1>1, <1>2, InvariantHolds, PTL DEF Spec

(***************************************************************************)
(* The calls of the C thread: one step puts others in the place of the     *)
(* first, or is one round of reset_timer.                                  *)
(***************************************************************************)
Replaces(c) ==
  /\ Quiet(c) /\ todo' = c \o Tail(todo)
  /\ \A t \in Members(c) : Harmless(t) \/ (t.op = "resume" /\ t.who \in Members(attached))

LEMMA ContinuesWith == ASSUME IInv, todo # << >>, Continue PROVE Replaces(<< >>)
BY ContinueIs, OneCall DEF Replaces

LEMMA HousekeepingCalls ==
  ASSUME IInv, Housekeeping
  PROVE  (Head(todo).op = "timers" /\ todo' = todo) \/ \E c : Replaces(c)
<1>1. todo # << >> BY HousekeepingLeaves
<1>2. CASE Children
  <2>1. CASE childDone
    <3>1. todo' = ResumeAll(attached) \o Tail(todo) BY <1>2, <2>1 DEF Children, InsteadDo
    <3>2. attached \in Seq(Proc) BY DEF IInv, TypeOK
    <3> QED BY <3>1, <3>2, ResumeAllCalls DEF Replaces
  <2> QED BY <1>1, <1>2, <2>1, ContinuesWith DEF Children
<1>3. CASE Wake
  <2>1. CASE wakeywakey
    <3>1. \/ todo' = << Call("timers"), Call("checkIo") >> \o Tail(todo)
          \/ todo' = << Call("timers") >> \o Tail(todo)
      BY <1>3, <2>1 DEF Wake, InsteadDo, WhenWoken
    <3>2. /\ Call("timers") \in Task /\ Harmless(Call("timers"))
          /\ Call("checkIo") \in Task /\ Harmless(Call("checkIo"))
      BY LoopCalls DEF Tasks
    <3>3. \/ Replaces(<< Call("timers"), Call("checkIo") >>)
          \/ Replaces(<< Call("timers") >>)
      BY <3>1, <3>2, HarmlessCalls DEF Replaces
    <3> QED BY <3>3
  <2> QED BY <1>1, <1>3, <2>1, ContinuesWith DEF Wake
<1>4. CASE Timers BY <1>1, <1>4, ContinuesWith DEF Timers, NextIs
<1>5. CASE CheckIo
  <2>1. todo' = << TriggerIo(IoWaiters) >> \o Tail(todo) BY <1>5 DEF CheckIo, InsteadDo
  <2>2. IoWaiters \in SUBSET Proc BY DEF IInv, TypeOK, IoWaiters
  <2>3. TriggerIo(IoWaiters) \in Task /\ Harmless(TriggerIo(IoWaiters)) BY <2>2, LoopCalls
  <2>4. Replaces(<< TriggerIo(IoWaiters) >>) BY <2>1, <2>3, HarmlessCalls DEF Replaces
  <2> QED BY <2>4
<1>6. CASE Trigger
  <2>1. CASE Head(todo).set = {} BY <1>1, <1>6, <2>1, ContinuesWith DEF Trigger
  <2>2. CASE Head(todo).set # {}
    <3>1. Head(todo).set \subseteq Proc BY <1>1, FirstCall DEF Task
    <3>2. PICK p \in Head(todo).set : todo' = << TriggerIo(Head(todo).set \ {p}) >> \o Tail(todo)
      BY <1>6, <2>2 DEF Trigger, InsteadDo
    <3>3. Head(todo).set \ {p} \in SUBSET Proc BY <3>1
    <3>4. /\ TriggerIo(Head(todo).set \ {p}) \in Task
          /\ Harmless(TriggerIo(Head(todo).set \ {p}))
      BY <3>3, LoopCalls
    <3>5. Replaces(<< TriggerIo(Head(todo).set \ {p}) >>)
      BY <3>2, <3>4, HarmlessCalls DEF Replaces
    <3> QED BY <3>5
  <2> QED BY <2>1, <2>2
<1>7. CASE Await
  <2>1. Call("poll") \in Task /\ Harmless(Call("poll")) BY LoopCalls DEF Tasks
  <2>2. Replaces(<< Call("poll") >>) \/ Continue
    BY <1>7, <2>1, HarmlessCalls DEF Await, InsteadDo, Replaces
  <2> QED BY <1>1, <2>2, ContinuesWith
<1>8. CASE Poll
  <2> DEFINE c == CheckSignals \o << Call("recheck") >>
  <2>1. Call("recheck") \in Task /\ Harmless(Call("recheck")) BY LoopCalls DEF Tasks
  <2>2. /\ Quiet(<< Call("recheck") >>)
        /\ \A t \in Members(<< Call("recheck") >>) : Harmless(t)
    BY <2>1, HarmlessCalls
  <2>3. Quiet(c) /\ \A t \in Members(c) : Harmless(t)
    BY <2>2, CheckSignalsCalls, QuietConcat
  <2>4. todo' = c \o Tail(todo) \/ Continue BY <1>8 DEF Poll, InsteadDo
  <2> HIDE DEF c
  <2> QED BY <1>1, <2>3, <2>4, ContinuesWith DEF Replaces
<1>9. CASE Recheck
  <2>1. Call("select") \in Task /\ Harmless(Call("select")) BY LoopCalls DEF Tasks
  <2>2. Replaces(<< Call("select") >>) \/ Continue
    BY <1>9, <2>1, HarmlessCalls DEF Recheck, InsteadDo, Replaces
  <2> QED BY <1>1, <2>2, ContinuesWith
<1>10. CASE Select
  <2>1. \/ todo' = << Call("children"), TriggerIo(IoWaiters), Call("wakeTimers"), Call("poll") >>
                     \o Tail(todo)
        \/ todo' = << Call("children"), Call("wakeTimers"), Call("poll") >> \o Tail(todo)
    BY <1>10 DEF Select, InsteadDo
  <2>2. IoWaiters \in SUBSET Proc BY DEF IInv, TypeOK, IoWaiters
  <2>3. TriggerIo(IoWaiters) \in Task /\ Harmless(TriggerIo(IoWaiters)) BY <2>2, LoopCalls
  <2>4. /\ Call("children") \in Task /\ Harmless(Call("children"))
        /\ Call("wakeTimers") \in Task /\ Harmless(Call("wakeTimers"))
        /\ Call("poll") \in Task /\ Harmless(Call("poll"))
    BY LoopCalls DEF Tasks
  <2>5. \/ Replaces(<< Call("children"), TriggerIo(IoWaiters), Call("wakeTimers"), Call("poll") >>)
        \/ Replaces(<< Call("children"), Call("wakeTimers"), Call("poll") >>)
    BY <2>1, <2>3, <2>4, HarmlessCalls DEF Replaces
  <2> QED BY <2>5
<1>11. CASE Resume \/ SetCurrent \/ Enter \/ Turn
  BY <1>1, <1>11, ContinuesWith DEF Resume, SetCurrent, Enter, Turn
<1>12. CASE Bury
  <2>1. todo' = << Call("wakeTimers") >> \o Tail(todo) BY <1>12 DEF Bury, InsteadDo
  <2>2. Call("wakeTimers") \in Task /\ Harmless(Call("wakeTimers")) BY LoopCalls DEF Tasks
  <2>3. Replaces(<< Call("wakeTimers") >>) BY <2>1, <2>2, HarmlessCalls DEF Replaces
  <2> QED BY <2>3
<1> QED BY <1>2, <1>3, <1>4, <1>5, <1>6, <1>7, <1>8, <1>9, <1>10, <1>11, <1>12 DEF Housekeeping

\* The calls there are then.
LEMMA CallsThen ==
  ASSUME IInv, Housekeeping
  PROVE  \A t \in Members(todo') : \/ t \in Members(todo) \/ Harmless(t)
                                   \/ t.op = "resume" /\ t.who \in Members(attached)
<1>1. CASE todo' = todo BY <1>1
<1>2. ASSUME NEW c, Replaces(c)
      PROVE  \A t \in Members(todo') : \/ t \in Members(todo) \/ Harmless(t)
                                       \/ t.op = "resume" /\ t.who \in Members(attached)
  <2>1. todo # << >> BY HousekeepingLeaves
  <2>2. Members(todo') = Members(c) \cup Members(Tail(todo))
    BY <1>2, <2>1, FirstCall, CallsBefore DEF Replaces
  <2> QED BY <1>2, <2>1, <2>2, FirstCall DEF Replaces
<1> QED BY <1>1, <1>2, HousekeepingCalls

(***************************************************************************)
(* The process that executes is current_process, in an engine whose        *)
(* programs do not kill: nothing else suspends or ends a process without a *)
(* call that chooses what to execute next.                                 *)
(***************************************************************************)
ChoosesNext == \E t \in Members(todo) : Closing(t)
ExecChosen == IF todo # << >> THEN ChoosesNext ELSE exec # NoProc => current = exec

\* A sequence of calls that has none.
LEMMA NoCalls == ASSUME NEW s \in Seq(Task), Members(s) = {} PROVE s = << >>
<1> SUFFICES ASSUME s # << >> PROVE FALSE OBVIOUS
<1>1. Len(s) \in Nat \ {0} BY EmptySeq
<1>2. DOMAIN s = 1..Len(s) BY LenProperties
<1>3. 1 \in DOMAIN s BY <1>1, <1>2
<1> QED BY <1>3 DEF Members

LEMMA HousekeepingChooses == IInv /\ ExecChosen /\ Housekeeping => ExecChosen'
<1> SUFFICES ASSUME IInv, ExecChosen, Housekeeping PROVE ExecChosen' OBVIOUS
<1>1. todo # << >> /\ ChoosesNext BY HousekeepingLeaves DEF ExecChosen
<1>2. CASE Closing(Head(todo))
  <2>1. Members(Tail(todo)) = {} /\ Tail(todo) \in Seq(Task) BY <1>1, <1>2, FirstCall
  <2>2. Tail(todo) = << >> BY <2>1, NoCalls
  <2>3. Head(todo).op = "enter" \/ Head(todo).op = "rotate" BY <1>2 DEF Closing
  <2>4. Enter \/ Turn
    BY <2>3 DEF Housekeeping, NextIs, Children, Wake, Timers, CheckIo, Trigger, Resume, Await, Poll,
                Recheck, Select, SetCurrent, Bury
  <2>5. todo' = << >> /\ exec' = current' BY <2>2, <2>4 DEF Enter, Turn, Continue
  <2> QED BY <2>5 DEF ExecChosen
<1>3. CASE ~Closing(Head(todo))
  <2>1. PICK t \in Members(Tail(todo)) : Closing(t) BY <1>1, <1>3, FirstCall DEF ChoosesNext
  <2>2. t \in Members(todo')
    <3>1. CASE todo' = todo BY <1>1, <2>1, <3>1, FirstCall
    <3>2. ASSUME NEW c, Replaces(c) PROVE t \in Members(todo')
      BY <1>1, <2>1, <3>2, FirstCall, CallsBefore, ZenonT(40) DEF Replaces
    <3> QED BY <3>1, <3>2, HousekeepingCalls
  <2>3. ChoosesNext' BY <2>1, <2>2 DEF ChoosesNext
  <2>4. todo' # << >> BY <2>2, OneCall
  <2> QED BY <2>3, <2>4 DEF ExecChosen
<1> QED BY <1>2, <1>3

LEMMA ClosesWith ==
  ASSUME NEW c, Quiet(c), NEW then, then = << Call("enter") >> \/ then = Pausing, todo' = c \o then
  PROVE  ExecChosen'
<1>1. /\ then \in Seq(Task) /\ ClosingIsLast(then) /\ \E t \in Members(then) : Closing(t)
  <2>1. Closing(Call("rotate")) BY DEF Closing, Call
  <2> QED BY <2>1, EnterCall, PausingCalls
<1>2. Members(todo') = Members(c) \cup Members(then) BY <1>1, CallsBefore
<1>3. \E t \in Members(todo') : Closing(t) BY <1>1, <1>2
<1> QED BY <1>3, OneCall DEF ExecChosen, ChoosesNext

LEMMA PauseChooses == ASSUME todo' = Pausing PROVE ExecChosen'
<1>1. Closing(Call("rotate")) BY DEF Closing, Call
<1> QED BY <1>1, PausingCalls, OneCall DEF ExecChosen, ChoosesNext

LEMMA SuspendChooses ==
  ASSUME NEW p \in Proc, NEW reason, NEW then, then = << Call("enter") >> \/ then = Pausing,
         Suspend(p, reason, then)
  PROVE  ExecChosen'
BY SuspendingCalls, ClosesWith DEF Suspend

LEMMA TerminateChooses ==
  ASSUME NEW q \in Proc, NEW then, then = << Call("enter") >> \/ then = Pausing, Terminate(q, then)
  PROVE  ExecChosen'
<1> DEFINE b == CallOn("bury", q)
           a == Call("await")
           c == Call("setCurrent")
<1>1. /\ a \in Task /\ b \in Task /\ c \in Task /\ ~Closing(a) /\ ~Closing(b) /\ ~Closing(c)
  BY DEF Call, CallOn, Task, Tasks, Closing
<1>2. todo' = << a, c, b >> \o then \/ todo' = << b >> \o then BY DEF Terminate
<1> HIDE DEF a, b, c
<1>3. Quiet(<< a, c, b >>) /\ Quiet(<< b >>) BY <1>1, ThreeCalls, OneCall
<1> QED BY <1>2, <1>3, ClosesWith

\* The emulator goes on with the process it executes, or the engine ends.
LEMMA GoesOnChosen ==
  ASSUME ExecChosen, todo = << >>, todo' = todo, current' = current, exec' = exec \/ exec' = NoProc
  PROVE  ExecChosen'
BY DEF ExecChosen

LEMMA ProcessStepChooses ==
  ASSUME "kill" \notin Ops PROVE ExecChosen /\ ProcessStep => ExecChosen'
<1> SUFFICES ASSUME ExecChosen, ProcessStep PROVE ExecChosen' OBVIOUS
<1>1. CASE RootFails BY <1>1, GoesOnChosen DEF RootFails, Fresh, Executes
<1>2. ASSUME NEW p \in Proc, Receive(p) \/ AwaitAny(p) \/ ReceiveUntil(p) \/ Sleep(p) \/ Delay(p) \/ FileIo(p)
      PROVE  ExecChosen'
  <2>1. todo = << >>
    BY <1>2 DEF Receive, AwaitAny, ReceiveUntil, Sleep, Delay, FileIo, Escape, Fresh, Executes
  <2>2. UNCHANGED << queueVars, todo >> \/ \E reason : SuspendFor(p, reason)
    BY <1>2 DEF Receive, AwaitAny, ReceiveUntil, Sleep, Delay, FileIo, TakeMessage, UntilDeadline
  <2>3. CASE UNCHANGED << queueVars, todo >> BY <2>1, <2>3, GoesOnChosen DEF queueVars
  <2> QED BY <2>2, <2>3, SuspendChooses DEF SuspendFor
<1>3. ASSUME NEW p \in Proc, Shell(p) PROVE ExecChosen'
  <2>1. todo = << >> BY <1>3 DEF Shell, Escape, Executes
  <2>2. UNCHANGED << queueVars, todo >> \/ Suspend(p, "wait_child", Pausing) BY <1>3 DEF Shell
  <2>3. CASE UNCHANGED << queueVars, todo >> BY <2>1, <2>3, GoesOnChosen DEF queueVars
  <2> QED BY <2>2, <2>3, SuspendChooses
<1>4. ASSUME NEW p \in Proc, Die(p) PROVE ExecChosen' BY <1>4, TerminateChooses DEF Die
<1>5. ASSUME NEW p \in Proc, NEW q \in Proc, Interrupt(p, q) PROVE ExecChosen'
  <2>1. CASE todo' = (IF state[q] = "runnable" THEN << >> ELSE Resuming(q)) \o Pausing
    <3> DEFINE c == IF state[q] = "runnable" THEN << >> ELSE Resuming(q)
    <3>1. Quiet(c) /\ todo' = c \o Pausing BY <2>1, OneCall, ResumingCalls
    <3> HIDE DEF c
    <3> QED BY <3>1, ClosesWith
  <2>2. CASE Terminate(q, Pausing) BY <2>2, TerminateChooses
  <2>3. CASE exec' = NoProc /\ UNCHANGED << current, todo >>
    BY <1>5, <2>3, GoesOnChosen DEF Interrupt, Fresh, Executes
  <2> QED BY <1>5, <2>1, <2>2, <2>3 DEF Interrupt
<1>6. ASSUME NEW p \in Proc, NEW q \in Proc,
             Fork(p, q) \/ \E sender \in Proc, receipt \in BOOLEAN : Send(p, q, sender, receipt)
      PROVE  ExecChosen'
  BY <1>6, PauseChooses DEF Fork, Send
<1>7. ASSUME NEW p \in Proc, NEW q \in Proc, SetMonitor(p, q) PROVE ExecChosen'
  BY <1>7, GoesOnChosen DEF SetMonitor, Fresh, Executes, queueVars
<1>8. ASSUME NEW p \in Proc, NEW q \in Proc, Kill(p, q) PROVE ExecChosen'
  BY <1>8 DEF Kill, Fresh, Executes
<1> QED BY <1>1, <1>2, <1>3, <1>4, <1>5, <1>6, <1>7, <1>8 DEF ProcessStep

(***************************************************************************)
(* Whenever the emulator executes, current_process is the process it       *)
(* executes, as ps_suspend asserts: every escape that suspends or ends a   *)
(* process, or puts one at the head of the queue, is followed by a call    *)
(* that makes the two the same.  Proved for programs that do not kill:     *)
(* m_kill sets current_process to the first process of the queue and goes  *)
(* on, which is right only as long as that is the one executing.           *)
(***************************************************************************)
THEOREM CurrentExecutes ==
  ASSUME ShellsApart, "kill" \notin Ops PROVE Spec => []CurrentIsExecuting
<1>1. Init => ExecChosen BY DEF Init, ExecChosen
<1>2. IInv /\ ExecChosen /\ [Next]_vars => ExecChosen'
  <2> SUFFICES ASSUME IInv, ExecChosen, [Next]_vars PROVE ExecChosen' OBVIOUS
  <2>1. CASE World \/ UNCHANGED vars
    <3>1. UNCHANGED << todo, current, exec >> BY <2>1, WorldLeaves DEF vars, queueVars
    <3> QED BY <3>1 DEF ExecChosen, ChoosesNext
  <2>2. CASE Tickle BY <2>2, PauseChooses DEF Tickle
  <2> QED BY <2>1, <2>2, HousekeepingChooses, ProcessStepChooses DEF Next
<1>3. ExecChosen => CurrentIsExecuting BY DEF ExecChosen, CurrentIsExecuting
<1> QED BY <1>1, <1>2, <1>3, InvariantHolds, PTL DEF Spec

(***************************************************************************)
(* What a process waits for will find it.                                  *)
(***************************************************************************)
\* Does r wait for an alarm?
Timed(r) == state[r] = "wait_timer" \/ (state[r] = "wait_msg" /\ pending[r] = "timeout")

LEMMA ArmedKeeps ==
  ASSUME TimedWaitIsArmed,
         \A r \in Proc : Timed(r)' => \/ alarm'[r] # "none"
                                      \/ Timed(r) /\ alarm'[r] = alarm[r]
  PROVE  TimedWaitIsArmed'
BY DEF TimedWaitIsArmed, Timed

\* Escapes of a process that ends its wait, or begins one without a deadline.
LEMMA UntimedArms ==
  ASSUME NEW p \in Proc, IInv, TimedWaitIsArmed,
         Receive(p) \/ AwaitAny(p) \/ FileIo(p) \/ Shell(p)
  PROVE  TimedWaitIsArmed'
<1>1. /\ alarm' = alarm /\ todo = << >> /\ exec = p
      /\ \E op \in {"none", "receive", "any", "io", "shell"} : pending' = [pending EXCEPT ![p] = op]
      /\ \/ UNCHANGED queueVars
         \/ \E reason \in Waiting \ {"wait_timer"} : \E then : Suspend(p, reason, then)
  BY DEF Receive, AwaitAny, FileIo, Shell, TakeMessage, SuspendFor, Escape, Executes, timeVars, Waiting
<1>2. state[p] = "runnable" BY <1>1, Executing
<1>3. pending'[p] # "timeout" /\ \A r \in Proc : r # p => pending'[r] = pending[r]
  BY <1>1 DEF IInv, TypeOK
<1>4. state'[p] # "wait_timer" /\ \A r \in Proc : r # p => state'[r] = state[r]
  BY <1>1, <1>2, SuspendedState DEF queueVars
<1> QED BY <1>1, <1>3, <1>4, ArmedKeeps DEF Timed

LEMMA TimedArms ==
  ASSUME ~Overtaken, NEW p \in Proc, IInv, TimedWaitIsArmed, ReceiveUntil(p) \/ Sleep(p) \/ Delay(p)
  PROVE  TimedWaitIsArmed'
<1>1. todo = << >> /\ exec = p /\ alarm \in [Proc -> {"none", "set", "due"}]
      /\ pending \in [Proc -> Retried \cup {"none"}]
  BY DEF ReceiveUntil, Sleep, Delay, Escape, Fresh, Executes, IInv, TypeOK
<1>2. state[p] = "runnable" BY <1>1, Executing
<1>3. CASE /\ UNCHANGED << queueVars, alarm >> /\ pending' = [pending EXCEPT ![p] = "none"]
  BY <1>1, <1>2, <1>3, ArmedKeeps DEF Timed, queueVars
<1>4. CASE /\ alarm' = [alarm EXCEPT ![p] = "set"]
           /\ \A r \in Proc : r # p => pending'[r] = pending[r]
           /\ \E reason : SuspendFor(p, reason)
  <2>1. \A r \in Proc : r # p => state'[r] = state[r] BY <1>4, SuspendedState DEF SuspendFor
  <2>2. alarm'[p] = "set" /\ \A r \in Proc : r # p => alarm'[r] = alarm[r] BY <1>1, <1>4
  <2> QED BY <1>4, <2>1, <2>2, ArmedKeeps DEF Timed
<1>5. CASE Delay(p) BY <1>4, <1>5 DEF Delay
<1>6. ASSUME NEW op, NEW reason, UntilDeadline(p, op, reason) PROVE TimedWaitIsArmed'
  <2>1. ~AlarmOvertaken(p) BY DEF AlarmOvertaken
  <2>2. CASE /\ alarm' = [alarm EXCEPT ![p] = "set"] /\ pending' = [pending EXCEPT ![p] = op]
             /\ SuspendFor(p, reason)
    <3>1. \A r \in Proc : r # p => pending'[r] = pending[r] BY <1>1, <2>2
    <3> QED BY <1>4, <2>2, <3>1
  <2>3. CASE UNCHANGED << queueVars, todo, alarm, sigVars >> /\ pending' = [pending EXCEPT ![p] = "none"]
    BY <1>3, <2>3
  <2> QED BY <1>6, <2>1, <2>2, <2>3 DEF UntilDeadline, SetAlarm
<1>7. CASE TakeMessage(p) BY <1>3, <1>7 DEF TakeMessage
<1> QED BY <1>5, <1>6, <1>7 DEF ReceiveUntil, Sleep

\* A process that dies was executing, and waits for nothing.
LEMMA DieArms ==
  ASSUME NEW p \in Proc, IInv, TimedWaitIsArmed, Die(p)
  PROVE  TimedWaitIsArmed' /\ state'[p] = "dead" /\ \A r \in Proc : state'[r] \in {state[r], "runnable", "dead"}
<1> DEFINE stateT == IF ToldMonitor THEN [state EXCEPT ![monitor] = "runnable"] ELSE state
<1>1. /\ alarm' = [alarm EXCEPT ![p] = "none"] /\ pending' = [pending EXCEPT ![p] = "none"]
      /\ state' = (IF stateT[p] = "runnable" THEN [stateT EXCEPT ![p] = "dead"] ELSE stateT)
      /\ todo = << >> /\ exec = p
  BY DEF Die, Terminate, NoAlarmOf, Fresh, Executes
<1>2. state[p] = "runnable" BY <1>1, Executing
<1>3. /\ monitor \in Proc \cup {NoProc} /\ state \in [Proc -> States]
      /\ alarm \in [Proc -> {"none", "set", "due"}] /\ pending \in [Proc -> Retried \cup {"none"}]
  BY DEF IInv, TypeOK
<1>4. /\ stateT \in [Proc -> States] /\ stateT[p] = "runnable"
      /\ \A r \in Proc : stateT[r] \in {state[r], "runnable"}
  BY <1>2, <1>3, SchedulerAssumption DEF ToldMonitor, States
<1> HIDE DEF stateT
<1>5. state'[p] = "dead" /\ \A r \in Proc : r # p => state'[r] \in {state[r], "runnable"}
  BY <1>1, <1>4
<1>6. \A r \in Proc : r # p => alarm'[r] = alarm[r] /\ pending'[r] = pending[r] BY <1>1, <1>3
<1>7. TimedWaitIsArmed' BY <1>5, <1>6, ArmedKeeps DEF Timed
<1> QED BY <1>5, <1>7

LEMMA ProcessStepArms ==
  ASSUME ~Overtaken, Ops \cap {"kill", "interrupt"} = {}
  PROVE  IInv /\ TimedWaitIsArmed /\ ProcessStep => TimedWaitIsArmed'
<1> SUFFICES ASSUME IInv, TimedWaitIsArmed, ProcessStep PROVE TimedWaitIsArmed' OBVIOUS
<1>1. CASE UNCHANGED << state, pending, alarm >> BY <1>1, ArmedKeeps DEF Timed
<1>2. CASE RootFails BY <1>1, <1>2 DEF RootFails, timeVars
<1>3. ASSUME NEW p \in Proc,
             \/ Receive(p) \/ AwaitAny(p) \/ ReceiveUntil(p)
             \/ Sleep(p) \/ Delay(p) \/ FileIo(p) \/ Shell(p) \/ Die(p)
      PROVE  TimedWaitIsArmed'
  BY <1>3, UntimedArms, TimedArms, DieArms
<1>4. ASSUME NEW p \in Proc, NEW q \in Proc, Fork(p, q) PROVE TimedWaitIsArmed'
  <2>1. /\ state' = [state EXCEPT ![q] = "runnable"] /\ pending' = [pending EXCEPT ![q] = "none"]
        /\ alarm' = alarm
    BY <1>4 DEF Fork, timeVars
  <2>2. \A r \in Proc : Timed(r)' => Timed(r) BY <2>1 DEF IInv, TypeOK, Timed
  <2> QED BY <2>1, <2>2, ArmedKeeps
<1>5. ASSUME NEW p \in Proc, NEW q \in Proc, NEW sender \in Proc, NEW receipt \in BOOLEAN,
             Send(p, q, sender, receipt)
      PROVE  TimedWaitIsArmed'
  <2>1. pending' = pending /\ alarm' = alarm /\ WakeReceiver(q) BY <1>5 DEF Send, timeVars
  <2>2. \A r \in Proc : state'[r] \in {state[r], "runnable"}
    BY <2>1, QueueOfInv, Woken DEF WakeReceiver
  <2>3. \A r \in Proc : Timed(r)' => Timed(r) BY <2>1, <2>2 DEF Timed
  <2> QED BY <2>1, <2>3, ArmedKeeps
<1>6. ASSUME NEW p \in Proc, NEW q \in Proc, SetMonitor(p, q) PROVE TimedWaitIsArmed'
  BY <1>1, <1>6 DEF SetMonitor, queueVars, timeVars
<1>7. ASSUME NEW p \in Proc, NEW q \in Proc PROVE ~Kill(p, q) /\ ~Interrupt(p, q)
  BY DEF Kill, Interrupt, Fresh, Executes
<1> QED BY <1>2, <1>3, <1>4, <1>5, <1>6, <1>7 DEF ProcessStep

\* Steps that attach nobody and begin no wait for a child.
LEMMA AttachedKeeps ==
  ASSUME AttachmentsOk, NoDuplicates(attached'), Members(attached') = Members(attached),
         \A r \in Proc : /\ pending'[r] = "shell" <=> pending[r] = "shell"
                         /\ state'[r] = "wait_child" => state[r] = "wait_child"
  PROVE  AttachmentsOk'
BY DEF AttachmentsOk

LEMMA ShellAttaches ==
  ASSUME NEW p \in Proc, IInv, AttachmentsOk, Shell(p) PROVE AttachmentsOk'
<1>1. /\ pending \in [Proc -> Retried \cup {"none"}] /\ todo = << >> /\ exec = p
  BY DEF Shell, Escape, Executes, IInv, TypeOK
<1>2. state[p] = "runnable" BY <1>1, Executing
<1>3. CASE child[p] = "exited"
  <2>1. attached' = Detached(p) /\ pending' = [pending EXCEPT ![p] = "none"] /\ state' = state
    BY <1>3 DEF Shell, queueVars
  <2>2. NoDuplicates(attached') /\ Members(attached') = Members(attached) \ {p}
    BY <2>1, AttachedOnce
  <2>3. Members(attached') = {r \in Proc : pending'[r] = "shell"}
    BY <1>1, <2>1, <2>2 DEF AttachmentsOk
  <2> QED BY <1>1, <1>2, <2>1, <2>2, <2>3 DEF AttachmentsOk
<1>4. CASE child[p] # "exited"
  <2>1. /\ attached' = Attached(p) /\ pending' = [pending EXCEPT ![p] = "shell"]
        /\ Suspend(p, "wait_child", Pausing)
    BY <1>4 DEF Shell
  <2>2. NoDuplicates(attached') /\ Members(attached') = Members(attached) \cup {p}
    BY <2>1, AttachedOnce
  <2>3. Members(attached') = {r \in Proc : pending'[r] = "shell"}
    BY <1>1, <2>1, <2>2 DEF AttachmentsOk
  <2>4. \A r \in Proc : r # p => state'[r] = state[r] BY <2>1, SuspendedState
  <2> QED BY <1>1, <2>1, <2>2, <2>3, <2>4 DEF AttachmentsOk
<1> QED BY <1>3, <1>4

LEMMA OthersAttach ==
  ASSUME NEW p \in Proc, IInv, AttachmentsOk,
         Receive(p) \/ AwaitAny(p) \/ ReceiveUntil(p) \/ Sleep(p) \/ Delay(p) \/ FileIo(p)
  PROVE  AttachmentsOk'
<1>1. /\ pending \in [Proc -> Retried \cup {"none"}] /\ pending[p] # "shell"
      /\ NoDuplicates(attached)
  BY DEF Receive, AwaitAny, ReceiveUntil, Sleep, Delay, FileIo, Escape, Fresh, IInv, TypeOK, ShellsOk
<1>2. attached' = attached
  BY DEF Receive, AwaitAny, ReceiveUntil, Sleep, Delay, FileIo, TakeMessage, ioVars
<1>3. \/ pending' = pending
      \/ \E op \in {"none", "receive", "any", "timeout", "sleep", "io"} :
           pending' = [pending EXCEPT ![p] = op]
  BY DEF Receive, AwaitAny, ReceiveUntil, Sleep, Delay, FileIo, TakeMessage, UntilDeadline
<1>4. \A r \in Proc : pending'[r] = "shell" <=> pending[r] = "shell" BY <1>1, <1>3
<1>5. \/ UNCHANGED queueVars
      \/ \E reason \in Waiting \ {"wait_child"} : \E then : Suspend(p, reason, then)
  BY DEF Receive, AwaitAny, ReceiveUntil, Sleep, Delay, FileIo, TakeMessage, UntilDeadline, SuspendFor,
         Waiting
<1>6. \A r \in Proc : state'[r] = "wait_child" => state[r] = "wait_child"
  BY <1>5, SuspendedState DEF queueVars
<1> QED BY <1>1, <1>2, <1>4, <1>6, AttachedKeeps

LEMMA ProcessStepAttaches ==
  ASSUME Ops \cap {"kill", "interrupt"} = {}
  PROVE  IInv /\ TimedWaitIsArmed /\ AttachmentsOk /\ ProcessStep => AttachmentsOk'
<1> SUFFICES ASSUME IInv, TimedWaitIsArmed, AttachmentsOk, ProcessStep PROVE AttachmentsOk' OBVIOUS
<1>1. /\ pending \in [Proc -> Retried \cup {"none"}] /\ NoDuplicates(attached)
      /\ \A r \in Members(attached) : IsLive(r)
  BY DEF IInv, TypeOK, ShellsOk
<1>2. CASE UNCHANGED << state, pending, attached >> BY <1>1, <1>2, AttachedKeeps
<1>3. CASE RootFails BY <1>2, <1>3 DEF RootFails, ioVars
<1>4. ASSUME NEW p \in Proc, Die(p) PROVE AttachmentsOk'
  <2>1. /\ pending[p] = "none" /\ pending' = [pending EXCEPT ![p] = "none"] /\ attached' = attached
    BY <1>4 DEF Die, Terminate, Fresh, ioVars
  <2>2. \A r \in Proc : state'[r] = "wait_child" => state[r] = "wait_child" BY <1>4, DieArms
  <2>3. pending' = pending BY <1>1, <2>1
  <2> QED BY <1>1, <2>1, <2>2, <2>3, AttachedKeeps
<1>5. ASSUME NEW p \in Proc, NEW q \in Proc, Fork(p, q) PROVE AttachmentsOk'
  <2>1. /\ state' = [state EXCEPT ![q] = "runnable"] /\ pending' = [pending EXCEPT ![q] = "none"]
        /\ attached' = attached /\ ~IsLive(q)
    BY <1>5 DEF Fork
  <2>2. pending[q] # "shell" BY <1>1, <2>1 DEF AttachmentsOk
  <2>3. \A r \in Proc : /\ pending'[r] = "shell" <=> pending[r] = "shell"
                        /\ state'[r] = "wait_child" => state[r] = "wait_child"
    BY <1>1, <2>1, <2>2 DEF IInv, TypeOK
  <2> QED BY <1>1, <2>1, <2>3, AttachedKeeps
<1>6. ASSUME NEW p \in Proc, NEW q \in Proc, NEW sender \in Proc, NEW receipt \in BOOLEAN,
             Send(p, q, sender, receipt)
      PROVE  AttachmentsOk'
  <2>1. pending' = pending /\ attached' = attached /\ WakeReceiver(q) BY <1>6 DEF Send, ioVars
  <2>2. \A r \in Proc : state'[r] \in {state[r], "runnable"}
    BY <2>1, QueueOfInv, Woken DEF WakeReceiver
  <2> QED BY <1>1, <2>1, <2>2, AttachedKeeps
<1>7. ASSUME NEW p \in Proc, NEW q \in Proc, SetMonitor(p, q) PROVE AttachmentsOk'
  BY <1>2, <1>7 DEF SetMonitor, queueVars, ioVars
<1>8. ASSUME NEW p \in Proc, NEW q \in Proc PROVE ~Kill(p, q) /\ ~Interrupt(p, q)
  BY DEF Kill, Interrupt, Fresh, Executes
<1> QED BY <1>3, <1>4, <1>5, <1>6, <1>7, <1>8, ShellAttaches, OthersAttach DEF ProcessStep

LEMMA NextWaits ==
  ASSUME ~Overtaken, Ops \cap {"kill", "interrupt"} = {}
  PROVE  IInv /\ WaitsWillEnd /\ [Next]_vars => WaitsWillEnd'
<1> SUFFICES ASSUME IInv, TimedWaitIsArmed, AttachmentsOk, [Next]_vars
             PROVE  TimedWaitIsArmed' /\ AttachmentsOk'
  BY DEF WaitsWillEnd
<1>1. NoDuplicates(attached) BY DEF IInv, ShellsOk
<1>2. CASE Housekeeping
  <2>1. pending' = pending /\ attached' = attached BY <1>2, HousekeepingLeaves DEF ioVars
  <2>2. \A r \in Proc : /\ state'[r] \in {state[r], "runnable", "dead"}
                        /\ alarm'[r] = alarm[r] \/ state'[r] = "runnable"
    BY <1>2, HousekeepingStates
  <2>3. TimedWaitIsArmed' BY <2>1, <2>2, ArmedKeeps DEF Timed
  <2>4. AttachmentsOk' BY <1>1, <2>1, <2>2, AttachedKeeps
  <2> QED BY <2>3, <2>4
<1>3. CASE World \/ Tickle \/ UNCHANGED vars
  <2>1. UNCHANGED << state, pending, attached >> /\ \A r \in Proc : alarm'[r] = "none" <=> alarm[r] = "none"
    BY <1>3, WorldLeaves DEF Tickle, vars, queueVars, timeVars, ioVars
  <2>2. TimedWaitIsArmed' BY <2>1 DEF TimedWaitIsArmed
  <2>3. AttachmentsOk' BY <1>1, <2>1, AttachedKeeps
  <2> QED BY <2>2, <2>3
<1> QED BY <1>2, <1>3, ProcessStepArms, ProcessStepAttaches DEF Next

(***************************************************************************)
(* A process that sleeps or receives with a time-out has an alarm that     *)
(* will wake it, and a process that waits for its child is attached to it, *)
(* once: no step of the signal handlers, of reset_timer or of another      *)
(* process takes away what a wait depends on.  Proved where no deadline    *)
(* passes while its alarm is being set, and for programs that neither kill *)
(* nor interrupt: ps_terminate takes off the alarm of a process some steps *)
(* before the process is dead.                                             *)
(***************************************************************************)
THEOREM WaitsEnd ==
  ASSUME ShellsApart, ~Overtaken, Ops \cap {"kill", "interrupt"} = {}
  PROVE  Spec => []WaitsWillEnd
<1>1. Init => WaitsWillEnd
  <2> SUFFICES ASSUME Init PROVE TimedWaitIsArmed /\ AttachmentsOk BY DEF WaitsWillEnd
  <2>1. TimedWaitIsArmed BY DEF Init, TimedWaitIsArmed
  <2>2. attached = << >> /\ Members(attached) = {} BY OneCall DEF Init
  <2>3. NoDuplicates(attached) BY <2>2 DEF NoDuplicates
  <2>4. \A p \in Proc : pending[p] = "none" /\ state[p] # "wait_child" BY DEF Init
  <2> QED BY <2>1, <2>2, <2>3, <2>4 DEF AttachmentsOk
<1>2. IInv /\ WaitsWillEnd /\ [Next]_vars => WaitsWillEnd' BY NextWaits
<1> QED BY <1>1, <1>2, InvariantHolds, PTL DEF Spec

(***************************************************************************)
(* The dead do not come back.                                              *)
(***************************************************************************)
NoAlarmOfDead == \A r \in Proc : ~IsLive(r) => alarm[r] = "none"
ResumesLive   == \A t \in Members(todo) : t.op = "resume" => IsLive(t.who)

\* What a step may do to r: leave it dead, or begin a new process in its record.
StaysAsItIs(r) ==
  /\ ~IsLive(r)' => alarm'[r] = "none" \/ (~IsLive(r) /\ alarm'[r] = alarm[r])
  /\ ~IsLive(r) => state'[r] \in {state[r], "dead"} \/ processno' # processno

\* The calls of a function that suspends or ends a process resume nobody, and those of
\* one that suspends end nobody.
ResumesNobody == \A t \in Members(todo') : t.op # "resume"
BuriesNobody  == \A t \in Members(todo') : t.op # "bury"

LEMMA ClosingCalls ==
  ASSUME NEW then, then = << >> \/ then = << Call("enter") >> \/ then = Pausing
  PROVE  then \in Seq(Task) /\ ClosingIsLast(then) /\ \A t \in Members(then) : Harmless(t) \/ Closing(t)
<1>1. Closing(Call("rotate")) /\ Closing(Call("enter")) BY DEF Closing, Call
<1> QED BY <1>1, OneCall, EnterCall, PausingCalls

LEMMA SuspendResumesNobody ==
  ASSUME NEW p \in Proc, NEW reason, NEW then, then = << Call("enter") >> \/ then = Pausing,
         Suspend(p, reason, then)
  PROVE  ResumesNobody /\ BuriesNobody
<1>1. Members(todo') = Members(Suspending) \cup Members(then)
  BY SuspendingCalls, ClosingCalls, CallsBefore DEF Suspend
<1> QED BY <1>1, SuspendingCalls, ClosingCalls DEF ResumesNobody, BuriesNobody, Harmless, Closing

LEMMA PauseResumesNobody == ASSUME todo' = Pausing PROVE ResumesNobody /\ BuriesNobody
BY ClosingCalls DEF ResumesNobody, BuriesNobody, Harmless, Closing

LEMMA TerminateResumesNobody ==
  ASSUME NEW q \in Proc, NEW then, then = << >> \/ then = << Call("enter") >> \/ then = Pausing,
         Terminate(q, then)
  PROVE  ResumesNobody
<1> DEFINE b == CallOn("bury", q)
           a == Call("await")
           c == Call("setCurrent")
<1>1. /\ a \in Task /\ b \in Task /\ c \in Task /\ ~Closing(a) /\ ~Closing(b) /\ ~Closing(c)
      /\ a.op # "resume" /\ b.op # "resume" /\ c.op # "resume"
  BY DEF Call, CallOn, Task, Tasks, Closing
<1>2. todo' = << a, c, b >> \o then \/ todo' = << b >> \o then BY DEF Terminate
<1> HIDE DEF a, b, c
<1>3. /\ Quiet(<< a, c, b >>) /\ Members(<< a, c, b >>) = {a, c, b}
      /\ Quiet(<< b >>) /\ Members(<< b >>) = {b}
  BY <1>1, ThreeCalls, OneCall
<1>4. Members(todo') \subseteq {a, c, b} \cup Members(then)
  <2>1. then \in Seq(Task) /\ ClosingIsLast(then) BY ClosingCalls
  <2>2. /\ Members(<< a, c, b >> \o then) = {a, c, b} \cup Members(then)
        /\ Members(<< b >> \o then) = {b} \cup Members(then)
    BY <2>1, <1>3, CallsBefore
  <2> QED BY <1>2, <2>2
<1> QED BY <1>1, <1>4, ClosingCalls DEF ResumesNobody, Harmless, Closing

\* ps_terminate: whose record was not in use stays so, and q has no alarm.
LEMMA TerminateStays ==
  ASSUME NEW q \in Proc, NEW then, IInv, IsLive(q), Terminate(q, then), NEW r \in Proc
  PROVE  StaysAsItIs(r)
<1> DEFINE stateT == IF ToldMonitor THEN [state EXCEPT ![monitor] = "runnable"] ELSE state
<1>1. /\ alarm' = [alarm EXCEPT ![q] = "none"]
      /\ state' = (IF stateT[q] = "runnable" THEN [stateT EXCEPT ![q] = "dead"] ELSE stateT)
  BY DEF Terminate, NoAlarmOf
<1>2. /\ monitor \in Proc \cup {NoProc} /\ state \in [Proc -> States]
      /\ alarm \in [Proc -> {"none", "set", "due"}]
  BY DEF IInv, TypeOK
<1>3. stateT \in [Proc -> States] /\ \A s \in Proc : \/ stateT[s] = state[s]
                                                     \/ state[s] = "wait_msg" /\ stateT[s] = "runnable"
  BY <1>2, SchedulerAssumption DEF ToldMonitor, States
<1> HIDE DEF stateT
<1>4. CASE r = q BY <1>1, <1>2, <1>4 DEF StaysAsItIs
<1>5. CASE r # q
  <2>1. alarm'[r] = alarm[r] /\ state'[r] = stateT[r] BY <1>1, <1>2, <1>3, <1>5
  <2> QED BY <1>3, <2>1 DEF StaysAsItIs, IsLive
<1> QED BY <1>4, <1>5

\* A process that executes stays alive, whatever it waits for.
LEMMA ExecutingStays ==
  ASSUME NEW p \in Proc, IInv, todo = << >>, exec = p,
         \/ state' = state
         \/ \E reason \in Waiting : \E then : Suspend(p, reason, then),
         \/ alarm' = alarm
         \/ \E a : alarm' = [alarm EXCEPT ![p] = a],
         NEW r \in Proc
  PROVE  StaysAsItIs(r)
<1>1. state[p] = "runnable" BY Executing
<1>2. state'[p] \in Waiting \cup {"runnable"} /\ \A s \in Proc : s # p => state'[s] = state[s]
  BY <1>1, SuspendedState
<1>3. r # p => alarm'[r] = alarm[r] BY DEF IInv, TypeOK
<1> QED BY <1>1, <1>2, <1>3 DEF StaysAsItIs, IsLive, Waiting

LEMMA ProcessStepStays ==
  ASSUME IInv, ProcessStep
  PROVE  /\ \A r \in Proc : StaysAsItIs(r)
         /\ ResumesLive'
<1> DEFINE Good == (\A r \in Proc : StaysAsItIs(r)) /\ ResumesLive'
<1> SUFFICES Good OBVIOUS
<1>1. ASSUME todo' = todo \/ ResumesNobody, \A r \in Proc : StaysAsItIs(r), todo = << >> PROVE Good
  <2>1. Members(<< >>) = {} BY OneCall
  <2> QED BY <1>1, <2>1 DEF ResumesNobody, ResumesLive
<1>2. ASSUME UNCHANGED << state, alarm >> PROVE \A r \in Proc : StaysAsItIs(r)
  BY <1>2 DEF StaysAsItIs, IsLive
<1> HIDE DEF Good
<1>3. CASE RootFails BY <1>1, <1>2, <1>3 DEF RootFails, Fresh, Executes, timeVars
<1>4. ASSUME NEW p \in Proc, Receive(p) \/ AwaitAny(p) \/ ReceiveUntil(p) \/ Sleep(p) \/ Delay(p) \/ FileIo(p) \/ Shell(p)
      PROVE  Good
  <2>1. todo = << >> /\ exec = p
    BY <1>4 DEF Receive, AwaitAny, ReceiveUntil, Sleep, Delay, FileIo, Shell, Escape, Fresh, Executes
  <2>2. \/ UNCHANGED << state, todo >>
        \/ \E reason \in Waiting : Suspend(p, reason, << Call("enter") >>) \/ Suspend(p, reason, Pausing)
    BY <1>4 DEF Receive, AwaitAny, ReceiveUntil, Sleep, Delay, FileIo, Shell, TakeMessage, UntilDeadline,
                SuspendFor, Waiting, queueVars
  <2>3. alarm' = alarm \/ \E a : alarm' = [alarm EXCEPT ![p] = a]
    BY <1>4 DEF Receive, AwaitAny, ReceiveUntil, Sleep, Delay, FileIo, Shell, TakeMessage, UntilDeadline,
                SetAlarm, AlarmOvertaken, timeVars
  <2>4. \A r \in Proc : StaysAsItIs(r) BY <2>1, <2>2, <2>3, ExecutingStays
  <2>5. todo' = todo \/ ResumesNobody BY <2>2, SuspendResumesNobody
  <2> QED BY <2>1, <2>4, <2>5, <1>1
<1>5. ASSUME NEW p \in Proc, NEW q \in Proc, NEW then,
             then = << >> \/ then = << Call("enter") >> \/ then = Pausing,
             IsLive(q), todo = << >>, Terminate(q, then)
      PROVE  Good
  BY <1>5, <1>1, TerminateStays, TerminateResumesNobody
<1>6. ASSUME NEW p \in Proc, Die(p) PROVE Good
  <2>1. todo = << >> /\ exec = p BY <1>6 DEF Die, Fresh, Executes
  <2> QED BY <1>5, <1>6, <2>1, Executing DEF Die
<1>7. ASSUME NEW p \in Proc, NEW q \in Proc, Kill(p, q) PROVE Good
  BY <1>5, <1>7 DEF Kill, Fresh, Executes
<1>8. ASSUME NEW p \in Proc, NEW q \in Proc, Fork(p, q) PROVE Good
  <2>1. processno' = processno + 1 /\ processno \in Nat /\ alarm' = alarm
        /\ state' = [state EXCEPT ![q] = "runnable"] /\ todo' = Pausing /\ todo = << >>
    BY <1>8 DEF Fork, Fresh, Executes, timeVars, IInv, TypeOK
  <2>2. processno' # processno BY <2>1
  <2>3. \A r \in Proc : StaysAsItIs(r) BY <2>1, <2>2 DEF StaysAsItIs, IsLive, IInv, TypeOK
  <2> QED BY <2>1, <2>3, <1>1, PauseResumesNobody
<1>9. ASSUME NEW p \in Proc, NEW q \in Proc, NEW sender \in Proc, NEW receipt \in BOOLEAN,
             Send(p, q, sender, receipt)
      PROVE  Good
  <2>1. alarm' = alarm /\ WakeReceiver(q) /\ todo' = Pausing /\ todo = << >>
    BY <1>9 DEF Send, timeVars, Fresh, Executes
  <2>2. \A r \in Proc : state'[r] = state[r] \/ (state[r] = "wait_msg" /\ state'[r] = "runnable")
    BY <2>1, QueueOfInv, Woken DEF WakeReceiver
  <2>3. \A r \in Proc : StaysAsItIs(r) BY <2>1, <2>2 DEF StaysAsItIs, IsLive
  <2> QED BY <2>1, <2>3, <1>1, PauseResumesNobody
<1>10. ASSUME NEW p \in Proc, NEW q \in Proc, SetMonitor(p, q) PROVE Good
  BY <1>1, <1>2, <1>10 DEF SetMonitor, Fresh, Executes, queueVars, timeVars
<1>11. ASSUME NEW p \in Proc, NEW q \in Proc, Interrupt(p, q) PROVE Good
  <2>1. todo = << >> /\ IsLive(q) BY <1>11 DEF Interrupt, Fresh, Executes
  <2>2. CASE Terminate(q, Pausing) BY <1>5, <2>1, <2>2
  <2>3. CASE UNCHANGED << state, alarm, todo >> BY <1>1, <1>2, <2>1, <2>3
  <2>4. CASE /\ todo' = (IF state[q] = "runnable" THEN << >> ELSE Resuming(q)) \o Pausing
             /\ UNCHANGED << state, alarm >>
    <3> DEFINE c == IF state[q] = "runnable" THEN << >> ELSE Resuming(q)
    <3>1. Quiet(c) /\ \A t \in Members(c) : Harmless(t) \/ t = CallOn("resume", q)
      BY OneCall, ResumingCalls
    <3>2. todo' = c \o Pausing BY <2>4
    <3> HIDE DEF c
    <3>3. Members(todo') = Members(c) \cup Members(Pausing)
      BY <3>1, <3>2, PausingCalls, CallsBefore
    <3>4. CallOn("resume", q).who = q /\ Call("rotate").op # "resume" BY DEF CallOn, Call
    <3>5. \A t \in Members(todo') : t.op = "resume" => t.who = q
      BY <3>1, <3>3, <3>4, PausingCalls DEF Harmless
    <3>6. ResumesLive' BY <2>1, <2>4, <3>5 DEF ResumesLive, IsLive
    <3> QED BY <1>2, <2>4, <3>6 DEF Good
  <2> QED BY <1>11, <2>2, <2>3, <2>4 DEF Interrupt, queueVars, timeVars
<1> QED BY <1>3, <1>4, <1>6, <1>7, <1>8, <1>9, <1>10, <1>11 DEF ProcessStep

LEMMA HousekeepingStays ==
  ASSUME IInv, NoAlarmOfDead, ResumesLive, Housekeeping
  PROVE  /\ \A r \in Proc : StaysAsItIs(r) /\ (~IsLive(r) => state'[r] \in {state[r], "dead"})
         /\ ResumesLive'
<1>1. todo # << >> /\ processno' = processno BY HousekeepingLeaves
<1>2. \A r \in Proc : MayWake(r) => IsLive(r)
  <2> SUFFICES ASSUME NEW r \in Proc, MayWake(r) PROVE IsLive(r) OBVIOUS
  <2>1. CASE alarm[r] = "due" BY <2>1 DEF NoAlarmOfDead
  <2>2. CASE state[r] = "wait_io" BY <2>2 DEF IsLive
  <2>3. CASE Head(todo).op = "resume" /\ Head(todo).who = r
    BY <1>1, <2>3, FirstCall DEF ResumesLive
  <2> QED BY <2>1, <2>2, <2>3 DEF MayWake
<1>3. \A r \in Proc : Buried(r) => alarm[r] = "none"
  BY <1>1, FirstCall DEF Buried, IInv, BuryOk
<1>4. ASSUME NEW r \in Proc
      PROVE  StaysAsItIs(r) /\ (~IsLive(r) => state'[r] \in {state[r], "dead"})
  <2>1. /\ \/ state'[r] = state[r]
           \/ state'[r] = "runnable" /\ IsLive(r)
           \/ state'[r] = "dead" /\ alarm[r] = "none"
        /\ alarm'[r] = alarm[r] \/ alarm'[r] = "none"
    BY <1>2, <1>3, HousekeepingStates
  <2> QED BY <2>1 DEF StaysAsItIs, IsLive
<1>5. ASSUME NEW t \in Members(todo'), t.op = "resume" PROVE IsLive(t.who)'
  <2>1. t \in Members(todo) \/ t.who \in Members(attached)
    BY <1>5, CallsThen DEF Harmless
  <2>2. t.who \in Proc /\ IsLive(t.who)
    <3>1. CASE t \in Members(todo) BY <1>5, <3>1 DEF ResumesLive, IInv, ResumeOk
    <3>2. CASE t.who \in Members(attached)
      <4>1. Members(attached) \subseteq Proc BY LenProperties DEF IInv, TypeOK, Members
      <4> QED BY <3>2, <4>1 DEF IInv, ShellsOk
    <3> QED BY <2>1, <3>1, <3>2
  <2>3. ~Buried(t.who)
    <3>1. CASE t \in Members(todo)
      BY <1>1, <1>5, <3>1, FirstCall DEF IInv, ResumeOk, Buried
    <3>2. CASE t.who \in Members(attached)
      BY <1>1, <3>2, FirstCall DEF IInv, BuryOk, Buried
    <3> QED BY <2>1, <3>1, <3>2
  <2> QED BY <2>2, <2>3, HousekeepingStates DEF IsLive
<1> QED BY <1>4, <1>5 DEF ResumesLive

LEMMA NextStays ==
  ASSUME IInv, NoAlarmOfDead, ResumesLive, [Next]_vars
  PROVE  /\ NoAlarmOfDead' /\ ResumesLive'
         /\ \A r \in Proc : ~IsLive(r) => state'[r] \in {state[r], "dead"} \/ processno' # processno
<1>1. CASE Housekeeping BY <1>1, HousekeepingStays DEF StaysAsItIs, NoAlarmOfDead
<1>2. CASE ProcessStep BY <1>2, ProcessStepStays DEF StaysAsItIs, NoAlarmOfDead
<1>3. CASE World \/ UNCHANGED vars
  <2>1. UNCHANGED << state, todo >> /\ \A r \in Proc : alarm'[r] = "none" <=> alarm[r] = "none"
    BY <1>3, WorldLeaves DEF vars, queueVars, timeVars
  <2> QED BY <2>1 DEF NoAlarmOfDead, ResumesLive, IsLive
<1>4. CASE Tickle
  <2>1. UNCHANGED << state, alarm >> /\ ResumesNobody
    BY <1>4, PauseResumesNobody DEF Tickle, queueVars, timeVars
  <2> QED BY <2>1 DEF NoAlarmOfDead, ResumesLive, ResumesNobody, IsLive
<1> QED BY <1>1, <1>2, <1>3, <1>4 DEF Next

(***************************************************************************)
(* A process that has ended does not come back: no alarm of it is left in  *)
(* time_q, no call that resumes it is under way when ps_terminate begins,  *)
(* and reset_timer, trigger_io and checkOutShells find others.  Only a     *)
(* fork gives its record to a process again.                               *)
(***************************************************************************)
THEOREM DeadStay == ASSUME ShellsApart PROVE Spec => DeadStaysDead
<1>1. Init => NoAlarmOfDead /\ ResumesLive
  <2> SUFFICES ASSUME Init PROVE NoAlarmOfDead /\ ResumesLive OBVIOUS
  <2>1. Members(todo) = {} BY OneCall DEF Init
  <2> QED BY <2>1 DEF Init, NoAlarmOfDead, ResumesLive
<1>2. IInv /\ NoAlarmOfDead /\ ResumesLive /\ [Next]_vars => NoAlarmOfDead' /\ ResumesLive'
  BY NextStays
<1>3. IInv /\ NoAlarmOfDead /\ ResumesLive /\ [Next]_vars
        => [\A p \in Proc : state[p] = "dead" /\ state'[p] # "dead" => processno' # processno]_vars
  BY NextStays DEF IsLive
<1> QED BY <1>1, <1>2, <1>3, InvariantHolds, PTL DEF Spec, DeadStaysDead

(***************************************************************************)
(* The count of live processes.  Its proof needs that ps_terminate is at   *)
(* work on one process at a time.                                          *)
(***************************************************************************)
OneBury(s) == \A i, j \in DOMAIN s : s[i].op = "bury" /\ s[j].op = "bury" => i = j
NoBury(s)  == \A t \in Members(s) : t.op # "bury"

LEMMA OneBuryConcat ==
  ASSUME NEW c \in Seq(Task), NEW s \in Seq(Task), OneBury(c), OneBury(s), NoBury(c) \/ NoBury(s)
  PROVE  OneBury(c \o s)
<1> DEFINE u == c \o s
           m == Len(c)
           n == Len(s)
<1>1. /\ u \in Seq(Task) /\ Len(u) = m + n /\ m \in Nat /\ n \in Nat
      /\ \A i \in 1..(m + n) : u[i] = IF i <= m THEN c[i] ELSE s[i - m]
  BY ConcatProperties, LenProperties
<1>2. DOMAIN u = 1..(m + n) /\ DOMAIN c = 1..m /\ DOMAIN s = 1..n BY <1>1, LenProperties
<1> HIDE DEF u, m, n
<1>3. ASSUME NEW i \in 1..(m + n)
      PROVE  \/ i <= m /\ i \in DOMAIN c /\ u[i] = c[i] /\ c[i] \in Members(c)
             \/ i > m /\ i - m \in DOMAIN s /\ u[i] = s[i - m] /\ s[i - m] \in Members(s)
  <2>1. CASE i <= m
    <3>1. i \in DOMAIN c /\ u[i] = c[i] BY <1>1, <1>2, <2>1
    <3> QED BY <2>1, <3>1 DEF Members
  <2>2. CASE ~(i <= m)
    <3>1. i > m /\ i - m \in DOMAIN s /\ u[i] = s[i - m] BY <1>1, <1>2, <2>2
    <3> QED BY <3>1 DEF Members
  <2> QED BY <2>1, <2>2
<1>4. ASSUME NEW i \in 1..(m + n), NEW j \in 1..(m + n), u[i].op = "bury", u[j].op = "bury"
      PROVE  i = j
  <2>1. CASE i <= m /\ j <= m BY <1>1, <1>3, <1>4, <2>1 DEF OneBury
  <2>2. CASE i > m /\ j > m
    <3>1. i - m = j - m BY <1>1, <1>3, <1>4, <2>2 DEF OneBury
    <3> QED BY <1>1, <3>1
  <2>3. CASE (i <= m /\ j > m) \/ (i > m /\ j <= m)
    <3>1. /\ ~(i <= m /\ i > m) /\ ~(j <= m /\ j > m) BY <1>1
    <3>2. ~NoBury(c) /\ ~NoBury(s) BY <1>3, <1>4, <2>3, <3>1, Zenon DEF NoBury
    <3> QED BY <3>2
  <2> QED BY <1>1, <2>1, <2>2, <2>3
<1> QED BY <1>2, <1>4 DEF OneBury, u

LEMMA OneBuryTail ==
  ASSUME NEW s \in Seq(Task), s # << >>, OneBury(s)
  PROVE  OneBury(Tail(s)) /\ (Head(s).op = "bury" => NoBury(Tail(s)))
<1> DEFINE r == Tail(s)
           n == Len(s)
<1>1. /\ r \in Seq(Task) /\ Len(r) = n - 1 /\ n \in Nat \ {0}
      /\ \A i \in 1..Len(r) : r[i] = s[i + 1]
  BY HeadTailProperties, LenProperties, EmptySeq
<1>2. DOMAIN r = 1..(n - 1) /\ DOMAIN s = 1..n /\ Head(s) = s[1] BY <1>1, LenProperties
<1> HIDE DEF r, n
<1>3. \A i \in 1..(n - 1) : i + 1 \in 1..n /\ i + 1 # 1 /\ r[i] = s[i + 1] /\ 1 \in 1..n BY <1>1
<1>4. OneBury(r)
  <2> SUFFICES ASSUME NEW i \in 1..(n - 1), NEW j \in 1..(n - 1), r[i].op = "bury", r[j].op = "bury"
               PROVE  i = j
    BY <1>2 DEF OneBury
  <2>1. i + 1 = j + 1 BY <1>2, <1>3 DEF OneBury
  <2> QED BY <2>1
<1>5. Head(s).op = "bury" => NoBury(r)
  <2> SUFFICES ASSUME Head(s).op = "bury", NEW i \in 1..(n - 1), r[i].op = "bury" PROVE FALSE
    BY <1>2 DEF NoBury, Members
  <2> QED BY <1>2, <1>3 DEF OneBury
<1> QED BY <1>4, <1>5 DEF r

LEMMA NoBuryIsOne == ASSUME NEW s, NoBury(s) PROVE OneBury(s)
BY DEF OneBury, NoBury, Members

\* A single call.
LEMMA OneBuryAlone == ASSUME NEW t \in Task PROVE OneBury(<< t >>)
<1> DEFINE s == << t >>
<1>1. s \in Seq(Task) /\ Len(s) = 1 OBVIOUS
<1> HIDE DEF s
<1>2. DOMAIN s = 1..1 BY <1>1, LenProperties
<1>3. OneBury(s) BY <1>2 DEF OneBury
<1> QED BY <1>3 DEF s

LEMMA HousekeepingBuries ==
  ASSUME IInv, OneBury(todo), Housekeeping
  PROVE  /\ OneBury(todo')
         /\ \A t \in Members(todo') : t.op = "bury" => t \in Members(todo) /\ Head(todo).op # "bury"
         /\ \A t \in Members(todo) : t.op = "bury" => t \in Members(todo') \/ (t = Head(todo) /\ Bury)
<1>1. todo # << >> /\ todo \in Seq(Task) BY HousekeepingLeaves DEF IInv, TypeOK
<1>2. /\ Tail(todo) \in Seq(Task) /\ ClosingIsLast(Tail(todo))
      /\ Members(todo) = {Head(todo)} \cup Members(Tail(todo))
  BY <1>1, FirstCall
<1>3. OneBury(Tail(todo)) /\ (Head(todo).op = "bury" => NoBury(Tail(todo))) BY <1>1, OneBuryTail
<1>4. CASE Head(todo).op = "timers" /\ todo' = todo
  BY <1>2, <1>4
<1>5. ASSUME NEW c, Replaces(c)
      PROVE  /\ OneBury(todo')
             /\ \A t \in Members(todo') : t.op = "bury" => t \in Members(Tail(todo))
             /\ Members(Tail(todo)) \subseteq Members(todo')
  <2>1. NoBury(c) /\ c \in Seq(Task) BY <1>5 DEF Replaces, NoBury, Harmless, Quiet
  <2>2. OneBury(todo') BY <1>2, <1>3, <1>5, <2>1, NoBuryIsOne, OneBuryConcat DEF Replaces
  <2>3. Members(todo') = Members(c) \cup Members(Tail(todo)) BY <1>2, <1>5, CallsBefore DEF Replaces
  <2> QED BY <2>1, <2>2, <2>3 DEF NoBury
<1>6. Head(todo).op = "bury" => Bury
  BY DEF Housekeeping, NextIs, Children, Wake, Timers, CheckIo, Trigger, Resume, Await, Poll,
         Recheck, Select, SetCurrent, Enter, Turn
<1>7. CASE \E c : Replaces(c) BY <1>2, <1>3, <1>5, <1>6, <1>7 DEF NoBury
<1> QED BY <1>4, <1>7, HousekeepingCalls

\* Who is being ended, and who counts.
LEMMA EndingIs == \A x : x \in Ending <=> \E t \in Members(todo) : t.op = "bury" /\ t.who = x
BY DEF Ending, Members

Counted == {p \in Proc : IsLive(p)} \cup Ending

LEMMA CountedIsFinite == IInv => Counted \subseteq Proc /\ IsFiniteSet(Counted)
<1> SUFFICES ASSUME IInv PROVE Counted \subseteq Proc /\ IsFiniteSet(Counted) OBVIOUS
<1>1. Ending \subseteq Proc BY EndingIs DEF IInv, BuryOk
<1>2. Counted \subseteq Proc BY <1>1 DEF Counted
<1> QED BY <1>2, FS_Subset, SchedulerAssumption

LEMMA SameCount ==
  ASSUME LiveCountOk, live' = live, Counted' = Counted
  PROVE  LiveCountOk'
BY DEF LiveCountOk, Counted

\* A step of the emulator that ends nobody: who lives, lives.
LEMMA NobodyEnds ==
  ASSUME LiveCountOk, live' = live, todo = << >>, NoBury(todo'),
         \A r \in Proc : IsLive(r)' <=> IsLive(r)
  PROVE  LiveCountOk'
<1>1. Ending = {} /\ Ending' = {} BY EndingIs, OneCall DEF NoBury, Ending, Members
<1> QED BY <1>1, SameCount DEF Counted

LEMMA HousekeepingCounts ==
  ASSUME IInv, NoAlarmOfDead, ResumesLive, OneBury(todo), LiveCountOk, Housekeeping
  PROVE  LiveCountOk'
<1>1. todo # << >> BY HousekeepingLeaves
<1>2. \A r \in Proc : ~IsLive(r) => ~IsLive(r)' BY HousekeepingStays DEF IsLive
<1>3. CASE ~Bury
  <2>1. live' = live
    BY <1>3 DEF Housekeeping, Children, Wake, Timers, CheckIo, Trigger, Resume, Await, Poll, Recheck,
                Select, SetCurrent, Enter, Turn, queueVars
  <2>2. \A t : t.op = "bury" => (t \in Members(todo') <=> t \in Members(todo))
    BY <1>3, HousekeepingBuries
  <2>3. Ending' = Ending BY <2>2 DEF Ending, Members
  <2>4. \A r \in Proc : ~Buried(r)
    BY <1>3 DEF Buried, Housekeeping, NextIs, Children, Wake, Timers, CheckIo, Trigger, Resume, Await,
                Poll, Recheck, Select, SetCurrent, Enter, Turn
  <2>5. \A r \in Proc : IsLive(r) => IsLive(r)' BY <2>4, HousekeepingStates DEF IsLive
  <2>6. Counted' = Counted BY <1>2, <2>3, <2>5 DEF Counted
  <2> QED BY <2>1, <2>6, SameCount
<1>4. CASE Bury
  <2> DEFINE p == Head(todo).who
  <2>1. /\ Head(todo).op = "bury" /\ Head(todo) \in Members(todo) /\ p \in Proc
        /\ live' = live - 1 /\ state' = [state EXCEPT ![p] = "dead"]
    BY <1>1, <1>4, FirstCall DEF Bury, NextIs, CountWithout, IInv, BuryOk
  <2>2. \A t \in Members(todo') : t.op # "bury" BY <2>1, HousekeepingBuries
  <2>3. Ending' = {} BY <2>2 DEF Ending, Members
  <2>4. Ending = {p}
    <3>1. NoBury(Tail(todo)) BY <1>1, <2>1, OneBuryTail DEF IInv, TypeOK
    <3>2. \A t \in Members(todo) : t.op = "bury" => t = Head(todo)
      BY <1>1, <3>1, FirstCall DEF NoBury
    <3> QED BY <2>1, <3>2, EndingIs
  <2> HIDE DEF p
  <2>5. \A r \in Proc : IsLive(r)' <=> IsLive(r) /\ r # p
    BY <2>1 DEF IInv, TypeOK, IsLive
  <2>6. Counted' = Counted \ {p} /\ p \in Counted BY <2>1, <2>3, <2>4, <2>5 DEF Counted
  <2>7. IsFiniteSet(Counted) BY CountedIsFinite
  <2>8. Cardinality(Counted') = Cardinality(Counted) - 1 BY <2>6, <2>7, FS_RemoveElement
  <2>9. live = Cardinality(Counted) BY DEF LiveCountOk, Counted
  <2>10. live' = Cardinality(Counted') BY <2>1, <2>8, <2>9
  <2> QED BY <2>10 DEF LiveCountOk, Counted
<1> QED BY <1>3, <1>4

LEMMA TerminateCounts ==
  ASSUME NEW q \in Proc, NEW then, then = << >> \/ then = << Call("enter") >> \/ then = Pausing,
         IInv, IsLive(q), todo = << >>, LiveCountOk, Terminate(q, then)
  PROVE  LiveCountOk' /\ OneBury(todo')
<1> DEFINE stateT == IF ToldMonitor THEN [state EXCEPT ![monitor] = "runnable"] ELSE state
           b == CallOn("bury", q)
           a == Call("await")
           c == Call("setCurrent")
<1>1. /\ a \in Task /\ b \in Task /\ c \in Task /\ ~Closing(a) /\ ~Closing(b) /\ ~Closing(c)
      /\ a.op # "bury" /\ c.op # "bury" /\ b.op = "bury" /\ b.who = q
  BY DEF Call, CallOn, Task, Tasks, Closing
<1>2. /\ state' = (IF stateT[q] = "runnable" THEN [stateT EXCEPT ![q] = "dead"] ELSE stateT)
      /\ todo' = << a, c, b >> \o then \/ todo' = << b >> \o then
      /\ live' = live
  BY DEF Terminate
<1>3. monitor \in Proc \cup {NoProc} /\ state \in [Proc -> States] BY DEF IInv, TypeOK
<1>4. /\ stateT \in [Proc -> States]
      /\ \A s \in Proc : \/ stateT[s] = state[s]
                         \/ state[s] = "wait_msg" /\ stateT[s] = "runnable"
  BY <1>3, SchedulerAssumption DEF ToldMonitor, States
<1> HIDE DEF stateT, a, b, c
<1>5. \A r \in Proc : r # q => (IsLive(r)' <=> IsLive(r))
  <2> SUFFICES ASSUME NEW r \in Proc, r # q PROVE IsLive(r)' <=> IsLive(r) OBVIOUS
  <2>1. state'[r] = stateT[r] BY <1>2, <1>4
  <2> QED BY <1>4, <2>1 DEF IsLive
<1>6. /\ then \in Seq(Task) /\ ClosingIsLast(then) /\ NoBury(then)
  BY ClosingCalls DEF NoBury, Harmless, Closing
<1>7. /\ Quiet(<< a, c, b >>) /\ Members(<< a, c, b >>) = {a, c, b}
      /\ Quiet(<< b >>) /\ Members(<< b >>) = {b}
      /\ Quiet(<< a, c >>) /\ Members(<< a, c >>) = {a, c}
  BY <1>1, TwoCalls, ThreeCalls, OneCall
<1>8. OneBury(<< b >>) /\ OneBury(<< a, c, b >>)
  <2>1. << a, c, b >> = << a, c >> \o << b >> OBVIOUS
  <2>2. NoBury(<< a, c >>) /\ OneBury(<< b >>) /\ << a, c >> \in Seq(Task) /\ << b >> \in Seq(Task)
    BY <1>1, <1>7, OneBuryAlone DEF NoBury, Quiet
  <2>3. OneBury(<< a, c >> \o << b >>) BY <2>2, NoBuryIsOne, OneBuryConcat
  <2> QED BY <2>1, <2>2, <2>3
<1>9. OneBury(todo')
  <2>1. << a, c, b >> \in Seq(Task) /\ << b >> \in Seq(Task) BY <1>7 DEF Quiet
  <2>2. OneBury(then) BY <1>6, NoBuryIsOne
  <2>3. OneBury(<< a, c, b >> \o then) /\ OneBury(<< b >> \o then)
    BY <2>1, <2>2, <1>6, <1>8, OneBuryConcat
  <2> QED BY <1>2, <2>3
<1>10. \A t \in Members(todo') : t.op = "bury" => t = b
  <2>1. /\ Members(<< a, c, b >> \o then) = {a, c, b} \cup Members(then)
        /\ Members(<< b >> \o then) = {b} \cup Members(then)
    BY <1>6, <1>7, CallsBefore
  <2> QED BY <1>1, <1>2, <1>6, <2>1 DEF NoBury
<1>11. b \in Members(todo')
  <2>1. /\ Members(<< a, c, b >> \o then) = {a, c, b} \cup Members(then)
        /\ Members(<< b >> \o then) = {b} \cup Members(then)
    BY <1>6, <1>7, CallsBefore
  <2> QED BY <1>2, <2>1
<1>12. Ending' = {q}
  <2>1. \A x : x \in Ending' <=> \E t \in Members(todo') : t.op = "bury" /\ t.who = x
    BY DEF Ending, Members
  <2> QED BY <1>1, <1>10, <1>11, <2>1
<1>13. Ending = {} BY EndingIs, OneCall
<1>14. Counted' = Counted BY <1>5, <1>12, <1>13 DEF Counted
<1> QED BY <1>2, <1>9, <1>14, SameCount

LEMMA ForkCounts ==
  ASSUME NEW p \in Proc, NEW q \in Proc, IInv, LiveCountOk, Fork(p, q)
  PROVE  LiveCountOk'
<1>1. /\ todo = << >> /\ live' = live + 1 /\ state' = [state EXCEPT ![q] = "runnable"]
      /\ todo' = Pausing /\ ~IsLive(q)
  BY DEF Fork, Fresh, Executes
<1>2. Ending = {} /\ Ending' = {}
  BY <1>1, EndingIs, OneCall, PauseResumesNobody DEF BuriesNobody, Ending, Members
<1>3. \A r \in Proc : IsLive(r)' <=> IsLive(r) \/ r = q BY <1>1 DEF IsLive, IInv, TypeOK
<1>4. Counted' = Counted \cup {q} /\ q \notin Counted BY <1>1, <1>2, <1>3 DEF Counted
<1>5. Cardinality(Counted') = Cardinality(Counted) + 1 BY <1>4, CountedIsFinite, FS_AddElement
<1>6. live = Cardinality(Counted) BY DEF LiveCountOk, Counted
<1>7. live' = Cardinality(Counted') BY <1>1, <1>5, <1>6
<1> QED BY <1>7 DEF LiveCountOk, Counted

LEMMA ProcessStepCounts ==
  ASSUME IInv, LiveCountOk, ProcessStep
  PROVE  LiveCountOk' /\ OneBury(todo')
<1> DEFINE Good == LiveCountOk' /\ OneBury(todo')
<1> SUFFICES Good OBVIOUS
<1>1. ASSUME live' = live, todo = << >>, todo' = todo \/ BuriesNobody, \A r \in Proc : IsLive(r)' <=> IsLive(r)
      PROVE  Good
  <2>1. NoBury(todo') BY <1>1, OneCall DEF NoBury, BuriesNobody
  <2> QED BY <1>1, <2>1, NobodyEnds, NoBuryIsOne
<1> HIDE DEF Good
<1>2. CASE RootFails BY <1>1, <1>2 DEF RootFails, Fresh, Executes, IsLive
<1>3. ASSUME NEW p \in Proc, Receive(p) \/ AwaitAny(p) \/ ReceiveUntil(p) \/ Sleep(p) \/ Delay(p) \/ FileIo(p) \/ Shell(p)
      PROVE  Good
  <2>1. todo = << >> /\ exec = p
    BY <1>3 DEF Receive, AwaitAny, ReceiveUntil, Sleep, Delay, FileIo, Shell, Escape, Fresh, Executes
  <2>2. \/ UNCHANGED << state, todo, live >>
        \/ \E reason \in Waiting : Suspend(p, reason, << Call("enter") >>) \/ Suspend(p, reason, Pausing)
    BY <1>3 DEF Receive, AwaitAny, ReceiveUntil, Sleep, Delay, FileIo, Shell, TakeMessage, UntilDeadline,
                SuspendFor, Waiting, queueVars
  <2>3. CASE UNCHANGED << state, todo, live >> BY <1>1, <2>1, <2>3 DEF IsLive
  <2>4. ASSUME NEW reason \in Waiting, NEW then, then = << Call("enter") >> \/ then = Pausing,
               Suspend(p, reason, then)
        PROVE  Good
    <3>1. BuriesNobody /\ live' = live BY <2>4, SuspendResumesNobody DEF Suspend
    <3>2. state[p] = "runnable" /\ state'[p] = reason /\ \A r \in Proc : r # p => state'[r] = state[r]
      BY <2>1, <2>4, Executing, SuspendedState
    <3>3. \A r \in Proc : IsLive(r)' <=> IsLive(r) BY <3>2 DEF IsLive, Waiting
    <3> QED BY <1>1, <2>1, <3>1, <3>3
  <2> QED BY <2>2, <2>3, <2>4
<1>4. ASSUME NEW p \in Proc, Die(p) PROVE Good
  <2>1. todo = << >> /\ exec = p BY <1>4 DEF Die, Fresh, Executes
  <2>2. IsLive(p) BY <2>1, Executing
  <2> QED BY <1>4, <2>1, <2>2, TerminateCounts DEF Die, Good
<1>5. ASSUME NEW p \in Proc, NEW q \in Proc, Kill(p, q) PROVE Good
  BY <1>5, TerminateCounts DEF Kill, Fresh, Executes, Good
<1>6. ASSUME NEW p \in Proc, NEW q \in Proc, Fork(p, q) PROVE Good
  <2>1. BuriesNobody BY <1>6, PauseResumesNobody DEF Fork
  <2>2. OneBury(todo') BY <2>1, NoBuryIsOne DEF BuriesNobody, NoBury
  <2> QED BY <1>6, <2>2, ForkCounts DEF Good
<1>7. ASSUME NEW p \in Proc, NEW q \in Proc, NEW sender \in Proc, NEW receipt \in BOOLEAN,
             Send(p, q, sender, receipt)
      PROVE  Good
  <2>1. live' = live /\ WakeReceiver(q) /\ todo = << >> /\ BuriesNobody
    BY <1>7, PauseResumesNobody DEF Send, Fresh, Executes
  <2>2. \A r \in Proc : state'[r] = state[r] \/ (state[r] = "wait_msg" /\ state'[r] = "runnable")
    BY <2>1, QueueOfInv, Woken DEF WakeReceiver
  <2> QED BY <1>1, <2>1, <2>2 DEF IsLive
<1>8. ASSUME NEW p \in Proc, NEW q \in Proc, SetMonitor(p, q) PROVE Good
  BY <1>1, <1>8 DEF SetMonitor, Fresh, Executes, queueVars, IsLive
<1>9. ASSUME NEW p \in Proc, NEW q \in Proc, Interrupt(p, q) PROVE Good
  <2>1. todo = << >> /\ IsLive(q) BY <1>9 DEF Interrupt, Fresh, Executes
  <2>2. CASE Terminate(q, Pausing) BY <2>1, <2>2, TerminateCounts DEF Good
  <2>3. CASE UNCHANGED << state, live, todo >> BY <1>1, <2>1, <2>3 DEF IsLive
  <2>4. CASE /\ todo' = (IF state[q] = "runnable" THEN << >> ELSE Resuming(q)) \o Pausing
             /\ UNCHANGED << state, live >>
    <3> DEFINE c == IF state[q] = "runnable" THEN << >> ELSE Resuming(q)
    <3>1. Quiet(c) /\ \A t \in Members(c) : Harmless(t) \/ t = CallOn("resume", q)
      BY OneCall, ResumingCalls
    <3>2. todo' = c \o Pausing BY <2>4
    <3> HIDE DEF c
    <3>3. Members(todo') = Members(c) \cup Members(Pausing)
      BY <3>1, <3>2, PausingCalls, CallsBefore
    <3>4. CallOn("resume", q).op # "bury" /\ Call("rotate").op # "bury" BY DEF CallOn, Call
    <3>5. BuriesNobody BY <3>1, <3>3, <3>4, PausingCalls DEF Harmless, BuriesNobody
    <3> QED BY <1>1, <2>1, <2>4, <3>5 DEF IsLive
  <2> QED BY <1>9, <2>2, <2>3, <2>4 DEF Interrupt, queueVars
<1> QED BY <1>2, <1>3, <1>4, <1>5, <1>6, <1>7, <1>8, <1>9 DEF ProcessStep

LEMMA NextCounts ==
  ASSUME IInv, NoAlarmOfDead, ResumesLive, OneBury(todo), LiveCountOk, [Next]_vars
  PROVE  OneBury(todo)' /\ LiveCountOk'
<1>1. CASE Housekeeping BY <1>1, HousekeepingBuries, HousekeepingCounts
<1>2. CASE ProcessStep BY <1>2, ProcessStepCounts
<1>3. CASE World \/ UNCHANGED vars
  <2>1. UNCHANGED << state, todo, live >> BY <1>3, WorldLeaves DEF vars, queueVars
  <2>2. Counted' = Counted BY <2>1 DEF Counted, Ending, IsLive
  <2> QED BY <2>1, <2>2, SameCount
<1>4. CASE Tickle
  <2>1. UNCHANGED << state, live >> /\ todo = << >> /\ NoBury(todo')
    BY <1>4, PauseResumesNobody DEF Tickle, queueVars, BuriesNobody, NoBury
  <2> QED BY <2>1, NobodyEnds, NoBuryIsOne DEF IsLive
<1> QED BY <1>1, <1>2, <1>3, <1>4 DEF Next

(***************************************************************************)
(* LiveProcesses is the number of live processes, for any size of the      *)
(* process pool: fork_process and ps_terminate are the only ones to change *)
(* it, and however many processes are woken, resumed or killed between the *)
(* beginning and the end of ps_terminate, the process that is being ended  *)
(* is taken off once.  What wait_for_event and the run-time monitor        *)
(* conclude from the count (nobody left, all of them waiting) is right.    *)
(***************************************************************************)
THEOREM LiveCountCorrect == ASSUME ShellsApart PROVE Spec => []LiveCountOk
<1> DEFINE Inv == NoAlarmOfDead /\ ResumesLive /\ OneBury(todo) /\ LiveCountOk
<1>1. Init => Inv
  <2> SUFFICES ASSUME Init PROVE Inv OBVIOUS
  <2>1. Members(todo) = {} BY OneCall DEF Init
  <2>2. NoBury(todo) BY <2>1 DEF NoBury
  <2>3. Ending = {} BY <2>1, EndingIs
  <2>4. {p \in Proc : IsLive(p)} = {Root} BY SchedulerAssumption DEF Init, IsLive
  <2>5. Cardinality({Root}) = 1 BY FS_Singleton
  <2>6. LiveCountOk BY <2>3, <2>4, <2>5 DEF Init, LiveCountOk
  <2> QED BY <2>1, <2>2, <2>6, NoBuryIsOne DEF Init, NoAlarmOfDead, ResumesLive
<1>2. IInv /\ Inv /\ [Next]_vars => Inv' BY NextStays, NextCounts
<1>3. Inv => LiveCountOk OBVIOUS
<1> HIDE DEF Inv
<1> QED BY <1>1, <1>2, <1>3, InvariantHolds, PTL DEF Spec
=============================================================================
