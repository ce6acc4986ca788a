------------------------------ MODULE Scheduler ------------------------------
(***************************************************************************)
(* The process scheduler of the April engine (April/Engine/schedule.c,     *)
(* process.c, and the wake-up side of msg.c, clock.c, fileio.c and         *)
(* utility.c).  One C thread runs every April process in turn.  `exec' is  *)
(* the register P of the emulator; the global current_process is           *)
(* `current' and the two are not always the same.                          *)
(*                                                                         *)
(* A C function that suspends, resumes or ends a process calls others,     *)
(* and signals arrive between any two of them.  `todo' is what the C       *)
(* thread still has to do, innermost call first, before the emulator       *)
(* executes again; it is empty while the emulator executes.  All processes *)
(* draw on rootClicks here, which never run out (ClickCounters.tla has     *)
(* the others); message options and contents are in Mailbox.tla.           *)
(***************************************************************************)
EXTENDS RunQueueOps, FiniteSets

CONSTANTS Proc,         \* the process records of proc_pool
          Root,         \* rootProcess
          NoProc,       \* NULL
          Ops,          \* what the April programs do: a subset of AllOps
          Overtaken,    \* may a deadline pass while its alarm is being set?
          MaxFork,      \* bound on processno
          MaxInbox      \* bound on the messages one process is sent

AllOps == {"fork", "send", "receive", "timeout", "any", "sleep", "delay", "io",
           "shell", "die", "fail", "kill", "interrupt", "monitor"}

ASSUME SchedulerAssumption ==
  /\ IsFiniteSet(Proc)
  /\ Root \in Proc
  /\ NoProc \notin Proc
  /\ Ops \subseteq AllOps
  /\ Overtaken \in BOOLEAN
  /\ MaxFork \in Nat
  /\ MaxInbox \in Nat

VARIABLES
  state,        \* p->state of each record; "free" until first allocated
  runQ,         \* the run queue, run_q first
  current,      \* current_process
  exec,         \* the process whose code the emulator executes
  live,         \* LiveProcesses
  creator,      \* the process whose handle p->creator still names
  monitor,      \* monitorH
  unseen,       \* messages of p behind the mark of its current receive
  seen,         \* messages before it: looked at and put back
  pending,      \* the escape that p executes again when it resumes (pc--)
  alarm,        \* p's entry in time_q: "none", "set", or "due"
  expired,      \* has the deadline of p's pending escape passed?
  ready,        \* processes whose file can be read or written
  child,        \* p's child process: "none", "running" or "exited"
  attached,     \* the shell attachments, newest first
  wakeywakey, childDone,    \* set by signal handlers
  interrupted,  \* did a signal arrive during select()?
  processno,    \* number of processes ever forked
  todo          \* calls the C thread has yet to make

queueVars == << state, runQ, current, exec, live >>
mailVars  == << unseen, seen >>
timeVars  == << alarm, expired >>
ioVars    == << ready, child, attached >>
sigVars   == << wakeywakey, childDone, interrupted >>
procVars  == << creator, monitor, processno >>
vars == << queueVars, mailVars, timeVars, ioVars, sigVars, procVars, pending, todo >>

States  == {"free", "runnable", "wait_io", "wait_msg", "wait_timer", "wait_child", "dead"}
Waiting == {"wait_io", "wait_msg", "wait_timer", "wait_child"}
Retried == {"receive", "timeout", "any", "sleep", "io", "shell"}
Tasks   == {"children", "wake", "wakeTimers", "timers", "checkIo", "triggerIo", "resume",
            "await", "poll", "recheck", "select", "setCurrent", "enter", "rotate", "bury"}

Task == [op : Tasks, who : Proc \cup {NoProc}, set : SUBSET Proc]

TypeOK ==
  /\ state \in [Proc -> States]
  /\ runQ \in Seq(Proc)
  /\ current \in Proc \cup {NoProc}
  /\ exec \in Proc \cup {NoProc}
  /\ live \in Int
  /\ creator \in [Proc -> Proc \cup {NoProc}]
  /\ monitor \in Proc \cup {NoProc}
  /\ unseen \in [Proc -> Nat]
  /\ seen \in [Proc -> Nat]
  /\ pending \in [Proc -> Retried \cup {"none"}]
  /\ alarm \in [Proc -> {"none", "set", "due"}]
  /\ expired \in [Proc -> BOOLEAN]
  /\ ready \subseteq Proc
  /\ child \in [Proc -> {"none", "running", "exited"}]
  /\ attached \in Seq(Proc)
  /\ wakeywakey \in BOOLEAN /\ childDone \in BOOLEAN /\ interrupted \in BOOLEAN
  /\ processno \in Nat
  /\ todo \in Seq(Task)

IsLive(p) == state[p] \notin {"free", "dead"}

\* bootstrap: the root process is alone and running, and its own creator.
Init ==
  /\ state = [p \in Proc |-> IF p = Root THEN "runnable" ELSE "free"]
  /\ runQ = << Root >> /\ current = Root /\ exec = Root
  /\ live = 1
  /\ creator = [p \in Proc |-> IF p = Root THEN Root ELSE NoProc]
  /\ monitor = NoProc
  /\ unseen = [p \in Proc |-> 0] /\ seen = [p \in Proc |-> 0]
  /\ pending = [p \in Proc |-> "none"]
  /\ alarm = [p \in Proc |-> "none"]
  /\ expired = [p \in Proc |-> FALSE]
  /\ ready = {}
  /\ child = [p \in Proc |-> "none"]
  /\ attached = << >>
  /\ wakeywakey = FALSE /\ childDone = FALSE /\ interrupted = FALSE
  /\ processno = 0
  /\ todo = << >>
-----------------------------------------------------------------------------
(***************************************************************************)
(* The calls, in the order the functions make them.                        *)
(***************************************************************************)
Call(op)      == [op |-> op, who |-> NoProc, set |-> {}]
CallOn(op, p) == [op |-> op, who |-> p, set |-> {}]
TriggerIo(S)  == [op |-> "triggerIo", who |-> NoProc, set |-> S]

\* How ps_suspend, ps_resume and ps_pause begin.
CheckSignals == << Call("children"), Call("wake") >>

\* ps_pause(P), the emulator's answer to Switch and to a tickle.
\* A slip: without the turn.
PausingNoTurn == CheckSignals
Pausing == CheckSignals \o << Call("rotate") >>

(***************************************************************************)
(* ps_suspend after the process has left the queue: remove_from_run_q      *)
(* waits if the queue became empty.  (The second such test of ps_suspend   *)
(* cannot find it empty again.)                                            *)
(***************************************************************************)
Suspending == << Call("await"), Call("setCurrent") >> \o CheckSignals
                \o << Call("setCurrent") >>

Resuming(p) == CheckSignals \o << CallOn("resume", p) >>

\* checkOutShells: every attached process is resumed.
ResumeAll(q) == [i \in 1..(3 * Len(q)) |->
                   CASE i % 3 = 1 -> Call("children")
                     [] i % 3 = 2 -> Call("wake")
                     [] i % 3 = 0 -> CallOn("resume", q[i \div 3])]

NextIs(op) == todo # << >> /\ Head(todo).op = op
Continue   == todo' = Tail(todo)
InsteadDo(calls) == todo' = calls \o Tail(todo)

\* A slip: a process that is runnable already is put in the queue again.
MakeRunnableAgain(p, front) ==
  /\ state' = [state EXCEPT ![p] = "runnable"]
  /\ runQ' = IF front THEN AddFront(runQ, p) ELSE AddBack(runQ, p)

(***************************************************************************)
(* add_to_run_q on a process that is not runnable.                         *)
(***************************************************************************)
MakeRunnable(p, front) ==
  IF state[p] = "runnable"
    THEN UNCHANGED << state, runQ >>
    ELSE /\ state' = [state EXCEPT ![p] = "runnable"]
         /\ runQ' = IF front THEN AddFront(runQ, p) ELSE AddBack(runQ, p)

\* The first process of the queue, or NULL.
FirstInQ == IF runQ = << >> THEN NoProc ELSE Head(runQ)
-----------------------------------------------------------------------------
(***************************************************************************)
(* The C thread between two instructions of the emulator.                  *)
(***************************************************************************)

\* if(childDone) checkOutShells();
Children ==
  /\ NextIs("children")
  /\ childDone' = FALSE
  /\ IF childDone THEN InsteadDo(ResumeAll(attached)) ELSE Continue
  /\ UNCHANGED << queueVars, mailVars, timeVars, ioVars, wakeywakey, interrupted,
                  procVars, pending >>

\* A slip: a signal is taken for one of a file.
WhenWokenFilesOnly == << Call("checkIo") >>
WhenWoken == << Call("timers"), Call("checkIo") >>

\* if(wakeywakey){ wakeywakey = False; reset_timer(); checkOutIo(); }
Wake ==
  /\ NextIs("wake") \/ NextIs("wakeTimers")
  /\ wakeywakey' = FALSE
  /\ IF ~wakeywakey THEN Continue
     ELSE InsteadDo(IF NextIs("wake") THEN WhenWoken ELSE << Call("timers") >>)
  /\ UNCHANGED << queueVars, mailVars, timeVars, ioVars, childDone, interrupted,
                  procVars, pending >>

\* time_q without the entry of p.  A slip: without all that have timed out.
WithoutDueEntries(p) == [q \in Proc |-> IF alarm[q] = "due" THEN "none" ELSE alarm[q]]
WithoutEntry(p) == [alarm EXCEPT ![p] = "none"]

\* reset_timer: one entry of time_q that has timed out, or none is left.
Timers ==
  /\ NextIs("timers")
  /\ \/ \E p \in Proc :
          /\ alarm[p] = "due"
          /\ alarm' = WithoutEntry(p)
          /\ wakeywakey' = FALSE
          /\ MakeRunnable(p, TRUE)
          /\ UNCHANGED todo
     \/ /\ \A p \in Proc : alarm[p] # "due"
        /\ Continue
        /\ UNCHANGED << alarm, wakeywakey, state, runQ >>
  /\ UNCHANGED << current, exec, live, mailVars, expired, ioVars, childDone, interrupted,
                  procVars, pending >>

\* The processes that a select() finds something for.  A slip: those not waiting for it.
IoWaitersInverted == {p \in ready : state[p] # "wait_io"}
IoWaiters == {p \in ready : state[p] = "wait_io"}

\* checkOutIo: a select() that does not wait.
CheckIo ==
  /\ NextIs("checkIo")
  /\ InsteadDo(<< TriggerIo(IoWaiters) >>)
  /\ UNCHANGED << queueVars, mailVars, timeVars, ioVars, sigVars, procVars, pending >>

\* trigger_io: the processes found, in any order of their files.
Trigger ==
  /\ NextIs("triggerIo")
  /\ IF Head(todo).set = {} THEN Continue /\ UNCHANGED << state, runQ >>
     ELSE \E p \in Head(todo).set :
            /\ InsteadDo(<< TriggerIo(Head(todo).set \ {p}) >>)
            /\ IF state[p] = "wait_io" THEN MakeRunnable(p, FALSE)
                                       ELSE UNCHANGED << state, runQ >>
  /\ UNCHANGED << current, exec, live, mailVars, timeVars, ioVars, sigVars, procVars,
                  pending >>

\* ps_resume after its checks: the process goes behind the others.
Resume ==
  /\ NextIs("resume")
  /\ LET p == Head(todo).who IN
       /\ MakeRunnable(p, FALSE)
       /\ current' = IF state[p] = "runnable" \/ runQ = << >> THEN p ELSE Head(runQ)
  /\ Continue
  /\ UNCHANGED << exec, live, mailVars, timeVars, ioVars, sigVars, procVars, pending >>

\* if(run_q==NULL && LiveProcesses>0) wait_for_event();
Await ==
  /\ NextIs("await")
  /\ IF runQ = << >> /\ live > 0 THEN InsteadDo(<< Call("poll") >>) ELSE Continue
  /\ UNCHANGED << queueVars, mailVars, timeVars, ioVars, sigVars, procVars, pending >>

\* The loop of wait_for_event: what it does before it may block,
Poll ==
  /\ NextIs("poll")
  /\ IF runQ # << >> THEN Continue
     ELSE InsteadDo(CheckSignals \o << Call("recheck") >>)
  /\ UNCHANGED << queueVars, mailVars, timeVars, ioVars, sigVars, procVars, pending >>

\* the test of run_q and the call of select,
Recheck ==
  /\ NextIs("recheck")
  /\ interrupted' = FALSE
  /\ IF runQ # << >> THEN Continue ELSE InsteadDo(<< Call("select") >>)
  /\ UNCHANGED << queueVars, mailVars, timeVars, ioVars, wakeywakey, childDone, procVars,
                  pending >>

\* and its return: for files, which it looks at first, at nextTimeOut() of the first
\* alarm, or for a signal.
Select ==
  /\ NextIs("select")
  /\ \/ /\ IoWaiters # {}
        /\ InsteadDo(<< Call("children"), TriggerIo(IoWaiters), Call("wakeTimers"),
                        Call("poll") >>)
        /\ UNCHANGED wakeywakey
     \/ /\ IoWaiters = {}
        /\ \/ (\E p \in Proc : alarm[p] = "due") /\ wakeywakey' = TRUE
           \/ interrupted /\ UNCHANGED wakeywakey
        /\ InsteadDo(<< Call("children"), Call("wakeTimers"), Call("poll") >>)
  /\ interrupted' = FALSE
  /\ UNCHANGED << queueVars, mailVars, timeVars, ioVars, childDone, procVars, pending >>

\* current_process = run_q;
SetCurrent ==
  /\ NextIs("setCurrent")
  /\ current' = FirstInQ
  /\ Continue
  /\ UNCHANGED << state, runQ, exec, live, mailVars, timeVars, ioVars, sigVars, procVars,
                  pending >>

\* The emulator takes over the process that the function returned.
Enter ==
  /\ NextIs("enter")
  /\ exec' = current
  /\ Continue
  /\ UNCHANGED << state, runQ, current, live, mailVars, timeVars, ioVars, sigVars,
                  procVars, pending >>

\* The rest of ps_pause: the next process gets its turn and the emulator enters it.
Turn ==
  /\ NextIs("rotate")
  /\ runQ' = Rotate(runQ)
  /\ current' = IF runQ = << >> THEN NoProc ELSE Head(Rotate(runQ))
  /\ exec' = current'
  /\ Continue
  /\ UNCHANGED << state, live, mailVars, timeVars, ioVars, sigVars, procVars, pending >>

\* LiveProcesses--, and the slip of leaving it out.
CountKept == live
CountWithout == live - 1

\* The rest of ps_terminate: the record goes back to the pool, its handle names nothing.
Bury ==
  /\ NextIs("bury")
  /\ LET p == Head(todo).who IN
       /\ state' = [state EXCEPT ![p] = "dead"]
       /\ creator' = [q \in Proc |-> IF creator[q] = p THEN NoProc ELSE creator[q]]
  /\ live' = CountWithout
  /\ InsteadDo(<< Call("wakeTimers") >>)
  /\ UNCHANGED << runQ, current, exec, mailVars, timeVars, ioVars, sigVars, monitor,
                  processno, pending >>

Housekeeping == \/ Children \/ Wake \/ Timers \/ CheckIo \/ Trigger \/ Resume
                \/ Await \/ Poll \/ Recheck \/ Select
                \/ SetCurrent \/ Enter \/ Turn \/ Bury
-----------------------------------------------------------------------------
(***************************************************************************)
(* The emulator executes process p: one escape or instruction each.        *)
(* An escape that waits leaves itself `pending' and is executed again      *)
(* first thing when p resumes.                                             *)
(***************************************************************************)
Executes(p, op) == todo = << >> /\ exec = p /\ op \in Ops
Fresh(p, op)    == Executes(p, op) /\ pending[p] = "none"
Escape(p, op)   == Executes(p, op) /\ pending[p] \in {"none", op}

Suspend(p, reason, then) ==
  /\ state' = [state EXCEPT ![p] = reason]
  /\ runQ' = Remove(runQ, p)
  /\ todo' = Suspending \o then
  /\ UNCHANGED << current, exec, live >>

\* The escape returns Suspend: the emulator continues with current_process.
SuspendFor(p, reason) == Suspend(p, reason, << Call("enter") >>)

\* tickle: the pause of a process that calls, returns or escapes after a signal.
Tickle ==
  /\ todo = << >> /\ exec # NoProc /\ pending[exec] = "none"
  /\ wakeywakey
  /\ todo' = Pausing
  /\ UNCHANGED << queueVars, mailVars, timeVars, ioVars, sigVars, procVars, pending >>

(***************************************************************************)
(* m_fork and m_fork2: the new process goes second in the queue and the    *)
(* pause enters it.                                                        *)
(***************************************************************************)
Fork(p, q) ==
  /\ Fresh(p, "fork")
  /\ ~IsLive(q) /\ processno < MaxFork
  /\ processno' = processno + 1
  /\ live' = live + 1
  /\ creator' = [creator EXCEPT ![q] = p]
  /\ unseen' = [unseen EXCEPT ![q] = 0] /\ seen' = [seen EXCEPT ![q] = 0]
  /\ child' = [child EXCEPT ![q] = "none"]
  /\ pending' = [pending EXCEPT ![q] = "none"]
  /\ state' = [state EXCEPT ![q] = "runnable"]
  /\ runQ' = AddFront(runQ, q)
  /\ current' = q
  /\ todo' = Pausing
  /\ UNCHANGED << exec, timeVars, ready, attached, sigVars, monitor >>

\* LocalMsg: the message is appended; a process that waits for one is made runnable.
WakeReceiver(q) ==
  IF state[q] = "wait_msg" THEN MakeRunnable(q, TRUE) ELSE UNCHANGED << state, runQ >>

(***************************************************************************)
(* A message from p to q, for q or, when q is its mailer, for a process    *)
(* elsewhere.  The sender is p (snd) or current_process (m_send); when a   *)
(* receipt is asked for it gets one at once, and needs no waking since it  *)
(* is executing.                                                           *)
(***************************************************************************)
Send(p, q, sender, receipt) ==
  /\ Fresh(p, "send")
  /\ IsLive(q) /\ sender \in {p, current}
  /\ unseen[q] + seen[q] < MaxInbox
  /\ receipt => unseen[sender] + seen[sender] < MaxInbox
  /\ unseen' = [r \in Proc |-> unseen[r] + (IF r = q THEN 1 ELSE 0)
                                         + (IF receipt /\ r = sender THEN 1 ELSE 0)]
  /\ WakeReceiver(q)
  /\ todo' = Pausing
  /\ UNCHANGED << current, exec, live, seen, timeVars, ioVars, sigVars, procVars, pending >>

\* A slip: the empty queue is not noticed.
TakeMessageUnchecked(p) ==
  /\ unseen' = [unseen EXCEPT ![p] = @ - 1]
  /\ pending' = [pending EXCEPT ![p] = "none"]
  /\ UNCHANGED << queueVars, alarm, seen, ioVars, sigVars, procVars, todo >>

(***************************************************************************)
(* m_nextmsg, m_waitmsg: the next message behind the mark.  The receive    *)
(* ends with it, or puts it back before the mark (m_replacemsg) and goes   *)
(* on.                                                                     *)
(***************************************************************************)
TakeMessage(p) ==
  /\ unseen[p] > 0
  /\ \/ /\ unseen' = [unseen EXCEPT ![p] = @ - 1 + seen[p]]
        /\ seen' = [seen EXCEPT ![p] = 0]
     \/ /\ unseen' = [unseen EXCEPT ![p] = @ - 1]
        /\ seen' = [seen EXCEPT ![p] = @ + 1]
  /\ pending' = [pending EXCEPT ![p] = "none"]
  /\ UNCHANGED << queueVars, alarm, ioVars, sigVars, procVars, todo >>

Receive(p) ==
  /\ Escape(p, "receive")
  /\ \/ TakeMessage(p) /\ UNCHANGED expired
     \/ /\ unseen[p] = 0
        /\ pending' = [pending EXCEPT ![p] = "receive"]
        /\ SuspendFor(p, "wait_msg")
        /\ UNCHANGED << mailVars, timeVars, ioVars, sigVars, procVars >>

\* m_wait_msg: wait until there is a message, looked at or not.
AwaitAny(p) ==
  /\ Escape(p, "any")
  /\ IF unseen[p] + seen[p] > 0
       THEN /\ pending' = [pending EXCEPT ![p] = "none"]
            /\ UNCHANGED << queueVars, todo >>
       ELSE /\ pending' = [pending EXCEPT ![p] = "any"]
            /\ SuspendFor(p, "wait_msg")
  /\ UNCHANGED << mailVars, timeVars, ioVars, sigVars, procVars >>

(***************************************************************************)
(* set_alarm, set_timer: p's one entry in time_q is replaced.  If the new  *)
(* entry is the first, reset_timer runs at once: when the deadline has     *)
(* passed by then, the alarm goes off while p is still runnable.           *)
(***************************************************************************)
SetAlarm(p) ==
  /\ expired' = [expired EXCEPT ![p] = FALSE]
  /\ alarm' = [alarm EXCEPT ![p] = "set"]
  /\ UNCHANGED sigVars

AlarmOvertaken(p) ==
  /\ Overtaken /\ \A q \in Proc \ {p} : alarm[q] # "due"
  /\ expired' = [expired EXCEPT ![p] = TRUE]
  /\ alarm' = [alarm EXCEPT ![p] = "none"]
  /\ wakeywakey' = FALSE
  /\ UNCHANGED << childDone, interrupted >>

(***************************************************************************)
(* An escape with an absolute deadline.  The deadline of a fresh one may   *)
(* have passed before it is first executed.                                *)
(***************************************************************************)
UntilDeadline(p, op, reason) ==
  \/ /\ pending[p] = "none" \/ expired[p]
     /\ pending' = [pending EXCEPT ![p] = "none"]
     /\ expired' = [expired EXCEPT ![p] = FALSE]
     /\ UNCHANGED << queueVars, todo, alarm, sigVars >>
  \/ /\ ~expired[p]
     /\ pending' = [pending EXCEPT ![p] = op]
     /\ SetAlarm(p) \/ AlarmOvertaken(p)
     /\ SuspendFor(p, reason)

\* m_waitmsg
ReceiveUntil(p) ==
  /\ Escape(p, "timeout")
  /\ \/ TakeMessage(p) /\ expired' = [expired EXCEPT ![p] = FALSE]
     \/ /\ unseen[p] = 0
        /\ UntilDeadline(p, "timeout", "wait_msg")
        /\ UNCHANGED << mailVars, ioVars, procVars >>

\* m_sleep
Sleep(p) ==
  /\ Escape(p, "sleep")
  /\ UntilDeadline(p, "sleep", "wait_timer")
  /\ UNCHANGED << mailVars, ioVars, procVars >>

\* m_delay, which is not executed again; its alarm is a millisecond away at least.
Delay(p) ==
  /\ Fresh(p, "delay")
  /\ alarm' = [alarm EXCEPT ![p] = "set"]
  /\ SuspendFor(p, "wait_timer")
  /\ UNCHANGED << expired, mailVars, ioVars, sigVars, procVars, pending >>

(***************************************************************************)
(* A read or write: done when the file is ready, else the process is       *)
(* attached to the file and waits (attachProcessToFile).                   *)
(***************************************************************************)
FileIo(p) ==
  /\ Escape(p, "io")
  /\ IF p \in ready
       THEN /\ ready' = ready \ {p}
            /\ pending' = [pending EXCEPT ![p] = "none"]
            /\ UNCHANGED << queueVars, todo >>
       ELSE /\ pending' = [pending EXCEPT ![p] = "io"]
            /\ SuspendFor(p, "wait_io")
            /\ UNCHANGED ready
  /\ UNCHANGED << mailVars, timeVars, child, attached, sigVars, procVars >>

(***************************************************************************)
(* attachProcessToShell, detachProcessFromShell.  A slip: the process is   *)
(* attached at every trial.                                                *)
(***************************************************************************)
AttachedAgain(p) == << p >> \o attached
Attached(p) == IF p \in Members(attached) THEN attached ELSE << p >> \o attached

Detached(p) ==
  IF p \notin Members(attached) THEN attached
  ELSE LET i == PlaceOf(attached, p)
       IN  SubSeq(attached, 1, i - 1) \o SubSeq(attached, i + 1, Len(attached))

(***************************************************************************)
(* m_shell: start a child and wait for it.  It suspends the process AND    *)
(* answers Switch, so that the emulator pauses once more before it enters  *)
(* a process.                                                              *)
(***************************************************************************)
Shell(p) ==
  /\ Escape(p, "shell")
  /\ IF child[p] = "exited"
       THEN /\ child' = [child EXCEPT ![p] = "none"]
            /\ attached' = Detached(p)
            /\ pending' = [pending EXCEPT ![p] = "none"]
            /\ UNCHANGED << queueVars, todo >>
       ELSE /\ child' = [child EXCEPT ![p] = "running"]
            /\ attached' = Attached(p)
            /\ pending' = [pending EXCEPT ![p] = "shell"]
            /\ Suspend(p, "wait_child", Pausing)
  /\ UNCHANGED << ready, mailVars, timeVars, sigVars, procVars >>

(***************************************************************************)
(* ps_terminate(q): timers and messages go, the monitor is told, a         *)
(* runnable process leaves the queue -- which waits for an event when it   *)
(* was the last in it -- and the record is freed.                          *)
(***************************************************************************)
\* flush_from_time_q, and the slip of leaving it out.
AlarmOf(q) == alarm
NoAlarmOf(q) == [alarm EXCEPT ![q] = "none"]

\* Is the monitor made runnable by its message?  Slips: whatever it does, or only when it
\* has put no message back.
ToldWhateverItDoes == monitor # NoProc
ToldWhenFresh == monitor # NoProc /\ state[monitor] = "wait_msg" /\ seen[monitor] = 0
ToldMonitor == monitor # NoProc /\ state[monitor] = "wait_msg"

Terminate(q, then) ==
  LET stateT == IF ToldMonitor THEN [state EXCEPT ![monitor] = "runnable"] ELSE state
      runQT  == IF ToldMonitor THEN AddFront(runQ, monitor) ELSE runQ
      mail   == [unseen EXCEPT ![q] = 0]
  IN  /\ alarm' = NoAlarmOf(q)
      /\ expired' = [expired EXCEPT ![q] = FALSE]
      /\ unseen' = IF monitor = NoProc THEN mail ELSE [mail EXCEPT ![monitor] = @ + 1]
      /\ seen' = [seen EXCEPT ![q] = 0]
      /\ IF stateT[q] = "runnable"
           THEN /\ state' = [stateT EXCEPT ![q] = "dead"]
                /\ runQ' = Remove(runQT, q)
                /\ todo' = << Call("await"), Call("setCurrent"), CallOn("bury", q) >> \o then
           ELSE /\ state' = stateT /\ runQ' = runQT
                /\ todo' = << CallOn("bury", q) >> \o then
      /\ pending' = [pending EXCEPT ![q] = "none"]
      /\ UNCHANGED << current, exec, live, ioVars, sigVars, procVars >>

\* A slip: the emulator goes on with the process that died.
DieAndGoOn(p) == Fresh(p, "die") /\ Terminate(p, << >>)

\* die, or a run-time error that no handler of the process catches.
Die(p) == Fresh(p, "die") /\ Terminate(p, << Call("enter") >>)

\* A run-time error of the root process ends the engine.
RootFails ==
  /\ Fresh(Root, "fail")
  /\ exec' = NoProc
  /\ UNCHANGED << state, runQ, current, live, mailVars, timeVars, ioVars, sigVars, procVars,
                  pending, todo >>

\* m_kill: only the monitor, or a process whose creator is q, may kill q.
Kill(p, q) ==
  /\ Fresh(p, "kill")
  /\ IsLive(q) /\ q # p
  /\ p = monitor \/ creator[p] = q
  /\ Terminate(q, << >>)

(***************************************************************************)
(* m_interrupt of another process: its error handler takes over, or it     *)
(* ends, and the engine with it when it is the root.                       *)
(***************************************************************************)
Interrupt(p, q) ==
  /\ Fresh(p, "interrupt")
  /\ IsLive(q) /\ q # p
  /\ \/ /\ pending' = [pending EXCEPT ![q] = "none"]
        /\ expired' = [expired EXCEPT ![q] = FALSE]
        /\ todo' = (IF state[q] = "runnable" THEN << >> ELSE Resuming(q)) \o Pausing
        /\ UNCHANGED << queueVars, mailVars, alarm, ioVars, sigVars, procVars >>
     \/ /\ q # Root
        /\ Terminate(q, Pausing)
     \/ /\ q = Root
        /\ exec' = NoProc
        /\ UNCHANGED << state, runQ, current, live, mailVars, timeVars, ioVars, sigVars,
                        procVars, pending, todo >>

\* m_set_monitor
SetMonitor(p, q) ==
  /\ Fresh(p, "monitor")
  /\ IsLive(q) /\ monitor # q
  /\ monitor' = q
  /\ UNCHANGED << queueVars, mailVars, timeVars, ioVars, sigVars, creator, processno,
                  pending, todo >>

ProcessStep ==
  \/ RootFails
  \/ \E p \in Proc :
       \/ Receive(p) \/ AwaitAny(p) \/ ReceiveUntil(p)
       \/ Sleep(p) \/ Delay(p) \/ FileIo(p) \/ Shell(p) \/ Die(p)
       \/ \E q \in Proc :
            \/ Fork(p, q) \/ Kill(p, q) \/ Interrupt(p, q) \/ SetMonitor(p, q)
            \/ \E sender \in Proc, receipt \in BOOLEAN : Send(p, q, sender, receipt)
-----------------------------------------------------------------------------
(***************************************************************************)
(* The world around the engine: signals arrive between any two steps.      *)
(***************************************************************************)
InWait == \E i \in DOMAIN todo : todo[i].op \in {"poll", "recheck", "select"}

\* What a handler does to a select() in progress.
InterruptSelect == interrupted' = (interrupted \/ NextIs("select"))

\* SIGVTALRM, blocked in wait_for_event (stopTicks).
Tick ==
  /\ ~InWait /\ ~wakeywakey
  /\ wakeywakey' = TRUE
  /\ UNCHANGED << queueVars, mailVars, timeVars, ioVars, childDone, interrupted, procVars,
                  pending, todo >>

\* The deadline of an alarm passes, and SIGALRM says so.
AlarmDue(p) ==
  /\ alarm[p] = "set"
  /\ alarm' = [alarm EXCEPT ![p] = "due"]
  /\ expired' = [expired EXCEPT ![p] = pending[p] \in {"timeout", "sleep"}]
  /\ wakeywakey' = TRUE
  /\ InterruptSelect
  /\ UNCHANGED << queueVars, mailVars, ioVars, childDone, procVars, pending, todo >>

\* A file that a process waits for is ready; SIGIO may say so.
FileReady(p) ==
  /\ pending[p] = "io" /\ p \notin ready
  /\ ready' = ready \cup {p}
  /\ \/ wakeywakey' = TRUE /\ InterruptSelect
     \/ UNCHANGED << wakeywakey, interrupted >>
  /\ UNCHANGED << queueVars, mailVars, timeVars, child, attached, childDone, procVars,
                  pending, todo >>

\* A child process ends: SIGCHLD.
ChildExits(p) ==
  /\ child[p] = "running"
  /\ child' = [child EXCEPT ![p] = "exited"]
  /\ childDone' = TRUE
  /\ InterruptSelect
  /\ UNCHANGED << queueVars, mailVars, timeVars, ready, attached, wakeywakey, procVars,
                  pending, todo >>

World == Tick \/ \E p \in Proc : AlarmDue(p) \/ FileReady(p) \/ ChildExits(p)

Next == Housekeeping \/ Tickle \/ ProcessStep \/ World

Spec == Init /\ [][Next]_vars
-----------------------------------------------------------------------------
(***************************************************************************)
(* Safety.                                                                 *)
(***************************************************************************)

(***************************************************************************)
(* The run queue holds every runnable process once and no other: the two   *)
(* complaints of verifyRunQ are never printed.                             *)
(***************************************************************************)
RunQueueOk ==
  /\ NoDuplicates(runQ)
  /\ Members(runQ) = {p \in Proc : state[p] = "runnable"}

\* Processes that ps_terminate has begun with and not yet taken off the count.
Ending == {todo[i].who : i \in {j \in DOMAIN todo : todo[j].op = "bury"}}

(***************************************************************************)
(* LiveProcesses is the number of live processes, also while one of them   *)
(* is being ended.                                                         *)
(***************************************************************************)
LiveCountOk == live = Cardinality({p \in Proc : IsLive(p)} \cup Ending)

(***************************************************************************)
(* The emulator only ever executes a process that is runnable, so never    *)
(* one whose record and stack ps_terminate has freed.                      *)
(***************************************************************************)
ExecutesRunnable == todo = << >> /\ exec # NoProc => state[exec] = "runnable"

(***************************************************************************)
(* current_process is "the currently executing process" of its             *)
(* declaration whenever the emulator executes, as the assertion at the     *)
(* head of ps_suspend demands.                                             *)
(***************************************************************************)
CurrentIsExecuting == todo = << >> /\ exec # NoProc => current = exec

(***************************************************************************)
(* No message wake-up is lost: a process that waits for a message has none *)
(* that it has not looked at, however sends, signals and time-outs met its *)
(* suspension.                                                             *)
(***************************************************************************)
NoMessageMissed ==
  \A p \in Proc : state[p] = "wait_msg" =>
     /\ unseen[p] = 0
     /\ pending[p] = "any" => seen[p] = 0

(***************************************************************************)
(* A process that sleeps, or receives with a time-out, has an alarm in the *)
(* queue that will wake it.                                                *)
(***************************************************************************)
TimedWaitIsArmed ==
  \A p \in Proc : state[p] = "wait_timer" \/ (state[p] = "wait_msg" /\ pending[p] = "timeout")
                    => alarm[p] # "none"

(***************************************************************************)
(* The shell attachments are the processes that wait for their child, or   *)
(* are about to look for it again, each once: checkOutShells resumes       *)
(* whatever process it finds there, without a look at its state.           *)
(***************************************************************************)
AttachmentsOk ==
  /\ NoDuplicates(attached)
  /\ Members(attached) = {p \in Proc : pending[p] = "shell"}
  /\ \A p \in Proc : state[p] = "wait_child" => pending[p] = "shell"

(***************************************************************************)
(* What a process waits for will find it: its alarm, or its attachment to  *)
(* its child.  (sleep_msg and m_delay of msg.c and clock.c, utility.c.)    *)
(***************************************************************************)
WaitsWillEnd == TimedWaitIsArmed /\ AttachmentsOk

(***************************************************************************)
(* A process that has ended does not come back: only a fork gives its      *)
(* record to a process again.                                              *)
(***************************************************************************)
DeadStaysDead ==
  [][\A p \in Proc : state[p] = "dead" /\ state'[p] # "dead" => processno' # processno]_vars
-----------------------------------------------------------------------------
(***************************************************************************)
(* The inductive invariant behind RunQueueOk (SchedulerProofs.tla).  The   *)
(* calls of `todo' are what it is about: what each of them finds when its  *)
(* turn comes.                                                             *)
(***************************************************************************)

\* The calls that choose what the emulator executes; nothing comes after one.
Closing(t) == t.op \in {"enter", "rotate"}
ClosingIsLast(calls) == \A i \in DOMAIN calls : Closing(calls[i]) => i = Len(calls)

\* What the emulator executes is runnable, or will be chosen again.
ExecOk == exec # NoProc =>
  state[exec] = "runnable" \/ \E t \in Members(todo) : Closing(t)

CurrentOk == current # NoProc =>
  state[current] = "runnable" \/ \E t \in Members(todo) : t.op \in {"setCurrent", "rotate"}

\* A process that is being ended is not runnable, and nothing will make it so.
BuryOk == \A t \in Members(todo) : t.op = "bury" =>
  /\ t.who \in Proc /\ state[t.who] # "runnable"
  /\ alarm[t.who] = "none" /\ t.who \notin Members(attached)
  /\ state[t.who] = "dead" \/ t = Head(todo)

ResumeOk == \A t \in Members(todo) : t.op = "resume" =>
  /\ t.who \in Proc
  /\ \A u \in Members(todo) : u.op = "bury" => u.who # t.who

\* Only processes in m_shell are attached, each once.
ShellsOk ==
  /\ NoDuplicates(attached)
  /\ \A p \in Members(attached) : pending[p] = "shell" /\ IsLive(p)
  /\ "shell" \notin Ops => attached = << >>

IInv == /\ TypeOK /\ RunQueueOk /\ ClosingIsLast(todo) /\ ExecOk /\ CurrentOk
        /\ BuryOk /\ ResumeOk /\ ShellsOk

(***************************************************************************)
(* A process killed or interrupted in m_shell stays attached, and          *)
(* checkOutShells revives it: programs that do both are set aside.         *)
(***************************************************************************)
ShellsApart == "shell" \in Ops => Ops \cap {"kill", "interrupt"} = {}
=============================================================================
