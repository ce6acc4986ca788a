-------------------------- MODULE SchedulerLiveness --------------------------
(***************************************************************************)
(* What the scheduler must do in the end, and under which fairness.  The   *)
(* emulator looks at wakeywakey only at an allocv, a return and an escape. *)
(* A process need never reach one: a `while' is a test, a body and a jmp   *)
(* back (compstmt.c), and neither jmp nor moves and arithmetic look.  So a *)
(* process that is executing may be in a loop here, as long as it likes:   *)
(* its `pending' is then "loop".  The promises are made for programs whose *)
(* loops without a call all end.                                           *)
(*                                                                         *)
(* Programs gives each process the escapes that its program has, so that   *)
(* the processes can play different parts.  Programs that end processes    *)
(* are left to the safety checks.                                          *)
(***************************************************************************)
EXTENDS Scheduler

CONSTANT Programs

ASSUME ProgramsAssumption ==
  Programs \in [Proc -> SUBSET (Ops \cap {"fork", "send", "receive", "sleep", "io"})]

\* The escapes in the programs of the processes; no receipts are asked for.
Doing(op) == {p \in Proc : op \in Programs[p]}

Escapes ==
  \/ \E p \in Doing("receive") : Receive(p)
  \/ \E p \in Doing("sleep") : Sleep(p)
  \/ \E p \in Doing("io") : FileIo(p)
  \/ \E p \in Doing("fork"), q \in Proc : Fork(p, q)
  \/ \E p \in Doing("send"), q \in Proc : Send(p, q, p, FALSE)

Looping == exec # NoProc /\ pending[exec] = "loop"

Loops(to, then) ==
  /\ pending' = [pending EXCEPT ![exec] = to]
  /\ todo' = then
  /\ UNCHANGED << queueVars, mailVars, timeVars, ioVars, sigVars, procVars >>

\* Instructions that do not look at the flag, jmp among them,
EnterLoop ==
  /\ todo = << >> /\ exec # NoProc /\ pending[exec] = "none"
  /\ Loops("loop", << >>)

\* until the first that does: tickle.
LeaveLoop ==
  /\ Looping
  /\ Loops("none", IF wakeywakey THEN Pausing ELSE << >>)

LiveNext == EnterLoop \/ LeaveLoop \/ Tickle \/ Escapes \/ Housekeeping \/ World

(***************************************************************************)
(* Fairness.  The C thread goes on with the calls it has begun; select()   *)
(* returns only when something has happened.  The CPU timer is re-armed by *)
(* its own handler, so ticks keep coming while processes execute.  A       *)
(* process that is not in a loop comes to an instruction that looks at the *)
(* flag, and one that resumes executes the escape it left pending.         *)
(* Nothing is assumed of loops, of what else programs do, nor of files and *)
(* deadlines.                                                              *)
(***************************************************************************)
Retry == exec # NoProc /\ pending[exec] \in Retried /\ Escapes

FairSpec == /\ Init /\ [][LiveNext]_vars
            /\ WF_vars(Housekeeping) /\ WF_vars(Tick)
            /\ WF_vars(Tickle) /\ WF_vars(Retry)
-----------------------------------------------------------------------------
\* Every loop without a call, a return or an escape ends.
LoopsEnd == []<>~Looping

\* Alarms do not go off for ever.
AlarmsCease == <>[](\A p \in Proc : alarm[p] # "due")

(***************************************************************************)
(* No runnable process is passed over for ever, although those that are    *)
(* woken by a message or just forked go second in the queue, ahead of it,  *)
(* again and again.  Two processes whose alarms keep going off at once,    *)
(* each while the other executes, can starve a third: AlarmsCease.         *)
(***************************************************************************)
NoStarvation == LoopsEnd /\ AlarmsCease =>
  \A p \in Proc : state[p] = "runnable" ~> (exec = p \/ state[p] # "runnable")

(***************************************************************************)
(* An alarm whose time has come goes off, whether others execute and make  *)
(* no escape, or all of them wait in select().                             *)
(***************************************************************************)
DueAlarmGoesOff == LoopsEnd =>
  \A p \in Proc : alarm[p] = "due" ~> alarm[p] # "due"

(***************************************************************************)
(* A process that waits for a file is resumed when the file is ready, also *)
(* when no SIGIO says so.                                                  *)
(***************************************************************************)
ReadyFileResumes == LoopsEnd =>
  \A p \in Proc : (state[p] = "wait_io" /\ p \in ready) ~> state[p] # "wait_io"
=============================================================================
