--------------------------- MODULE SchedulerProofs ---------------------------
(***************************************************************************)
(* The run queue of Scheduler is right in every state: the proof of the    *)
(* inductive invariant IInv, and what follows from it.  Programs that both *)
(* run shell commands and kill or interrupt processes are set aside        *)
(* (ShellsApart); for them the run queue does go wrong.                    *)
(***************************************************************************)
EXTENDS Scheduler, RunQueueLemmas

(***************************************************************************)
(* Sequences of calls.                                                     *)
(***************************************************************************)
Quiet(calls) == calls \in Seq(Task) /\ \A t \in Members(calls) : ~Closing(t)

\* A call is a task.
LEMMA CallIsTask == \A op \in Tasks, p \in Proc : Call(op) \in Task /\ CallOn(op, p) \in Task
  BY DEF Call, CallOn, Task

\* What is left after the first call.
LEMMA TailOfCalls ==
  ASSUME NEW s \in Seq(Task), s # << >>, ClosingIsLast(s)
  PROVE  /\ Head(s) \in Task /\ Tail(s) \in Seq(Task) /\ ClosingIsLast(Tail(s))
         /\ Members(s) = {Head(s)} \cup Members(Tail(s))
         /\ Closing(Head(s)) => Members(Tail(s)) = {}
<1> DEFINE r == Tail(s)
<1>1. /\ r \in Seq(Task) /\ Len(r) = Len(s) - 1 /\ Len(s) \in Nat \ {0}
      /\ \A i \in 1..Len(r) : r[i] = s[i + 1]
  BY HeadTailProperties, LenProperties, EmptySeq
<1>2. DOMAIN r = 1..Len(r) /\ DOMAIN s = 1..Len(s) BY <1>1, LenProperties
<1>5. Head(s) = s[1] OBVIOUS
<1> HIDE DEF r
<1>6. Len(s) \in Nat \ {0} /\ Len(r) = Len(s) - 1 BY <1>1
<1>7. \A i \in 1..Len(r) : r[i] = s[i + 1] BY <1>1
<1>8. \A i \in 1..Len(s) : Closing(s[i]) => i = Len(s) BY <1>2, Zenon DEF ClosingIsLast
<1>3. ClosingIsLast(r)
  <2> SUFFICES ASSUME NEW i \in 1..Len(r), Closing(r[i]) PROVE i = Len(r)
    BY <1>2, Zenon DEF ClosingIsLast
  <2>1. i + 1 \in 1..Len(s) BY <1>6
  <2>2. Closing(s[i + 1]) BY <1>7, Zenon
  <2>3. i + 1 = Len(s) BY <2>1, <2>2, <1>8, Zenon
  <2> QED BY <2>3, <1>6
<1>4. ASSUME Closing(Head(s)) PROVE Members(r) = {}
  <2>1. 1 \in 1..Len(s) BY <1>6
  <2>4. Closing(s[1]) BY <1>4, <1>5
  <2>2. Len(s) = 1 BY <2>1, <2>4, <1>8, Zenon
  <2>5. Len(r) = 0 BY <2>2, <1>6
  <2>3. DOMAIN r = {} BY <2>5, <1>2
  <2> QED BY <2>3 DEF Members
<1> QED BY <1>1, <1>3, <1>4, MembersOfTail DEF r

\* Calls put in front of others.
LEMMA CallsBefore ==
  ASSUME NEW c, NEW s \in Seq(Task), Quiet(c), ClosingIsLast(s)
  PROVE  /\ c \o s \in Seq(Task) /\ ClosingIsLast(c \o s)
         /\ Members(c \o s) = Members(c) \cup Members(s)
<1>1. c \in Seq(Task) BY DEF Quiet
<1> DEFINE u == c \o s
<1>2. /\ u \in Seq(Task) /\ Len(u) = Len(c) + Len(s)
      /\ \A i \in 1..Len(c) + Len(s) : u[i] = IF i <= Len(c) THEN c[i] ELSE s[i - Len(c)]
  BY <1>1, ConcatProperties
<1>3. Len(c) \in Nat /\ Len(s) \in Nat /\ DOMAIN c = 1..Len(c) /\ DOMAIN s = 1..Len(s)
  BY <1>1, LenProperties
<1>7. u \in Seq(Task) BY <1>2
<1> HIDE DEF u
<1>4. DOMAIN u = 1..Len(u) BY <1>7, LenProperties
<1>6. \A i \in 1..Len(s) : Closing(s[i]) => i = Len(s) BY <1>3, Zenon DEF ClosingIsLast
<1>5. ClosingIsLast(u)
  <2> SUFFICES ASSUME NEW i \in 1..Len(u), Closing(u[i]) PROVE i = Len(u)
    BY <1>4, Zenon DEF ClosingIsLast
  <2>1. CASE i <= Len(c)
    <3>1. i \in DOMAIN c /\ u[i] = c[i] BY <2>1, <1>2, <1>3
    <3>2. c[i] \in Members(c) BY <3>1 DEF Members
    <3> QED BY <3>1, <3>2 DEF Quiet
  <2>2. CASE ~(i <= Len(c))
    <3>4. i \in 1..Len(c) + Len(s) BY <1>2
    <3>5. u[i] = s[i - Len(c)] BY <2>2, <3>4, <1>2
    <3>1. i - Len(c) \in 1..Len(s) BY <2>2, <3>4, <1>3
    <3>2. i - Len(c) = Len(s) BY <3>1, <3>5, <1>6
    <3>3. Len(u) = Len(c) + Len(s) BY <1>2
    <3> QED BY <3>2, <3>3, <3>4, <1>3
  <2> QED BY <2>1, <2>2
<1> QED BY <1>1, <1>2, <1>5, MembersOfConcat DEF u

\* Quiet calls one after the other.
LEMMA QuietConcat ==
  ASSUME NEW c, NEW d, Quiet(c), Quiet(d)
  PROVE  Quiet(c \o d) /\ Members(c \o d) = Members(c) \cup Members(d)
<1>1. c \in Seq(Task) /\ d \in Seq(Task) BY DEF Quiet
<1> QED BY <1>1, MembersOfConcat DEF Quiet

\* A single call, and none.
LEMMA OneCall ==
  /\ \A t \in Task : << t >> \in Seq(Task) /\ Members(<< t >>) = {t} /\ ClosingIsLast(<< t >>)
  /\ \A t \in Task : ~Closing(t) => Quiet(<< t >>)
  /\ Quiet(<< >>) /\ << >> \in Seq(Task) /\ ClosingIsLast(<< >>) /\ Members(<< >>) = {}
<1>1. ASSUME NEW t \in Task
      PROVE  << t >> \in Seq(Task) /\ Members(<< t >>) = {t} /\ ClosingIsLast(<< t >>)
  <2>1. << t >> \in Seq(Task) OBVIOUS
  <2>2. Len(<< t >>) = 1 /\ << t >>[1] = t OBVIOUS
  <2>3. DOMAIN << t >> = {1} BY <2>1, <2>2, LenProperties
  <2> DEFINE s == << t >>
  <2> HIDE DEF s
  <2>4. s[1] = t /\ DOMAIN s = {1} /\ Len(s) = 1 BY <2>2, <2>3 DEF s
  <2>5. Members(s) = {t} /\ ClosingIsLast(s) BY <2>4 DEF Members, ClosingIsLast
  <2> QED BY <2>1, <2>5 DEF s
<1>2. << >> \in Seq(Task) /\ DOMAIN << >> = {}
  <2>1. << >> \in Seq(Task) /\ Len(<< >>) = 0 BY EmptySeq
  <2> QED BY <2>1, LenProperties
<1>3. ClosingIsLast(<< >>) /\ Members(<< >>) = {} BY <1>2 DEF Members, ClosingIsLast
<1> QED BY <1>1, <1>2, <1>3 DEF Quiet

\* Two elements, one after the other.
LEMMA PairConcat == ASSUME NEW x, NEW y PROVE << x, y >> = << x >> \o << y >>
<1> DEFINE S == {x, y}
           a == << x, y >>
           b == << x >>
           c == << y >>
<1>1. a \in Seq(S) /\ Len(a) = 2 /\ a[1] = x /\ a[2] = y OBVIOUS
<1>2. b \in Seq(S) /\ Len(b) = 1 /\ b[1] = x OBVIOUS
<1>3. c \in Seq(S) /\ Len(c) = 1 /\ c[1] = y OBVIOUS
<1> HIDE DEF S, a, b, c
<1>4. /\ b \o c \in Seq(S) /\ Len(b \o c) = Len(b) + Len(c)
      /\ \A i \in 1..Len(b) + Len(c) : (b \o c)[i] = IF i <= Len(b) THEN b[i] ELSE c[i - Len(b)]
  BY <1>2, <1>3, ConcatProperties
<1>5. /\ 1 \in 1..Len(b) + Len(c) /\ 1 <= Len(b) /\ 2 \in 1..Len(b) + Len(c) /\ ~(2 <= Len(b))
      /\ 2 - Len(b) = 1
  BY <1>2, <1>3
<1>6. Len(b \o c) = 2 /\ (b \o c)[1] = x /\ (b \o c)[2] = y BY <1>2, <1>3, <1>4, <1>5
<1>7. \A i \in 1..2 : i = 1 \/ i = 2 OBVIOUS
<1>8. \A i \in 1..Len(a) : a[i] = (b \o c)[i] BY <1>1, <1>6, <1>7
<1>9. a = b \o c BY <1>1, <1>4, <1>6, <1>8, SeqEqual
<1> QED BY <1>9 DEF a, b, c

\* Two calls, and three.
LEMMA TwoCalls ==
  ASSUME NEW t \in Task, NEW u \in Task, ~Closing(t), ~Closing(u)
  PROVE  Quiet(<< t, u >>) /\ Members(<< t, u >>) = {t, u} /\ Head(<< t, u >>) = t
<1>1. << t, u >> = << t >> \o << u >> BY PairConcat
<1>2. Quiet(<< t >>) /\ Quiet(<< u >>) /\ Members(<< t >>) = {t} /\ Members(<< u >>) = {u}
  BY OneCall
<1>3. Quiet(<< t >> \o << u >>) /\ Members(<< t >> \o << u >>) = {t} \cup {u}
  BY <1>2, QuietConcat
<1>4. Head(<< t, u >>) = t OBVIOUS
<1> QED BY <1>1, <1>3, <1>4

LEMMA ThreeCalls ==
  ASSUME NEW t \in Task, NEW u \in Task, NEW v \in Task, ~Closing(t), ~Closing(u), ~Closing(v)
  PROVE  Quiet(<< t, u, v >>) /\ Members(<< t, u, v >>) = {t, u, v} /\ Head(<< t, u, v >>) = t
<1>1. << t, u, v >> = << t, u >> \o << v >> OBVIOUS
<1>2. Quiet(<< t, u >>) /\ Quiet(<< v >>) /\ Members(<< t, u >>) = {t, u} /\ Members(<< v >>) = {v}
  BY OneCall, TwoCalls
<1>3. Quiet(<< t, u >> \o << v >>) /\ Members(<< t, u >> \o << v >>) = {t, u} \cup {v}
  BY <1>2, QuietConcat
<1>4. Head(<< t, u, v >>) = t OBVIOUS
<1> QED BY <1>1, <1>3, <1>4

(***************************************************************************)
(* What the functions of the scheduler call.                               *)
(***************************************************************************)
Harmless(t) == t.op \notin {"bury", "resume", "enter", "rotate"}

LEMMA CheckSignalsCalls ==
  Quiet(CheckSignals) /\ \A t \in Members(CheckSignals) : Harmless(t)
<1>1. Call("children") \in Task /\ Call("wake") \in Task BY DEF Call, Task, Tasks
<1>2. ~Closing(Call("children")) /\ ~Closing(Call("wake")) BY DEF Closing, Call
<1>3. Quiet(CheckSignals) /\ Members(CheckSignals) = {Call("children"), Call("wake")}
  BY <1>1, <1>2, TwoCalls DEF CheckSignals
<1> QED BY <1>3 DEF Harmless, Call

LEMMA PausingCalls ==
  /\ Pausing \in Seq(Task) /\ ClosingIsLast(Pausing) /\ Call("rotate") \in Members(Pausing)
  /\ \A t \in Members(Pausing) : Harmless(t) \/ t = Call("rotate")
<1>1. Call("rotate") \in Task BY DEF Call, Task, Tasks
<1>2. /\ << Call("rotate") >> \in Seq(Task) /\ ClosingIsLast(<< Call("rotate") >>)
      /\ Members(<< Call("rotate") >>) = {Call("rotate")}
  BY <1>1, OneCall
<1>3. /\ Pausing \in Seq(Task) /\ ClosingIsLast(Pausing)
      /\ Members(Pausing) = Members(CheckSignals) \cup {Call("rotate")}
  BY <1>2, CheckSignalsCalls, CallsBefore DEF Pausing
<1> QED BY <1>3, CheckSignalsCalls

LEMMA SuspendingCalls ==
  /\ Quiet(Suspending) /\ Call("setCurrent") \in Members(Suspending)
  /\ \A t \in Members(Suspending) : Harmless(t)
<1>1. Call("await") \in Task /\ Call("setCurrent") \in Task BY DEF Call, Task, Tasks
<1>2. ~Closing(Call("await")) /\ ~Closing(Call("setCurrent")) BY DEF Closing, Call
<1> DEFINE a == << Call("await"), Call("setCurrent") >>
           b == << Call("setCurrent") >>
<1>3. Quiet(a) /\ Members(a) = {Call("await"), Call("setCurrent")} BY <1>1, <1>2, TwoCalls
<1>4. Quiet(b) /\ Members(b) = {Call("setCurrent")} BY <1>1, <1>2, OneCall
<1> HIDE DEF a, b
<1>5. Quiet(a \o CheckSignals) /\ Members(a \o CheckSignals) = Members(a) \cup Members(CheckSignals)
  BY <1>3, CheckSignalsCalls, QuietConcat
<1>6. /\ Quiet((a \o CheckSignals) \o b)
      /\ Members((a \o CheckSignals) \o b) = Members(a \o CheckSignals) \cup Members(b)
  BY <1>4, <1>5, QuietConcat
<1>7. Suspending = (a \o CheckSignals) \o b BY DEF Suspending, a, b
<1>8. Harmless(Call("await")) /\ Harmless(Call("setCurrent")) BY DEF Harmless, Call
<1> QED BY <1>3, <1>4, <1>5, <1>6, <1>7, <1>8, CheckSignalsCalls

LEMMA ResumingCalls ==
  ASSUME NEW p \in Proc
  PROVE  /\ Quiet(Resuming(p)) /\ CallOn("resume", p) \in Members(Resuming(p))
         /\ \A t \in Members(Resuming(p)) : Harmless(t) \/ t = CallOn("resume", p)
<1>1. CallOn("resume", p) \in Task BY DEF CallOn, Task, Tasks
<1>2. ~Closing(CallOn("resume", p)) BY DEF Closing, CallOn
<1>3. Quiet(<< CallOn("resume", p) >>) /\ Members(<< CallOn("resume", p) >>) = {CallOn("resume", p)}
  BY <1>1, <1>2, OneCall
<1>4. /\ Quiet(Resuming(p))
      /\ Members(Resuming(p)) = Members(CheckSignals) \cup {CallOn("resume", p)}
  BY <1>3, CheckSignalsCalls, QuietConcat DEF Resuming
<1> QED BY <1>4, CheckSignalsCalls

LEMMA ResumeAllCalls ==
  ASSUME NEW q \in Seq(Proc)
  PROVE  /\ Quiet(ResumeAll(q))
         /\ \A t \in Members(ResumeAll(q)) :
              Harmless(t) \/ (t.op = "resume" /\ t.who \in Members(q))
<1> DEFINE n == 3 * Len(q)
           e(i) == CASE i % 3 = 1 -> Call("children")
                     [] i % 3 = 2 -> Call("wake")
                     [] i % 3 = 0 -> CallOn("resume", q[i \div 3])
<1>1. Len(q) \in Nat /\ n \in Nat /\ DOMAIN q = 1..Len(q) BY LenProperties
<1>2. ASSUME NEW i \in 1..n
      PROVE  \/ e(i) = Call("children") \/ e(i) = Call("wake")
             \/ \E p \in Members(q) : e(i) = CallOn("resume", p)
  <2>1. i % 3 = 0 \/ i % 3 = 1 \/ i % 3 = 2 BY <1>1
  <2>2. CASE i % 3 = 1 BY <2>2
  <2>3. CASE i % 3 = 2 BY <2>3
  <2>4. CASE i % 3 = 0
    <3>1. e(i) = CallOn("resume", q[i \div 3]) BY <2>4
    <3>2. i \div 3 \in 1..Len(q) BY <2>4, <1>1
    <3>3. q[i \div 3] \in Members(q) BY <3>2, <1>1 DEF Members
    <3> QED BY <3>1, <3>3
  <2> QED BY <2>1, <2>2, <2>3, <2>4
<1>3. Members(q) \subseteq Proc BY MembersOfSeq
<1>4. \A i \in 1..n : e(i) \in Task BY <1>2, <1>3 DEF Call, CallOn, Task, Tasks
<1>5. ResumeAll(q) = [i \in 1..n |-> e(i)] BY DEF ResumeAll
<1> HIDE DEF e, n
<1>6. ResumeAll(q) \in Seq(Task) BY <1>1, <1>4, <1>5
<1>7. \A t \in Members(ResumeAll(q)) : \E i \in 1..n : t = e(i) BY <1>5 DEF Members
<1>8. \A t \in Members(ResumeAll(q)) :
        Harmless(t) \/ (t.op = "resume" /\ t.who \in Members(q))
  <2> TAKE t \in Members(ResumeAll(q))
  <2>1. PICK i \in 1..n : t = e(i) BY <1>7
  <2> QED BY <2>1, <1>2 DEF Harmless, Call, CallOn
<1>9. \A t \in Members(ResumeAll(q)) : ~Closing(t) BY <1>8 DEF Harmless, Closing
<1> QED BY <1>6, <1>8, <1>9 DEF Quiet

(***************************************************************************)
(* The states of the processes and the run queue agree.                    *)
(***************************************************************************)
QueueOk(st, q) == /\ st \in [Proc -> States] /\ q \in Seq(Proc) /\ NoDuplicates(q)
                  /\ Members(q) = {p \in Proc : st[p] = "runnable"}

\* add_to_run_q.
LEMMA JoinsQueue ==
  ASSUME NEW st, NEW q, QueueOk(st, q), NEW p \in Proc, st[p] # "runnable"
  PROVE  /\ QueueOk([st EXCEPT ![p] = "runnable"], AddFront(q, p)) /\ AddFront(q, p) # << >>
         /\ QueueOk([st EXCEPT ![p] = "runnable"], AddBack(q, p)) /\ AddBack(q, p) # << >>
<1> DEFINE t == [st EXCEPT ![p] = "runnable"]
<1>1. t \in [Proc -> States] /\ {r \in Proc : t[r] = "runnable"} = Members(q) \cup {p}
  BY DEF QueueOk, States
<1>2. p \notin Members(q) /\ q \in Seq(Proc) /\ NoDuplicates(q) BY DEF QueueOk
<1> QED BY <1>1, <1>2, AddFrontLemma, AddBackLemma DEF QueueOk

\* remove_from_run_q.
LEMMA LeavesQueue ==
  ASSUME NEW st, NEW q, QueueOk(st, q), NEW p \in Proc, st[p] = "runnable",
         NEW reason \in States \ {"runnable"}
  PROVE  QueueOk([st EXCEPT ![p] = reason], Remove(q, p))
<1> DEFINE t == [st EXCEPT ![p] = reason]
<1>1. t \in [Proc -> States] /\ {r \in Proc : t[r] = "runnable"} = Members(q) \ {p}
  BY DEF QueueOk
<1>2. p \in Members(q) /\ q \in Seq(Proc) /\ NoDuplicates(q) BY DEF QueueOk
<1> QED BY <1>1, <1>2, RemoveLemma DEF QueueOk

\* The run queue of the invariant.
LEMMA QueueOfInv == IInv => QueueOk(state, runQ) /\ state \in [Proc -> States]
  BY DEF IInv, TypeOK, RunQueueOk, QueueOk

\* A process made runnable.
LEMMA Woken ==
  ASSUME QueueOk(state, runQ), NEW p \in Proc, NEW front \in BOOLEAN, MakeRunnable(p, front)
  PROVE  /\ QueueOk(state', runQ') /\ runQ' # << >>
         /\ state'[p] = "runnable" /\ \A r \in Proc : r # p => state'[r] = state[r]
<1>1. CASE state[p] = "runnable"
  <2>1. state' = state /\ runQ' = runQ BY <1>1 DEF MakeRunnable
  <2>2. p \in Members(runQ) BY <1>1 DEF QueueOk
  <2>3. runQ # << >>
    <3> SUFFICES ASSUME runQ = << >> PROVE FALSE OBVIOUS
    <3> QED BY <2>2, OneCall
  <2> QED BY <1>1, <2>1, <2>3
<1>2. CASE state[p] # "runnable"
  <2>1. /\ state' = [state EXCEPT ![p] = "runnable"]
        /\ runQ' = IF front THEN AddFront(runQ, p) ELSE AddBack(runQ, p)
    BY <1>2 DEF MakeRunnable
  <2>2. state \in [Proc -> States] BY DEF QueueOk
  <2>3. QueueOk(state', runQ') /\ runQ' # << >> BY <1>2, <2>1, JoinsQueue
  <2> QED BY <2>1, <2>2, <2>3
<1> QED BY <1>1, <1>2

\* The first process of a queue that is not empty is runnable.
LEMMA FirstIsRunnable ==
  ASSUME NEW st, NEW q, QueueOk(st, q), q # << >>
  PROVE  Head(q) \in Proc /\ st[Head(q)] = "runnable"
<1>1. Head(q) \in Members(q) BY HeadIsMember DEF QueueOk
<1> QED BY <1>1 DEF QueueOk

(***************************************************************************)
(* A step of the C thread, or of the world, that makes processes runnable  *)
(* or frees one that was being ended, and calls what is harmless: the      *)
(* parts of the invariant that are about `todo' are kept.                  *)
(***************************************************************************)
LEMMA CallsKept ==
  ASSUME IInv,
         todo' \in Seq(Task), ClosingIsLast(todo'),
         \A t \in Members(todo') : \/ t \in Members(todo) \/ Harmless(t)
                                   \/ t.op = "resume" /\ t.who \in Members(attached),
         \A t \in Members(todo') : t.op = "bury" =>
            state[t.who] = "dead" \/ state'[t.who] = "dead" \/ t = Head(todo'),
         \A t \in Members(todo) : Closing(t) => t \in Members(todo'),
         \A r \in Proc :
            \/ state'[r] = state[r]
            \/ state'[r] = "runnable" /\ \A t \in Members(todo) : t.op = "bury" => t.who # r
            \/ state'[r] = "dead" /\ state[r] # "runnable" /\ r \notin Members(attached),
         \A r \in Proc : alarm[r] = "none" => alarm'[r] = "none",
         attached' = attached, pending' = pending, exec' = exec
  PROVE  /\ ClosingIsLast(todo)' /\ ExecOk' /\ BuryOk' /\ ResumeOk' /\ ShellsOk'
         /\ current' = current /\ (\A t \in Members(todo) : t.op = "setCurrent" => t \in Members(todo'))
              => CurrentOk'
<1>0. Members(attached) \subseteq Proc /\ exec \in Proc \cup {NoProc} /\ current \in Proc \cup {NoProc}
  BY MembersOfSeq DEF IInv, TypeOK
<1>1. ExecOk' BY <1>0 DEF IInv, ExecOk
<1>2. ASSUME NEW t \in Members(todo'), t.op = "bury"
      PROVE  /\ t \in Members(todo) /\ t.who \in Proc /\ state'[t.who] # "runnable"
             /\ alarm'[t.who] = "none" /\ t.who \notin Members(attached)
             /\ state'[t.who] = "dead" \/ t = Head(todo')
  <2>1. t \in Members(todo) BY <1>2 DEF Harmless
  <2>2. /\ t.who \in Proc /\ state[t.who] # "runnable" /\ alarm[t.who] = "none"
        /\ t.who \notin Members(attached)
    BY <1>2, <2>1 DEF IInv, BuryOk
  <2>3. state'[t.who] = state[t.who] \/ state'[t.who] = "dead" BY <1>2, <2>1, <2>2
  <2> QED BY <1>2, <2>1, <2>2, <2>3
<1>3. BuryOk' BY <1>2 DEF BuryOk
<1>4. ASSUME NEW t \in Members(todo'), t.op = "resume"
      PROVE  t.who \in Proc /\ \A u \in Members(todo') : u.op = "bury" => u.who # t.who
  <2>1. CASE t \in Members(todo) BY <1>2, <1>4, <2>1 DEF IInv, ResumeOk
  <2>2. CASE t.who \in Members(attached) BY <1>0, <1>2, <2>2
  <2> QED BY <1>4, <2>1, <2>2 DEF Harmless
<1>5. ResumeOk' BY <1>4 DEF ResumeOk
<1>6. ShellsOk'
  <2>1. ASSUME NEW p \in Members(attached) PROVE pending'[p] = "shell" /\ IsLive(p)'
    BY <1>0, <2>1 DEF IInv, ShellsOk, IsLive
  <2> QED BY <2>1 DEF IInv, ShellsOk
<1>7. ASSUME current' = current, \A t \in Members(todo) : t.op = "setCurrent" => t \in Members(todo')
      PROVE  CurrentOk'
  BY <1>0, <1>7 DEF IInv, CurrentOk, Closing
<1> QED BY <1>1, <1>3, <1>5, <1>6, <1>7

\* The call the C thread is about to make, and those behind it.
LEMMA FirstCall ==
  ASSUME IInv, todo # << >>
  PROVE  /\ Head(todo) \in Task /\ Tail(todo) \in Seq(Task) /\ ClosingIsLast(Tail(todo))
         /\ Members(todo) = {Head(todo)} \cup Members(Tail(todo))
         /\ Closing(Head(todo)) => Members(Tail(todo)) = {}
         /\ \A t \in Members(Tail(todo)) :
              t.op = "bury" => t = Head(todo) \/ state[t.who] = "dead"
<1>1. todo \in Seq(Task) /\ ClosingIsLast(todo) BY DEF IInv, TypeOK
<1>2. /\ Head(todo) \in Task /\ Tail(todo) \in Seq(Task) /\ ClosingIsLast(Tail(todo))
      /\ Members(todo) = {Head(todo)} \cup Members(Tail(todo))
      /\ Closing(Head(todo)) => Members(Tail(todo)) = {}
  BY <1>1, TailOfCalls
<1> QED BY <1>2 DEF IInv, BuryOk

(***************************************************************************)
(* The same when calls take the place of the first one.                    *)
(***************************************************************************)
LEMMA CallsGoOn ==
  ASSUME IInv, todo # << >>, Head(todo).op \notin {"enter", "rotate"},
         NEW c, Quiet(c), todo' = c \o Tail(todo),
         \A t \in Members(c) : Harmless(t) \/ (t.op = "resume" /\ t.who \in Members(attached)),
         Head(todo).op = "bury" => state'[Head(todo).who] = "dead",
         \A r \in Proc :
            \/ state'[r] = state[r]
            \/ state'[r] = "runnable" /\ \A t \in Members(todo) : t.op = "bury" => t.who # r
            \/ state'[r] = "dead" /\ state[r] # "runnable" /\ r \notin Members(attached),
         \A r \in Proc : alarm[r] = "none" => alarm'[r] = "none",
         attached' = attached, pending' = pending, exec' = exec
  PROVE  /\ todo' \in Seq(Task) /\ Members(todo') = Members(c) \cup Members(Tail(todo))
         /\ ClosingIsLast(todo)' /\ ExecOk' /\ BuryOk' /\ ResumeOk' /\ ShellsOk'
         /\ current' = current /\ Head(todo).op # "setCurrent" => CurrentOk'
<1>1. /\ todo' \in Seq(Task) /\ ClosingIsLast(todo')
      /\ Members(todo') = Members(c) \cup Members(Tail(todo))
  BY FirstCall, CallsBefore
<1>2. \A t \in Members(todo') : \/ t \in Members(todo) \/ Harmless(t)
                                \/ t.op = "resume" /\ t.who \in Members(attached)
  BY <1>1, FirstCall
<1>3. \A t \in Members(todo') : t.op = "bury" =>
         state[t.who] = "dead" \/ state'[t.who] = "dead" \/ t = Head(todo')
  BY <1>1, FirstCall DEF Harmless
<1>4. \A t \in Members(todo) : Closing(t) => t \in Members(todo')
  BY <1>1, FirstCall DEF Closing
<1>5. Head(todo).op # "setCurrent" =>
        \A t \in Members(todo) : t.op = "setCurrent" => t \in Members(todo')
  BY <1>1, FirstCall
<1> QED BY <1>1, <1>2, <1>3, <1>4, <1>5, CallsKept

\* Going on with the next call.
LEMMA ContinueIs ==
  ASSUME IInv, todo # << >>, Continue PROVE todo' = << >> \o Tail(todo)
BY FirstCall, ConcatEmptySeq DEF Continue

\* Harmless calls, one to four of them.
LEMMA HarmlessCalls ==
  ASSUME NEW a \in Task, NEW b \in Task, NEW c \in Task, NEW d \in Task,
         Harmless(a), Harmless(b), Harmless(c), Harmless(d)
  PROVE  /\ Quiet(<< a >>) /\ \A t \in Members(<< a >>) : Harmless(t)
         /\ Quiet(<< a, b >>) /\ \A t \in Members(<< a, b >>) : Harmless(t)
         /\ Quiet(<< a, b, c >>) /\ \A t \in Members(<< a, b, c >>) : Harmless(t)
         /\ Quiet(<< a, b, c, d >>) /\ \A t \in Members(<< a, b, c, d >>) : Harmless(t)
<1>1. ~Closing(a) /\ ~Closing(b) /\ ~Closing(c) /\ ~Closing(d) BY DEF Harmless, Closing
<1>2. Quiet(<< a >>) /\ Members(<< a >>) = {a} /\ Quiet(<< d >>) /\ Members(<< d >>) = {d}
  BY <1>1, OneCall
<1>3. Quiet(<< a, b >>) /\ Members(<< a, b >>) = {a, b} BY <1>1, TwoCalls
<1>4. Quiet(<< a, b, c >>) /\ Members(<< a, b, c >>) = {a, b, c} BY <1>1, ThreeCalls
<1>5. << a, b, c, d >> = << a, b, c >> \o << d >> OBVIOUS
<1>6. Quiet(<< a, b, c, d >>) /\ Members(<< a, b, c, d >>) = {a, b, c} \cup {d}
  <2> DEFINE x == << a, b, c >>
             y == << d >>
  <2>1. Quiet(x) /\ Quiet(y) /\ Members(x) = {a, b, c} /\ Members(y) = {d} BY <1>2, <1>4
  <2> HIDE DEF x, y
  <2>2. Quiet(x \o y) /\ Members(x \o y) = {a, b, c} \cup {d} BY <2>1, QuietConcat
  <2>3. << a, b, c, d >> = x \o y BY <1>5 DEF x, y
  <2> QED BY <2>2, <2>3
<1>7. Quiet(<< a >>) /\ \A t \in Members(<< a >>) : Harmless(t) BY <1>2
<1>8. Quiet(<< a, b >>) /\ \A t \in Members(<< a, b >>) : Harmless(t) BY <1>3
<1>9. Quiet(<< a, b, c >>) /\ \A t \in Members(<< a, b, c >>) : Harmless(t) BY <1>4
<1>10. Quiet(<< a, b, c, d >>) /\ \A t \in Members(<< a, b, c, d >>) : Harmless(t)
  BY <1>6
<1> QED BY <1>7, <1>8, <1>9, <1>10

\* The calls of the loop that waits for events.
LEMMA LoopCalls ==
  /\ \A op \in Tasks \ {"bury", "resume", "enter", "rotate"} :
       Call(op) \in Task /\ Harmless(Call(op))
  /\ \A S \in SUBSET Proc : TriggerIo(S) \in Task /\ Harmless(TriggerIo(S))
BY DEF Call, TriggerIo, Task, Tasks, Harmless

(***************************************************************************)
(* The steps of the C thread between two instructions.                     *)
(***************************************************************************)
LEMMA ChildrenKeeps == IInv /\ Children => IInv'
<1> SUFFICES ASSUME IInv, Children PROVE IInv' OBVIOUS
<1>1. todo # << >> /\ Head(todo).op = "children" BY DEF Children, NextIs
<1>2. PICK c : /\ Quiet(c) /\ todo' = c \o Tail(todo)
               /\ \A t \in Members(c) : Harmless(t) \/ (t.op = "resume" /\ t.who \in Members(attached))
  <2>1. CASE childDone
    <3>1. todo' = ResumeAll(attached) \o Tail(todo) BY <2>1 DEF Children, InsteadDo
    <3>2. attached \in Seq(Proc) BY DEF IInv, TypeOK
    <3> QED BY <3>1, <3>2, ResumeAllCalls
  <2>2. CASE ~childDone
    <3>1. todo' = << >> \o Tail(todo) BY <2>2, <1>1, ContinueIs DEF Children
    <3> QED BY <3>1, OneCall
  <2> QED BY <2>1, <2>2
<1>3. UNCHANGED << queueVars, mailVars, timeVars, ioVars, wakeywakey, interrupted, procVars, pending >>
      /\ childDone' = FALSE
  BY DEF Children
<1>4. /\ todo' \in Seq(Task) /\ ClosingIsLast(todo)' /\ ExecOk' /\ BuryOk' /\ ResumeOk' /\ ShellsOk'
      /\ CurrentOk'
  BY <1>1, <1>2, <1>3, CallsGoOn DEF queueVars, timeVars, ioVars
<1>5. TypeOK' /\ RunQueueOk'
  BY <1>3, <1>4 DEF IInv, TypeOK, RunQueueOk, queueVars, mailVars, timeVars, ioVars, procVars
<1> QED BY <1>4, <1>5 DEF IInv

LEMMA WakeKeeps == IInv /\ Wake => IInv'
<1> SUFFICES ASSUME IInv, Wake PROVE IInv' OBVIOUS
<1>1. todo # << >> /\ Head(todo).op \in {"wake", "wakeTimers"} BY DEF Wake, NextIs
<1>2. PICK c : Quiet(c) /\ todo' = c \o Tail(todo) /\ \A t \in Members(c) : Harmless(t)
  <2>1. CASE ~wakeywakey
    <3>1. todo' = << >> \o Tail(todo) BY <2>1, <1>1, ContinueIs DEF Wake
    <3> QED BY <3>1, OneCall
  <2>2. CASE wakeywakey
    <3>1. \/ todo' = << Call("timers"), Call("checkIo") >> \o Tail(todo)
          \/ todo' = << Call("timers") >> \o Tail(todo)
      BY <2>2 DEF Wake, InsteadDo, WhenWoken
    <3>2. /\ Call("timers") \in Task /\ Harmless(Call("timers"))
          /\ Call("checkIo") \in Task /\ Harmless(Call("checkIo"))
      BY LoopCalls DEF Tasks
    <3> QED BY <3>1, <3>2, HarmlessCalls
  <2> QED BY <2>1, <2>2
<1>3. UNCHANGED << queueVars, mailVars, timeVars, ioVars, procVars, pending >>
      /\ wakeywakey' \in BOOLEAN /\ childDone' \in BOOLEAN /\ interrupted' \in BOOLEAN
  BY DEF Wake, TypeOK, IInv
<1>4. /\ todo' \in Seq(Task) /\ ClosingIsLast(todo)' /\ ExecOk' /\ BuryOk' /\ ResumeOk' /\ ShellsOk'
      /\ CurrentOk'
  BY <1>1, <1>2, <1>3, CallsGoOn DEF queueVars, timeVars, ioVars
<1>5. TypeOK' /\ RunQueueOk'
  BY <1>3, <1>4 DEF IInv, TypeOK, RunQueueOk, queueVars, mailVars, timeVars, ioVars, procVars
<1> QED BY <1>4, <1>5 DEF IInv

LEMMA CheckIoKeeps == IInv /\ CheckIo => IInv'
<1> SUFFICES ASSUME IInv, CheckIo PROVE IInv' OBVIOUS
<1>1. todo # << >> /\ Head(todo).op \in {"checkIo"} BY DEF CheckIo, NextIs
<1>2. PICK c : Quiet(c) /\ todo' = c \o Tail(todo) /\ \A t \in Members(c) : Harmless(t)
  <2>1. todo' = << TriggerIo(IoWaiters) >> \o Tail(todo) BY DEF CheckIo, InsteadDo
  <2>2. IoWaiters \in SUBSET Proc BY DEF IInv, TypeOK, IoWaiters
  <2>3. TriggerIo(IoWaiters) \in Task /\ Harmless(TriggerIo(IoWaiters)) BY <2>2, LoopCalls
  <2> QED BY <2>1, <2>3, HarmlessCalls
<1>3. UNCHANGED << queueVars, mailVars, timeVars, ioVars, procVars, pending >>
      /\ wakeywakey' \in BOOLEAN /\ childDone' \in BOOLEAN /\ interrupted' \in BOOLEAN
  BY DEF CheckIo, sigVars, TypeOK, IInv
<1>4. /\ todo' \in Seq(Task) /\ ClosingIsLast(todo)' /\ ExecOk' /\ BuryOk' /\ ResumeOk' /\ ShellsOk'
      /\ CurrentOk'
  BY <1>1, <1>2, <1>3, CallsGoOn DEF queueVars, timeVars, ioVars
<1>5. TypeOK' /\ RunQueueOk'
  BY <1>3, <1>4 DEF IInv, TypeOK, RunQueueOk, queueVars, mailVars, timeVars, ioVars, procVars
<1> QED BY <1>4, <1>5 DEF IInv

LEMMA AwaitKeeps == IInv /\ Await => IInv'
<1> SUFFICES ASSUME IInv, Await PROVE IInv' OBVIOUS
<1>1. todo # << >> /\ Head(todo).op \in {"await"} BY DEF Await, NextIs
<1>2. PICK c : Quiet(c) /\ todo' = c \o Tail(todo) /\ \A t \in Members(c) : Harmless(t)
  <2>1. CASE ~(runQ = << >> /\ live > 0)
    <3>1. todo' = << >> \o Tail(todo) BY <2>1, <1>1, ContinueIs DEF Await
    <3> QED BY <3>1, OneCall
  <2>2. CASE runQ = << >> /\ live > 0
    <3>1. todo' = << Call("poll") >> \o Tail(todo) BY <2>2 DEF Await, InsteadDo
    <3>2. Call("poll") \in Task /\ Harmless(Call("poll")) BY LoopCalls DEF Tasks
    <3> QED BY <3>1, <3>2, HarmlessCalls
  <2> QED BY <2>1, <2>2
<1>3. UNCHANGED << queueVars, mailVars, timeVars, ioVars, procVars, pending >>
      /\ wakeywakey' \in BOOLEAN /\ childDone' \in BOOLEAN /\ interrupted' \in BOOLEAN
  BY DEF Await, sigVars, TypeOK, IInv
<1>4. /\ todo' \in Seq(Task) /\ ClosingIsLast(todo)' /\ ExecOk' /\ BuryOk' /\ ResumeOk' /\ ShellsOk'
      /\ CurrentOk'
  BY <1>1, <1>2, <1>3, CallsGoOn DEF queueVars, timeVars, ioVars
<1>5. TypeOK' /\ RunQueueOk'
  BY <1>3, <1>4 DEF IInv, TypeOK, RunQueueOk, queueVars, mailVars, timeVars, ioVars, procVars
<1> QED BY <1>4, <1>5 DEF IInv

LEMMA PollKeeps == IInv /\ Poll => IInv'
<1> SUFFICES ASSUME IInv, Poll PROVE IInv' OBVIOUS
<1>1. todo # << >> /\ Head(todo).op \in {"poll"} BY DEF Poll, NextIs
<1>2. PICK c : Quiet(c) /\ todo' = c \o Tail(todo) /\ \A t \in Members(c) : Harmless(t)
  <2>1. CASE runQ # << >>
    <3>1. todo' = << >> \o Tail(todo) BY <2>1, <1>1, ContinueIs DEF Poll
    <3> QED BY <3>1, OneCall
  <2>2. CASE runQ = << >>
    <3>1. todo' = (CheckSignals \o << Call("recheck") >>) \o Tail(todo)
      BY <2>2 DEF Poll, InsteadDo
    <3>2. Call("recheck") \in Task /\ Harmless(Call("recheck")) BY LoopCalls DEF Tasks
    <3>3. /\ Quiet(<< Call("recheck") >>)
          /\ \A t \in Members(<< Call("recheck") >>) : Harmless(t)
      BY <3>2, HarmlessCalls
    <3>4. /\ Quiet(CheckSignals \o << Call("recheck") >>)
          /\ \A t \in Members(CheckSignals \o << Call("recheck") >>) : Harmless(t)
      BY <3>3, CheckSignalsCalls, QuietConcat
    <3> QED BY <3>1, <3>4
  <2> QED BY <2>1, <2>2
<1>3. UNCHANGED << queueVars, mailVars, timeVars, ioVars, procVars, pending >>
      /\ wakeywakey' \in BOOLEAN /\ childDone' \in BOOLEAN /\ interrupted' \in BOOLEAN
  BY DEF Poll, sigVars, TypeOK, IInv
<1>4. /\ todo' \in Seq(Task) /\ ClosingIsLast(todo)' /\ ExecOk' /\ BuryOk' /\ ResumeOk' /\ ShellsOk'
      /\ CurrentOk'
  BY <1>1, <1>2, <1>3, CallsGoOn DEF queueVars, timeVars, ioVars
<1>5. TypeOK' /\ RunQueueOk'
  BY <1>3, <1>4 DEF IInv, TypeOK, RunQueueOk, queueVars, mailVars, timeVars, ioVars, procVars
<1> QED BY <1>4, <1>5 DEF IInv

LEMMA RecheckKeeps == IInv /\ Recheck => IInv'
<1> SUFFICES ASSUME IInv, Recheck PROVE IInv' OBVIOUS
<1>1. todo # << >> /\ Head(todo).op \in {"recheck"} BY DEF Recheck, NextIs
<1>2. PICK c : Quiet(c) /\ todo' = c \o Tail(todo) /\ \A t \in Members(c) : Harmless(t)
  <2>1. CASE runQ # << >>
    <3>1. todo' = << >> \o Tail(todo) BY <2>1, <1>1, ContinueIs DEF Recheck
    <3> QED BY <3>1, OneCall
  <2>2. CASE runQ = << >>
    <3>1. todo' = << Call("select") >> \o Tail(todo) BY <2>2 DEF Recheck, InsteadDo
    <3>2. Call("select") \in Task /\ Harmless(Call("select")) BY LoopCalls DEF Tasks
    <3> QED BY <3>1, <3>2, HarmlessCalls
  <2> QED BY <2>1, <2>2
<1>3. UNCHANGED << queueVars, mailVars, timeVars, ioVars, procVars, pending >>
      /\ wakeywakey' \in BOOLEAN /\ childDone' \in BOOLEAN /\ interrupted' \in BOOLEAN
  BY DEF Recheck, TypeOK, IInv
<1>4. /\ todo' \in Seq(Task) /\ ClosingIsLast(todo)' /\ ExecOk' /\ BuryOk' /\ ResumeOk' /\ ShellsOk'
      /\ CurrentOk'
  BY <1>1, <1>2, <1>3, CallsGoOn DEF queueVars, timeVars, ioVars
<1>5. TypeOK' /\ RunQueueOk'
  BY <1>3, <1>4 DEF IInv, TypeOK, RunQueueOk, queueVars, mailVars, timeVars, ioVars, procVars
<1> QED BY <1>4, <1>5 DEF IInv

LEMMA SelectKeeps == IInv /\ Select => IInv'
<1> SUFFICES ASSUME IInv, Select PROVE IInv' OBVIOUS
<1>1. todo # << >> /\ Head(todo).op \in {"select"} BY DEF Select, NextIs
<1>2. PICK c : Quiet(c) /\ todo' = c \o Tail(todo) /\ \A t \in Members(c) : Harmless(t)
  <2>1. \/ todo' = << Call("children"), TriggerIo(IoWaiters), Call("wakeTimers"), Call("poll") >>
                     \o Tail(todo)
        \/ todo' = << Call("children"), Call("wakeTimers"), Call("poll") >> \o Tail(todo)
    BY DEF Select, InsteadDo
  <2>2. IoWaiters \in SUBSET Proc BY DEF IInv, TypeOK, IoWaiters
  <2>3. TriggerIo(IoWaiters) \in Task /\ Harmless(TriggerIo(IoWaiters)) BY <2>2, LoopCalls
  <2>4. /\ Call("children") \in Task /\ Harmless(Call("children"))
        /\ Call("wakeTimers") \in Task /\ Harmless(Call("wakeTimers"))
        /\ Call("poll") \in Task /\ Harmless(Call("poll"))
    BY LoopCalls DEF Tasks
  <2> QED BY <2>1, <2>3, <2>4, HarmlessCalls
<1>3. UNCHANGED << queueVars, mailVars, timeVars, ioVars, procVars, pending >>
      /\ wakeywakey' \in BOOLEAN /\ childDone' \in BOOLEAN /\ interrupted' \in BOOLEAN
  BY DEF Select, TypeOK, IInv
<1>4. /\ todo' \in Seq(Task) /\ ClosingIsLast(todo)' /\ ExecOk' /\ BuryOk' /\ ResumeOk' /\ ShellsOk'
      /\ CurrentOk'
  BY <1>1, <1>2, <1>3, CallsGoOn DEF queueVars, timeVars, ioVars
<1>5. TypeOK' /\ RunQueueOk'
  BY <1>3, <1>4 DEF IInv, TypeOK, RunQueueOk, queueVars, mailVars, timeVars, ioVars, procVars
<1> QED BY <1>4, <1>5 DEF IInv

\* An alarm that goes off is not that of a process being ended.
LEMMA TimersKeeps == IInv /\ Timers => IInv'
<1> SUFFICES ASSUME IInv, Timers PROVE IInv' OBVIOUS
<1>1. todo # << >> /\ Head(todo).op = "timers" BY DEF Timers, NextIs
<1>2. UNCHANGED << current, exec, live, mailVars, expired, ioVars, childDone, interrupted, procVars, pending >>
  BY DEF Timers
<1>3. CASE \A p \in Proc : alarm[p] # "due"
  <2>1. /\ Continue /\ UNCHANGED << alarm, wakeywakey, state, runQ >>
    BY <1>3 DEF Timers
  <2>2. todo' = << >> \o Tail(todo) BY <1>1, <2>1, ContinueIs
  <2>3. /\ todo' \in Seq(Task) /\ ClosingIsLast(todo)' /\ ExecOk' /\ BuryOk' /\ ResumeOk' /\ ShellsOk'
        /\ CurrentOk'
    BY <1>1, <1>2, <2>1, <2>2, OneCall, CallsGoOn DEF ioVars
  <2>4. TypeOK' /\ RunQueueOk'
    BY <1>2, <2>1, <2>3 DEF IInv, TypeOK, RunQueueOk, mailVars, ioVars, procVars
  <2> QED BY <2>3, <2>4 DEF IInv
<1>4. CASE ~(\A p \in Proc : alarm[p] # "due")
  <2>1. PICK p \in Proc : /\ alarm[p] = "due" /\ alarm' = WithoutEntry(p) /\ wakeywakey' = FALSE
                          /\ MakeRunnable(p, TRUE) /\ todo' = todo
    BY <1>4 DEF Timers
  <2>2. /\ QueueOk(state', runQ') /\ state'[p] = "runnable"
        /\ \A r \in Proc : r # p => state'[r] = state[r]
    BY <2>1, QueueOfInv, Woken
  <2>3. alarm' \in [Proc -> {"none", "set", "due"}] /\ \A r \in Proc : alarm[r] = "none" => alarm'[r] = "none"
    BY <2>1 DEF IInv, TypeOK, WithoutEntry
  <2>4. \A t \in Members(todo) : t.op = "bury" => t.who # p BY <2>1 DEF IInv, BuryOk
  <2>5. todo' \in Seq(Task) /\ ClosingIsLast(todo') BY <2>1 DEF IInv, TypeOK
  <2>6. \A t \in Members(todo') : t.op = "bury" => state[t.who] = "dead" \/ t = Head(todo')
    BY <2>1 DEF IInv, BuryOk
  <2>7. attached' = attached /\ pending' = pending /\ exec' = exec /\ current' = current
    BY <1>2 DEF ioVars
  <2>8. /\ ClosingIsLast(todo)' /\ ExecOk' /\ BuryOk' /\ ResumeOk' /\ ShellsOk' /\ CurrentOk'
    BY <2>1, <2>2, <2>3, <2>4, <2>5, <2>6, <2>7, CallsKept
  <2>9. TypeOK' /\ RunQueueOk'
    BY <1>2, <2>1, <2>2, <2>3, <2>5
    DEF IInv, TypeOK, RunQueueOk, QueueOk, mailVars, ioVars, procVars
  <2> QED BY <2>8, <2>9 DEF IInv
<1> QED BY <1>3, <1>4

\* A process that waits for a file is not being ended, or trigger_io is not next.
LEMMA TriggerKeeps == IInv /\ Trigger => IInv'
<1> SUFFICES ASSUME IInv, Trigger PROVE IInv' OBVIOUS
<1>1. todo # << >> /\ Head(todo).op = "triggerIo" BY DEF Trigger, NextIs
<1>2. UNCHANGED << current, exec, live, mailVars, timeVars, ioVars, sigVars, procVars, pending >>
  BY DEF Trigger
<1>3. Head(todo).set \subseteq Proc BY <1>1, FirstCall DEF Task
<1>4. PICK c : Quiet(c) /\ todo' = c \o Tail(todo) /\ \A t \in Members(c) : Harmless(t)
  <2>1. CASE Head(todo).set = {}
    <3>1. todo' = << >> \o Tail(todo) BY <2>1, <1>1, ContinueIs DEF Trigger
    <3> QED BY <3>1, OneCall
  <2>2. CASE Head(todo).set # {}
    <3>1. PICK p \in Head(todo).set : todo' = << TriggerIo(Head(todo).set \ {p}) >> \o Tail(todo)
      BY <2>2 DEF Trigger, InsteadDo
    <3>2. Head(todo).set \ {p} \in SUBSET Proc BY <1>3
    <3>3. /\ TriggerIo(Head(todo).set \ {p}) \in Task
          /\ Harmless(TriggerIo(Head(todo).set \ {p}))
      BY <3>2, LoopCalls
    <3> QED BY <3>1, <3>3, HarmlessCalls
  <2> QED BY <2>1, <2>2
<1>5. /\ QueueOk(state', runQ')
      /\ \A r \in Proc : \/ state'[r] = state[r]
                         \/ state'[r] = "runnable" /\ state[r] = "wait_io"
  <2>1. CASE UNCHANGED << state, runQ >> BY <2>1, QueueOfInv
  <2>2. CASE ~(UNCHANGED << state, runQ >>)
    <3>1. PICK p \in Head(todo).set : state[p] = "wait_io" /\ MakeRunnable(p, FALSE)
      BY <2>2 DEF Trigger
    <3>2. p \in Proc BY <1>3
    <3> QED BY <3>1, <3>2, QueueOfInv, Woken
  <2> QED BY <2>1, <2>2
<1>6. \A t \in Members(todo) : t.op = "bury" => state[t.who] = "dead"
  BY <1>1, FirstCall DEF IInv, BuryOk
<1>7. /\ todo' \in Seq(Task) /\ ClosingIsLast(todo)' /\ ExecOk' /\ BuryOk' /\ ResumeOk' /\ ShellsOk'
      /\ CurrentOk'
  <2>1. \A r \in Proc :
            \/ state'[r] = state[r]
            \/ state'[r] = "runnable" /\ \A t \in Members(todo) : t.op = "bury" => t.who # r
    BY <1>5, <1>6
  <2>2. alarm' = alarm /\ attached' = attached /\ pending' = pending /\ exec' = exec /\ current' = current
    BY <1>2 DEF timeVars, ioVars
  <2> QED BY <1>1, <1>4, <2>1, <2>2, CallsGoOn
<1>8. TypeOK' /\ RunQueueOk'
  BY <1>2, <1>5, <1>7
  DEF IInv, TypeOK, RunQueueOk, QueueOk, mailVars, timeVars, ioVars, sigVars, procVars
<1> QED BY <1>7, <1>8 DEF IInv

\* The process that ps_resume makes runnable is not being ended.
LEMMA ResumeKeeps == IInv /\ Resume => IInv'
<1> SUFFICES ASSUME IInv, Resume PROVE IInv' OBVIOUS
<1>1. todo # << >> /\ Head(todo).op = "resume" BY DEF Resume, NextIs
<1>2. UNCHANGED << exec, live, mailVars, timeVars, ioVars, sigVars, procVars, pending >>
  BY DEF Resume
<1> DEFINE p == Head(todo).who
<1>3. Head(todo) \in Members(todo) BY <1>1, FirstCall
<1>4. p \in Proc /\ \A t \in Members(todo) : t.op = "bury" => t.who # p
  BY <1>1, <1>3 DEF IInv, ResumeOk
<1>5. MakeRunnable(p, FALSE) /\ current' = IF state[p] = "runnable" \/ runQ = << >> THEN p ELSE Head(runQ)
  BY DEF Resume
<1> HIDE DEF p
<1>6. /\ QueueOk(state', runQ') /\ state'[p] = "runnable"
      /\ \A r \in Proc : r # p => state'[r] = state[r]
  BY <1>4, <1>5, QueueOfInv, Woken
<1>7. todo' = << >> \o Tail(todo) BY <1>1, ContinueIs DEF Resume
<1>8. alarm' = alarm /\ attached' = attached /\ pending' = pending /\ exec' = exec
  BY <1>2 DEF timeVars, ioVars
<1>9. /\ todo' \in Seq(Task) /\ ClosingIsLast(todo)' /\ ExecOk' /\ BuryOk' /\ ResumeOk' /\ ShellsOk'
  BY <1>1, <1>4, <1>6, <1>7, <1>8, OneCall, CallsGoOn
<1>10. current' \in Proc /\ state'[current'] = "runnable"
  <2>1. CASE state[p] = "runnable" \/ runQ = << >> BY <2>1, <1>4, <1>5, <1>6
  <2>2. CASE ~(state[p] = "runnable" \/ runQ = << >>)
    <3>1. Head(runQ) \in Proc /\ state[Head(runQ)] = "runnable"
      BY <2>2, QueueOfInv, FirstIsRunnable
    <3> QED BY <3>1, <2>2, <1>5, <1>6
  <2> QED BY <2>1, <2>2
<1>11. CurrentOk' BY <1>10 DEF CurrentOk
<1>12. TypeOK' /\ RunQueueOk'
  BY <1>2, <1>6, <1>9, <1>10
  DEF IInv, TypeOK, RunQueueOk, QueueOk, mailVars, timeVars, ioVars, sigVars, procVars
<1> QED BY <1>9, <1>11, <1>12 DEF IInv

LEMMA SetCurrentKeeps == IInv /\ SetCurrent => IInv'
<1> SUFFICES ASSUME IInv, SetCurrent PROVE IInv' OBVIOUS
<1>1. todo # << >> /\ Head(todo).op = "setCurrent" BY DEF SetCurrent, NextIs
<1>2. /\ UNCHANGED << state, runQ, exec, live, mailVars, timeVars, ioVars, sigVars, procVars, pending >>
      /\ current' = FirstInQ
  BY DEF SetCurrent
<1>3. todo' = << >> \o Tail(todo) BY <1>1, ContinueIs DEF SetCurrent
<1>4. alarm' = alarm /\ attached' = attached /\ pending' = pending /\ exec' = exec /\ state' = state
  BY <1>2 DEF timeVars, ioVars
<1>5. /\ todo' \in Seq(Task) /\ ClosingIsLast(todo)' /\ ExecOk' /\ BuryOk' /\ ResumeOk' /\ ShellsOk'
  BY <1>1, <1>3, <1>4, OneCall, CallsGoOn
<1>6. current' = NoProc \/ (current' \in Proc /\ state[current'] = "runnable")
  <2>1. CASE runQ = << >> BY <2>1, <1>2 DEF FirstInQ
  <2>2. CASE runQ # << >> BY <2>2, <1>2, QueueOfInv, FirstIsRunnable DEF FirstInQ
  <2> QED BY <2>1, <2>2
<1>7. CurrentOk' BY <1>4, <1>6 DEF CurrentOk
<1>8. TypeOK' /\ RunQueueOk'
  BY <1>2, <1>5, <1>6
  DEF IInv, TypeOK, RunQueueOk, mailVars, timeVars, ioVars, sigVars, procVars
<1> QED BY <1>5, <1>7, <1>8 DEF IInv

(***************************************************************************)
(* Nothing comes after a call that chooses what the emulator executes.     *)
(***************************************************************************)
LEMMA LastCall ==
  ASSUME IInv, todo # << >>, Closing(Head(todo)), Continue, ShellsOk'
  PROVE  /\ todo' \in Seq(Task) /\ Members(todo') = {} /\ ClosingIsLast(todo)'
         /\ BuryOk' /\ ResumeOk'
<1>1. todo' \in Seq(Task) /\ Members(todo') = {} /\ ClosingIsLast(todo)'
  BY FirstCall DEF Continue
<1> QED BY <1>1 DEF BuryOk, ResumeOk

\* The emulator takes over current_process, which is runnable.
LEMMA EnterKeeps == IInv /\ Enter => IInv'
<1> SUFFICES ASSUME IInv, Enter PROVE IInv' OBVIOUS
<1>1. todo # << >> /\ Head(todo).op = "enter" /\ Continue BY DEF Enter, NextIs
<1>2. /\ UNCHANGED << state, runQ, current, live, mailVars, timeVars, ioVars, sigVars, procVars, pending >>
      /\ exec' = current
  BY DEF Enter
<1>3. ShellsOk' BY <1>2 DEF IInv, ShellsOk, IsLive, ioVars
<1>4. /\ todo' \in Seq(Task) /\ Members(todo') = {} /\ ClosingIsLast(todo)'
      /\ BuryOk' /\ ResumeOk'
  BY <1>1, <1>3, LastCall DEF Closing
<1>5. current # NoProc => state[current] = "runnable"
  <2>1. Members(todo) = {Head(todo)} BY <1>1, FirstCall DEF Closing
  <2> QED BY <1>1, <2>1 DEF IInv, CurrentOk
<1>6. ExecOk' /\ CurrentOk' BY <1>2, <1>5 DEF ExecOk, CurrentOk
<1>7. TypeOK' /\ RunQueueOk'
  BY <1>2, <1>4
  DEF IInv, TypeOK, RunQueueOk, mailVars, timeVars, ioVars, sigVars, procVars
<1> QED BY <1>3, <1>4, <1>6, <1>7 DEF IInv

\* The head of the turned queue is runnable.
LEMMA TurnKeeps == IInv /\ Turn => IInv'
<1> SUFFICES ASSUME IInv, Turn PROVE IInv' OBVIOUS
<1>1. todo # << >> /\ Head(todo).op = "rotate" /\ Continue BY DEF Turn, NextIs
<1>2. /\ UNCHANGED << state, live, mailVars, timeVars, ioVars, sigVars, procVars, pending >>
      /\ runQ' = Rotate(runQ) /\ exec' = current'
      /\ current' = IF runQ = << >> THEN NoProc ELSE Head(Rotate(runQ))
  BY DEF Turn
<1>3. ShellsOk' BY <1>2 DEF IInv, ShellsOk, IsLive, ioVars
<1>4. /\ todo' \in Seq(Task) /\ Members(todo') = {} /\ ClosingIsLast(todo)'
      /\ BuryOk' /\ ResumeOk'
  BY <1>1, <1>3, LastCall DEF Closing
<1>5. QueueOk(state', runQ') /\ (runQ # << >> => runQ' # << >>)
  BY <1>2, QueueOfInv, RotateLemma DEF QueueOk
<1>6. current' = NoProc \/ (current' \in Proc /\ state'[current'] = "runnable")
  BY <1>2, <1>5, FirstIsRunnable
<1>7. ExecOk' /\ CurrentOk' BY <1>2, <1>6 DEF ExecOk, CurrentOk
<1>8. TypeOK' /\ RunQueueOk'
  BY <1>2, <1>4, <1>5, <1>6
  DEF IInv, TypeOK, RunQueueOk, QueueOk, mailVars, timeVars, ioVars, sigVars, procVars
<1> QED BY <1>3, <1>4, <1>7, <1>8 DEF IInv

\* The process that is buried has left the run queue.
LEMMA BuryKeeps == IInv /\ Bury => IInv'
<1> SUFFICES ASSUME IInv, Bury PROVE IInv' OBVIOUS
<1>1. todo # << >> /\ Head(todo).op = "bury" BY DEF Bury, NextIs
<1> DEFINE p == Head(todo).who
<1>2. /\ UNCHANGED << runQ, current, exec, mailVars, timeVars, ioVars, sigVars, monitor, processno, pending >>
      /\ state' = [state EXCEPT ![p] = "dead"] /\ live' = live - 1
      /\ creator' = [q \in Proc |-> IF creator[q] = p THEN NoProc ELSE creator[q]]
      /\ todo' = << Call("wakeTimers") >> \o Tail(todo)
  BY DEF Bury, CountWithout, InsteadDo
<1>3. Head(todo) \in Members(todo) BY <1>1, FirstCall
<1>4. p \in Proc /\ state[p] # "runnable" /\ p \notin Members(attached)
  BY <1>1, <1>3 DEF IInv, BuryOk
<1>5. QueueOk(state', runQ') BY <1>2, <1>4, QueueOfInv DEF QueueOk, States
<1>6. Call("wakeTimers") \in Task /\ Harmless(Call("wakeTimers")) BY LoopCalls DEF Tasks
<1>7. /\ Quiet(<< Call("wakeTimers") >>)
      /\ \A t \in Members(<< Call("wakeTimers") >>) : Harmless(t)
  BY <1>6, HarmlessCalls
<1>8. state'[p] = "dead" /\ \A r \in Proc : r # p => state'[r] = state[r]
  BY <1>2, <1>4, QueueOfInv
<1>9. alarm' = alarm /\ attached' = attached /\ pending' = pending /\ exec' = exec /\ current' = current
  BY <1>2 DEF timeVars, ioVars
<1>10. /\ todo' \in Seq(Task) /\ ClosingIsLast(todo)' /\ ExecOk' /\ BuryOk' /\ ResumeOk' /\ ShellsOk'
       /\ CurrentOk'
  BY <1>1, <1>2, <1>4, <1>7, <1>8, <1>9, CallsGoOn
<1>11. RunQueueOk' /\ state' \in [Proc -> States] BY <1>5 DEF RunQueueOk, QueueOk
<1>12. creator' \in [Proc -> Proc \cup {NoProc}] /\ live' \in Int
  BY <1>2 DEF IInv, TypeOK
<1>13. TypeOK'
  BY <1>2, <1>10, <1>11, <1>12 DEF IInv, TypeOK, mailVars, timeVars, ioVars, sigVars
<1> QED BY <1>10, <1>11, <1>13 DEF IInv

LEMMA HousekeepingKeeps == IInv /\ Housekeeping => IInv'
BY ChildrenKeeps, WakeKeeps, TimersKeeps, CheckIoKeeps, TriggerKeeps, ResumeKeeps, AwaitKeeps,
   PollKeeps, RecheckKeeps, SelectKeeps, SetCurrentKeeps, EnterKeeps, TurnKeeps, BuryKeeps
DEF Housekeeping

(***************************************************************************)
(* The steps of the world change no process state and no call.             *)
(***************************************************************************)
LEMMA WorldKeeps == IInv /\ World => IInv'
<1> SUFFICES ASSUME IInv, World PROVE IInv' OBVIOUS
<1> DEFINE Outside ==
      /\ UNCHANGED << queueVars, mailVars, attached, procVars, pending, todo >>
      /\ alarm' \in [Proc -> {"none", "set", "due"}] /\ expired' \in [Proc -> BOOLEAN]
      /\ ready' \subseteq Proc /\ child' \in [Proc -> {"none", "running", "exited"}]
      /\ wakeywakey' \in BOOLEAN /\ childDone' \in BOOLEAN /\ interrupted' \in BOOLEAN
      /\ \A r \in Proc : alarm[r] = "none" => alarm'[r] = "none"
<1>1. Outside
  <2>1. CASE Tick BY <2>1 DEF Tick, IInv, TypeOK, timeVars, ioVars
  <2>2. ASSUME NEW p \in Proc, AlarmDue(p) PROVE Outside
    BY <2>2 DEF AlarmDue, InterruptSelect, IInv, TypeOK, ioVars
  <2>3. ASSUME NEW p \in Proc, FileReady(p) PROVE Outside
    BY <2>3 DEF FileReady, InterruptSelect, IInv, TypeOK, timeVars
  <2>4. ASSUME NEW p \in Proc, ChildExits(p) PROVE Outside
    BY <2>4 DEF ChildExits, InterruptSelect, IInv, TypeOK, timeVars
  <2> HIDE DEF Outside
  <2> QED BY <2>1, <2>2, <2>3, <2>4 DEF World
<1>2. TypeOK' /\ RunQueueOk'
  BY <1>1 DEF IInv, TypeOK, RunQueueOk, queueVars, mailVars, procVars
<1>3. todo' \in Seq(Task) /\ ClosingIsLast(todo') BY <1>1 DEF IInv, TypeOK
<1>4. \A t \in Members(todo') : t.op = "bury" => state[t.who] = "dead" \/ t = Head(todo')
  BY <1>1 DEF IInv, BuryOk
<1>5. attached' = attached /\ pending' = pending /\ exec' = exec /\ current' = current /\ state' = state
  BY <1>1 DEF queueVars
<1>6. /\ ClosingIsLast(todo)' /\ ExecOk' /\ BuryOk' /\ ResumeOk' /\ ShellsOk' /\ CurrentOk'
  BY <1>1, <1>3, <1>4, <1>5, CallsKept
<1> QED BY <1>2, <1>6 DEF IInv

(***************************************************************************)
(* While the emulator executes there is no call to come.                   *)
(***************************************************************************)
LEMMA Executing ==
  ASSUME IInv, todo = << >>, NEW p \in Proc, exec = p
  PROVE  /\ Members(todo) = {} /\ state[p] = "runnable" /\ IsLive(p)
         /\ pending[p] # "shell" => p \notin Members(attached)
         /\ current # NoProc => state[current] = "runnable"
         /\ Members(attached) \subseteq Proc
<1>1. Members(todo) = {} BY OneCall
<1>2. state[p] = "runnable" BY <1>1, SchedulerAssumption DEF IInv, ExecOk
<1>3. Members(attached) \subseteq Proc BY MembersOfSeq DEF IInv, TypeOK
<1> QED BY <1>1, <1>2, <1>3 DEF IInv, ShellsOk, CurrentOk, IsLive

\* The attachments stay as they are.
LEMMA AttachmentsStay ==
  ASSUME IInv, attached' = attached,
         \A r \in Members(attached) : pending'[r] = "shell" /\ IsLive(r)'
  PROVE  ShellsOk'
BY DEF IInv, ShellsOk

\* An instruction after which the emulator goes on at once.
LEMMA GoesOn ==
  ASSUME IInv, todo = << >>, todo' = todo, state' = state, runQ' = runQ, current' = current,
         exec' = exec \/ exec' = NoProc, ShellsOk'
  PROVE  /\ RunQueueOk' /\ ClosingIsLast(todo)' /\ ExecOk' /\ CurrentOk' /\ BuryOk' /\ ResumeOk'
<1>1. Members(todo) = {} /\ Members(todo') = {} BY OneCall
<1> QED BY <1>1 DEF IInv, RunQueueOk, ExecOk, CurrentOk, BuryOk, ResumeOk

\* Calls that end with one that chooses what the emulator executes, or with none.
LEMMA CallsAhead ==
  ASSUME IInv, todo' \in Seq(Task), ClosingIsLast(todo'), QueueOk(state', runQ'),
         \A t \in Members(todo') : Harmless(t) \/ Closing(t),
         \E t \in Members(todo') : Closing(t),
         \E t \in Members(todo') : t.op \in {"setCurrent", "rotate"}
  PROVE  /\ RunQueueOk' /\ ClosingIsLast(todo)' /\ ExecOk' /\ CurrentOk' /\ BuryOk' /\ ResumeOk'
<1>1. \A t \in Members(todo') : t.op # "bury" /\ t.op # "resume" BY DEF Harmless, Closing
<1> QED BY <1>1 DEF QueueOk, RunQueueOk, ExecOk, CurrentOk, BuryOk, ResumeOk

\* ps_pause.
LEMMA Pauses ==
  ASSUME IInv, todo' = Pausing, QueueOk(state', runQ')
  PROVE  /\ todo' \in Seq(Task) /\ RunQueueOk' /\ ClosingIsLast(todo)' /\ ExecOk' /\ CurrentOk'
         /\ BuryOk' /\ ResumeOk'
<1>1. Closing(Call("rotate")) /\ Call("rotate").op \in {"setCurrent", "rotate"}
  BY DEF Closing, Call
<1>2. \A t \in Members(todo') : Harmless(t) \/ Closing(t) BY <1>1, PausingCalls
<1> QED BY <1>1, <1>2, PausingCalls, CallsAhead

\* The calls that may follow when a process has been suspended or ended.
LEMMA EnterCall ==
  /\ << Call("enter") >> \in Seq(Task) /\ ClosingIsLast(<< Call("enter") >>)
  /\ Members(<< Call("enter") >>) = {Call("enter")} /\ Closing(Call("enter"))
<1>1. Call("enter") \in Task /\ Closing(Call("enter")) BY DEF Call, Task, Tasks, Closing
<1> QED BY <1>1, OneCall

\* ps_suspend.
LEMMA Suspends ==
  ASSUME IInv, todo = << >>, NEW p \in Proc, exec = p, NEW reason \in Waiting, NEW then,
         then = << Call("enter") >> \/ then = Pausing, Suspend(p, reason, then)
  PROVE  /\ QueueOk(state', runQ') /\ todo' \in Seq(Task)
         /\ current' = current /\ exec' = exec /\ live' = live
         /\ RunQueueOk' /\ ClosingIsLast(todo)' /\ ExecOk' /\ CurrentOk' /\ BuryOk' /\ ResumeOk'
         /\ \A r \in Proc : IsLive(r) => IsLive(r)'
<1>1. /\ state' = [state EXCEPT ![p] = reason] /\ runQ' = Remove(runQ, p)
      /\ todo' = Suspending \o then /\ current' = current /\ exec' = exec /\ live' = live
  BY DEF Suspend
<1>2. reason \in States \ {"runnable"} BY DEF Waiting, States
<1>3. QueueOk(state', runQ') BY <1>1, <1>2, Executing, QueueOfInv, LeavesQueue
<1>4. /\ then \in Seq(Task) /\ ClosingIsLast(then) /\ \E t \in Members(then) : Closing(t)
      /\ \A t \in Members(then) : Harmless(t) \/ Closing(t)
  <2>1. CASE then = << Call("enter") >> BY <2>1, EnterCall
  <2>2. CASE then = Pausing
    <3>1. Closing(Call("rotate")) BY DEF Closing, Call
    <3> QED BY <2>2, <3>1, PausingCalls
  <2> QED BY <2>1, <2>2
<1>5. /\ todo' \in Seq(Task) /\ ClosingIsLast(todo')
      /\ Members(todo') = Members(Suspending) \cup Members(then)
  BY <1>1, <1>4, SuspendingCalls, CallsBefore
<1>6. Call("setCurrent").op = "setCurrent" BY DEF Call
<1>7. /\ RunQueueOk' /\ ClosingIsLast(todo)' /\ ExecOk' /\ CurrentOk' /\ BuryOk' /\ ResumeOk'
  BY <1>3, <1>4, <1>5, <1>6, SuspendingCalls, CallsAhead
<1>8. \A r \in Proc : IsLive(r) => IsLive(r)' BY <1>1, QueueOfInv DEF IsLive, Waiting
<1> QED BY <1>1, <1>3, <1>5, <1>7, <1>8

(***************************************************************************)
(* The instructions.                                                       *)
(***************************************************************************)
LEMMA TickleKeeps == IInv /\ Tickle => IInv'
<1> SUFFICES ASSUME IInv, Tickle PROVE IInv' OBVIOUS
<1>1. /\ todo' = Pausing
      /\ UNCHANGED << queueVars, mailVars, timeVars, ioVars, sigVars, procVars, pending >>
  BY DEF Tickle
<1>2. state' = state /\ runQ' = runQ /\ attached' = attached /\ pending' = pending
  BY <1>1 DEF queueVars, ioVars
<1>3. /\ todo' \in Seq(Task) /\ RunQueueOk' /\ ClosingIsLast(todo)' /\ ExecOk' /\ CurrentOk'
      /\ BuryOk' /\ ResumeOk'
  BY <1>1, <1>2, QueueOfInv, Pauses
<1>4. ShellsOk' BY <1>2 DEF IInv, ShellsOk, IsLive
<1>5. TypeOK'
  BY <1>1, <1>3 DEF IInv, TypeOK, queueVars, mailVars, timeVars, ioVars, sigVars, procVars
<1> QED BY <1>3, <1>4, <1>5 DEF IInv

\* The new process joins the queue; its record is not attached to a shell.
LEMMA ForkKeeps == ASSUME NEW p \in Proc, NEW q \in Proc PROVE IInv /\ Fork(p, q) => IInv'
<1> SUFFICES ASSUME IInv, Fork(p, q) PROVE IInv' OBVIOUS
<1>1. /\ state' = [state EXCEPT ![q] = "runnable"] /\ runQ' = AddFront(runQ, q)
      /\ pending' = [pending EXCEPT ![q] = "none"]
      /\ current' = q /\ todo' = Pausing /\ ~IsLive(q)
      /\ live' = live + 1 /\ processno' = processno + 1
      /\ creator' = [creator EXCEPT ![q] = p]
      /\ unseen' = [unseen EXCEPT ![q] = 0] /\ seen' = [seen EXCEPT ![q] = 0]
      /\ child' = [child EXCEPT ![q] = "none"]
      /\ UNCHANGED << exec, timeVars, ready, attached, sigVars, monitor >>
  BY DEF Fork
<1>2. QueueOk(state', runQ') BY <1>1, QueueOfInv, JoinsQueue DEF IsLive
<1>3. /\ todo' \in Seq(Task) /\ RunQueueOk' /\ ClosingIsLast(todo)' /\ ExecOk' /\ CurrentOk'
      /\ BuryOk' /\ ResumeOk'
  BY <1>1, <1>2, Pauses
<1>4. Members(attached) \subseteq Proc BY MembersOfSeq DEF IInv, TypeOK
<1>5. q \notin Members(attached) BY <1>1 DEF IInv, ShellsOk
<1>6. ASSUME NEW r \in Members(attached) PROVE pending'[r] = "shell" /\ IsLive(r)'
  BY <1>1, <1>4, <1>5 DEF IInv, TypeOK, ShellsOk, IsLive
<1>7. ShellsOk' BY <1>1, <1>6, AttachmentsStay
<1>8. TypeOK'
  <2>1. TypeOK BY DEF IInv
  <2>2. state' \in [Proc -> States] /\ runQ' \in Seq(Proc) BY <1>2 DEF QueueOk
  <2>3. unseen' \in [Proc -> Nat] /\ seen' \in [Proc -> Nat] BY <1>1, <2>1 DEF TypeOK
  <2>4. /\ pending' \in [Proc -> Retried \cup {"none"}]
        /\ child' \in [Proc -> {"none", "running", "exited"}]
        /\ creator' \in [Proc -> Proc \cup {NoProc}]
    BY <1>1, <2>1 DEF TypeOK
  <2>5. live' \in Int /\ processno' \in Nat /\ current' \in Proc \cup {NoProc}
    BY <1>1, <2>1 DEF TypeOK
  <2> QED BY <1>1, <1>3, <2>1, <2>2, <2>3, <2>4, <2>5 DEF TypeOK, timeVars, sigVars
<1> QED BY <1>3, <1>7, <1>8 DEF IInv

LEMMA SendKeeps ==
  ASSUME NEW p \in Proc, NEW q \in Proc, NEW sender \in Proc, NEW receipt \in BOOLEAN
  PROVE  IInv /\ Send(p, q, sender, receipt) => IInv'
<1> SUFFICES ASSUME IInv, Send(p, q, sender, receipt) PROVE IInv' OBVIOUS
<1>1. /\ WakeReceiver(q) /\ todo' = Pausing
      /\ unseen' = [r \in Proc |-> unseen[r] + (IF r = q THEN 1 ELSE 0)
                                             + (IF receipt /\ r = sender THEN 1 ELSE 0)]
      /\ UNCHANGED << current, exec, live, seen, timeVars, ioVars, sigVars, procVars, pending >>
  BY DEF Send
<1>2. QueueOk(state', runQ') /\ \A r \in Proc : IsLive(r) => IsLive(r)'
  <2>1. CASE state[q] = "wait_msg"
    <3>1. MakeRunnable(q, TRUE) BY <1>1, <2>1 DEF WakeReceiver
    <3>2. /\ QueueOk(state', runQ') /\ state'[q] = "runnable"
          /\ \A r \in Proc : r # q => state'[r] = state[r]
      BY <3>1, QueueOfInv, Woken
    <3> QED BY <3>2 DEF IsLive
  <2>2. CASE state[q] # "wait_msg"
    <3>1. state' = state /\ runQ' = runQ BY <1>1, <2>2 DEF WakeReceiver
    <3> QED BY <3>1, QueueOfInv DEF IsLive
  <2> QED BY <2>1, <2>2
<1>3. /\ todo' \in Seq(Task) /\ RunQueueOk' /\ ClosingIsLast(todo)' /\ ExecOk' /\ CurrentOk'
      /\ BuryOk' /\ ResumeOk'
  BY <1>1, <1>2, Pauses
<1>4. Members(attached) \subseteq Proc BY MembersOfSeq DEF IInv, TypeOK
<1>5. ShellsOk' BY <1>1, <1>2, <1>4 DEF IInv, ShellsOk, ioVars
<1>6. unseen' \in [Proc -> Nat]
  <2> DEFINE more(r) == unseen[r] + (IF r = q THEN 1 ELSE 0)
                                  + (IF receipt /\ r = sender THEN 1 ELSE 0)
  <2>1. unseen \in [Proc -> Nat] BY DEF IInv, TypeOK
  <2>2. ASSUME NEW r \in Proc PROVE more(r) \in Nat
    <3>1. unseen[r] \in Nat BY <2>1
    <3>2. (IF r = q THEN 1 ELSE 0) \in Nat OBVIOUS
    <3>3. (IF receipt /\ r = sender THEN 1 ELSE 0) \in Nat OBVIOUS
    <3> HIDE DEF more
    <3>4. \A a, b, c \in Nat : a + b + c \in Nat OBVIOUS
    <3> QED BY <3>1, <3>2, <3>3, <3>4, Zenon DEF more
  <2>3. unseen' = [r \in Proc |-> more(r)] BY <1>1
  <2> HIDE DEF more
  <2> QED BY <2>2, <2>3
<1>7. TypeOK'
  BY <1>1, <1>2, <1>3, <1>6 DEF IInv, TypeOK, QueueOk, timeVars, ioVars, sigVars, procVars
<1> QED BY <1>3, <1>5, <1>7 DEF IInv

(***************************************************************************)
(* An instruction of a process that is not in m_shell, after which the     *)
(* emulator goes on with it.                                               *)
(***************************************************************************)
LEMMA GoesOnAlone ==
  ASSUME IInv, todo = << >>, NEW p \in Proc, exec = p, pending[p] # "shell",
         UNCHANGED << queueVars, attached, todo >>,
         \A r \in Proc : r # p => pending'[r] = pending[r]
  PROVE  /\ RunQueueOk' /\ ClosingIsLast(todo)' /\ ExecOk' /\ CurrentOk' /\ BuryOk' /\ ResumeOk'
         /\ ShellsOk'
<1>1. state' = state /\ runQ' = runQ /\ current' = current /\ exec' = exec BY DEF queueVars
<1>2. ASSUME NEW r \in Members(attached) PROVE pending'[r] = "shell" /\ IsLive(r)'
  BY <1>1, Executing DEF IInv, ShellsOk, IsLive
<1>3. ShellsOk' BY <1>2, AttachmentsStay
<1> QED BY <1>1, <1>3, GoesOn

(***************************************************************************)
(* A process that is not in m_shell suspends itself.                       *)
(***************************************************************************)
LEMMA SuspendsAlone ==
  ASSUME IInv, todo = << >>, NEW p \in Proc, exec = p, pending[p] # "shell",
         NEW reason \in Waiting, SuspendFor(p, reason), attached' = attached,
         \A r \in Proc : r # p => pending'[r] = pending[r]
  PROVE  /\ QueueOk(state', runQ') /\ todo' \in Seq(Task)
         /\ current' = current /\ exec' = exec /\ live' = live
         /\ RunQueueOk' /\ ClosingIsLast(todo)' /\ ExecOk' /\ CurrentOk' /\ BuryOk' /\ ResumeOk'
         /\ ShellsOk'
<1>1. /\ QueueOk(state', runQ') /\ todo' \in Seq(Task)
      /\ current' = current /\ exec' = exec /\ live' = live
      /\ RunQueueOk' /\ ClosingIsLast(todo)' /\ ExecOk' /\ CurrentOk' /\ BuryOk' /\ ResumeOk'
      /\ \A r \in Proc : IsLive(r) => IsLive(r)'
  BY Suspends DEF SuspendFor
<1>2. ASSUME NEW r \in Members(attached) PROVE pending'[r] = "shell" /\ IsLive(r)'
  BY <1>1, Executing DEF IInv, ShellsOk
<1> QED BY <1>1, <1>2, AttachmentsStay

LEMMA TakeMessageTypes ==
  ASSUME IInv, NEW p \in Proc, TakeMessage(p)
  PROVE  unseen' \in [Proc -> Nat] /\ seen' \in [Proc -> Nat]
<1>1. /\ unseen \in [Proc -> Nat] /\ seen \in [Proc -> Nat] /\ unseen[p] > 0
      /\ \/ /\ unseen' = [unseen EXCEPT ![p] = @ - 1 + seen[p]]
            /\ seen' = [seen EXCEPT ![p] = 0]
         \/ /\ unseen' = [unseen EXCEPT ![p] = @ - 1]
            /\ seen' = [seen EXCEPT ![p] = @ + 1]
  BY DEF TakeMessage, IInv, TypeOK
<1>2. unseen[p] - 1 \in Nat /\ unseen[p] - 1 + seen[p] \in Nat /\ seen[p] + 1 \in Nat BY <1>1
<1> QED BY <1>1, <1>2

LEMMA ReceiveKeeps == ASSUME NEW p \in Proc PROVE IInv /\ Receive(p) => IInv'
<1> SUFFICES ASSUME IInv, Receive(p) PROVE IInv' OBVIOUS
<1>1. todo = << >> /\ exec = p /\ pending[p] # "shell" BY DEF Receive, Escape, Executes
<1>2. CASE TakeMessage(p) /\ UNCHANGED expired
  <2>1. /\ pending' = [pending EXCEPT ![p] = "none"]
        /\ UNCHANGED << queueVars, alarm, ioVars, sigVars, procVars, todo >>
    BY <1>2 DEF TakeMessage
  <2>2. /\ RunQueueOk' /\ ClosingIsLast(todo)' /\ ExecOk' /\ CurrentOk' /\ BuryOk' /\ ResumeOk'
        /\ ShellsOk'
    BY <1>1, <2>1, GoesOnAlone DEF IInv, TypeOK, ioVars
  <2>3. TypeOK'
    BY <1>2, <2>1, TakeMessageTypes DEF IInv, TypeOK, queueVars, ioVars, sigVars, procVars, Retried
  <2> QED BY <2>2, <2>3 DEF IInv
<1>3. CASE ~(TakeMessage(p) /\ UNCHANGED expired)
  <2>1. /\ pending' = [pending EXCEPT ![p] = "receive"] /\ SuspendFor(p, "wait_msg")
        /\ UNCHANGED << mailVars, timeVars, ioVars, sigVars, procVars >>
    BY <1>3 DEF Receive
  <2>2. /\ QueueOk(state', runQ') /\ todo' \in Seq(Task)
        /\ current' = current /\ exec' = exec /\ live' = live
        /\ RunQueueOk' /\ ClosingIsLast(todo)' /\ ExecOk' /\ CurrentOk' /\ BuryOk' /\ ResumeOk'
        /\ ShellsOk'
    BY <1>1, <2>1, SuspendsAlone DEF IInv, TypeOK, ioVars, Waiting
  <2>3. TypeOK'
    BY <2>1, <2>2
    DEF IInv, TypeOK, QueueOk, mailVars, timeVars, ioVars, sigVars, procVars, Retried
  <2> QED BY <2>2, <2>3 DEF IInv
<1> QED BY <1>2, <1>3

LEMMA AwaitAnyKeeps == ASSUME NEW p \in Proc PROVE IInv /\ AwaitAny(p) => IInv'
<1> SUFFICES ASSUME IInv, AwaitAny(p) PROVE IInv' OBVIOUS
<1>1. /\ todo = << >> /\ exec = p /\ pending[p] # "shell"
      /\ UNCHANGED << mailVars, timeVars, ioVars, sigVars, procVars >>
  BY DEF AwaitAny, Escape, Executes
<1>2. CASE unseen[p] + seen[p] > 0
  <2>1. pending' = [pending EXCEPT ![p] = "none"] /\ UNCHANGED << queueVars, todo >>
    BY <1>2 DEF AwaitAny
  <2>2. /\ RunQueueOk' /\ ClosingIsLast(todo)' /\ ExecOk' /\ CurrentOk' /\ BuryOk' /\ ResumeOk'
        /\ ShellsOk'
    BY <1>1, <2>1, GoesOnAlone DEF IInv, TypeOK, ioVars
  <2>3. TypeOK'
    BY <1>1, <2>1
    DEF IInv, TypeOK, queueVars, mailVars, timeVars, ioVars, sigVars, procVars, Retried
  <2> QED BY <2>2, <2>3 DEF IInv
<1>3. CASE ~(unseen[p] + seen[p] > 0)
  <2>1. pending' = [pending EXCEPT ![p] = "any"] /\ SuspendFor(p, "wait_msg")
    BY <1>3 DEF AwaitAny
  <2>2. /\ QueueOk(state', runQ') /\ todo' \in Seq(Task)
        /\ current' = current /\ exec' = exec /\ live' = live
        /\ RunQueueOk' /\ ClosingIsLast(todo)' /\ ExecOk' /\ CurrentOk' /\ BuryOk' /\ ResumeOk'
        /\ ShellsOk'
    BY <1>1, <2>1, SuspendsAlone DEF IInv, TypeOK, ioVars, Waiting
  <2>3. TypeOK'
    BY <1>1, <2>1, <2>2
    DEF IInv, TypeOK, QueueOk, mailVars, timeVars, ioVars, sigVars, procVars, Retried
  <2> QED BY <2>2, <2>3 DEF IInv
<1> QED BY <1>2, <1>3

\* An escape with a deadline; what it does to the messages is up to the caller.
LEMMA UntilDeadlineKeeps ==
  ASSUME NEW p \in Proc, NEW op \in Retried \ {"shell"}, NEW reason \in Waiting, IInv,
         todo = << >>, exec = p, pending[p] # "shell", UntilDeadline(p, op, reason),
         UNCHANGED << mailVars, ioVars, procVars >>
  PROVE  IInv'
<1>1. CASE /\ pending' = [pending EXCEPT ![p] = "none"] /\ expired' = [expired EXCEPT ![p] = FALSE]
           /\ UNCHANGED << queueVars, todo, alarm, sigVars >>
  <2>1. /\ RunQueueOk' /\ ClosingIsLast(todo)' /\ ExecOk' /\ CurrentOk' /\ BuryOk' /\ ResumeOk'
        /\ ShellsOk'
    BY <1>1, GoesOnAlone DEF IInv, TypeOK, ioVars
  <2>2. TypeOK'
    BY <1>1 DEF IInv, TypeOK, queueVars, mailVars, ioVars, sigVars, procVars, Retried
  <2> QED BY <2>1, <2>2 DEF IInv
<1>2. CASE /\ pending' = [pending EXCEPT ![p] = op] /\ (SetAlarm(p) \/ AlarmOvertaken(p))
           /\ SuspendFor(p, reason)
  <2>1. /\ QueueOk(state', runQ') /\ todo' \in Seq(Task)
        /\ current' = current /\ exec' = exec /\ live' = live
        /\ RunQueueOk' /\ ClosingIsLast(todo)' /\ ExecOk' /\ CurrentOk' /\ BuryOk' /\ ResumeOk'
        /\ ShellsOk'
    BY <1>2, SuspendsAlone DEF IInv, TypeOK, ioVars
  <2>2. /\ alarm' \in [Proc -> {"none", "set", "due"}] /\ expired' \in [Proc -> BOOLEAN]
        /\ wakeywakey' \in BOOLEAN /\ childDone' \in BOOLEAN /\ interrupted' \in BOOLEAN
    BY <1>2 DEF SetAlarm, AlarmOvertaken, IInv, TypeOK, sigVars
  <2>3. TypeOK'
    BY <1>2, <2>1, <2>2 DEF IInv, TypeOK, QueueOk, mailVars, ioVars, procVars
  <2> QED BY <2>1, <2>3 DEF IInv
<1> QED BY <1>1, <1>2 DEF UntilDeadline

LEMMA ReceiveUntilKeeps == ASSUME NEW p \in Proc PROVE IInv /\ ReceiveUntil(p) => IInv'
<1> SUFFICES ASSUME IInv, ReceiveUntil(p) PROVE IInv' OBVIOUS
<1>1. todo = << >> /\ exec = p /\ pending[p] # "shell" BY DEF ReceiveUntil, Escape, Executes
<1>2. CASE TakeMessage(p) /\ expired' = [expired EXCEPT ![p] = FALSE]
  <2>1. /\ pending' = [pending EXCEPT ![p] = "none"]
        /\ UNCHANGED << queueVars, alarm, ioVars, sigVars, procVars, todo >>
    BY <1>2 DEF TakeMessage
  <2>2. /\ RunQueueOk' /\ ClosingIsLast(todo)' /\ ExecOk' /\ CurrentOk' /\ BuryOk' /\ ResumeOk'
        /\ ShellsOk'
    BY <1>1, <2>1, GoesOnAlone DEF IInv, TypeOK, ioVars
  <2>3. TypeOK'
    BY <1>2, <2>1, TakeMessageTypes DEF IInv, TypeOK, queueVars, ioVars, sigVars, procVars, Retried
  <2> QED BY <2>2, <2>3 DEF IInv
<1>3. CASE /\ UntilDeadline(p, "timeout", "wait_msg") /\ UNCHANGED << mailVars, ioVars, procVars >>
  BY <1>1, <1>3, UntilDeadlineKeeps DEF Retried, Waiting
<1> QED BY <1>2, <1>3 DEF ReceiveUntil

LEMMA SleepKeeps == ASSUME NEW p \in Proc PROVE IInv /\ Sleep(p) => IInv'
<1> SUFFICES ASSUME IInv, Sleep(p) PROVE IInv' OBVIOUS
<1>1. /\ todo = << >> /\ exec = p /\ pending[p] # "shell"
      /\ UntilDeadline(p, "sleep", "wait_timer") /\ UNCHANGED << mailVars, ioVars, procVars >>
  BY DEF Sleep, Escape, Executes
<1> QED BY <1>1, UntilDeadlineKeeps DEF Retried, Waiting

LEMMA DelayKeeps == ASSUME NEW p \in Proc PROVE IInv /\ Delay(p) => IInv'
<1> SUFFICES ASSUME IInv, Delay(p) PROVE IInv' OBVIOUS
<1>1. /\ todo = << >> /\ exec = p /\ pending[p] # "shell"
      /\ alarm' = [alarm EXCEPT ![p] = "set"] /\ SuspendFor(p, "wait_timer")
      /\ UNCHANGED << expired, mailVars, ioVars, sigVars, procVars, pending >>
  BY DEF Delay, Fresh, Executes
<1>2. /\ QueueOk(state', runQ') /\ todo' \in Seq(Task)
      /\ current' = current /\ exec' = exec /\ live' = live
      /\ RunQueueOk' /\ ClosingIsLast(todo)' /\ ExecOk' /\ CurrentOk' /\ BuryOk' /\ ResumeOk'
      /\ ShellsOk'
  BY <1>1, SuspendsAlone DEF ioVars, Waiting
<1>3. TypeOK' BY <1>1, <1>2 DEF IInv, TypeOK, QueueOk, mailVars, ioVars, sigVars, procVars
<1> QED BY <1>2, <1>3 DEF IInv

LEMMA FileIoKeeps == ASSUME NEW p \in Proc PROVE IInv /\ FileIo(p) => IInv'
<1> SUFFICES ASSUME IInv, FileIo(p) PROVE IInv' OBVIOUS
<1>1. /\ todo = << >> /\ exec = p /\ pending[p] # "shell"
      /\ UNCHANGED << mailVars, timeVars, child, attached, sigVars, procVars >>
  BY DEF FileIo, Escape, Executes
<1>2. CASE p \in ready
  <2>1. /\ ready' = ready \ {p} /\ pending' = [pending EXCEPT ![p] = "none"]
        /\ UNCHANGED << queueVars, todo >>
    BY <1>2 DEF FileIo
  <2>2. /\ RunQueueOk' /\ ClosingIsLast(todo)' /\ ExecOk' /\ CurrentOk' /\ BuryOk' /\ ResumeOk'
        /\ ShellsOk'
    BY <1>1, <2>1, GoesOnAlone DEF IInv, TypeOK
  <2>3. TypeOK'
    BY <1>1, <2>1 DEF IInv, TypeOK, queueVars, mailVars, timeVars, sigVars, procVars, Retried
  <2> QED BY <2>2, <2>3 DEF IInv
<1>3. CASE p \notin ready
  <2>1. pending' = [pending EXCEPT ![p] = "io"] /\ SuspendFor(p, "wait_io") /\ ready' = ready
    BY <1>3 DEF FileIo
  <2>2. /\ QueueOk(state', runQ') /\ todo' \in Seq(Task)
        /\ current' = current /\ exec' = exec /\ live' = live
        /\ RunQueueOk' /\ ClosingIsLast(todo)' /\ ExecOk' /\ CurrentOk' /\ BuryOk' /\ ResumeOk'
        /\ ShellsOk'
    BY <1>1, <2>1, SuspendsAlone DEF IInv, TypeOK, Waiting
  <2>3. TypeOK'
    BY <1>1, <2>1, <2>2
    DEF IInv, TypeOK, QueueOk, mailVars, timeVars, sigVars, procVars, Retried
  <2> QED BY <2>2, <2>3 DEF IInv
<1> QED BY <1>2, <1>3

\* m_shell: the attachments it adds to and takes from.
LEMMA AttachedOnce ==
  ASSUME IInv, NEW p \in Proc
  PROVE  /\ Attached(p) \in Seq(Proc) /\ NoDuplicates(Attached(p))
         /\ Members(Attached(p)) = Members(attached) \cup {p}
         /\ Detached(p) \in Seq(Proc) /\ NoDuplicates(Detached(p))
         /\ Members(Detached(p)) = Members(attached) \ {p}
<1>1. attached \in Seq(Proc) /\ NoDuplicates(attached) BY DEF IInv, TypeOK, ShellsOk
<1>2. CASE p \in Members(attached)
  <2>1. Attached(p) = attached BY <1>2 DEF Attached
  <2>2. /\ Detached(p) \in Seq(Proc) /\ NoDuplicates(Detached(p))
        /\ Members(Detached(p)) = Members(attached) \ {p}
    BY <1>1, <1>2, WithoutPlaceLemma DEF Detached
  <2> QED BY <1>1, <1>2, <2>1, <2>2
<1>3. CASE p \notin Members(attached)
  <2>1. Attached(p) = << p >> \o attached /\ Detached(p) = attached
    BY <1>3 DEF Attached, Detached
  <2> DEFINE b == << p >>
             r == b \o attached
  <2>2. b \in Seq(Proc) /\ Len(b) = 1 /\ b[1] = p OBVIOUS
  <2> HIDE DEF b
  <2>3. Members(b) = {p}
    <3>1. DOMAIN b = {1} BY <2>2, LenProperties
    <3> QED BY <2>2, <3>1 DEF Members
  <2>4. r \in Seq(Proc) /\ Members(r) = Members(attached) \cup {p}
    BY <1>1, <2>2, <2>3, MembersOfConcat
  <2>5. /\ Len(r) = 1 + Len(attached) /\ Len(attached) \in Nat
        /\ \A i \in 1..(1 + Len(attached)) : r[i] = IF i <= 1 THEN p ELSE attached[i - 1]
    <3>1. /\ Len(r) = Len(b) + Len(attached) /\ Len(attached) \in Nat
          /\ \A i \in 1..Len(b) + Len(attached) :
               r[i] = IF i <= Len(b) THEN b[i] ELSE attached[i - Len(b)]
      BY <1>1, <2>2, ConcatProperties, LenProperties
    <3> HIDE DEF r
    <3>2. \A i \in 1..(1 + Len(attached)) : i <= 1 => i = 1 BY <3>1
    <3> QED BY <2>2, <3>1, <3>2
  <2>6. DOMAIN r = 1..Len(r) /\ DOMAIN attached = 1..Len(attached)
    BY <1>1, <2>4, LenProperties
  <2> HIDE DEF r
  <2>7. NoDuplicates(r)
    <3> SUFFICES ASSUME NEW i \in 1..Len(r), NEW j \in 1..Len(r), r[i] = r[j] PROVE i = j
      BY <2>6 DEF NoDuplicates
    <3>1. \A k \in 1..Len(r) : k # 1 => /\ k - 1 \in DOMAIN attached /\ r[k] = attached[k - 1]
                                        /\ attached[k - 1] # p
      <4> SUFFICES ASSUME NEW k \in 1..Len(r), k # 1
                   PROVE  k - 1 \in DOMAIN attached /\ r[k] = attached[k - 1] /\ attached[k - 1] # p
        OBVIOUS
      <4>1. k - 1 \in DOMAIN attached /\ r[k] = attached[k - 1] BY <2>5, <2>6
      <4>2. attached[k - 1] \in Members(attached) BY <4>1 DEF Members
      <4> QED BY <4>1, <4>2, <1>3
    <3>2. r[1] = p BY <2>5
    <3>3. CASE i = 1 \/ j = 1 BY <3>1, <3>2, <3>3
    <3>4. CASE i # 1 /\ j # 1
      <4>1. i - 1 = j - 1 BY <3>1, <3>4, <1>1 DEF NoDuplicates
      <4> QED BY <4>1, <2>5
    <3> QED BY <3>3, <3>4
  <2>8. Attached(p) = r BY <2>1 DEF r, b
  <2> QED BY <1>1, <1>3, <2>1, <2>4, <2>7, <2>8
<1> QED BY <1>2, <1>3

LEMMA ShellKeeps == ASSUME NEW p \in Proc PROVE IInv /\ Shell(p) => IInv'
<1> SUFFICES ASSUME IInv, Shell(p) PROVE IInv' OBVIOUS
<1>1. /\ todo = << >> /\ exec = p /\ "shell" \in Ops
      /\ UNCHANGED << ready, mailVars, timeVars, sigVars, procVars >>
  BY DEF Shell, Escape, Executes
<1>2. /\ pending \in [Proc -> Retried \cup {"none"}]
      /\ \A r \in Members(attached) : r \in Proc /\ pending[r] = "shell" /\ IsLive(r)
      /\ state[p] = "runnable"
  BY <1>1, Executing DEF IInv, TypeOK, ShellsOk
<1>3. CASE child[p] = "exited"
  <2>1. /\ child' = [child EXCEPT ![p] = "none"] /\ attached' = Detached(p)
        /\ pending' = [pending EXCEPT ![p] = "none"] /\ UNCHANGED << queueVars, todo >>
    BY <1>3 DEF Shell
  <2>2. ShellsOk' BY <1>1, <1>2, <2>1, AttachedOnce DEF ShellsOk, IsLive, queueVars
  <2>3. state' = state /\ runQ' = runQ /\ current' = current /\ exec' = exec /\ todo' = todo
    BY <2>1 DEF queueVars
  <2>4. /\ RunQueueOk' /\ ClosingIsLast(todo)' /\ ExecOk' /\ CurrentOk' /\ BuryOk' /\ ResumeOk'
    BY <1>1, <2>2, <2>3, GoesOn
  <2>5. TypeOK'
    BY <1>1, <2>1, AttachedOnce
    DEF IInv, TypeOK, queueVars, mailVars, timeVars, sigVars, procVars, Retried
  <2> QED BY <2>2, <2>4, <2>5 DEF IInv
<1>4. CASE child[p] # "exited"
  <2>1. /\ child' = [child EXCEPT ![p] = "running"] /\ attached' = Attached(p)
        /\ pending' = [pending EXCEPT ![p] = "shell"] /\ Suspend(p, "wait_child", Pausing)
    BY <1>4 DEF Shell
  <2>2. /\ QueueOk(state', runQ') /\ todo' \in Seq(Task)
        /\ current' = current /\ exec' = exec /\ live' = live
        /\ RunQueueOk' /\ ClosingIsLast(todo)' /\ ExecOk' /\ CurrentOk' /\ BuryOk' /\ ResumeOk'
        /\ \A r \in Proc : IsLive(r) => IsLive(r)'
    BY <1>1, <2>1, Suspends DEF Waiting
  <2>3. IsLive(p) BY <1>2 DEF IsLive
  <2>4. \A r \in Members(attached') : r \in Proc /\ pending'[r] = "shell" /\ IsLive(r)'
    BY <1>2, <2>1, <2>2, <2>3, AttachedOnce
  <2>5. ShellsOk' BY <1>1, <2>1, <2>4, AttachedOnce DEF ShellsOk
  <2>6. TypeOK'
    BY <1>1, <2>1, <2>2, AttachedOnce
    DEF IInv, TypeOK, QueueOk, mailVars, timeVars, sigVars, procVars, Retried
  <2> QED BY <2>2, <2>5, <2>6 DEF IInv
<1> QED BY <1>3, <1>4

(***************************************************************************)
(* ps_terminate of a process that is not in m_shell.                       *)
(***************************************************************************)
LEMMA TerminateKeeps ==
  ASSUME IInv, todo = << >>, NEW p \in Proc, exec = p, NEW q \in Proc, IsLive(q),
         q \notin Members(attached), NEW then, Terminate(q, then),
         \/ then = << >> /\ q # p
         \/ then = << Call("enter") >> \/ then = Pausing
  PROVE  IInv'
<1> DEFINE stateT == IF ToldMonitor THEN [state EXCEPT ![monitor] = "runnable"] ELSE state
           runQT  == IF ToldMonitor THEN AddFront(runQ, monitor) ELSE runQ
           mail   == [unseen EXCEPT ![q] = 0]
<1>1. /\ alarm' = NoAlarmOf(q) /\ expired' = [expired EXCEPT ![q] = FALSE]
      /\ unseen' = (IF monitor = NoProc THEN mail ELSE [mail EXCEPT ![monitor] = @ + 1])
      /\ seen' = [seen EXCEPT ![q] = 0] /\ pending' = [pending EXCEPT ![q] = "none"]
      /\ UNCHANGED << current, exec, live, ioVars, sigVars, procVars >>
      /\ IF stateT[q] = "runnable"
           THEN /\ state' = [stateT EXCEPT ![q] = "dead"] /\ runQ' = Remove(runQT, q)
                /\ todo' = << Call("await"), Call("setCurrent"), CallOn("bury", q) >> \o then
           ELSE /\ state' = stateT /\ runQ' = runQT /\ todo' = << CallOn("bury", q) >> \o then
  BY DEF Terminate
<1>2. /\ QueueOk(stateT, runQT)
      /\ \A r \in Proc : stateT[r] = state[r] \/ (state[r] = "wait_msg" /\ stateT[r] = "runnable")
  <2>1. CASE ToldMonitor
    <3>1. monitor \in Proc /\ state[monitor] = "wait_msg" BY <2>1 DEF ToldMonitor, IInv, TypeOK
    <3>2. QueueOk(stateT, runQT) BY <2>1, <3>1, QueueOfInv, JoinsQueue
    <3> QED BY <2>1, <3>1, <3>2, QueueOfInv
  <2>2. CASE ~ToldMonitor BY <2>2, QueueOfInv
  <2> QED BY <2>1, <2>2
<1> HIDE DEF stateT, runQT
<1>3. /\ then \in Seq(Task) /\ ClosingIsLast(then)
      /\ \A t \in Members(then) : Harmless(t) \/ Closing(t)
      /\ p = q => \E t \in Members(then) : Closing(t)
  <2>1. CASE then = << >> /\ q # p BY <2>1, OneCall
  <2>2. CASE then = << Call("enter") >> BY <2>2, EnterCall
  <2>3. CASE then = Pausing
    <3>1. Closing(Call("rotate")) BY DEF Closing, Call
    <3> QED BY <2>3, <3>1, PausingCalls
  <2> QED BY <2>1, <2>2, <2>3
<1> DEFINE b == CallOn("bury", q)
           a == Call("await")
           c == Call("setCurrent")
<1>4. /\ a \in Task /\ b \in Task /\ c \in Task /\ ~Closing(a) /\ ~Closing(b) /\ ~Closing(c)
      /\ a.op = "await" /\ c.op = "setCurrent" /\ b.op = "bury" /\ b.who = q
  BY DEF Call, CallOn, Task, Tasks, Closing
<1> HIDE DEF a, b, c
<1>5. Quiet(<< a, c, b >>) /\ Members(<< a, c, b >>) = {a, c, b} BY <1>4, ThreeCalls
<1>6. Quiet(<< b >>) /\ Members(<< b >>) = {b} BY <1>4, OneCall
<1>7. Members(attached) \subseteq Proc BY Executing
<1>8. alarm' \in [Proc -> {"none", "set", "due"}] /\ alarm'[q] = "none"
  BY <1>1 DEF NoAlarmOf, IInv, TypeOK
<1>9. /\ QueueOk(state', runQ') /\ state'[q] # "runnable"
      /\ \A r \in Proc : r # q => \/ state'[r] = state[r]
                                  \/ state'[r] = "runnable"
  <2>1. CASE stateT[q] = "runnable"
    <3>1. state' = [stateT EXCEPT ![q] = "dead"] /\ runQ' = Remove(runQT, q) BY <1>1, <2>1
    <3>2. QueueOk(state', runQ') BY <1>2, <2>1, <3>1, LeavesQueue DEF States
    <3>3. stateT \in [Proc -> States] BY <1>2 DEF QueueOk
    <3> QED BY <1>2, <3>1, <3>2, <3>3
  <2>2. CASE stateT[q] # "runnable" BY <1>1, <1>2, <2>2
  <2> QED BY <2>1, <2>2
<1>10. /\ todo' \in Seq(Task) /\ ClosingIsLast(todo') /\ b \in Members(todo')
       /\ \A t \in Members(todo') : t = b \/ t.op \notin {"bury", "resume"}
       /\ Members(then) \subseteq Members(todo')
       /\ \/ state'[q] = "dead" /\ c \in Members(todo')
          \/ b = Head(todo') /\ state[q] # "runnable"
  <2>1. CASE stateT[q] = "runnable"
    <3>1. todo' = << a, c, b >> \o then /\ state' = [stateT EXCEPT ![q] = "dead"]
      BY <1>1, <2>1 DEF a, b, c
    <3>2. /\ todo' \in Seq(Task) /\ ClosingIsLast(todo')
          /\ Members(todo') = {a, c, b} \cup Members(then)
      BY <1>3, <1>5, <3>1, CallsBefore
    <3>3. stateT \in [Proc -> States] BY <1>2 DEF QueueOk
    <3> QED BY <1>3, <1>4, <3>1, <3>2, <3>3 DEF Harmless, Closing
  <2>2. CASE stateT[q] # "runnable"
    <3>1. todo' = << b >> \o then BY <1>1, <2>2 DEF b
    <3>2. /\ todo' \in Seq(Task) /\ ClosingIsLast(todo')
          /\ Members(todo') = {b} \cup Members(then)
      BY <1>3, <1>6, <3>1, CallsBefore
    <3>3. Head(todo') = b BY <1>3, <1>4, <3>1
    <3>4. state[q] # "runnable" BY <1>2, <2>2
    <3> QED BY <1>3, <1>4, <3>2, <3>3, <3>4 DEF Harmless, Closing
  <2> QED BY <2>1, <2>2
<1>11. /\ current' = current /\ exec' = exec /\ attached' = attached BY <1>1 DEF ioVars
<1>12. ExecOk'
  <2>1. CASE p = q BY <2>1, <1>3, <1>10 DEF ExecOk
  <2>2. CASE p # q BY <2>2, <1>9, <1>11, Executing DEF ExecOk
  <2> QED BY <2>1, <2>2
<1>13. CurrentOk'
  <2>1. current \in Proc \cup {NoProc} /\ (current # NoProc => state[current] = "runnable")
    BY Executing DEF IInv, TypeOK
  <2>2. CASE current = NoProc \/ current # q BY <2>1, <2>2, <1>9, <1>11 DEF CurrentOk
  <2>3. CASE current # NoProc /\ current = q BY <2>1, <2>3, <1>4, <1>10, <1>11 DEF CurrentOk
  <2> QED BY <2>2, <2>3
<1>14. BuryOk'
  <2>1. state'[q] = "dead" \/ b = Head(todo') BY <1>10
  <2> QED BY <2>1, <1>4, <1>8, <1>9, <1>10, <1>11 DEF BuryOk
<1>15. ResumeOk' BY <1>4, <1>10 DEF ResumeOk
<1>16. ShellsOk'
  <2>1. ASSUME NEW r \in Members(attached) PROVE pending'[r] = "shell" /\ IsLive(r)'
    <3>1. r \in Proc /\ r # q /\ pending[r] = "shell" /\ IsLive(r)
      BY <1>7 DEF IInv, ShellsOk
    <3> QED BY <3>1, <1>1, <1>9 DEF IInv, TypeOK, IsLive
  <2> QED BY <2>1, <1>11, AttachmentsStay
<1>17. unseen' \in [Proc -> Nat]
  <2>1. mail \in [Proc -> Nat] BY DEF IInv, TypeOK
  <2>2. CASE monitor = NoProc BY <2>1, <2>2, <1>1
  <2>3. CASE monitor # NoProc
    <3>1. monitor \in Proc BY <2>3 DEF IInv, TypeOK
    <3>2. unseen' = [mail EXCEPT ![monitor] = @ + 1] BY <2>3, <1>1
    <3> HIDE DEF mail
    <3>3. mail[monitor] + 1 \in Nat BY <2>1, <3>1
    <3> QED BY <2>1, <3>1, <3>2, <3>3
  <2> QED BY <2>2, <2>3
<1>18. RunQueueOk' BY <1>9 DEF QueueOk, RunQueueOk
<1>19. TypeOK'
  BY <1>1, <1>8, <1>9, <1>10, <1>17 DEF IInv, TypeOK, QueueOk, ioVars, sigVars, procVars, Retried
<1> QED BY <1>10, <1>12, <1>13, <1>14, <1>15, <1>16, <1>18, <1>19 DEF IInv

LEMMA DieKeeps == ASSUME NEW p \in Proc PROVE IInv /\ Die(p) => IInv'
<1> SUFFICES ASSUME IInv, Die(p) PROVE IInv' OBVIOUS
<1>1. todo = << >> /\ exec = p /\ pending[p] = "none" /\ Terminate(p, << Call("enter") >>)
  BY DEF Die, Fresh, Executes
<1>2. IsLive(p) /\ p \notin Members(attached) BY <1>1, Executing
<1> QED BY <1>1, <1>2, TerminateKeeps

\* No process is in m_shell where programs kill and interrupt.
LEMMA NobodyAttached ==
  ASSUME IInv, ShellsApart, Ops \cap {"kill", "interrupt"} # {}
  PROVE  attached = << >> /\ Members(attached) = {}
<1>1. attached = << >> BY DEF IInv, ShellsOk, ShellsApart
<1> QED BY <1>1, OneCall

LEMMA KillKeeps ==
  ASSUME ShellsApart, NEW p \in Proc, NEW q \in Proc PROVE IInv /\ Kill(p, q) => IInv'
<1> SUFFICES ASSUME IInv, Kill(p, q) PROVE IInv' OBVIOUS
<1>1. /\ todo = << >> /\ exec = p /\ "kill" \in Ops
      /\ IsLive(q) /\ q # p /\ Terminate(q, << >>)
  BY DEF Kill, Fresh, Executes
<1>2. q \notin Members(attached) BY <1>1, NobodyAttached
<1> QED BY <1>1, <1>2, TerminateKeeps

\* The engine ends.
LEMMA EngineEnds ==
  ASSUME IInv, todo = << >>, exec' = NoProc,
         UNCHANGED << state, runQ, current, live, mailVars, timeVars, ioVars, sigVars, procVars,
                      pending, todo >>
  PROVE  IInv'
<1>1. attached' = attached /\ pending' = pending /\ state' = state BY DEF ioVars
<1>2. ShellsOk' BY <1>1 DEF IInv, ShellsOk, IsLive
<1>3. /\ RunQueueOk' /\ ClosingIsLast(todo)' /\ ExecOk' /\ CurrentOk' /\ BuryOk' /\ ResumeOk'
  BY <1>2, GoesOn
<1>4. TypeOK' BY DEF IInv, TypeOK, mailVars, timeVars, ioVars, sigVars, procVars
<1> QED BY <1>2, <1>3, <1>4 DEF IInv

LEMMA InterruptKeeps ==
  ASSUME ShellsApart, NEW p \in Proc, NEW q \in Proc PROVE IInv /\ Interrupt(p, q) => IInv'
<1> SUFFICES ASSUME IInv, Interrupt(p, q) PROVE IInv' OBVIOUS
<1>1. todo = << >> /\ exec = p /\ "interrupt" \in Ops /\ IsLive(q) /\ q # p
  BY DEF Interrupt, Fresh, Executes
<1>2. attached = << >> /\ Members(attached) = {} BY <1>1, NobodyAttached
<1>3. CASE /\ pending' = [pending EXCEPT ![q] = "none"] /\ expired' = [expired EXCEPT ![q] = FALSE]
           /\ todo' = (IF state[q] = "runnable" THEN << >> ELSE Resuming(q)) \o Pausing
           /\ UNCHANGED << queueVars, mailVars, alarm, ioVars, sigVars, procVars >>
  <2> DEFINE c == IF state[q] = "runnable" THEN << >> ELSE Resuming(q)
  <2>1. Quiet(c) /\ \A t \in Members(c) : Harmless(t) \/ t = CallOn("resume", q)
    BY OneCall, ResumingCalls
  <2>2. todo' = c \o Pausing BY <1>3
  <2> HIDE DEF c
  <2>3. /\ todo' \in Seq(Task) /\ ClosingIsLast(todo') /\ Call("rotate") \in Members(todo')
        /\ \A t \in Members(todo') : Harmless(t) \/ Closing(t) \/ t = CallOn("resume", q)
    <3>1. /\ todo' \in Seq(Task) /\ ClosingIsLast(todo')
          /\ Members(todo') = Members(c) \cup Members(Pausing)
      BY <2>1, <2>2, PausingCalls, CallsBefore
    <3>2. Closing(Call("rotate")) BY DEF Closing, Call
    <3> QED BY <2>1, <3>1, <3>2, PausingCalls
  <2>4. Closing(Call("rotate")) /\ Call("rotate").op = "rotate" BY DEF Closing, Call
  <2>5. CallOn("resume", q).op = "resume" /\ CallOn("resume", q).who = q BY DEF CallOn
  <2>6. state' = state /\ runQ' = runQ /\ attached' = attached BY <1>3 DEF queueVars, ioVars
  <2>7. RunQueueOk' /\ ClosingIsLast(todo)' /\ ExecOk' /\ CurrentOk'
    BY <2>3, <2>4, <2>6 DEF IInv, RunQueueOk, ExecOk, CurrentOk
  <2>8. \A t \in Members(todo') : t.op # "bury" /\ (t.op = "resume" => t.who = q)
    BY <2>3, <2>5 DEF Harmless, Closing
  <2>9. BuryOk' /\ ResumeOk' BY <2>8 DEF BuryOk, ResumeOk
  <2>10. ShellsOk' BY <1>2, <2>6, AttachmentsStay
  <2>11. TypeOK'
    BY <1>3, <2>3 DEF IInv, TypeOK, queueVars, mailVars, ioVars, sigVars, procVars, Retried
  <2> QED BY <2>7, <2>9, <2>10, <2>11 DEF IInv
<1>4. CASE Terminate(q, Pausing) BY <1>1, <1>2, <1>4, TerminateKeeps
<1>5. CASE /\ exec' = NoProc
           /\ UNCHANGED << state, runQ, current, live, mailVars, timeVars, ioVars, sigVars,
                           procVars, pending, todo >>
  BY <1>1, <1>5, EngineEnds
<1> QED BY <1>3, <1>4, <1>5 DEF Interrupt

LEMMA SetMonitorKeeps ==
  ASSUME NEW p \in Proc, NEW q \in Proc PROVE IInv /\ SetMonitor(p, q) => IInv'
<1> SUFFICES ASSUME IInv, SetMonitor(p, q) PROVE IInv' OBVIOUS
<1>1. /\ todo = << >> /\ exec = p /\ pending[p] = "none" /\ monitor' = q
      /\ UNCHANGED << queueVars, mailVars, timeVars, ioVars, sigVars, creator, processno, pending, todo >>
  BY DEF SetMonitor, Fresh, Executes
<1>2. /\ RunQueueOk' /\ ClosingIsLast(todo)' /\ ExecOk' /\ CurrentOk' /\ BuryOk' /\ ResumeOk'
      /\ ShellsOk'
  BY <1>1, GoesOnAlone DEF ioVars
<1>3. TypeOK' BY <1>1 DEF IInv, TypeOK, queueVars, mailVars, timeVars, ioVars, sigVars
<1> QED BY <1>2, <1>3 DEF IInv

LEMMA ProcessStepKeeps == ASSUME ShellsApart PROVE IInv /\ ProcessStep => IInv'
<1> SUFFICES ASSUME IInv, ProcessStep PROVE IInv' OBVIOUS
<1>1. CASE RootFails BY <1>1, EngineEnds DEF RootFails, Fresh, Executes
<1>2. ASSUME NEW p \in Proc,
             \/ Receive(p) \/ AwaitAny(p) \/ ReceiveUntil(p)
             \/ Sleep(p) \/ Delay(p) \/ FileIo(p) \/ Shell(p) \/ Die(p)
      PROVE  IInv'
  BY <1>2, ReceiveKeeps, AwaitAnyKeeps, ReceiveUntilKeeps, SleepKeeps, DelayKeeps, FileIoKeeps,
     ShellKeeps, DieKeeps
<1>3. ASSUME NEW p \in Proc, NEW q \in Proc,
             Fork(p, q) \/ Kill(p, q) \/ Interrupt(p, q) \/ SetMonitor(p, q)
      PROVE  IInv'
  BY <1>3, ForkKeeps, KillKeeps, InterruptKeeps, SetMonitorKeeps
<1>4. ASSUME NEW p \in Proc, NEW q \in Proc, NEW sender \in Proc, NEW receipt \in BOOLEAN,
             Send(p, q, sender, receipt)
      PROVE  IInv'
  BY <1>4, SendKeeps
<1> QED BY <1>1, <1>2, <1>3, <1>4 DEF ProcessStep

(***************************************************************************)
(* The theorems.                                                           *)
(***************************************************************************)
\* bootstrap establishes the invariant: the root process is alone in the queue.
LEMMA InitEstablishes == Init => IInv
<1> SUFFICES ASSUME Init PROVE IInv OBVIOUS
<1>1. /\ state = [p \in Proc |-> IF p = Root THEN "runnable" ELSE "free"]
      /\ runQ = << Root >> /\ current = Root /\ exec = Root /\ todo = << >> /\ attached = << >>
  BY DEF Init
<1>2. Root \in Proc BY SchedulerAssumption
<1>3. /\ << Root >> \in Seq(Proc) /\ Len(<< Root >>) = 1 /\ << Root >>[1] = Root BY <1>2
<1>4. DOMAIN << Root >> = {1} BY <1>3, LenProperties
<1>5. Members(runQ) = {Root} /\ NoDuplicates(runQ) BY <1>1, <1>3, <1>4 DEF Members, NoDuplicates
<1>6. RunQueueOk BY <1>1, <1>2, <1>5 DEF RunQueueOk
<1>7. Members(todo) = {} /\ Members(attached) = {} /\ ClosingIsLast(todo) BY <1>1, OneCall
<1>8. NoDuplicates(attached)
  <2>1. DOMAIN attached = {} BY <1>1
  <2> QED BY <2>1 DEF NoDuplicates
<1>9. ExecOk /\ CurrentOk /\ BuryOk /\ ResumeOk /\ ShellsOk
  BY <1>1, <1>2, <1>7, <1>8 DEF ExecOk, CurrentOk, BuryOk, ResumeOk, ShellsOk
<1>10. TypeOK
  <2>1. todo \in Seq(Task) /\ attached \in Seq(Proc) BY <1>1, EmptySeq
  <2>4. state \in [Proc -> States] BY <1>1 DEF States
  <2>2. /\ runQ \in Seq(Proc)
        /\ current \in Proc \cup {NoProc} /\ exec \in Proc \cup {NoProc}
    BY <1>1, <1>2, <1>3
  <2>3. /\ live \in Int /\ creator \in [Proc -> Proc \cup {NoProc}]
        /\ monitor \in Proc \cup {NoProc} /\ ready \subseteq Proc /\ processno \in Nat
    BY <1>2 DEF Init
  <2>5. unseen \in [Proc -> Nat] /\ seen \in [Proc -> Nat] BY DEF Init
  <2>6. pending \in [Proc -> Retried \cup {"none"}] BY DEF Init
  <2>7. /\ alarm \in [Proc -> {"none", "set", "due"}]
        /\ child \in [Proc -> {"none", "running", "exited"}]
    BY DEF Init
  <2>8. expired \in [Proc -> BOOLEAN] BY DEF Init
  <2>9. wakeywakey \in BOOLEAN /\ childDone \in BOOLEAN /\ interrupted \in BOOLEAN BY DEF Init
  <2> QED BY <2>1, <2>2, <2>3, <2>4, <2>5, <2>6, <2>7, <2>8, <2>9 DEF TypeOK
<1> QED BY <1>6, <1>7, <1>9, <1>10 DEF IInv

\* Every step of the engine keeps it.
LEMMA NextKeeps == ASSUME ShellsApart PROVE IInv /\ [Next]_vars => IInv'
<1> SUFFICES ASSUME IInv, [Next]_vars PROVE IInv' OBVIOUS
<1>1. CASE Next BY <1>1, HousekeepingKeeps, TickleKeeps, ProcessStepKeeps, WorldKeeps DEF Next
<1>2. CASE UNCHANGED vars
  <2>1. UNCHANGED << state, runQ, current, exec, live, mailVars, timeVars, ioVars, sigVars,
                     procVars, pending, todo >>
    BY <1>2 DEF vars, queueVars
  <2>2. attached' = attached /\ alarm' = alarm BY <2>1 DEF ioVars, timeVars
  <2>3. TypeOK' BY <2>1 DEF IInv, TypeOK, mailVars, timeVars, ioVars, sigVars, procVars
  <2> QED BY <2>1, <2>2, <2>3
      DEF IInv, RunQueueOk, ExecOk, CurrentOk, BuryOk, ResumeOk, ShellsOk, IsLive
<1> QED BY <1>1, <1>2

\* So it holds in every state.
LEMMA InvariantHolds == ASSUME ShellsApart PROVE Spec => []IInv
<1>1. Init => IInv BY InitEstablishes
<1>2. IInv /\ [Next]_vars => IInv' BY NextKeeps
<1> QED BY <1>1, <1>2, PTL DEF Spec

(***************************************************************************)
(* The run queue of schedule.c holds every runnable process once and no    *)
(* other, for any number of processes, whatever the programs do and        *)
(* whenever signals arrive: add_to_run_q, remove_from_run_q and ps_pause   *)
(* keep it through every suspension, wake-up, fork, kill and death.        *)
(***************************************************************************)
THEOREM RunQueueCorrect == ASSUME ShellsApart PROVE Spec => []RunQueueOk
<1>1. IInv => RunQueueOk BY DEF IInv
<1> QED BY <1>1, InvariantHolds, PTL

(***************************************************************************)
(* Type correctness.  Among other things no time-out, kill or wake-up ever *)
(* takes the counts of messages below zero.                                *)
(***************************************************************************)
THEOREM TypeCorrect == ASSUME ShellsApart PROVE Spec => []TypeOK
<1>1. IInv => TypeOK BY DEF IInv
<1> QED BY <1>1, InvariantHolds, PTL

(***************************************************************************)
(* The emulator never executes a process that waits, or one whose record   *)
(* ps_terminate has freed.                                                 *)
(***************************************************************************)
THEOREM OnlyRunnableExecutes == ASSUME ShellsApart PROVE Spec => []ExecutesRunnable
<1>1. IInv => ExecutesRunnable
  <2> SUFFICES ASSUME IInv, todo = << >>, exec # NoProc PROVE state[exec] = "runnable"
    BY DEF ExecutesRunnable
  <2>1. Members(todo) = {} BY OneCall
  <2> QED BY <2>1 DEF IInv, ExecOk
<1> QED BY <1>1, InvariantHolds, PTL
=============================================================================
