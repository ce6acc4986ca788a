# A verification development for April

April is a language of communicating processes. Its compiler (`April/Compiler`) makes byte
code; its engine (`April/Engine`) executes many lightweight processes in **one C thread**,
scheduling them itself, with signals, `select()`, timers and child processes around it. This
directory holds TLA+ models of the engine and of the compiler's core, the TLC configurations
that check them on small instances, and proofs, checked by TLAPS, of most of what the runs check
of the process layer (run queue, scheduler, mailboxes, click counters, waiting for files), for
every instance.

Paths below are relative to `src/April/Engine/` unless they say otherwise; `Compiler/x.c` is
`src/April/Compiler/x.c`. `PROJECT.json` maps every definition to the lines it stands for.

## 1. The system

| Component | State it keeps | Operations | Talks to |
|---|---|---|---|
| Run queue (`schedule.c`) | circular list `pnext`/`pprev`, `run_q` | `add_to_run_q`, `remove_from_run_q`, `ps_pause`, `ps_switch` | scheduler |
| Scheduler (`schedule.c`, `process.c`) | `state` of each record, `current_process`, `LiveProcesses`, `creator`, `monitorH` | `fork_process`, `ps_suspend`, `ps_resume`, `ps_pause`, `ps_terminate`, `wait_for_event`; escapes `m_fork`, `m_kill`, `m_interrupt`, `m_set_monitor`, `m_wait_msg` | everything below wakes processes through it |
| Emulator (`evaluate.c`, `error.c`) | registers, the stack of the process executed, error blocks | one instruction after another; after an escape: go on, suspend, switch, or raise an error; `tickle` | scheduler, heap |
| Signals (`signal.c`, `clock.c`) | flags `wakeywakey`, `childDone` | `sig_alarm`, CPU ticks, `SIGIO`, `sig_child` | read by the scheduler at its next call |
| Timers (`clock.c`) | `time_q` | `set_alarm`, `set_timer`, `reset_timer`, `flush_from_time_q`; `m_delay`, `m_sleep`, timed receive | make processes runnable |
| Messages (`msg.c`, `../include/msg.ah`) | list `mfront`…`mback`, `sequence` per process | `sendAmsg`, `LocalMsg`, `m_front_msg`, `m_nextmsg`, `m_waitmsg`, `m_getmsg`, `m_replacemsg` | wake the receiver; acknowledge the sender |
| Files (`fileio.c`, `socket.c`) | open files, the processes attached to each, the client data of a process whose escape is to be retried | the reading and writing escapes, `attachProcessToFile`, `trigger_io`, `checkOutIo` | suspend and resume processes |
| Shell commands (`utility.c`) | attachments, child of each process | `m_shell`, `checkOutShells` | suspend and resume processes |
| Click counters (`schedule.c`, `evaluate.c`, compiler) | counts, `p->clicks` | `m_*_clicks`, `taxiFare`, instruction `use`, statement `within_` | click out processes |
| Heap (`generation.c`, `compact.c`) | the spaces of the heap, cards, roots | allocation, minor and major collection, growing | every instruction and escape that allocates |
| Symbols (`dict.c`), handles (`handle.c`) | weak tables of symbols and of the names of processes | finding or making an entry; preparing, scanning and adjusting by a collection | heap |
| Values (`setops.c`, `sort.c`, `arith.c`, `coerce.c`, `types.c`) | the list of bindings to take back | lists, sets, sorting, equality, arithmetic, coercion, matching of types | heap |
| Coding (`encode.c`, `decode.c`, `labels.c`) | labels of one term | values to bytes and back | messages, files, code loading |
| Verifier (`verify.c`) | states of the locals of one function | `codeVerify` | code loading |
| Type checker (`Compiler/unify.c`, `generalize.c`, `depends.c`, `chk*.c`) | cells of type variables, environment | unification, groups of recursive definitions, checking | code generator |
| Code generator (`Compiler/comp*.c`, `assem.c`, `foldexp.c`) | dictionary, labels, statement contexts, code segments | expressions, tests, patterns, statements, choices, folding | emulator and verifier, through its code |
| Parser, macros, debugger, libraries in April, communications server, tools | — | — | not modelled: section 6 |

### What is hard here

* **Signals between any two calls.** Each function of the scheduler begins with the flags the
  signal handlers set, so one suspension may run the timer queue, poll the files, resume the
  users of finished commands and block in `select()`, and every one of these changes the queue
  in the middle of the others.
* **Two notions of "the running process".** The emulator keeps `P` in a register, the rest of
  the engine asks `current_process`.
* **Ending a process** from inside any wait of it, by itself or another process, with messages,
  an alarm, a monitor to be told and a place in the queue to be left.
* **Stale wake-ups.** An alarm of an earlier wait, a shell attachment or a message may find the
  process in another wait, runnable, or dead.
* **Escapes are retried.** A read or write that finds a file not ready is executed again from
  its start after each wake-up; what it has done so far survives only as client data.
* **A receive is not atomic.** It takes a message out, tries patterns (arbitrary code, which may
  send) and puts it back by number while the list changes.
* **Every allocation may move everything**, in two collectors, with tables that refer to objects
  weakly and stacks whose program counters point into objects that move.
* **The compiler and the engine share conventions nobody states**: which cells of a frame hold
  values when a collection comes, which error blocks are open, how deep a frame is, what an
  operator answers at the ends of its domain.
* **Type checking of recursive definitions** depends on the groups they are put in, and those
  on a depth-first search that meets the definitions in any order.

### What makes each part right

The run queue is a ring of exactly the runnable processes. The scheduler executes only runnable
processes, counts the live ones correctly, loses no wake-up by message, alarm or file, and starves
nobody unless alarms go off for ever. A mailbox is the promised queue: order is kept, nothing is lost or seen twice, a waiting
process has seen everything. Clicks are conserved, and a spent counter serves nobody. No pointer
dangles, and programs cannot see the collector. Compiled code computes what its source means and
can be scanned at every step. A value that is sent is received; two ways to compute or compare
the same agree. No text is lost, read twice or written twice. No accepted program goes wrong.

## 2. Modules

    RunQueueOps ── RunQueue (abstract) ◄── implemented by ── RunRing ── RunRingProofs ─┐
         │                                                                             │
      Scheduler ─┬─ MCScheduler                                                        │
         │       └─ SchedulerLiveness ── MCLiveness                                    │
      SchedulerProofs (with RunQueueLemmas) ── SchedulerSafety                         │
    MessageQueue (abstract) ◄── implemented by ── Mailbox ─┬─ MCMailbox                │
                                                           └─ MailboxProofs ───────────┼─ DataInduction
    ClickCounters ─┬─ MCClickCounters                                                  │
                   └─ ClickCountersProofs ─────────────────────────────────────────────┤
    Files ─┬─ MCFiles                                                                  │
           └─ FilesProofs ─────────────────────────────────────────────────────────────┘
    ObjectStore (abstract) ◄── implemented by ── Heap

    AprilCode ─┬─ Compiler ─┐
               ├─ Verifier ─┼─ Compiled ── MCCompiled
               ├─ Emulator ─┤
               └─ Language ─┘  (also the reference of Typing)
    Unify, Dependencies ── TypeChecker ── Typing (with Language) ── MCTyping
    Values ── Numbers ─┬─ Codec ── Coerce ─┬─ Escapes ─┬─ MCValues
                       └─ Folding ─────────┘           │
                                         TypeMatch ────┘

**The process layer**

* **RunQueueOps** – the queue as a sequence in turn order: entering behind the head
  (`add_to_run_q(p,True)`), behind the tail, leaving, turning. Leaving turns the queue to the
  successor of the process that left, as the code does.
* **RunQueue** – the abstract specification: a sequence without repetitions under these steps.
* **RunRing** – the circular list itself, one action per relinking function. Its refinement maps
  the walk along `pnext` (the loop of `verifyRunQ`) to the sequence of RunQueue.
* **Scheduler** – the process layer. `exec` is the emulator's register `P`, `current` is
  `current_process`. Because C functions call each other and a signal may come between any two
  calls, the variable `todo` is the list of calls the C thread still has to make: `ps_suspend` is
  "await an event if the queue is empty; set current; children; wake; set current", and so on.
  While `todo` is not empty only housekeeping steps and signals happen; when it is empty the
  emulator executes one escape or instruction of `exec`. An escape that waits steps its program
  counter back and is executed again at the next resumption: that is `pending`. Messages are
  counted on both sides of the receive's mark (`unseen`, `seen`). Timers are one entry per
  process: none, set, or due.
* **SchedulerLiveness** – Scheduler with what must happen in the end. Each process has a program (the
  escapes it makes), and between two looks at `wakeywakey` it may be in a loop of tests, moves and
  jumps for as long as it likes: only `allocv`, `result` and escapes look.
* **Mailbox** – one process's message list with the fields of the C structures, the escapes that
  look for a message as a loop with a cursor (one step per record, since an acknowledgement may
  append in between), leases, receipts and the receive statement. While a message is held for trial
  the patterns may send to the process itself, and put messages in front.
* **MessageQueue** – the abstract specification of a mailbox with a receive in progress.
* **ClickCounters** – counters as signed machine words of a small width, the escapes on them,
  charging, clicking out, `try`, and `within_` as the compiler and the `use` instruction make it. The
  charge of `m_use_clicks`, `use` and a pause is part of that escape, instruction or pause: whom it
  clicks out, and what the escape does regardless, is one step.
* **Files** – several processes that read and write several files. What a file will say is its
  `Script`; it arrives bit by bit (`Arrive`). Every character is known as (file, place), so that
  what each process got, what it holds back in its client data and what is still to be read can
  be compared. A peer that is `Careful` never stops inside what may be the tag and length of a
  coded term (`InHead`). An escape answers, fails, or attaches its process and suspends it;
  `trigger_io` resumes, and the escape begins again.

**The heap**

* **Heap** – memory as a function from word addresses to objects. An operation of a program is
  one action; the collections it triggers happen inside it, in the order of the calls of the
  code, by operators that take the world and return the next one. The minor collection copies,
  the major one slides; symbols, handles and processes have their own part in each. Objects have
  their sizes: an empty tuple is one word, which leaves no room for a forwarding pointer, so that it
  is copied once for every reference. A name handed over as a pointer into a symbol is read through
  that address after the allocations in between; where something else is by then, the run ends
  (`stale`), and so it does where copies run into what has still to be copied (`fault`).
* **ObjectStore** – the abstract specification: objects that never move and are there as long as
  somebody can reach them. The refinement maps an address to the name of the object there.

**From source to execution**

* **AprilCode** – the instructions and the assembler's labels and frame depths.
* **Compiler** – the code generator over abstract syntax. One operator per kind of construct, as
  in the C functions; destinations, depths and dictionaries are passed as in the code, and what
  C writes through pointers is a record returned. It is one recursive operator (`Generate`).
  `foldExp` is applied wherever the code applies it.
* **Verifier** – the segments and the rules of `codeVerify`.
* **Emulator** – the state machine that executes the code: one action per group of instructions
  with the same effect on the control. Cells are addressed as the machine does, and every
  allocation and call leaves `Junk` where the collector would not have kept a value: a program
  that reads a cell a collection could have destroyed reads `Junk`.
* **Language** – what the same abstract syntax means, written without regard to how it is
  compiled: the reference for `Compiled` and for `Typing`.
* **Compiled** – compiles a program, verifies it, executes it, and compares.

**The type checker**

* **Unify** – types, variables, unification with its trail, generalisation, renewal.
* **Dependencies** – the depth-first search that groups definitions.
* **TypeChecker** – expressions, patterns, tests, statements, theta expressions.
* **Typing** – unifies sequences of pairs, groups definitions, types theta expressions in every
  order of their definitions, and types programs and evaluates the accepted ones with Language.

**Values**

* **Values, Numbers, Codec, Coerce, TypeMatch** – the escapes and instructions on values, as
  operators. A floating point number is an exact quotient; machine words wrap at `Byte^4` and
  `Byte^8` with a small `Byte`.
* **Folding** – the constant folding of the compiler.
* **Escapes** – one request is made and answered; TypeMatch is a state machine of its own
  (bindings are made, kept or taken back over a program of instructions).

A comment "A slip: …" introduces a variant of a definition with a plausible mistake; it is not
used by the specification. Each property is known to be broken by one of them (`mutants` in
`PROJECT.json`): that is the evidence that a passing property depends on the code.

## 3. Runs

| Run | Shows | Instance |
|---|---|---|
| `ring` (RunRing) | `RingIsSound`: the ring holds the runnable processes and its links agree; `ImplementsRunQueue` | 4 records: the smallest with a first, a last, and two records that are neither. All 3,992 states; no bound |
| `sched_kill` (Scheduler) | `RunQueueOk`, `LiveCountOk`, `ExecutesRunnable`, `NoMessageMissed` with kill, interrupt, death and a monitor | 3 processes (killer, victim, monitor), 2 forks, 1 message each besides those to the monitor: 0.9M states |
| `sched_waits` (Scheduler) | `TypeOK`, `CurrentIsExecuting`, `WaitsWillEnd`, `DeadStaysDead` with timed receives, delays, shells and death | 2 processes, 1 fork, 1 message each: 3.1M states |
| `sched_live` (SchedulerLiveness) | `NoStarvation`, `DueAlarmGoesOff`, `ReadyFileResumes` under `FairSpec` | 3 processes, 2 forks, 1 message each, no symmetry: the root forks, wakes and waits for files, the others wake each other, wait and sleep, so that two keep going second ahead of a third; 112,000 states |
| `mailbox` (Mailbox) | `NoMessageMissed`, `QueueIsSound`, `NeverAgain`, `ImplementsMessageQueue`; others and the process itself send, with leases, receipts and fronted messages, also while a message is held for trial, against all three receiving escapes | 3 message records: one before, one held, one behind or arriving; `Clashing` = FALSE (section 4); 1.7M states |
| `clicks` (ClickCounters) | `ClicksConserved`, `NobodyLeftOnSpent` | 2 processes, 3 counters, words of −7…6, `try` and `within_` two deep; 368,000 states |
| `heap` (Heap) | `NothingDangles`, `RememberedSet`, `TablesAgree`, `ImplementsStore` | 2 processes, a heap of 24 words that may grow to 52, 5 operations on objects of one, two and three words: enough for minor and major collections and a growth on the way; 64,000 states |
| `compiled` (Compiled) | `ComputesSource`, `FrameIsSafe`, `BlocksNest`, `VerifierAccepts`, `Finishes` | some 8,700 calls of programs, with what the compiler folds folded: every pair of operands in every kind of expression, every kind of pattern and test wherever one can stand, statements; a stack of 48 words |
| `values` (Escapes, TypeMatch) | `FoldKeepsMeaning`, `ListsAndOrder`, `SentIsReceived`, `NumbersAgree`, `MatchBindsRight` | 14,660 requests, among them each operator on the ends of its domain; programs of 4 type variables and 3 bindings; 73,000 states |
| `files` (Files) | `EachCharacterOnce`, `AnswersWhole`, `ReadyResumes` | 2 processes, 5 files, scripts of 2 to 9 characters that arrive in any pieces, programs of 1 to 4 escapes: 71,000 states |
| `typing` (Typing) | `SolvesExactly`, `GroupsInOrder`, `OrderIrrelevant`, `AcceptedIsSound` | 3,200 sequences of equations, 2,700 sets of definitions, 450 theta expressions, 40,000 programs |
| `split_groups` (Typing) | `GroupsInOrder` violated: section 4 | 3 definitions |

Some properties are conjunctions of parts that say one thing together, each with a mutant of its
own: `QueueIsSound` is `NothingLost` (every message sent is in the list, held or gone),
`LinksAgree` and `OrderKept`; `WaitsWillEnd` is about alarms (`TimedWaitIsArmed`) and shell
attachments (`AttachmentsOk`); `EachCharacterOnce` is `TextKept` (reading) and `WrittenOnce`.

**Bounds of the process layer.** `MaxFork` bounds `processno` and with it the deaths and re-uses
of a record (a record may be freed and forked again within it). `MaxInbox` bounds the messages
sent to one process. That a message comes while another has been looked at and put back happens
with the termination messages of a monitor, which are not bounded, in `sched_kill`, and with any
message in `mailbox`. `Msg` bounds the message records: each is used once. `MaxDepth`,
`MaxIssued`, `MaxUsed`, `Top`, `Amount` and `Gap` bound the clicks; `Top` is the greatest machine
word, small so that wrap-around and the value "no limit" are met. `Overtaken` says whether a
deadline may pass while its alarm is being set. In `files`, `Room` is what an output file takes
ahead, and `Careful` keeps programs from what the code is known to answer wrongly (section 4).

**Bounds of the heap.** `InitialSize` and `MaxSize` are the words of the heap, `MaxSteps` the
operations of the programs. The heap is so small that a few allocations fill the space for new
objects; objects have the sizes of the code.

**Bounds of the inputs.** `compiled`, `values` and `typing` enumerate inputs, so their bound is
the set of inputs. The programs of `compiled` and `typing` are combinations: each construct of
the modelled language stands in each place where one can stand, with operands that each need more
than a move, so that destinations, depths and labels of two constructs meet. `Byte` makes a
machine word small enough to overflow on single digit numbers. `Deep` cuts off the reading of a
circular type, `MaxQuantifiers` is the size of the array in the code (16, `Compiler/unify.c:71`).

Deadlock is not checked where the system may stop: when the bounds are used up, when the engine
has ended, when every process waits for something that need not happen, and when a request has
been answered or a program has ended.

Symmetry is used where only invariants and action properties are checked, over processes other
than the root (which the code treats specially), message records, counters other than
`rootClicks`, and the registers of TypeMatch. The root and NULL are named apart.

### What the properties of the sequential parts say

* `ImplementsStore` – a program of the heap can be told apart in nothing from one whose objects
  never move: the most that can be said of two collectors at once. `NothingDangles` (copies fit
  where they are put, pointers lead to objects), `RememberedSet` (the cards) and `TablesAgree`
  (symbols, process names, program counters) say why: what each table must be for it to hold.
* `ComputesSource` compares each compiled program with Language when it ends. `FrameIsSafe` holds
  at every instruction on the way: no instruction reads, and no collection scans, a cell that does
  not surely hold a value, and none is outside the frame. `BlocksNest` is about error blocks.
  `Finishes` says that a program ends, under weak fairness of the emulator alone; the programs of
  the run have no endless loops in their source.
* `SolvesExactly` compares unification with solvability found by search over ground types;
  `GroupsInOrder` compares groups with the cycles of the reference graph; `OrderIrrelevant` says
  that the order of definitions does not matter to their types; `AcceptedIsSound` is both halves
  of type soundness: an accepted program does not go wrong, and its value has its type.
* `SentIsReceived` – decoding what was encoded gives the value again, circles included.
  It states what is not: two type variables become one, and texts of one byte or that begin like a
  byte-order mark may be taken for others. `NumbersAgree`, `ListsAndOrder` and `FoldKeepsMeaning`
  compare pieces of code that must answer alike: instructions and escapes, quotients and remainders,
  one coercion and the next, equality and the order of sorting, folded and executed operators. Where
  they do not, the property says exactly for which operands (in `FoldKeepsMeaning` these are
  `Misfolds`), and that they differ on those: it would fail if the code did better, or worse.
  `MatchBindsRight` says that matching binds what unification
  would, and takes back what it bound when it fails.

### Fairness

`FairSpec` has weak fairness of four things, and no more.

* `Housekeeping`: the C thread goes on with the calls it has begun. It is a thread; blocking in
  `select()` is no violation, because `Select` is enabled only when something has happened.
* `Tick`: the handler of the CPU timer re-arms it (`clock.c:129-171`), so ticks go on coming
  while processes execute. In `wait_for_event` they are blocked, and `Tick` is disabled.
* `Tickle` of a process that is not in a loop: its next `allocv`, return or escape looks at the flag
  (`evaluate.c:52`).
* `Retry`: a process that is resumed executes the escape it left pending; the program counter
  stands on it.

Nothing is assumed about what programs do next, nor that files become ready, children end or
deadlines pass. In particular a process may stay in a loop without a call (`EnterLoop`): a `while`
is a test, a body and a `jmp` back (`Compiler/compstmt.c:306-345`), none of which need look at the
flag (`evaluate.c:143`), and then the engine neither reschedules nor sees alarms and files. The
code does not prevent that, so it is not assumed away: the three properties say what holds *if* all
such loops end (`LoopsEnd`), and `NoStarvation` if besides alarms do not keep going off for ever
(`AlarmsCease`). `Compiled` has weak fairness of the emulator's next instruction: a process that is
alone goes on.

## 4. Where the code differs from what it says or should do

One difference is a run TLC finds violated:

* `split_groups` – `minPoint` takes the mark 0 of a definition that is already in a group for "no
  reference" on one side only (`Compiler/depends.c:249`). Definitions that refer to each other
  only in the arguments of an application of an earlier function are checked one by one, although
  "Mutually recursive functions must be type checked `together'" (`Compiler/depends.c:33`).

The others were met while modelling. They are modelled as coded; the runs' inputs keep away from
those that would break a property. The hazards of `PROJECT.json` list the weightiest.

*Processes.* A process that leaves the queue moves `run_q` and `current_process` to its successor,
whoever executes (`schedule.c:604`): after a kill the two notions of the running process differ.
The last process is taken off the queue before it is counted out (`process.c:259-266`), so that
the engine waits for ever. A SIGCHLD between the test of `childDone` and `select()` is not noticed
(`schedule.c:108`). `m_nextmsg` reads the successor of an outdated message before the
acknowledgement may append to the same queue (`msg.c:376`), and may suspend with that message
unseen: `NoMessageMissed` of Mailbox excepts it. The kill rule is the reverse of the manual's
(`process.c:756`). `m_credit_clicks` moves clicks the other way (`schedule.c:559`). An alarm that
goes off while it is being set is lost (`clock.c:394`). A process killed in `m_shell` is revived
when its command ends (`utility.c:215`). `m_front_msg` leaves out one back link (`msg.c:298`),
which does no harm. The code that is to restore the click counter after `within_` restores
nothing (`Compiler/compstmt.c:445`, `evaluate.c:1297`); the `use` instruction recovers twice when its
charge spends the counter, from the block of the try statement and from the next (`evaluate.c:1300`,
`schedule.c:440`); `m_use_clicks` ignores that the charge has spent the very counter it goes to
(`schedule.c:520-524`). "We re-schedule every 150 milliseconds" (`Headers/clock.h:38`) is not so for a loop
without a call, which is never interrupted. Two processes whose alarms keep going off, each while the
other executes, starve a third, since those that are woken go second.

*Fronted messages.* `m_front_msg` numbers a message one below the first in the queue (`msg.c:299`).
In a pattern's guard that number may be the one of the message under trial, which is not in the
queue: it is whenever that message was the first and the next has the next number. The message under
trial is put back before the fronted one (`msg.c:540`), and the receive, which goes on behind that
number, passes over the fronted one and may wait for ever with it in the queue; of messages that do
not match, the manual says they "are not lost" (`src/Doc/statement.texi:1160`). With `Clashing` = TRUE
the model does so; the runs and the theorems are for `Clashing` = FALSE, which leaves out these uses
of `_front_msg` and no others.

*Heap.* An object of one word (an empty tuple) is copied once for each reference to it
(`generation.c:601-614`), so that copies can be larger than the originals: in a heap just large
enough, seven steps of a program let them run over objects not yet copied. `fork_process` hands
`buildHandle` a pointer into the symbol that is the name (`process.c:498`), and `buildHandle`
allocates before it reads it (`handle.c:105-129`): if that collects while the symbol is young, the
process is named by whatever is there. The coercion to a handle does the same (`coerce.c:175`). The
run reaches the second and ends there.

*Files.* `m_read` at the end of a file suspends for ever (`fileio.c:1187`); `m_flush` blocks the
whole engine (`fileio.c:1580`); `m_decode` resumed within a length takes the length for the body
(`fileio.c:1262`); `m_binline` takes text that has not arrived for the end (`fileio.c:1138`);
`m_connect` leaves its socket as client data (`socket.c:227`); an interrupted process keeps its
client data and attachments (`process.c:767`); `m_outch` keeps, over a wait, a pointer into the text
of a symbol that a collection may move (`fileio.c:1351-1367`).

*Values.* Integers 2^32 apart compare as equal in sorting (`sort.c:183`); wide integers are cut
when sent (`encode.c:63`); coercing a tuple answers nothing (`coerce.c:333`); `m_div` cuts a quotient
of integers where the instruction does not (`arith.c:282`, `evaluate.c:1018`), and a product beyond the
word wraps in the escape and not in the instruction (`arith.c:237`, `evaluate.c:961`); a number
coerced to a symbol has no quote, so that coercing the result again makes another symbol of it
(`coerce.c:92-135`); two type variables of a value that is sent are numbered alike and arrive as one
(`encode.c:357-368`); a text that begins with the bytes of a byte-order mark loses them or has its
bytes swapped, and for a text of one byte the decision is made on what the buffer held before
(`decode.c:248-259`); the trail of type bindings is shared by all processes (`types.c:56`).

*Compiler.* Folding (`Compiler/foldexp.c`) changes what these mean: a disjunction with true is false
(890), and so the conditional that tests it is compiled the wrong way (`Compiler/compexp.c:225`);
a tail takes part of a list one element early (270); the length of a string literal is 0 (291); a
fraction less a whole number (322); a product beyond the word (352); a quotient of integers with a
remainder, and any by zero (368); `==` and `=!=` of equal literals of which one is written as a string
or truth value and the other as what it becomes (751). Further, a case expression that chooses its
own destination may have it overwritten (`Compiler/compexp.c:627`); `x+1` with `x` on top of the stack scans a fresh
cell (`compexp.c:284`); only the first segment of a function is verified (`verify.c:518`);
handlers of a try statement may yield another type (`Compiler/chkstmt.c:148`); a variable that
holds a polymorphic value may be given a narrower one (`chkstmt.c:184`); quantified types are
compared wrongly (`Compiler/unify.c:111`).

## 5. What is proved

Of the process layer, every invariant and action property that a run checks is a theorem; so are
two of the three refinements. The theorems hold for every value of the
constants that the named assumptions allow: any number of processes, records, counters and files,
no bound on forks, messages or steps.

| Theorem | States | Assumes, besides what the constants are |
|---|---|---|
| `RunQueueCorrect`, `OnlyRunnableExecutes`, `TypeCorrect` (SchedulerProofs) | `RunQueueOk`, `ExecutesRunnable`, `TypeOK` | `ShellsApart` |
| `NoMessageIsMissed`, `LiveCountCorrect`, `DeadStay` (SchedulerSafety) | `NoMessageMissed`, `LiveCountOk`, `DeadStaysDead` | `ShellsApart` |
| `CurrentExecutes` | `CurrentIsExecuting` | `ShellsApart`; nobody kills |
| `WaitsEnd` | `WaitsWillEnd` | `ShellsApart`; nobody kills or interrupts; no deadline passes while its alarm is being set (`~Overtaken`) |
| `RingCorrect`, `RingImplementsRunQueue` (RunRingProofs) | `RingIsSound`, `ImplementsRunQueue` | – |
| `ClicksAreConserved`, `NobodyStaysOnSpent` (ClickCountersProofs) | `ClicksConserved`, `NobodyLeftOnSpent` | – |
| `QueueAlwaysSound`, `NothingIsMissed`, `NoMessageTwice`, `MailboxImplementsQueue` (MailboxProofs) | `QueueIsSound`, `NoMessageMissed`, `NeverAgain`, `ImplementsMessageQueue` | `SafeNumbers` |
| `NoWakeUpLost` (FilesProofs) | `ReadyResumes` | – |
| `CharactersOnce`, `ReadsAnswerWhole` (FilesProofs) | `EachCharacterOnce`, `AnswersWhole` | `Careful` |

**The assumptions.** `SchedulerAssumption`, `ProcAssumption`, `ClickAssumption`,
`MailboxAssumption` and `FilesAssumption` say what the constants are; TLC evaluates them on the
runs. The others are the exceptions that the code makes, each of which makes the theorem false:

* `ShellsApart`: the programs do not both run shell commands and kill or interrupt processes
  (`utility.c:215`: the end of a command revives a process that was killed).
* Nobody kills: `m_kill` leaves `current_process` at the successor of the process it took off the
  queue (`schedule.c:604`). Nobody kills or interrupts: `ps_terminate`, which both may call, takes
  off an alarm some steps before the process is dead. `~Overtaken`: `clock.c:394`.
* `SafeNumbers`: where `_front_msg` is used there are fewer than 10,000 messages, since each use
  counts the sequence number of the first message down, and `##Seq` begins a receive at −10,000; and
  it is not used to give a message the number of the one held for trial (`~Clashing`, section 4).
* `Careful`: no program begins an escape while another escape's client data is kept for it, and
  none interrupts a process that keeps some (`socket.c:227`, `process.c:767`); what follows
  in the code is not defined. And no peer stops sending inside the tag and length of a coded term
  (`fileio.c:1262`), and no collection moves the symbol that `m_outch` is writing while it waits
  (`fileio.c:1351`).

**Scheduler.** `RunQueueOk` alone is not inductive: a `resume` left in `todo` for a process
that is being ended would put a dead process into the queue. `IInv` therefore says of the calls
still to be made what each will find:

* `ClosingIsLast` – the calls that choose the process to execute (`enter`, `rotate`) come last;
* `ExecOk` – what the emulator executes is runnable *or* will be chosen anew by such a call, and
  `CurrentOk` the same of `current_process`; with an empty `todo` this is the theorem;
* `BuryOk` – a process being ended is not runnable, has no alarm, is not attached, and is dead
  unless its burial is the very next call;
* `ResumeOk` – nobody who is being ended is to be resumed;
* `ShellsOk` – the attached are live processes in `m_shell`, each once.

Housekeeping steps share one lemma (`CallsKept`, `CallsGoOn`: what a step must not disturb for
the conditions on the remaining calls to stay true); each escape has a lemma of its own, those
that suspend or end a process resting on `Suspends` and `TerminateKeeps`. `RunQueueLemmas` holds
the facts about sequences: what entering, leaving and turning do to the members of a queue
without repetitions. `IInv` was checked with TLC on the instances of `sched_kill` and
`sched_waits` before it was proved. The other theorems build on `IInv`:

* `NoMessageMissed` and `WaitsWillEnd` are inductive beside it;
* `CurrentIsExecuting` needs `ExecChosen`: while calls are left, one of them chooses;
* `DeadStaysDead` needs `NoAlarmOfDead` and `ResumesLive`: nobody dead has an alarm, or is to be
  resumed by a call that is left;
* `LiveCountOk` needs these and `OneBury`: `ps_terminate` is at work on one process at a time, so
  that it is counted out once.

**RunRing.** `RingInv` says that the walk along `pnext` is a sequence of the runnable processes
whose neighbours the links are, both ways (`Linked`, `Ring`), and the lemma `WalkIsRing` that the
walk finds whatever such sequence there is. Each relinking function is then shown to make the links
of the sequence that RunQueue asks for, which is both the invariant and the refinement.

**ClickCounters.** `ClickInv` is the balance modulo the width of the word, with the counters that
do not exist yet being empty. The lemmas about `Sum` (the fold over the counters) say that it does
not depend on the order, and what changing one counter does to it. `NobodyStaysOnSpent` needs no
invariant but the types: `OnlyFares` says that a step that uses clicks is one of the five that
charge, `SpentIsLeft` that a charge makes each user of a spent counter recover or end, and
`NobodyArrives` that of what these five do afterwards only `m_use_clicks` can lead back to it, and
only the process charged.

**Mailbox.** `MailInv` says that the walk along the links is a `Chain` (back links right or
missing, as `m_front_msg` leaves them), that sequence numbers ascend along it, stay above −10,000
and below the next to be given, that the message held is in no queue and its number nobody
else's, and that all before the cursor of an escape has been passed. For the refinement, `Split` and `Marked` relate the number
where the abstract receive stands to the sequence number `##Seq` holds, as messages come in before
it, behind it, or are put back.

**Files.** `WaitInv` says that a process that waits is attached to the file and in the direction
of the call it waits in: `NoWakeUpLost` follows. It takes most of the types of the module with it,
since what is attached is whatever an escape decided after reading. `CareInv` adds what is kept
for a process (`KeptRight`: text, an offset, or part of a term, only while it waits in a call of
that kind), that this call is the next of its program (`CallRight`), and that for every call the
numbers of the codes written are an initial run: up to the offset kept, if it is begun; complete,
if it was the last to be answered (`SentRight`). Reads are shown to be one step, `Reading`: they
take a piece off the file and divide it, with what was kept, into what is answered, given up and
kept.

`AnswersWhole` is about one answer, but what is answered was collected over many turns between
which other processes read the same file. `WholeInv` says it of what is kept: for each process,
text in the order of the file, no more characters than were asked for, none of them an end of line
if a line is read, a part of a term only behind its length; and where nobody else reads the file,
a piece without gaps that ends where the file has been read to (`HeldOf`). `HeadsArrive` adds that
of the head of a term all has arrived or nothing. Each reading escape has a lemma that what it
answers or keeps is right from what it had (`EscapeWhole` joins them), and nobody else moves a file that
has a sole reader. `CareInv` is used throughout: that what is kept belongs to this very call.

**Induction over data.** The library's induction theorems cannot be instantiated by the provers
there are, so `DataInduction` states induction as a least counterexample: a set of naturals, or of
finite sets, that is not empty has a least element. The counterexamples of a claim are such a set.
That is how what recursive functions compute (the walk of RunRing and Mailbox, the sums of
ClickCounters, `BalAfter` and `Length` of Files) is proved to have its type or value. It asks for a
recursive function, so it does not reach the recursive operators of the other modules.

**Only model-checked.**

* Liveness (`NoStarvation`, `DueAlarmGoesOff`, `ReadyFileResumes`, `Finishes`): fairness and
  ENABLED are out of the prover's reach.
* Heap, all of it: an operation is a chain of collections, and each moves every object. The
  invariants between the steps of one collection would have to be stated first.
* Compiled, Escapes, TypeMatch, Typing: recursive operators over syntax and values, which the
  prover cannot take at all.

## 6. What is not modelled

* **Data the control does not depend on.** Contents of messages, characters, names: an action
  stands for every outcome the data may have, or a small set of values stands for all.
* **The order of `time_q`** and the arithmetic of deadlines: an alarm is due at any time after it
  is set.
* **Interrupting oneself** and errors of the C library.
* **Receiving inside a pattern's guard** (`_next_msg` or `_wait_msg` while a message is held).
* **Unprivileged programs**: the escapes on clicks and files refuse them. What the emulator does with
  the freed record of a process that `m_use_clicks` has clicked out without a handler is left
  undefined: the process is gone.
* **Padding of objects** (`generation.c:496-519`), compiled only where `configure` finds that the
  machine needs it; and the string case of `coerce.c:139-162`, which no value reaches.
* **`ps_thread`/`ps_unthread`, `lockvar.c`** and other sources that are not built.
* **C locals as roots.** That each escape registers the pointers it keeps over an allocation is a
  question about single C functions; Heap models the allocations of the operations it has.
* **Stack growth** (`grow_stack`), opaque values, list blocks.
* **In the compiler**: nested functions with free variables, procedures, records and `?` patterns,
  type definitions, types at run time, strings, floating point literals, message statements, the
  debugging code. **In the type checker** further: `any` and coercions. Names are taken to be
  distinct, so the environment of an enclosing clause (`outer`) is not needed; `+`, `-`, `*` have
  the one type number, number → number.
* **Programs kept out of `typing`**: assignments to polymorphic variables, handlers of another
  type than their try statement, raising what is no error, `nomatch` patterns with variables,
  comparisons of quantified types, and definitions that are grouped wrongly (section 4). Groups
  of definitions are given as the search meets them: names, applications, scopes.
* **Parser, macro processor, module system** (`token.c`, `operator.c`, `macro.c`, `grammar.y`):
  sequential programs from text to trees whose answers depend on every character; a model could
  only repeat them.
* **The run-time and the communications server written in April**: sequential servers over the
  mailboxes and files modelled here; they would need several engines connected by TCP.
* **The debugger, generators, tools, samples**: not part of what a program observes.
* **Hosts where `WORD32` is narrower than `long`**: there `rootClicks` starts as −1.

## 7. What could come next

`TimeQueue`, the ordered list of `clock.c` with its deadlines; `grow_stack` on linked frames; the
protocol of `../april/boot.ap` over mailboxes; nested functions in Compiler. Theorems:
`RememberedSet` of Heap, from an invariant on the phases of one collection; the rules of TypeMatch, once
its recursion is a function.
