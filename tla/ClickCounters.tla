---------------------------- MODULE ClickCounters ----------------------------
(***************************************************************************)
(* Click counters: the CPU time that processes may use (schedule.c, the    *)
(* `use' instruction of evaluate.c, and the code that the compiler makes   *)
(* of a within_ statement).  Several processes may draw on one counter.    *)
(* taxiFare charges current_process whenever a process suspends, resumes,  *)
(* pauses or switches (Charge), and whenever it changes its counter: there *)
(* the charge is a part of the change.                                     *)
(* A count is a signed machine word whose greatest value, Top here, means  *)
(* `no limit'.  Programs are privileged and name click counters.           *)
(***************************************************************************)
EXTENDS Integers, Sequences, FiniteSets, Functions

CONSTANTS Proc, Root,         \* the processes, the first of them
          Counter, RootClicks, \* the counters, rootClicks
          Top,                \* LONG_MAX
          Amount,             \* the amounts that programs name
          Gap,                \* the clicks that pass between two charges
          MaxDepth,           \* bound on nested try and within_ statements
          MaxIssued, MaxUsed  \* bounds on the clicks issued and used

ASSUME ClickAssumption ==
  /\ IsFiniteSet(Proc) /\ Root \in Proc
  /\ IsFiniteSet(Counter) /\ RootClicks \in Counter
  /\ Top \in Nat \ {0}
  /\ Amount \subseteq 1..Top /\ Gap \subseteq 0..Top
  /\ MaxDepth \in Nat /\ MaxIssued \in Nat /\ MaxUsed \in Nat

VARIABLES
  left,      \* the count of each counter
  made,      \* the counters that have been made
  uses,      \* p->clicks
  blocks,    \* the error blocks of p, the innermost first: of a try or of a within_
  raising,   \* the processes in the handler of a within_, which raises the error again
  alive,     \* the live processes
  issued,    \* all clicks that were ever put into a counter
  used       \* all clicks that were charged to one

vars == << left, made, uses, blocks, raising, alive, issued, used >>

TypeOK ==
  /\ left \in [Counter -> -(Top + 1) .. Top]
  /\ made \subseteq Counter
  /\ uses \in [Proc -> Counter]
  /\ blocks \in [Proc -> Seq({"try", "within"})]
  /\ raising \subseteq alive /\ alive \subseteq Proc
  /\ issued \in Nat /\ used \in Nat

\* newClicks(LONG_MAX)
Init ==
  /\ left = [c \in Counter |-> IF c = RootClicks THEN Top ELSE 0]
  /\ made = {RootClicks}
  /\ uses = [p \in Proc |-> RootClicks]
  /\ blocks = [p \in Proc |-> << >>]
  /\ raising = {} /\ alive = {Root}
  /\ issued = Top /\ used = 0

\* The machine word.
Wrap(n) == ((n + Top + 1) % (2 * (Top + 1))) - (Top + 1)
-----------------------------------------------------------------------------
(***************************************************************************)
(* ps_credit_clicks: the debited counter must keep at least one click.  A  *)
(* slip: it is not debited.                                                *)
(***************************************************************************)
CanDebit(from, amount) == left[from] - amount > 0

NotDebited(to, amount, from) == [left EXCEPT ![to] = Wrap(@ + amount)]
Moved(to, amount, from) == [c \in Counter |->
  Wrap(left[c] + (IF c = to THEN amount ELSE 0) - (IF c = from THEN amount ELSE 0))]

\* m_new_clicks
NewClicks(p, c, amount) ==
  /\ p \in alive \ raising /\ c \notin made
  /\ issued + amount <= MaxIssued
  /\ made' = made \cup {c}
  /\ left' = [left EXCEPT ![c] = amount]
  /\ issued' = issued + amount
  /\ UNCHANGED << uses, blocks, raising, alive, used >>

\* m_split_clicks; it fails when nothing would be left.
SplitClicks(p, from, c, amount) ==
  /\ p \in alive \ raising /\ from \in made /\ c \notin made
  /\ amount <= left[from] /\ CanDebit(from, amount)
  /\ made' = made \cup {c}
  /\ left' = Moved(c, amount, from)
  /\ UNCHANGED << uses, blocks, raising, alive, issued, used >>

\* m_credit_clicks(from, to, amount), which calls ps_credit_clicks(from, amount, to).
CreditClicks(p, from, to, amount) ==
  /\ p \in alive \ raising /\ from \in made /\ to \in made
  /\ CanDebit(to, amount)
  /\ left' = Moved(from, amount, to)
  /\ UNCHANGED << made, uses, blocks, raising, alive, issued, used >>

\* m_merge_clicks(from, to), which does the same with all that is left.
MergeClicks(p, from, to) ==
  /\ p \in alive \ raising /\ from \in made /\ to \in made
  /\ CanDebit(to, left[from])
  /\ left' = Moved(from, left[from], to)
  /\ UNCHANGED << made, uses, blocks, raising, alive, issued, used >>

(***************************************************************************)
(* taxiFare: all users of a counter that is spent are clicked out (tF).  A *)
(* slip: only the process that is charged.                                 *)
(***************************************************************************)
Charged(p, gap) == IF left[uses[p]] = Top THEN left ELSE [left EXCEPT ![uses[p]] = Wrap(@ - gap)]

UsersNotOthers(p) == {p}
Users(p) == {q \in alive : uses[q] = uses[p]}

Out(p, gap) == IF Charged(p, gap)[uses[p]] > 0 THEN {} ELSE Users(p)

TaxiFare(p, gap) ==
  /\ p \in alive /\ used + gap <= MaxUsed
  /\ left' = Charged(p, gap)
  /\ used' = IF left[uses[p]] = Top THEN used ELSE used + gap

(***************************************************************************)
(* tF and error_recover: the processes of S go on in the handler of their  *)
(* innermost error block, which is closed; p is recovered a second time if *)
(* twice.  One that has no block is ended.                                 *)
(***************************************************************************)
Recover(S, p, twice) ==
  LET depth(q) == IF q = p /\ twice THEN 2 ELSE 1
  IN  /\ alive' = {q \in alive : q \in S => depth(q) <= Len(blocks[q])}
      /\ raising' = {q \in alive' : IF q \in S THEN blocks[q][depth(q)] = "within"
                                               ELSE q \in raising}
      /\ blocks' = [q \in Proc |-> IF q \in S /\ q \in alive'
                                     THEN SubSeq(blocks[q], depth(q) + 1, Len(blocks[q]))
                                     ELSE blocks[q]]

\* An error that the root does not handle ends the engine.
EngineEnds == alive' = {} /\ raising' = {} /\ UNCHANGED blocks

\* Those clicked out go on with rootClicks.
OnRootClicks(S) == [q \in Proc |-> IF q \in S THEN RootClicks ELSE uses[q]]

Charge(p, gap) ==
  /\ TaxiFare(p, gap)
  /\ Recover(Out(p, gap), p, FALSE)
  /\ uses' = OnRootClicks(Out(p, gap))
  /\ UNCHANGED << made, issued >>

(***************************************************************************)
(* m_use_clicks looks at the new counter, charges the old one, and then    *)
(* changes over whatever taxiFare answers: the process may have been       *)
(* clicked out, and its new counter may be the one just spent.             *)
(***************************************************************************)
UseClicks(p, c, gap) ==
  /\ p \notin raising /\ c \in made /\ left[c] > 0
  /\ TaxiFare(p, gap)
  /\ Recover(Out(p, gap), p, FALSE)
  /\ uses' = [OnRootClicks(Out(p, gap)) EXCEPT ![p] = c]
  /\ UNCHANGED << made, issued >>

(***************************************************************************)
(* The `use' instruction charges the old counter.  If that spends it, tF   *)
(* has the process recover, and the instruction does so once more, from    *)
(* the next block; else the new counter is in use, and Then happens.       *)
(***************************************************************************)
Use(p, c, gap, Then) ==
  /\ TaxiFare(p, gap)
  /\ IF Out(p, gap) = {}
       THEN uses' = [uses EXCEPT ![p] = c] /\ Then
       ELSE /\ uses' = OnRootClicks(Out(p, gap))
            /\ IF p = Root /\ Len(blocks[p]) < 2 THEN EngineEnds
                                                 ELSE Recover(Out(p, gap), p, TRUE)
  /\ UNCHANGED << made, issued >>

\* S within_ c: the instruction, then an error block around S.
BeginWithin(p, c, gap) ==
  /\ p \notin raising /\ c \in made /\ Len(blocks[p]) < MaxDepth
  /\ Use(p, c, gap, /\ blocks' = [blocks EXCEPT ![p] = << "within" >> \o @]
                    /\ UNCHANGED << raising, alive >>)

(***************************************************************************)
(* The end of S, and the handler of its block.  Both have an instruction   *)
(* that is to restore the counter, with the saving cell as both operands:  *)
(* it saves the counter in use there before it fetches the new one.        *)
(***************************************************************************)
Restored(p) == uses[p]

EndWithin(p, gap) ==
  /\ p \notin raising /\ blocks[p] # << >> /\ Head(blocks[p]) = "within"
  /\ Use(p, Restored(p), gap, /\ blocks' = [blocks EXCEPT ![p] = Tail(@)]
                              /\ UNCHANGED << raising, alive >>)

\* generr, or any other error.
Raised(p) == IF p = Root /\ blocks[p] = << >> THEN EngineEnds ELSE Recover({p}, p, FALSE)

Raise(p) ==
  /\ p \in alive \ raising /\ Raised(p)
  /\ UNCHANGED << left, made, uses, issued, used >>

RaiseAgain(p, gap) ==
  /\ p \in raising
  /\ Use(p, Restored(p), gap, Raised(p))

\* try S onerror ...: its error block begins, and ends.
BeginTry(p) ==
  /\ p \in alive \ raising /\ Len(blocks[p]) < MaxDepth
  /\ blocks' = [blocks EXCEPT ![p] = << "try" >> \o @]
  /\ UNCHANGED << left, made, uses, raising, alive, issued, used >>

EndTry(p) ==
  /\ p \in alive \ raising /\ blocks[p] # << >> /\ Head(blocks[p]) = "try"
  /\ blocks' = [blocks EXCEPT ![p] = Tail(@)]
  /\ UNCHANGED << left, made, uses, raising, alive, issued, used >>

\* The new process shares the counter of its creator.
Fork(p, q) ==
  /\ p \in alive \ raising /\ q \notin alive
  /\ alive' = alive \cup {q}
  /\ uses' = [uses EXCEPT ![q] = uses[p]]
  /\ blocks' = [blocks EXCEPT ![q] = << >>]
  /\ UNCHANGED << left, made, raising, issued, used >>

Next ==
  \E p \in Proc :
    \/ BeginTry(p) \/ EndTry(p) \/ Raise(p)
    \/ \E q \in Proc : Fork(p, q)
    \/ \E gap \in Gap :
         \/ Charge(p, gap) \/ EndWithin(p, gap) \/ RaiseAgain(p, gap)
         \/ \E c \in Counter : UseClicks(p, c, gap) \/ BeginWithin(p, c, gap)
    \/ \E c, d \in Counter :
         \/ MergeClicks(p, d, c)
         \/ \E amount \in Amount :
              NewClicks(p, c, amount) \/ SplitClicks(p, d, c, amount) \/ CreditClicks(p, d, c, amount)

Spec == Init /\ [][Next]_vars
-----------------------------------------------------------------------------
(***************************************************************************)
(* No click is made or lost by splitting, crediting and merging, whatever  *)
(* their order: what was issued is in a counter or was used, up to the     *)
(* width of the word.                                                      *)
(***************************************************************************)
ClicksConserved == (FoldFunction(+, 0, left) + used - issued) % (2 * (Top + 1)) = 0

(***************************************************************************)
(* A charge that spends a counter reaches all its users, whoever was       *)
(* charged: each is ended or loses an error block, and goes on with        *)
(* another counter.  Only one may find itself on the spent counter: the    *)
(* one that has asked for this very counter by m_use_clicks.               *)
(***************************************************************************)
NobodyLeftOnSpent ==
  [][\A c \in Counter \ {RootClicks} :
       used' # used /\ left'[c] # left[c] /\ left'[c] <= 0 =>
         \A q \in alive' : uses[q] = c =>
           /\ Len(blocks'[q]) < Len(blocks[q])
           /\ \A r \in alive' \ {q} : ~(uses'[q] = c /\ uses'[r] = c)]_vars
=============================================================================
