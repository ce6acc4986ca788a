-------------------------------- MODULE Heap --------------------------------
(* The heap of the engine and its collectors: generation.c (allocation, the   *)
(* minor collection that copies new objects behind the old ones, growing),    *)
(* compact.c (the major collection that slides objects together), and the     *)
(* tables that have a special part in a collection: the dictionary of symbols *)
(* (dict.c), the handles (handle.c) and the processes (process.c).            *)
(*                                                                            *)
(* The memory maps the address of the first word of each object to it; space  *)
(* that is given up is Free: a pointer into it is dangling. A call that       *)
(* allocates may collect first, so the operators below take the world they    *)
(* find and return the one they make, in the order of the calls in the code.  *)
(* The pads of generation.c:502 and 518 are compiled only where configure     *)
(* finds that numbers need an alignment beyond a word: in other builds.       *)
EXTENDS Integers, Sequences, FiniteSets, SequencesExt

CONSTANTS Process,     \* records of the process pool
          Root,        \* the process that bootstrap() forks
          Name,        \* names of symbols and of processes
          RootName,
          Nil,
          InitialSize, \* minsize of initHeap, in words
          MaxSize,     \* bound: no collection that would grow the heap beyond it
          MaxSteps     \* bound: steps of programs

ASSUME HeapAssumption ==
    /\ Root \in Process /\ RootName \in Name /\ Nil \notin Process \cup Name
    /\ InitialSize \in Nat /\ InitialSize >= 24 /\ MaxSize \in Nat /\ MaxSteps \in Nat

VARIABLES w,      \* the world: memory, its limits, the tables and the roots
          view,   \* what programs see of it: a history variable
          steps   \* steps of programs so far

vars == <<w, view, steps>>

----------------------------------------------------------------------------
(* Objects. A pair stands for the lists, constructors, tuples and any values, *)
(* which differ in size only; an "hdl" is the constructor of a handle value;  *)
(* a "code" is a closure with its code of two instructions; a "unit" is the   *)
(* empty tuple, the one object that has no room for a forwarding pointer. id  *)
(* is not in the code: it names an object for its life, wherever it is copied.*)
Free == [tag |-> "free", id |-> 0, at |-> <<>>]
Pair(a, b) == [tag |-> "pair", at |-> <<a, b>>]
Hdl(a, b) == [tag |-> "hdl", at |-> <<a, b>>]
Symbol(n) == [tag |-> "symbol", name |-> n, at |-> <<>>]
Handle(n, p) == [tag |-> "handle", name |-> n, p |-> p, at |-> <<>>]
Code == [tag |-> "code", at |-> <<>>]
Unit == [tag |-> "unit", at |-> <<>>]

Words(o) == IF o.tag = "unit" THEN 1 ELSE IF o.tag = "code" THEN 3 ELSE 2

At(v, a) == IF a \in DOMAIN v.mem THEN v.mem[a] ELSE Free
Objects(v) == {a \in DOMAIN v.mem : a >= v.base /\ a < v.end}

\* The addresses of S, the lowest first.
InOrder(v, S) == SelectSeq([i \in 1 .. v.end - v.base |-> v.base + i - 1], LAMBDA a: a \in S)

\* Places that hold a pointer: known names the standard symbols and closures,
\* roots the C variables given to gcAddRoot, proc a process, cell an object.
Get(v, s) ==
    CASE s[1] = "known" -> v.known[s[2]]
      [] s[1] = "roots" -> v.roots[s[2]]
      [] s[1] = "proc"  -> v.proc[s[2]][s[3]]
      [] s[1] = "cell"  -> At(v, s[2]).at[s[3]]

Put(v, s, a) ==
    CASE s[1] = "known" -> [v EXCEPT !.known[s[2]] = a]
      [] s[1] = "roots" -> [v EXCEPT !.roots[s[2]] = a]
      [] s[1] = "proc"  -> [v EXCEPT !.proc[s[2]][s[3]] = a]
      [] s[1] = "cell"  -> [v EXCEPT !.mem[s[2]].at[s[3]] = a]

KnownSlots == << <<"known", 1>>, <<"known", 2>> >>   \* kvoid, dieEnv
RootSlots(v) == [i \in DOMAIN v.roots |-> <<"roots", i>>]
CellSlots(v, a) == [i \in DOMAIN At(v, a).at |-> <<"cell", a, i>>]
\* The stack, error value, creator, filer and messages of a process are "local".
ProcessSlots(p) == << <<"proc", p, "local">>, <<"proc", p, "handle">>, <<"proc", p, "e">> >>

InOldSpace(v, a) == a >= v.base /\ a < v.old
InCreateSpace(v, a) == a >= v.createSpace /\ a < v.createEnd

Bound(v, a) == At(v, a).tag = "handle" /\ At(v, a).p # Nil

\* A slip: the process that is being forked is forgotten.
ListedInTable(v) ==
    LET ns == SetToSeq({n \in DOMAIN v.handles : Bound(v, v.handles[n])})
    IN  [i \in DOMAIN ns |-> v.mem[v.handles[ns[i]]].p]

\* The processes that the table of handles leads to, and the one being forked.
Listed(v) ==
    LET ns == SetToSeq({n \in DOMAIN v.handles : Bound(v, v.handles[n])})
    IN  [i \in DOMAIN ns |-> v.mem[v.handles[ns[i]]].p] \o (IF v.newP = Nil THEN <<>> ELSE <<v.newP>>)

----------------------------------------------------------------------------
(* The minor collection.                                                      *)

\* installSymbol: the first copy of a name counts.
InstallSymbol(v, n, a) == IF n \in DOMAIN v.dictionary THEN v ELSE [v EXCEPT !.dictionary = (n :> a) @@ @]
InstallHandle(v, n, a) == [v EXCEPT !.handles = (n :> a) @@ @]
Install(v, o, a) ==
    CASE o.tag = "symbol" -> InstallSymbol(v, o.name, a)
      [] o.tag = "handle" -> InstallHandle(v, o.name, a)
      [] OTHER -> v

\* An object of the space that is left is copied to next and replaced by a
\* forwarding pointer, unless it is a unit, which is copied for each reference
\* to it; fault: the copy may run into what has not been copied yet.
Copy(v, a) ==
    LET o == At(v, a)
        again == o.tag = "unit" /\ \E b \in DOMAIN v.mem \ {a} : v.mem[b].id = o.id
        left == IF o.tag = "unit" THEN v.mem
                ELSE [v.mem EXCEPT ![a] = [tag |-> "forward", id |-> 0, to |-> v.next, at |-> <<>>]]
    IN  Install([v EXCEPT !.mem = (v.next :> o) @@ left,
                          !.next = @ + Words(o),
                          !.twice = @ \/ again,
                          !.fault = @ \/ v.next + Words(o) > v.limit],
                o, v.next)

\* A slip: a symbol is copied for each place that refers to it.
ScanCellAlways(v, a) ==
    IF ~InCreateSpace(v, a) THEN [v |-> v, a |-> a]
    ELSE IF At(v, a).tag = "forward" THEN [v |-> v, a |-> At(v, a).to]
    ELSE [v |-> IF At(v, a).tag = "symbol" THEN [Copy(v, a) EXCEPT !.mem[a] = At(v, a)] ELSE Copy(v, a), a |-> v.next]

ScanCell(v, a) ==
    IF ~InCreateSpace(v, a) THEN [v |-> v, a |-> a]
    ELSE IF At(v, a).tag = "forward" THEN [v |-> v, a |-> At(v, a).to]
    ELSE [v |-> Copy(v, a), a |-> v.next]

PutResult(r, s) == Put(r.v, s, r.a)
ScanSlot(v, s) == PutResult(ScanCell(v, Get(v, s)), s)
ScanSlots(v, ss) == FoldLeft(ScanSlot, v, ss)
ScanObject(v, a) == ScanSlots(v, CellSlots(v, a))
ScanProcess(v, p) == ScanSlots(v, ProcessSlots(p))

\* presetProcesses and resetProcesses: the program counter is made relative to
\* its code before the code may move, and absolute again afterwards.
Preset(v) == FoldLeft(LAMBDA u, p: [u EXCEPT !.proc[p].pc = @ - u.proc[p].e], v, Listed(v))
Reset(v) == FoldLeft(LAMBDA u, p: [u EXCEPT !.proc[p].pc = @ + u.proc[p].e], v, Listed(v))

\* scanDict: new symbols leave the dictionary, and come back if they are copied.
ScanDict(v) ==
    LET oldNames == {n \in DOMAIN v.dictionary : InOldSpace(v, v.dictionary[n])}
    IN  ScanSlots([v EXCEPT !.dictionary = [n \in oldNames |-> @[n]]], KnownSlots)

\* preScanH: the process of a handle is scanned, an old handle keeps its entry,
\* a new one stays only for its process. A handle that has been copied before
\* its entry is met has its forwarding pointer where the process was: a fault.
KeepHandle(v, a, n) ==
    IF InOldSpace(v, a) THEN InstallHandle(v, n, a)
    ELSE IF Bound(v, a) THEN ScanCell(v, a).v
    ELSE v
PreScanHandle(v, a, n) ==
    KeepHandle([(IF Bound(v, a) THEN ScanProcess(v, v.mem[a].p) ELSE v)
                   EXCEPT !.fault = @ \/ At(v, a).tag = "forward"], a, n)

ScanHandles(v) ==
    FoldLeft(LAMBDA u, n: PreScanHandle(u, v.handles[n], n),
             [v EXCEPT !.handles = <<>>], SetToSeq(DOMAIN v.handles))

ScanForked(v) == IF v.newP = Nil THEN v ELSE ScanProcess(v, v.newP)
ScanProcesses(v) == ScanForked(ScanHandles(Preset(v)))

\* The old objects that were updated since they were new.
ScanOldGen(v) == FoldLeft(ScanObject, v, InOrder(v, {a \in v.cards : InOldSpace(v, a)}))

\* The loop over the copies, which makes more of them.
ScanCopies(v, from) ==
    LET One(r, i) == IF r.scan = r.v.next THEN r
                     ELSE [v |-> ScanObject(r.v, r.scan), scan |-> r.scan + Words(At(r.v, r.scan))]
    IN  FoldLeft(One, [v |-> v, scan |-> from], [i \in 1 .. v.createEnd - v.createSpace |-> i]).v

GC(v) == Reset(ScanCopies(ScanOldGen(ScanSlots(ScanProcesses(ScanDict(v)), RootSlots(v))), v.next))

\* What is outside the copies and the old objects is given up.
Cleared(v) == [v EXCEPT !.mem = [a \in {b \in DOMAIN v.mem : b >= v.base /\ b < v.next} |-> v.mem[a]]]

Minor(v) == Cleared(GC([v EXCEPT !.next = v.old, !.limit = v.createSpace, !.twice = FALSE]))

----------------------------------------------------------------------------
(* The major collection.                                                      *)

\* markDict, markProcesses, markRoots: where marking starts.
MarkRoots(v) == {Get(v, s) : s \in ToSet(KnownSlots \o RootSlots(v) \o FlattenSeq([i \in DOMAIN Listed(v) |-> ProcessSlots(Listed(v)[i])]))}

Reach(v, S) ==
    FoldLeft(LAMBDA R, i: R \cup UNION {ToSet(At(v, a).at) : a \in R}, S, [i \in 1 .. Cardinality(Objects(v)) |-> i])

\* The first address after the objects of S, when they are slid together.
SumOver(v, S) == FoldSet(LAMBDA a, n: n + Words(At(v, a)), v.base, S)

\* The break table: where each marked object will be.
Breaks(v) ==
    LET marked == Reach(v, MarkRoots(v))
        Before(a) == {b \in marked : b < a}
    IN  [a \in marked |-> SumOver(v, Before(a))]

\* A slip: an object that slides is not followed.
AdjustCellNot(brk, a) == a

AdjustCell(brk, a) == IF a \in DOMAIN brk THEN brk[a] ELSE a
Adjusted(o, brk) == [o EXCEPT !.at = [i \in DOMAIN @ |-> AdjustCell(brk, @[i])]]

\* Objects slide down in the order of their addresses; their pointers follow.
Slide(v, brk) ==
    [v EXCEPT !.mem = [b \in {brk[a] : a \in DOMAIN brk} |->
                          Adjusted(At(v, CHOOSE a \in DOMAIN brk : brk[a] = b), brk)],
              !.next = SumOver(v, DOMAIN brk)]

\* adjustObject puts the symbols and handles that survive back into their tables.
Reinstall(v) == FoldLeft(LAMBDA u, a: Install(u, u.mem[a], a), [v EXCEPT !.dictionary = <<>>, !.handles = <<>>], InOrder(v, Objects(v)))

AdjustSlots(v, brk, ss) == FoldLeft(LAMBDA u, s: Put(u, s, AdjustCell(brk, Get(u, s))), v, ss)
AdjustProcesses(v, brk) == FoldLeft(LAMBDA u, p: AdjustSlots(u, brk, ProcessSlots(p)), v, Listed(v))

Compact(v) ==
    LET brk == Breaks(v)
        moved == Reinstall(Slide(Preset(v), brk))
    IN  [Reset(AdjustProcesses(AdjustSlots(moved, brk, KnownSlots \o RootSlots(v)), brk)) EXCEPT !.cards = {}]

----------------------------------------------------------------------------
\* A slip: the create space starts half-way, however odd the number of words.
LimitsHalf(v) == [v EXCEPT !.old = v.next,
                           !.createSpace = v.next + (v.end - v.next) \div 2 - 1,
                           !.create = v.next + (v.end - v.next) \div 2 - 1]

(* gCollect: a minor collection, a major one when the old space has crossed   *)
(* its threshold, and a larger heap when there is little room left.           *)
Limits(v) == [v EXCEPT !.old = v.next,
                       !.createSpace = v.next + (v.end - v.next) \div 2 + 1,
                       !.create = v.next + (v.end - v.next) \div 2 + 1]

Cramped(v, amount) ==
    \/ amount > ((v.createEnd - v.createSpace) * 75) \div 100
    \/ v.createEnd - v.createSpace < (v.end - v.base) \div 8

\* Everything is copied to a new heap, which here has the next addresses.
Grow(v, amount) ==
    LET size == (v.end - v.base) + (v.end - v.base) \div 2 + amount * 2
        copied == GC([v EXCEPT !.createSpace = v.base, !.createEnd = v.end, !.old = v.base,
                               !.next = v.end, !.limit = v.end + size, !.cards = {}])
        fresh == [copied EXCEPT !.base = v.end, !.end = v.end + size, !.createEnd = v.end + size,
                                !.threshold = v.end + (size * 2) \div 3]
    IN  Limits(Cleared(fresh))

Major(v) == IF v.next >= v.threshold THEN Compact(v) ELSE v

GrowIfCramped(v, amount) == IF Cramped(v, amount) THEN Grow(v, amount) ELSE v
Collect(v, amount) == GrowIfCramped(Limits(Major(Minor(v))), amount)

----------------------------------------------------------------------------
(* Allocation. Each call may collect, and moves what its caller holds: the    *)
(* fields of the new object are read from their places afterwards.            *)
Ids == 0 .. 5 + 3 * MaxSteps
FreshId(v) == CHOOSE i \in Ids : \A a \in Objects(v) : v.mem[a].id # i

Reserve(v, n) == IF v.create + n > v.createEnd THEN Collect(v, n) ELSE v
Place(v, o) == [v |-> [v EXCEPT !.mem = (v.create :> ([id |-> FreshId(v)] @@ o)) @@ @, !.create = @ + Words(o)], a |-> v.create]
Allocate(v, o) == Place(Reserve(v, Words(o)), o)
\* A slip: the elements are read before the collection.
AllocatePairEarly(v, s, t) == Allocate(v, Pair(Get(v, s), Get(v, t)))

PlacePair(v, s, t) == Place(v, Pair(Get(v, s), Get(v, t)))
AllocatePair(v, s, t) == PlacePair(Reserve(v, 2), s, t)

\* A slip: the write is not remembered.
UpdateCellOnly(v, a, i, x) == [v EXCEPT !.mem[a].at[i] = x]

\* updateObj: an old object that is written to is remembered in its card.
UpdateCell(v, a, i, x) ==
    [v EXCEPT !.cards = IF InOldSpace(v, a) THEN @ \cup {a} ELSE @, !.mem[a].at[i] = x]

\* A symbol or a handle is put into its table once it is allocated.
InstallResult(r, o) == [r EXCEPT !.v = Install(r.v, o, r.a)]
AllocateNamed(v, o) == InstallResult(Allocate(v, o), o)

NewSymbol(v, n) ==
    IF n \in DOMAIN v.dictionary THEN [v |-> v, a |-> v.dictionary[n]] ELSE AllocateNamed(v, Symbol(n))

\* A slip: a handle that was known by name keeps standing for no process.
LocateHandleUnbound(v, n, p) ==
    IF n \in DOMAIN v.handles THEN [v |-> v, a |-> v.handles[n]] ELSE AllocateNamed(v, Handle(n, p))

LocateHandle(v, n, p) ==
    IF n \notin DOMAIN v.handles THEN AllocateNamed(v, Handle(n, p))
    ELSE LET a == v.handles[n]
         IN  [v |-> IF p # Nil /\ v.mem[a].p = Nil THEN [v EXCEPT !.mem[a].p = p] ELSE v, a |-> a]

\* A text is handed over by its address: nowhere if it lies in a buffer, or
\* where the symbol is that it is part of. By now the symbol may have moved, and
\* what is read there is not a name any more.
Buffered == <<>>
TextOf(v, a) == <<a, At(v, a).id>>
ReadText(v, text) ==
    LET stale == text # Buffered /\ At(v, text[1]).id # text[2]
    IN  [v EXCEPT !.stale = @ \/ stale, !.fault = @ \/ stale]

\* buildHandle: the constructor is a root while its elements are allocated. The
\* text of the name is read after the constructor is allocated, and once more
\* after the symbols are.
RootResult(r) ==
    [r.v EXCEPT !.roots = Append(@, r.a), !.mem[r.a].at = <<r.v.known[1], r.v.known[1]>>]
UpdateRoot(r, i) == UpdateCell(r.v, Last(r.v.roots), i, r.a)
Unroot(v) == [v |-> [v EXCEPT !.roots = Front(@)], a |-> Last(v.roots)]

NamedHandle(v, n, text) == ReadText(UpdateRoot(NewSymbol(ReadText(v, text), n), 1), text)

BuildHandle(v, n, text, p) ==
    Unroot(UpdateRoot(LocateHandle(NamedHandle(RootResult(
        Allocate(v, Hdl(v.known[1], v.known[1]))), n, text), n, p), 2))

\* m_make_handle: the elements are at hand, and locateHandle copies the texts
\* before it allocates.
HandleFor(v, s, n) ==
    Unroot(UpdateRoot(LocateHandle(UpdateRoot([v |-> v, a |-> Get(v, s)], 1), n, Nil), 2))
MakeHandleFor(v, s, n) == HandleFor(RootResult(Allocate(v, Hdl(v.known[1], v.known[1]))), s, n)

\* The record that the constructor of a handle leads to, and its name.
HandleOf(v, a) == At(v, a).at[2]
HandleName(v, a) == At(v, a).at[1]

\* fork_process: newP is a root of the collector while the handle is built.
Forked(r, q) == [r.v EXCEPT !.proc[q].handle = r.a, !.newP = Nil]
ForkProcess(v, q, n, text) ==
    Forked(BuildHandle([v EXCEPT !.proc[q] = [live |-> TRUE, local |-> v.known[1], handle |-> v.known[1],
                                              e |-> v.known[2], pc |-> v.known[2], offset |-> 0],
                                 !.newP = q], n, text, q), q)

Nobody == [live |-> FALSE, local |-> 0, handle |-> 0, e |-> 0, pc |-> 0, offset |-> 0]

\* initHeap, init_dict, init_proc_tbl and rootProc.
InitWorld ==
    LET start == InitialSize \div 2 + 1
        empty == [mem |-> <<>>, base |-> 0, end |-> InitialSize, old |-> 0,
                  createSpace |-> start, create |-> start, createEnd |-> InitialSize,
                  threshold |-> (InitialSize * 2) \div 3, next |-> 0, limit |-> 0, cards |-> {},
                  dictionary |-> <<>>, handles |-> <<>>, known |-> <<start, start>>, roots |-> <<>>,
                  proc |-> [p \in Process |-> Nobody], newP |-> Nil,
                  fault |-> FALSE, twice |-> FALSE, stale |-> FALSE]
        void == Place(empty, Symbol("void"))
        code == Place(InstallSymbol(void.v, "void", void.a), Code)
    IN  ForkProcess([code.v EXCEPT !.known = <<void.a, code.a>>], Root, RootName, Buffered)
----------------------------------------------------------------------------
(* The heap as programs know it.                                              *)
Live(v) == {p \in Process : v.proc[p].live}

\* The objects that programs can reach, through the processes that live.
Addressed(v) == Reach(v, {v.known[1], v.known[2]} \cup UNION {{v.proc[p].local, v.proc[p].handle, v.proc[p].e} : p \in Live(v)})

\* The objects that are addressed, by their
\* ids, without the closure that every process executes.
IdOf(v, a) == At(v, a).id
StoreOf(v) ==
    LET seen == {a \in Addressed(v) : At(v, a).tag # "code"}
        Content(o) == [f \in DOMAIN o \ {"id"} |-> IF f = "at" THEN [i \in DOMAIN o.at |-> IdOf(v, o.at[i])] ELSE o[f]]
    IN  [i \in {IdOf(v, a) : a \in seen} |-> Content(At(v, CHOOSE a \in seen : IdOf(v, a) = i))]

\* What each process refers to.
HoldsOf(v) ==
    [p \in Process |-> IF v.proc[p].live
                       THEN [live |-> TRUE, local |-> IdOf(v, v.proc[p].local), handle |-> IdOf(v, v.proc[p].handle)]
                       ELSE [live |-> FALSE, local |-> Nil, handle |-> Nil]]
View(v) == [store |-> StoreOf(v), void |-> IdOf(v, v.known[1]), holds |-> HoldsOf(v)]

----------------------------------------------------------------------------
(* What programs do, as far as the heap is concerned.                         *)
Local(p) == w.proc[p].local
Assign(v, p, a) == [v EXCEPT !.proc[p].local = a]

Step(v) ==
    /\ v.end - v.base <= MaxSize
    /\ w' = v
    /\ view' = IF v.fault THEN view ELSE View(v)
    /\ steps' = steps + 1

Hold(p, r) == Step(Assign(r.v, p, r.a))
Held(p) == At(w, Local(p))

\* allocatePair and its like, with elements the process holds.
MakePair(p) == Hold(p, AllocatePair(w, <<"proc", p, "local">>, <<"known", 1>>))

\* updateTuple, updateConsEl, ...: a field of what p holds is made to refer to
\* what q holds.
Update(p, q, i) ==
    /\ Held(p).tag = "pair"
    /\ Step(UpdateCell(w, Local(p), i, Local(q)))

Follow(p, i) ==
    /\ Held(p).tag = "pair"
    /\ Step(Assign(w, p, Held(p).at[i]))

\* A message: the receiver holds what the sender holds.
Pass(p, q) == Step(Assign(w, q, Local(p)))

Drop(p) == Step(Assign(w, p, w.known[1]))

Intern(p, n) == Hold(p, NewSymbol(w, n))

\* The empty tuple: a code of length nothing, a tuple that is read or decoded.
MakeUnit(p) == Hold(p, Allocate(w, Unit))

\* A handle out of a text in a buffer: m_canonical, a string that is coerced.
Canonical(p, n) == Hold(p, BuildHandle(w, n, Buffered, Nil))

\* A handle out of a symbol: m_make_handle, and coercion by the symbol's text.
MakeHandle(p) ==
    /\ Held(p).tag = "symbol"
    /\ \/ Hold(p, MakeHandleFor(w, <<"proc", p, "local">>, Held(p).name))
       \/ Hold(p, BuildHandle(w, Held(p).name, TextOf(w, Local(p)), Nil))

\* m_fork2: the process is named by a handle, which must stand for no process.
Fork(p, q) ==
    /\ ~w.proc[q].live
    /\ Held(p).tag = "hdl" /\ At(w, HandleOf(w, Local(p))).p = Nil
    /\ LET name == HandleName(w, Local(p))
       IN  Step(ForkProcess(w, q, At(w, name).name, TextOf(w, name)))

\* m_fork: the process has a number, which no process has, and the name of p.
ForkNumbered(p, q, n) ==
    /\ ~w.proc[q].live
    /\ n \in DOMAIN w.handles => ~Bound(w, w.handles[n])
    /\ Step(ForkProcess(w, q, n, TextOf(w, HandleName(w, w.proc[p].handle))))

\* ps_terminate, bindHandle(p->handle, NULL).
Terminate(p) ==
    /\ p # Root
    /\ Step([w EXCEPT !.mem[HandleOf(w, w.proc[p].handle)].p = Nil, !.proc[p] = Nobody])

\* An instruction that allocates nothing.
Execute(p) ==
    LET o == 1 - w.proc[p].offset
    IN  Step([w EXCEPT !.proc[p].offset = o, !.proc[p].pc = w.proc[p].e + o])

\* Any other allocation that finds no room; what it allocates is soon dropped.
CollectFor(amount) ==
    /\ w.create + amount > w.createEnd
    /\ Step(Collect(w, amount))

\* The run ends where copies run over or a name is lost.
Next ==
    /\ steps < MaxSteps /\ ~w.fault
    /\ \/ \E p \in Live(w) :
             \/ MakePair(p) \/ MakeUnit(p) \/ Drop(p) \/ Terminate(p) \/ Execute(p) \/ MakeHandle(p)
             \/ \E q \in Live(w) \ {p} : Pass(p, q)
             \/ \E q \in Live(w), i \in 1 .. 2 : Update(p, q, i)
             \/ \E i \in 1 .. 2 : Follow(p, i)
             \/ \E n \in Name : Intern(p, n) \/ Canonical(p, n)
             \/ \E q \in Process : Fork(p, q) \/ \E n \in Name : ForkNumbered(p, q, n)
       \/ \E amount \in {2, 6} : CollectFor(amount)

Init == w = InitWorld /\ view = View(InitWorld) /\ steps = 0

Spec == Init /\ [][Next]_vars

----------------------------------------------------------------------------
(* Properties.                                                                *)

\* The space for new objects is never larger than the space their copies have,
\* and no copy runs into what is still to be copied, except where a unit that
\* several places refer to was copied for each; and the text of a name is read
\* where it is, except that of a symbol whose address was handed over.
CopiesFit ==
    /\ w.fault => w.twice \/ w.stale
    /\ w.create <= w.createEnd
    /\ w.createEnd - w.createSpace <= w.createSpace - w.old

\* What every pointer of a program leads to is an object: no collection gives
\* up, overwrites or moves an object without all that refers to it (checkPtr
\* of generation.c tests this where the engine is built with MEMTRACE).
PointersLead ==
    \A a \in Addressed(w) :
        /\ At(w, a).tag \notin {"free", "forward"}
        /\ \A b \in Objects(w) : b > a => b >= a + Words(At(w, a))

\* No collection gives up, overwrites or moves away what is still referred to.
NothingDangles == CopiesFit /\ (~w.fault => PointersLead)

\* An old object that refers to a new one has its card set (checkPtr).
RememberedSet ==
    ~w.fault => \A a \in Objects(w) : InOldSpace(w, a) /\ (\E b \in ToSet(w.mem[a].at) : InCreateSpace(w, b)) => a \in w.cards

\* Symbols are compared by their addresses (LogicalVal, isConstructor, ...):
\* no two that a program can reach have the same name.
SymbolsUnique ==
    \A a, b \in Addressed(w) :
        At(w, a).tag = "symbol" /\ At(w, b).tag = "symbol" /\ At(w, a).name = At(w, b).name => a = b

\* The collector finds the stacks of processes through the table of handles:
\* every live process is listed, once, by the handle its own value leads to.
ProcessesListedOnce ==
    /\ Len(Listed(w)) = Cardinality(Live(w)) /\ ToSet(Listed(w)) = Live(w)
    /\ \A p \in Live(w) :
          LET h == At(w, w.proc[p].handle) IN h.tag = "hdl" /\ At(w, h.at[2]).tag = "handle" /\ At(w, h.at[2]).p = p

\* A program counter stands on the same instruction of the same code after it
\* has been moved.
ProgramCounters == \A p \in Live(w) : w.proc[p].pc = w.proc[p].e + w.proc[p].offset

\* What the engine keeps outside the heap agrees with it after each collection:
\* the dictionary, the table of handles and the registers of the processes.
TablesAgree == ~w.fault => SymbolsUnique /\ ProcessesListedOnce /\ ProgramCounters

Store == INSTANCE ObjectStore WITH Id <- Ids, store <- view.store, void <- view.void, holds <- view.holds

\* Programs cannot see the collector: every step of the heap is the step that
\* the program asked for on objects that stay where they are, or no step.
ImplementsStore == Store!Spec
=============================================================================
