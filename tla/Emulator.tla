------------------------------- MODULE Emulator -------------------------------
(***************************************************************************)
(* The emulator of one process executing compiled code.  The stack is an     *)
(* array of cells that grows towards lower addresses; fp points at the frame *)
(* of the running function:                                                  *)
(*     fp+3 ..   arguments, the first one highest                            *)
(*     fp+2      where the caller goes on                                    *)
(*     fp+1      the caller's closure                                        *)
(*     fp        the caller's frame pointer                                  *)
(*     fp-1 ..   local variables                                             *)
(* An instruction that allocates may collect.  The collector sees the cells  *)
(* at or above the depth the instruction saves, so every allocation leaves   *)
(* junk in the cells below it: what a program does must not depend on        *)
(* whether the heap was full.  A call leaves junk there as well.             *)
(*                                                                          *)
(* Clicks and the switch to another process are in Scheduler, the heap's     *)
(* spaces in Heap; floating point, escapes and free variables are left out.  *)
(***************************************************************************)
EXTENDS AprilCode

CONSTANT
  StackSize   \* cells of the stack

VARIABLES
  code,     \* code[f]: the instructions of function f
  status,   \* running, rejected, done or failed
  seg,      \* the function that runs
  pc,       \* the next instruction
  fp,
  er,       \* the innermost error block
  errval,   \* the last error
  mem,      \* the stack
  heap      \* the list pairs, <<head, tail>>

machine == <<code, status, seg, pc, fp, er, errval, mem, heap>>

SB == StackSize + 1     \* the bottom of the stack

(***************************************************************************)
(* Values as the operations see them.                                        *)
(***************************************************************************)
IsPair(v) == v[1] = "ref"
Head1(v) == heap[v[2]][1]
Tail1(v) == heap[v[2]][2]

\* equalcell: two values are equal when they have the same contents.
RECURSIVE equalcell(_, _)
equalcell(u, v) ==
  CASE IsPair(u) /\ IsPair(v) ->
         equalcell(Head1(u), Head1(v)) /\ equalcell(Tail1(u), Tail1(v))
    [] u[1] = "tuple" /\ v[1] = "tuple" ->
         /\ Len(u[2]) = Len(v[2])
         /\ \A k \in DOMAIN u[2] : equalcell(u[2][k], v[2][k])
    [] OTHER -> u = v

\* prefix: <<yes, what is left of the list>>.
RECURSIVE PrefixOf(_, _)
PrefixOf(pre, list) ==
  IF ~IsPair(pre) THEN <<TRUE, list>>
  ELSE IF ~IsPair(list) \/ ~equalcell(Head1(pre), Head1(list)) THEN <<FALSE, list>>
  ELSE PrefixOf(Tail1(pre), Tail1(list))

RECURSIVE LastPair(_)
LastPair(list) == IF IsPair(Tail1(list)) THEN LastPair(Tail1(list)) ELSE list[2]

\* The k-th pair of a list, or where the list ends before it.
RECURSIVE Step(_, _)
Step(list, k) == IF k > 1 /\ IsPair(list) THEN Step(Tail1(list), k - 1) ELSE list

(***************************************************************************)
(* Registers.                                                               *)
(***************************************************************************)
Ins == code[seg][pc]
Op == Ins[1]
Arg(k) == Ins[k + 1]
Var(off) == mem[fp + off]
V(k) == Var(Arg(k))
Put(m, off, v) == [m EXCEPT ![fp + off] = v]

\* save_regs: the cells below the saved depth are lost to a collection.
Saved(depth) == [a \in DOMAIN mem |-> IF a < fp + depth THEN Junk ELSE mem[a]]

Running(ops) == status = "running" /\ Op \in ops
Continue(n) == pc' = pc + n /\ UNCHANGED <<code, status, seg, fp, er, errval>>
Jump(to) == pc' = to /\ UNCHANGED <<code, status, seg, fp, er, errval>>

(***************************************************************************)
(* Errors.  The innermost error block belongs to the running function or to  *)
(* one of its callers; without one the process ends.                         *)
(***************************************************************************)
\* The frame the block lies in and the function it belongs to.
RECURSIVE Owner(_, _)
Owner(f, name) == IF f < er THEN Owner(mem[f][2], mem[f + 1][2]) ELSE <<f, name>>

ErrorRecover(val) ==
  /\ errval' = val
  /\ IF er < SB
     THEN LET to == Owner(fp, seg) IN
          /\ fp' = to[1]
          /\ seg' = to[2]
          /\ pc' = mem[er + 1][2]
          /\ mem' = [mem EXCEPT ![er] = VoidCell, ![er + 1] = VoidCell]
          /\ er' = mem[er][2]
          /\ UNCHANGED status
     ELSE status' = "failed" /\ UNCHANGED <<seg, pc, fp, er, mem>>
  /\ UNCHANGED <<code, heap>>

RunErr(name) == ErrorRecover(Failure(name))

GenErr == Running({"generr"}) /\ ErrorRecover(V(1))

\* errblk and errend: the two words of a block hold the block before it and
\* where its handler begins.
ErrBlk ==
  /\ Running({"errblk"})
  /\ mem' = [mem EXCEPT ![fp + Arg(1)] = Raw(er), ![fp + Arg(1) + 1] = Raw(Arg(2))]
  /\ er' = fp + Arg(1)
  /\ pc' = pc + 1
  /\ UNCHANGED <<code, status, seg, fp, errval, heap>>

ErrEnd ==
  /\ Running({"errend"})
  /\ mem' = [mem EXCEPT ![er] = VoidCell, ![er + 1] = VoidCell]
  /\ er' = mem[er][2]
  /\ pc' = pc + 1
  /\ UNCHANGED <<code, status, seg, fp, errval, heap>>

(***************************************************************************)
(* Moves and jumps.                                                          *)
(***************************************************************************)
Move ==
  /\ Running({"movl", "move", "initv", "moverr"})
  /\ mem' = CASE Op = "movl" -> Put(mem, Arg(2), Arg(1))
              [] Op = "move" -> Put(mem, Arg(2), V(1))
              [] Op = "initv" -> Put(mem, Arg(1), VoidCell)
              [] Op = "moverr" -> Put(mem, Arg(1), errval)
  /\ Continue(1)
  /\ UNCHANGED heap

Jmp == Running({"jmp"}) /\ Jump(Arg(1)) /\ UNCHANGED <<mem, heap>>

\* The entries of a jump table follow the instruction, an entry for failure
\* first.
TableJump ==
  /\ Running({"ijmp", "hjmp"})
  /\ LET known == IF Op = "ijmp" THEN V(1)[2] \in 0..(Arg(2) - 1) ELSE V(1)[1] = "sym"
         ix == IF Op = "ijmp" THEN V(1)[2] ELSE uniHash(V(1)[2]) % Arg(2)
     IN Continue(IF known THEN ix + 2 ELSE 1)
  /\ UNCHANGED <<mem, heap>>

TestJump ==
  /\ Running({"iftrue", "iffalse", "mnil"})
  /\ LET taken == CASE Op = "iftrue" -> V(1) = Yes
                    [] Op = "iffalse" -> V(1) = No
                    [] Op = "mnil" -> V(1) # NilCell
     IN Jump(IF taken THEN Arg(2) ELSE pc + 1)
  /\ UNCHANGED <<mem, heap>>

(***************************************************************************)
(* Matches and comparisons: skip the next word, or do not.                   *)
(***************************************************************************)
Match ==
  /\ Running({"mlit", "mcons", "mcnsfun"})
  /\ LET v == V(1)
         matches == CASE Op = "mlit" -> equalcell(v, Arg(2))
                      [] Op = "mcons" -> v[1] = "tuple" /\ Len(v[2]) = Arg(2) + 1
                      [] Op = "mcnsfun" -> v[1] = "tuple" /\ v[2][1] = Arg(2)
     IN Continue(IF matches THEN 2 ELSE 1)
  /\ UNCHANGED <<mem, heap>>

MatchList ==
  /\ Running({"mlist"})
  /\ IF IsPair(V(1))
     THEN mem' = Put(Put(mem, Arg(2), Head1(V(1))), Arg(3), Tail1(V(1))) /\ Continue(2)
     ELSE UNCHANGED mem /\ Continue(1)
  /\ UNCHANGED heap

MatchPrefix ==
  /\ Running({"prefix"})
  /\ LET left == PrefixOf(V(2), V(1)) IN
     IF left[1] THEN mem' = Put(mem, Arg(3), left[2]) /\ Continue(2)
     ELSE UNCHANGED mem /\ Continue(1)
  /\ UNCHANGED heap

Compare ==
  /\ Running(Compares)
  /\ LET holds == CASE Op \in {"eq", "feq"} -> equalcell(V(1), V(2))
                    [] Op \in {"neq", "fneq"} -> ~equalcell(V(1), V(2))
                    [] Op = "fle" -> V(1)[2] <= V(2)[2]
                    [] Op = "fgt" -> V(1)[2] > V(2)[2]
     IN Continue(IF holds THEN 1 ELSE 2)
  /\ UNCHANGED <<mem, heap>>

(***************************************************************************)
(* Taking values apart.  A constructor holds its name before its fields.     *)
(***************************************************************************)
Extract ==
  /\ Running({"consfld", "indxfld"})
  /\ mem' = Put(mem, Arg(3), V(1)[2][Arg(2) + (IF Op = "consfld" THEN 2 ELSE 1)])
  /\ Continue(1)
  /\ UNCHANGED heap

Unpack ==
  /\ Running({"ulst"})
  /\ IF IsPair(V(1))
     THEN /\ mem' = Put(Put(mem, Arg(2), Head1(V(1))), Arg(3), Tail1(V(1)))
          /\ Continue(1) /\ UNCHANGED heap
     ELSE RunErr("einval")

Element ==
  /\ Running({"nthel"})
  /\ LET at == Step(V(1), V(2)[2]) IN
     IF IsPair(at) THEN mem' = Put(mem, Arg(3), Head1(at)) /\ Continue(1) /\ UNCHANGED heap
     ELSE RunErr("einval")

(***************************************************************************)
(* Instructions that allocate, and the depth each of them saves.             *)
(***************************************************************************)
Allocating == {"loc2tpl", "loc2cns", "lstpr", "add2lst", "lsupdte",
               "plus", "minus", "times", "incr"}
SavedDepth(ins) ==
  CASE ins[1] \in {"loc2tpl", "loc2cns", "add2lst", "lsupdte"} -> ins[2]
    [] ins[1] = "lstpr" -> Min({ins[2], ins[3], ins[4]})
    [] ins[1] \in {"plus", "minus", "times"} -> Min({ins[2], ins[3]})
    [] ins[1] = "incr" -> Min({ins[2], ins[4]})

\* loc2tpl, loc2cns: the cells from the highest to the one at the depth.
Build ==
  /\ Running({"loc2tpl", "loc2cns"})
  /\ LET n == IF Op = "loc2tpl" THEN Arg(2) ELSE Arg(2) + 1
         cells == [k \in 1..n |-> Var(Arg(1) + n - k)]
     IN mem' = Put(Saved(Arg(1)), Arg(3), Record(cells))
  /\ Continue(1)
  /\ UNCHANGED heap

\* allocatePair
Pair(h, t) == heap' = Append(heap, <<h, t>>)
NewPair == ListRef(Len(heap) + 1)

MakePair ==
  /\ Running({"lstpr"})
  /\ Pair(V(1), V(2))
  /\ mem' = Put(Saved(SavedDepth(Ins)), Arg(3), NewPair)
  /\ Continue(1)

\* add2lst: at the end of a list; lsupdte: after the pair the variable points
\* at, which then points at the new one.
AddToList ==
  /\ Running({"add2lst"})
  /\ LET new == <<V(2), NilCell>>
         list == V(3)
     IN IF IsPair(list)
        THEN heap' = [Append(heap, new) EXCEPT ![LastPair(list)][2] = NewPair]
             /\ mem' = Saved(Arg(1))
        ELSE heap' = Append(heap, new) /\ mem' = Put(Saved(Arg(1)), Arg(3), NewPair)
  /\ Continue(1)

UpdateList ==
  /\ Running({"lsupdte"})
  /\ heap' = [Append(heap, <<V(2), NilCell>>) EXCEPT ![V(3)[2]][2] = NewPair]
  /\ mem' = Put(Saved(Arg(1)), Arg(3), NewPair)
  /\ Continue(1)

Arith ==
  /\ Running({"plus", "minus", "times", "incr"})
  /\ LET a == V(1)[2]
         n == CASE Op = "plus" -> a + V(2)[2]
                [] Op = "minus" -> a - V(2)[2]
                [] Op = "times" -> a * V(2)[2]
                [] Op = "incr" -> a + Arg(2)
     IN mem' = Put(Saved(SavedDepth(Ins)), Arg(3), Number(n))
  /\ Continue(1)
  /\ UNCHANGED heap

(***************************************************************************)
(* Calls.                                                                   *)
(***************************************************************************)
Call ==
  /\ Running({"call"})
  /\ LET sp == fp + Arg(1) IN
     /\ mem' = [Saved(Arg(1)) EXCEPT ![sp - 1] = Raw(pc + 1), ![sp - 2] = Closure(seg),
                                     ![sp - 3] = Raw(fp)]
     /\ fp' = sp - 3
  /\ seg' = V(3)[2]
  /\ pc' = 1
  /\ UNCHANGED <<code, status, er, errval, heap>>

\* Makes room on the stack; the emulator may switch to another process here,
\* and at a return.
Allocv == Running({"allocv"}) /\ Continue(1) /\ UNCHANGED <<mem, heap>>

\* A slip: the end of the outermost function is not noticed.
ResultGoesOn ==
  /\ Running({"result"})
  /\ LET at == fp + 2 + Arg(1) IN
     mem' = [a \in DOMAIN mem |-> IF a < at THEN Junk ELSE IF a = at THEN V(2) ELSE mem[a]]
  /\ fp' = mem[fp][2]
  /\ seg' = mem[fp + 1][2]
  /\ pc' = mem[fp + 2][2]
  /\ UNCHANGED <<code, status, er, errval, heap>>

\* The result replaces the first argument.  The caller of function 1 has the
\* return address 0.
Result ==
  /\ Running({"result"})
  /\ LET at == fp + 2 + Arg(1) IN
     mem' = [a \in DOMAIN mem |-> IF a < at THEN Junk ELSE IF a = at THEN V(2) ELSE mem[a]]
  /\ fp' = mem[fp][2]
  /\ seg' = mem[fp + 1][2]
  /\ pc' = mem[fp + 2][2]
  /\ status' = IF mem[fp + 2][2] = 0 THEN "done" ELSE "running"
  /\ UNCHANGED <<code, er, errval, heap>>

(***************************************************************************)
(* A process begins in function 1, called with its arguments, if the        *)
(* verifier accepted the code.                                               *)
(***************************************************************************)
\* The stack with the arguments and the frame of its caller.
Entered(args) ==
  LET n == Len(args) IN
  [a \in 1..StackSize |->
     IF a > StackSize - n THEN args[StackSize - a + 1]
     ELSE IF a = StackSize - n THEN Raw(0)
     ELSE IF a = StackSize - n - 1 THEN Closure(1)
     ELSE IF a = StackSize - n - 2 THEN Raw(0) ELSE Junk]

Boot(program, accepted, args, pairs) ==
  /\ code = program
  /\ status = IF accepted THEN "running" ELSE "rejected"
  /\ seg = 1
  /\ pc = 1
  /\ fp = StackSize - Len(args) - 2
  /\ er = SB
  /\ errval = VoidCell
  /\ mem = Entered(args)
  /\ heap = pairs

Execute ==
  \/ GenErr \/ ErrBlk \/ ErrEnd
  \/ Move \/ Jmp \/ TableJump \/ TestJump
  \/ Match \/ MatchList \/ MatchPrefix \/ Compare
  \/ Extract \/ Unpack \/ Element
  \/ Build \/ MakePair \/ AddToList \/ UpdateList \/ Arith
  \/ Call \/ Allocv \/ Result

(***************************************************************************)
(* What an instruction reads, by operand; the depth at which the collector   *)
(* may look at the stack while it runs.                                      *)
(***************************************************************************)
Reads(ins) ==
  LET op == ins[1] IN
  CASE op \in {"move", "generr", "iftrue", "iffalse", "mnil", "mlit", "mcons", "mcnsfun",
               "mlist", "ulst", "ijmp", "hjmp", "consfld", "indxfld", "incr"} -> {ins[2]}
    [] op \in Compares \cup {"prefix", "nthel", "lstpr", "plus", "minus", "times"} ->
         {ins[2], ins[3]}
    [] op \in {"add2lst", "lsupdte"} -> {ins[3], ins[4]}
    [] op = "loc2tpl" -> ins[2]..(ins[2] + ins[3] - 1)
    [] op = "loc2cns" -> ins[2]..(ins[2] + ins[3])
    [] op = "call" -> {ins[4]} \cup ins[2]..(ins[2] + ins[3] - 1)
    [] op = "result" -> {ins[3]}
    [] OTHER -> {}

Scanned(ins) ==
  CASE ins[1] \in Allocating -> {SavedDepth(ins)} [] ins[1] = "call" -> {ins[2]} [] OTHER -> {}

\* The words of frames and of error blocks, which the collector passes over.
RECURSIVE FrameWords(_)
FrameWords(f) == IF f = 0 THEN {} ELSE {f, f + 2} \cup FrameWords(mem[f][2])
RECURSIVE BlockWords(_)
BlockWords(b) == IF b >= SB THEN {} ELSE {b, b + 1} \cup BlockWords(mem[b][2])
=============================================================================
