------------------------------- MODULE Compiled -------------------------------
(***************************************************************************)
(* Programs compiled, verified and executed: the code generator, the code     *)
(* verifier and the emulator together.                                       *)
(***************************************************************************)
EXTENDS Compiler, Verifier, Emulator, Language

CONSTANT
  Jobs    \* what may be run, by kinds and groups: Loaded(fns, calls) of some programs
VARIABLE means    \* what the program that runs should yield
vars == <<means, machine>>

CodeOf(fns) ==
  FoldLeft(LAMBDA segs, f : Append(segs, Assemble(CompFunction(f[1], f[2]))), <<>>, fns)

(***************************************************************************)
(* Lists of the language and pairs of the heap.                              *)
(***************************************************************************)
RECURSIVE Placed(_, _)
RECURSIVE PlacedAll(_, _)
PlacedAll(vs, pairs) ==
  IF vs = <<>> THEN [cells |-> <<>>, pairs |-> pairs]
  ELSE LET a == Placed(vs[1], pairs)
           b == PlacedAll(Tail(vs), a.pairs)
       IN [b EXCEPT !.cells = <<a.cell>> \o @]
Placed(v, pairs) ==
  CASE v = EmptyList -> [cell |-> NilCell, pairs |-> pairs]
    [] IsList(v) /\ v # EmptyList ->
         LET h == Placed(v[2][1], pairs)
             t == Placed(List(Tail(v[2])), h.pairs)
         IN [cell |-> ListRef(Len(t.pairs) + 1), pairs |-> Append(t.pairs, <<h.cell, t.cell>>)]
    [] v[1] = "tuple" ->
         LET els == PlacedAll(v[2], pairs) IN [cell |-> Record(els.cells), pairs |-> els.pairs]
    [] OTHER -> [cell |-> v, pairs |-> pairs]

RECURSIVE Shown(_)
Shown(cell) ==
  CASE cell = NilCell -> EmptyList
    [] IsPair(cell) -> List(<<Shown(Head1(cell))>> \o Shown(Tail1(cell))[2])
    [] cell[1] = "tuple" -> Record([k \in DOMAIN cell[2] |-> Shown(cell[2][k])])
    [] OTHER -> cell

(***************************************************************************)
(* A program is compiled, and verified when it is loaded; it runs only if it  *)
(* passes.  fns[f] is <<equations, arity>> of function f, calls what function *)
(* 1 may be called with.                                                     *)
(***************************************************************************)
\* Where the compiler misreads the source: a disjunction with true, in the test
\* of a conditional expression, is false (foldexp.c:887-894).
RECURSIVE ReadTest(_)
ReadTest(t) ==
  CASE t[1] \in {"and", "or"} ->
         IF t[1] = "or" /\ (IsTrue(foldExp(t[2])) \/ IsTrue(foldExp(t[3]))) /\ foldExp(t) = <<"false">>
         THEN <<"false">> ELSE <<t[1], ReadTest(t[2]), ReadTest(t[3])>>
    [] t[1] = "not" -> <<"not", ReadTest(t[2])>>
    [] OTHER -> t
AsRead(e) == IF e[1] = "if" THEN <<"if", ReadTest(e[2]), e[3], e[4]>> ELSE e
AllRead(fns) == [f \in DOMAIN fns |-> <<[k \in DOMAIN fns[f][1] |-> <<fns[f][1][k][1], AsRead(fns[f][1][k][2])>>], fns[f][2]>>]

Accepted(segs, fns) == \A f \in 1..Len(segs) : Verified(segs[f], fns[f][2])
Outcome(o) == [k |-> o.k, v |-> o.v]
\* segs is the code of fns.
LoadedAs(fns, segs, calls) ==
  [code |-> segs, accepted |-> Accepted(segs, fns),
   inputs |-> {[args |-> PlacedAll(args, <<>>), means |-> Outcome(Meaning(AllRead(fns), args))] : args \in calls}]

Loaded(fns, calls) == LoadedAs(fns, CodeOf(fns), calls)

Init ==
  \E kind \in Jobs : \E group \in kind : \E job \in group : \E in \in job.inputs :
    /\ Boot(job.code, job.accepted, in.args.cells, in.args.pairs)
    /\ means = in.means

Ended == status \in {"done", "failed", "rejected"}

Next == Execute /\ UNCHANGED means
Spec == Init /\ [][Next]_vars /\ WF_vars(Next)

(***************************************************************************)
(* Properties.                                                              *)
(***************************************************************************)
TypeOK ==
  /\ status \in {"running", "rejected", "done", "failed"}
  /\ status = "running" => pc \in 1..Len(code[seg])
  /\ fp \in 0..SB /\ er \in 1..SB
  /\ DOMAIN mem = 1..StackSize

Result1 == mem[StackSize]
\* The code computes what the program means, or raises the same exception; a
\* conditional whose test is a disjunction with true goes the wrong way.
\* (compexp.c, comptest.c, compptn.c, compList.c, compstmt.c, compchoice.c)
ComputesSource ==
  status \in {"done", "failed"} =>
    IF means.k = "err" THEN status = "failed" /\ Shown(errval) = means.v
    ELSE status = "done" /\ Shown(Result1) = means.v

\* No instruction reads a cell that holds no value: one nobody wrote since it
\* was last given up, or a word of a frame or of an error block.
ReadsValues ==
  status = "running" => \A off \in Reads(Ins) : Var(off)[1] \notin {"junk", "raw"}

\* Whenever the collector may run, everything at or above the saved depth is a
\* value, or a word of a frame or of an error block in force.
SafeToScan ==
  status = "running" =>
    \A depth \in Scanned(Ins) :
      \A a \in (fp + depth)..StackSize :
        \/ mem[a][1] \notin {"junk", "raw"}
        \/ mem[a][1] = "raw" /\ a \in FrameWords(fp) \cup BlockWords(er)

\* A function stays inside the cells allocv made room for.
StaysInFrame ==
  status = "running" =>
    LET limit == code[seg][1][2] IN
    \A off \in (IF Op \in {"allocv", "jmp"} THEN {} ELSE Locals(Ins)) : off >= limit

\* The compiler's idea of which cells of a frame are in use, and which of them
\* hold values, is right for the emulator and for the collector.
FrameIsSafe == ReadsValues /\ SafeToScan /\ StaysInFrame

\* Every error block is closed by the statement that opened it, and none is
\* left when the program is done.
BlocksNest ==
  /\ status = "running" /\ Op = "errend" => fp + Arg(1) = er
  /\ status = "done" => er = SB

\* The verifier refuses nothing the compiler makes.
VerifierAccepts == status # "rejected"

\* Compiled code comes to an end.
Finishes == <>Ended
=============================================================================
