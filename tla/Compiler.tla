------------------------------- MODULE Compiler -------------------------------
(***************************************************************************)
(* The code generator of the compiler: expressions, tests, patterns,        *)
(* statements, choices and functions, translated into the instructions of    *)
(* AprilCode.  A program is its abstract syntax, a tuple whose first element *)
(* names the construct:                                                      *)
(*   expressions  int n | sym s | nil | var x | cons e e | tpl <<e ...>>     *)
(*                add sub mul e e | neg e | nth e e | if t e e | test t      *)
(*                case e alts | catch e alts | raise e | valof s | collect s *)
(*                call f <<e ...>> | con name <<e ...>>                      *)
(*   patterns     any | var x | int n | sym s | nil | cons p p | tpl <<...>> *)
(*                con name <<...>> | bang e | guard p t | append p p         *)
(*   tests        true | false | match p e | nomatch p e | cmp op e e        *)
(*                same e e | differ e e | range e e e | in p e | and or t t  *)
(*                not t | var x | call f <<e ...>>                           *)
(*   statements   skip | seq <<s ...>> | if t s s | when t s | for p e s     *)
(*                while t s | try s alts | label l s | leave l | elemis e    *)
(*                valis e | assign x e | matchall p e | match p e | let x e  *)
(*                var x e | raise e | case e alts                            *)
(* An alternative is <<p, e or s>>; a guarded one has a guard pattern.        *)
(*                                                                          *)
(* The code writes instructions as it goes and passes destinations, depths   *)
(* and dictionaries by reference; here every operator returns a record of    *)
(* what it wrote and changed.  A label is the path `at' of the construct     *)
(* that made it and a number, which is all that NewLabel has to give.        *)
(*                                                                          *)
(* A scope s holds the dictionary (newest entry first), the dictionary of    *)
(* the enclosing clause (outer), and the statement contexts.                 *)
(***************************************************************************)
EXTENDS AprilCode

MINBOUND == 3     \* the first argument above the frame

\* dict.c: local variables and scope marks.
declVar(x, rw, inited, off, dict) ==
  << [name |-> x, rw |-> rw, inited |-> inited, off |-> off, mark |-> FALSE] >> \o dict
addMarker(dict) ==
  << [name |-> "", rw |-> FALSE, inited |-> FALSE, off |-> 0, mark |-> TRUE] >> \o dict

Entries(x, dict) == {k \in 1..Len(dict) : ~dict[k].mark /\ dict[k].name = x}
IsVar(x, dict) == Entries(x, dict) # {}
Entry(x, dict) == dict[Min(Entries(x, dict))]
IsLocalVar(x, dict) ==
  \E k \in Entries(x, dict) : \A j \in 1..(k - 1) : ~dict[j].mark
\* The entries made since dict was old go; what became of the older ones stays.
clearDict(dict, old) == SubSeq(dict, Len(dict) - Len(old) + 1, Len(dict))
InitVar(x, dict) == [dict EXCEPT ![Min(Entries(x, dict))].inited = TRUE]

Under(s, dict) == [s EXCEPT !.dict = dict]

\* NewLabel.
Sub(at, k) == Append(at, k)
Mark(at, k) == Append(at, -k)
Here(L) == << Label(L) >>

\* Where an expression goes.  A destination of 0 lets the expression choose.
genDest(dest, depth) ==
  IF dest # 0 THEN [dest |-> dest, dp |-> depth] ELSE [dest |-> depth - 1, dp |-> depth - 1]

\* A slip: the destination is left as it is.
genDestUncleared(dest, depth) ==
  LET g == genDest(dest, depth) IN [dest |-> g.dest, dp |-> g.dp, code |-> <<>>]

\* A fresh destination is cleared, because the expression may collect before
\* it has a value.
genInitDest(dest, depth) ==
  LET g == genDest(dest, depth) IN
  [dest |-> g.dest, dp |-> g.dp,
   code |-> IF dest # 0 THEN <<>> ELSE << <<"initv", g.dest>> >>]

Moved(from, to) == IF to = 0 THEN from ELSE to
genMove(from, to) == IF to \in {0, from} THEN <<>> ELSE << <<"move", from, to>> >>

\* failError, matchError: raise error(message, code).
genError(code, depth) ==
  << <<"movl", Symbol("error"), depth - 1>>, <<"movl", Symbol("message"), depth - 2>>,
     <<"movl", Symbol(code), depth - 3>>, <<"loc2cns", depth - 3, 2, depth - 1>>,
     <<"generr", depth - 1>> >>

Simple(e) == e[1] \in {"int", "sym", "nil"}
LiteralOf(e) ==
  CASE e[1] = "int" -> Number(e[2]) [] e[1] = "sym" -> Symbol(e[2]) [] e[1] = "nil" -> NilCell

(***************************************************************************)
(* foldExp: what the compiler computes by itself before it generates code.    *)
(* A truth value that it computes is bare, one in the source is not; a        *)
(* disjunction with true becomes false (foldexp.c:887-894).                   *)
(***************************************************************************)
Known(b) == IF b THEN <<"true", "bare">> ELSE <<"false", "bare">>
IsTrue(t) == t[1] = "true"
IsFalse(t) == t[1] = "false"

RECURSIVE Ground(_)
Ground(e) ==
  CASE e[1] = "cons" -> Ground(e[2]) /\ Ground(e[3])
    [] e[1] = "tpl" -> \A k \in DOMAIN e[2] : Ground(e[2][k])
    [] e[1] = "con" -> \A k \in DOMAIN e[3] : Ground(e[3][k])
    [] OTHER -> Simple(e)

FoldArith(op, a, b) ==
  IF a[1] # "int" \/ b[1] # "int" THEN <<op, a, b>>
  ELSE <<"int", CASE op = "add" -> a[2] + b[2] [] op = "sub" -> a[2] - b[2] [] op = "mul" -> a[2] * b[2]>>

FoldCompare(op, a, b) ==
  IF a[1] # "int" \/ b[1] # "int" THEN <<"cmp", op, a, b>>
  ELSE Known(CASE op = "eq" -> a = b [] op = "ne" -> a # b [] op = "lt" -> a[2] < b[2]
               [] op = "le" -> a[2] <= b[2] [] op = "gt" -> a[2] > b[2] [] op = "ge" -> a[2] >= b[2])

FoldAnd(a, b) ==
  IF IsFalse(a) THEN <<"false">> ELSE IF IsTrue(a) THEN b ELSE IF IsTrue(b) THEN a ELSE <<"and", a, b>>
FoldOr(a, b) ==
  IF IsFalse(a) THEN b
  ELSE IF b = Known(FALSE) THEN a
  ELSE IF IsTrue(a) \/ IsTrue(b) THEN <<"false">>
  ELSE <<"or", a, b>>
FoldNot(a) == IF a = Known(FALSE) THEN <<"true">> ELSE IF a = Known(TRUE) THEN <<"false">> ELSE <<"not", a>>

RECURSIVE foldExp(_)
foldAll(es) == [k \in DOMAIN es |-> foldExp(es[k])]
foldExp(e) ==
  CASE e[1] \in {"add", "sub", "mul"} -> FoldArith(e[1], foldExp(e[2]), foldExp(e[3]))
    [] e[1] = "neg" -> LET a == foldExp(e[2]) IN IF a[1] = "int" THEN <<"int", -a[2]>> ELSE <<"neg", a>>
    [] e[1] \in {"cons", "nth"} -> <<e[1], foldExp(e[2]), foldExp(e[3])>>
    [] e[1] = "tpl" -> <<"tpl", foldAll(e[2])>>
    [] e[1] \in {"con", "call"} -> <<e[1], e[2], foldAll(e[3])>>
    [] e[1] \in {"raise", "test"} -> <<e[1], foldExp(e[2])>>
    [] e[1] = "catch" -> <<"catch", foldExp(e[2]), e[3]>>
    [] e[1] = "valof" ->
         IF e[2][1] = "seq" /\ Len(e[2][2]) = 1 /\ e[2][2][1][1] = "valis" THEN foldExp(e[2][2][1][2]) ELSE e
    [] e[1] \in {"same", "differ"} ->
         LET a == foldExp(e[2])
             b == foldExp(e[3])
         IN IF Ground(a) /\ Ground(b) THEN Known((a = b) = (e[1] = "same")) ELSE <<e[1], a, b>>
    [] e[1] = "cmp" -> FoldCompare(e[2], foldExp(e[3]), foldExp(e[4]))
    [] e[1] = "and" -> FoldAnd(foldExp(e[2]), foldExp(e[3]))
    [] e[1] = "or" -> FoldOr(foldExp(e[2]), foldExp(e[3]))
    [] e[1] = "not" -> FoldNot(foldExp(e[2]))
    [] OTHER -> e

\* complexExp: may evaluating it call the collector?
complexExp(e) == e[1] \notin {"int", "sym", "nil", "var"}

\* The jump a comparison skips when it fails: the test that leads to failure.
Negated(op) ==
  [eq |-> "ne", ne |-> "eq", gt |-> "le", le |-> "gt", lt |-> "ge", ge |-> "lt"][op]
Failing(op, l, r) ==
  CASE op = "eq" -> <<"fneq", l, r>>
    [] op = "ne" -> <<"feq", l, r>>
    [] op = "gt" -> <<"fle", l, r>>
    [] op = "lt" -> <<"fle", r, l>>
    [] op = "le" -> <<"fgt", l, r>>
    [] op = "ge" -> <<"fgt", r, l>>

(***************************************************************************)
(* The generators call each other, by way of Generate.                       *)
(***************************************************************************)
RECURSIVE Generate(_, _, _)    \* what to generate, scope, path
CompExp(e, dest, depth, s, at) == Generate(<<"exp", e, dest, depth>>, s, at)
PosTst(t, depth, LF, s, at) == Generate(<<"pos", t, depth, LF>>, s, at)
NegTst(t, depth, LF, s, at) == Generate(<<"neg", t, depth, LF>>, s, at)
CompPtn(p, var, LF, depth, s, at) == Generate(<<"ptn", p, var, LF, depth>>, s, at)
CompPttrn(p, var, depth, LF, s, lo, at) == Generate(<<"pttrn", p, var, depth, LF, lo>>, s, at)
Embedded(p, depth, s, lo) == Generate(<<"embedded", p, depth, lo>>, s, <<>>)
LstPtn(p, last, this, depth, LF, s, at) == Generate(<<"lst", p, last, this, depth, LF>>, s, at)
CompStmt(st, depth, Next, s, at) == Generate(<<"stmt", st, depth, Next>>, s, at)
CompChoice(kind, alts, srcvar, depth, Next, LF, s, at) ==
  Generate(<<"choice", kind, alts, srcvar, depth, Next, LF>>, s, at)

(***************************************************************************)
(* Expressions.                                                             *)
(***************************************************************************)
Literal(v, dest, depth) ==
  LET g == genDest(dest, depth) IN
  [code |-> << <<"movl", v, g.dest>> >>, dest |-> g.dest, dp |-> g.dp]

CompVar(x, dest, depth, s) ==
  LET v == Entry(x, s.dict)
      d == Moved(v.off, dest)
  IN [code |-> genMove(v.off, dest)
                 \o IF v.off = d /\ ~v.inited THEN << <<"initv", d>> >> ELSE <<>>,
      dest |-> d, dp |-> depth]

\* valof s: the statement leaves its value in the destination and jumps out;
\* falling out of it without a valis is an error.
CompValof(st, dest, depth, s, at) ==
  LET g == genInitDest(dest, depth)
      L0 == Mark(at, 1)
      Lx == Mark(at, 2)
      ctxt == [ct |-> "valof", dest |-> g.dest, brk |-> L0, label |-> "", ends |-> <<>>]
      body == CompStmt(st, g.dp, L0, [s EXCEPT !.ctxt = <<ctxt>>], Sub(at, 1))
  IN [code |-> g.code \o body.code \o Here(L0)
                 \o << <<"mlit", g.dest, VoidCell>>, <<"jmp", Lx>> >>
                 \o genError("failed", body.dp) \o Here(Lx),
      dest |-> g.dest, dp |-> g.dp]

\* collect s: an overhead pair, whose tail is the result, and a pointer to
\* the last pair, which elemis moves.
CompCollect(st, dest, depth, s, at) ==
  LET g == genDest(dest, depth)
      d == IF dest # 0 THEN depth - 1 ELSE g.dest
      tail == d - 1
      ctxt == [ct |-> "collect", dest |-> tail, brk |-> <<>>, label |-> "", ends |-> <<>>]
      L0 == Mark(at, 1)
      body == CompStmt(st, tail, L0, [s EXCEPT !.ctxt = <<ctxt>>], Sub(at, 1))
  IN [code |-> (IF dest # 0 THEN << <<"initv", d>> >> ELSE <<>>)
                 \o << <<"movl", NilCell, d>>, <<"lstpr", d, d, d>>, <<"move", d, tail>> >>
                 \o body.code \o Here(L0) \o << <<"ulst", d, tail, g.dest>> >>,
      dest |-> g.dest, dp |-> g.dp]

CompIf(cond, then, else, dest, depth, s, at) ==
  LET test == foldExp(cond) IN
  IF IsTrue(test) THEN CompExp(foldExp(then), dest, depth, s, Sub(at, 1))
  ELSE IF IsFalse(test) THEN CompExp(foldExp(else), dest, depth, s, Sub(at, 1))
  ELSE LET g == genInitDest(dest, depth)
           L0 == Mark(at, 1)
           Lx == Mark(at, 2)
           t == PosTst(test, g.dp, L0, s, Sub(at, 1))
           a == CompExp(foldExp(then), g.dest, t.dp, Under(s, t.dict), Sub(at, 2))
           b == CompExp(foldExp(else), g.dest, g.dp, s, Sub(at, 3))
       IN [code |-> g.code \o t.code \o a.code \o << <<"jmp", Lx>> >> \o Here(L0)
                      \o b.code \o Here(Lx),
           dest |-> g.dest, dp |-> g.dp]

\* A test used for its value.
CompTestValue(test, dest, depth, s, at) ==
  LET g == genDest(dest, depth)
      L0 == Mark(at, 1)
      LF == Mark(at, 2)
  IN [code |-> PosTst(test, depth, LF, s, Sub(at, 1)).code
                 \o << <<"movl", Yes, g.dest>>, <<"jmp", L0>> >> \o Here(LF)
                 \o << <<"movl", No, g.dest>> >> \o Here(L0),
      dest |-> g.dest, dp |-> g.dp]

\* e + n and e - n for a small literal n.  An operand that is a variable is
\* copied to the top of the stack first, because incr takes its own operand
\* for the depth of the live stack.
CompIncr(e, n, dest, depth, s, at) ==
  LET g == genDest(dest, depth)
      x == CompExp(e, 0, depth, s, Sub(at, 1))
      M == IF x.dest = x.dp THEN x.dest ELSE x.dp - 1
  IN [code |-> x.code \o genMove(x.dest, M) \o << <<"incr", M, n, g.dest>> >>,
      dest |-> g.dest, dp |-> g.dp]

\* The binary operations likewise need one operand on top of the stack.
CompBinary(op, l, r, dest, depth, s, at) ==
  LET g == genInitDest(dest, depth)
      a == CompExp(l, 0, g.dp, s, Sub(at, 1))
      b == CompExp(r, 0, a.dp, s, Sub(at, 2))
      M == IF b.dp \in {a.dest, b.dest} THEN a.dest ELSE b.dp - 1
  IN [code |-> g.code \o a.code \o b.code \o genMove(a.dest, M) \o << <<op, M, b.dest, g.dest>> >>,
      dest |-> g.dest, dp |-> g.dp]

Small(e) == e[1] = "int" /\ e[2] \in -127..127

CompArith(e, dest, depth, s, at) ==
  CASE e[1] = "add" /\ Small(e[2]) -> CompIncr(e[3], e[2][2], dest, depth, s, at)
    [] e[1] = "add" /\ ~Small(e[2]) /\ Small(e[3]) -> CompIncr(e[2], e[3][2], dest, depth, s, at)
    [] e[1] = "add" /\ ~Small(e[2]) /\ ~Small(e[3]) ->
         CompBinary("plus", e[2], e[3], dest, depth, s, at)
    [] e[1] = "sub" /\ Small(e[3]) -> CompIncr(e[2], -e[3][2], dest, depth, s, at)
    [] e[1] = "sub" /\ ~Small(e[3]) -> CompBinary("minus", e[2], e[3], dest, depth, s, at)
    [] e[1] = "neg" -> CompBinary("minus", <<"int", 0>>, e[2], dest, depth, s, at)
    [] e[1] = "mul" -> CompBinary("times", e[2], e[3], dest, depth, s, at)

\* e # i
CompNth(l, i, dest, depth, s, at) ==
  LET g == genInitDest(dest, depth)
      a == CompExp(l, 0, g.dp, s, Sub(at, 1))
      b == CompExp(i, 0, a.dp, s, Sub(at, 2))
  IN [code |-> g.code \o a.code \o b.code \o << <<"nthel", a.dest, b.dest, g.dest>> >>,
      dest |-> g.dest, dp |-> g.dp]

\* h .. t: the pair is built by an instruction whose collection saves what
\* lies at or above the deepest of its three operands.
CompPair(h, t, dest, depth, s, at) ==
  LET g == genDest(dest, depth)
      a == CompExp(h, 0, depth, s, Sub(at, 1))
      b == CompExp(t, 0, a.dp, s, Sub(at, 2))
      M == b.dp - 1
  IN [code |-> a.code \o b.code
                 \o IF b.dp \in {a.dest, b.dest, g.dest}
                    THEN << <<"lstpr", a.dest, b.dest, g.dest>> >>
                    ELSE << <<"initv", M>>, <<"lstpr", a.dest, b.dest, M>> >>
                           \o genMove(M, g.dest),
      dest |-> g.dest, dp |-> g.dp]

\* Arguments go down the stack one below the other.
RECURSIVE CompArguments(_, _, _, _, _)
CompArguments(args, k, depth, s, at) ==
  IF k > Len(args) THEN <<>>
  ELSE LET e == CompExp(args[k], 0, depth, s, Sub(at, k)) IN
       e.code \o genMove(e.dest, depth - 1) \o CompArguments(args, k + 1, depth - 1, s, at)

CompTuple(args, dest, depth, s, at) ==
  LET g == genDest(dest, depth) IN
  [code |-> CompArguments(args, 1, depth, s, at)
              \o << <<"loc2tpl", depth - Len(args), Len(args), g.dest>> >>,
   dest |-> g.dest, dp |-> g.dp]

CompConstructor(fn, args, dest, depth, s, at) ==
  LET g == genDest(dest, depth) IN
  [code |-> << <<"movl", Symbol(fn), depth - 1>> >> \o CompArguments(args, 1, depth - 1, s, at)
              \o << <<"loc2cns", depth - 1 - Len(args), Len(args), g.dest>> >>,
   dest |-> g.dest, dp |-> g.dp]

\* A slip: the result is looked for where the last argument was.
CompCallLow(f, args, dest, depth, s, at) ==
  LET top == depth - Len(args)
      d == IF dest = 0 THEN depth - 1 ELSE dest
  IN [code |-> CompArguments(args, 1, depth, s, at)
                 \o << <<"call", top, Len(args), Entry(f, s.dict).off>> >> \o genMove(top, d),
      dest |-> d, dp |-> genDest(dest, depth).dp]

\* The result of a call lies where its first argument was.
CompCall(f, args, dest, depth, s, at) ==
  LET top == depth - Len(args)
      d == IF dest = 0 THEN depth - 1 ELSE dest
  IN [code |-> CompArguments(args, 1, depth, s, at)
                 \o << <<"call", top, Len(args), Entry(f, s.dict).off>> >>
                 \o genMove(depth - 1, d),
      dest |-> d, dp |-> genDest(dest, depth).dp]

CompRaise(e, dest, depth, s, at) ==
  LET x == CompExp(foldExp(e), 0, depth, s, Sub(at, 1)) IN
  [code |-> x.code \o << <<"generr", x.dest>> >>, dest |-> dest, dp |-> depth]

\* e catch alts: the error block takes two words below the destination.
CompCatch(e, alts, dest, depth, s, at) ==
  LET g == genInitDest(dest, depth)
      EC == g.dp - 2
      L0 == Mark(at, 1)
      Lx == Mark(at, 2)
      LE == Mark(at, 3)
      try == CompExp(e, g.dest, EC, s, Sub(at, 1))
      alt == CompChoice("exp", alts, EC + 1, EC + 1, Lx, LE, [s EXCEPT !.dest = g.dest], Sub(at, 2))
  IN [code |-> g.code \o << <<"errblk", EC, L0>> >> \o try.code
                 \o << <<"errend", EC>>, <<"jmp", Lx>> >> \o Here(L0)
                 \o << <<"moverr", EC + 1>> >> \o alt.code \o Here(LE)
                 \o (IF alt.fails THEN << <<"generr", EC + 1>> >> ELSE <<>>) \o Here(Lx),
      dest |-> g.dest, dp |-> g.dp]

\* case e in alts.  The alternatives share the destination variable of the
\* expression: the first one to choose a cell chooses it for the others, and
\* the depth returned is the one the expression began with.
CompCase(e, alts, dest, depth, s, at) ==
  LET x == CompExp(e, 0, depth, s, Sub(at, 1))
      Lx == Mark(at, 1)
      LE == Mark(at, 2)
      alt == CompChoice("exp", alts, x.dest, x.dp, Lx, LE, [s EXCEPT !.dest = dest], Sub(at, 2))
  IN [code |-> x.code \o alt.code \o Here(LE)
                 \o (IF alt.fails THEN genError("failed", x.dp) ELSE <<>>) \o Here(Lx),
      dest |-> alt.dest, dp |-> depth]

CodeOfExp(e, dest, depth, s, at) ==
  CASE e[1] \in {"int", "sym", "nil"} -> Literal(LiteralOf(e), dest, depth)
    [] e[1] = "var" -> CompVar(e[2], dest, depth, s)
    [] e[1] = "valof" -> CompValof(e[2], dest, depth, s, at)
    [] e[1] = "collect" -> CompCollect(e[2], dest, depth, s, at)
    [] e[1] = "if" -> CompIf(e[2], e[3], e[4], dest, depth, s, at)
    [] e[1] = "test" -> IF e[2][1] \in {"true", "false"} THEN Literal(IF IsTrue(e[2]) THEN Yes ELSE No, dest, depth)
                        ELSE CompTestValue(e[2], dest, depth, s, at)
    [] e[1] \in {"add", "sub", "neg", "mul"} -> CompArith(e, dest, depth, s, at)
    [] e[1] = "nth" -> CompNth(e[2], e[3], dest, depth, s, at)
    [] e[1] = "cons" -> CompPair(e[2], e[3], dest, depth, s, at)
    [] e[1] = "tpl" -> CompTuple(e[2], dest, depth, s, at)
    [] e[1] = "con" -> CompConstructor(e[2], e[3], dest, depth, s, at)
    [] e[1] = "call" -> CompCall(e[2], e[3], dest, depth, s, at)
    [] e[1] = "raise" -> CompRaise(e[2], dest, depth, s, at)
    [] e[1] = "catch" -> CompCatch(e[2], e[3], dest, depth, s, at)
    [] e[1] = "case" -> CompCase(e[2], e[3], dest, depth, s, at)

(***************************************************************************)
(* Tests.  PosTst falls through when the test succeeds and jumps to LF when  *)
(* it fails; NegTst is PosTst of the negation.                               *)
(***************************************************************************)
TestOfExp(op, e, depth, LF, s, at) ==
  LET x == CompExp(e, 0, depth, s, Sub(at, 1)) IN
  x.code \o << <<op, x.dest, LF>> >>

PosMatch(p, e, depth, LF, s, at) ==
  LET x == CompExp(foldExp(e), 0, depth, s, Sub(at, 1))
      m == CompPttrn(p, x.dest, x.dp, LF, s, s.dict, Sub(at, 2))
  IN [code |-> x.code \o m.code, dp |-> m.dp, dict |-> m.dict]

PosNoMatch(p, e, depth, LF, s, at) ==
  LET L0 == Mark(at, 1) IN
  PosMatch(p, e, depth, L0, s, at).code \o << <<"jmp", LF>> >> \o Here(L0)

\* Comparisons: both operands, then an instruction that skips the jump.
Compared(cmp(_, _), l, r, depth, LF, s, at) ==
  LET a == CompExp(l, 0, depth, s, Sub(at, 1))
      b == CompExp(r, 0, a.dp, s, Sub(at, 2))
  IN a.code \o b.code \o << cmp(a.dest, b.dest), <<"jmp", LF>> >>

PosSame(l, r, depth, LF, s, at) ==
  IF Simple(l) /\ Simple(r)
  THEN IF l = r THEN <<>> ELSE << <<"jmp", LF>> >>
  ELSE Compared(LAMBDA a, b : <<"neq", a, b>>, l, r, depth, LF, s, at)
PosDiffer(l, r, depth, LF, s, at) ==
  IF Simple(l) /\ Simple(r)
  THEN IF l # r THEN <<>> ELSE << <<"jmp", LF>> >>
  ELSE Compared(LAMBDA a, b : <<"eq", a, b>>, l, r, depth, LF, s, at)
PosCompare(op, l, r, depth, LF, s, at) ==
  IF op = "eq" /\ Simple(l) /\ Simple(r) THEN PosSame(l, r, depth, LF, s, at)
  ELSE IF op = "ne" /\ Simple(l) /\ Simple(r) THEN PosDiffer(l, r, depth, LF, s, at)
  ELSE Compared(LAMBDA a, b : Failing(op, a, b), l, r, depth, LF, s, at)

\* e in low .. high
PosRange(e, low, high, depth, LF, s, at) ==
  LET x == CompExp(e, 0, depth, s, Sub(at, 1))
      l == CompExp(low, 0, x.dp, s, Sub(at, 2))
      h == CompExp(high, 0, l.dp, s, Sub(at, 3))
  IN x.code \o l.code \o << <<"fgt", l.dest, x.dest>>, <<"jmp", LF>> >>
       \o h.code \o << <<"fgt", x.dest, h.dest>>, <<"jmp", LF>> >>
NegRange(e, low, high, depth, LF, s, at) ==
  LET x == CompExp(e, 0, depth, s, Sub(at, 1))
      l == CompExp(low, 0, x.dp, s, Sub(at, 2))
      h == CompExp(high, 0, l.dp, s, Sub(at, 3))
      L0 == Mark(at, 1)
  IN x.code \o l.code \o << <<"fgt", l.dest, x.dest>>, <<"jmp", L0>> >>
       \o h.code \o << <<"fle", x.dest, h.dest>>, <<"jmp", LF>> >> \o Here(L0)

\* p in e: walk the list until an element matches.
PosIn(p, e, depth, LF, s, at) ==
  LET vars == Embedded(p, depth, s, s.dict)
      list == vars.dp - 1
      in == Under(s, vars.dict)
      x == CompExp(e, list, list, in, Sub(at, 1))
      EL == x.dp - 1
      L0 == Mark(at, 1)
      L1 == Mark(at, 2)
      L2 == Mark(at, 3)
      m == CompPttrn(p, EL, EL, L1, in, vars.dict, Sub(at, 2))
  IN [code |-> vars.code \o << <<"initv", list>> >> \o x.code
                 \o << <<"initv", EL>>, <<"jmp", L1>> >> \o Here(L0)
                 \o << <<"ulst", list, EL, list>> >> \o m.code \o << <<"jmp", L2>> >>
                 \o Here(L1) \o << <<"mnil", list, L0>>, <<"jmp", LF>> >> \o Here(L2),
      dp |-> vars.dp, dict |-> m.dict]
NegIn(p, e, depth, LF, s, at) ==
  LET vars == Embedded(p, depth, s, s.dict)
      list == vars.dp - 1
      x == CompExp(e, list, list, s, Sub(at, 1))
      EL == x.dp - 1
      L0 == Mark(at, 1)
      L1 == Mark(at, 2)
      m == CompPttrn(p, EL, EL, L0, Under(s, vars.dict), s.dict, Sub(at, 2))
  IN vars.code \o << <<"initv", list>> >> \o x.code \o << <<"initv", EL>> >> \o Here(L0)
       \o << <<"mlist", list, EL, list>>, <<"jmp", L1>> >> \o m.code
       \o << <<"jmp", LF>> >> \o Here(L1)

PosAnd(t, u, depth, LF, s, at) ==
  LET a == PosTst(t, depth, LF, s, Sub(at, 1))
      b == PosTst(u, a.dp, LF, Under(s, a.dict), Sub(at, 2))
  IN [code |-> a.code \o b.code, dp |-> b.dp, dict |-> b.dict]
PosOr(t, u, depth, LF, s, at) ==
  LET L0 == Mark(at, 1)
      Lx == Mark(at, 2)
  IN PosTst(t, depth, Lx, s, Sub(at, 1)).code \o << <<"jmp", L0>> >> \o Here(Lx)
       \o PosTst(u, depth, LF, s, Sub(at, 2)).code \o Here(L0)
NegOr(t, u, depth, LF, s, at) ==
  LET L0 == Mark(at, 1)
      L1 == Mark(at, 2)
  IN PosTst(t, depth, L1, s, Sub(at, 1)).code \o << <<"jmp", LF>> >> \o Here(L1)
       \o PosTst(u, depth, L0, s, Sub(at, 2)).code \o << <<"jmp", LF>> >> \o Here(L0)

\* The negation of a test by way of the test: succeed, and jump.
NegByPos(t, depth, LF, s, at) ==
  LET L0 == Mark(at, 1) IN
  PosTst(t, depth, L0, s, Sub(at, 1)).code \o << <<"jmp", LF>> >> \o Here(L0)

\* A test that binds nothing the rest of the code can see.
Closed(code, depth, s) == [code |-> code, dp |-> depth, dict |-> s.dict]

CodeOfTst(t, depth, LF, s, at) ==
  CASE t[1] = "true" -> Closed(<<>>, depth, s)
    [] t[1] = "false" -> Closed(<< <<"jmp", LF>> >>, depth, s)
    [] t[1] = "match" -> PosMatch(t[2], t[3], depth, LF, s, at)
    [] t[1] = "nomatch" -> Closed(PosNoMatch(t[2], t[3], depth, LF, s, at), depth, s)
    [] t[1] = "same" -> Closed(PosSame(foldExp(t[2]), foldExp(t[3]), depth, LF, s, at), depth, s)
    [] t[1] = "differ" -> Closed(PosDiffer(foldExp(t[2]), foldExp(t[3]), depth, LF, s, at), depth, s)
    [] t[1] = "cmp" -> Closed(PosCompare(t[2], foldExp(t[3]), foldExp(t[4]), depth, LF, s, at), depth, s)
    [] t[1] = "range" -> Closed(PosRange(t[2], foldExp(t[3]), foldExp(t[4]), depth, LF, s, at), depth, s)
    [] t[1] = "in" -> PosIn(t[2], foldExp(t[3]), depth, LF, s, at)
    [] t[1] = "and" -> PosAnd(t[2], t[3], depth, LF, s, at)
    [] t[1] = "or" -> Closed(PosOr(t[2], t[3], depth, LF, s, at), depth, s)
    [] t[1] = "not" -> Closed(NegTst(t[2], depth, LF, s, Sub(at, 1)), depth, s)
    [] OTHER -> Closed(TestOfExp("iffalse", t, depth, LF, s, at), depth, s)

CodeOfNegTst(t, depth, LF, s, at) ==
  CASE t[1] = "false" -> <<>>
    [] t[1] = "true" -> << <<"jmp", LF>> >>
    [] t[1] = "match" -> PosNoMatch(t[2], t[3], depth, LF, s, at)
    [] t[1] = "nomatch" -> PosMatch(t[2], t[3], depth, LF, s, at).code
    [] t[1] = "same" -> PosDiffer(foldExp(t[2]), foldExp(t[3]), depth, LF, s, at)
    [] t[1] = "differ" -> PosSame(foldExp(t[2]), foldExp(t[3]), depth, LF, s, at)
    [] t[1] = "cmp" -> PosCompare(Negated(t[2]), foldExp(t[3]), foldExp(t[4]), depth, LF, s, at)
    [] t[1] = "range" -> NegRange(t[2], foldExp(t[3]), foldExp(t[4]), depth, LF, s, at)
    [] t[1] = "in" -> NegIn(t[2], foldExp(t[3]), depth, LF, s, at)
    [] t[1] = "and" -> NegByPos(t, depth, LF, s, at)
    [] t[1] = "or" -> NegOr(t[2], t[3], depth, LF, s, at)
    [] t[1] = "not" -> NegByPos(t[2], depth, LF, s, at)
    [] OTHER -> TestOfExp("iftrue", t, depth, LF, s, at)

(***************************************************************************)
(* Patterns.                                                                *)
(***************************************************************************)
\* Cells for the variables a pattern introduces, cleared because the match
\* may fail or collect before it reaches them.  lo is the dictionary of the
\* pattern: a variable of the enclosing clause is declared anew.
Declared(x, depth, s, lo) ==
  IF ~IsLocalVar(x, s.dict) \/ (IsLocalVar(x, s.outer) /\ ~IsLocalVar(x, lo))
  THEN [code |-> << <<"initv", depth - 1>> >>, dp |-> depth - 1,
        dict |-> declVar(x, FALSE, FALSE, depth - 1, s.dict)]
  ELSE [code |-> <<>>, dp |-> depth, dict |-> s.dict]

RECURSIVE EmbeddedAll(_, _, _, _)
EmbeddedAll(ps, depth, s, lo) ==
  IF ps = <<>> THEN [code |-> <<>>, dp |-> depth, dict |-> s.dict]
  ELSE LET a == Embedded(ps[1], depth, s, lo)
           b == EmbeddedAll(Tail(ps), a.dp, Under(s, a.dict), lo)
       IN [b EXCEPT !.code = a.code \o b.code]

\* The patterns inside the tests of a guard.
RECURSIVE GuardPatterns(_)
GuardPatterns(t) ==
  CASE t[1] \in {"match", "in"} -> << t[2] >>
    [] t[1] = "and" -> GuardPatterns(t[2]) \o GuardPatterns(t[3])
    [] OTHER -> <<>>

CodeOfVars(p, depth, s, lo) ==
  CASE p[1] = "var" -> Declared(p[2], depth, s, lo)
    [] p[1] \in {"cons", "append"} -> EmbeddedAll(<<p[2], p[3]>>, depth, s, lo)
    [] p[1] = "tpl" -> EmbeddedAll(p[2], depth, s, lo)
    [] p[1] = "con" -> EmbeddedAll(p[3], depth, s, lo)
    [] p[1] = "guard" ->
         LET a == Embedded(p[2], depth, s, lo)
             b == EmbeddedAll(GuardPatterns(p[3]), a.dp, Under(s, a.dict), a.dict)
         IN [b EXCEPT !.code = a.code \o b.code]
    [] OTHER -> EmbeddedAll(<<>>, depth, s, lo)

\* Where a part is extracted to: its variable's own cell when that is new, a
\* cell nobody looks at when it is not wanted, else the next cell down.
PtnDest(p, depth, dict) ==
  IF p[1] = "any" THEN [var |-> depth - 2, dp |-> depth]
  ELSE IF p[1] = "var" /\ IsVar(p[2], dict) /\ ~Entry(p[2], dict).inited
  THEN [var |-> Entry(p[2], dict).off, dp |-> depth]
  ELSE [var |-> depth - 1, dp |-> depth - 1]

\* A variable that has a value is compared, a new one is given its value.
\* When s.multi is set (p := e) the pattern assigns to variables it names.
PtnVar(x, var, LF, s) ==
  LET v == Entry(x, s.dict) IN
  IF v.inited /\ ~s.multi
  THEN [code |-> IF v.off = var THEN <<>> ELSE << <<"neq", v.off, var>>, <<"jmp", LF>> >>,
        fails |-> v.off # var, dict |-> s.dict]
  ELSE [code |-> genMove(var, v.off), fails |-> FALSE, dict |-> InitVar(x, s.dict)]

PtnBang(e, var, LF, depth, s, at) ==
  LET x == CompExp(e, 0, depth, s, Sub(at, 1)) IN
  x.code \o << <<"neq", x.dest, var>>, <<"jmp", LF>> >>

PtnGuarded(p, t, var, LF, depth, s, at) ==
  LET vars == Embedded(p, depth, s, s.dict)
      m == CompPtn(p, var, LF, vars.dp, Under(s, vars.dict), Sub(at, 1))
      test == PosTst(t, vars.dp, LF, Under(s, m.dict), Sub(at, 2))
  IN [code |-> vars.code \o m.code \o test.code, fails |-> TRUE, dict |-> clearDict(test.dict, s.dict)]

\* The parts of a tuple or a constructor, each extracted and matched.
RECURSIVE PtnParts(_, _, _, _, _, _, _, _)
PtnParts(field, ps, i, var, LF, depth, s, at) ==
  IF i > Len(ps) THEN [code |-> <<>>, dict |-> s.dict]
  ELSE LET d == PtnDest(ps[i], depth, s.dict)
           m == CompPtn(ps[i], d.var, LF, d.dp, s, Sub(at, i))
           rest == PtnParts(field, ps, i + 1, var, LF, depth, Under(s, m.dict), at)
       IN [code |-> (IF ps[i][1] = "any" THEN <<>>
                     ELSE << <<field, var, i - 1, d.var>> >> \o m.code) \o rest.code,
           dict |-> rest.dict]

Failable(code, s) == [code |-> code, fails |-> TRUE, dict |-> s.dict]

CodeOfPtn(p, var, LF, depth, s, at) ==
  CASE p[1] = "any" -> [code |-> <<>>, fails |-> FALSE, dict |-> s.dict]
    [] p[1] = "var" -> PtnVar(p[2], var, LF, s)
    [] p[1] \in {"int", "sym"} ->
         Failable(<< <<"mlit", var, LiteralOf(p)>>, <<"jmp", LF>> >>, s)
    [] p[1] = "bang" -> Failable(PtnBang(p[2], var, LF, depth, s, at), s)
    [] p[1] = "guard" -> PtnGuarded(p[2], p[3], var, LF, depth, s, at)
    [] p[1] = "nil" -> Failable(<< <<"mnil", var, LF>> >>, s)
    [] p[1] \in {"cons", "append"} ->
         LET l == LstPtn(p, TRUE, var, depth, LF, s, at) IN
         [code |-> l.code, fails |-> TRUE, dict |-> l.dict]
    [] p[1] = "con" ->
         LET parts == PtnParts("consfld", p[3], 1, var, LF, depth, s, at) IN
         [code |-> << <<"mcons", var, Len(p[3])>>, <<"jmp", LF>>,
                      <<"mcnsfun", var, Symbol(p[2])>>, <<"jmp", LF>> >> \o parts.code,
          fails |-> TRUE, dict |-> parts.dict]
    [] p[1] = "tpl" ->
         LET parts == PtnParts("indxfld", p[2], 1, var, LF, depth, s, at) IN
         [code |-> parts.code, fails |-> TRUE, dict |-> parts.dict]

\* A whole pattern: its variables, then the match, then its guard.
CodeOfPttrn(p, var, depth, LF, s, lo, at) ==
  IF p[1] = "guard"
  THEN LET vars == Embedded(p[2], depth, s, lo)
           m == CompPtn(p[2], var, LF, vars.dp, Under(s, vars.dict), Sub(at, 1))
           t == PosTst(p[3], vars.dp, LF, Under(s, m.dict), Sub(at, 2))
       IN [code |-> vars.code \o m.code \o t.code, fails |-> TRUE, dp |-> t.dp, dict |-> t.dict]
  ELSE LET vars == Embedded(p, depth, s, lo)
           m == CompPtn(p, var, LF, vars.dp, Under(s, vars.dict), Sub(at, 1))
       IN [code |-> vars.code \o m.code, fails |-> m.fails, dp |-> vars.dp, dict |-> m.dict]

(***************************************************************************)
(* List patterns.  `this' holds the list still to be matched; the result     *)
(* names the variable with what is left of it (next) and where to go back to *)
(* when the rest of the pattern fails (LF): a variable in front of something  *)
(* else first takes the empty list and on every return takes one element     *)
(* more.                                                                     *)
(***************************************************************************)
LstAppend(p, q, last, this, depth, LF, s, at) ==
  LET a == LstPtn(p, FALSE, this, depth, LF, s, Sub(at, 1))
      b == LstPtn(q, last, a.next, a.dp, a.LF, Under(s, a.dict), Sub(at, 2))
  IN [b EXCEPT !.code = a.code \o b.code]

LstPair(h, t, last, this, depth, LF, s, at) ==
  LET m == CompPttrn(h, depth - 1, depth - 2, LF, s, s.dict, Sub(at, 1))
      rest == LstPtn(t, last, depth - 2, m.dp, LF, Under(s, m.dict), Sub(at, 2))
  IN [rest EXCEPT !.code = << <<"mlist", this, depth - 1, depth - 2>>, <<"jmp", LF>> >>
                             \o m.code \o rest.code]

\* A slip: when the rest fails there is no way back to take one element more.
LstStretchOnce(start, more, this, depth, LF, dict, at) ==
  LET next == depth - 1 IN
  [code |-> start \o << <<"move", this, next>> >>,
   next |-> next, dp |-> next, LF |-> LF, dict |-> dict]

\* Skip a stretch of elements: begin with none, come back for one more.
LstStretch(start, more, this, depth, LF, dict, at) ==
  LET next == depth - 1
      Le == Mark(at, 1)
      Lf == Mark(at, 2)
  IN [code |-> start \o << <<"move", this, next>>, <<"jmp", Le>> >> \o Here(Lf)
                 \o << <<"mlist", next, next - 1, next>>, <<"jmp", LF>> >> \o more \o Here(Le),
      next |-> next, dp |-> next, LF |-> Lf, dict |-> dict]

LstVar(x, last, this, depth, LF, s, at) ==
  LET v == Entry(x, s.dict) IN
  IF v.inited /\ ~s.multi
  THEN \* the value of the variable must come here
       IF last
       THEN [code |-> << <<"neq", this, v.off>>, <<"jmp", LF>> >>,
             next |-> depth, dp |-> depth, LF |-> LF, dict |-> s.dict]
       ELSE [code |-> << <<"move", this, depth - 1>>, <<"prefix", depth - 1, v.off, depth - 1>>,
                         <<"jmp", LF>> >>,
             next |-> depth - 1, dp |-> depth - 1, LF |-> LF, dict |-> s.dict]
  ELSE IF last
  THEN [code |-> << <<"move", this, v.off>> >>, next |-> depth, dp |-> depth, LF |-> LF,
        dict |-> InitVar(x, s.dict)]
  ELSE LstStretch(<< <<"movl", NilCell, v.off>> >>, << <<"add2lst", depth - 2, depth - 2, v.off>> >>,
                  this, depth, LF, InitVar(x, s.dict), at)

LstGuard(p, t, last, this, depth, LF, s, at) ==
  LET m == LstPtn(p, last, this, depth, LF, s, Sub(at, 1))
      test == PosTst(t, m.dp, m.LF, Under(s, m.dict), Sub(at, 2))
  IN [m EXCEPT !.code = m.code \o test.code, !.dp = test.dp]

CodeOfLstPtn(p, last, this, depth, LF, s, at) ==
  CASE p[1] = "append" -> LstAppend(p[2], p[3], last, this, depth, LF, s, at)
    [] p[1] = "cons" -> LstPair(p[2], p[3], last, this, depth, LF, s, at)
    [] p[1] = "nil" ->
         [code |-> IF last THEN << <<"mnil", this, LF>> >> ELSE <<>>,
          next |-> this, dp |-> depth, LF |-> LF, dict |-> s.dict]
    [] p[1] = "any" ->
         IF last THEN [code |-> <<>>, next |-> depth, dp |-> depth, LF |-> LF, dict |-> s.dict]
         ELSE LstStretch(<<>>, <<>>, this, depth, LF, s.dict, at)
    [] p[1] = "var" -> LstVar(p[2], last, this, depth, LF, s, at)
    [] p[1] = "guard" -> LstGuard(p[2], p[3], last, this, depth, LF, s, at)

(***************************************************************************)
(* Statements.  Next is the label of what follows.  A statement that drifts  *)
(* into Next has cnt = "continued", one that only leaves by jumps "jumped".  *)
(* A context is [ct, dest, brk, label, ends]: ends are the instructions that *)
(* close an error block when the statement is left from inside.              *)
(***************************************************************************)
Done(code, depth, dict) == [code |-> code, dp |-> depth, dict |-> dict, cnt |-> "continued"]
Gone(code, depth, dict) == [code |-> code, dp |-> depth, dict |-> dict, cnt |-> "jumped"]

\* compStmts: one after the other, each declaring for those that follow.
RECURSIVE CompSeq(_, _, _, _, _, _)
CompSeq(sts, k, depth, Next, s, at) ==
  IF k = Len(sts)
  THEN [CompStmt(sts[k], depth, Next, s, Sub(at, k)) EXCEPT !.dict = s.dict, !.dp = depth]
  ELSE LET L0 == Mark(at, k)
           a == CompStmt(sts[k], depth, L0, s, Sub(at, k))
           b == CompSeq(sts, k + 1, a.dp, Next, Under(s, a.dict), at)
       IN [b EXCEPT !.code = a.code \o Here(L0) \o b.code, !.dict = s.dict, !.dp = depth]

StmtIf(cond, then, else, depth, Next, s, at) ==
  LET test == foldExp(cond)
      L0 == Mark(at, 1)
      t == PosTst(test, depth, L0, s, Sub(at, 1))
      a == CompStmt(then, t.dp, Next, Under(s, t.dict), Sub(at, 2))
      b == CompStmt(else, depth, Next, s, Sub(at, 3))
  IN IF IsTrue(test) THEN [CompStmt(then, depth, Next, s, Sub(at, 2)) EXCEPT !.dp = depth, !.dict = s.dict]
     ELSE IF IsFalse(test) THEN [b EXCEPT !.dp = depth, !.dict = s.dict]
     ELSE [code |-> t.code \o a.code
                      \o (IF a.cnt = "continued" THEN << <<"jmp", Next>> >> ELSE <<>>)
                      \o Here(L0) \o b.code,
           dp |-> depth, dict |-> s.dict, cnt |-> b.cnt]

StmtWhen(cond, then, depth, Next, s, at) ==
  LET test == foldExp(cond)
      t == PosTst(test, depth, Next, s, Sub(at, 1))
      a == CompStmt(then, t.dp, Next, Under(s, t.dict), Sub(at, 2))
  IN IF IsTrue(test) THEN [CompStmt(then, depth, Next, s, Sub(at, 2)) EXCEPT !.dp = depth, !.dict = s.dict]
     ELSE Done(t.code \o a.code, depth, s.dict)

\* for p in e do st
StmtFor(p, e, st, depth, s, at) ==
  LET list == depth - 1
      x == CompExp(e, list, list, s, Sub(at, 1))
      EL == x.dp - 1
      L0 == Mark(at, 1)
      L1 == Mark(at, 2)
      m == CompPttrn(p, EL, EL, L1, s, s.dict, Sub(at, 2))
      body == CompStmt(st, m.dp, L1, Under(s, m.dict), Sub(at, 3))
  IN Done((IF complexExp(e) THEN << <<"initv", list>> >> ELSE <<>>) \o x.code
            \o << <<"jmp", L1>> >> \o Here(L0) \o << <<"ulst", list, EL, list>> >>
            \o m.code \o body.code \o Here(L1) \o << <<"mnil", list, L0>> >>,
          depth, s.dict)

\* A slip: the label stands before the jump to it, not before the test.
StmtWhileStands(cond, st, depth, Next, s, at) ==
  LET test == foldExp(cond)
      L0 == Mark(at, 1)
      t == PosTst(test, depth, Next, s, Sub(at, 1))
      body == CompStmt(st, t.dp, L0, Under(s, t.dict), Sub(at, 2))
  IN IF test = Known(FALSE) THEN Done(Here(L0), depth, s.dict)
     ELSE Done(t.code \o body.code \o Here(L0)
                 \o (IF body.cnt = "continued" THEN << <<"jmp", L0>> >> ELSE <<>>),
               depth, s.dict)

StmtWhile(cond, st, depth, Next, s, at) ==
  LET test == foldExp(cond)
      L0 == Mark(at, 1)
      t == PosTst(test, depth, Next, s, Sub(at, 1))
      body == CompStmt(st, t.dp, L0, Under(s, t.dict), Sub(at, 2))
  IN IF test = Known(FALSE) THEN Done(Here(L0), depth, s.dict)
     ELSE Done(Here(L0) \o t.code \o body.code
                 \o (IF body.cnt = "continued" THEN << <<"jmp", L0>> >> ELSE <<>>),
               depth, s.dict)

\* try st catch alts.  The context that ends the block keeps the other parts
\* of the context it stands in.
StmtTry(st, alts, depth, Next, s, at) ==
  LET EC == depth - 2
      L0 == Mark(at, 1)
      L1 == Mark(at, 2)
      LE == Mark(at, 3)
      ctxt == [s.ctxt[1] EXCEPT !.ct = "continuation", !.ends = << <<"errend", EC>> >>]
      body == CompStmt(st, EC, L1, [s EXCEPT !.ctxt = <<ctxt>> \o s.ctxt], Sub(at, 1))
      alt == CompChoice("stmt", alts, EC - 1, EC - 1, Next, LE, s, Sub(at, 2))
  IN [code |-> << <<"errblk", EC, L0>> >> \o body.code \o Here(L1)
                 \o << <<"errend", EC>>, <<"jmp", Next>> >> \o Here(L0)
                 \o << <<"moverr", EC - 1>> >> \o alt.code \o Here(LE)
                 \o (IF alt.fails THEN << <<"generr", EC - 1>> >> ELSE <<>>),
      dp |-> depth, dict |-> s.dict, cnt |-> IF alt.fails THEN "jumped" ELSE alt.cnt]

StmtCase(e, alts, depth, Next, s, at) ==
  LET x == CompExp(e, 0, depth, s, Sub(at, 1))
      LE == Mark(at, 1)
      alt == CompChoice("stmt", alts, x.dest, x.dp, Next, LE, s, Sub(at, 2))
  IN [code |-> x.code \o alt.code \o Here(LE)
                 \o (IF alt.fails THEN genError("failed", x.dp) ELSE <<>>),
      dp |-> depth, dict |-> s.dict, cnt |-> IF alt.fails THEN "jumped" ELSE alt.cnt]

StmtLabel(name, st, depth, Next, s, at) ==
  LET ctxt == [s.ctxt[1] EXCEPT !.ct = "labelled", !.label = name, !.brk = Next] IN
  CompStmt(st, depth, Next, [s EXCEPT !.ctxt = <<ctxt>> \o s.ctxt], Sub(at, 1))

\* The innermost context of a kind; what must be closed on the way out to it.
Innermost(ctxt, isIt(_)) == Min({k \in 1..Len(ctxt) : isIt(ctxt[k])})
\* A slip: a statement that is left from inside closes nothing.
InvokeNothing(ctxt, k) == <<>>
InvokeContinuation(ctxt, k) ==
  FoldLeft(LAMBDA code, c : IF c.ct = "continuation" THEN code \o c.ends ELSE code,
           <<>>, SubSeq(ctxt, 1, k - 1))

StmtLeave(name, depth, s) ==
  LET k == Innermost(s.ctxt, LAMBDA c : c.ct = "labelled" /\ c.label = name) IN
  Gone(InvokeContinuation(s.ctxt, k) \o << <<"jmp", s.ctxt[k].brk>> >>, depth, s.dict)

StmtElemis(e, depth, s, at) ==
  LET k == Innermost(s.ctxt, LAMBDA c : c.ct = "collect")
      x == CompExp(e, 0, depth, s, Sub(at, 1))
  IN Done(x.code \o << <<"lsupdte", x.dp, x.dest, s.ctxt[k].dest>> >>, depth, s.dict)

StmtValis(e, depth, Next, s, at) ==
  LET k == Innermost(s.ctxt, LAMBDA c : c.ct = "valof")
      x == CompExp(e, s.ctxt[k].dest, depth, s, Sub(at, 1))
      code == x.code \o InvokeContinuation(s.ctxt, k)
  IN IF s.ctxt[k].brk # Next
     THEN Gone(code \o << <<"jmp", s.ctxt[k].brk>> >>, depth, s.dict)
     ELSE Done(code, depth, s.dict)

\* x = e and x : e.  A value that needed no cell of its own is copied: always
\* for a variable that may be assigned, for a constant when it comes from one.
StmtDeclare(x, e, rw, depth, s, at) ==
  LET v == CompExp(e, 0, depth, s, Sub(at, 1))
      shared == depth = v.dp /\ ~(~rw /\ e[1] = "var" /\ ~Entry(e[2], s.dict).rw)
      off == IF shared THEN depth - 1 ELSE v.dest
  IN Done(v.code \o (IF shared THEN genMove(v.dest, off) ELSE <<>>),
          IF shared THEN depth - 1 ELSE v.dp, declVar(x, rw, TRUE, off, s.dict))

\* p .= e: a new variable takes the cell the value is in.
StmtMatch(p, e, depth, Next, s, at) ==
  IF p[1] = "var" /\ (~IsLocalVar(p[2], s.dict) \/ IsLocalVar(p[2], s.outer))
  THEN LET v == CompExp(e, 0, depth, s, Sub(at, 1)) IN
       Done(v.code, v.dp, declVar(p[2], FALSE, TRUE, v.dest, s.dict))
  ELSE LET LF == Mark(at, 1)
           q == IF p[1] = "guard" THEN p[2] ELSE p
           vars == Embedded(q, depth, s, s.dict)
           v == CompExp(e, 0, vars.dp, s, Sub(at, 1))
           m == CompPtn(q, v.dest, LF, v.dp, Under(s, vars.dict), Sub(at, 2))
           t == PosTst(IF q = p THEN <<"true">> ELSE p[3], vars.dp, LF, Under(s, m.dict), Sub(at, 3))
           fails == m.fails \/ q # p
       IN Done(vars.code \o v.code \o m.code \o t.code
                 \o (IF fails THEN << <<"jmp", Next>> >> ELSE <<>>) \o Here(LF)
                 \o (IF fails THEN genError("match_error", depth) ELSE <<>>),
               t.dp, t.dict)

StmtAssign(x, e, depth, s, at) ==
  Done(CompExp(e, Entry(x, s.dict).off, depth, s, Sub(at, 1)).code, depth, s.dict)

\* p := e, which assigns to the variables of p.
StmtAssignAll(p, e, depth, Next, s, at) ==
  LET LF == Mark(at, 1)
      v == CompExp(e, 0, depth, s, Sub(at, 1))
      m == CompPtn(p, v.dest, LF, v.dp, [s EXCEPT !.multi = TRUE], Sub(at, 2))
  IN Done(v.code \o m.code \o << <<"jmp", Next>> >> \o Here(LF) \o genError("match_error", depth),
          depth, s.dict)

StmtRaise(e, depth, s, at) ==
  LET x == CompExp(e, 0, depth, s, Sub(at, 1)) IN
  Gone(x.code \o << <<"generr", x.dest>> >>, depth, s.dict)

CodeOfStmt(st, depth, Next, s, at) ==
  CASE st[1] = "skip" -> Done(<<>>, depth, s.dict)
    [] st[1] = "seq" -> CompSeq(st[2], 1, depth, Next, s, at)
    [] st[1] = "if" -> StmtIf(st[2], st[3], st[4], depth, Next, s, at)
    [] st[1] = "when" -> StmtWhen(st[2], st[3], depth, Next, s, at)
    [] st[1] = "for" -> StmtFor(st[2], foldExp(st[3]), st[4], depth, s, at)
    [] st[1] = "while" -> StmtWhile(st[2], st[3], depth, Next, s, at)
    [] st[1] = "try" -> StmtTry(st[2], st[3], depth, Next, s, at)
    [] st[1] = "case" -> StmtCase(foldExp(st[2]), st[3], depth, Next, s, at)
    [] st[1] = "label" -> StmtLabel(st[2], st[3], depth, Next, s, at)
    [] st[1] = "leave" -> StmtLeave(st[2], depth, s)
    [] st[1] = "elemis" -> StmtElemis(foldExp(st[2]), depth, s, at)
    [] st[1] = "valis" -> StmtValis(foldExp(st[2]), depth, Next, s, at)
    [] st[1] = "let" -> StmtDeclare(st[2], foldExp(st[3]), FALSE, depth, s, at)
    [] st[1] = "var" -> StmtDeclare(st[2], foldExp(st[3]), TRUE, depth, s, at)
    [] st[1] = "match" -> StmtMatch(st[2], foldExp(st[3]), depth, Next, s, at)
    [] st[1] = "assign" -> StmtAssign(st[2], foldExp(st[3]), depth, s, at)
    [] st[1] = "assignall" -> StmtAssignAll(st[2], foldExp(st[3]), depth, Next, s, at)
    [] st[1] = "raise" -> StmtRaise(foldExp(st[2]), depth, s, at)

(***************************************************************************)
(* Choices.  kind tells whose alternatives they are: of a case or catch       *)
(* expression (exp, whose values all go to s.dest), of a case or catch        *)
(* statement (stmt), or the equations of a function (eqn).                    *)
(***************************************************************************)
\* The variables that are the arguments themselves.  Arguments lie one below
\* the other, the last of them at srcvar.
BoundVars(p, srcvar, dict) ==
  LET args == IF p[1] = "tpl" THEN p[2] ELSE <<p>> IN
  FoldLeft(LAMBDA d, i : IF args[i][1] = "var"
                         THEN declVar(args[i][2], FALSE, TRUE, srcvar + Len(args) - i, d) ELSE d,
           dict, [i \in 1..Len(args) |-> i])

Unguarded(p) == IF p[1] = "guard" THEN p[2] ELSE p
GuardOf(p) == IF p[1] = "guard" THEN p[3] ELSE <<"true">>

\* compRewrite
AltExp(a, srcvar, depth, Next, LF, s, at) ==
  LET p == Unguarded(a[1])
      lo == BoundVars(p, srcvar, addMarker(s.dict))
      in == [s EXCEPT !.dict = lo, !.outer = s.dict]
      m == CompPttrn(p, srcvar, depth, LF, in, lo, Sub(at, 1))
      t == PosTst(GuardOf(a[1]), m.dp, LF, Under(in, m.dict), Sub(at, 2))
      x == CompExp(a[2], s.dest, t.dp, Under(in, t.dict), Sub(at, 3))
  IN [code |-> m.code \o t.code \o x.code \o << <<"jmp", Next>> >>,
      fails |-> m.fails \/ p # a[1], dest |-> x.dest, cnt |-> "continued"]

\* compStmtChoice
AltStmt(a, srcvar, depth, Next, LF, last, s, at) ==
  LET p == Unguarded(a[1])
      lo == addMarker(s.dict)
      in == [s EXCEPT !.dict = lo, !.outer = s.dict]
      m == CompPttrn(p, srcvar, depth, LF, in, lo, Sub(at, 1))
      t == PosTst(GuardOf(a[1]), m.dp, LF, Under(in, m.dict), Sub(at, 2))
      b == CompStmt(a[2], t.dp, Next, Under(in, t.dict), Sub(at, 3))
      fails == m.fails \/ p # a[1]
  IN [code |-> m.code \o t.code \o b.code
                 \o (IF b.cnt = "continued" /\ (~last \/ fails) THEN << <<"jmp", Next>> >> ELSE <<>>),
      fails |-> fails, dest |-> s.dest, cnt |-> IF last THEN b.cnt ELSE s.cnt]

\* compEqn: the arguments are matched from the first to the last.
AltEqn(a, srcvar, depth, Next, LF, last, s, at) ==
  LET p == Unguarded(a[1])
      n == Len(p[2])
      lo == BoundVars(p, srcvar, s.dict)
      vars == Embedded(p, depth, [s EXCEPT !.dict = lo, !.outer = s.dict], lo)
      arg(acc, i) ==
        LET m == CompPttrn(p[2][i], srcvar + n - i, acc.dp, LF,
                           [s EXCEPT !.dict = acc.dict, !.outer = s.dict], lo, Sub(Sub(at, 1), i))
        IN [m EXCEPT !.code = acc.code \o m.code, !.fails = acc.fails \/ m.fails]
      start == [code |-> vars.code, fails |-> FALSE, dp |-> vars.dp, dict |-> vars.dict]
      m == FoldLeft(arg, start, [i \in 1..n |-> i])
      in == [s EXCEPT !.dict = m.dict, !.outer = s.dict]
      t == PosTst(GuardOf(a[1]), m.dp, LF, in, Sub(at, 2))
      x == CompExp(a[2], s.dest, t.dp, Under(in, t.dict), Sub(at, 3))
  IN [code |-> m.code \o t.code \o x.code \o (IF last THEN <<>> ELSE << <<"jmp", Next>> >>),
      fails |-> m.fails, dest |-> x.dest, cnt |-> "continued"]

CompAlt(kind, a, srcvar, depth, Next, LF, last, s, at) ==
  CASE kind = "exp" -> AltExp(a, srcvar, depth, Next, LF, s, at)
    [] kind = "stmt" -> AltStmt(a, srcvar, depth, Next, LF, last, s, at)
    [] kind = "eqn" -> AltEqn(a, srcvar, depth, Next, LF, last, s, at)

\* reshapeTree: neighbours that all are symbols, or all are integers, form a
\* group; anything else stands alone.
Literals == {"sym", "int"}
Groups(alts) ==
  FoldLeft(LAMBDA gs, a :
             IF gs # <<>> /\ a[1][1] \in Literals /\ Last(Last(gs))[1][1] = a[1][1]
             THEN [gs EXCEPT ![Len(gs)] = Append(@, a)]
             ELSE Append(gs, <<a>>),
           <<>>, alts)

\* The alternatives of a group one after the other, the destination of each
\* passed on to the next.  labels[i] is where alternative i begins ("no label"
\* is <<>>), and labels[i + 1] where it goes when it fails; sep stands between
\* one and the next.
RECURSIVE CompChain(_, _, _, _, _, _, _, _, _, _)
CompChain(kind, alts, srcvar, depth, Next, labels, sep, s, last, at) ==
  IF alts = <<>> THEN [code |-> <<>>, fails |-> FALSE, dest |-> s.dest, cnt |-> s.cnt]
  ELSE LET a == CompAlt(kind, alts[1], srcvar, depth, Next, labels[2], last /\ Len(alts) = 1, s,
                        Sub(at, Len(alts)))
           rest == CompChain(kind, Tail(alts), srcvar, depth, Next, Tail(labels), sep,
                             [s EXCEPT !.dest = a.dest, !.cnt = a.cnt], last, at)
       IN [rest EXCEPT !.code = (IF labels[1] = <<>> THEN <<>> ELSE Here(labels[1]))
                                  \o a.code \o (IF Len(alts) = 1 THEN <<>> ELSE sep) \o rest.code,
                       !.fails = IF Len(alts) = 1 THEN a.fails ELSE rest.fails]

\* The size of a symbol table: the least odd prime above the number of entries.
nxtPrime(n) ==
  Min({q \in (n + 1)..(2 * n + 3) : q > 2 /\ \A d \in 2..(q - 1) : q % d # 0})

\* buildHash: a jump through a table, for two or more symbols or a dense set
\* of integers.  The entry for each key leads to the alternatives with that
\* index, in the order they were written.
Dense(ns) == Len(ns) > (Max(ToSet(ns)) - Min(ToSet(ns))) \div 2
CompTable(kind, alts, ix, factor, first, srcvar, depth, Next, LF, s, at) ==
  LET bucket(i) == SelectSeq([k \in 1..Len(alts) |-> k], LAMBDA k : ix[k] = i)
      entry(i) == Mark(Sub(at, i + 1), 1)
      chain(acc, i) ==
        LET b == bucket(i)
            labels == [k \in 1..(Len(b) + 1) |-> IF k > Len(b) THEN LF ELSE Mark(Sub(at, i + 1), k)]
            c == CompChain(kind, [k \in 1..Len(b) |-> alts[b[k]]], srcvar, depth, Next, labels,
                           <<>>, [s EXCEPT !.dest = acc.dest], FALSE, Sub(at, i + 1))
        IN IF b = <<>> THEN acc ELSE [c EXCEPT !.code = acc.code \o c.code]
      none == [code |-> <<>>, fails |-> TRUE, dest |-> s.dest, cnt |-> s.cnt]
      all == FoldLeft(chain, none, [i \in 1..factor |-> i - 1])
  IN [all EXCEPT !.code =
        first \o << <<"jmp", LF>> >>
          \o [i \in 1..factor |-> <<"jmp", IF bucket(i - 1) = <<>> THEN LF ELSE entry(i - 1)>>]
          \o all.code,
      !.fails = TRUE]

CompHashed(kind, alts, srcvar, depth, Next, LF, s, at) ==
  LET factor == nxtPrime(Len(alts))
      ix == [k \in 1..Len(alts) |-> uniHash(alts[k][1][2]) % factor]
  IN CompTable(kind, alts, ix, factor, << <<"hjmp", srcvar, factor>> >>,
               srcvar, depth, Next, LF, s, at)

CompIndexed(kind, alts, srcvar, depth, Next, LF, s, at) ==
  LET keys == [k \in 1..Len(alts) |-> alts[k][1][2]]
      min == Min(ToSet(keys))
      factor == Max(ToSet(keys)) - min + 1
      D == IF min = 0 THEN srcvar ELSE depth - 1
  IN CompTable(kind, alts, [k \in 1..Len(alts) |-> keys[k] - min], factor,
               (IF min = 0 THEN <<>> ELSE << <<"incr", srcvar, -min, D>> >>) \o << <<"ijmp", D, factor>> >>,
               srcvar, depth, Next, LF, s, at)

CompGroup(kind, alts, srcvar, depth, Next, LF, last, s, at) ==
  IF Len(alts) > 1 /\ alts[1][1][1] = "sym"
  THEN CompHashed(kind, alts, srcvar, depth, Next, LF, s, at)
  ELSE IF Len(alts) > 1 /\ Dense([k \in 1..Len(alts) |-> alts[k][1][2]])
  THEN CompIndexed(kind, alts, srcvar, depth, Next, LF, s, at)
  ELSE CompChain(kind, alts, srcvar, depth, Next,
                 [k \in 1..(Len(alts) + 1) |->
                    IF k = 1 THEN <<>> ELSE IF k > Len(alts) THEN LF ELSE Mark(Sub(at, 0), k)],
                 IF kind = "stmt" THEN << <<"jmp", Next>> >> ELSE <<>>, s, last /\ Len(alts) = 1, at)

RECURSIVE CompGroups(_, _, _, _, _, _, _, _, _)
CompGroups(kind, groups, fails, srcvar, depth, Next, LF, s, at) ==
  LET only == Len(groups) = 1
      Lf == IF only THEN LF ELSE Mark(at, Len(groups))
      g == CompGroup(kind, groups[1], srcvar, depth, Next, Lf, only /\ ~fails, s,
                     Sub(at, Len(groups)))
      rest == CompGroups(kind, Tail(groups), fails \/ g.fails, srcvar, depth, Next, LF,
                         [s EXCEPT !.dest = g.dest, !.cnt = g.cnt], at)
  IN IF only THEN [g EXCEPT !.fails = fails \/ g.fails]
     ELSE [rest EXCEPT !.code = g.code \o Here(Lf) \o rest.code]

CodeOfChoice(kind, alts, srcvar, depth, Next, LF, s, at) ==
  CompGroups(kind, Groups(alts), FALSE, srcvar, depth, Next, LF, [s EXCEPT !.cnt = "continued"], at)

Generate(g, s, at) ==
  CASE g[1] = "exp" -> CodeOfExp(g[2], g[3], g[4], s, at)
    [] g[1] = "pos" -> CodeOfTst(g[2], g[3], g[4], s, at)
    [] g[1] = "neg" -> CodeOfNegTst(g[2], g[3], g[4], s, at)
    [] g[1] = "ptn" -> CodeOfPtn(g[2], g[3], g[4], g[5], s, at)
    [] g[1] = "pttrn" -> CodeOfPttrn(g[2], g[3], g[4], g[5], s, g[6], at)
    [] g[1] = "embedded" -> CodeOfVars(g[2], g[3], s, g[4])
    [] g[1] = "lst" -> CodeOfLstPtn(g[2], g[3], g[4], g[5], g[6], s, at)
    [] g[1] = "stmt" -> CodeOfStmt(g[2], g[3], g[4], s, at)
    [] g[1] = "choice" -> CodeOfChoice(g[2], g[3], g[4], g[5], g[6], g[7], s, at)

(***************************************************************************)
(* A function: its equations, the return, and the failure of them all.       *)
(***************************************************************************)
CompFunction(eqns, arity) ==
  LET Lx == Mark(<<>>, 1)
      LF == Mark(<<>>, 2)
      s == [dict |-> addMarker(<<>>), outer |-> <<>>, ctxt |-> <<>>, dest |-> -1, cnt |-> "",
            multi |-> FALSE]
      body == CompChoice("eqn", eqns, MINBOUND, -1, Lx, LF, s, <<1>>)
      code == << <<"initv", -1>> >> \o body.code \o Here(Lx) \o << <<"result", arity, -1>> >>
                \o Here(LF) \o genError("failed", -1)
  IN << <<"allocv", MaxDepth(code)>> >> \o code
=============================================================================
