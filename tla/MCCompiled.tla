------------------------------ MODULE MCCompiled ------------------------------
(***************************************************************************)
(* The programs that are run: every pair of operands in every kind of         *)
(* expression, every kind of pattern and of test in every place one can       *)
(* stand, and statements.  Function 1 takes two integers x and y, a list l    *)
(* and function 2, which has no value for some of its arguments.             *)
(***************************************************************************)
EXTENDS Compiled

X == <<"var", "x">>
Y == <<"var", "y">>
L == <<"var", "l">>
Use(v) == <<"var", v>>
Num(n) == <<"int", n>>
Sym(s) == <<"sym", s>>
Wild == <<"any">>
Nil == <<"nil">>
ConsE(h, t) == <<"cons", h, t>>
Appended(p, q) == <<"append", p, q>>
Tuple(es) == <<"tpl", es>>
Con(f, es) == <<"con", f, es>>
Cmp(op, a, b) == <<"cmp", op, a, b>>
Call2(a, b) == <<"call", "f", <<a, b>>>>
If(t, a, b) == <<"if", t, a, b>>
Nth(l, n) == <<"nth", l, n>>
Case(e, alts) == <<"case", e, alts>>
CatchE(e, alts) == <<"catch", e, alts>>
Raise(e) == <<"raise", e>>
Guard(p, t) == <<"guard", p, t>>
Block(sts) == <<"seq", sts>>
Let(x, e) == <<"let", x, e>>
NewVar(x, e) == <<"var", x, e>>
SetTo(x, e) == <<"assign", x, e>>
For(p, e, s) == <<"for", p, e, s>>
Valis(e) == <<"valis", e>>
ValofE(sts) == <<"valof", Block(sts)>>
Collect(s) == <<"collect", s>>
Elemis(e) == <<"elemis", e>>
Add(a, b) == <<"add", a, b>>
Sub2(a, b) == <<"sub", a, b>>

Fn1(e) == << << <<Tuple(<<X, Y, L, Use("f"), Use("less")>>), e>> >>, 5>>
\* Function 2 is partial; function 3 is a test.
Fn2 == << << <<Tuple(<<Num(0), Use("b")>>), Use("b")>>,
             <<Guard(Tuple(<<Use("a"), Use("b")>>), Cmp("lt", Use("a"), Use("b"))),
               Add(Use("b"), Use("a"))>> >>, 2>>
Fn3 == << << <<Tuple(<<Use("a"), Use("b")>>), <<"test", Cmp("lt", Use("a"), Use("b"))>> >> >>, 2>>
NumList(ns) == List([k \in 1..Len(ns) |-> Number(ns[k])])
Args(x, y, ns) == <<Number(x), Number(y), NumList(ns), Closure(2), Closure(3)>>
Calls == { Args(1, 2, <<5, 1, 7>>), Args(2, 1, <<1>>) }
Helpers == CodeOf(<<Fn2, Fn3>>)
Programs(groups, calls) ==
  {{LoadedAs(<<Fn1(e), Fn2, Fn3>>, CodeOf(<<Fn1(e)>>) \o Helpers, calls) : e \in es} : es \in groups}

(***************************************************************************)
(* Every pair of operands in every kind of expression: each operand compiles *)
(* to more than a move.  A case is no operand of its own: the cell it chooses *)
(* for its value is not kept from what follows (compexp.c:627-645).           *)
(***************************************************************************)
Operands ==
  { X, Num(300), Nth(L, X), Call2(X, Y),
    If(Cmp("lt", X, Y), X, <<"mul", Y, <<"neg", Y>>>>),
    CatchE(Nth(L, Y), << <<Wild, Num(9)>> >>),
    ValofE(<< For(Use("e"), L, <<"when", Cmp("gt", Use("e"), X), Valis(Use("e"))>>), Valis(X) >>),
    ValofE(<< Let("q", L), Valis(Case(Use("q"), << <<ConsE(Use("h"), Nil), Use("h")>>, <<Wild, Num(0)>> >>)) >>),
    Nth(Collect(For(Use("c"), L, Elemis(Add(Use("c"), Y)))), X) }

Pairs(a, b) ==
  { Add(a, b), <<"mul", a, b>>, ConsE(a, ConsE(b, L)), Tuple(<<a, b>>), Con("pair", <<a, b>>),
    Call2(a, b), If(Cmp("le", a, b), X, Y), Collect(Block(<<Elemis(a), Elemis(b)>>)),
    ValofE(<< Let("m", a), Let("n", b), Valis(Sub2(Use("n"), Use("m"))) >>),
    CatchE(Raise(Con("pair", <<a, b>>)),
           << <<Con("pair", <<Use("u"), Use("v")>>), Add(Use("u"), Use("v"))>> >>) }
PairJobs == Programs({Pairs(a, b) : a, b \in Operands}, Calls)

(***************************************************************************)
(* Every kind of list pattern where a pattern can stand, with a list made of *)
(* its variables.                                                            *)
(***************************************************************************)
H == Use("h")
T == Use("t")
G == Use("g")
Fresh ==
  { <<Nil, L>>, <<ConsE(H, T), ConsE(H, T)>>, <<ConsE(H, Nil), ConsE(H, L)>>,
    <<ConsE(Num(5), T), T>>, <<ConsE(Wild, ConsE(H, Wild)), ConsE(H, L)>>,
    <<ConsE(<<"bang", Add(X, Y)>>, T), T>>, <<ConsE(H, ConsE(G, T)), ConsE(G, ConsE(H, T))>>,
    <<ConsE(Guard(H, Cmp("gt", H, X)), T), ConsE(H, T)>>,
    <<Appended(Wild, ConsE(H, Nil)), ConsE(H, L)>>,
    <<Appended(G, ConsE(H, ConsE(Wild, T))), ConsE(H, G)>>,
    <<Appended(G, Appended(Wild, ConsE(Num(7), T))), G>>,
    <<Appended(Wild, ConsE(H, Appended(G, ConsE(H, T)))), ConsE(H, G)>>,
    <<Appended(G, T), ConsE(X, T)>>,
    <<Guard(Appended(G, ConsE(H, T)), Cmp("gt", H, Y)), ConsE(H, G)>>,
    <<Guard(ConsE(H, T), <<"in", Guard(G, Cmp("lt", G, H)), T>>), ConsE(H, T)>>,
    <<Guard(ConsE(H, T), <<"match", ConsE(G, Wild), T>>), ConsE(G, ConsE(H, Nil))>> }
\* Patterns that compare with variables that have a value.
Bound ==
  { <<ConsE(X, T), T>>, <<Appended(G, ConsE(X, T)), ConsE(Nth(ConsE(X, G), Num(2)), T)>>,
    <<Appended(L, T), T>>, <<ConsE(Wild, ConsE(Wild, L)), Nil>>, <<ConsE(Y, L), Nil>> }
Subjects == { L, ConsE(X, ConsE(Y, L)) }

TestPlaces(p, r, e) ==
  { If(<<"match", p, e>>, r, Nil),
    If(<<"not", <<"match", p, e>>>>, Nil, L),
    If(<<"nomatch", p, e>>, Nil, L),
    If(<<"and", <<"match", p, e>>, <<"match", ConsE(Use("z"), Wild), r>>>>, ConsE(Use("z"), L), Nil),
    If(<<"in", p, ConsE(e, ConsE(L, Nil))>>, r, Nil),
    If(<<"not", <<"in", p, ConsE(e, ConsE(L, Nil))>>>>, L, Nil),
    ValofE(<< <<"match", p, e>>, Valis(r) >>),
    ValofE(<< <<"when", <<"match", p, e>>, Valis(r)>>, Valis(Nil) >>),
    Collect(For(p, ConsE(e, ConsE(L, Nil)), Elemis(r))),
    If(<<"match", Tuple(<<p, Use("z")>>), Tuple(<<e, Y>>)>>, ConsE(Use("z"), r), Nil) }
AltPlaces(p, r, e) ==
  { ValofE(<< Valis(Case(e, << <<p, r>>, <<Wild, Nil>> >>)) >>),
    ValofE(<< <<"case", e, << <<p, Valis(r)>>, <<ConsE(Wild, Wild), Valis(L)>> >> >>, Valis(Nil) >>),
    CatchE(Raise(Con("k", <<e>>)), << <<Con("k", <<p>>), r>> >>) }
Lists == { Args(1, 2, <<5, 1, 7>>), Args(2, 7, <<>>), Args(1, 1, <<1, 1>>),
           Args(1, 7, <<2, 7, 1, 7>>) }
PatternJobs ==
  Programs({ TestPlaces(q[1], q[2], e) : q \in Fresh \cup Bound, e \in Subjects }
           \cup { AltPlaces(q[1], q[2], e) : q \in Fresh, e \in Subjects }, Lists)

\* The same patterns in the equations of a function.
EquationJobs ==
  {{Loaded(<< << << <<Guard(Tuple(<<X, Y, q[1]>>), Cmp("lt", X, Y)), q[2]>>,
                   <<Tuple(<<X, Y, q[1]>>), ConsE(Y, q[2])>>,
                   <<Tuple(<<X, Wild, L>>), ConsE(X, L)>> >>, 3>> >>,
           {SubSeq(c, 1, 3) : c \in Lists}) :
      q \in {<<ConsE(Guard(H, Cmp("gt", H, X)), T), ConsE(H, T)>>,
             <<Appended(G, ConsE(X, T)), ConsE(Y, G)>>,
             <<ConsE(X, ConsE(Y, T)), T>>, <<Nil, Nil>>,
             <<Appended(Wild, ConsE(H, Nil)), ConsE(H, Nil)>>}}}

(***************************************************************************)
(* Every test, and every pair of them, where a test can stand.               *)
(***************************************************************************)
Less(a, b) == <<"call", "less", <<a, b>>>>
Tests ==
  {Cmp(op, X, Y) : op \in {"eq", "ne", "lt", "le", "gt", "ge"}} \cup
  { Cmp("lt", Add(X, Num(1)), Nth(L, Y)), Cmp("eq", Num(1), X), Cmp("ne", Num(3), Num(3)),
    <<"same", ConsE(X, Nil), L>>, <<"differ", L, ConsE(Y, Nil)>>, <<"same", Nil, Nil>>,
    <<"differ", Num(2), Num(2)>>, <<"range", X, Y, Nth(L, X)>>, <<"in", X, L>>,
    <<"in", Guard(Use("p"), Cmp("gt", Use("p"), X)), L>>, <<"match", ConsE(X, Wild), L>>,
    <<"nomatch", ConsE(Wild, ConsE(Y, Wild)), L>>, <<"true">>, <<"false">>, Less(X, Y),
    <<"in", ConsE(Y, Wild), ConsE(ConsE(X, L), ConsE(L, Nil))>> }
Not(t) == <<"not", t>>
And(t, u) == <<"and", t, u>>
Or(t, u) == <<"or", t, u>>
Joined(t, u) == { And(t, u), Or(t, u), Not(And(t, u)), Not(Or(t, u)), And(Not(t), u), Or(t, Not(u)) }
TestUses(t) ==
  { If(t, Add(X, Y), Num(0)), Tuple(<< <<"test", t>>, X >>),
    ValofE(<< <<"if", t, Valis(X), Valis(Y)>> >>),
    ValofE(<< <<"match", Guard(Use("m"), t), Add(X, Y)>>, Valis(Use("m")) >>),
    ValofE(<< NewVar("i", Num(0)),
              <<"while", And(Cmp("lt", Use("i"), Num(2)), t), SetTo("i", Add(Use("i"), Num(1)))>>,
              Valis(Use("i")) >>) }
\* A variable of a pattern in an alternative is a new one.
GuardUse(t) == ValofE(<< Valis(Case(X, << <<Guard(Use("m"), t), Use("m")>>, <<Wild, Num(7)>> >>)) >>)
Few == { <<"in", X, L>>, <<"nomatch", ConsE(Wild, ConsE(Y, Wild)), L>>,
         <<"range", X, Y, Nth(L, X)>>, Less(X, Y), <<"false">> }
TestJobs ==
  Programs({TestUses(t) : t \in Tests}
           \cup {{GuardUse(t) : t \in {u \in Tests : u[1] \notin {"match", "nomatch", "in"}}}}
           \cup {{If(j, X, Num(0)) : j \in Joined(t, u)} : t \in Tests, u \in Few}, Calls)

(***************************************************************************)
(* Statements inside statements: what each does to acc, where control goes.  *)
(***************************************************************************)
Acc == Use("acc")
I == Use("i")
Basics ==
  { SetTo("acc", Add(Acc, X)), SetTo("acc", Nth(L, Y)), <<"leave", "out">>, Valis(Num(99)),
    <<"raise", Con("pair", <<Acc, X>>)>>,
    <<"assignall", Tuple(<<Acc, I>>), Tuple(<<Add(I, Num(1)), Add(Acc, Num(1))>>)>>,
    <<"case", Acc, << <<Num(0), SetTo("acc", Num(5))>>,
                      <<Guard(Use("k"), Cmp("gt", Use("k"), Num(3))), <<"leave", "out">> >> >> >> }
Handlers(s) ==
  { << <<Wild, s>> >>,
    << <<Con("pair", <<Use("u"), Use("v")>>), Block(<<SetTo("acc", Use("v")), s>>)>> >> }
Around(s) ==
  { <<"for", Use("e"), L, Block(<<SetTo("acc", Add(Acc, Use("e"))), s>>)>>,
    <<"while", Cmp("lt", I, Num(2)), Block(<<SetTo("i", Add(I, Num(1))), s>>)>>,
    <<"label", "out", Block(<<s, SetTo("acc", Num(40))>>)>>,
    <<"when", Cmp("lt", X, Y), s>>, <<"try", s, << <<Wild, SetTo("acc", Num(70))>> >> >>, Block(<<Let("b", Acc), s, SetTo("acc", Add(Use("b"), Acc))>>) }
Joining(s, t) ==
  { Block(<<s, t>>), <<"if", Cmp("lt", X, Y), s, t>> }
    \cup {<<"try", s, h>> : h \in Handlers(t)} \cup {<<"try", Block(<<s, t>>), h>> : h \in Handlers(t)}
Ends == { <<"leave", "out">>, <<"raise", Con("pair", <<Acc, X>>)>> }
Twice == {Joining(s, t) : s \in Basics, t \in Ends \cup {SetTo("acc", Nth(L, Y)), Valis(Num(99))}}
           \cup {{Block(<< <<"assignall", ConsE(Acc, Wild), L>>, s >>) : s \in Basics}}
Running3(s) ==
  ValofE(<< NewVar("acc", Num(0)), NewVar("i", Num(0)), NewVar("top", L), <<"label", "out", s>>, Valis(Acc) >>)
StmtJobs ==
  Programs({{Running3(s) : s \in g} : g \in Twice}
           \cup {UNION {{Running3(w) : w \in Around(t)} : t \in Joining(u, v)} : u \in Basics, v \in Ends},
           Calls)

\* The same for collect: what is collected before control leaves.
Collecting == {Elemis(X), Elemis(Nth(L, Y)), SetTo("i", Add(I, X)), <<"raise", Con("pair", <<X, Y>>)>>,
               <<"for", Use("e"), L, Block(<<Elemis(Use("e")), SetTo("i", Use("e"))>>)>>}
Collecting3(s) ==
  Collect(Block(<<NewVar("i", Num(0)), NewVar("acc", Num(0)), NewVar("top", L), s, Elemis(I)>>))
CollectJobs ==
  Programs({{Collecting3(s) : s \in Joining(t, u)} : t, u \in Collecting}, Calls)

(***************************************************************************)
(* Choices between literals: jump tables, chains and mixtures of them.        *)
(***************************************************************************)
Numbered(ps) == [k \in 1..Len(ps) |-> <<ps[k], Num(k)>>]
Seqs(S, n) == UNION {[1..k -> S] : k \in 1..n}
Symbolic == Seqs({Sym("red"), Sym("green"), Sym("blue")}, 3)
Numeric ==
  {ps \in Seqs({Num(0), Num(1), Num(2), Num(5)}, 3) : Len(ps) = 1 \/ \E k \in DOMAIN ps : ps[k] = Num(0)}
    \cup {<<Num(0), Num(1), Guard(Use("m"), Cmp("lt", Use("m"), Num(3))), Num(0), Num(5)>>}
Chosen(ps) ==
  { ValofE(<< Valis(Case(X, Numbered(ps))) >>),
    ValofE(<< Valis(Case(X, Numbered(ps) \o << <<Wild, Num(9)>> >>)) >>),
    ValofE(<< <<"case", X, [k \in 1..Len(ps) |-> <<ps[k], Valis(Num(k))>>]>>, Valis(X) >>),
    CatchE(Raise(X), Numbered(ps)) }
ChoicePrograms(pss, calls) ==
  {{Loaded(<< << << <<Tuple(<<X>>), e>> >>, 1>> >>, calls) : e \in Chosen(ps)}
      \cup {Loaded(<< << [k \in 1..Len(ps) |-> <<Tuple(<<ps[k]>>), Num(k)>>], 1>> >>, calls)} : ps \in pss}
ChoiceJobs ==
  ChoicePrograms(Symbolic, {<<Symbol(c)>> : c \in {"red", "green", "blue", "pink"}})
    \cup ChoicePrograms(Numeric, {<<Number(n)>> : n \in {-1, 0, 1, 2, 5, 7}})

\* Recursion: a function is given itself.
Again(e) == <<"call", "g", <<e, G>>>>
Recursions(e) ==
  { << <<Tuple(<<ConsE(H, T), G>>), e>>, <<Tuple(<<Nil, G>>), base>> >> :
      base \in {Nil, Raise(Con("k", <<ConsE(Num(8), Nil)>>))} }
Steps == { ConsE(H, Again(T)), ConsE(H, ConsE(H, Again(T))),
           Collect(Block(<< For(Use("c"), Again(T), Elemis(Use("c"))), Elemis(H) >>)),
           If(Cmp("gt", H, Num(1)), Again(T), ConsE(H, Again(T))),
           ValofE(<< <<"match", Use("r"), Again(T)>>, Valis(ConsE(H, Use("r"))) >>) }
Outer == << <<Tuple(<<L, G>>),
              CatchE(Again(L), << <<Con("k", <<Use("v")>>), ConsE(Num(3), Use("v"))>> >>)>> >>
RecursionJobs ==
  {{Loaded(<< <<Outer, 2>>, <<q, 2>> >>,
           {<<NumList(ns), Closure(2)>> : ns \in {<<>>, <<4>>, <<1, 2>>}}) : q \in Recursions(e)} : e \in Steps}

MCJobs ==
  LET kinds == {PairJobs, PatternJobs, EquationJobs, TestJobs, StmtJobs, CollectJobs, ChoiceJobs, RecursionJobs}
  IN kinds
=============================================================================
