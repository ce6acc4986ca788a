------------------------------- MODULE MCTyping -------------------------------
(***************************************************************************)
(* What is unified, grouped, typed and run.                                  *)
(***************************************************************************)
EXTENDS Typing, TLC

(***************************************************************************)
(* Types of three variables, two pairs at a time, and a pair that fails after *)
(* it has bound something.                                                  *)
(***************************************************************************)
V1 == Tv(1)
V2 == Tv(2)
V3 == Tv(3)
Pair(t, u) == TupleTp(<<t, u>>)
Small == {V1, V2, V3, NumberTp, ListTp(V1), ListTp(V2)}
Large == Small \cup {SymbolTp, ListTp(ListTp(V3)), Pair(V1, V2), Pair(V2, NumberTp),
                     FunTp(TupleTp(<<V1>>), V2)}
UnifyJobs ==
  { {<<"unify", <<<<a, b>>, <<c, d>>>>, 3>> : a, b \in Large} : c, d \in {V1, V2, ListTp(V1), Pair(V1, V3)} }
  \cup
  { {<<"unify", <<<<Pair(a, b), Pair(c, NumberTp)>>, <<V1, V2>>, <<d, V3>>>>, 3>> : a, b \in Small}
      : c, d \in Small }

(***************************************************************************)
(* Definitions a, b and c, and d in no more than one way, that refer to each  *)
(* other in every way; names applied to names only where the function is part *)
(* of the same recursion.                                                    *)
(***************************************************************************)
Ref(x) == <<"ref", x>>
Listed(xs) == <<"parts", xs>>
Bodies ==
  { Listed(<<>>), Listed(<<Ref("a")>>), Listed(<<Ref("b"), Ref("a")>>), Listed(<<Ref("b")>>),
    Listed(<<Ref("c"), Listed(<<Ref("b")>>)>>), Listed(<<Ref("d"), Ref("c")>>),
    <<"scope", {"a"}, <<Ref("a"), Ref("c")>>>>, <<"app", <<Ref("a")>>>>,
    <<"app", <<Ref("b"), Ref("c")>>>>, <<"app", <<Ref("f"), Ref("a")>>>> }
Defs(bodies) == [k \in 1..Len(bodies) |-> [name |-> <<"a", "b", "c", "d">>[k], body |-> bodies[k]]]
Recurses(defs) ==
  LET reach == Closed(References(defs)) IN
  \A k \in DOMAIN defs : LET b == defs[k].body IN
    b[1] = "app" /\ Len(b[2]) = 2 /\ findDep(b[2][1][2], defs) # {} =>
      <<b[2][1][2], defs[k].name>> \in reach
GroupJobs ==
  { {<<"groups", defs>> : defs \in {ds \in {Defs(<<x, y, z, w>>) : z \in Bodies,
                                            w \in {Listed(<<>>), Listed(<<Ref("a")>>), Listed(<<Ref("c"), Ref("b")>>)}} :
                                      Recurses(ds)}} : x, y \in Bodies }

(***************************************************************************)
(* Programs.                                                                *)
(***************************************************************************)
Use(x) == <<"var", x>>
Num(n) == <<"int", n>>
Sym(s) == <<"sym", s>>
Nil == <<"nil">>
Wild == <<"any">>
ConsE(h, t) == <<"cons", h, t>>
Listing(a, b) == ConsE(a, ConsE(b, Nil))
Tuple(es) == <<"tpl", es>>
Con(f, es) == <<"con", f, es>>
None == <<"enum", "none">>
Some(e) == Con("some", <<e>>)
Call(f, es) == <<"call", f, es>>
Fn(ps, e) == <<"fn", <<<<Tuple(ps), e>>>>>>
Fn2(ps, e, qs, f) == <<"fn", <<<<Tuple(ps), e>>, <<Tuple(qs), f>>>>>>
Def(x, e) == <<"def", x, e>>
Theta(defs, e) == <<"theta", defs, e>>
Case(e, alts) == <<"case", e, alts>>
If(t, a, b) == <<"if", t, a, b>>
Raise == <<"raise", Con("error", <<Sym("m"), Sym("c")>>)>>
ValofE(sts) == <<"valof", <<"seq", sts>>>>
Collect(sts) == <<"collect", <<"seq", sts>>>>
Add(a, b) == <<"add", a, b>>

Atoms == { Num(1), Sym("s"), Nil, ConsE(Num(2), Nil), None, Some(Sym("s")), Tuple(<<Num(1), Sym("s")>>),
           <<"enum", "true">>, Fn(<<Use("v")>>, Use("v")), Fn(<<Use("w")>>, Add(Use("w"), Num(1))) }

\* Everything a value can be put in, with names numbered n.
Name(x, n) == Use((<<[x |-> "x1", y |-> "y1", z |-> "z1", f |-> "f1", g |-> "g1"],
                     [x |-> "x2", y |-> "y2", z |-> "z2", f |-> "f2", g |-> "g2"]>>)[n][x])
Contexts(n, a, b) ==
  LET X == Name("x", n)
      Y == Name("y", n)
      Z == Name("z", n)
      F == Name("f", n)[2]
      G == Name("g", n)[2]
  IN { ConsE(a, b), Listing(a, b), Add(a, b), Tuple(<<a, b>>), Listing(Some(a), None), <<"neg", a>>,
       If(<<"same", a, b>>, a, b), If(a, b, b), <<"test", <<"in", X, a>>>>,
       If(<<"and", <<"match", ConsE(X, Wild), a>>, <<"same", X, b>>>>, X, b),
       If(<<"or", <<"nomatch", ConsE(Wild, Wild), a>>, <<"not", <<"match", Some(Wild), b>>>>>>, b, Raise),
       Case(a, << <<Some(X), X>>, <<None, b>> >>),
       Case(a, << <<ConsE(X, Y), Y>>, <<Nil, b>> >>),
       Case(Tuple(<<a, b>>), << <<Tuple(<<X, <<"bang", a>>>>), X>>, <<Tuple(<<Y, Z>>), Z>> >>),
       Case(a, << <<<<"append", X, ConsE(Y, Nil)>>, Listing(Y, b)>>, <<Z, Nil>> >>),
       Case(a, << <<<<"guard", X, <<"same", X, b>>>>, Listing(X, b)>>, <<Wild, Nil>> >>),
       Case(Fn(<<X>>, Tuple(<<X, b>>)), << <<Use(F), Call(F, <<a>>)>> >>),
       Case(a, << <<Use(F), Call(F, <<b>>)>> >>),
       Case(a, << <<Use(F), Listing(Call(F, <<Num(1)>>), Call(F, <<b>>))>> >>),
       Theta(<<Def(F, Fn(<<X>>, ConsE(X, Nil)))>>, Tuple(<<Call(F, <<a>>), Call(F, <<b>>)>>)),
       Theta(<<Def(F, Fn(<<Use(G), X>>, Call(G, <<X>>)))>>, Call(F, <<a, b>>)),
       Theta(<<Def(F, Fn2(<<Nil>>, Num(0), <<ConsE(X, Y)>>, Add(Num(1), Call(F, <<Y>>))))>>,
             Add(Call(F, <<a>>), Call(F, <<b>>))),
       Theta(<<Def(F, Fn(<<X>>, Theta(<<Def(G, Fn(<<Y>>, Listing(X, Y)))>>,
                                      Case(Call(G, <<b>>), << <<ConsE(Z, Wild), Add(Z, Num(1))>> >>))))>>,
             Tuple(<<Call(F, <<a>>), Call(F, <<b>>)>>)),
       <<"catch", If(<<"same", a, b>>, Raise, a), << <<Con("error", <<X, Y>>), b>> >> >>,
       ValofE(<< <<"var", X[2], a>>, <<"assign", X[2], b>>, <<"valis", X>> >>),
       ValofE(<< <<"for", X, a, <<"valis", X>>>>, <<"valis", b>> >>),
       ValofE(<< <<"let", X[2], a>>, <<"match", ConsE(Y, Wild), X>>,
                 <<"if", <<"same", Y, b>>, <<"valis", Y>>, <<"valis", b>>>> >>),
       ValofE(<< <<"case", a, << <<Some(X), <<"valis", X>>>>, <<None, <<"skip">>>> >>>>, <<"valis", b>> >>),
       ValofE(<< <<"try", <<"raise", Con("error", <<a, b>>)>>, << <<Con("error", <<X, Y>>), <<"valis", X>>>> >>>> >>),
       ValofE(<< <<"label", "out", <<"seq", << <<"when", a, <<"leave", "out">>>>, <<"valis", b>> >>>>>>,
                 <<"valis", b>> >>),
       ValofE(<< <<"assignall", Tuple(<<X, Y>>), Tuple(<<a, b>>)>>, <<"valis", Y>> >>),
       ValofE(<< <<"while", <<"same", a, b>>, <<"valis", a>>>>, <<"valis", b>> >>),
       Collect(<< <<"elemis", a>>, <<"for", Y, b, <<"elemis", Y>>>> >>),
       Collect(<< <<"for", Tuple(<<X, Y>>), a, <<"elemis", Tuple(<<Y, b>>)>>>> >>) }

Flat == { Contexts(1, a, b) : a, b \in Atoms }
Inner == { Num(1), Nil, Some(Num(3)) }
Nested == { UNION {Contexts(2, e, b) : b \in Inner} : e \in UNION {Contexts(1, c, d) : c, d \in Inner} }
          \cup { UNION {Contexts(2, b, e) : b \in Inner} : e \in UNION {Contexts(1, c, c) : c \in Inner} }

(***************************************************************************)
(* Functions over lists and functions, used on different types.              *)
(***************************************************************************)
L == Use("l")
T == Use("t")
H == Use("h")
Map == Def("map", Fn2(<<Wild, Nil>>, Nil, <<Use("mf"), ConsE(H, T)>>,
                      ConsE(Call("mf", <<H>>), Call("map", <<Use("mf"), T>>))))
Length == Def("length", Fn2(<<Nil>>, Num(0), <<ConsE(Wild, Use("lt"))>>, Add(Num(1), Call("length", <<Use("lt")>>))))
Id == Def("id", Fn(<<Use("i")>>, Use("i")))
Twice == Def("twice", Fn(<<Use("tf")>>, Fn(<<Use("tx")>>, Case(Call("tf", <<Use("tx")>>),
                                                              << <<Use("ty"), Call("tf", <<Use("ty")>>)>> >>))))
Doubled == Def("doubled", Fn(<<Use("da")>>, Tuple(<<Use("da"), Use("da")>>)))
Even == Def("even", Fn2(<<Nil>>, <<"enum", "true">>, <<ConsE(Wild, Use("et"))>>, Call("odd", <<Use("et")>>)))
Odd == Def("odd", Fn2(<<Nil>>, <<"enum", "false">>, <<ConsE(Wild, Use("ot"))>>, Call("even", <<Use("ot")>>)))
Both2 == Def("both", Fn(<<Use("ba")>>, Tuple(<<Call("id", <<Num(1)>>), Call("id", <<Sym("s")>>), Call("id", <<Use("ba")>>)>>)))
Sizes == Def("sizes", Fn(<<Use("sl")>>, Call("map", <<Fn(<<Use("se")>>, Call("length", <<Use("se")>>)), Use("sl")>>)))
Self == Def("self", Fn(<<Use("sx")>>, Call("self", <<ConsE(Use("sx"), Nil)>>)))
Choose2 == Def("choose", Fn2(<<<<"enum", "none">>, Use("ca")>>, Use("ca"), <<Some(Use("cb")), Wild>>, Use("cb")))
Same1 == <<"field", "same1", Fn(<<Use("fi")>>, Use("fi"))>>
Uses1 == Def("uses1", Fn(<<Use("ua")>>, Call("same1", <<Use("ua")>>)))
Mixed == Def("mixed", Fn(<<Use("ma")>>, Tuple(<<Call("same1", <<Num(1)>>), Call("uses1", <<Use("ma")>>)>>)))
Library == <<Map, Length, Id, Twice, Doubled, Even, Odd, Both2, Sizes, Self, Choose2, Same1, Uses1, Mixed>>
Chosen(ks) == SelectSeq(Library, LAMBDA d : \E k \in ks : Library[k] = d)

ThetaJobs ==
  { {<<"theta", Chosen(ks)>> : ks \in {d \in SUBSET (DOMAIN Library) : Cardinality(d) = n}} : n \in 2..3 }

Calls ==
  LET Inc == Fn(<<Use("n")>>, Add(Use("n"), Num(1))) IN
  { UNION { { Call("map", <<Inc, a>>), Call("length", <<Call("map", <<Fn(<<Use("m")>>, Some(Use("m"))), ConsE(a, Nil)>>)>>),
              Tuple(<<Call("even", <<a>>), Call("odd", <<ConsE(a, Nil)>>)>>), Call("both", <<a>>),
              Add(Call("id", <<a>>), Call("length", <<a>>)), Call("sizes", <<Listing(a, Nil)>>),
              Case(Call("twice", <<Inc>>), << <<Use("q"), Call("q", <<a>>)>> >>),
              Case(Call("twice", <<Fn(<<Use("r")>>, ConsE(Use("r"), Nil))>>), << <<Use("q"), Call("q", <<a>>)>> >>),
              Call("doubled", <<Call("doubled", <<a>>)>>), Call("choose", <<Some(a), Num(1)>>),
              Call("choose", <<a, Sym("s")>>), Call("mixed", <<a>>) } } : a \in Atoms }
Programs ==
  { {<<"program", e>> : e \in es} : es \in Flat \cup Nested }
  \cup { {<<"program", Theta(SelectSeq(Library, LAMBDA d : d # Self), e)>> : e \in es} : es \in Calls }

(***************************************************************************)
(* Definitions b and c that apply a, which is in a group already, to one      *)
(* another.                                                                  *)
(***************************************************************************)
SplitJobs ==
  LET applied == {<<"app", <<Ref("a"), Ref("c")>>>>, <<"app", <<Ref("a"), Ref("b")>>>>}
  IN { { {<<"groups", Defs(<<Listed(<<>>), x, y>>)>> : x, y \in Bodies \cup applied} } }

MCJobs == {UnifyJobs, GroupJobs, ThetaJobs, Programs}
=============================================================================
