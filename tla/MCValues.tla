------------------------------ MODULE MCValues ------------------------------
(***************************************************************************)
(* A small set of values and requests for Escapes, and the types of        *)
(* TypeMatch: a run is one request and its answer, or a program that       *)
(* matches types.                                                          *)
(***************************************************************************)
EXTENDS Escapes, TypeMatch, SequencesExt

mcNumbers ==
  {IntVal(n) : n \in {-128, -7, -2, -1, 0, 1, 2, 3, 7, 100, 127}}
  \cup {FltVal(-7, 2), FltVal(-1, 4), FltVal(1, 1), FltVal(3, 2), FltVal(11, 8)}
(* Their products reach and pass the ends of the word.                     *)
mcBig == {IntVal(n) : n \in {-300, -256, 128, 256}}
(* Close enough for their differences to fit an int.                       *)
mcNear == {n \in mcNumbers : Num(n)[1] \in -60 .. 60}
mcSmall == {IntVal(n) : n \in {-3, -1, 0, 2, 3}}

mcOfOneKind ==
  { {IntVal(2), FltVal(2, 1), IntVal(-1), FltVal(3, 2)},
    {SymVal(<<>>), SymVal(<<1>>), SymVal(<<1, 2>>), SymVal(<<2>>)},
    {Nil, ListOf(<<ChrVal(1)>>), ListOf(<<ChrVal(1), ChrVal(3)>>)},
    {TplVal(<<IntVal(1), SymVal(<<1>>)>>), TplVal(<<IntVal(1), SymVal(<<2>>)>>), TplVal(<<FltVal(1, 1), SymVal(<<1>>)>>)} }
mcListsOf(kind) == {ListOf(els) : els \in UNION {[1 .. n -> kind] : n \in 1 .. 4}}
mcLists == UNION {mcListsOf(kind) : kind \in mcOfOneKind}
mcShort == {ListOf(els) : els \in UNION {[1 .. n -> {IntVal(1), SymVal(<<2>>)}] : n \in 0 .. 3}}
mcTexts == {SymVal(t) : t \in UNION {[1 .. n -> {0, 1, 8, 10, 11, 12}] : n \in 0 .. 3}}

(* Programs: clos1 is a function of name f whose free values are a theta,  *)
(* clos2, of f and g; clos4 holds itself.                                  *)
Fun(a, b) == ConsVal(TypeOf("#=>"), <<TplVal(<<a>>), b>>)
Code(name, lits) == <<"code", name, lits, Fun(NumberTp, NumberTp), TplVal(<<>>)>>
mcEnv ==
  << ConsVal(Code("f", <<IntVal(5), SymVal(<<1, 2>>)>>), <<Closure(2), IntVal(3)>>),
     TplVal(<<Closure(1), Closure(3)>>),
     ConsVal(Code("g", <<Nil>>), <<Closure(2), Closure(4)>>),
     ConsVal(Code("h", <<>>), <<Closure(4)>>),
     ConsVal(Code("k", <<>>), <<>>) >>

mcLeaves ==
  {IntVal(n) : n \in {-128, -33, -1, 0, 1, 31, 32, 127}}
  \cup {FltVal(-7, 2), FltVal(1, 8), FltVal(0, 1), FltVal(5, 1), SymVal(<<>>), SymVal(<<1, 2, 3>>), ChrVal(0), ChrVal(2), ChrVal(6),
        Truth(TRUE), Nil, HdlVal(SymVal(<<1>>), SymVal(<<2>>)), Closure(1), Closure(2), Closure(4), Closure(5), VarVal(1), VarVal(2)}
mcTrees ==
  LET twos == {TplVal(<<a, b>>) : a, b \in mcLeaves}
  IN mcLeaves \cup twos
     \cup {Pair(a, b) : a \in mcLeaves \cup {TplVal(<<Closure(1), Nil>>)}, b \in {Nil, ListOf(<<IntVal(2)>>), IntVal(1), VarVal(1)}}
     \cup {AllocateString(t) : t \in UNION {[1 .. n -> {0, 1, 2, 3, 4, 9}] : n \in 1 .. 3}}
     \cup {AnyVal(t, v) : t \in {NumberTp, ListTp(VarVal(1)), Fun(VarVal(1), NumberTp)}, v \in mcLeaves}
     \cup {ConsVal(f, <<a, TplVal(<<b, Closure(3)>>)>>) : f \in {SymVal(<<2>>)}, a, b \in mcLeaves}

mcTypes == {NumberTp, SymbolTp, HandleTp, LogicalTp, StringTp, ListTp(NumberTp), TplVal(<<NumberTp, SymbolTp>>), Annotated(SymVal(<<1>>), NumberTp), VarVal(1), OpaqueTp}
mcCoerced ==
  {IntVal(n) : n \in {0, 1, 9, 17, 128}} \cup {FltVal(3, 2), FltVal(-1, 4), ChrVal(1), RawVal(<<1, 2>>), Opaque, Truth(FALSE), Nil}
  \cup {SymVal(t) : t \in {<<1, 7>>, <<0, 8>>, <<0, 1>>, <<10>>, <<0, 10, 14>>, <<15>>}}
  \cup {AllocateString(t) : t \in {<<1>>, <<1, 11, 8>>, <<14>>, <<15>>, <<12, 1>>}}
  \cup {ListOf(<<IntVal(1), SymVal(<<2>>)>>), TplVal(<<IntVal(1), SymVal(<<2>>)>>), AnyVal(NumberTp, IntVal(4)), HdlVal(SymVal(<<1>>), SymVal(<<2>>))}

(* Expressions to fold: operators over literals and a variable, the same   *)
(* inside a list, a tuple, a valof or another operator.                    *)
mcAtoms == {IntVal(3), IntVal(-2), IntVal(0), FltVal(3, 2), FltVal(2, 1), FltVal(0, 1), Use("x")}
mcSums == {App2(op, a, b) : op \in {"+", "-", "*", "/"}, a, b \in mcAtoms \cup {IntVal(300)}}
          \cup {App1("-", a) : a \in mcAtoms}
          \cup {App2(op, IntVal(5), b) : op \in {"band", "bor", "bxor", "bleft", "bright"}, b \in {IntVal(1), IntVal(2)}} \cup {App1("bnot", IntVal(3))}
mcTests == {App2(op, a, b) : op \in {"<", ">", "=<", ">=", "==", "=!="}, a, b \in mcAtoms}
           \cup {App2("==", Pair(a, Nil), Pair(b, Nil)) : a, b \in mcAtoms} \cup {App2("=!=", TplVal(<<a, b>>), TplVal(<<b, a>>)) : a, b \in mcAtoms}
mcTruths == {EnumStruct(TRUE), EnumStruct(FALSE), App2("<", Use("x"), IntVal(3)), App2("=!=", Use("x"), FltVal(2, 1))}
            \cup {App2("<", IntVal(1), b) : b \in {IntVal(3), IntVal(-2)}}
mcJunctions == {App2(op, a, b) : op \in {"and", "or", "==", "=!="}, a, b \in mcTruths} \cup {App1("not", t) : t \in mcTruths}
mcStrings == {StrLit(<<>>), StrLit(<<1>>), StrLit(<<1, 2>>)}
mcListExps == {Nil, Pair(IntVal(1), Nil), Pair(Use("x"), Pair(IntVal(3), Nil)), ListOf(<<ChrVal(1)>>)}
mcCounts == {IntVal(n) : n \in -1 .. 4} \cup {App2("-", IntVal(2), IntVal(1)), Use("x")}
mcListFolds == {App2("<>", a, b) : a, b \in mcListExps} \cup {App2(op, l, n) : op \in {"#", "tail"}, l \in mcListExps, n \in mcCounts}
               \cup {App1(op, l) : op \in {"head", "listlen"}, l \in mcListExps} \cup {App1(op, l) : op \in {"strlen", "listlen"}, l \in mcStrings}
               \cup {App2(op, a, b) : op \in {"++", "=="}, a, b \in mcStrings} \cup {App2("=!=", Pair(a, Nil), Pair(b, Nil)) : a, b \in mcStrings \cup mcListExps}
mcFoldable ==
  mcSums \cup mcTests \cup mcListFolds \cup mcJunctions
  \cup {App2(op, t, j) : op \in {"and", "or"}, t \in mcTruths, j \in mcJunctions} \cup {App1("not", j) : j \in mcJunctions}
  \cup {App2(op, App2(other, a, b), c) : op \in {"*", "-"}, other \in {"+", "/"}, a, b, c \in mcAtoms}
  \cup {App1(op, App2("tail", l, n)) : op \in {"head", "listlen"}, l \in mcListExps, n \in mcCounts}
  \cup {Pair(e, TplVal(<<e, ConsVal(SymVal(<<1>>), <<e>>)>>)) : e \in mcSums}
  \cup {ValofExp(Debugged(Valis(e))) : e \in mcSums} \cup {Kept(e) : e \in mcSums}
Ask1(ops, as) == {[op |-> op, args |-> <<a>>, env |-> <<>>] : op \in ops, a \in as}
Ask2(ops, as, bs) == {[op |-> op, args |-> <<a, b>>, env |-> <<>>] : op \in ops, a \in as, b \in bs}

mcRequests ==
  Ask1({"sort", "setof"}, mcLists)
  \cup Ask1({"fold"}, mcFoldable)
  \cup Ask1({"listlen", "head"}, mcShort \cup {Pair(IntVal(1), IntVal(2)), IntVal(3)})
  \cup Ask2({"front", "back", "tail", "nth"}, mcShort, {IntVal(n) : n \in -1 .. 4})
  \cup Ask2({"<>"}, mcShort, mcShort)
  \cup Ask2({"iota"}, mcSmall, mcSmall)
  \cup UNION {Ask2({"compare"}, kind, kind) : kind \in mcOfOneKind \cup {mcNear}}
  \cup Ask1({"abs", "bnot", "trunc", "floor", "ceil", "modf"}, mcNumbers \cup {Nil})
  \cup Ask1({"number"}, mcTexts \cup mcNumbers \cup {Nil})
  \cup Ask2({"+", "-", "*", "/", "quot", "rem", ".+", ".-", ".*", "./"}, mcNumbers, mcNumbers \cup {SymVal(<<1>>)})
  \cup Ask2({"plus", "minus"}, mcNumbers, mcNumbers)
  \cup Ask2({"times", "divide"}, mcNumbers \cup mcBig, mcNumbers \cup mcBig \cup {Nil})
  \cup Ask2({"incr"}, mcNumbers \cup {Nil}, mcSmall)
  \cup Ask2({"band", "bor", "bxor", "bleft", "bright"}, {IntVal(n) : n \in {-128, -7, 0, 5, 100}}, mcSmall)
  \cup Ask2({"coerce"}, mcTypes, mcCoerced)
  \cup Ask2({"coerce_args"}, {TplVal(<<NumberTp, SymbolTp>>), TplVal(<<NumberTp>>), NumberTp},
            {ListOf(els) : els \in [1 .. 2 -> {AllocateString(<<1>>), SymVal(<<2>>), AllocateString(<<12>>)}]} \cup {Nil})
  \cup {[op |-> "send", args |-> <<v>>, env |-> mcEnv] : v \in mcTrees}

(* Type variable 1 stands for itself, 2 is quantified.                     *)
tyVar(v) == <<"var", v>>
tyAll(v, t) == ConsVal(AllQ, <<tyVar(v), t>>)
mcPatterns ==
  {TplVal(<<tyVar(1), ListTp(tyVar(1))>>), TplVal(<<NumberTp, ListTp(SymbolTp)>>),
   tyAll(2, Fun(tyVar(2), tyVar(1))), tyAll(2, Fun(tyVar(2), NumberTp))}

CONSTANTS r1, r2

mcSymmetry == Permutations({r1, r2})

AtRest == /\ val = <<>>
          /\ regs = [c \in Registers |-> NumberTp]
          /\ resets = <<>>
          /\ matched = NoMatch
          /\ restored = <<>>

Init == EscapesInit /\ IF asked = Nothing THEN TypesInit ELSE AtRest

Next == \/ Perform /\ UNCHANGED typeVars
        \/ asked = Nothing /\ TypesNext /\ UNCHANGED escapeVars

Spec == Init /\ [][Next]_<<escapeVars, typeVars>>
=============================================================================
