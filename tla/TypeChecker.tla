----------------------------- MODULE TypeChecker -----------------------------
(***************************************************************************)
(* The types of expressions, patterns, tests, statements and theta           *)
(* expressions (Compiler/chkexp.c, chkptn.c, chkstmt.c, chktheta.c), over the  *)
(* syntax of Language.tla.  A checker answers the type found, the state of the *)
(* variables, the environment it leaves and, of a statement, whether it holds  *)
(* a valis or an elemis.                                                     *)
(***************************************************************************)
EXTENDS Unify, Dependencies

NumberTp == Tp("number")
SymbolTp == Tp("symbol")
LogicalTp == Tp("logical")
ErrorTp == Tp("error")

Of(t, s, env) == [t |-> t, s |-> s, env |-> env, found |-> FALSE]
Unknown(s, env) == Of(Tv(s.next), NewTypeVar(s), env)
Extend(env, x, t) == <<Entry(x, t)>> \o env
With(o, env) == [o EXCEPT !.env = env]

RECURSIVE Checks(_, _, _)     \* what to check, environment, type variables
whichType(e, env, s) == Checks(<<"expression", e>>, env, s)
ptnType(p, islhs, env, s) == Checks(<<"pattern", p, islhs>>, env, s)
testType(t, islhs, env, s) == Checks(<<"test", t, islhs>>, env, s)
stmtType(st, env, s) == Checks(<<"statement", st>>, env, s)
stmtSeqType(sts, env, s) == Checks(<<"sequence", sts>>, env, s)
switchType(alts, etype, env, s) == Checks(<<"switch", alts, etype>>, env, s)
switchStmt(alts, etype, env, s) == Checks(<<"cases", alts, etype>>, env, s)

\* The types of what check answers of each, from the first to the last.
Each(xs, env, s, check(_, _, _)) ==
  FoldLeft(LAMBDA o, x : LET p == check(x, o.env, o.s) IN [p EXCEPT !.t = Append(o.t, p.t)],
           Of(<<>>, s, env), xs)
EachPtn(ps, islhs, env, s) ==
  Each(ps, env, s, LAMBDA p, n, u : ptnType(p, islhs, n, u))

\* Two of them must have the same type; the answer is of type t.
Same(o, t1, t2, t) == [o EXCEPT !.t = t, !.s = Agree(t1, t2, o.s)]

(***************************************************************************)
(* Expressions.                                                             *)
(***************************************************************************)
Literals == [int |-> NumberTp, sym |-> SymbolTp]

\* A name: an enumerated symbol, or what has the type of its declaration, which
\* is not renewed here.
FoundAs(x, f, env, s) ==
  LET c == Body(f.t, f.s) IN
  IF ~isConstructorType(f.t, f.s) THEN Of(CellOf(pickupType(x, env), s), f.s, env)
  ELSE IF deRef(c[3][1], f.s) = Tp(x) THEN Of(c[3][2], f.s, env)
  ELSE Unknown(Bad(f.s), env)
TypeOfName(x, env, s) ==
  IF Found(x, env) THEN FoundAs(x, freshType(pickupType(x, env), s), env, s) ELSE Unknown(Bad(s), env)

TypeOfPair(e, env, s) ==
  LET h == whichType(e[2], env, s)
      t == whichType(e[3], h.env, h.s)
      el == elementType(t.t, t.s)
  IN Same([t EXCEPT !.s = el.s], h.t, el.t, t.t)

TypeOfTuple(es, env, s) ==
  LET o == Each(es, env, s, whichType) IN [o EXCEPT !.t = TupleTp(@)]

\* Applied to its arguments a constructor is not cleared when they differ.
TypeOfConstruct(fn, args, env, s) ==
  LET f == freshType(pickupType(fn, env), s)
      c == Body(f.t, f.s)
      o == TypeOfTuple(args, env, f.s)
      u == unifyType(o.t, c[3][1], FALSE, o.s)
  IN [o EXCEPT !.t = c[3][2], !.s = IF u.ok THEN u.s ELSE Bad(u.s)]

\* The function's type, new, and the arguments' must agree.
Applied(ft, o) ==
  LET lhs == Tv(o.s.next)
      rhs == Tv(o.s.next + 1)
      u == checkType(ft, FunTp(lhs, rhs), NewTypeVar(NewTypeVar(o.s)))
      result(v) == IF u.ok /\ v.ok THEN Of(rhs, v.s, o.env) ELSE Unknown(Bad(v.s), o.env)
  IN result(checkType(o.t, lhs, u.s))
Arguments(ft, args, env) == Applied(ft.t, TypeOfTuple(args, env, ft.s))
TypeOfCall(fn, args, env, s) ==
  LET renewed(f) == freshType(f.t, f.s) IN Arguments(renewed(TypeOfName(fn, env, s)), args, env)

TypeOfApplication(fn, args, env, s) ==
  IF IsConstructor(fn, env, s) THEN TypeOfConstruct(fn, args, env, s)
  ELSE TypeOfCall(fn, args, env, s)

\* The variables of the test stay in the environment after the conditional.
TypeOfIf(e, env, s) ==
  LET t == testType(e[2], FALSE, env, s)
      a == whichType(e[3], t.env, t.s)
      b == whichType(e[4], env, NewTypeVar(a.s))
  IN Same(With(b, a.env), a.t, b.t, b.t)

TypeOfValof(e, env, s) ==
  LET o == stmtSeqType(<<e[2]>>, env, s) IN
  IF o.found THEN Of(o.t, o.s, env) ELSE Unknown(o.s, env)

TypeOfCollect(e, env, s) ==
  LET o == stmtSeqType(<<e[2]>>, env, s) IN
  IF o.found THEN Of(ListTp(o.t), o.s, env)
  ELSE Of(ListTp(Tv(o.s.next)), Bad(NewTypeVar(o.s)), env)

TypeOfCase(e, env, s) ==
  LET o == whichType(e[2], env, s) IN With(switchType(e[3], o.t, o.env, o.s), o.env)

TypeOfCatch(e, env, s) ==
  LET o == whichType(e[2], env, s)
      x == switchType(e[3], ErrorTp, o.env, o.s)
  IN Same(With(x, o.env), o.t, x.t, o.t)

\* A function: one equation, or one and the others.
RECURSIVE TypeOfEquations(_, _, _)
TypeOfEquation(eqn, env, s) ==
  LET p == ptnType(eqn[1], TRUE, env, s)
      r == whichType(eqn[2], p.env, p.s)
  IN Of(FunTp(p.t, r.t), r.s, env)
TypeOfEquations(eqns, env, s) ==
  LET a == TypeOfEquation(eqns[1], env, s)
      b == TypeOfEquations(Tail(eqns), env, a.s)
  IN IF Len(eqns) = 1 THEN a ELSE Same(b, a.t, b.t, b.t)

\* The alternatives of a case or of a handler.
TypeOfClause(alt, etype, env, s) ==
  LET p == ptnType(alt[1], TRUE, env, s)
  IN With(whichType(alt[2], p.env, Agree(p.t, etype, p.s)), env)
\* A slip: what the first alternative yields is not compared with the others.
SwitchApart(alts, etype, env, s) ==
  LET a == TypeOfClause(alts[1], etype, env, s) IN
  IF Len(alts) = 1 THEN a ELSE switchType(Tail(alts), etype, env, a.s)
TypeOfSwitch(alts, etype, env, s) ==
  LET others(a) == LET b == switchType(Tail(alts), etype, env, a.s) IN
                   IF Len(alts) = 1 THEN a ELSE Same(b, a.t, b.t, b.t)
  IN others(TypeOfClause(alts[1], etype, env, s))

(***************************************************************************)
(* Theta expressions: a definition is <<"def" or "field", name, expression>>. *)
(***************************************************************************)
\* What the search for dependencies looks at.
RECURSIVE Shape(_)
Parts(es) == <<"parts", [k \in DOMAIN es |-> Shape(es[k])]>>
Clauses(alts) == <<"parts", [k \in DOMAIN alts |-> Parts(alts[k])]>>
Declared(sts) == {st[2] : st \in {sts[k] : k \in {j \in DOMAIN sts : sts[j][1] \in {"let", "var"}}}}
Shape(e) ==
  CASE e[1] = "var" -> <<"ref", e[2]>>
    [] e[1] = "call" -> <<"app", <<<<"ref", e[2]>>>> \o [k \in DOMAIN e[3] |-> Shape(e[3][k])]>>
    [] e[1] \in {"cons", "add", "sub", "mul", "append", "match", "nomatch", "same", "differ", "in",
                 "and", "or", "guard", "when", "while"} -> Parts(<<e[2], e[3]>>)
    [] e[1] \in {"if", "for"} -> Parts(<<e[2], e[3], e[4]>>)
    [] e[1] \in {"neg", "not", "test", "raise", "valof", "collect", "bang", "elemis", "valis"} ->
         Parts(<<e[2]>>)
    [] e[1] = "tpl" -> Parts(e[2])
    [] e[1] = "con" -> Parts(e[3])
    [] e[1] \in {"catch", "case", "try"} -> <<"parts", <<Shape(e[2]), Clauses(e[3])>>>>
    [] e[1] = "fn" -> Clauses(e[2])
    [] e[1] = "seq" -> <<"scope", Declared(e[2]), [k \in DOMAIN e[2] |-> Shape(e[2][k])]>>
    [] e[1] \in {"let", "var", "label"} -> Shape(e[3])
    [] e[1] = "assign" -> Parts(<<<<"var", e[2]>>, e[3]>>)
    [] e[1] = "assignall" -> Parts(<<e[2], e[3]>>)
    [] e[1] = "theta" -> <<"parts", <<<<"scope", {e[2][k][2] : k \in DOMAIN e[2]},
                                       [k \in DOMAIN e[2] |-> Shape(e[2][k][3])]>>, Shape(e[3])>>>>
    [] OTHER -> <<"parts", <<>>>>

\* Every definition gets a new type variable, which is the type of its name.
thDepend(defs, env, s) ==
  [env |-> FoldLeft(LAMBDA n, k : Extend(n, defs[k][2], Tv(s.next + k - 1)), env,
                    [k \in DOMAIN defs |-> k]),
   s |-> [s EXCEPT !.next = @ + Len(defs)]]
collectRW(defs, env, nenv) ==
  FoldLeft(LAMBDA n, d : IF d[1] = "field" THEN Extend(n, d[2], pickupType(d[2], nenv)) ELSE n,
           env, defs)

\* One definition, and then all of a group are generalised.
etaType(d, nenv, s) ==
  LET o == whichType(d[3], nenv, s)
      name == pickupType(d[2], nenv)
  IN Agree(IF d[1] = "def" THEN name ELSE o.t, IF d[1] = "def" THEN o.t ELSE name, o.s)
CheckGroup(group, defs, nenv, oenv, s) ==
  LET members == [k \in DOMAIN group |-> defs[CHOOSE j \in DOMAIN defs : defs[j][2] = group[k]]]
      checked == FoldLeft(LAMBDA u, d : etaType(d, nenv, u), s, members)
  IN FoldLeft(LAMBDA u, d : generalize(pickupType(d[2], nenv), oenv, u), checked, members)

\* The groups in turn, and the record of the types their names end up with.
FieldsOf(defs, nenv, env, s) ==
  LET fields == [k \in DOMAIN defs |-> QueryTp(CellOf(pickupType(defs[k][2], nenv), s), defs[k][2])]
  IN Of(IF Len(fields) = 1 THEN fields[1] ELSE TupleTp(fields), s, env)
CheckGroups(groups, defs, nenv, oenv, s) ==
  FoldLeft(LAMBDA u, g : CheckGroup(g, defs, nenv, oenv, u), s, groups)
thetaType(defs, env, s) ==
  LET th == thDepend(defs, env, s)
      groups == analyseDependencies([k \in DOMAIN defs |-> [name |-> defs[k][2], body |-> Shape(defs[k][3])]])
  IN FieldsOf(defs, th.env, env, CheckGroups(groups, defs, th.env, collectRW(defs, env, th.env), th.s))

\* The fields of a record, as names.
extendRecordEnv(type, env, s) ==
  LET t == deRef(type, s) IN
  CASE t[1] = "tuple" ->
         FoldLeft(LAMBDA n, q : LET f == deRef(q, s) IN
                                IF IsQuery(f) THEN Extend(n, f[3][2][2], f[3][1]) ELSE n, env, t[2])
    [] IsQuery(t) -> Extend(env, t[3][2][2], t[3][1])

TypeOfDot(e, env, s) ==
  LET under(th) == With(whichType(e[3], extendRecordEnv(th.t, env, th.s), th.s), env)
  IN under(thetaType(e[2], env, s))

TypeOfExp(e, env, s) ==
  CASE e[1] \in DOMAIN Literals -> Of(Literals[e[1]], s, env)
    [] e[1] = "nil" -> Of(ListTp(Tv(s.next)), NewTypeVar(s), env)
    [] e[1] \in {"var", "enum"} -> TypeOfName(e[2], env, s)
    [] e[1] = "cons" -> TypeOfPair(e, env, s)
    [] e[1] \in {"add", "sub", "mul"} -> TypeOfApplication(e[1], <<e[2], e[3]>>, env, s)
    [] e[1] = "neg" -> LET o == whichType(e[2], env, s) IN Same(o, o.t, NumberTp, NumberTp)
    [] e[1] = "tpl" -> TypeOfTuple(e[2], env, s)
    [] e[1] \in {"call", "con"} -> TypeOfApplication(e[2], e[3], env, s)
    [] e[1] = "if" -> TypeOfIf(e, env, s)
    [] e[1] = "test" -> [testType(e[2], FALSE, env, s) EXCEPT !.t = LogicalTp]
    [] e[1] = "raise" -> LET o == whichType(e[2], env, NewTypeVar(s)) IN [o EXCEPT !.t = Tv(s.next)]
    [] e[1] = "catch" -> TypeOfCatch(e, env, s)
    [] e[1] = "case" -> TypeOfCase(e, env, s)
    [] e[1] = "valof" -> TypeOfValof(e, env, s)
    [] e[1] = "collect" -> TypeOfCollect(e, env, s)
    [] e[1] = "fn" -> TypeOfEquations(e[2], env, s)
    [] e[1] = "theta" -> TypeOfDot(e, env, s)

(***************************************************************************)
(* Tests.  What a test binds stays in the environment, except under or and    *)
(* not.                                                                      *)
(***************************************************************************)
PatternAnd(t, islhs, env, s) ==
  LET p == ptnType(t[2], islhs, env, s)
      e == whichType(t[3], p.env, p.s)
  IN [p |-> p.t, e |-> e]
Operands(t, env, s) ==
  LET a == whichType(t[2], env, s)
      b == whichType(t[3], a.env, a.s)
  IN Same(b, a.t, b.t, LogicalTp)

TypeOfTest(t, islhs, env, s) ==
  LET m == PatternAnd(t, islhs, env, s)
      a == testType(t[2], islhs, env, s)
      b(n) == testType(t[3], islhs, n, a.s)
      o == whichType(t, env, s)
  IN CASE t[1] \in {"true", "false"} -> Of(LogicalTp, s, env)
       [] t[1] = "match" -> Same(m.e, m.p, m.e.t, LogicalTp)
       [] t[1] = "nomatch" -> m.e
       [] t[1] = "in" -> Same(m.e, ListTp(m.p), m.e.t, LogicalTp)
       [] t[1] \in {"same", "differ"} -> Operands(t, env, s)
       [] t[1] = "and" -> b(a.env)
       [] t[1] = "or" -> With(b(env), env)
       [] t[1] = "not" -> With(a, env)
       [] OTHER -> Same(o, o.t, LogicalTp, LogicalTp)

(***************************************************************************)
(* Patterns.  On the left of an equation or an alternative (islhs) a name is a *)
(* new variable unless it is a constructor; elsewhere it is new if it has no   *)
(* type.                                                                     *)
(***************************************************************************)
PtnOfName(x, islhs, env, s) ==
  LET f == freshType(pickupType(x, env), s)
      new == ~Found(x, env) \/ (islhs /\ ~IsEnumeration(x, env, s) /\ ~IsConstructor(x, env, s))
  IN IF new THEN Of(Tv(s.next), NewTypeVar(s), Extend(env, x, Tv(s.next)))
     ELSE TypeOfName(x, env, s)

PtnOfPair(p, islhs, env, s) ==
  LET h == ptnType(p[2], islhs, env, s)
      t == ptnType(p[3], islhs, h.env, h.s)
      el == elementType(t.t, t.s)
  IN Same([t EXCEPT !.s = el.s], h.t, el.t, t.t)

\* The two parts of an append must be the same type of list.
PtnOfAppend(p, islhs, env, s) ==
  LET a == ptnType(p[2], islhs, env, s)
      b == ptnType(p[3], islhs, a.env, a.s)
      u == checkType(a.t, ListTp(Tv(b.s.next)), NewTypeVar(b.s))
  IN IF u.ok THEN Same([b EXCEPT !.s = u.s], a.t, b.t, a.t) ELSE Unknown(Bad(u.s), b.env)

PtnOfConstruct(p, islhs, env, s) ==
  LET c == Body(freshType(pickupType(p[2], env), s).t, s)
      o == EachPtn(p[3], islhs, env, freshType(pickupType(p[2], env), s).s)
      u == unifyType(c[3][1], TupleTp(o.t), FALSE, o.s)
  IN IF ~IsConstructor(p[2], env, s) THEN Unknown(Bad(s), env)
     ELSE IF u.ok THEN Of(c[3][2], u.s, o.env) ELSE Unknown(Bad(u.s), o.env)

TypeOfPtn(p, islhs, env, s) ==
  CASE p[1] \in DOMAIN Literals -> Of(Literals[p[1]], s, env)
    [] p[1] = "any" -> Unknown(s, env)
    [] p[1] \in {"var", "enum"} -> PtnOfName(p[2], islhs, env, s)
    [] p[1] = "nil" -> Of(ListTp(Tv(s.next)), NewTypeVar(s), env)
    [] p[1] = "cons" -> PtnOfPair(p, islhs, env, s)
    [] p[1] = "append" -> PtnOfAppend(p, islhs, env, s)
    [] p[1] = "guard" -> LET o == ptnType(p[2], islhs, env, s) IN
                         [testType(p[3], islhs, o.env, o.s) EXCEPT !.t = o.t]
    [] p[1] = "bang" -> whichType(p[2], env, s)
    [] p[1] = "con" -> PtnOfConstruct(p, islhs, env, s)
    [] p[1] = "tpl" -> LET o == EachPtn(p[2], islhs, env, s) IN [o EXCEPT !.t = TupleTp(@)]

(***************************************************************************)
(* Statements.                                                              *)
(***************************************************************************)
NoValis(s, env) == Of(LogicalTp, s, env)
Valis(o) == [o EXCEPT !.found = TRUE]

\* What two statements yield must have the same type.
Merged(a, b) ==
  IF a.found /\ b.found THEN Same(b, a.t, b.t, b.t)
  ELSE IF a.found THEN [b EXCEPT !.t = a.t, !.found = TRUE] ELSE b

\* A declaration is not generalised.
StmtDeclares(st, env, s) ==
  LET o == whichType(st[3], env, s) IN NoValis(o.s, Extend(o.env, st[2], o.t))

\* The type of the variable is renewed before it is compared.
StmtAssigns(st, env, s) ==
  LET o == whichType(st[3], env, s)
      f == freshType(pickupType(st[2], o.env), o.s)
  IN NoValis(IF Found(st[2], o.env) THEN Agree(f.t, o.t, f.s) ELSE o.s, o.env)

StmtMatches(st, env, s) ==
  LET m == PatternAnd(st, FALSE, env, s) IN NoValis(Agree(m.p, m.e.t, m.e.s), m.e.env)

StmtIf(st, env, s) ==
  LET t == testType(st[2], FALSE, env, s)
      a == stmtSeqType(<<st[3]>>, t.env, t.s)
      b == stmtSeqType(<<st[4]>>, env, a.s)
  IN Merged(a, b)

\* The body of a when, for or while statement, in the scope of its test.
StmtUnder(test, body, env, s) ==
  LET t == testType(test, FALSE, env, s) IN With(stmtSeqType(<<body>>, t.env, t.s), env)

\* That the handlers yield something of another type is not reported.
StmtTries(st, env, s) ==
  LET a == stmtSeqType(<<st[2]>>, env, s)
      b == switchStmt(st[3], ErrorTp, env, a.s)
      u == checkType(a.t, b.t, b.s)
  IN IF a.found /\ b.found THEN [a EXCEPT !.s = u.s]
     ELSE [b EXCEPT !.t = IF b.found THEN b.t ELSE a.t, !.found = a.found \/ b.found]

TypeOfStmt(st, env, s) ==
  CASE st[1] = "seq" -> IF st[2] = <<>> THEN NoValis(s, env) ELSE With(stmtSeqType(st[2], env, s), env)
    [] st[1] = "label" -> stmtType(st[3], env, s)
    [] st[1] = "if" -> StmtIf(st, env, s)
    [] st[1] \in {"when", "while"} -> StmtUnder(st[2], st[3], env, s)
    [] st[1] = "for" -> StmtUnder(<<"in", st[2], st[3]>>, st[4], env, s)
    [] st[1] = "try" -> StmtTries(st, env, s)
    [] st[1] \in {"let", "var"} -> StmtDeclares(st, env, s)
    [] st[1] = "assign" -> StmtAssigns(st, env, s)
    [] st[1] \in {"match", "assignall"} -> StmtMatches(st, env, s)
    [] st[1] \in {"valis", "elemis"} -> Valis(whichType(st[2], env, s))
    [] st[1] = "raise" -> LET o == whichType(st[2], env, s) IN NoValis(o.s, o.env)
    [] st[1] = "case" -> LET o == whichType(st[2], env, s) IN
                         With(switchStmt(st[3], o.t, o.env, o.s), o.env)
    [] st[1] \in {"leave", "skip"} -> NoValis(s, env)

\* A sequence is a scope.
TypeOfSequence(sts, env, s) ==
  LET a == stmtType(sts[1], env, s)
      b == stmtSeqType(Tail(sts), a.env, NewTypeVar(a.s))
  IN With(IF Len(sts) = 1 THEN a ELSE Merged(a, b), env)

TypeOfCases(alts, etype, env, s) ==
  LET p == ptnType(alts[1][1], TRUE, env, s)
      r == stmtSeqType(<<alts[1][2]>>, p.env, p.s)
      a == With([r EXCEPT !.s = Agree(p.t, etype, r.s)], env)
      b == switchStmt(Tail(alts), etype, env, NewTypeVar(a.s))
  IN IF Len(alts) = 1 THEN a ELSE Merged(a, b)

Checks(d, env, s) ==
  CASE d[1] = "expression" -> TypeOfExp(d[2], env, s)
    [] d[1] = "pattern" -> TypeOfPtn(d[2], d[3], env, s)
    [] d[1] = "test" -> TypeOfTest(d[2], d[3], env, s)
    [] d[1] = "theta" -> thetaType(d[2], env, s)
    [] d[1] = "statement" -> TypeOfStmt(d[2], env, s)
    [] d[1] = "sequence" -> TypeOfSequence(d[2], env, s)
    [] d[1] = "switch" -> TypeOfSwitch(d[2], d[3], env, s)
    [] d[1] = "cases" -> TypeOfCases(d[2], d[3], env, s)

\* decExtCons: a constructor, or with no arguments an enumerated symbol, of a
\* type that is generalised over all its variables.
decExtCons(con, args, t, env) ==
  Extend(env, con, generalizeTypeExp(ConstrTp(IF args = <<>> THEN Tp(con) ELSE TupleTp(args), t), <<>>,
                                     NoTypes))
=============================================================================
