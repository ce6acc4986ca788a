------------------------------- MODULE Language -------------------------------
(***************************************************************************)
(* What the programs of the compiler's abstract syntax mean, independently of *)
(* how they are compiled: the value of an expression, or the exception it     *)
(* raises, in an environment of named values.  Lists are sequences.  Names    *)
(* are not declared twice, so a variable of a pattern that has a value is     *)
(* compared and any other one is given a value.                              *)
(***************************************************************************)
EXTENDS AprilCode

List(els) == <<"list", els>>
EmptyList == List(<<>>)
IsList(v) == v[1] = "list"
IsNumber(v) == v[1] = "int"
\* A function made by an expression: its equations, the values of the names of
\* its scope, and the functions that were defined with it.
Function(eqns, env, defs) == <<"fun", eqns, env, defs>>
\* The exception of an operation on something it is not for: nothing handles it.
Wrong == <<"wrong">>

\* Outcomes: ok with a value; err with an exception; of a statement also next,
\* valis with a value, and leave with a label.  els are the elements collected.
Ok(v, env) == [k |-> "ok", v |-> v, env |-> env, els |-> <<>>]
Err(v, env) == [k |-> "err", v |-> v, env |-> env, els |-> <<>>]
Nxt(env) == [k |-> "next", v |-> NilCell, env |-> env, els |-> <<>>]
Fail(code, env) == Err(Failure(code), env)
GoesWrong(env) == Err(Wrong, env)
Is(yes, env) == Ok(IF yes THEN Yes ELSE No, env)
Truth(o) == o.k = "ok" /\ o.v # No

Bind(env, x, v) == [y \in DOMAIN env \cup {x} |-> IF y = x THEN v ELSE env[y]]
\* At the end of a scope its variables go.
Leave(o, env) == [o EXCEPT !.env = [x \in DOMAIN env |-> o.env[x]]]

LitOf(e) == CASE e[1] = "int" -> Number(e[2]) [] e[1] \in {"sym", "enum"} -> Symbol(e[2]) [] e[1] = "nil" -> EmptyList
OrderHolds(op, m, n) ==
  CASE op = "eq" -> m = n [] op = "ne" -> m # n [] op = "lt" -> m < n
    [] op = "le" -> m <= n [] op = "gt" -> m > n [] op = "ge" -> m >= n

RECURSIVE Does(_, _, _)      \* what to evaluate, environment, functions
Eval(e, env, fns) == Does(<<"expression", e>>, env, fns)
Test(t, env, fns) == Does(<<"test", t>>, env, fns)
Fits(p, v, env, fns, assigning) == Does(<<"pattern", p, v, assigning>>, env, fns)
Exec(s, env, fns) == Does(<<"statement", s>>, env, fns)
Try(alts, v, env, fns, stmts) == Does(<<"alternatives", alts, v, stmts>>, env, fns)

\* From the first to the last, until one raises an exception.
EvalAll(es, env, fns) ==
  FoldLeft(LAMBDA acc, e : IF acc.k = "err" THEN acc
                           ELSE LET o == Eval(e, env, fns) IN
                                IF o.k = "err" THEN o ELSE [acc EXCEPT !.els = Append(@, o.v)],
           Ok(NilCell, env), es)

Then(o, next(_)) == IF o.k = "err" THEN o ELSE next(o.v)
Both(e, f, env, fns, next(_, _)) ==
  Then(Eval(e, env, fns), LAMBDA u : Then(Eval(f, env, fns), LAMBDA v : next(u, v)))

Collected(o, env) == IF o.k = "err" THEN o ELSE Ok(List(o.els), env)
Valof(o, env) ==
  CASE o.k = "valis" -> Ok(o.v, env) [] o.k = "err" -> o [] OTHER -> Fail("failed", env)

\* Two numbers, or it goes wrong.
Numbers2(e, f, env, fns, next(_, _)) ==
  Both(e, f, env, fns, LAMBDA m, n : IF IsNumber(m) /\ IsNumber(n) THEN Ok(Number(next(m[2], n[2])), env)
                                     ELSE GoesWrong(env))

\* The names of a theta expression: each function knows them all.
Defined(defs, env) ==
  [x \in DOMAIN env \cup {defs[k][2] : k \in DOMAIN defs} |->
     IF \E k \in DOMAIN defs : defs[k][2] = x
     THEN Function(defs[CHOOSE k \in DOMAIN defs : defs[k][2] = x][3][2], env, defs) ELSE env[x]]
Apply(f, args, env, fns) ==
  LET of(eqns, scope) == [Try(eqns, Record(args), scope, fns, FALSE) EXCEPT !.env = env]
  IN CASE f[1] = "closure" -> of(fns[f[2]][1], [x \in {} |-> NilCell])
       [] f[1] = "fun" -> IF Len(f[2][1][1][2]) = Len(args) THEN of(f[2], Defined(f[4], f[3]))
                          ELSE GoesWrong(env)
       [] OTHER -> GoesWrong(env)

Catch(o, alts, env, fns, stmts) ==
  IF o.k # "err" \/ o.v = Wrong THEN o
  ELSE LET h == Try(alts, o.v, o.env, fns, stmts) IN
       IF h.k = "none" THEN o ELSE [h EXCEPT !.els = o.els \o @]

OrFailed(o, env) == IF o.k = "none" THEN Fail("failed", env) ELSE o

ValueOf(e, env, fns) ==
  CASE e[1] \in {"int", "sym", "nil", "enum"} -> Ok(LitOf(e), env)
    [] e[1] = "var" -> IF e[2] \in DOMAIN env THEN Ok(env[e[2]], env) ELSE GoesWrong(env)
    [] e[1] = "fn" -> Ok(Function(e[2], env, <<>>), env)
    [] e[1] = "theta" -> Leave(Eval(e[3], Defined(e[2], env), fns), env)
    [] e[1] = "cons" ->
         Both(e[2], e[3], env, fns, LAMBDA h, t : IF IsList(t) THEN Ok(List(<<h>> \o t[2]), env)
                                                  ELSE GoesWrong(env))
    [] e[1] = "add" -> Numbers2(e[2], e[3], env, fns, LAMBDA m, n : m + n)
    [] e[1] = "sub" -> Numbers2(e[2], e[3], env, fns, LAMBDA m, n : m - n)
    [] e[1] = "mul" -> Numbers2(e[2], e[3], env, fns, LAMBDA m, n : m * n)
    [] e[1] = "neg" -> Then(Eval(e[2], env, fns), LAMBDA n : IF IsNumber(n) THEN Ok(Number(-n[2]), env)
                                                             ELSE GoesWrong(env))
    [] e[1] = "nth" ->
         Both(e[2], e[3], env, fns,
              LAMBDA l, n : LET i == IF n[2] < 1 THEN 1 ELSE n[2] IN
                            IF i > Len(l[2]) THEN Fail("einval", env) ELSE Ok(l[2][i], env))
    [] e[1] = "if" ->
         LET t == Test(e[2], env, fns) IN
         IF t.k = "err" THEN t ELSE Leave(Eval(IF Truth(t) THEN e[3] ELSE e[4],
                                               IF Truth(t) THEN t.env ELSE env, fns), env)
    [] e[1] = "test" -> LET t == Test(e[2], env, fns) IN
                        IF t.k = "err" THEN t ELSE Is(Truth(t), env)
    [] e[1] = "tpl" -> LET o == EvalAll(e[2], env, fns) IN
                       IF o.k = "err" THEN o ELSE Ok(Record(o.els), env)
    [] e[1] = "con" -> LET o == EvalAll(e[3], env, fns) IN
                       IF o.k = "err" THEN o ELSE Ok(Record(<<Symbol(e[2])>> \o o.els), env)
    [] e[1] = "call" -> LET o == EvalAll(e[3], env, fns) IN
                        IF o.k = "err" THEN o
                        ELSE IF e[2] \notin DOMAIN env THEN GoesWrong(env)
                        ELSE OrFailed(Apply(env[e[2]], o.els, env, fns), env)
    [] e[1] = "raise" -> Then(Eval(e[2], env, fns), LAMBDA v : Err(v, env))
    [] e[1] = "catch" -> Leave(Catch(Eval(e[2], env, fns), e[3], env, fns, FALSE), env)
    [] e[1] = "case" ->
         Then(Eval(e[2], env, fns), LAMBDA v : OrFailed(Try(e[3], v, env, fns, FALSE), env))
    [] e[1] = "valof" -> Valof(Leave(Exec(e[2], env, fns), env), env)
    [] e[1] = "collect" -> Collected(Leave(Exec(e[2], env, fns), env), env)

(***************************************************************************)
(* Tests, with the variables they bind.                                      *)
(***************************************************************************)
RECURSIVE SomeFits(_, _, _, _)
SomeFits(p, els, env, fns) ==
  IF els = <<>> THEN Is(FALSE, env)
  ELSE LET m == Fits(p, els[1], env, fns, FALSE) IN
       IF m.k = "err" \/ Truth(m) THEN m ELSE SomeFits(p, Tail(els), env, fns)

TruthOf(t, env, fns) ==
  CASE t[1] = "true" -> Is(TRUE, env)
    [] t[1] = "false" -> Is(FALSE, env)
    [] t[1] = "match" -> Then(Eval(t[3], env, fns), LAMBDA v : Fits(t[2], v, env, fns, FALSE))
    [] t[1] = "nomatch" ->
         Then(Eval(t[3], env, fns), LAMBDA v : LET m == Fits(t[2], v, env, fns, FALSE) IN
                                               IF m.k = "err" THEN m ELSE Is(~Truth(m), env))
    [] t[1] = "same" -> Both(t[2], t[3], env, fns, LAMBDA u, v : Is(u = v, env))
    [] t[1] = "differ" -> Both(t[2], t[3], env, fns, LAMBDA u, v : Is(u # v, env))
    [] t[1] = "cmp" ->
         Both(t[3], t[4], env, fns, LAMBDA m, n : Is(OrderHolds(t[2], m[2], n[2]), env))
    [] t[1] = "range" ->
         Both(t[2], t[3], env, fns,
              LAMBDA x, low : IF low[2] > x[2] THEN Is(FALSE, env)
                              ELSE Then(Eval(t[4], env, fns), LAMBDA h : Is(x[2] <= h[2], env)))
    [] t[1] = "in" ->
         Then(Eval(t[3], env, fns), LAMBDA l : IF IsList(l) THEN SomeFits(t[2], l[2], env, fns)
                                               ELSE GoesWrong(env))
    [] t[1] = "and" -> LET a == Test(t[2], env, fns) IN
                       IF Truth(a) THEN Test(t[3], a.env, fns) ELSE a
    [] t[1] = "or" -> LET a == Test(t[2], env, fns) IN
                      IF a.k = "err" \/ Truth(a) THEN a ELSE Test(t[3], env, fns)
    [] t[1] = "not" -> LET a == Test(t[2], env, fns) IN
                       IF a.k = "err" THEN a ELSE Is(~Truth(a), env)
    [] OTHER -> Then(Eval(t, env, fns), LAMBDA v : IF v \in {Yes, No} THEN Ok(v, env)
                                                    ELSE GoesWrong(env))

(***************************************************************************)
(* Patterns.  A list is split between the patterns of an append the shortest  *)
(* way that lets the rest match.                                             *)
(***************************************************************************)
RECURSIVE AllFit(_, _, _, _, _)
AllFit(ps, vs, env, fns, assigning) ==
  IF ps = <<>> THEN Is(TRUE, env)
  ELSE LET m == Fits(ps[1], vs[1], env, fns, assigning) IN
       IF Truth(m) THEN AllFit(Tail(ps), Tail(vs), m.env, fns, assigning) ELSE m

RECURSIVE Split(_, _, _, _, _, _, _)
Split(p, q, els, k, env, fns, assigning) ==
  IF k > Len(els) THEN Is(FALSE, env)
  ELSE LET m == AllFit(<<p, q>>, <<List(SubSeq(els, 1, k)), List(SubSeq(els, k + 1, Len(els)))>>,
                       env, fns, assigning) IN
       IF m.k = "err" \/ Truth(m) THEN m ELSE Split(p, q, els, k + 1, env, fns, assigning)

MatchOf(p, v, env, fns, assigning) ==
  CASE p[1] = "any" -> Is(TRUE, env)
    [] p[1] = "var" -> IF p[2] \in DOMAIN env /\ ~assigning THEN Is(env[p[2]] = v, env)
                       ELSE Is(TRUE, Bind(env, p[2], v))
    [] p[1] \in {"int", "sym", "nil", "enum"} -> Is(v = LitOf(p), env)
    [] p[1] = "cons" ->
         IF ~IsList(v) \/ v = EmptyList THEN Is(FALSE, env)
         ELSE AllFit(<<p[2], p[3]>>, <<v[2][1], List(Tail(v[2]))>>, env, fns, assigning)
    [] p[1] = "append" -> IF IsList(v) THEN Split(p[2], p[3], v[2], 0, env, fns, assigning)
                          ELSE Is(FALSE, env)
    [] p[1] = "tpl" -> IF v[1] = "tuple" /\ Len(v[2]) = Len(p[2])
                       THEN AllFit(p[2], v[2], env, fns, assigning) ELSE Is(FALSE, env)
    [] p[1] = "con" ->
         IF v[1] = "tuple" /\ Len(v[2]) = Len(p[3]) + 1 /\ v[2][1] = Symbol(p[2])
         THEN AllFit(p[3], Tail(v[2]), env, fns, assigning) ELSE Is(FALSE, env)
    [] p[1] = "bang" -> Then(Eval(p[2], env, fns), LAMBDA u : Is(u = v, env))
    [] p[1] = "guard" -> LET m == Fits(p[2], v, env, fns, assigning) IN
                         IF Truth(m) THEN Test(p[3], m.env, fns) ELSE m

\* The first alternative that fits; none when there is none.
ChoiceOf(alts, v, env, fns, stmts) ==
  IF alts = <<>> THEN [k |-> "none", v |-> v, env |-> env, els |-> <<>>]
  ELSE LET m == Fits(alts[1][1], v, env, fns, FALSE) IN
       IF m.k = "err" THEN m
       ELSE IF ~Truth(m) THEN Try(Tail(alts), v, env, fns, stmts)
       ELSE Leave(IF stmts THEN Exec(alts[1][2], m.env, fns) ELSE Eval(alts[1][2], m.env, fns), env)

(***************************************************************************)
(* Statements.                                                              *)
(***************************************************************************)
\* s after o.
After(o, s, fns) ==
  IF o.k # "next" THEN o
  ELSE LET r == Exec(s, o.env, fns) IN [r EXCEPT !.els = o.els \o @]

ForEach(p, els, s, env, fns) ==
  FoldLeft(LAMBDA o, v :
             IF o.k # "next" THEN o
             ELSE LET m == Fits(p, v, o.env, fns, FALSE) IN
                  IF m.k = "err" THEN [m EXCEPT !.els = o.els]
                  ELSE IF ~Truth(m) THEN o
                  ELSE Leave(After([o EXCEPT !.env = m.env], s, fns), env),
           Nxt(env), els)

RECURSIVE While(_, _, _, _)
While(t, s, o, fns) ==
  LET v == Test(t, o.env, fns) IN
  IF o.k # "next" THEN o
  ELSE IF v.k = "err" THEN [v EXCEPT !.els = o.els]
  ELSE IF ~Truth(v) THEN o
  ELSE While(t, s, Leave(After([o EXCEPT !.env = v.env], s, fns), o.env), fns)

Declares(m, env) ==
  CASE m.k = "err" -> m [] Truth(m) -> Nxt(m.env) [] OTHER -> Fail("match_error", env)

EffectOf(s, env, fns) ==
  CASE s[1] = "skip" -> Nxt(env)
    [] s[1] = "seq" -> Leave(FoldLeft(LAMBDA o, t : After(o, t, fns), Nxt(env), s[2]), env)
    [] s[1] \in {"if", "when"} ->
         LET t == Test(s[2], env, fns) IN
         IF t.k = "err" THEN t
         ELSE IF Truth(t) THEN Leave(Exec(s[3], t.env, fns), env)
         ELSE IF s[1] = "if" THEN Leave(Exec(s[4], env, fns), env) ELSE Nxt(env)
    [] s[1] = "for" ->
         Then(Eval(s[3], env, fns), LAMBDA l : IF IsList(l) THEN ForEach(s[2], l[2], s[4], env, fns)
                                               ELSE GoesWrong(env))
    [] s[1] = "while" -> While(s[2], s[3], Nxt(env), fns)
    [] s[1] = "try" ->
         LET o == Catch(Leave(Exec(s[2], env, fns), env), s[3], env, fns, TRUE) IN o
    [] s[1] = "case" ->
         Then(Eval(s[2], env, fns), LAMBDA v : OrFailed(Try(s[3], v, env, fns, TRUE), env))
    [] s[1] = "label" -> LET o == Exec(s[3], env, fns) IN
                         IF o.k = "leave" /\ o.v = s[2] THEN [o EXCEPT !.k = "next"] ELSE o
    [] s[1] = "leave" -> [Nxt(env) EXCEPT !.k = "leave", !.v = s[2]]
    [] s[1] = "elemis" -> Then(Eval(s[2], env, fns), LAMBDA v : [Nxt(env) EXCEPT !.els = <<v>>])
    [] s[1] = "valis" -> Then(Eval(s[2], env, fns), LAMBDA v : [Nxt(env) EXCEPT !.k = "valis", !.v = v])
    [] s[1] \in {"let", "var"} -> Then(Eval(s[3], env, fns), LAMBDA v : Nxt(Bind(env, s[2], v)))
    [] s[1] = "match" ->
         Then(Eval(s[3], env, fns), LAMBDA v : Declares(Fits(s[2], v, env, fns, FALSE), env))
    [] s[1] = "assign" -> Then(Eval(s[3], env, fns), LAMBDA v : Nxt(Bind(env, s[2], v)))
    [] s[1] = "assignall" ->
         Then(Eval(s[3], env, fns), LAMBDA v : Declares(Fits(s[2], v, env, fns, TRUE), env))
    [] s[1] = "raise" -> Then(Eval(s[2], env, fns), LAMBDA v : Err(v, env))

Does(d, env, fns) ==
  CASE d[1] = "expression" -> ValueOf(d[2], env, fns)
    [] d[1] = "test" -> TruthOf(d[2], env, fns)
    [] d[1] = "pattern" -> MatchOf(d[2], d[3], env, fns, d[4])
    [] d[1] = "statement" -> EffectOf(d[2], env, fns)
    [] d[1] = "alternatives" -> ChoiceOf(d[2], d[3], env, fns, d[4])

\* What calling function 1 yields.
Meaning(fns, args) == OrFailed(Apply(Closure(1), args, [x \in {} |-> NilCell], fns),
                               [x \in {} |-> NilCell])
=============================================================================
