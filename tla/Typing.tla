-------------------------------- MODULE Typing --------------------------------
(***************************************************************************)
(* The type checker at work: types unified one pair after the other,          *)
(* definitions put into groups, theta expressions typed in every order of     *)
(* their definitions, and programs that are typed and then evaluated if they  *)
(* are accepted (Compiler/unify.c, generalize.c, depends.c, chk*.c).          *)
(***************************************************************************)
EXTENDS TypeChecker, Language

CONSTANT Jobs      \* what there is to do, by kind, in groups
VARIABLES job, stage, answer
vars == <<job, stage, answer>>

Nothing == <<"nothing">>
NoValues == [x \in {} |-> NilCell]

\* The environment of every program: operators, errors, and a type with a
\* variable.
Opt(t) == Struct("opt", <<t>>)
StandardTypes ==
  LET number2 == FunTp(TupleTp(<<NumberTp, NumberTp>>), NumberTp)
      operators == [k \in 1..3 |-> Entry(<<"add", "sub", "mul">>[k], number2)]
  IN decExtCons("true", <<>>, LogicalTp, decExtCons("false", <<>>, LogicalTp,
     decExtCons("error", <<SymbolTp, SymbolTp>>, ErrorTp,
     decExtCons("none", <<>>, Opt(Tv(1)), decExtCons("some", <<Tv(1)>>, Opt(Tv(1)), operators)))))
Start == [NoTypes EXCEPT !.next = 2]

Init == (\E kind \in Jobs : \E group \in kind : job \in group) /\ stage = "new" /\ answer = Nothing

Ready(kind) == stage = "new" /\ job[1] = kind
Answered(a) == stage' = "answered" /\ answer' = a /\ UNCHANGED job

\* One pair of types after the other, of the variables 1 to job[3]; those that
\* do not unify are refused.
UnifyPairs ==
  /\ Ready("unify")
  /\ LET step(a, p) == LET u == checkType(p[1], p[2], a.s) IN [s |-> u.s, oks |-> Append(a.oks, u.ok)]
         first == [s |-> [NoTypes EXCEPT !.next = job[3] + 1], oks |-> <<>>]
     IN Answered(FoldLeft(step, first, job[2]))

GroupDefinitions == Ready("groups") /\ Answered(analyseDependencies(job[2]))

\* The types of the names of a theta expression, its definitions in one order
\* and in another.
NamesTypes(th, names) ==
  [ok |-> th.s.ok,
   types |-> [x \in names |-> Resolved(pickupType(x, extendRecordEnv(th.t, <<>>, th.s)), th.s)]]
TypeThetas ==
  /\ Ready("theta")
  /\ LET typed(defs) == NamesTypes(Checks(<<"theta", defs>>, StandardTypes, Start),
                                   {defs[k][2] : k \in DOMAIN defs})
     IN Answered([one |-> typed(job[2]),
                  others |-> {typed([k \in DOMAIN job[2] |-> job[2][p[k]]]) :
                                p \in Permutations(DOMAIN job[2])}])

\* A program is typed, and evaluated if it is accepted.
\* compile: the type of a function is generalised.
Typed(o) ==
  LET t == IF isFunType(o.t, o.s) THEN generalizeTypeExp(o.t, StandardTypes, o.s) ELSE o.t
  IN [ok |-> o.s.ok, type |-> Resolved(t, o.s), outcome |-> [k |-> "none", v |-> Nothing]]
TypeProgram == Ready("program") /\ Answered(Typed(whichType(job[2], StandardTypes, Start)))
Outcome(o) == [k |-> o.k, v |-> o.v]
RunProgram ==
  /\ stage = "answered" /\ job[1] = "program" /\ answer.ok
  /\ answer' = [answer EXCEPT !.outcome = Outcome(Eval(job[2], NoValues, <<>>))]
  /\ stage' = "ran"
  /\ UNCHANGED job

Next == UnifyPairs \/ GroupDefinitions \/ TypeThetas \/ TypeProgram \/ RunProgram
Spec == Init /\ [][Next]_vars

(***************************************************************************)
(* Properties.                                                              *)
(***************************************************************************)
RECURSIVE WellFormed(_)
WellFormed(t) ==
  CASE t[1] = "tuple" -> \A k \in DOMAIN t[2] : WellFormed(t[2][k])
    [] t[1] = "cons" ->
         /\ Len(t[3]) = [x \in {"[]", "opt", "#=>", "all"} |-> IF x \in {"[]", "opt"} THEN 1 ELSE 2][t[2]]
         /\ t[2] = "#=>" => t[3][1][1] = "tuple"
         /\ t[2] = "all" => IsTypeVar(t[3][1])
         /\ \A k \in DOMAIN t[3] : WellFormed(t[3][k])
    [] OTHER -> IsTypeVar(t) \/ t \in {NumberTp, SymbolTp, LogicalTp, ErrorTp, Tp("void")}

\* The type of a program is a type: functions have a tuple of arguments, and
\* what is quantified is a variable. (chkexp.c, generalize.c)
TypeOK ==
  /\ job[1] \in {"unify", "groups", "theta", "program"}
  /\ stage \in {"new", "answered", "ran"}
  /\ job[1] = "program" /\ stage # "new" /\ answer.ok => WellFormed(answer.type)
  /\ stage = "ran" => job[1] = "program" /\ answer.outcome.k \in {"ok", "err"}

\* A type with values for its variables.
RECURSIVE Instance(_, _)
Instance(t, values) ==
  CASE IsTypeVar(t) -> values[t[2]]
    [] t[1] = "cons" -> Struct(t[2], [k \in DOMAIN t[3] |-> Instance(t[3][k], values)])
    [] t[1] = "tuple" -> TupleTp([k \in DOMAIN t[2] |-> Instance(t[2][k], values)])
    [] OTHER -> t
Ground ==
  LET small == {NumberTp, SymbolTp} IN
  small \cup {ListTp(t) : t \in small} \cup {ListTp(ListTp(NumberTp)), TupleTp(<<NumberTp, SymbolTp>>)}
Solves(values, pair) == Instance(pair[1], values) = Instance(pair[2], values)

\* The values of the variables that satisfy what was unified are exactly those
\* the bindings allow, and what was refused had no solution given what was
\* accepted before: nothing of a refused pair is left behind. (unify.c)
SolvesExactly ==
  stage = "answered" /\ job[1] = "unify" =>
    LET pairs == job[2]
        accepted(n) == {k \in 1..n : answer.oks[k]}
    IN \A values \in [1..job[3] -> Ground] :
         /\ (\A k \in accepted(Len(pairs)) : Solves(values, pairs[k]))
              <=> \A v \in DOMAIN answer.s.sub : values[v] = Instance(answer.s.sub[v], values)
         /\ \A k \in DOMAIN pairs \ accepted(Len(pairs)) :
              ~(Solves(values, pairs[k]) /\ \A j \in accepted(k - 1) : Solves(values, pairs[j]))

\* Definitions that refer to each other, directly or not, and no others, are in
\* one group, and the groups they refer to come first. (depends.c)
GroupsInOrder == stage = "answered" /\ job[1] = "groups" => WellGrouped(job[2], answer)

\* Types that differ only in which variables they have.
RECURSIVE VarsOf(_)
VarsOf(t) ==
  CASE IsTypeVar(t) -> <<t[2]>>
    [] t[1] \in {"cons", "tuple"} ->
         FoldLeft(LAMBDA vs, u : vs \o SelectSeq(VarsOf(u), LAMBDA v : ~Contains(vs, v)), <<>>,
                  IF t[1] = "cons" THEN t[3] ELSE t[2])
    [] OTHER -> <<>>
Renamed(t) ==
  LET vs == VarsOf(t)
      places == [v \in {vs[k] : k \in DOMAIN vs} |-> Tv(CHOOSE k \in DOMAIN vs : vs[k] = v)]
  IN Instance(t, places)
Shown(typed) == IF typed.ok THEN [x \in DOMAIN typed.types |-> Renamed(typed.types[x])] ELSE <<>>

\* The order in which definitions are written changes neither whether they are
\* accepted nor their types. (chktheta.c, depends.c, generalize.c)
OrderIrrelevant ==
  stage = "answered" /\ job[1] = "theta" =>
    \A other \in answer.others : other.ok = answer.one.ok /\ Shown(other) = Shown(answer.one)

\* A program that is accepted does not apply an operation to something it is not
\* for, and finds every name it uses. (chkexp.c, chkptn.c, chkstmt.c)
NeverWrong == stage = "ran" => answer.outcome.v # Wrong

RECURSIVE Conforms(_, _)
Conforms(v, t) ==
  CASE t = NumberTp -> IsNumber(v)
    [] t = SymbolTp -> v[1] = "sym"
    [] t = LogicalTp -> v \in {Yes, No}
    [] t = ErrorTp -> v[1] = "tuple" /\ v[2][1] = Symbol("error")
    [] IsCall(t, "[]") -> IsList(v) /\ \A k \in DOMAIN v[2] : Conforms(v[2][k], t[3][1])
    [] t[1] = "tuple" -> /\ v[1] = "tuple" /\ Len(v[2]) = Len(t[2])
                         /\ \A k \in DOMAIN v[2] : Conforms(v[2][k], t[2][k])
    [] IsCall(t, "opt") -> \/ v = Symbol("none")
                           \/ v[1] = "tuple" /\ v[2][1] = Symbol("some") /\ Conforms(v[2][2], t[3][1])
    [] IsCall(t, "#=>") -> v[1] = "fun" /\ Len(v[2][1][1][2]) = Len(t[3][1][2])
    [] IsForAll(t) -> Conforms(v, t[3][2])
    [] OTHER -> FALSE

\* The value of a program is of the type found for it; there is none of a type
\* nothing is known of. (chkexp.c, generalize.c)
ValueHasType == stage = "ran" /\ answer.outcome.k = "ok" => Conforms(answer.outcome.v, answer.type)

\* What is accepted runs without a type error, to a value of its type.
AcceptedIsSound == NeverWrong /\ ValueHasType
=============================================================================
