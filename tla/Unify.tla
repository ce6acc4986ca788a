-------------------------------- MODULE Unify --------------------------------
(***************************************************************************)
(* Type expressions and their unification, generalisation and renewal        *)
(* (Compiler/unify.c, generalize.c, types.c).  A type is a symbol, a          *)
(* constructor applied to types, a tuple of types or a type variable.  The    *)
(* cells of variables are in s.sub once they have a value, which may be       *)
(* another variable; s.next is the next variable made; s.ok turns FALSE when  *)
(* an error is reported.                                                     *)
(***************************************************************************)
EXTENDS Integers, Sequences, SequencesExt, FiniteSets, FiniteSetsExt, Functions

CONSTANT MaxQuantifiers      \* the room for the variables of a quantified type
ASSUME QuantifiersAssumption == MaxQuantifiers \in Nat \ {0}

Tv(n) == <<"var", n>>
Tp(name) == <<"sym", name>>
Struct(fn, args) == <<"cons", fn, args>>
TupleTp(ts) == <<"tuple", ts>>
ListTp(t) == Struct("[]", <<t>>)
\* A slip: arguments and result in the other order.
FunTpSwapped(args, res) == Struct("#=>", <<res, args>>)
FunTp(args, res) == Struct("#=>", <<args, res>>)
ConstrTp(args, res) == Struct("constr", <<args, res>>)
QueryTp(t, name) == Struct("?", <<t, Tp(name)>>)
AllTp(v, t) == Struct("all", <<v, t>>)

IsTypeVar(t) == t[1] = "var"
IsCall(t, fn) == t[1] = "cons" /\ t[2] = fn
IsQuery(t) == IsCall(t, "?")
IsForAll(t) == IsCall(t, "all")

NoTypes == [sub |-> <<>>, next |-> 1, ok |-> TRUE]
NewTypeVar(s) == [s EXCEPT !.next = @ + 1]      \* Tv(s.next) is the variable
Bad(s) == [s EXCEPT !.ok = FALSE]
Bound(t, s) == IsTypeVar(t) /\ t[2] \in DOMAIN s.sub
SetCell(n, t, s) == [s EXCEPT !.sub = [m \in DOMAIN @ \cup {n} |-> IF m = n THEN t ELSE @[m]]]

RECURSIVE deRef(_, _)
deRef(t, s) == IF Bound(t, s) THEN deRef(s.sub[t[2]], s) ELSE t
\* copyCell: what the cell of t holds.
CellOf(t, s) == IF Bound(t, s) THEN s.sub[t[2]] ELSE t

\* The type under the leading quantifiers.
RECURSIVE Body(_, _)
Body(t, s) == LET d == deRef(t, s) IN IF IsForAll(d) THEN Body(d[3][2], s) ELSE d
isListType(t, s) == IsCall(Body(t, s), "[]")
isFunType(t, s) == IsCall(Body(t, s), "#=>")
isConstructorType(t, s) == IsCall(Body(t, s), "constr")
Element(t, s) == Body(t, s)[3][1]

\* Whether the variable occurs in the type.  Under a quantifier it is the
\* quantified type that is looked for, so a variable is never found there
\* unless the type is a list.
RECURSIVE occInType(_, _, _)
occInType(name, value, s) ==
  LET v == deRef(value, s) IN
  CASE v = name -> TRUE
    [] v # name /\ IsQuery(v) -> occInType(name, v[3][1], s)
    [] isListType(v, s) -> occInType(name, Element(v, s), s)
    [] v[1] = "tuple" -> \E k \in DOMAIN v[2] : occInType(name, v[2][k], s)
    [] v[1] = "cons" /\ ~IsQuery(v) /\ ~IsForAll(v) /\ ~isListType(v, s) ->
         \E k \in DOMAIN v[3] : occInType(name, v[3][k], s)
    [] OTHER -> FALSE

(***************************************************************************)
(* Unification.                                                             *)
(***************************************************************************)
Yields(ok, s) == [ok |-> ok, s |-> s]

bindType(n, type, s) ==
  LET t == deRef(type, s) IN
  CASE t = Tv(n) -> Yields(TRUE, s)
    [] t # Tv(n) /\ occInType(Tv(n), t, s) -> Yields(FALSE, s)
    [] OTHER -> Yields(TRUE, SetCell(n, t, s))

RECURSIVE Quantified(_, _)
Quantified(t, s) ==
  IF IsForAll(t) THEN <<deRef(t[3][1], s)>> \o Quantified(t[3][2], s) ELSE <<>>
RECURSIVE Unquantified(_)
Unquantified(t) == IF IsForAll(t) THEN Unquantified(t[3][2]) ELSE t

\* The variables of the left type must still be variables, and each cancels the
\* first of the right type that is the same one.
CancelLeft(left, right, s) ==
  FoldLeft(LAMBDA a, i :
             LET same == {j \in DOMAIN right \ a.right : deRef(right[j], s) = deRef(left[i], s)} IN
             IF ~IsTypeVar(deRef(left[i], s)) THEN [a EXCEPT !.ok = FALSE]
             ELSE IF same = {} THEN a
             ELSE [a EXCEPT !.left = @ \cup {i}, !.right = @ \cup {Min(same)}],
           [ok |-> TRUE, left |-> {}, right |-> {}], [i \in DOMAIN left |-> i])
\* The same of the right type; what it cancels is numbered the other way round.
CancelRight(left, right, s, cancelled) ==
  FoldLeft(LAMBDA a, i :
             LET same == {j \in DOMAIN left \ a.left : deRef(left[j], s) = deRef(right[i], s)} IN
             IF i \in a.right THEN a
             ELSE IF ~IsTypeVar(deRef(right[i], s)) THEN [a EXCEPT !.ok = FALSE]
             ELSE IF same = {} THEN a
             ELSE [a EXCEPT !.left = @ \cup {i}, !.right = @ \cup {Min(same)}],
           cancelled, [i \in DOMAIN right |-> i])

RECURSIVE unifyType(_, _, _, _)
unifyEach(ts1, ts2, inForall, s) ==
  FoldLeft(LAMBDA u, k : IF u.ok THEN unifyType(ts1[k], ts2[k], inForall, u.s) ELSE u,
           Yields(TRUE, s), [k \in DOMAIN ts1 |-> k])

\* The types under the quantifiers and then the variables of both, left and right.
KeepsVariables(u, left, right, inForall) ==
  LET none == [ok |-> TRUE, left |-> {}, right |-> {}]
      kept == IF inForall THEN CancelLeft(left, right, u.s) ELSE none
  IN [u EXCEPT !.ok = @ /\ kept.ok /\ CancelRight(left, right, u.s, kept).ok]
unifyUnder(t1, t2, left, right, inForall, s) ==
  IF \/ Len(left) > MaxQuantifiers \/ Len(right) > MaxQuantifiers
     \/ inForall /\ Len(left) # Len(right)
  THEN Yields(FALSE, s)
  ELSE KeepsVariables(unifyType(t1, t2, TRUE, s), left, right, inForall)
unifyForAll(t1, t2, inForall, s) ==
  unifyUnder(Unquantified(t1), Unquantified(t2), Quantified(t1, s), Quantified(t2, s), inForall, s)

unifyType(type1, type2, inForall, s) ==
  LET t1 == deRef(type1, s)
      t2 == deRef(type2, s)
  IN CASE t1 = t2 -> Yields(TRUE, s)
       [] t1 # t2 /\ IsTypeVar(t1) -> bindType(t1[2], t2, s)
       [] t1 # t2 /\ ~IsTypeVar(t1) /\ IsTypeVar(t2) -> bindType(t2[2], t1, s)
       [] IsForAll(t1) /\ IsForAll(t2) /\ t1 # t2 -> unifyForAll(t1, t2, inForall, s)
       [] /\ t1[1] = "cons" /\ t2[1] = "cons" /\ ~IsForAll(t1) /\ t1 # t2
          /\ t1[2] = t2[2] /\ Len(t1[3]) = Len(t2[3]) -> unifyEach(t1[3], t2[3], inForall, s)
       [] t1[1] = "tuple" /\ t2[1] = "tuple" /\ t1 # t2 /\ Len(t1[2]) = Len(t2[2]) ->
            unifyEach(t1[2], t2[2], inForall, s)
       [] OTHER -> Yields(FALSE, s)

\* A slip: what was bound before the types turned out to differ stays bound.
CheckKeeping(t1, t2, s) == unifyType(t1, t2, FALSE, s)

\* checkType, sameType: if they differ, what was bound is cleared.
ClearedIfBad(u, s) == IF u.ok THEN u ELSE [u EXCEPT !.s.sub = s.sub]
checkType(t1, t2, s) == ClearedIfBad(unifyType(t1, t2, FALSE, s), s)

\* The check reports what does not agree and goes on.
Reported(u) == IF u.ok THEN u.s ELSE Bad(u.s)
Agree(t1, t2, s) == Reported(checkType(t1, t2, s))

\* The type of the elements of a list: void of what is no list.
elementType(type, s) ==
  LET t == deRef(type, s)
      l == IF IsQuery(t) THEN t[3][1] ELSE t
      b == bindType(l[2], ListTp(Tv(s.next)), NewTypeVar(s))
  IN CASE isListType(l, s) -> [t |-> Element(l, s), s |-> s]
       [] IsTypeVar(l) -> [t |-> Tv(s.next), s |-> b.s]
       [] OTHER -> [t |-> Tp("void"), s |-> s]

(***************************************************************************)
(* Generalisation.  An environment lists names and types, the newest first.   *)
(***************************************************************************)
Entry(x, t) == [name |-> x, type |-> t]

\* A slip: a variable that belongs to an enclosing scope is generalised.
FreeAnyway(v, env, s) == TRUE
freeInEnv(v, env, s) == \A k \in DOMAIN env : ~occInType(v, env[k].type, s)

\* The variables to quantify, in the order they are met.
RECURSIVE genQuants(_, _, _, _)
genEach(ts, found, outer, s) ==
  FoldLeft(LAMBDA quants, t : genQuants(t, quants, outer, s), found, ts)
genQuants(type, found, outer, s) ==
  LET t == deRef(type, s) IN
  CASE IsTypeVar(t) ->
         IF Contains(found, t) \/ ~freeInEnv(t, outer, s) THEN found ELSE Append(found, t)
    [] IsQuery(t) -> genQuants(t[3][1], found, outer, s)
    [] t[1] = "sym" -> found
    [] isListType(t, s) -> genQuants(Element(t, s), found, outer, s)
    [] IsForAll(t) /\ ~isListType(t, s) ->
         genQuants(t[3][2], found, <<Entry("quantified", t[3][1])>> \o outer, s)
    [] t[1] = "cons" /\ ~IsQuery(t) /\ ~IsForAll(t) /\ ~isListType(t, s) ->
         genEach(t[3], found, outer, s)
    [] t[1] = "tuple" -> genEach(t[2], found, outer, s)

QuantifyOver(vs, t) == FoldRight(AllTp, vs, t)
generalizeTypeExp(t, env, s) == QuantifyOver(genQuants(t, <<>>, env, s), t)

\* The cell of variable t is overwritten with its generalised type.
generalize(t, env, s) ==
  IF isFunType(t, s) \/ IsCall(deRef(t, s), "constr")
  THEN SetCell(t[2], generalizeTypeExp(CellOf(t, s), env, s), s) ELSE s

(***************************************************************************)
(* New variables for the quantified ones.                                    *)
(***************************************************************************)
RECURSIVE Leading(_, _)
Leading(type, s) ==
  LET t == deRef(type, s) IN IF IsForAll(t) THEN <<t[3][1]>> \o Leading(t[3][2], s) ELSE <<>>

\* renamed[k] is replaced by Tv(first + k - 1), the last one first.
RECURSIVE frshn(_, _, _, _)
frshn(type, renamed, first, s) ==
  LET t == deRef(type, s)
      at == {k \in DOMAIN renamed : deRef(renamed[k], s) = t}
      each(ts) == [k \in DOMAIN ts |-> frshn(ts[k], renamed, first, s)]
  IN CASE IsTypeVar(t) -> IF at = {} THEN t ELSE Tv(first + Max(at) - 1)
       [] isListType(t, s) -> ListTp(frshn(Element(t, s), renamed, first, s))
       [] t[1] = "cons" /\ ~isListType(t, s) -> Struct(t[2], each(t[3]))
       [] t[1] = "tuple" -> TupleTp(each(t[2]))
       [] t[1] = "sym" -> t

freshType(t, s) ==
  LET vs == Leading(t, s) IN
  IF vs = <<>> THEN [t |-> deRef(t, s), s |-> s]
  ELSE [t |-> frshn(Body(t, s), vs, s.next, s), s |-> [s EXCEPT !.next = @ + Len(vs)]]

(***************************************************************************)
(* Names.                                                                   *)
(***************************************************************************)
Found(x, env) == \E k \in DOMAIN env : env[k].name = x
pickupType(x, env) == env[Min({k \in DOMAIN env : env[k].name = x})].type
\* A constructor (of == "tuple") or an enumerated symbol (of == "sym"), with the
\* type it has here.
IsA(of, x, env, s) ==
  LET f == freshType(pickupType(x, env), s).t IN
  /\ Found(x, env)
  /\ isConstructorType(f, s) /\ deRef(Body(f, s)[3][1], s)[1] = of
IsConstructor(x, env, s) == IsA("tuple", x, env, s)
IsEnumeration(x, env, s) == IsA("sym", x, env, s)

\* A type with every variable that has a value replaced.
RECURSIVE Resolved(_, _)
Resolved(type, s) ==
  LET t == deRef(type, s) IN
  CASE t[1] = "cons" -> Struct(t[2], [k \in DOMAIN t[3] |-> Resolved(t[3][k], s)])
    [] t[1] = "tuple" -> TupleTp([k \in DOMAIN t[2] |-> Resolved(t[2][k], s)])
    [] OTHER -> t
=============================================================================
