------------------------------ MODULE Folding -------------------------------
(***************************************************************************)
(* Constant folding (foldexp.c): the compiler replaces the parts of an     *)
(* expression that it can compute by their values, before it generates     *)
(* code.  A number, a character, a symbol and a list are written as the    *)
(* values of Values, with expressions for elements; a string literal is    *)
(* <<"str", text>>, a variable <<"use", x>>, the application of a function *)
(* or an operator <<"app", name, arguments>>, a valof <<"valof", body>>    *)
(* and an expression folding passes by <<"kept", expression>>.             *)
(***************************************************************************)
EXTENDS Numbers

StrLit(text) == <<"str", text>>
Use(x) == <<"use", x>>
App(fn, args) == <<"app", fn, args>>
App1(fn, a) == App(fn, <<a>>)
App2(fn, a, b) == App(fn, <<a, b>>)
ValofExp(body) == <<"valof", body>>
Kept(e) == <<"kept", e>>
Valis(e) == <<"valis", e>>
Debugged(st) == <<"debug", st>>

(* A truth value as the type checker leaves it in the source, and as some  *)
(* folds answer it.  Others answer the bare symbol, Truth.                 *)
EnumStruct(b) == ConsVal(<<"sys", ":E:">>, <<Truth(b)>>)
IsTruth(e, b) == e \in {Truth(b), EnumStruct(b)}

IsNGrnd(e) == IsNumber(e)
IsIGrnd(e) == IsInteger(e)
IsStGrnd(e) == Is(e, "str")
IsLstGrnd(e) == IsList(e) /\ Is(LastTail(e), "nil")

RECURSIVE IsGrnd(_)
IsGrnd(e) ==
  \/ e[1] \in {"int", "flt", "chr", "str", "nil", "sym", "sys"}
  \/ Is(e, "pair") /\ IsGrnd(e[2]) /\ IsGrnd(e[3])
  \/ Is(e, "tpl") /\ \A k \in DOMAIN e[2] : IsGrnd(e[2][k])
  \/ Is(e, "cons") /\ \A k \in DOMAIN e[3] : IsGrnd(e[3][k])

(* sameCell: two ground terms, an integer and a floating point number by   *)
(* their values.                                                           *)
RECURSIVE SameCell(_, _)
SameCell(a, b) ==
  CASE IsNumber(a) -> IsNumber(b) /\ NumEqual(a, b)
    [] Is(a, "pair") -> Is(b, "pair") /\ SameCell(a[2], b[2]) /\ SameCell(a[3], b[3])
    [] Is(a, "tpl") ->
         Is(b, "tpl") /\ Len(a[2]) = Len(b[2]) /\ \A k \in DOMAIN a[2] : SameCell(a[2][k], b[2][k])
    [] Is(a, "cons") ->
         Is(b, "cons") /\ a[2] = b[2] /\ Len(a[3]) = Len(b[3])
         /\ \A k \in DOMAIN a[3] : SameCell(a[3][k], b[3][k])
    [] OTHER -> a = b

-----------------------------------------------------------------------------
(* The functions computed by the compiler.  A sum of a whole and a broken  *)
(* number is a floating point number, as is every quotient.                *)

Broken(p, q) == AllocateFloat(p, q)
Plus(a, b) ==
  IF Both(a, b) THEN AllocateInteger(a[2] + b[2])
  ELSE Broken(Num(a)[1] * Num(b)[2] + Num(b)[1] * Num(a)[2], Num(a)[2] * Num(b)[2])

(* With an integer on the right the operands change places.                *)
Minus2(a, b) ==
  IF Both(a, b) THEN AllocateInteger(a[2] - b[2])
  ELSE IF IsInteger(b) THEN Broken(b[2] * a[3] - a[2], a[3])
  ELSE Broken(Num(a)[1] * Num(b)[2] - Num(b)[1] * Num(a)[2], Num(a)[2] * Num(b)[2])
Negate(a) == IF IsInteger(a) THEN AllocateInteger(-a[2]) ELSE FltVal(-a[2], a[3])
Times(a, b) ==
  IF Both(a, b) THEN AllocateInteger(a[2] * b[2])
  ELSE Broken(Num(a)[1] * Num(b)[1], Num(a)[2] * Num(b)[2])

(* Two integers are divided as integers.  With a zero divisor they stop    *)
(* the compiler; other numbers give no number.                             *)
NoQuotient == <<"no quotient">>
Divide(a, b) ==
  IF Num(b)[1] = 0 THEN NoQuotient
  ELSE IF Both(a, b) THEN FltVal(Cut(a[2], b[2]), 1)
  ELSE Broken(Num(a)[1] * Num(b)[2], Num(a)[2] * Num(b)[1])

AppendLists(a, b) == FoldRight(Pair, Elements(a), b)

\* A slip: the list is stepped over once more than it is counted.
IndexListNext(a, n, e) == IF n <= 0 \/ n >= Len(Elements(a)) THEN e ELSE Elements(a)[n + 1]

IndexList(a, n, e) == IF n <= 0 \/ n > Len(Elements(a)) THEN e ELSE Elements(a)[n]
HeadOf(a, e) == IF Is(a, "pair") THEN a[2] ELSE e

(* The tail of a count is taken one element early.                         *)
TailOf(a, n, e) == IF n <= 0 THEN e ELSE Drop(a, n - 1)

(* The length of a string literal is taken as if it were a list: none.     *)
ListLength(a) == IntVal(Len(Elements(a)))

Holds(fn, a, b) ==
  CASE fn = "<" -> Below(a, b) [] fn = ">" -> Below(b, a)
    [] fn = "=<" -> ~Below(b, a) [] fn = ">=" -> ~Below(a, b)

-----------------------------------------------------------------------------
(* The tests whose value is known.  e is the application with its          *)
(* arguments folded.  A disjunction with true is folded to false.          *)
FoldAnd(a, b, e) ==
  IF IsTruth(a, FALSE) THEN EnumStruct(FALSE)
  ELSE IF IsTruth(a, TRUE) THEN b ELSE IF IsTruth(b, TRUE) THEN a ELSE e

FoldOr(a, b, e) ==
  IF IsTruth(a, FALSE) THEN b
  ELSE IF b = Truth(FALSE) THEN a
  ELSE IF IsTruth(a, TRUE) \/ IsTruth(b, TRUE) THEN EnumStruct(FALSE) ELSE e

FoldNot(a, e) ==
  IF a = Truth(FALSE) THEN EnumStruct(TRUE) ELSE IF a = Truth(TRUE) THEN EnumStruct(FALSE) ELSE e

FoldBits(fn, a, b) ==
  CASE fn = "band" -> MBand(a, b) [] fn = "bor" -> MBor(a, b) [] fn = "bxor" -> MBxor(a, b)
    [] fn = "bleft" -> ShiftLeft(a[2], b[2]) [] fn = "bright" -> ShiftRight(a[2], b[2])

(* input is the application before its arguments were folded.              *)
Fold1(fn, a, e, input) ==
  CASE fn = "strlen" /\ IsStGrnd(a) -> IntVal(Len(a[2]))
    [] fn = "listlen" /\ IsStGrnd(a) -> ListLength(a)
    [] fn = "head" /\ IsLstGrnd(a) -> HeadOf(a, input)
    [] fn = "-" /\ IsNGrnd(a) -> Negate(a)
    [] fn = "bnot" /\ IsIGrnd(a) -> MBnot(a)
    [] fn = "not" -> FoldNot(a, e)
    [] OTHER -> e

Fold2(fn, a, b, e, input) ==
  CASE fn = "++" /\ IsStGrnd(a) /\ IsStGrnd(b) -> StrLit(a[2] \o b[2])
    [] fn = "<>" /\ IsLstGrnd(a) -> AppendLists(a, b)
    [] fn = "#" /\ IsLstGrnd(a) /\ IsIGrnd(b) -> IndexList(a, b[2], input)
    [] fn = "tail" /\ IsLstGrnd(a) /\ IsIGrnd(b) -> TailOf(a, b[2], input)
    [] fn = "+" /\ IsNGrnd(a) /\ IsNGrnd(b) -> Plus(a, b)
    [] fn = "-" /\ IsNGrnd(a) /\ IsNGrnd(b) -> Minus2(a, b)
    [] fn = "*" /\ IsNGrnd(a) /\ IsNGrnd(b) -> Times(a, b)
    [] fn = "/" /\ IsNGrnd(a) /\ IsNGrnd(b) -> Divide(a, b)
    [] fn \in {"band", "bor", "bxor", "bleft", "bright"} /\ IsIGrnd(a) /\ IsIGrnd(b) -> FoldBits(fn, a, b)
    [] fn = "==" /\ IsGrnd(a) /\ IsGrnd(b) -> Truth(SameCell(a, b))
    [] fn = "=!=" /\ IsGrnd(a) /\ IsGrnd(b) -> Truth(~SameCell(a, b))
    [] fn \in {"<", ">", "=<", ">="} /\ IsNGrnd(a) /\ IsNGrnd(b) -> Truth(Holds(fn, a, b))
    [] fn = "and" -> FoldAnd(a, b, e)
    [] fn = "or" -> FoldOr(a, b, e)
    [] OTHER -> e

(* A valof of one valis is its expression.                                 *)
RECURSIVE FoldExp(_), FoldValof(_, _)
FoldValof(body, e) ==
  CASE Is(body, "debug") -> FoldValof(body[2], e)
    [] Is(body, "valis") -> FoldExp(body[2])
    [] OTHER -> e
FoldExp(e) ==
  LET args == [k \in DOMAIN e[3] |-> FoldExp(e[3][k])]
      folded == App(e[2], args)
  IN CASE Is(e, "valof") -> FoldValof(e[2], e)
       [] Is(e, "app") /\ e[2] \in {"in", ".="} -> e
       [] Is(e, "app") /\ e[2] \notin {"in", ".="} ->
            IF Len(args) = 1 THEN Fold1(e[2], args[1], folded, e)
            ELSE IF Len(args) = 2 THEN Fold2(e[2], args[1], args[2], folded, e) ELSE folded
       [] Is(e, "pair") -> Pair(FoldExp(e[2]), FoldExp(e[3]))
       [] Is(e, "tpl") -> TplVal([k \in DOMAIN e[2] |-> FoldExp(e[2][k])])
       [] Is(e, "cons") -> ConsVal(e[2], args)
       [] OTHER -> e
=============================================================================
