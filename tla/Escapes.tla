------------------------------ MODULE Escapes -------------------------------
(***************************************************************************)
(* A program asks the engine for one operation on values and gets its      *)
(* answer.  An operation is an escape or an instruction of the engine; the *)
(* requests are a constant.                                                *)
(***************************************************************************)
EXTENDS Coerce, Folding

CONSTANT Requests                  \* records [op, args, env]

VARIABLES asked,                   \* the request, or Nothing
          answer                   \* Unanswered, or the answer

escapeVars == <<asked, answer>>

Nothing == [op |-> "none", args |-> <<>>, env |-> <<>>]
Unanswered == <<"nothing">>

(* Sending a value: what the receiver makes of the bytes, as Decode's      *)
(* reader, and the encoder's verdict.                                      *)
Sent(v, env, left) ==
  LET e == EncodeICM(v, env)
  IN IF e.ret = "Ok" THEN <<"sent", DecodeICM(e.out, left)>> ELSE Wrong("efail")

(* The answer to an operation of one argument, of two.                     *)
Answer1(op, a) ==
  CASE op = "listlen" -> MListLen(a) [] op = "head" -> MHead(a)
    [] op = "sort" -> MSort(a) [] op = "setof" -> MSetOf(a)
    [] op = "abs" -> MAbs(a) [] op = "bnot" -> MBnot(a) [] op = "trunc" -> MTrunc(a)
    [] op = "floor" -> MFloor(a) [] op = "ceil" -> MCeil(a) [] op = "modf" -> MModf(a)
    [] op = "number" -> MNumber(a) [] op = "fold" -> FoldExp(a)
Answer2(op, a, b) ==
  CASE op = "front" -> MFront(a, b) [] op = "back" -> MBack(a, b) [] op = "tail" -> MTail(a, b)
    [] op = "nth" -> MNth(a, b) [] op = "<>" -> MApp(a, b) [] op = "iota" -> MIota(a, b)
    [] op = "compare" -> IntVal(CmpCell(a, b))
    [] op = "+" -> MPlus(a, b) [] op = "-" -> MMinus(a, b) [] op = "*" -> MTimes(a, b)
    [] op = "/" -> MDiv(a, b) [] op = "quot" -> MQuo(a, b) [] op = "rem" -> MRem(a, b)
    [] op = ".+" -> MIPlus(a, b) [] op = ".-" -> MIMinus(a, b) [] op = ".*" -> MITimes(a, b)
    [] op = "./" -> MIDiv(a, b)
    [] op = "band" -> MBand(a, b) [] op = "bor" -> MBor(a, b) [] op = "bxor" -> MBxor(a, b)
    [] op = "bleft" -> MBleft(a, b) [] op = "bright" -> MBright(a, b)
    [] op = "plus" -> InsPlus(a, b) [] op = "minus" -> InsMinus(a, b)
    [] op = "times" -> InsTimes(a, b) [] op = "divide" -> InsDivide(a, b)
    [] op = "incr" -> InsIncr(a, b[2])
    [] op = "coerce" -> MCoerce(a, b) [] op = "coerce_args" -> MCoerceArgs(a, b)

(* left is what the receiver's buffers hold from before.                   *)
Answer(r, left) ==
  IF r.op = "send" THEN Sent(r.args[1], r.env, left)
  ELSE IF Len(r.args) = 1 THEN Answer1(r.op, r.args[1])
  ELSE Answer2(r.op, r.args[1], r.args[2])

EscapesInit == asked \in Requests \cup {Nothing} /\ answer = Unanswered

Perform ==
  /\ asked # Nothing
  /\ answer = Unanswered
  /\ \E left \in Leftovers : answer' = Answer(asked, left)
  /\ UNCHANGED asked

-----------------------------------------------------------------------------
(* Properties.  Asked(op) holds once an operation has been answered.       *)

Asked(op) == asked # Nothing /\ answer # Unanswered /\ asked.op = op
A == asked.args[1]
B == asked.args[2]

(* What front, tail, back and # take from a list is the list again: the    *)
(* front and the tail of one count join to the list, the back of n is the  *)
(* tail of the rest, and an element is the head of the tail before it.     *)
ListsRejoin ==
  /\ Asked("front") /\ answer[1] # "error" => MApp(answer, MTail(A, B)) = A
  /\ Asked("back") /\ answer[1] # "error" =>
       LET rest == Len(Elements(A)) - B[2]
       IN answer = MTail(A, IntVal(IF rest < 0 THEN 0 ELSE rest))
  /\ Asked("nth") /\ answer[1] # "error" => answer = MHead(MTail(A, IntVal(B[2] - 1)))
  /\ Asked("<>") => \A n \in 0 .. Len(Elements(A)) :
                      Elements(MFront(A, IntVal(n))) = Elements(MFront(answer, IntVal(n)))

(* The order a reader expects of values of one type: numbers by value,     *)
(* texts, lists and tuples by their first difference.                      *)
RECURSIVE NotAbove(_, _)
NotAbove(a, b) ==
  CASE IsNumber(a) -> ~Below(b, a)
    [] Is(a, "chr") -> a[2] <= b[2]
    [] Is(a, "sym") -> NotAbove(AllocateString(a[2]), AllocateString(b[2]))
    [] IsList(a) ->
         Is(a, "nil") \/ (Is(b, "pair") /\ (IF NotAbove(a[2], b[2]) /\ NotAbove(b[2], a[2])
                                            THEN NotAbove(a[3], b[3]) ELSE NotAbove(a[2], b[2])))
    [] OTHER -> NotAbove(ListOf(a[2]), ListOf(b[2]))

(* sort answers the elements of its list, each as often as it was there,   *)
(* in order: the quick sort neither loses nor doubles an element, whatever *)
(* is equal to its pivots.                                                 *)
SortsRight ==
  Asked("sort") =>
    LET in == Elements(A)
        out == Elements(answer)
    IN /\ Len(in) = Len(out)
       /\ \A v \in {in[k] : k \in DOMAIN in} :
            Cardinality({k \in DOMAIN in : in[k] = v}) = Cardinality({k \in DOMAIN out : out[k] = v})
       /\ \A k \in 1 .. Len(out) - 1 : NotAbove(out[k], out[k + 1])

(* setof answers one of each class of equal elements, an integer and the   *)
(* floating point number of its value being equal.                         *)
SetHasNoTwins ==
  Asked("setof") =>
    LET in == Elements(A)
        out == Elements(answer)
    IN /\ \A j, k \in DOMAIN out : j # k => EqualCell(out[j], out[k]) # "Ok"
       /\ \A k \in DOMAIN in : \E j \in DOMAIN out : EqualCell(in[k], out[j]) = "Ok"

(* The comparison that sorts and the one that tests for equality agree:    *)
(* one answers zero exactly when the other answers Ok, and the order turns *)
(* round with its arguments.                                               *)
EqualAgrees ==
  Asked("compare") =>
    /\ answer[2] = 0 <=> EqualCell(A, B) = "Ok"
    /\ CmpCell(B, A) = -answer[2]

(* Sorting, sets, comparisons and the parts of lists fit together.         *)
ListsAndOrder == ListsRejoin /\ SortsRight /\ SetHasNoTwins /\ EqualAgrees

(* A value with its closures opened to a depth.                            *)
RECURSIVE Unfold(_, _, _)
Unfold(v, env, depth) ==
  LET Each(els) == [k \in DOMAIN els |-> Unfold(els[k], env, depth - 1)]
      c == Content(v, env)
  IN IF depth = 0 THEN <<"deep">>
     ELSE CASE Is(c, "pair") -> Pair(Unfold(c[2], env, depth), Unfold(c[3], env, depth))
            [] Is(c, "tpl") -> TplVal(Each(c[2]))
            [] Is(c, "cons") -> ConsVal(Unfold(c[2], env, depth), Each(c[3]))
            [] Is(c, "any") -> AnyVal(Unfold(c[2], env, depth), Unfold(c[3], env, depth))
            [] OTHER -> c

RECURSIVE VarsIn(_)
VarsIn(v) ==
  CASE Is(v, "var") -> {v}
    [] Is(v, "pair") \/ Is(v, "any") -> VarsIn(v[2]) \cup VarsIn(v[3])
    [] Is(v, "tpl") -> UNION {VarsIn(v[2][k]) : k \in DOMAIN v[2]}
    [] Is(v, "cons") -> UNION {VarsIn(v[3][k]) : k \in DOMAIN v[3]}
    [] OTHER -> {}

RECURSIVE Renamed(_, _)
Renamed(v, f) ==
  CASE Is(v, "var") -> f[v]
    [] Is(v, "pair") \/ Is(v, "any") -> <<v[1], Renamed(v[2], f), Renamed(v[3], f)>>
    [] Is(v, "tpl") -> TplVal([k \in DOMAIN v[2] |-> Renamed(v[2][k], f)])
    [] Is(v, "cons") -> ConsVal(v[2], [k \in DOMAIN v[3] |-> Renamed(v[3][k], f)])
    [] OTHER -> v

(* The texts sent in one block.                                            *)
RECURSIVE TextsIn(_)
TextsIn(v) ==
  CASE IsList(v) /\ IsListOfChars(v) -> {Text(v)}
    [] (Is(v, "pair") /\ ~IsListOfChars(v)) \/ Is(v, "any") -> TextsIn(v[2]) \cup TextsIn(v[3])
    [] Is(v, "tpl") -> UNION {TextsIn(v[2][k]) : k \in DOMAIN v[2]}
    [] Is(v, "cons") -> UNION {TextsIn(v[3][k]) : k \in DOMAIN v[3]}
    [] OTHER -> {}

Wide(text) == \E k \in DOMAIN text : text[k] >= Byte
Marked(text) == text[1] = BOMhi /\ text[2] = BOMlo

HowDeep == 5

(* What is sent is what is received, with closures pointing to each other  *)
(* as they did and nothing of the message left unread, with exactly two    *)
(* exceptions.  The variables of the value have become one, for all are    *)
(* sent under one number (encode.c:357-368).  A text of one-byte           *)
(* characters is read as if they were pairs when it begins with the two    *)
(* bytes of the mark, or whenever the reader's buffer happens to hold the  *)
(* swapped mark (decode.c:248-260).                                        *)
SentIsReceived ==
  Asked("send") /\ answer[1] # "error" =>
    LET got == answer[2]
        sent == Unfold(A, asked.env, HowDeep)
        received == Unfold(got.val, got.env, HowDeep)
        astray == {t \in TextsIn(sent) : Len(t) >= 2 /\ ~Wide(t) /\ (Marked(t) \/ got.left.swapped)}
    IN /\ got.ret = "Ok"
       /\ got.in = <<>>
       /\ received = Renamed(sent, [v \in VarsIn(sent) |-> VarVal(1)]) <=> astray = {}

(* quot and rem of the same arguments make the first argument again, the   *)
(* remainder is smaller than the divisor and has the dividend's sign, for  *)
(* integers and floating point numbers alike.                              *)
QuotRem ==
  Asked("rem") /\ answer[1] # "error" =>
    LET q == MQuo(A, B)
    IN /\ NumEqual(MPlus(MTimes(q, B), answer), A)
       /\ Magnitude(Num(answer)[1]) * Num(B)[2] < Magnitude(Num(B)[1]) * Num(answer)[2]
       /\ Sgn(Num(answer)[1]) \in {0, Sgn(Num(A)[1])}

(* The same number, or both refused.                                       *)
Alike(a, b) == a = b \/ (Is(a, "error") /\ Is(b, "error"))

(* An operator compiled to an instruction answers what the escape of the   *)
(* same name answers when it is used as a function, and refuses what it    *)
(* refuses, with exactly two exceptions: the escape wraps a product beyond *)
(* the word, and cuts a quotient of two integers.                          *)
InstructionsAgree ==
  /\ Asked("plus") => answer = MPlus(A, B)
  /\ Asked("minus") => answer = MMinus(A, B)
  /\ Asked("incr") => Alike(answer, MPlus(A, B))
  /\ Asked("times") =>
       (Alike(answer, MTimes(A, B)) <=> ~(Both(A, B) /\ Magnitude(A[2] * B[2]) > MaxInt))
  /\ Asked("divide") =>
       (Alike(answer, MDiv(A, B)) <=> ~(Both(A, B) /\ B[2] # 0 /\ Rest(A[2], B[2]) # 0))

(* Coercing a value to a type a second time changes nothing, but for the   *)
(* symbol of a number, which has no quote and becomes the user's symbol of *)
(* that text; and a whole number that is not negative comes back from a    *)
(* string or a symbol.  The elements of a tuple are lost (coerce.c:333)    *)
(* and are left out.                                                       *)
CoercionSettles ==
  Asked("coerce") /\ answer[1] # "error" /\ ~Is(A, "tpl") =>
    /\ MCoerce(A, answer) = IF A = SymbolTp /\ Is(answer, "raw") THEN SymVal(answer[2]) ELSE answer
    /\ A \in {StringTp, SymbolTp} /\ IsInteger(B) /\ B[2] >= 0 => MCoerce(NumberTp, answer) = B

(* Numbers are the same however they are computed or come to be numbers.   *)
NumbersAgree == QuotRem /\ InstructionsAgree /\ CoercionSettles

(* What an application means, given the meanings of its arguments.         *)
Applied(op, args) ==
  LET a == args[1]
      b == args[2]
      both == {args[k] : k \in 1 .. 2}
  IN CASE \E k \in DOMAIN args : Is(args[k], "error") -> Wrong("argument")
       [] OTHER ->
            CASE op = "not" -> Truth(a = Truth(FALSE))
              [] op = "and" -> Truth(both = {Truth(TRUE)})
              [] op = "or" -> Truth(Truth(TRUE) \in both)
              [] op \in {"==", "=!="} -> Truth((EqualCell(a, b) = "Ok") = (op = "=="))
              [] op \in {"<", ">", "=<", ">="} -> Truth(Holds(op, a, b))
              [] op \in {"strlen", "listlen"} -> MListLen(a)
              [] op = "head" -> MHead(a)
              [] op = "bnot" -> MBnot(a)
              [] op = "-" -> IF Len(args) = 1 THEN InsMinus(IntVal(0), a) ELSE InsMinus(a, b)
              [] op \in {"++", "<>"} -> MApp(a, b)
              [] op = "#" -> MNth(a, b)
              [] op = "tail" -> MTail(a, b)
              [] op = "+" -> InsPlus(a, b)
              [] op = "*" -> InsTimes(a, b)
              [] op = "/" -> InsDivide(a, b)
              [] op = "band" -> MBand(a, b) [] op = "bor" -> MBor(a, b) [] op = "bxor" -> MBxor(a, b)
              [] op = "bleft" -> MBleft(a, b) [] op = "bright" -> MBright(a, b)

(* What an expression means, as the code generated for it computes it: x   *)
(* is the variable.                                                        *)
RECURSIVE Meaning(_, _)
Meaning(e, x) ==
  LET Each(els) == [k \in DOMAIN els |-> Meaning(els[k], x)]
  IN CASE Is(e, "str") -> AllocateString(e[2])
       [] Is(e, "use") -> x
       [] e[1] \in {"kept", "debug", "valis", "valof"} -> Meaning(e[2], x)
       [] Is(e, "pair") -> Pair(Meaning(e[2], x), Meaning(e[3], x))
       [] Is(e, "tpl") -> TplVal(Each(e[2]))
       [] Is(e, "cons") -> IF e \in {EnumStruct(TRUE), EnumStruct(FALSE)} THEN e[3][1] ELSE ConsVal(e[2], Each(e[3]))
       [] Is(e, "app") -> Applied(e[2], Each(e[3]))
       [] OTHER -> e

(* A literal with its strings and truth values as they are when it runs.   *)
RECURSIVE Plain(_)
Plain(e) ==
  CASE Is(e, "str") -> AllocateString(e[2])
    [] Is(e, "pair") -> Pair(Plain(e[2]), Plain(e[3]))
    [] Is(e, "tpl") -> TplVal([k \in DOMAIN e[2] |-> Plain(e[2][k])])
    [] e \in {EnumStruct(TRUE), EnumStruct(FALSE)} -> e[3][1]
    [] OTHER -> e

(* The applications whose folding is known to be wrong: a tail that takes  *)
(* part of a list, the length of a string, a disjunction with true, a      *)
(* fraction less a whole number, a product beyond the word, a quotient of  *)
(* whole numbers with a remainder, any by zero, and a comparison of equal  *)
(* literals of which one is written as a string and the other as a list,   *)
(* or one truth value is computed by the compiler and the other written.   *)
Misfolds(fn, args) ==
  LET a == args[1]
      b == args[2]
      numbers == Len(args) = 2 /\ IsNGrnd(a) /\ IsNGrnd(b)
  IN \/ fn = "tail" /\ IsLstGrnd(a) /\ IsIGrnd(b) /\ b[2] \in 1 .. Len(Elements(a))
     \/ fn = "listlen" /\ IsStGrnd(a) /\ a[2] # <<>>
     \/ fn = "or" /\ (IsTruth(a, TRUE) \/ IsTruth(b, TRUE)) /\ ~IsTruth(a, FALSE) /\ b # Truth(FALSE)
     \/ fn = "-" /\ numbers /\ ~IsInteger(a) /\ IsInteger(b) /\ ~NumEqual(a, b)
     \/ fn = "*" /\ numbers /\ Both(a, b) /\ Magnitude(a[2] * b[2]) > MaxInt
     \/ fn = "/" /\ numbers /\ (Num(b)[1] = 0 \/ (Both(a, b) /\ Rest(a[2], b[2]) # 0))
     \/ fn \in {"==", "=!="} /\ IsGrnd(a) /\ IsGrnd(b) /\ ~SameCell(a, b) /\ SameCell(Plain(a), Plain(b))

RECURSIVE Sound(_)
Sound(e) ==
  CASE Is(e, "app") ->
         /\ \A k \in DOMAIN e[3] : Sound(e[3][k])
         /\ ~Misfolds(e[2], [k \in DOMAIN e[3] |-> FoldExp(e[3][k])])
    [] Is(e, "pair") -> Sound(e[2]) /\ Sound(e[3])
    [] Is(e, "tpl") -> \A k \in DOMAIN e[2] : Sound(e[2][k])
    [] Is(e, "cons") -> \A k \in DOMAIN e[3] : Sound(e[3][k])
    [] e[1] \in {"valof", "debug", "valis"} -> Sound(e[2])
    [] OTHER -> TRUE

SameAnswer(a, b) == a = b \/ EqualCell(a, b) = "Ok"

(* Folding changes no meaning: what the compiler computes is what the      *)
(* instructions and escapes answer, or refuse, whatever the variable is,   *)
(* unless a part of the expression is one of the applications Misfolds     *)
(* names; and each of those by itself does change its meaning.             *)
FoldKeepsMeaning ==
  Asked("fold") =>
    LET Changed(x) == ~SameAnswer(Meaning(A, x), Meaning(answer, x))
        changed == \E x \in {IntVal(2), FltVal(3, 2)} : Changed(x)
    IN IF Sound(A) THEN ~changed
       ELSE Is(A, "app") /\ (\A k \in DOMAIN A[3] : Sound(A[3][k])) => changed
=============================================================================
