------------------------------- MODULE Coerce -------------------------------
(***************************************************************************)
(* Turning a value into one of a given type (coerce.c), as a program's     *)
(* type cast and its command line do.  A type is a type symbol, a variable,*)
(* a list type, a tuple of types or an annotated type.                     *)
(***************************************************************************)
EXTENDS Codec

TypeOf(name) == <<"sys", name>>
NumberTp == TypeOf("#number")
SymbolTp == TypeOf("#symbol")
HandleTp == TypeOf("#handle")
LogicalTp == TypeOf("#logical")
OpaqueTp == TypeOf("#opaque")
CharTp == TypeOf("#char")
ListTp(t) == ConsVal(TypeOf("#list"), <<t>>)
StringTp == ListTp(CharTp)
Annotated(name, t) == ConsVal(TypeOf("#?"), <<name, t>>)
Void == TypeOf("void")

(* A list or a tuple keeps in place of an element that cannot be coerced   *)
(* whatever the cell held before.                                          *)
Stale == <<"stale">>

Forced(v) == [ret |-> "Ok", val |-> v]
NotForced == [ret |-> "Error", val |-> Stale]

(* A symbol whose print name does not begin with the quote of the user's.  *)
RawVal(text) == <<"raw", text>>
IsSymbol(v) == v[1] \in {"sym", "sys", "raw"}
SymText(v) == IF Is(v, "sys") THEN <<"text of", v[2]>> ELSE v[2]

(* The name of a system symbol is not a number.                            *)
ForceNumber(v) ==
  LET read == IF v[1] \in {"sym", "raw"} THEN Str2Num(v[2]) ELSE Str2Num(Text(v))
  IN CASE IsNumber(v) -> Forced(v)
       [] Is(v, "chr") -> Forced(IntVal(v[2]))
       [] (v[1] \in {"sym", "raw"} \/ IsListOfChars(v)) /\ read # NoNumber -> Forced(read)
       [] OTHER -> NotForced

(* One letter stands for a text that is printed by the library.            *)
Shown == <<Space>>

(* A symbol without a quote becomes the user's symbol of that name; the    *)
(* symbol of a number is made without one.                                 *)
ForceSymbol(v) ==
  CASE IsSymbol(v) -> Forced(SymVal(SymText(v)))
    [] IsListOfChars(v) -> Forced(SymVal(Text(v)))
    [] IsInteger(v) -> Forced(RawVal(Printed(v[2])))
    [] Is(v, "flt") -> Forced(RawVal(Shown))
    [] OTHER -> NotForced

(* Text without a colon is both the target and the name of a handle.       *)
ForceHandle(v) ==
  CASE IsListOfChars(v) -> Forced(HdlVal(SymVal(Text(v)), SymVal(Text(v))))
    [] IsSymbol(v) -> Forced(HdlVal(SymVal(SymText(v)), SymVal(SymText(v))))
    [] Is(v, "hdl") -> Forced(v)
    [] OTHER -> NotForced

ForceLogical(v) ==
  CASE v \in {Truth(TRUE), Truth(FALSE)} -> Forced(v)
    [] IsInteger(v) -> Forced(Truth(v[2] # 0))
    [] IsListOfChars(v) ->
         IF Text(v) = <<LetterT>> THEN Forced(Truth(TRUE))
         ELSE IF Text(v) = <<LetterF>> THEN Forced(Truth(FALSE)) ELSE NotForced
    [] IsList(v) /\ ~IsListOfChars(v) -> Forced(Truth(TRUE))
    [] OTHER -> NotForced

(* A string; what is neither text nor a character is printed, an integer   *)
(* as its digits.                                                          *)
ForceString(v) ==
  CASE IsListOfChars(v) -> Forced(v)
    [] IsSymbol(v) -> Forced(AllocateString(SymText(v)))
    [] Is(v, "chr") -> Forced(AllocateString(<<v[2]>>))
    [] IsInteger(v) -> Forced(AllocateString(Printed(v[2])))
    [] OTHER -> Forced(AllocateString(Shown))

(* The verdicts on the elements of a list are not looked at, and the       *)
(* elements of a tuple are coerced but never stored.                       *)
RECURSIVE Force(_, _)
Force(type, v) ==
  CASE Is(v, "any") -> Force(type, v[3])
    [] ~Is(v, "any") /\ type = NumberTp -> ForceNumber(v)
    [] ~Is(v, "any") /\ type = SymbolTp -> ForceSymbol(v)
    [] ~Is(v, "any") /\ type = HandleTp -> ForceHandle(v)
    [] ~Is(v, "any") /\ type = LogicalTp -> ForceLogical(v)
    [] ~Is(v, "any") /\ type = OpaqueTp -> IF Is(v, "opq") THEN Forced(v) ELSE NotForced
    [] ~Is(v, "any") /\ Is(type, "var") -> Forced(v)
    [] ~Is(v, "any") /\ type = StringTp -> ForceString(v)
    [] ~Is(v, "any") /\ Is(type, "cons") /\ type[2] = TypeOf("#list") /\ type # StringTp ->
         IF IsList(v) /\ Is(LastTail(v), "nil")
         THEN Forced(ListOf([k \in DOMAIN Elements(v) |-> Force(type[3][1], Elements(v)[k]).val]))
         ELSE NotForced
    [] ~Is(v, "any") /\ Is(type, "tpl") /\ Is(v, "tpl") ->
         IF Len(type[2]) = Len(v[2]) /\ \A k \in DOMAIN v[2] : Force(type[2][k], v[2][k]).ret = "Ok"
         THEN Forced(TplVal([k \in DOMAIN v[2] |-> Void]))
         ELSE NotForced
    [] ~Is(v, "any") /\ Is(type, "cons") /\ type[2] = TypeOf("#?") -> Force(type[3][2], v)
    [] OTHER -> NotForced

MCoerce(type, v) == LET f == Force(type, v) IN IF f.ret = "Ok" THEN f.val ELSE Wrong("einval")

(* The command line: as many words as there are types, in a tuple.         *)
MCoerceArgs(types, words) ==
  IF ~Is(types, "tpl") \/ ~IsList(words) \/ Len(types[2]) > ListLen(words) THEN Wrong("einval")
  ELSE LET each == [k \in DOMAIN types[2] |-> Force(types[2][k], Elements(words)[k])]
       IN IF \E k \in DOMAIN each : each[k].ret # "Ok" THEN Wrong("efail")
          ELSE TplVal([k \in DOMAIN each |-> each[k].val])
=============================================================================
