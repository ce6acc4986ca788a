------------------------------- MODULE Values -------------------------------
(***************************************************************************)
(* The values of the engine and the escapes that take lists apart, compare *)
(* values and sort (setops.c, sort.c).  A value is a tuple whose first     *)
(* element is its tag (word.h); a symbol is its text, a text is a sequence *)
(* of character codes, a floating point number is the exact quotient of    *)
(* two integers.  A byte has Byte values, so that a WORD32 wraps at Byte^4 *)
(* and an integer at Byte^8.  A function closure is named by an id and its *)
(* captured values are looked up in an environment, for closures refer to  *)
(* each other in circles.                                                  *)
(***************************************************************************)
EXTENDS Integers, Sequences, SequencesExt

CONSTANT Byte                      \* the number of values of a byte

ASSUME ByteAssumption == Byte \in Nat /\ Byte >= 2

Word16 == Byte * Byte
Word32 == Word16 * Word16
Word64 == Word32 * Word32

(* What is left of a whole number in a signed machine word of w values.    *)
Signed(n, w) == LET u == n % w IN IF 2 * u >= w THEN u - w ELSE u

IntVal(n) == <<"int", n>>
FltVal(p, q) == <<"flt", p, q>>
SymVal(text) == <<"sym", text>>
ChrVal(c) == <<"chr", c>>
Nil == <<"nil">>
Pair(h, t) == <<"pair", h, t>>
TplVal(els) == <<"tpl", els>>
ConsVal(fn, els) == <<"cons", fn, els>>
AnyVal(sig, data) == <<"any", sig, data>>
HdlVal(tgt, name) == <<"hdl", tgt, name>>
Closure(c) == <<"clos", c>>
VarVal(v) == <<"var", v>>
Opaque == <<"opq">>

(* Answers other than a value: an error, a failed test, a trap.            *)
Wrong(code) == <<"error", code>>
Truth(b) == <<"sys", IF b THEN "true" ELSE "false">>

Is(v, tag) == v[1] = tag
IsInteger(v) == Is(v, "int")
IsNumber(v) == Is(v, "int") \/ Is(v, "flt")
IsList(v) == Is(v, "nil") \/ Is(v, "pair")

(* The marker of a value's first word, as the numbers of the enumeration.  *)
Marker(v) ==
  CASE Is(v, "int") -> 0 [] Is(v, "var") -> 1 [] v[1] \in {"sym", "sys"} -> 2
    [] Is(v, "chr") -> 3 [] Is(v, "flt") -> 4 [] IsList(v) -> 5
    [] v[1] \in {"cons", "hdl", "clos"} -> 6 [] Is(v, "tpl") -> 7
    [] Is(v, "any") -> 8 [] Is(v, "code") -> 9 [] Is(v, "opq") -> 11

ListOf(els) == FoldRight(Pair, els, Nil)

RECURSIVE Elements(_)
Elements(l) == IF Is(l, "pair") THEN <<l[2]>> \o Elements(l[3]) ELSE <<>>

RECURSIVE LastTail(_)
LastTail(l) == IF Is(l, "pair") THEN LastTail(l[3]) ELSE l

(* The length, negated when the list does not end in the empty list.       *)
ListLen(l) == LET n == Len(Elements(l)) IN IF Is(LastTail(l), "nil") THEN n ELSE -n

IsListOfChars(v) ==
  IsList(v) /\ Is(LastTail(v), "nil") /\ \A k \in DOMAIN Elements(v) : Is(Elements(v)[k], "chr")

Text(l) == [k \in DOMAIN Elements(l) |-> Elements(l)[k][2]]
AllocateString(text) == ListOf([k \in DOMAIN text |-> ChrVal(text[k])])

-----------------------------------------------------------------------------
(* Taking lists apart.  A count is a WORD32.                               *)

Count(n) == Signed(n[2], Word32)
IsCount(n) == IsInteger(n) /\ Count(n) >= 0

RECURSIVE Drop(_, _)
Drop(l, n) == IF Is(l, "pair") /\ n > 0 THEN Drop(l[3], n - 1) ELSE l

MFront(l, n) ==
  IF IsList(l) /\ IsCount(n)
  THEN ListOf(SubSeq(Elements(l), 1, IF Count(n) < Len(Elements(l)) THEN Count(n) ELSE Len(Elements(l))))
  ELSE Wrong("einval")

MBack(l, n) ==
  IF IsList(l) /\ IsCount(n) THEN Drop(l, Len(Elements(l)) - Count(n)) ELSE Wrong("einval")

\* A slip: the count is stepped over, as if from the front.
MTailBack(l, n) ==
  IF IsList(l) /\ IsCount(n) THEN Drop(l, Len(Elements(l)) - Count(n) + 1) ELSE Wrong("einval")

MTail(l, n) == IF IsList(l) /\ IsCount(n) THEN Drop(l, Count(n)) ELSE Wrong("einval")

MHead(l) == IF Is(l, "pair") THEN l[2] ELSE Wrong("einval")

MListLen(l) == IntVal(ListLen(l))

MNth(l, n) ==
  IF ~IsList(l) \/ ~IsInteger(n) THEN Wrong("einval")
  ELSE IF Count(n) <= 0 \/ ~Is(Drop(l, Count(n) - 1), "pair") THEN Wrong("einval")
  ELSE Drop(l, Count(n) - 1)[2]

MApp(l1, l2) ==
  IF IsList(l1) /\ IsList(l2) THEN FoldRight(Pair, Elements(l1), l2) ELSE Wrong("einval")

MIota(lo, hi) ==
  IF ~IsInteger(lo) \/ ~IsInteger(hi) THEN Wrong("einval")
  ELSE LET a == Count(lo)
           b == Count(hi)
       IN ListOf([k \in 1 .. (IF b >= a THEN b - a + 1 ELSE 0) |-> IntVal(a + k - 1)])

-----------------------------------------------------------------------------
(* Comparing.  A number stands for a quotient, so that an integer equals   *)
(* the floating point number of the same value.                            *)

Num(v) == IF IsInteger(v) THEN <<v[2], 1>> ELSE <<v[2], v[3]>>
Below(a, b) == Num(a)[1] * Num(b)[2] < Num(b)[1] * Num(a)[2]
NumEqual(a, b) == Num(a)[1] * Num(b)[2] = Num(b)[1] * Num(a)[2]

(* A retCode of equalcell: Ok, Fail or Error.                              *)
RECURSIVE EqualCell(_, _), EqualEach(_, _)
EqualCell(a, b) ==
  CASE IsNumber(a) -> IF IsNumber(b) /\ NumEqual(a, b) THEN "Ok" ELSE "Fail"
    [] a[1] \in {"sym", "sys", "chr", "nil", "hdl"} -> IF a = b THEN "Ok" ELSE "Fail"
    [] Is(a, "pair") ->
         IF ~Is(b, "pair") THEN "Fail"
         ELSE LET head == EqualCell(a[2], b[2])
              IN IF head = "Ok" THEN EqualCell(a[3], b[3]) ELSE head
    [] Is(a, "tpl") -> IF Is(b, "tpl") THEN EqualEach(a[2], b[2]) ELSE "Fail"
    [] Is(a, "clos") -> IF a = b THEN "Ok" ELSE "Error"
    [] Is(a, "cons") ->
         IF Is(b, "clos") THEN "Error"
         ELSE IF Is(b, "cons") /\ a[2] = b[2] THEN EqualEach(a[3], b[3]) ELSE "Fail"
    [] Is(a, "any") -> IF Is(b, "any") THEN EqualCell(a[3], b[3]) ELSE "Fail"
    [] OTHER -> "Error"
EqualEach(as, bs) ==
  IF Len(as) # Len(bs) THEN "Fail"
  ELSE IF as = <<>> THEN "Ok"
  ELSE LET first == EqualCell(Head(as), Head(bs))
       IN IF first = "Ok" THEN EqualEach(Tail(as), Tail(bs)) ELSE first

Sgn(n) == IF n < 0 THEN -1 ELSE IF n > 0 THEN 1 ELSE 0

(* uniCmp: the order of two texts.                                         *)
RECURSIVE UniCmp(_, _)
\* A slip: a text that the other one continues is taken for the same.
UniCmpPrefix(s, t) ==
  IF s = <<>> \/ t = <<>> THEN 0
  ELSE IF Head(s) # Head(t) THEN Sgn(Head(s) - Head(t)) ELSE UniCmp(Tail(s), Tail(t))
UniCmp(s, t) ==
  CASE s = <<>> /\ t = <<>> -> 0
    [] s = <<>> -> -1
    [] t = <<>> -> 1
    [] OTHER -> IF Head(s) # Head(t) THEN Sgn(Head(s) - Head(t)) ELSE UniCmp(Tail(s), Tail(t))

(* The difference of two integers is cut down to an int.                   *)
CmpInt(a, b) == Sgn(Signed(Signed(a[2] - b[2], Word64), Word32))

(* cmpcell: below, at or above zero.  Values of different tags are ordered *)
(* by their markers, numbers apart.                                        *)
RECURSIVE CmpCell(_, _), CmpEach(_, _)
CmpCell(a, b) ==
  IF a = b THEN 0
  ELSE IF Marker(a) # Marker(b)
       THEN IF IsNumber(a) /\ IsNumber(b)
            THEN IF Below(a, b) THEN -1 ELSE IF Below(b, a) THEN 1 ELSE 0
            ELSE Sgn(Marker(a) - Marker(b))
  ELSE CASE Is(a, "int") -> CmpInt(a, b)
         [] Is(a, "flt") -> IF Below(a, b) THEN -1 ELSE IF Below(b, a) THEN 1 ELSE 0
         [] Is(a, "sym") -> UniCmp(a[2], b[2])
         [] Is(a, "chr") -> Sgn(a[2] - b[2])
         [] IsList(a) ->
              IF Is(a, "nil") THEN -1
              ELSE IF Is(b, "nil") THEN 1
              ELSE LET head == CmpCell(a[2], b[2])
                   IN IF head # 0 THEN head ELSE CmpCell(a[3], b[3])
         [] Is(a, "cons") -> 
              IF Len(a[3]) # Len(b[3]) THEN Sgn(Len(a[3]) - Len(b[3]))
              ELSE LET fn == CmpCell(a[2], b[2])
                   IN IF fn # 0 THEN fn ELSE CmpEach(a[3], b[3])
         [] Is(a, "tpl") ->
              IF Len(a[2]) # Len(b[2]) THEN Sgn(Len(a[2]) - Len(b[2])) ELSE CmpEach(a[2], b[2])
         [] Is(a, "any") -> CmpCell(a[3], b[3])
         [] OTHER -> -1
CmpEach(as, bs) ==
  IF as = <<>> THEN 0
  ELSE LET first == CmpCell(Head(as), Head(bs))
       IN IF first # 0 THEN first ELSE CmpEach(Tail(as), Tail(bs))

-----------------------------------------------------------------------------
(* Sorting.  qs splits vect[first .. last] around its first element: less  *)
(* climbs over what is not above the pivot, greater comes down over what   *)
(* is, the two are swapped until they meet, and the pivot goes where       *)
(* greater stopped.                                                        *)

SwapCell(vect, i, j) == [vect EXCEPT ![i] = vect[j], ![j] = vect[i]]

RECURSIVE Climb(_, _, _, _)
Climb(vect, pivot, less, greater) ==
  IF less + 1 < greater /\ CmpCell(vect[less + 1], pivot) <= 0
  THEN Climb(vect, pivot, less + 1, greater)
  ELSE less + 1

RECURSIVE Descend(_, _, _, _)
\* A slip: greater stops one short of less.
DescendShort(vect, pivot, less, greater) ==
  IF greater - 1 > less /\ CmpCell(vect[greater - 1], pivot) > 0
  THEN Descend(vect, pivot, less, greater - 1)
  ELSE greater - 1
Descend(vect, pivot, less, greater) ==
  IF greater - 1 >= less /\ CmpCell(vect[greater - 1], pivot) > 0
  THEN Descend(vect, pivot, less, greater - 1)
  ELSE greater - 1

RECURSIVE Split(_, _, _, _)
Split(vect, pivot, less, greater) ==
  LET up == Climb(vect, pivot, less, greater)
      down == Descend(vect, pivot, up, greater)
  IN IF up < down THEN Split(SwapCell(vect, up, down), pivot, up, down)
     ELSE [vect |-> vect, at |-> down]

RECURSIVE QS(_, _, _)
QS(vect, first, last) ==
  IF first >= last THEN vect
  ELSE LET s == Split(vect, vect[first], first, last + 1)
           placed == SwapCell(s.vect, first, s.at)
       IN QS(QS(placed, first, s.at - 1), s.at + 1, last)

MSort(l) ==
  IF IsList(l) /\ ListLen(l) >= 0 THEN ListOf(QS(Elements(l), 1, ListLen(l))) ELSE Wrong("einval")

\* A slip: an element is compared with the first one kept.
UniqueFirst(els) ==
  FoldLeft(LAMBDA kept, v : IF kept # <<>> /\ CmpCell(v, Head(kept)) = 0 THEN kept ELSE Append(kept, v),
           <<>>, els)

(* The sorted elements without those equal to the last one kept.           *)
Unique(els) ==
  FoldLeft(LAMBDA kept, v : IF kept # <<>> /\ CmpCell(v, Last(kept)) = 0 THEN kept ELSE Append(kept, v),
           <<>>, els)

MSetOf(l) ==
  IF IsList(l) /\ ListLen(l) >= 0
  THEN ListOf(Unique(QS(Elements(l), 1, ListLen(l))))
  ELSE Wrong("einval")
=============================================================================
