------------------------------ MODULE Numbers -------------------------------
(***************************************************************************)
(* Arithmetic: the escapes of arith.c, the arithmetic instructions of      *)
(* evaluate.c and the reading of a number from a text.  A double is exact  *)
(* here; the functions of the mathematical library are left out.           *)
(***************************************************************************)
EXTENDS Values, Bitwise

MaxInt == (Word64 \div 2) - 1
Magnitude(n) == IF n < 0 THEN -n ELSE n

RECURSIVE GCD(_, _)
GCD(a, b) == IF b = 0 THEN a ELSE GCD(b, a % b)

(* An integer of the machine.                                              *)
AllocateInteger(n) == IntVal(Signed(n, Word64))

(* A quotient in its lowest terms: an integer when it is whole and fits.   *)
AllocateFloat(p, q) ==
  LET g == GCD(Magnitude(p), Magnitude(q))
      s == IF q < 0 THEN -1 ELSE 1
  IN FltVal(s * (p \div g), Magnitude(q) \div g)

AllocateNumber(p, q) ==
  LET f == AllocateFloat(p, q)
  IN IF f[3] = 1 /\ Magnitude(f[2]) <= MaxInt THEN IntVal(f[2]) ELSE f

(* C's division and remainder cut towards zero.                            *)
Cut(p, q) == Sgn(p) * Sgn(q) * (Magnitude(p) \div Magnitude(q))
Rest(p, q) == p - q * Cut(p, q)

-----------------------------------------------------------------------------
(* The escapes.  Two integers stay in the machine word; with a floating    *)
(* point number the operation is one on doubles.                           *)

Both(a, b) == IsInteger(a) /\ IsInteger(b)

MPlus(a, b) ==
  IF ~IsNumber(a) \/ ~IsNumber(b) THEN Wrong("einval")
  ELSE IF Both(a, b) THEN AllocateInteger(a[2] + b[2])
  ELSE AllocateNumber(Num(a)[1] * Num(b)[2] + Num(b)[1] * Num(a)[2], Num(a)[2] * Num(b)[2])

MMinus(a, b) ==
  IF ~IsNumber(a) \/ ~IsNumber(b) THEN Wrong("einval")
  ELSE IF Both(a, b) THEN AllocateInteger(a[2] - b[2])
  ELSE AllocateNumber(Num(a)[1] * Num(b)[2] - Num(b)[1] * Num(a)[2], Num(a)[2] * Num(b)[2])

MTimes(a, b) ==
  IF ~IsNumber(a) \/ ~IsNumber(b) THEN Wrong("einval")
  ELSE IF Both(a, b) THEN AllocateInteger(a[2] * b[2])
  ELSE AllocateNumber(Num(a)[1] * Num(b)[1], Num(a)[2] * Num(b)[2])

(* m_div and m_quo answer earith for a zero divisor; two integers are      *)
(* divided as integers, whichever of the two is asked.                     *)
MDiv(a, b) ==
  IF ~IsNumber(a) \/ ~IsNumber(b) \/ Num(b)[1] = 0 THEN Wrong("earith")
  ELSE IF Both(a, b) THEN AllocateInteger(Cut(a[2], b[2]))
  ELSE AllocateNumber(Num(a)[1] * Num(b)[2], Num(a)[2] * Num(b)[1])

\* A slip: the quotient is rounded down.
MQuoFloor(a, b) ==
  IF ~IsNumber(a) \/ ~IsNumber(b) THEN Wrong("einval")
  ELSE IF Num(b)[1] = 0 THEN Wrong("earith")
  ELSE IF Both(a, b) THEN AllocateInteger(Cut(a[2], b[2]))
  ELSE LET p == Num(a)[1] * Num(b)[2] * Sgn(Num(b)[1])
       IN AllocateNumber(p \div (Num(a)[2] * Magnitude(Num(b)[1])), 1)

MQuo(a, b) ==
  IF ~IsNumber(a) \/ ~IsNumber(b) THEN Wrong("einval")
  ELSE IF Num(b)[1] = 0 THEN Wrong("earith")
  ELSE IF Both(a, b) THEN AllocateInteger(Cut(a[2], b[2]))
  ELSE AllocateNumber(Cut(Num(a)[1] * Num(b)[2], Num(a)[2] * Num(b)[1]), 1)

(* fmod of two quotients over their common denominator.                    *)
MRem(a, b) ==
  IF ~IsNumber(a) \/ ~IsNumber(b) THEN Wrong("einval")
  ELSE IF Num(b)[1] = 0 THEN Wrong("earith")
  ELSE IF Both(a, b) THEN AllocateInteger(Rest(a[2], b[2]))
  ELSE AllocateNumber(Rest(Num(a)[1] * Num(b)[2], Num(b)[1] * Num(a)[2]), Num(a)[2] * Num(b)[2])

(* The escapes that take integers only; ./ adds its arguments.             *)
MIPlus(a, b) == IF Both(a, b) THEN AllocateInteger(a[2] + b[2]) ELSE Wrong("einval")
MIMinus(a, b) == IF Both(a, b) THEN AllocateInteger(a[2] - b[2]) ELSE Wrong("einval")
MITimes(a, b) == IF Both(a, b) THEN AllocateInteger(a[2] * b[2]) ELSE Wrong("einval")
MIDiv(a, b) ==
  IF ~Both(a, b) THEN Wrong("einval")
  ELSE IF b[2] = 0 THEN Wrong("earith") ELSE AllocateInteger(a[2] + b[2])

MAbs(a) ==
  CASE IsInteger(a) -> AllocateInteger(Magnitude(a[2]))
    [] Is(a, "flt") -> FltVal(Magnitude(a[2]), a[3])
    [] OTHER -> Wrong("einval")

(* Bits of a machine word, as the digits of a natural number.              *)
Bits(n) == n % Word64
MBand(a, b) == IF Both(a, b) THEN AllocateInteger(Bits(a[2]) & Bits(b[2])) ELSE Wrong("einval")
MBor(a, b) == IF Both(a, b) THEN AllocateInteger(Bits(a[2]) | Bits(b[2])) ELSE Wrong("einval")
MBxor(a, b) == IF Both(a, b) THEN AllocateInteger(Bits(a[2]) ^^ Bits(b[2])) ELSE Wrong("einval")
MBnot(a) == IF IsInteger(a) THEN AllocateInteger(-a[2] - 1) ELSE Wrong("einval")

(* A shift by a negative count is a shift the other way.                   *)
ShiftLeft(n, by) == AllocateInteger(Signed(n, Word64 \div (2^by)) * 2^by)
ShiftRight(n, by) == AllocateInteger(n \div (2^by))
MBleft(a, b) ==
  IF ~Both(a, b) THEN Wrong("einval")
  ELSE IF b[2] >= 0 THEN ShiftLeft(a[2], b[2]) ELSE ShiftRight(a[2], -b[2])
MBright(a, b) ==
  IF ~Both(a, b) THEN Wrong("einval")
  ELSE IF b[2] >= 0 THEN ShiftRight(a[2], b[2]) ELSE ShiftLeft(a[2], -b[2])

(* Rounding a number; ceil and floor answer a floating point number.       *)
MTrunc(a) ==
  CASE IsInteger(a) -> a
    [] Is(a, "flt") -> AllocateInteger(Cut(a[2], a[3]))
    [] OTHER -> Wrong("einval")
MFloor(a) ==
  CASE IsInteger(a) -> a [] Is(a, "flt") -> FltVal(a[2] \div a[3], 1) [] OTHER -> Wrong("einval")
MCeil(a) ==
  CASE IsInteger(a) -> a [] Is(a, "flt") -> FltVal(-((-a[2]) \div a[3]), 1) [] OTHER -> Wrong("einval")

(* modf: the whole part and the fraction, both with the number's sign.     *)
MModf(a) ==
  IF ~IsNumber(a) THEN Wrong("einval")
  ELSE LET ip == Cut(Num(a)[1], Num(a)[2])
       IN TplVal(<<AllocateInteger(ip), AllocateNumber(Num(a)[1] - ip * Num(a)[2], Num(a)[2])>>)

-----------------------------------------------------------------------------
(* The arithmetic instructions.  What is not an integer is taken for a     *)
(* floating point number by plus and minus, and refused by the others.     *)

DoublePlus(a, b) == AllocateNumber(Num(a)[1] * Num(b)[2] + Num(b)[1] * Num(a)[2], Num(a)[2] * Num(b)[2])
InsPlus(a, b) == IF Both(a, b) THEN AllocateInteger(a[2] + b[2]) ELSE DoublePlus(a, b)
\* A slip: the operands change places when one is not an integer.
InsMinusSwapped(a, b) ==
  IF Both(a, b) THEN AllocateInteger(a[2] - b[2])
  ELSE AllocateNumber(Num(b)[1] * Num(a)[2] - Num(a)[1] * Num(b)[2], Num(a)[2] * Num(b)[2])
InsMinus(a, b) ==
  IF Both(a, b) THEN AllocateInteger(a[2] - b[2])
  ELSE AllocateNumber(Num(a)[1] * Num(b)[2] - Num(b)[1] * Num(a)[2], Num(a)[2] * Num(b)[2])
InsTimes(a, b) ==
  IF IsNumber(a) /\ IsNumber(b)
  THEN AllocateNumber(Num(a)[1] * Num(b)[1], Num(a)[2] * Num(b)[2])
  ELSE Wrong("earith")
InsDivide(a, b) ==
  IF ~IsNumber(a) \/ ~IsNumber(b) \/ Num(b)[1] = 0 THEN Wrong("earith")
  ELSE AllocateNumber(Num(a)[1] * Num(b)[2], Num(a)[2] * Num(b)[1])
InsIncr(a, by) ==
  IF IsNumber(a) THEN InsPlus(a, IntVal(by)) ELSE Wrong("earith")

-----------------------------------------------------------------------------
(* Reading a number from a text.  The character codes this tells apart.    *)
Digit(c) == c \in 0 .. 9
LetterX == 10
Dot == 11
Minus == 12
Space == 13
LetterF == 14
LetterT == 15
HexDigit(c) == Digit(c) \/ c = LetterF
HexValue(c) == IF c = LetterF THEN 15 ELSE c

LeadingRun(text, P(_)) ==
  LET stops == {k \in DOMAIN text : ~P(text[k])}
  IN IF stops = {} THEN text ELSE SubSeq(text, 1, (CHOOSE k \in stops : \A j \in stops : k <= j) - 1)
From(text, k) == SubSeq(text, k, Len(text))
Valued(digits, base) == FoldLeft(LAMBDA n, d : Signed(n * base + d, Word64), 0, digits)
SafeEnd(text) == \A k \in DOMAIN text : text[k] = Space

NoNumber == <<"none">>

\* A slip: every number is read as if it began with 0.
Str2NumOctal(text) ==
  LET octal == LeadingRun(text, LAMBDA c : c \in 0 .. 7)
  IN IF SafeEnd(From(text, Len(octal) + 1)) THEN IntVal(Valued(octal, 8)) ELSE NoNumber

(* A leading 0 followed by x is hexadecimal: the character after the last  *)
(* digit is consumed with it.  Followed by anything but a dot it is octal. *)
Str2Num(text) ==
  LET hex == LeadingRun(From(text, 3), HexDigit)
      after == From(text, 4 + Len(hex))
      octal == LeadingRun(From(text, 2), LAMBDA c : c \in 0 .. 7)
      mant == LeadingRun(text, Digit)
      rest == From(text, Len(mant) + 1)
      frac == LeadingRun(Tail(rest), Digit)
  IN IF Len(text) >= 2 /\ text[1] = 0 /\ text[2] = LetterX
     THEN IF SafeEnd(after) THEN IntVal(Valued([k \in DOMAIN hex |-> HexValue(hex[k])], 16)) ELSE NoNumber
     ELSE IF Len(text) >= 2 /\ text[1] = 0 /\ text[2] # Dot
     THEN IF SafeEnd(From(text, Len(octal) + 2)) THEN IntVal(Valued(octal, 8)) ELSE NoNumber
     ELSE IF Len(rest) >= 2 /\ rest[1] = Dot /\ Digit(rest[2])
     THEN IF SafeEnd(From(rest, Len(frac) + 2))
          THEN LET p == FoldLeft(LAMBDA n, d : n * 10 + d, 0, mant \o frac)
               IN AllocateNumber(p, 10^Len(frac))
          ELSE NoNumber
     ELSE IF SafeEnd(rest) THEN IntVal(Valued(mant, 10)) ELSE NoNumber

(* A text or a symbol into a number, and a number into text (%d).          *)
MNumber(v) ==
  LET read == IF Is(v, "sym") THEN Str2Num(v[2]) ELSE Str2Num(Text(v))
  IN IF IsNumber(v) THEN v
     ELSE IF (Is(v, "sym") \/ IsListOfChars(v)) /\ read # NoNumber THEN read
     ELSE Wrong("einval")

RECURSIVE Digits(_)
Digits(n) == IF n < 10 THEN <<n>> ELSE Append(Digits(n \div 10), n % 10)
Printed(n) == IF n < 0 THEN <<Minus>> \o Digits(-n) ELSE Digits(n)
=============================================================================
