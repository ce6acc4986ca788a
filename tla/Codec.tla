------------------------------- MODULE Codec --------------------------------
(***************************************************************************)
(* The encoded form in which values leave the engine and come back         *)
(* (encode.c, decode.c, labels.c).  The stream is a sequence of tokens: a  *)
(* tag with its four bits, or a data byte.  The closures of one program    *)
(* and the tuples that hold them are named by ids, whose contents are in   *)
(* an environment: they may be circular, everything else is a tree.  The   *)
(* text of a symbol is plain ASCII.                                        *)
(***************************************************************************)
EXTENDS Numbers

BOMhi == Byte - 2
BOMlo == Byte - 1

Tag(kind, n) == <<kind, n>>
Data(b) == <<"byte", b>>
Bytes(bs) == [k \in DOMAIN bs |-> Data(bs[k])]

(* The bytes of an unsigned WORD32, most significant first.                *)
RECURSIVE Unsigned(_)
Unsigned(n) == IF n < Byte THEN <<n>> ELSE Append(Unsigned(n \div Byte), n % Byte)

(* A positive number whose first byte looks negative gets a leading zero.  *)
EncodeInt(val, kind) ==
  LET bytes == Unsigned(Signed(val, Word32) % Word32)
      long == IF Signed(val, Word32) > 0 /\ 2 * bytes[1] >= Byte THEN <<0>> \o bytes ELSE bytes
  IN <<Tag(kind, Len(long))>> \o Bytes(long)

(* A floating point number: the exponent, and the mantissa's bytes.        *)
RECURSIVE Exponent(_, _)
Exponent(p, q) ==
  IF p = 0 THEN 0 ELSE IF p >= q THEN 1 + Exponent(p, 2 * q)
  ELSE IF 2 * p < q THEN Exponent(2 * p, q) - 1 ELSE 0

RECURSIVE Mantissa(_, _)
Mantissa(p, q) == IF p = 0 THEN <<>> ELSE <<(p * Byte) \div q>> \o Mantissa((p * Byte) % q, q)

EncodeFloat(p, q) ==
  LET e == Exponent(Magnitude(p), q)
      m == Mantissa(Magnitude(p) * (IF e < 0 THEN 2^(-e) ELSE 1), q * (IF e > 0 THEN 2^e ELSE 1))
  IN <<Tag(IF p < 0 THEN "NegFlt" ELSE "Flt", Len(m))>> \o EncodeInt(e, "Int") \o Bytes(m)

(* Strings: one byte a character, or two after a mark when one needs them. *)
EncodeString(text) ==
  IF \E k \in DOMAIN text : text[k] >= Byte
  THEN EncodeInt(2 * (Len(text) + 1), "String") \o Bytes(<<BOMhi, BOMlo>>)
       \o Bytes(FlattenSeq([k \in DOMAIN text |-> <<text[k] \div Byte, text[k] % Byte>>]))
  ELSE EncodeInt(Len(text), "String") \o Bytes(text)

-----------------------------------------------------------------------------
(* What is being encoded: env gives a closure id its content, a ConsVal    *)
(* whose function is <<"code", name, literals, type, free type>>, or a     *)
(* TplVal.  labelled is the content a label is made for.                   *)

Content(v, env) == IF Is(v, "clos") THEN env[v[2]] ELSE v
IsClosure(v, env) == Is(v, "clos") /\ Is(env[v[2]], "cons")
IsTupleOfCode(v, env) == Is(v, "tpl") /\ \E k \in DOMAIN v[2] : IsClosure(v[2][k], env)

(* The variables of a term, newest first, with their numbers.  The number  *)
(* of a new one is computed from the chain as the code does it.            *)
RECURSIVE NextNumber(_, _)
NextNumber(chain, no) ==
  IF chain = <<>> THEN no
  ELSE NextNumber(Tail(chain), IF Head(chain)[2] > no THEN Head(chain)[2] + 1 ELSE no)

RECURSIVE CollectTvars(_, _, _, _), CollectEach(_, _, _, _)
CollectTvars(v, stack, chain, env) ==
  LET c == Content(v, env)
      deeper == IF Is(v, "clos") THEN stack \cup {v} ELSE stack
  IN IF v \in stack THEN chain
     ELSE CASE Is(c, "var") ->
                 IF \E k \in DOMAIN chain : chain[k][1] = c THEN chain
                 ELSE <<<<c, NextNumber(chain, 0)>>>> \o chain
            [] Is(c, "pair") -> CollectTvars(c[3], deeper, CollectTvars(c[2], deeper, chain, env), env)
            [] Is(c, "cons") -> CollectEach(c[3], deeper, chain, env)
            [] Is(c, "tpl") -> CollectEach(c[2], deeper, chain, env)
            [] Is(c, "any") -> CollectTvars(c[3], deeper, CollectTvars(c[2], deeper, chain, env), env)
            [] OTHER -> chain
CollectEach(els, stack, chain, env) ==
  FoldLeft(LAMBDA ch, v : CollectTvars(v, stack, ch, env), chain, els)

Written(out) == [ret |-> "Ok", out |-> out]
Failed(out) == [ret |-> "Error", out |-> out]

(* What is written after r, and its verdict; r's own verdict is lost.      *)
After(r, s) == [ret |-> s.ret, out |-> r.out \o s.out]

(* chain holds the labelled terms this one is inside of, innermost first.  *)
RECURSIVE Encode(_, _, _, _), EncodeEach(_, _, _, _), EncodeCode(_, _, _)
Encode(v, chain, tvars, env) ==
  LET c == Content(v, env)
      met == {k \in DOMAIN chain : chain[k][1] = v}
      numbered == {k \in DOMAIN tvars : tvars[k][1] = v}
      ref == IF chain = <<>> THEN 0 ELSE chain[1][2] + 1
      labelled == (Is(v, "clos") /\ Is(c, "cons")) \/ IsTupleOfCode(c, env)
      link == IF labelled THEN <<<<v, ref>>>> \o chain ELSE chain
      label == IF labelled THEN EncodeInt(ref, "Tag") ELSE <<>>
  IN IF Is(v, "clos") /\ met # {}
     THEN Written(EncodeInt(chain[CHOOSE k \in met : \A j \in met : k <= j][2], "Ref"))
     ELSE
     CASE Is(c, "var") ->
            IF numbered = {} THEN Failed(<<>>)
            ELSE Written(EncodeInt(tvars[CHOOSE k \in numbered : TRUE][2], "Variable"))
       [] Is(c, "int") -> Written(EncodeInt(c[2], "Int"))
       [] Is(c, "flt") -> Written(EncodeFloat(c[2], c[3]))
       [] Is(c, "chr") -> Written(EncodeInt(c[2], "Char"))
       [] Is(c, "sym") -> Written(EncodeInt(Len(c[2]), "Sym") \o Bytes(c[2]))
       [] Is(c, "sys") -> Written(<<Tag("Sys", c[2])>>)
       [] Is(c, "code") -> EncodeCode(c, tvars, env)
       [] Is(c, "nil") -> Written(<<Tag("Nil", 0)>>)
       [] Is(c, "pair") ->
            IF IsListOfChars(c) THEN Written(EncodeString(Text(c)))
            ELSE After(After(Written(<<Tag("List", 1)>>), Encode(c[2], chain, tvars, env)),
                       Encode(c[3], chain, tvars, env))
       [] Is(c, "hdl") ->
            After(After(Written(<<Tag("Hdl", 3)>>), Encode(c[2], chain, tvars, env)),
                  Encode(c[3], chain, tvars, env))
       [] Is(c, "cons") ->
            After(After(Written(label \o EncodeInt(Len(c[3]), "Struct")), Encode(c[2], <<>>, tvars, env)),
                  EncodeEach(c[3], link, tvars, env))
       [] Is(c, "tpl") ->
            After(Written(label \o EncodeInt(Len(c[2]), "Struct") \o <<Tag("Sys", "()")>>),
                  EncodeEach(c[2], link, tvars, env))
       [] Is(c, "any") ->
            After(After(Written(<<Tag("Signed", 4)>>), Encode(c[2], chain, tvars, env)),
                  Encode(c[3], chain, tvars, env))
       [] OTHER -> Failed(<<>>)
EncodeEach(els, chain, tvars, env) ==
  IF els = <<>> THEN Written(<<>>)
  ELSE LET first == Encode(Head(els), chain, tvars, env)
       IN IF first.ret # "Ok" THEN first ELSE After(first, EncodeEach(Tail(els), chain, tvars, env))
(* A code segment is written apart, and its length goes before it; what    *)
(* its literals and types answer is not asked.                             *)
EncodeCode(c, tvars, env) ==
  LET lits == [k \in DOMAIN c[3] |-> Encode(c[3][k], <<>>, tvars, env).out]
      block == <<Tag("Signature", 0)>> \o EncodeInt(Len(lits), "Int") \o <<Tag("Instructions", c[2])>>
               \o FlattenSeq(lits) \o Encode(c[4], <<>>, tvars, env).out
               \o Encode(c[5], <<>>, tvars, env).out
  IN Written(EncodeInt(Len(block), "Code") \o block)

EncodeICM(v, env) == Encode(v, <<>>, CollectTvars(v, {}, <<>>, env), env)

-----------------------------------------------------------------------------
(* Decoding.  A reader holds the tokens left, the labels and variables met,*)
(* the structures built under a label, the last value with its verdict,    *)
(* and what its buffers hold from before: whether the text buffer begins   *)
(* with the swapped mark, and a byte past the end of the byte buffer.      *)

Leftovers == [swapped : BOOLEAN, byte : {0, Byte - 1}]

Reader(in, left) ==
  [in |-> in, left |-> left, lbls |-> << >>, tvars |-> <<>>, env |-> <<>>, ret |-> "Ok", val |-> Nil]

Answered(st, v) == [st EXCEPT !.val = v, !.ret = "Ok"]
Refused(st, why) == [st EXCEPT !.ret = why]
Skip(st, n) == [st EXCEPT !.in = SubSeq(@, n + 1, Len(@))]

(* decInt: the first byte is signed; a length of zero is itself encoded.   *)
RECURSIVE DecInt(_, _)
DecInt(st, tag) ==
  LET counted == IF tag[2] = 0 THEN DecInt(Skip(st, 1), Head(st.in)) ELSE Answered(st, IntVal(tag[2]))
      n == counted.val[2]
      first == Signed(counted.in[1][2], Byte)
  IN Answered(Skip(counted, n),
              IntVal(FoldLeft(LAMBDA acc, k : Signed(acc * Byte + counted.in[k][2], Word64), first,
                              [k \in 1 .. n - 1 |-> k + 1])))

ByteAt(st, k) == st.in[k][2]

(* The text buffer is asked for the swapped mark before it is filled.  Of  *)
(* an odd number of bytes the last pair reads one more.                    *)
DecodeString(st, len) ==
  LET raw == [k \in 1 .. len + 1 |-> IF k <= len THEN ByteAt(st, k) ELSE st.left.byte]
      marked == len >= 2 /\ raw[1] = BOMhi /\ raw[2] = BOMlo
      swapped == len >= 2 /\ ~marked /\ st.left.swapped
      pairs == 1 .. (len - 1) \div 2
      text == IF marked THEN [k \in pairs |-> raw[2 * k + 1] * Byte + raw[2 * k + 2]]
              ELSE IF swapped THEN [k \in pairs |-> raw[2 * k + 2] * Byte + raw[2 * k + 1]]
              ELSE SubSeq(raw, 1, len)
  IN Answered(Skip(st, len), AllocateString(text))

(* The mantissa is summed from its last byte.                              *)
DecodeFloat(st, len, neg) ==
  LET e == DecInt(Skip(st, 1), Head(st.in))
      digits == [k \in 1 .. len |-> ByteAt(e, k)]
      p == FoldLeft(LAMBDA n, d : n * Byte + d, 0, digits)
      up == IF e.val[2] > 0 THEN 2^(e.val[2]) ELSE 1
      down == IF e.val[2] < 0 THEN 2^(-e.val[2]) ELSE 1
  IN Answered(Skip(e, len), AllocateFloat((IF neg THEN -p ELSE p) * up, Byte^len * down))

(* A code segment's type must be that of a function or a procedure.        *)
RECURSIVE ProgramType(_)
ProgramType(t) ==
  /\ Is(t, "cons")
  /\ t[2] \in {<<"sys", "#=>">>, <<"sys", "#{}">>} \/ (t[2] = <<"sys", "#-">> /\ ProgramType(t[3][2]))

RECURSIVE Decode(_, _), DecodeEach(_, _, _), DecodeList(_, _), DecodeStruct(_, _), DecodeCode(_)
Decode(st0, lbl) ==
  LET tag == Head(st0.in)
      st == Skip(st0, 1)
      num == DecInt(st, tag)
      n == num.val[2]
      known == {k \in DOMAIN st.tvars : st.tvars[k] = n}
      tgt == Decode(st, -1)
      name == Decode(tgt, -1)
  IN IF st0.in = <<>> THEN Refused(st0, "Eof")
     ELSE
     CASE tag[1] = "Variable" ->
            IF known # {} THEN Answered(num, VarVal(CHOOSE k \in known : TRUE))
            ELSE Answered([num EXCEPT !.tvars = Append(@, n)], VarVal(Len(st.tvars) + 1))
       [] tag[1] = "Int" -> num
       [] tag[1] = "Flt" -> DecodeFloat(st, tag[2], FALSE)
       [] tag[1] = "NegFlt" -> DecodeFloat(st, tag[2], TRUE)
       [] tag[1] = "Char" -> Answered(num, ChrVal(n))
       [] tag[1] = "Sym" -> Answered(Skip(num, n), SymVal([k \in 1 .. n |-> ByteAt(num, k)]))
       [] tag[1] = "Sys" -> Answered(st, <<"sys", tag[2]>>)
       [] tag[1] = "String" -> DecodeString(num, n)
       [] tag[1] = "Code" ->
            LET inner == DecodeCode([num EXCEPT !.in = SubSeq(@, 1, n)])
            IN [inner EXCEPT !.in = Skip(num, n).in]
       [] tag[1] = "Nil" -> Answered(st, Nil)
       [] tag[1] = "List" -> DecodeList(st, <<>>)
       [] tag[1] = "Hdl" ->
            IF tgt.ret # "Ok" THEN tgt
            ELSE IF ~Is(tgt.val, "sym") THEN Refused(tgt, "Error")
            ELSE IF name.ret # "Ok" THEN name
            ELSE IF ~Is(name.val, "sym") THEN Refused(name, "Error")
            ELSE Answered(name, HdlVal(tgt.val, name.val))
       [] tag[1] = "Signed" ->
            IF tgt.ret # "Ok" THEN tgt
            ELSE IF name.ret # "Ok" THEN name ELSE Answered(name, AnyVal(tgt.val, name.val))
       [] tag[1] = "Struct" -> DecodeStruct([num EXCEPT !.val = IntVal(n)], lbl)
       [] tag[1] = "Tag" -> Decode(num, n)
       [] tag[1] = "Ref" ->
            IF n \in DOMAIN st.lbls THEN Answered(num, st.lbls[n]) ELSE Answered(num, <<"null">>)
       [] OTHER -> Refused(st, "Error")

(* n elements, put in st.val as a tuple, up to the first that is refused.  *)
DecodeEach(st, n, els) ==
  IF n = 0 THEN Answered(st, TplVal(els))
  ELSE LET el == Decode(st, -1)
       IN IF el.ret # "Ok" THEN el ELSE DecodeEach(el, n - 1, Append(els, el.val))

DecodeList(st, els) ==
  LET el == Decode(st, -1)
      rest == Decode(el, -1)
  IN IF el.ret # "Ok" THEN el
     ELSE IF el.in = <<>> THEN Refused(el, "Eof")
     ELSE IF Head(el.in)[1] = "List" THEN DecodeList(Skip(el, 1), Append(els, el.val))
     ELSE IF Head(el.in)[1] = "Nil" THEN Answered(Skip(el, 1), ListOf(Append(els, el.val)))
     ELSE IF rest.ret # "Ok" THEN rest
     ELSE Answered(rest, FoldRight(Pair, Append(els, el.val), rest.val))

\* A slip: the label is given to a structure when it is complete.
DecodeStructLate(st, lbl) ==
  LET n == st.val[2]
      fn == Decode(st, -1)
      els == DecodeEach(fn, n, <<>>)
      id == Len(els.env) + 1
      built == IF fn.val = <<"sys", "()">> THEN els.val ELSE ConsVal(fn.val, els.val[2])
  IN IF fn.ret # "Ok" THEN fn
     ELSE IF els.ret # "Ok" THEN els
     ELSE IF lbl < 0 THEN Answered(els, built)
     ELSE Answered([els EXCEPT !.env = Append(@, built),
                               !.lbls = [k \in DOMAIN @ \cup {lbl} |-> IF k = lbl THEN Closure(id) ELSE @[k]]],
                   Closure(id))

(* A structure: the label names it before its elements are read.           *)
DecodeStruct(st, lbl) ==
  LET n == st.val[2]
      fn == Decode(st, -1)
      id == Len(fn.env) + 1
      named == IF lbl < 0 THEN fn
               ELSE [fn EXCEPT !.env = Append(@, Nil),
                               !.lbls = [k \in DOMAIN @ \cup {lbl} |-> IF k = lbl THEN Closure(id) ELSE @[k]]]
      els == DecodeEach(named, n, <<>>)
      built == IF fn.val = <<"sys", "()">> THEN els.val ELSE ConsVal(fn.val, els.val[2])
  IN IF fn.ret # "Ok" THEN fn
     ELSE IF els.ret # "Ok" THEN els
     ELSE IF lbl < 0 THEN Answered(els, built)
     ELSE Answered([els EXCEPT !.env[id] = built], Closure(id))

DecodeCode(st) ==
  LET lits == DecInt(Skip(st, 2), st.in[2])
      name == Head(lits.in)[2]
      each == DecodeEach(Skip(lits, 1), lits.val[2], <<>>)
      type == Decode(each, -1)
      free == Decode(type, -1)
  IN IF Head(st.in)[1] # "Signature" THEN Refused(st, "Error")
     ELSE IF each.ret # "Ok" THEN each
     ELSE IF type.ret # "Ok" THEN type
     ELSE IF ~ProgramType(type.val) THEN Refused(type, "Error")
     ELSE IF free.ret # "Ok" THEN free
     ELSE Answered(free, <<"code", name, each.val[2], type.val, free.val>>)

DecodeICM(in, left) == Decode(Reader(in, left), -1)
=============================================================================
