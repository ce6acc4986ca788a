------------------------------- MODULE MCFiles -------------------------------
(***************************************************************************)
(* Two processes and five files: lines of text, coded terms, a connection, *)
(* and an output that may break.                                          *)
(***************************************************************************)
EXTENDS Files

CONSTANTS p1, p2, lines, nested, terms, remote, out

mcFiles == {lines, nested, terms, remote, out}
mcScript ==
  [f \in mcFiles |->
     CASE f = lines -> <<113, 10, 114, 115>>
       [] f = nested -> <<40, 34, 41, 34, 91, 93, 41, 10, 123>>
       [] f = terms -> <<113, 6 * 16 + 2, 0, 2, 7, 113, 6 * 16 + 1, 3, 7>>
       [] f = remote -> <<113, 114>>
       [] f = out -> <<>>]
mcEnding == [f \in mcFiles |-> CASE f \in {lines, nested, terms} -> "eof" [] f = remote -> "err" [] f = out -> "err"]
mcDirection == [f \in mcFiles |-> CASE f = remote -> "both" [] f = out -> "out" [] OTHER -> "in"]

Do(op, f, n) == [op |-> op, f |-> f, n |-> n, q |-> p1, valid |-> TRUE]
Stop(q, f) == [Do("interrupt", f, 0) EXCEPT !.q = q]
Bad(op) == [Do(op, lines, 1) EXCEPT !.valid = FALSE]
Both(a, b) == [p \in {p1, p2} |-> IF p = p1 THEN a ELSE b]

mcReads == {Do("inchars", lines, 2), Do("inline", lines, 0), Do("intext", lines, 0), Do("inchar", lines, 0), Do("eof", lines, 0), Do("read", lines, 0)}
mcReaders ==
  {Both(<<a, b>>, <<c>>) : a \in mcReads, b \in mcReads,
     c \in {Do("inbytes", lines, 2), Do("inline", lines, 0), Do("inascii", lines, 0), Stop(p1, lines)}}
mcNested ==
  {Both(<<a, Do("binline", nested, 0)>>, <<Do("eof", nested, 0)>>) : a \in {Do("binline", nested, 0), Do("inchars", nested, 1), Do("inchars", nested, 4), Do("inchars", nested, 9)}}
mcTerms ==
  {Both(<<a, Do("decode", terms, 0)>>, <<b>>) : a \in {Do("inchars", terms, 1), Do("decode", terms, 0), Do("ready", terms, 0)}, b \in {Do("decode", terms, 0), Do("ftell", terms, 0)}}
mcWrites == {Do("outchar", out, 3), Do("outch", out, 1), Do("encode", out, 1), Do("flush", out, 0), Do("ftell", out, 0), Do("ready", out, 0), Bad("outchar")}
mcWriters ==
  {Both(<<a, b>>, <<Do("outbytes", out, 3)>>) : a \in {Do("outchar", out, 3), Do("outch", out, 1)}, b \in mcWrites}
  \cup {Both(<<a>>, <<b>>) : a \in mcWrites, b \in {Do("encode", out, 1), Do("eof", out, 0)}}
mcSockets ==
  {Both(<<Do("connect", remote, 0)>> \o a, <<b>>) :
     a \in {<<Do("eof", remote, 0), Do("outchar", remote, 3)>>, <<Do("inchar", remote, 0), Do("inline", remote, 0)>>, <<Do("outchar", remote, 3), Do("inline", remote, 0)>>},
     b \in {Stop(p1, remote), Do("outch", remote, 2), Do("inchar", lines, 0)}}
mcOpening ==
  {Both(<<Do("fopen", lines, 0), a, Do("fclose", lines, 0), Do("eof", lines, 0)>>, <<b>>) : a \in {Do("dupfile", lines, 0), Do("inline", lines, 0)}, b \in {Do("eof", lines, 0), Do("inchar", lines, 0)}}
mcAccepting ==
  {Both(<<Do("accept", f, 0), Do("accept", f, 0)>>, <<Do("accept", f, 0)>>) : f \in {remote, lines}}

mcPrograms == mcReaders \cup mcNested \cup mcTerms \cup mcWriters \cup mcSockets \cup mcOpening \cup mcAccepting
=============================================================================
