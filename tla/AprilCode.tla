------------------------------ MODULE AprilCode ------------------------------
(***************************************************************************)
(* The instructions the compiler emits and the emulator executes.  An     *)
(* instruction is a tuple: the mnemonic, then its operands in the order    *)
(* genIns takes them.  Local variables are named by their offset from the  *)
(* frame pointer (locals -1, -2, ...; arguments 3, 4, ...).  While code is *)
(* being generated a label is a pseudo-instruction <<"label", L>> and a    *)
(* jump names L; Assemble turns the names into positions.                  *)
(***************************************************************************)
EXTENDS Integers, Sequences, SequencesExt, FiniteSets, FiniteSetsExt

\* Values.  A list pair lives in the heap (collect expressions update it in
\* place), so a non-empty list is a reference; everything else is immutable.
Number(n) == <<"int", n>>
Symbol(s) == <<"sym", s>>
NilCell == <<"nil">>
VoidCell == <<"void">>
ListRef(n) == <<"ref", n>>
Record(els) == <<"tuple", els>>
Closure(f) == <<"closure", f>>
Yes == Symbol("true")
No == Symbol("false")
\* A cell nobody has written since it last fell below the live stack, and the
\* words of a frame or of an error block, which are no values.
Junk == <<"junk">>
Raw(n) == <<"raw", n>>

\* genError's exception: error(message, code); the message is left out.
Failure(code) == Record(<<Symbol("error"), Symbol("message"), Symbol(code)>>)

\* The jump operand of an instruction, by position; 0 when it has none.
LabelAt(op) ==
  CASE op = "jmp" -> 2
    [] op \in {"mnil", "iffalse", "iftrue", "errblk"} -> 3
    [] OTHER -> 0

Label(L) == <<"label", L>>
IsLabel(ins) == ins[1] = "label"

\* Instructions that skip the word after them: a match when it succeeds, a
\* comparison when it fails.  The word they may skip is a jump.
Matches == {"mlit", "mlist", "prefix"}
Compares == {"eq", "neq", "feq", "fneq", "fle", "fgt"}

\* DefLabel and the fixups: the position each label names, and the code with
\* the names replaced by positions.
Assemble(code) ==
  LET here(k) == Cardinality({j \in 1..k : ~IsLabel(code[j])}) + 1
      defs == {k \in 1..Len(code) : IsLabel(code[k])}
      at == [L \in {code[k][2] : k \in defs} |->
               here(CHOOSE k \in defs : code[k][2] = L)]
      fix(ins) == LET p == LabelAt(ins[1]) IN
                  IF p = 0 THEN ins ELSE [ins EXCEPT ![p] = at[ins[p]]]
  IN SelectSeq([k \in 1..Len(code) |-> fix(code[k])], LAMBDA ins : ~IsLabel(ins))

\* The operands that name local variables, by position: what genIns shows to
\* setMaxDepth.
Locals(ins) ==
  LET op == ins[1]
      at == CASE op \in {"move", "lstpr", "ulst", "mlist", "prefix", "nthel",
                        "plus", "minus", "times", "add2lst", "lsupdte"} \cup Compares ->
                   2..Len(ins)
              [] op \in {"loc2tpl", "loc2cns", "indxfld", "consfld", "incr", "call"} -> {2, 4}
              [] op \in {"tpupdte"} -> {2, 4}
              [] op \in {"movl", "result"} -> {3}
              [] op \in {"initv", "mlit", "mnil", "mcons", "mcnsfun", "iffalse", "iftrue",
                         "errblk", "errend", "generr", "moverr", "ijmp", "hjmp"} -> {2}
              [] OTHER -> {}
  IN {ins[p] : p \in at}

\* The hash of a symbol.
uniHash(sym) == CASE sym = "red" -> 5 [] sym = "green" -> 8 [] sym = "blue" -> 10 [] OTHER -> 4

\* A slip: one cell is forgotten.
MaxDepthShort(code) == Min({0} \cup UNION {Locals(code[k]) : k \in 1..Len(code)}) + 1
\* The deepest local of a piece of code; it becomes the operand of allocv.
MaxDepth(code) == Min({0} \cup UNION {Locals(code[k]) : k \in 1..Len(code)})
=============================================================================
