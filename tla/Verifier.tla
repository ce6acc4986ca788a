------------------------------- MODULE Verifier -------------------------------
(***************************************************************************)
(* The code verifier: run over every function before it is used.  It follows *)
(* which locals have been given a value and which depth of the stack the      *)
(* collector will look at.  The code is split into segments at its jumps.     *)
(***************************************************************************)
EXTENDS AprilCode

LOCAL_CELLS == 128

(***************************************************************************)
(* splitPhase: where segments begin.                                         *)
(***************************************************************************)
\* The words after these may not be reached from them.
Leaving(ins) == ins[1] \in {"generr", "result"}
SegmentStarts(code) ==
  {1} \cup {code[k][LabelAt(code[k][1])] : k \in {j \in 1..Len(code) : LabelAt(code[j][1]) # 0}}
      \cup {k + 1 : k \in {j \in 1..(Len(code) - 1) :
                             LabelAt(code[j][1]) # 0 \/ Leaving(code[j])}}
SegmentEnd(code, first) ==
  Min({k - 1 : k \in {j \in SegmentStarts(code) : j > first}} \cup {Len(code)})

(***************************************************************************)
(* The state of the locals: which have a value, and the deepest there is.     *)
(***************************************************************************)
InitedCheck(fr, arity, off) ==
  /\ off \in 3..(arity + 3) \/ off \in fr.limit..(-1)
  /\ off \in fr.inited
InitedSet(fr, arity, off) == off <= arity + 3 /\ off \notin 0..2 /\ off >= fr.limit

\* The collector will look at everything from this depth on.
DepthCheck(fr, depth) == depth <= 0 /\ depth >= fr.limit /\ depth..(-1) \subseteq fr.inited
Above(fr, depth) == {off \in fr.inited : off >= depth}
set_depth(fr, depth) == Above(fr, depth) \cup depth..(-1)

(***************************************************************************)
(* One rule for each instruction: the locals it needs, those it gives a       *)
(* value, the depth it must be able to save, and the word it may skip.        *)
(***************************************************************************)
Rule(needs, gives) == [needs |-> needs, gives |-> gives, saves |-> {}, skips |-> FALSE]

MoveRule(ins) ==
  CASE ins[1] = "movl" -> Rule({}, {ins[3]})
    [] ins[1] = "move" -> Rule({ins[2]}, {ins[3]})
    [] ins[1] \in {"initv", "moverr"} -> Rule({}, {ins[2]})

JumpRule(ins) ==
  CASE ins[1] \in {"iftrue", "iffalse", "mnil", "ijmp", "hjmp"} -> Rule({ins[2]}, {})
    [] ins[1] = "errblk" -> Rule({}, {ins[2], ins[2] + 1})
    [] ins[1] \in {"errend", "generr"} -> Rule({ins[2]}, {})
    [] ins[1] = "result" -> Rule({ins[3]}, {})
    [] ins[1] = "jmp" -> Rule({}, {})

MatchRule(ins) ==
  LET r == CASE ins[1] \in {"mlit", "mcons", "mcnsfun"} -> Rule({ins[2]}, {})
             [] ins[1] = "mlist" -> Rule({ins[2]}, {ins[3], ins[4]})
             [] ins[1] = "prefix" -> Rule({ins[2], ins[3]}, {ins[4]})
             [] ins[1] \in Compares -> Rule({ins[2], ins[3]}, {})
  IN [r EXCEPT !.skips = TRUE]

BuildRule(ins) ==
  CASE ins[1] = "loc2cns" -> Rule(ins[2]..(ins[2] + ins[3]), {ins[4]})
    [] ins[1] = "loc2tpl" -> Rule(ins[2]..(ins[2] + ins[3] - 1), {ins[4]})
    [] ins[1] \in {"consfld", "indxfld"} -> Rule({ins[2]}, {ins[4]})
    [] ins[1] \in {"lstpr", "nthel"} -> Rule({ins[2], ins[3]}, {ins[4]})
    [] ins[1] = "ulst" -> Rule({ins[2]}, {ins[3], ins[4]})
    [] ins[1] \in {"add2lst", "lsupdte"} ->
         [Rule({ins[3], ins[4]}, {ins[3]}) EXCEPT !.saves = {ins[2]}]

ArithRule(ins) ==
  CASE ins[1] \in {"plus", "minus", "times"} -> Rule({ins[2], ins[3]}, {ins[4]})
    [] ins[1] = "incr" -> Rule({ins[2]}, {ins[4]})

RuleOf(ins) ==
  LET op == ins[1] IN
  CASE op \in {"movl", "move", "initv", "moverr"} -> MoveRule(ins)
    [] op \in Matches \cup Compares \cup {"mcons", "mcnsfun"} -> MatchRule(ins)
    [] op \in {"plus", "minus", "times", "incr"} -> ArithRule(ins)
    [] op \in {"loc2cns", "loc2tpl", "consfld", "indxfld", "lstpr", "nthel", "ulst",
               "add2lst", "lsupdte"} -> BuildRule(ins)
    [] OTHER -> JumpRule(ins)

(***************************************************************************)
(* verifySegment.  fr is the state of the locals, [limit, inited], ok whether *)
(* no instruction was refused, skips whether the next word may be skipped.    *)
(***************************************************************************)
\* A slip: the arguments lose their values with the locals.
VerifyAllocvAll(ins, fr) ==
  [fr EXCEPT !.ok = ins[2] \in -LOCAL_CELLS..0, !.limit = ins[2], !.inited = {}]
VerifyAllocv(ins, fr) ==
  [fr EXCEPT !.ok = ins[2] \in -LOCAL_CELLS..0, !.limit = ins[2],
             !.inited = {off \in fr.inited : off > 0}]

VerifyCall(ins, fr, arity) ==
  LET depth == ins[2] IN
  [fr EXCEPT
     !.ok = /\ InitedCheck(fr, arity, ins[4])
            /\ DepthCheck(fr, depth)
            /\ \A k \in 0..(ins[3] - 1) : InitedCheck(fr, arity, depth + k),
     !.inited = set_depth([fr EXCEPT !.inited = Above(fr, depth)], depth + ins[3] - 1)]

VerifyInstruction(ins, fr, arity) ==
  IF ~fr.ok THEN fr
  ELSE IF ins[1] = "allocv" THEN VerifyAllocv(ins, fr)
  ELSE IF ins[1] = "call" THEN VerifyCall(ins, fr, arity)
  ELSE LET r == RuleOf(ins)
           seen == IF r.saves = {} THEN fr.inited ELSE Above(fr, Min(r.saves))
       IN [fr EXCEPT
             !.ok = /\ \A off \in r.needs : InitedCheck([fr EXCEPT !.inited = seen], arity, off)
                    /\ \A off \in r.gives : InitedSet(fr, arity, off)
                    /\ \A depth \in r.saves : DepthCheck(fr, depth),
             !.inited = seen \cup r.gives,
             !.skips = r.skips]

\* A segment hands its state on to the segments that follow it, unless it ends
\* the function.  mergeVariables gives them its depth, and verifySegment goes
\* on to those whose depth is positive.  After allocv it never is: what is
\* verified is the first segment of the function.
RECURSIVE verifySegment(_, _, _, _)
verifySegment(code, first, fr, arity) ==
  LET end == SegmentEnd(code, first)
      run(acc, k) ==
        VerifyInstruction(code[k], [acc EXCEPT !.skips = FALSE, !.before = acc.skips], arity)
      out == FoldLeft(run, fr, [k \in 1..(end - first + 1) |-> first + k - 1])
      last == code[end]
      drifts == ~(Leaving(last) \/ last[1] = "jmp") \/ out.before
      after == (IF drifts /\ end < Len(code) THEN {end + 1} ELSE {})
                 \cup (IF LabelAt(last[1]) # 0 THEN {last[LabelAt(last[1])]} ELSE {})
  IN /\ out.ok
     /\ last[1] # "result" /\ out.limit > 0 =>
          \A next \in after : verifySegment(code, next, out, arity)

\* codeVerify
Verified(code, arity) ==
  verifySegment(code, 1, [limit |-> 1, inited |-> 3..(arity + 2), ok |-> TRUE,
                          skips |-> FALSE, before |-> FALSE], arity)
=============================================================================
