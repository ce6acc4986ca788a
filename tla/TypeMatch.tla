----------------------------- MODULE TypeMatch ------------------------------
(***************************************************************************)
(* Matching types while a program runs (types.c): type variables are bound *)
(* as two types are matched, and what was bound is remembered in one list, *)
(* resets, for all processes.  The instructions that use it are those of   *)
(* evaluate.c: a pattern clears the list (urst), matches types (uvar, ulit,*)
(* utpl, ucns), and a pattern that fails takes the bindings back (undo).   *)
(* A type is a symbol <<"sys", name>>, a variable <<"var", v>>, a tuple    *)
(* <<"tpl", types>> or a constructor <<"cons", fn, types>>; the quantified *)
(* type has a variable as its first element.                               *)
(***************************************************************************)
EXTENDS Integers, Sequences, SequencesExt

CONSTANTS Registers,               \* the frame's cells that hold types
          Given,                   \* how many variables the types start with
          Variables,               \* how many variables are ever allocated
          Types,                   \* the types of the code's literals
          Bindings,                \* the length the list is let grow to
          Deep                     \* matching deeper than this goes on for ever

VARIABLES regs,                    \* the type in each cell
          val,                     \* the value of each variable allocated so far
          resets,                  \* the variables bound, newest first
          matched,                 \* the last match: its types and its answer
          restored                 \* what val was when resets was last emptied

typeVars == <<regs, val, resets, matched, restored>>

Variable(v) == <<"var", v>>
AllQ == <<"sys", "#-">>

RECURSIVE DeRef(_, _)
DeRef(t, env) ==
  IF t[1] = "var" /\ env[t[2]] # t THEN DeRef(env[t[2]], env) ELSE t

IsVariable(t) == t[1] = "var"

(* A match in progress: the bindings and the verdict.                      *)
Matching(env, list) == [val |-> env, resets |-> list, ret |-> "Ok"]
Ends(m, ret) == [m EXCEPT !.ret = ret]

\* A slip: the binding is made and not remembered.
BindVarUnseen(m, v, t) == [m EXCEPT !.val[v[2]] = t]

BindVar(m, v, t) == [m EXCEPT !.val[v[2]] = t, !.resets = <<v>> \o @]

(* lbound and rbound are the quantified variables on either side.          *)
RECURSIVE Match(_, _, _, _, _, _), MatchEach(_, _, _, _, _, _)
Match(m, left, lbound, right, rbound, depth) ==
  LET l == DeRef(left, m.val)
      r == DeRef(right, m.val)
      ql == DeRef(l[3][1], m.val)
      qr == DeRef(r[3][1], m.val)
  IN CASE depth = 0 -> Ends(m, "Loops")
       [] depth > 0 /\ IsVariable(r) ->
            IF r \notin rbound THEN BindVar(m, r, l)
            ELSE IF ~IsVariable(l) THEN Ends(m, "Fail")
            ELSE IF l \in lbound THEN m ELSE BindVar(m, l, r)
       [] depth > 0 /\ ~IsVariable(r) /\ IsVariable(l) ->
            IF l \in lbound THEN Ends(m, "Fail") ELSE BindVar(m, l, r)
       [] depth > 0 /\ ~IsVariable(r) /\ l[1] = "sys" -> IF l = r THEN m ELSE Ends(m, "Fail")
       [] depth > 0 /\ ~IsVariable(r) /\ l[1] = "tpl" ->
            IF r[1] = "tpl" /\ Len(r[2]) = Len(l[2])
            THEN MatchEach(m, l[2], lbound, r[2], rbound, depth - 1)
            ELSE Ends(m, "Fail")
       [] depth > 0 /\ ~IsVariable(r) /\ l[1] = "cons" ->
            IF r[1] # "cons" \/ r[2] # l[2] THEN Ends(m, "Fail")
            ELSE IF l[2] = AllQ
                 THEN IF IsVariable(ql) /\ IsVariable(qr)
                      THEN Match(m, l[3][2], lbound \cup {ql}, r[3][2], rbound \cup {qr}, depth - 1)
                      ELSE Ends(m, "Fail")
            ELSE IF Len(l[3]) # Len(r[3]) THEN Ends(m, "Fail")
            ELSE MatchEach(m, l[3], lbound, r[3], rbound, depth - 1)
\* A slip: the bindings the first element made are forgotten for the rest.
MatchEachAlone(m, ls, lbound, rs, rbound, depth) ==
  LET each == [k \in DOMAIN ls |-> Match(m, ls[k], lbound, rs[k], rbound, depth)]
      bad == {k \in DOMAIN ls : each[k].ret # "Ok"}
  IN IF ls = <<>> THEN m ELSE IF bad # {} THEN each[CHOOSE k \in bad : TRUE] ELSE each[Len(ls)]
MatchEach(m, ls, lbound, rs, rbound, depth) ==
  IF ls = <<>> THEN m
  ELSE LET first == Match(m, Head(ls), lbound, Head(rs), rbound, depth)
       IN IF first.ret # "Ok" THEN first
          ELSE MatchEach(first, Tail(ls), lbound, Tail(rs), rbound, depth)

(* Every variable in the list becomes its own value again.                 *)
Undone(m) ==
  [m EXCEPT !.resets = <<>>,
            !.val = [v \in DOMAIN m.val |->
                       IF \E k \in DOMAIN m.resets : m.resets[k] = Variable(v) THEN Variable(v) ELSE m.val[v]]]

UnifyTypes(env, list, left, right) ==
  LET m == Match(Matching(env, list), left, {}, right, {}, Deep)
  IN IF m.ret = "Ok" THEN m ELSE Ends(Undone(m), m.ret)

-----------------------------------------------------------------------------
(* The instructions.                                                       *)

NoMatch == [left |-> AllQ, right |-> AllQ, ret |-> "none"]

TypesInit ==
  /\ val = [v \in 1 .. Given |-> Variable(v)]
  /\ regs \in [Registers -> {Variable(1)}]
  /\ resets = <<>>
  /\ matched = NoMatch
  /\ restored = val

Unify(left, right) ==
  LET m == UnifyTypes(val, resets, left, right)
  IN /\ m.ret # "Loops"
     /\ Len(m.resets) <= Bindings
     /\ val' = m.val
     /\ resets' = m.resets
     /\ matched' = [left |-> left, right |-> right, ret |-> m.ret]
     /\ UNCHANGED <<regs, restored>>

(* ivar: a new variable in a cell.                                         *)
Ivar(c) ==
  /\ Len(val) < Variables
  /\ val' = Append(val, Variable(Len(val) + 1))
  /\ restored' = Append(restored, Variable(Len(val) + 1))
  /\ regs' = [regs EXCEPT ![c] = Variable(Len(val) + 1)]
  /\ matched' = NoMatch
  /\ UNCHANGED resets

(* uvar, ulit and the escape _match: two cells, or a cell and a literal.   *)
Uvar(c, d) == Unify(regs[c], regs[d])
Ulit(c, t) == Unify(regs[c], t)

(* utpl, ucns: a variable becomes a tuple or a constructor of ar new       *)
(* variables, a constructor's function among them; a ready structure of    *)
(* that size is left as it is.                                             *)
Fresh(n, ar) == [k \in 1 .. ar |-> Variable(n + k)]
Build(c, new, shape) ==
  LET t == DeRef(regs[c], val)
      grown == val \o Fresh(Len(val), new)
      m == BindVar(Matching(grown, resets), t, shape)
  IN /\ IsVariable(t)
     /\ Len(grown) <= Variables
     /\ Len(m.resets) <= Bindings
     /\ val' = m.val
     /\ resets' = m.resets
     /\ restored' = restored \o Fresh(Len(val), new)
     /\ matched' = NoMatch
     /\ UNCHANGED regs
Utpl(c, ar) == Build(c, ar, <<"tpl", Fresh(Len(val), ar)>>)
Ucns(c, ar) == Build(c, ar + 1, <<"cons", Variable(Len(val) + 1), Fresh(Len(val) + 1, ar)>>)

(* urst: what is bound now stays bound.  undo takes the bindings back.     *)
Urst == /\ resets' = <<>>
        /\ restored' = val
        /\ matched' = NoMatch
        /\ UNCHANGED <<regs, val>>
Undo == /\ val' = Undone(Matching(val, resets)).val
        /\ resets' = <<>>
        /\ matched' = NoMatch
        /\ UNCHANGED <<regs, restored>>

TypesNext ==
  \/ \E c \in Registers : Ivar(c)
  \/ \E c, d \in Registers : Uvar(c, d)
  \/ \E c \in Registers, t \in Types : Ulit(c, t)
  \/ \E c \in Registers, ar \in 1 .. 2 : Utpl(c, ar) \/ Ucns(c, ar)
  \/ Urst
  \/ Undo

-----------------------------------------------------------------------------
(* Properties.                                                             *)

RECURSIVE Same(_, _, _, _)
Same(left, right, bound, depth) ==
  LET l == DeRef(left, val)
      r == DeRef(right, val)
      Each(ls, rs, b) ==
        Len(ls) = Len(rs) /\ \A k \in DOMAIN ls : Same(ls[k], rs[k], b, depth - 1)
  IN \/ depth = 0
     \/ l = r
     \/ l \in bound /\ r \in bound
     \/ l[1] = "tpl" /\ r[1] = "tpl" /\ Each(l[2], r[2], bound)
     \/ l[1] = "cons" /\ r[1] = "cons" /\ l[2] = r[2]
        /\ Each(l[3], r[3], IF l[2] = AllQ THEN bound \cup {l[3][1], r[3][1]} ELSE bound)

(* Two types that matched are one type with the bindings that were made    *)
(* for it and those made before, up to the names of quantified variables:  *)
(* a value whose type has matched is used at the other from then on.       *)
MatchUnifies ==
  matched.ret = "Ok" => Same(matched.left, matched.right, {}, Deep)

(* Taking back what the list names gives exactly the bindings there were   *)
(* when it was last emptied: a pattern that failed half way leaves nothing *)
(* bound, also when it failed inside a match.                              *)
UndoRestores == Undone(Matching(val, resets)).val = restored

(* A match binds what it must, and taking it back unbinds no more.         *)
MatchBindsRight == MatchUnifies /\ UndoRestores
=============================================================================
