----------------------------- MODULE Dependencies -----------------------------
(***************************************************************************)
(* The definitions of a theta expression put into groups that refer to each   *)
(* other, by a depth-first search that numbers them (Compiler/depends.c).     *)
(* Of the body of a definition only what the search looks at is kept:         *)
(*   <<"ref", x>>              a name                                         *)
(*   <<"app", parts>>          a name applied to arguments, the name first    *)
(*   <<"parts", parts>>        a tuple, a list, or an operator's operands      *)
(*   <<"scope", xs, parts>>    a sequence that defines the names xs            *)
(***************************************************************************)
EXTENDS Integers, Sequences, SequencesExt, FiniteSets, FiniteSetsExt, Functions

\* defs is a sequence of [name, body].  marker: -1 not yet seen, 0 in a group,
\* otherwise its number; stack: those with a number; groups: sequences of names.
Ungrouped(defs) ==
  [marker |-> [x \in {defs[k].name : k \in DOMAIN defs} |-> -1],
   stack |-> <<>>, groups |-> <<>>, daCount |-> 1]
findDep(x, defs) == {k \in DOMAIN defs : defs[k].name = x}
Reaches(low, d) == [low |-> low, d |-> d]

minPoint(x, y) == IF x <= y \/ y = 0 THEN x ELSE y

RECURSIVE analyseBody(_, _, _, _)

\* The parts one after the other, from the point low on.
analyseParts(parts, low, defs, d, local) ==
  FoldLeft(LAMBDA a, p : LET b == analyseBody(p, defs, a.d, local) IN
                         Reaches(minPoint(a.low, b.low), b.d),
           Reaches(low, d), parts)

Numbered(x, d) ==
  [d EXCEPT !.marker[x] = d.daCount, !.stack = Append(@, x), !.daCount = @ + 1]
\* x and what is above it on the stack are a group.
CloseGroup(x, d) ==
  LET at == CHOOSE j \in DOMAIN d.stack : d.stack[j] = x
      group == SubSeq(d.stack, at, Len(d.stack))
  IN [d EXCEPT !.stack = SubSeq(@, 1, at - 1), !.groups = Append(@, group),
               !.marker = [y \in DOMAIN @ |-> IF Contains(group, y) THEN 0 ELSE @[y]]]
\* A slip: a definition that was reached from one still on the stack closes a
\* group of its own.
CloseAlone(x, base, a) == Reaches(minPoint(base, a.low), CloseGroup(x, a.d))
\* If nothing below x reaches further up the stack, its group is complete.
CloseIfLowest(x, base, a) ==
  LET low == minPoint(base, a.low) IN Reaches(low, IF low # base THEN a.d ELSE CloseGroup(x, a.d))

\* The search of one definition.
markDependency(k, defs, d) ==
  LET x == defs[k].name IN
  CloseIfLowest(x, d.daCount, analyseBody(defs[k].body, defs, Numbered(x, d), {}))

analyseName(x, defs, d, local) ==
  LET known == findDep(x, defs) IN
  IF x \in local \/ known = {} THEN Reaches(d.daCount, d)
  ELSE IF d.marker[x] = -1 THEN markDependency(Min(known), defs, d)
  ELSE Reaches(d.marker[x], d)

analyseBody(body, defs, d, local) ==
  CASE body[1] = "ref" -> analyseName(body[2], defs, d, local)
    [] body[1] = "app" -> LET f == analyseBody(body[2][1], defs, d, local) IN
                          analyseParts(Tail(body[2]), f.low, defs, f.d, local)
    [] body[1] = "parts" -> analyseParts(body[2], d.daCount, defs, d, local)
    [] body[1] = "scope" -> analyseParts(body[3], d.daCount, defs, d, local \cup body[2])

\* etaDepend: the groups, each a sequence of names, in the order they are
\* checked.
Groups(defs) ==
  FoldLeft(LAMBDA d, k : IF d.marker[defs[k].name] = -1 THEN markDependency(k, defs, d).d ELSE d,
           Ungrouped(defs), [k \in DOMAIN defs |-> k]).groups

\* A slip: the definitions are checked as they are written, one by one.
AsWritten(defs) == [k \in DOMAIN defs |-> <<defs[k].name>>]
analyseDependencies(defs) == Groups(defs)

(***************************************************************************)
(* What the groups are for, stated without the search.                        *)
(***************************************************************************)
RECURSIVE Names(_)
Names(body) ==
  CASE body[1] = "ref" -> {body[2]}
    [] body[1] \in {"app", "parts"} -> UNION {Names(body[2][k]) : k \in DOMAIN body[2]}
    [] body[1] = "scope" -> UNION {Names(body[3][k]) : k \in DOMAIN body[3]} \ body[2]
References(defs) ==
  {<<defs[k].name, defs[j].name>> : k, j \in DOMAIN defs} \cap
    UNION {{defs[k].name} \X Names(defs[k].body) : k \in DOMAIN defs}
RECURSIVE Closed(_)
Closed(rel) ==
  LET more == rel \cup {<<p[1][1], p[2][2]>> : p \in {q \in rel \X rel : q[1][2] = q[2][1]}}
  IN IF more = rel THEN rel ELSE Closed(more)

GroupOf(x, groups) == CHOOSE g \in DOMAIN groups : Contains(groups[g], x)
\* Every definition is in one group; names are in one group exactly when each
\* reaches the other; and a name used is in the same or in an earlier group.
WellGrouped(defs, groups) ==
  LET names == {defs[k].name : k \in DOMAIN defs}
      uses == References(defs)
      reach == Closed(uses)
  IN /\ \A x \in names : Cardinality({g \in DOMAIN groups : Contains(groups[g], x)}) = 1
     /\ \A x, y \in names : x # y =>
          (GroupOf(x, groups) = GroupOf(y, groups) <=> <<x, y>> \in reach /\ <<y, x>> \in reach)
     /\ \A u \in uses : GroupOf(u[2], groups) <= GroupOf(u[1], groups)
=============================================================================
