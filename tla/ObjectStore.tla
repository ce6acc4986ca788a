----------------------------- MODULE ObjectStore -----------------------------
(* What the heap promises to programs: objects with a name that lasts as long *)
(* as a process can reach them, whose fields refer to one another. There is   *)
(* no memory and no collector: an object that nobody can reach is simply gone,*)
(* and a symbol or the record of a process has one object for each name.      *)
EXTENDS Naturals, Sequences, SequencesExt, FiniteSets

CONSTANTS Process, Root, Name, Id, Nil

VARIABLES store,   \* the objects that can be reached: their fields name others
          void,    \* the object of the symbol that stands for no value
          holds    \* for each process: whether it lives, and what it refers to

vars == <<store, void, holds>>

Live == {p \in Process : holds[p].live}

\* Names for new objects, which are held and so in the store after the step.
Fresh(S) == Id \cap (DOMAIN store' \ DOMAIN S)

\* What can be reached from the processes and from void.
Reachable(S, H) ==
    LET from == {void} \cup UNION {{H[p].local, H[p].handle} : p \in {q \in Process : H[q].live}}
        More(R, i) == R \cup UNION {ToSet(S[j].at) : j \in R}
    IN  FoldLeft(More, from, [i \in 1 .. Cardinality(DOMAIN S) |-> i])

\* The step to store S and processes H, less what can no longer be reached.
Become(S, H) ==
    /\ holds' = H
    /\ store' = [i \in Reachable(S, H) |-> S[i]]
    /\ UNCHANGED void

Local(p) == holds[p].local
Hold(p, i) == [holds EXCEPT ![p].local = i]

MakePair(p) ==
    \E i \in Fresh(store) :
        Become((i :> [tag |-> "pair", at |-> <<Local(p), void>>]) @@ store, Hold(p, i))

MakeUnit(p) == \E i \in Fresh(store) : Become((i :> [tag |-> "unit", at |-> <<>>]) @@ store, Hold(p, i))

Update(p, q, k) ==
    /\ store[Local(p)].tag = "pair"
    /\ Become([store EXCEPT ![Local(p)].at[k] = Local(q)], holds)

Follow(p, k) == store[Local(p)].tag = "pair" /\ Become(store, Hold(p, store[Local(p)].at[k]))
Pass(p, q) == Become(store, Hold(q, Local(p)))
Drop(p) == Become(store, Hold(p, void))

\* The stores that have the symbol n, with its object.
WithSymbol(S, n) ==
    IF \E i \in DOMAIN S : S[i].tag = "symbol" /\ S[i].name = n
    THEN {<<S, i>> : i \in {j \in DOMAIN S : S[j].tag = "symbol" /\ S[j].name = n}}
    ELSE {<<(i :> [tag |-> "symbol", name |-> n, at |-> <<>>]) @@ S, i>> : i \in Fresh(S)}

\* The stores that have the record of the process named n, which is p if p is one.
WithRecord(S, n, p) ==
    LET those == {i \in DOMAIN S : S[i].tag = "handle" /\ S[i].name = n}
    IN  IF those = {} THEN {<<(i :> [tag |-> "handle", name |-> n, p |-> p, at |-> <<>>]) @@ S, i>> : i \in Fresh(S)}
        ELSE {<<IF p # Nil /\ S[i].p = Nil THEN [S EXCEPT ![i].p = p] ELSE S, i>> : i \in those}

\* A handle for the name n, whose object is i, in a step that leaves holds as H.
BecomeWithHandle(i, n, p, H) ==
    /\ holds' = H
    /\ \E s \in WithSymbol(store, n) : i \notin DOMAIN s[1] /\ \E r \in WithRecord(s[1], n, p) :
           i \notin DOMAIN r[1] /\ Become((i :> [tag |-> "hdl", at |-> <<s[2], r[2]>>]) @@ r[1], H)

Intern(p, n) == \E s \in WithSymbol(store, n) : Become(s[1], Hold(p, s[2]))
Canonical(p, n) == \E i \in Fresh(store) : BecomeWithHandle(i, n, Nil, Hold(p, i))
MakeHandle(p) == store[Local(p)].tag = "symbol" /\ Canonical(p, store[Local(p)].name)

\* A process with a name that no live process has.
ForkNumbered(q, n) ==
    /\ ~holds[q].live
    /\ \A i \in DOMAIN store : store[i].tag = "handle" /\ store[i].name = n => store[i].p = Nil
    /\ \E i \in Fresh(store) :
           BecomeWithHandle(i, n, q, [holds EXCEPT ![q] = [live |-> TRUE, local |-> void, handle |-> i]])

\* The name is that of a handle that p refers to.
Fork(p, q) == store[Local(p)].tag = "hdl" /\ ForkNumbered(q, store[store[Local(p)].at[2]].name)

Terminate(p) ==
    LET record == store[holds[p].handle].at[2] IN
    /\ p # Root
    /\ Become([store EXCEPT ![record].p = Nil], [holds EXCEPT ![p] = [live |-> FALSE, local |-> Nil, handle |-> Nil]])

Init == \E n \in Name, v, s, r, h \in Id \cap DOMAIN store :
    /\ Cardinality({v, s, r, h}) = 4
    /\ void = v
    /\ store = (v :> [tag |-> "symbol", name |-> "void", at |-> <<>>]) @@ (s :> [tag |-> "symbol", name |-> n, at |-> <<>>])
               @@ (r :> [tag |-> "handle", name |-> n, p |-> Root, at |-> <<>>]) @@ (h :> [tag |-> "hdl", at |-> <<s, r>>])
    /\ holds = [p \in Process |-> IF p = Root THEN [live |-> TRUE, local |-> v, handle |-> h]
                                  ELSE [live |-> FALSE, local |-> Nil, handle |-> Nil]]

Next ==
    \/ \E p \in Live :
          \/ MakePair(p) \/ MakeUnit(p) \/ Drop(p) \/ Terminate(p) \/ MakeHandle(p)
          \/ \E q \in Live \ {p} : Pass(p, q)
          \/ \E q \in Live, k \in 1 .. 2 : Update(p, q, k)
          \/ \E k \in 1 .. 2 : Follow(p, k)
          \/ \E n \in Name : Intern(p, n) \/ Canonical(p, n)
          \/ \E q \in Process : Fork(p, q)
    \/ \E q \in Process, n \in Name : ForkNumbered(q, n)

Spec == Init /\ [][Next]_vars
=============================================================================
