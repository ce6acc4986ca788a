----------------------------- MODULE FilesProofs -----------------------------
(***************************************************************************)
(* Files, for any files, scripts, programs and number of processes: a      *)
(* process that waits is attached to what it waits for, so that no wake-up *)
(* is lost; and, where programs are careful, no character is lost, read    *)
(* twice or written twice, however often an escape is begun again.         *)
(***************************************************************************)
EXTENDS Files, DataInduction, SequenceTheorems

Places == File \X Nat
Attachment == [f : File, p : Proc, mode : {"input", "output"}]
Clients ==
  {NoClient} \cup ({"text"} \X Seq(Places)) \cup ({"off"} \X Nat)
  \cup ({"dec"} \X [count : Nat, body : Seq(Places)]) \cup ({"sock"} \X File)

(***************************************************************************)
(* The types.  What was answered, and the sets of the history, are typed   *)
(* by what the other invariants say of them.                               *)
(***************************************************************************)
ProcTypes ==
  /\ program \in [Proc -> Seq(Call)]
  /\ made \in [Proc -> Nat]
  /\ state \in [Proc -> {"runnable", "wait_io"}]
  /\ call \in [Proc -> Call \cup {NoCall}]
  /\ answer = [p \in Proc |-> answer[p]]
  /\ attachments \in Seq(Attachment)

\* A file takes no more ahead of its reader than it has room for.
OutTypes ==
  /\ unsent \in [File -> Int] /\ \A f \in File : unsent[f] <= Room
  /\ written \in [File -> Seq(Proc \X Nat \X Nat)]

TypeInv ==
  /\ ProcTypes /\ OutTypes
  /\ client \in [Proc -> Clients]
  /\ arrived \in [File -> Nat] /\ taken \in [File -> Nat]

\* What a process waits for when it waits for call c.
ModeOf(c) == IF c.op \in Writes \cup {"connect"} THEN "output" ELSE "input"
Attached(as, f, p, mode) == \E k \in DOMAIN as : as[k].f = f /\ as[k].p = p /\ as[k].mode = mode

\* A process that waits is attached to what it waits for.
WaitsAttached ==
  \A p \in Proc : state[p] = "wait_io" => call[p] # NoCall /\ Attached(attachments, call[p].f, p, ModeOf(call[p]))

WaitInv == TypeInv /\ WaitsAttached

(***************************************************************************)
(* Where programs are careful.  A process has text, an offset or a decoded *)
(* part kept for it only while it waits to go on with the call that keeps  *)
(* it; connect alone leaves its socket.                                    *)
(***************************************************************************)
KeptRight ==
  \A p \in Proc :
    /\ client[p][1] = "text" => call[p] # NoCall /\ call[p].op \in TextReads
    /\ client[p][1] = "off" => call[p] # NoCall /\ call[p].op \in Writes /\ client[p][2] < call[p].n
    /\ client[p][1] = "dec" => call[p] # NoCall /\ call[p].op = "decode"

\* The call that a process is to go on with is the next of its program.
CallRight ==
  \A p \in Proc : call[p] # NoCall =>
    /\ Accepted(call[p]) /\ call[p].op # "interrupt"
    /\ made[p] + 1 \in DOMAIN program[p]
    /\ call[p].op = Next1(p).op
    /\ call[p].op # "connect" => call[p] = Next1(p)

(***************************************************************************)
(* What call j of p has written to file f: the codes from the first to the *)
(* one before the offset it keeps, in their order.                         *)
(***************************************************************************)
Ascend ==
  \A p \in Proc, f \in File, j \in Nat :
    \A k, m \in PlacesOf(p, j, f) : k < m => written[f][k][3] < written[f][m][3]

SentRight ==
  \A p \in Proc, f \in File :
    /\ \A j \in Nat : j > made[p] + 1 => PlacesOf(p, j, f) = {}
    /\ NumbersOf(p, made[p] + 1, f) =
         IF client[p][1] = "off" /\ call[p].f = f THEN 1 .. client[p][2] ELSE {}
    /\ \A j \in DOMAIN program[p] : j <= made[p] /\ program[p][j].op \in Writes /\ program[p][j].f = f =>
         /\ \E n \in 0 .. program[p][j].n : NumbersOf(p, j, f) = 1 .. n
         /\ answer[p] # NoCall /\ made[p] = j /\ answer[p].res = "ok" => NumbersOf(p, j, f) = 1 .. program[p][j].n

CareInv == KeptRight /\ CallRight /\ TextKept /\ Ascend /\ SentRight

-----------------------------------------------------------------------------
(***************************************************************************)
(* Sequences.                                                              *)
(***************************************************************************)
LEMMA SeqPlaces ==
  ASSUME NEW S, NEW q \in Seq(S)
  PROVE  Len(q) \in Nat /\ DOMAIN q = 1..Len(q) /\ \A i \in 1..Len(q) : q[i] \in S
  BY LenProperties

\* A function on an interval from 1 is a sequence.
LEMMA FunctionIsSeq ==
  ASSUME NEW S, NEW n \in Nat, NEW q, q = [i \in 1..n |-> q[i]], \A i \in 1..n : q[i] \in S
  PROVE  q \in Seq(S) /\ Len(q) = n
<1>1. q \in [1..n -> S] BY Zenon
<1>2. q \in Seq(S) BY <1>1, IsASeq
<1>3. DOMAIN q = 1..n BY <1>1
<1>4. Len(q) \in Nat /\ DOMAIN q = 1..Len(q) BY <1>2, LenProperties
<1> QED BY <1>2, <1>3, <1>4

LEMMA SetOfSeq ==
  ASSUME NEW S, NEW q \in Seq(S)
  PROVE  ToSet(q) = {q[i] : i \in 1..Len(q)} /\ ToSet(q) \subseteq S
  BY SeqPlaces DEF ToSet

LEMMA SetOfConcat ==
  ASSUME NEW S, NEW q \in Seq(S), NEW r \in Seq(S)
  PROVE  q \o r \in Seq(S) /\ ToSet(q \o r) = ToSet(q) \cup ToSet(r)
<1> DEFINE s == q \o r
<1>1. /\ s \in Seq(S) /\ Len(s) = Len(q) + Len(r)
      /\ \A i \in 1..Len(q) + Len(r) : s[i] = IF i <= Len(q) THEN q[i] ELSE r[i - Len(q)]
  BY ConcatProperties
<1> HIDE DEF s
<1>2. Len(q) \in Nat /\ Len(r) \in Nat BY LenProperties
<1>3. ToSet(q) = {q[i] : i \in 1..Len(q)} /\ ToSet(r) = {r[i] : i \in 1..Len(r)}
      /\ ToSet(s) = {s[i] : i \in 1..Len(s)}
  BY <1>1, SetOfSeq
<1>4. ASSUME NEW x \in ToSet(s) PROVE x \in ToSet(q) \cup ToSet(r)
  <2>1. PICK i \in 1..Len(q) + Len(r) : x = s[i] BY <1>1, <1>3, <1>4
  <2>2. CASE i <= Len(q)
    <3>1. i \in 1..Len(q) /\ x = q[i] BY <1>1, <1>2, <2>1, <2>2
    <3> QED BY <3>1, <1>3
  <2>3. CASE ~(i <= Len(q))
    <3>1. i - Len(q) \in 1..Len(r) /\ x = r[i - Len(q)] BY <1>1, <1>2, <2>1, <2>3
    <3> QED BY <3>1, <1>3
  <2> QED BY <2>2, <2>3
<1>5. ASSUME NEW x \in ToSet(q) PROVE x \in ToSet(s)
  <2>1. PICK i \in 1..Len(q) : x = q[i] BY <1>3, <1>5
  <2>2. i \in 1..Len(s) /\ s[i] = x BY <1>1, <1>2, <2>1
  <2> QED BY <2>2, <1>3
<1>6. ASSUME NEW x \in ToSet(r) PROVE x \in ToSet(s)
  <2>1. PICK i \in 1..Len(r) : x = r[i] BY <1>3, <1>6
  <2>2. Len(q) + i \in 1..Len(s) /\ ~(Len(q) + i <= Len(q)) /\ Len(q) + i - Len(q) = i BY <1>1, <1>2, <2>1
  <2>3. s[Len(q) + i] = x BY <1>1, <2>1, <2>2
  <2> QED BY <2>2, <2>3, <1>3
<1> QED BY <1>1, <1>4, <1>5, <1>6 DEF s

LEMMA EmptySet == ToSet(<< >>) = {} /\ Len(<< >>) = 0
<1>1. << >> \in Seq({}) /\ Len(<< >>) = 0 BY EmptySeq
<1>2. ToSet(<< >>) = {} BY SMT DEF ToSet
<1> QED BY <1>1, <1>2

\* A sequence whose set is empty is empty.
LEMMA NoMembers == ASSUME NEW S, NEW q \in Seq(S), ToSet(q) = {} PROVE q = << >>
<1> SUFFICES ASSUME q # << >> PROVE FALSE OBVIOUS
<1>1. Len(q) \in Nat \ {0} BY EmptySeq
<1>2. 1 \in 1..Len(q) BY <1>1
<1>3. ToSet(q) = {q[i] : i \in 1..Len(q)} BY SetOfSeq
<1> QED BY <1>2, <1>3

\* The part of q from i to j, for any i and j of use.
LEMMA PartOf ==
  ASSUME NEW S, NEW q \in Seq(S), NEW i \in 1..Len(q) + 1, NEW j \in Int, j <= Len(q)
  PROVE  LET r == SubSeq(q, i, j)
         IN  /\ r \in Seq(S) /\ Len(r) = IF i <= j THEN j - i + 1 ELSE 0
             /\ \A k \in 1..Len(r) : r[k] = q[i + k - 1] /\ i + k - 1 \in 1..Len(q)
<1>1. Len(q) \in Nat /\ \A k \in 1..Len(q) : q[k] \in S BY LenProperties
<1>2. \A k \in i..j : q[k] \in S
  <2>1. ASSUME NEW k \in i..j PROVE k \in 1..Len(q) BY <1>1
  <2> QED BY <2>1, <1>1
<1> DEFINE r == SubSeq(q, i, j)
<1>3. i \in Int BY <1>1
<1>4. /\ r \in Seq(S) /\ Len(r) = IF i <= j THEN j - i + 1 ELSE 0
      /\ \A k \in 1..(j - i + 1) : r[k] = q[i + k - 1]
  BY <1>2, <1>3, SubSeqProperties
<1> HIDE DEF r
<1>5. ASSUME NEW k \in 1..Len(r) PROVE k \in 1..(j - i + 1) /\ i + k - 1 \in 1..Len(q) BY <1>1, <1>3, <1>4
<1> QED BY <1>4, <1>5 DEF r

-----------------------------------------------------------------------------
(***************************************************************************)
(* Pieces of a file: places of f one after another, behind place n.        *)
(***************************************************************************)
Piece(f, n, s) == s \in Seq(Places) /\ \A k \in 1..Len(s) : s[k] = <<f, n + k>>

LEMMA PieceSet ==
  ASSUME NEW f \in File, NEW n \in Nat, NEW s, Piece(f, n, s)
  PROVE  ToSet(s) = {f} \X (n + 1 .. n + Len(s)) /\ Len(s) \in Nat
<1>1. Len(s) \in Nat /\ ToSet(s) = {s[k] : k \in 1..Len(s)} BY LenProperties, SetOfSeq DEF Piece
<1>2. ASSUME NEW x \in ToSet(s) PROVE x \in {f} \X (n + 1 .. n + Len(s))
  <2>1. PICK k \in 1..Len(s) : x = <<f, n + k>> BY <1>1, <1>2 DEF Piece
  <2>2. n + k \in n + 1 .. n + Len(s) BY <1>1, <2>1
  <2> QED BY <2>1, <2>2
<1>3. ASSUME NEW m \in n + 1 .. n + Len(s) PROVE <<f, m>> \in ToSet(s)
  <2>1. m - n \in 1..Len(s) /\ n + (m - n) = m BY <1>1
  <2>2. s[m - n] = <<f, m>> BY <2>1 DEF Piece
  <2> QED BY <2>1, <2>2, <1>1
<1>4. ASSUME NEW x \in {f} \X (n + 1 .. n + Len(s)) PROVE x \in ToSet(s)
  <2>1. x = <<f, x[2]>> /\ x[2] \in n + 1 .. n + Len(s) OBVIOUS
  <2> QED BY <2>1, <1>3
<1> QED BY <1>1, <1>2, <1>4

LEMMA PieceStart ==
  ASSUME NEW f \in File, NEW n \in Nat, NEW s, Piece(f, n, s), NEW m \in Int
  PROVE  /\ Piece(f, n, Start(s, m))
         /\ Len(Start(s, m)) = IF m < 0 THEN 0 ELSE IF m < Len(s) THEN m ELSE Len(s)
<1>1. s \in Seq(Places) /\ Len(s) \in Nat BY LenProperties DEF Piece
<1> DEFINE j == IF m < Len(s) THEN m ELSE Len(s)
           r == Start(s, m)
<1>2. r = SubSeq(s, 1, j) BY DEF Start, Smaller
<1>3. j \in Int /\ j <= Len(s) /\ 1 \in 1..Len(s) + 1 BY <1>1
<1> HIDE DEF j
<1>4. /\ r \in Seq(Places) /\ Len(r) = IF 1 <= j THEN j - 1 + 1 ELSE 0
      /\ \A k \in 1..Len(r) : r[k] = s[1 + k - 1] /\ 1 + k - 1 \in 1..Len(s)
  BY <1>1, <1>2, <1>3, PartOf
<1> HIDE DEF r
<1>5. ASSUME NEW k \in 1..Len(r) PROVE r[k] = <<f, n + k>>
  <2>1. 1 + k - 1 = k BY <1>4, <1>3
  <2> QED BY <2>1, <1>4 DEF Piece
<1>6. Len(r) = IF m < 0 THEN 0 ELSE IF m < Len(s) THEN m ELSE Len(s) BY <1>1, <1>3, <1>4 DEF j
<1> QED BY <1>4, <1>5, <1>6 DEF r, Piece

LEMMA PieceAfter ==
  ASSUME NEW f \in File, NEW n \in Nat, NEW s, Piece(f, n, s), NEW m \in 0..Len(s)
  PROVE  Piece(f, n + m, AfterFirst(s, m)) /\ Len(AfterFirst(s, m)) = Len(s) - m
<1>1. s \in Seq(Places) /\ Len(s) \in Nat BY LenProperties DEF Piece
<1> DEFINE r == AfterFirst(s, m)
<1>2. m + 1 \in 1..Len(s) + 1 /\ Len(s) \in Int /\ Len(s) <= Len(s) BY <1>1
<1>3. /\ r \in Seq(Places) /\ Len(r) = IF m + 1 <= Len(s) THEN Len(s) - (m + 1) + 1 ELSE 0
      /\ \A k \in 1..Len(r) : r[k] = s[(m + 1) + k - 1] /\ (m + 1) + k - 1 \in 1..Len(s)
  BY <1>1, <1>2, PartOf DEF AfterFirst
<1> HIDE DEF r
<1>4. Len(r) = Len(s) - m BY <1>1, <1>3
<1>5. ASSUME NEW k \in 1..Len(r) PROVE r[k] = <<f, (n + m) + k>>
  <2>1. n + ((m + 1) + k - 1) = (n + m) + k BY <1>1, <1>4
  <2> QED BY <2>1, <1>3 DEF Piece
<1> QED BY <1>3, <1>4, <1>5 DEF r, Piece

LEMMA PieceConcat ==
  ASSUME NEW f \in File, NEW n \in Nat, NEW s, NEW t, Piece(f, n, s), Piece(f, n + Len(s), t)
  PROVE  Piece(f, n, s \o t) /\ Len(s \o t) = Len(s) + Len(t)
<1>1. /\ s \in Seq(Places) /\ t \in Seq(Places) /\ Len(s) \in Nat /\ Len(t) \in Nat
  BY LenProperties DEF Piece
<1> DEFINE r == s \o t
<1>2. /\ r \in Seq(Places) /\ Len(r) = Len(s) + Len(t)
      /\ \A k \in 1..Len(s) + Len(t) : r[k] = IF k <= Len(s) THEN s[k] ELSE t[k - Len(s)]
  BY <1>1, ConcatProperties
<1> HIDE DEF r
<1>3. ASSUME NEW k \in 1..Len(r) PROVE r[k] = <<f, n + k>>
  <2>1. CASE k <= Len(s)
    <3>1. k \in 1..Len(s) /\ r[k] = s[k] BY <1>1, <1>2, <2>1
    <3> QED BY <3>1 DEF Piece
  <2>2. CASE ~(k <= Len(s))
    <3>1. k - Len(s) \in 1..Len(t) /\ r[k] = t[k - Len(s)] BY <1>1, <1>2, <2>2
    <3>2. (n + Len(s)) + (k - Len(s)) = n + k BY <1>1, <1>2
    <3> QED BY <3>1, <3>2 DEF Piece
  <2> QED BY <2>1, <2>2
<1> QED BY <1>2, <1>3 DEF r, Piece

LEMMA PieceOfNothing == ASSUME NEW f, NEW n PROVE Piece(f, n, << >>) /\ Len(<< >>) = 0
<1>1. << >> \in Seq(Places) /\ Len(<< >>) = 0 BY EmptySeq
<1> QED BY <1>1 DEF Piece

\* The first of the members of a sequence that pass a test, which is given as a set.
LEMMA FirstOf ==
  ASSUME NEW T, T \subseteq Nat, T # {}
  PROVE  Min(T) \in T /\ \A y \in T : Min(T) <= y
<1>1. \E x \in T : \A y \in T : x <= y BY LeastNat
<1> QED BY <1>1 DEF Min

\* A run of characters is a start of the text.
LEMMA PieceRun ==
  ASSUME NEW f \in File, NEW n \in Nat, NEW s, Piece(f, n, s), NEW S
  PROVE  Piece(f, n, Run(s, S)) /\ Len(Run(s, S)) \in 0..Len(s)
<1> DEFINE I == {i \in 1..Len(s) : Code(s[i]) \notin S}
           k == IF I # {} THEN Min(I) ELSE 0
<1>1. SelectInSeq(s, LAMBDA x : Code(x) \notin S) = k BY DEF SelectInSeq
<1>2. s \in Seq(Places) /\ Len(s) \in Nat BY LenProperties DEF Piece
<1>3. I \subseteq 1..Len(s) /\ I \subseteq Nat BY <1>2
<1> HIDE DEF I
<1>4. k \in 0..Len(s)
  <2>1. CASE I = {} BY <1>2, <2>1
  <2>2. CASE I # {}
    <3>1. Min(I) \in 1..Len(s) BY <1>3, <2>2, FirstOf
    <3> QED BY <1>2, <2>2, <3>1
  <2> QED BY <2>1, <2>2
<1>5. Run(s, S) = IF k = 0 THEN s ELSE SubSeq(s, 1, k - 1) BY <1>1 DEF Run
<1> HIDE DEF k
<1>6. CASE k = 0 BY <1>2, <1>5, <1>6
<1>7. CASE k # 0
  <2>1. k - 1 \in Int /\ k - 1 < Len(s) /\ ~(k - 1 < 0) BY <1>2, <1>4, <1>7
  <2>2. Run(s, S) = Start(s, k - 1) BY <1>5, <1>7, <2>1 DEF Start, Smaller
  <2>3. Piece(f, n, Start(s, k - 1)) /\ Len(Start(s, k - 1)) = k - 1 BY <2>1, PieceStart
  <2> QED BY <2>1, <2>2, <2>3, <1>2
<1> QED BY <1>6, <1>7

-----------------------------------------------------------------------------
(***************************************************************************)
(* Recursive functions on an interval: they exist, since there is one for  *)
(* each shorter interval.                                                  *)
(***************************************************************************)
Iterates(g, n, a, F) == g[0] = a /\ \A k \in 1..n : g[k] = F[k][g[k - 1]]

LEMMA Iteration ==
  ASSUME NEW S, NEW N \in Nat, NEW a \in S, NEW F \in [1..N -> [S -> S]]
  PROVE  \E g \in [0..N -> S] : Iterates(g, N, a, F)
<1> DEFINE T == {n \in 0..N : ~ \E g \in [0..n -> S] : Iterates(g, n, a, F)}
<1>1. T \subseteq Nat OBVIOUS
<1>2. SUFFICES ASSUME T # {} PROVE FALSE
  <2>1. N \in 0..N OBVIOUS
  <2> QED BY <2>1, <1>2
<1>3. PICK x \in T : \A y \in T : x <= y BY <1>1, <1>2, LeastNat
<1>4. x \in 0..N /\ ~ \E g \in [0..x -> S] : Iterates(g, x, a, F) OBVIOUS
<1>5. CASE x = 0
  <2> DEFINE g == [i \in 0..0 |-> a]
  <2>1. g \in [0..0 -> S] /\ g[0] = a OBVIOUS
  <2>2. Iterates(g, 0, a, F) BY <2>1 DEF Iterates
  <2> QED BY <2>1, <2>2, <1>4, <1>5
<1>6. CASE x # 0
  <2>1. x - 1 \in 0..N /\ x \in 1..N /\ ~(x <= x - 1) BY <1>4, <1>6
  <2>2. x - 1 \notin T BY <2>1, <1>3
  <2>3. PICK g \in [0..x - 1 -> S] : Iterates(g, x - 1, a, F) BY <2>1, <2>2
  <2> DEFINE h == [i \in 0..x |-> IF i = x THEN F[x][g[x - 1]] ELSE g[i]]
  <2>4. x - 1 \in 0..x - 1 /\ F[x] \in [S -> S] BY <2>1
  <2>5. \A i \in 0..x : i # x => i \in 0..x - 1 BY <2>1
  <2>6. h \in [0..x -> S]
    <3>1. F[x][g[x - 1]] \in S BY <2>3, <2>4
    <3>2. \A i \in 0..x : i # x => g[i] \in S BY <2>3, <2>5
    <3> QED BY <3>1, <3>2
  <2>7. h[0] = a
    <3>1. 0 \in 0..x /\ 0 # x BY <2>1
    <3> QED BY <3>1, <2>3 DEF Iterates
  <2>8. ASSUME NEW k \in 1..x PROVE h[k] = F[k][h[k - 1]]
    <3>1. k \in 0..x /\ k - 1 \in 0..x /\ k - 1 # x BY <2>1
    <3>2. h[k - 1] = g[k - 1] BY <3>1
    <3>3. CASE k = x BY <3>1, <3>2, <3>3
    <3>4. CASE k # x
      <4>1. k \in 1..x - 1 BY <2>1, <3>4
      <4>2. g[k] = F[k][g[k - 1]] BY <4>1, <2>3 DEF Iterates
      <4> QED BY <3>1, <3>2, <3>4, <4>2
    <3> QED BY <3>3, <3>4
  <2> HIDE DEF h
  <2>9. Iterates(h, x, a, F) BY <2>7, <2>8 DEF Iterates
  <2> QED BY <2>6, <2>9, <1>4
<1> QED BY <1>5, <1>6

\* What a set has at the start, and every step leaves it in, it has all the way.
LEMMA AllTheWay ==
  ASSUME NEW S, NEW N \in Nat, NEW g, g[0] \in S, \A k \in 1..N : g[k - 1] \in S => g[k] \in S
  PROVE  \A k \in 0..N : g[k] \in S
<1> DEFINE T == {k \in 0..N : g[k] \notin S}
<1>1. SUFFICES ASSUME T # {} PROVE FALSE OBVIOUS
<1>2. T \subseteq Nat OBVIOUS
<1>3. PICK x \in T : \A y \in T : x <= y BY <1>1, <1>2, LeastNat
<1>4. x # 0 /\ x \in 0..N /\ g[x] \notin S OBVIOUS
<1>5. x \in 1..N /\ x - 1 \in 0..N /\ ~(x <= x - 1) BY <1>4
<1>6. g[x - 1] \in S BY <1>3, <1>5
<1> QED BY <1>4, <1>5, <1>6

\* The length of a coded term is a number.
LEMMA LengthIsNat ==
  ASSUME NEW text \in Seq(Places), \A i \in 1..Len(text) : Code(text[i]) \in Nat
  PROVE  Length(text) \in Nat
<1> DEFINE n == Len(text)
           Eq(g) == g = [k \in 0..n |-> IF k = 0 THEN 0 ELSE 256 * g[k - 1] + Code(text[k])]
           count == CHOOSE g : Eq(g)
           F == [k \in 1..n |-> [m \in Nat |-> 256 * m + Code(text[k])]]
<1>1. n \in Nat BY LenProperties
<1>2. Length(text) = count[n] BY DEF Length
<1>3. F \in [1..n -> [Nat -> Nat]]
  <2>1. ASSUME NEW k \in 1..n, NEW m \in Nat PROVE 256 * m + Code(text[k]) \in Nat OBVIOUS
  <2> QED BY <2>1
<1>4. PICK g \in [0..n -> Nat] : Iterates(g, n, 0, F) BY <1>1, <1>3, Iteration
<1>5. ASSUME NEW k \in 0..n PROVE g[k] = IF k = 0 THEN 0 ELSE 256 * g[k - 1] + Code(text[k])
  <2>1. CASE k = 0 BY <1>4, <2>1 DEF Iterates
  <2>2. CASE k # 0
    <3>1. k \in 1..n /\ k - 1 \in 0..n BY <1>1, <2>2
    <3>2. g[k] = F[k][g[k - 1]] /\ g[k - 1] \in Nat BY <1>4, <3>1 DEF Iterates
    <3>3. F[k][g[k - 1]] = 256 * g[k - 1] + Code(text[k]) BY <3>1, <3>2
    <3> QED BY <3>2, <3>3, <2>2
  <2> QED BY <2>1, <2>2
<1> HIDE DEF n, F
<1>6. Eq(g) BY <1>4, <1>5
<1> HIDE DEF Eq
<1>7. Eq(count) BY ONLY <1>6
<1> HIDE DEF count
<1> USE DEF Eq
<1>8. count[0] = 0 /\ \A k \in 1..n : count[k] = 256 * count[k - 1] + Code(text[k]) BY <1>1, <1>7
<1>9. \A k \in 1..n : Code(text[k]) \in Nat BY DEF n
<1> HIDE DEF Eq
<1>10. \A k \in 1..n : count[k - 1] \in Nat => count[k] \in Nat BY <1>8, <1>9
<1>11. \A k \in 0..n : count[k] \in Nat
  <2>1. count[0] \in Nat BY <1>8
  <2> QED BY ONLY <1>1, <1>10, <2>1, AllTheWay
<1> QED BY <1>1, <1>2, <1>11

-----------------------------------------------------------------------------
(***************************************************************************)
(* balRead reads a start of the text, and what it answers is of that start *)
(* but for the brackets it adds.                                           *)
(***************************************************************************)
BalStates ==
  {s \in [open : Seq({10, 41, 93, 125}), quoted : BOOLEAN, res : {"eof", "ok", "efail"}] : s.open # << >>}

LEMMA BalSteps == ASSUME NEW s \in BalStates, NEW ch PROVE BalStep(s, ch) \in BalStates
<1> DEFINE B == {10, 41, 93, 125}
           o == s.open
<1>1. /\ o \in Seq(B) /\ o # << >> /\ s.quoted \in BOOLEAN /\ s.res \in {"eof", "ok", "efail"}
      /\ s = [open |-> o, quoted |-> s.quoted, res |-> s.res]
  BY DEF BalStates
<1>2. Len(o) \in Nat \ {0} BY <1>1, EmptySeq
<1>3. ASSUME NEW x \in Seq(B), x # << >>, NEW y \in BOOLEAN, NEW z \in {"eof", "ok", "efail"}
      PROVE  [open |-> x, quoted |-> y, res |-> z] \in BalStates
  BY <1>3 DEF BalStates
<1>4. Len(o) # 1 => Tail(o) \in Seq(B) /\ Tail(o) # << >>
  <2> SUFFICES ASSUME Len(o) # 1 PROVE Tail(o) \in Seq(B) /\ Tail(o) # << >> OBVIOUS
  <2>1. Tail(o) \in Seq(B) /\ Len(Tail(o)) = Len(o) - 1 BY <1>1, HeadTailProperties
  <2>2. Len(Tail(o)) # 0 BY <2>1, <1>2
  <2> QED BY <2>1, <2>2, EmptySeq
<1>5. ch \in Opening => <<Closing(ch)>> \o o \in Seq(B) /\ <<Closing(ch)>> \o o # << >>
  <2> SUFFICES ASSUME ch \in Opening PROVE <<Closing(ch)>> \o o \in Seq(B) /\ <<Closing(ch)>> \o o # << >> OBVIOUS
  <2>1. Closing(ch) \in B BY DEF Opening, Closing
  <2> DEFINE c == <<Closing(ch)>>
             r == c \o o
  <2>2. c \in Seq(B) /\ Len(c) = 1 BY <2>1
  <2> HIDE DEF c
  <2>3. r \in Seq(B) /\ Len(r) = Len(c) + Len(o) BY <1>1, <2>2, ConcatProperties
  <2> HIDE DEF r
  <2>4. Len(r) # 0 BY <2>2, <2>3, <1>2
  <2>5. r \in Seq(B) /\ r # << >> BY <2>3, <2>4, EmptySeq
  <2> QED BY <2>5 DEF r, c
<1>6. CASE s.quoted
  <2>1. BalStep(s, ch) \in {[open |-> o, quoted |-> FALSE, res |-> s.res],
                            [open |-> o, quoted |-> s.quoted, res |-> "efail"], s}
    BY <1>1, <1>6 DEF BalStep
  <2> QED BY <2>1, <1>1, <1>3
<1>7. CASE ~s.quoted
  <2>1. \/ BalStep(s, ch) \in {[open |-> o, quoted |-> s.quoted, res |-> "ok"],
                               [open |-> o, quoted |-> TRUE, res |-> s.res],
                               [open |-> o, quoted |-> s.quoted, res |-> "efail"], s}
        \/ Len(o) # 1 /\ BalStep(s, ch) = [open |-> Tail(o), quoted |-> s.quoted, res |-> s.res]
        \/ ch \in Opening /\ BalStep(s, ch) = [open |-> <<Closing(ch)>> \o o, quoted |-> s.quoted, res |-> s.res]
    BY <1>1, <1>7 DEF BalStep
  <2>2. CASE BalStep(s, ch) \in {[open |-> o, quoted |-> s.quoted, res |-> "ok"],
                                 [open |-> o, quoted |-> TRUE, res |-> s.res],
                                 [open |-> o, quoted |-> s.quoted, res |-> "efail"], s}
    BY <2>2, <1>1, <1>3
  <2>3. CASE Len(o) # 1 /\ BalStep(s, ch) = [open |-> Tail(o), quoted |-> s.quoted, res |-> s.res]
    BY <2>3, <1>1, <1>3, <1>4
  <2>4. CASE ch \in Opening /\ BalStep(s, ch) = [open |-> <<Closing(ch)>> \o o, quoted |-> s.quoted, res |-> s.res]
    BY <2>4, <1>1, <1>3, <1>5
  <2> QED BY ONLY <2>1, <2>2, <2>3, <2>4
<1> QED BY <1>6, <1>7

LEMMA BalAfterType ==
  ASSUME NEW text \in Seq(Places)
  PROVE  \A k \in 0..Len(text) : BalAfter(text)[k] \in BalStates
<1> DEFINE n == Len(text)
           Next2(s, k) == IF s.res = "eof" THEN BalStep(s, Code(text[k])) ELSE s
           Eq(g) == g = [k \in 0..n |-> IF k = 0 THEN BalStart
                                        ELSE IF g[k - 1].res = "eof" THEN BalStep(g[k - 1], Code(text[k])) ELSE g[k - 1]]
           after == CHOOSE g : Eq(g)
           F == [k \in 1..n |-> [s \in BalStates |-> Next2(s, k)]]
<1>1. n \in Nat BY LenProperties
<1>2. BalAfter(text) = after BY DEF BalAfter
<1>3. BalStart \in BalStates
  <2>1. <<10>> \in Seq({10, 41, 93, 125}) /\ <<10>> # << >> OBVIOUS
  <2> QED BY <2>1 DEF BalStart, BalStates, NEW_LINE
<1>4. \A s \in BalStates : \A k : Next2(s, k) \in BalStates BY BalSteps
<1>5. F \in [1..n -> [BalStates -> BalStates]] BY <1>4
<1>6. PICK g \in [0..n -> BalStates] : Iterates(g, n, BalStart, F) BY <1>1, <1>3, <1>5, Iteration
<1>7. ASSUME NEW k \in 0..n PROVE g[k] = IF k = 0 THEN BalStart ELSE Next2(g[k - 1], k)
  <2>1. CASE k = 0 BY <1>6, <2>1 DEF Iterates
  <2>2. CASE k # 0
    <3>1. k \in 1..n /\ k - 1 \in 0..n BY <1>1, <2>2
    <3>2. g[k] = F[k][g[k - 1]] /\ g[k - 1] \in BalStates BY <1>6, <3>1 DEF Iterates
    <3>3. F[k][g[k - 1]] = Next2(g[k - 1], k) BY <3>1, <3>2
    <3> QED BY <3>2, <3>3, <2>2
  <2> QED BY <2>1, <2>2
<1> HIDE DEF n, F
<1>8. Eq(g)
  <2>1. g = [k \in 0..n |-> g[k]] BY <1>6
  <2> QED BY <1>7, <2>1
<1>9. Eq(after) BY <1>8
<1> HIDE DEF after
<1>10. after[0] = BalStart /\ \A k \in 1..n : after[k] = Next2(after[k - 1], k) BY <1>1, <1>9
<1> HIDE DEF Eq
<1>11. \A k \in 1..n : after[k - 1] \in BalStates => after[k] \in BalStates
  <2> HIDE DEF Next2
  <2> QED BY <1>4, <1>10
<1>12. after[0] \in BalStates BY <1>3, <1>10
<1>13. \A k \in 0..n : after[k] \in BalStates BY ONLY <1>1, <1>11, <1>12, AllTheWay
<1> QED BY <1>2, <1>13 DEF n

LEMMA BalReads ==
  ASSUME NEW f \in File, NEW text \in Seq(Places)
  PROVE  LET b == BalRead(f, text)
         IN  /\ b.n \in 0..Len(text) /\ b.out \in Seq(Places)
             /\ ToSet(b.out) \subseteq ToSet(SubSeq(text, 1, b.n)) \cup {<<f, 0>>}
<1> DEFINE after == BalAfter(text)
           D == {k \in 1..Len(text) : after[k].res # "eof"}
           n == IF D = {} THEN Len(text) ELSE CHOOSE k \in D : \A m \in D : k <= m
           unread == [k \in 1..Len(after[n].open) - 1 |-> <<f, 0>>]
           out == IF after[n].res = "eof" THEN text \o unread ELSE SubSeq(text, 1, n - 1)
<1>1. Len(text) \in Nat BY LenProperties
<1>2. D # {} => n \in D
  <2> SUFFICES ASSUME D # {} PROVE n \in D OBVIOUS
  <2>1. D \subseteq Nat OBVIOUS
  <2>2. \E x \in D : \A y \in D : x <= y BY <2>1, LeastNat
  <2> HIDE DEF D
  <2> QED BY <2>2
<1>3. n \in 0..Len(text) BY <1>1, <1>2
<1>4. after[n].res = "eof" => n = Len(text) BY <1>2
<1>5. D # {} => n - 1 \in 0..Len(text) /\ n - 1 <= n
  <2>1. D # {} => n \in 1..Len(text) BY <1>2
  <2> HIDE DEF D, n
  <2> QED BY ONLY <2>1, <1>1
<1>6. after[n] \in BalStates BY <1>3, BalAfterType
<1>7. Len(after[n].open) - 1 \in Nat
  <2>1. after[n].open \in Seq({10, 41, 93, 125}) /\ after[n].open # << >> BY <1>6 DEF BalStates
  <2>2. Len(after[n].open) \in Nat \ {0} BY <2>1, EmptySeq
  <2> QED BY <2>2
<1> HIDE DEF D, n
<1>8. unread \in Seq(Places) /\ ToSet(unread) \subseteq {<<f, 0>>}
  <2> DEFINE l == Len(after[n].open) - 1
  <2>1. l \in Nat BY <1>7
  <2> HIDE DEF l
  <2> DEFINE u == [k \in 1..l |-> <<f, 0>>]
  <2>2. u \in Seq({<<f, 0>>}) BY <2>1, IsASeq
  <2>3. u \in Seq(Places) BY <2>2, SeqMonotonic DEF Places
  <2>4. ToSet(u) \subseteq {<<f, 0>>} BY <2>2, SetOfSeq
  <2> QED BY <2>3, <2>4 DEF l
<1> HIDE DEF unread
<1>9. CASE after[n].res = "eof"
  <2>1. SubSeq(text, 1, n) = text BY <1>4, <1>9, SubSeqFull
  <2>2. out = text \o unread BY <1>9
  <2> HIDE DEF out
  <2>3. out \in Seq(Places) /\ ToSet(out) = ToSet(text) \cup ToSet(unread) BY <2>2, <1>8, SetOfConcat
  <2> QED BY <1>3, <1>8, <2>1, <2>3 DEF BalRead, n, D, unread, out
<1>10. CASE after[n].res # "eof"
  <2>1. out = SubSeq(text, 1, n - 1) BY <1>10
  <2> HIDE DEF out
  <2>2. 1 \in 1..Len(text) + 1 /\ n \in Int /\ n <= Len(text) /\ n - 1 \in Int /\ n - 1 <= Len(text) BY <1>1, <1>3
  <2> DEFINE r == SubSeq(text, 1, n)
  <2>3. /\ out \in Seq(Places) /\ Len(out) = IF 1 <= n - 1 THEN n - 1 - 1 + 1 ELSE 0
        /\ \A k \in 1..Len(out) : out[k] = text[1 + k - 1]
    BY <2>1, <2>2, PartOf
  <2>4. /\ r \in Seq(Places) /\ Len(r) = IF 1 <= n THEN n - 1 + 1 ELSE 0
        /\ \A k \in 1..Len(r) : r[k] = text[1 + k - 1]
    BY <2>2, PartOf
  <2> HIDE DEF out, r
  <2>5. ToSet(out) = {out[k] : k \in 1..Len(out)} /\ ToSet(r) = {r[k] : k \in 1..Len(r)} BY <2>3, <2>4, SetOfSeq
  <2>6. ToSet(out) \subseteq ToSet(r)
    <3>1. \A k \in 1..Len(out) : k \in 1..Len(r) BY <1>3, <2>3, <2>4
    <3> QED BY <3>1, <2>3, <2>4, <2>5
  <2> QED BY <1>3, <2>3, <2>6 DEF BalRead, n, D, unread, out, r
<1> QED BY <1>9, <1>10

-----------------------------------------------------------------------------
(***************************************************************************)
(* Attaching and detaching leave the attachments of other processes alone. *)
(***************************************************************************)
LEMMA Attaches ==
  ASSUME NEW as \in Seq(Attachment), NEW f \in File, NEW p \in Proc, NEW mode \in {"input", "output"}
  PROVE  LET new == Attach(as, f, p, mode)
         IN  /\ new \in Seq(Attachment)
             /\ Attached(new, f, p, mode)
             /\ \A g \in File, q \in Proc \ {p} : \A m \in {"input", "output"} :
                  Attached(as, g, q, m) => Attached(new, g, q, m)
<1> DEFINE new == Attach(as, f, p, mode)
           a == [f |-> f, p |-> p, mode |-> mode]
           n == Len(as)
<1>1. n \in Nat /\ DOMAIN as = 1..n /\ \A k \in 1..n : as[k] \in Attachment BY SeqPlaces
<1>2. a \in Attachment BY DEF Attachment
<1>5. n = Len(as) OBVIOUS
<1> HIDE DEF n
<1>3. CASE \E k \in 1..n : Concerns(as[k], f, p)
  <2>1. new = [k \in 1..n |-> IF Concerns(as[k], f, p) THEN [as[k] EXCEPT !.mode = mode] ELSE as[k]]
    BY <1>1, <1>3 DEF Attach
  <2> HIDE DEF new
  <2>2. ASSUME NEW k \in 1..n
        PROVE  /\ new[k] \in Attachment /\ new[k].f = as[k].f /\ new[k].p = as[k].p
               /\ Concerns(as[k], f, p) => new[k].mode = mode
               /\ ~Concerns(as[k], f, p) => new[k] = as[k]
    <3>1. as[k] \in Attachment BY <1>1
    <3>2. CASE Concerns(as[k], f, p)
      <4>1. new[k] = [as[k] EXCEPT !.mode = mode] BY <2>1, <3>2
      <4> QED BY <3>1, <3>2, <4>1 DEF Attachment
    <3>3. CASE ~Concerns(as[k], f, p)
      <4>1. new[k] = as[k] BY <2>1, <3>3
      <4> QED BY <3>1, <3>3, <4>1
    <3> QED BY <3>2, <3>3
  <2>3. new = [k \in 1..n |-> new[k]] BY <2>1
  <2>4. new \in Seq(Attachment) /\ DOMAIN new = 1..n
    <3>1. new \in Seq(Attachment) BY ONLY <2>2, <2>3, <1>1, FunctionIsSeq
    <3> QED BY <3>1, <2>1
  <2>5. Attached(new, f, p, mode)
    <3>1. PICK k \in 1..n : Concerns(as[k], f, p) BY <1>3
    <3>2. new[k].f = f /\ new[k].p = p /\ new[k].mode = mode BY <2>2, <3>1 DEF Concerns
    <3> QED BY <3>2, <2>4 DEF Attached
  <2>6. ASSUME NEW g, NEW q, NEW m, q # p, Attached(as, g, q, m) PROVE Attached(new, g, q, m)
    <3>1. PICK k \in 1..n : as[k].f = g /\ as[k].p = q /\ as[k].mode = m BY <2>6, <1>1 DEF Attached
    <3>2. new[k] = as[k] BY <2>2, <3>1, <2>6 DEF Concerns
    <3> QED BY <3>1, <3>2, <2>4 DEF Attached
  <2> QED BY <2>4, <2>5, <2>6 DEF new
<1>4. CASE ~ \E k \in 1..n : Concerns(as[k], f, p)
  <2> DEFINE h == <<a>>
             r == h \o as
  <2>1. new = r BY <1>1, <1>4 DEF Attach
  <2>2. h \in Seq(Attachment) /\ Len(h) = 1 /\ h[1] = a BY <1>2
  <2> HIDE DEF h
  <2>7. /\ r \in Seq(Attachment) /\ Len(r) = Len(h) + Len(as)
        /\ \A k \in 1..Len(h) + Len(as) : r[k] = IF k <= Len(h) THEN h[k] ELSE as[k - Len(h)]
    BY <2>2, ConcatProperties
  <2> HIDE DEF r
  <2>3. /\ r \in Seq(Attachment) /\ Len(r) = 1 + n
        /\ \A k \in 1..1 + n : r[k] = IF k <= 1 THEN h[k] ELSE as[k - 1]
    BY <2>2, <2>7, <1>5
  <2>4. DOMAIN r = 1..1 + n BY <2>3, LenProperties
  <2>5. Attached(r, f, p, mode)
    <3>1. 1 \in 1..1 + n /\ 1 <= 1 BY <1>1
    <3>2. r[1] = a BY <3>1, <2>2, <2>3
    <3> QED BY <3>1, <3>2, <2>4 DEF Attached
  <2>6. ASSUME NEW g, NEW q, NEW m, q # p, Attached(as, g, q, m) PROVE Attached(r, g, q, m)
    <3>1. PICK k \in 1..n : as[k].f = g /\ as[k].p = q /\ as[k].mode = m BY <2>6, <1>1 DEF Attached
    <3>2. 1 + k \in 1..1 + n /\ ~(1 + k <= 1) /\ (1 + k) - 1 = k BY <1>1
    <3>3. r[1 + k] = as[k] BY <3>2, <2>3
    <3> QED BY <3>1, <3>2, <3>3, <2>4 DEF Attached
  <2> QED BY <2>1, <2>3, <2>5, <2>6 DEF r
<1> QED BY <1>1, <1>3, <1>4 DEF n

LEMMA RemovePlaces ==
  ASSUME NEW S, NEW q \in Seq(S), NEW j \in 1..Len(q)
  PROVE  LET r == RemoveAt(q, j)
         IN  /\ r \in Seq(S) /\ DOMAIN r = 1..Len(q) - 1
             /\ \A k \in 1..Len(q) - 1 : r[k] = IF k < j THEN q[k] ELSE q[k + 1]
<1> DEFINE a == SubSeq(q, 1, j - 1)
           b == SubSeq(q, j + 1, Len(q))
           r == a \o b
<1>1. Len(q) \in Nat BY LenProperties
<1>2. 1 \in 1..Len(q) + 1 /\ j - 1 \in Int /\ j - 1 <= Len(q) BY <1>1
<1>3. j + 1 \in 1..Len(q) + 1 /\ Len(q) \in Int /\ Len(q) <= Len(q) BY <1>1
<1>4. /\ a \in Seq(S) /\ Len(a) = IF 1 <= j - 1 THEN (j - 1) - 1 + 1 ELSE 0
      /\ \A k \in 1..Len(a) : a[k] = q[1 + k - 1]
  BY <1>2, PartOf
<1>5. /\ b \in Seq(S) /\ Len(b) = IF j + 1 <= Len(q) THEN Len(q) - (j + 1) + 1 ELSE 0
      /\ \A k \in 1..Len(b) : b[k] = q[(j + 1) + k - 1]
  BY <1>3, PartOf
<1>6. RemoveAt(q, j) = r BY DEF RemoveAt
<1> HIDE DEF a, b
<1>7. /\ r \in Seq(S) /\ Len(r) = Len(a) + Len(b)
      /\ \A k \in 1..Len(a) + Len(b) : r[k] = IF k <= Len(a) THEN a[k] ELSE b[k - Len(a)]
  BY <1>4, <1>5, ConcatProperties
<1> HIDE DEF r
<1>8. Len(a) = j - 1 /\ Len(b) = Len(q) - j BY <1>1, <1>4, <1>5
<1>9. Len(a) + Len(b) = Len(q) - 1 BY <1>1, <1>8
<1>10. DOMAIN r = 1..Len(q) - 1 BY <1>7, <1>9, LenProperties
<1>11. ASSUME NEW k \in 1..Len(q) - 1 PROVE r[k] = IF k < j THEN q[k] ELSE q[k + 1]
  <2>1. CASE k < j
    <3>1. k \in 1..Len(a) /\ k <= Len(a) /\ 1 + k - 1 = k BY <1>1, <1>8, <2>1
    <3> QED BY <3>1, <2>1, <1>4, <1>7, <1>9
  <2>2. CASE ~(k < j)
    <3>1. ~(k <= Len(a)) /\ k - Len(a) \in 1..Len(b) /\ (j + 1) + (k - Len(a)) - 1 = k + 1 BY <1>1, <1>8, <2>2
    <3>2. r[k] = b[k - Len(a)] /\ b[k - Len(a)] = q[(j + 1) + (k - Len(a)) - 1] BY <3>1, <1>5, <1>7, <1>9
    <3> QED BY <3>1, <3>2, <2>2
  <2> QED BY <2>1, <2>2
<1> QED BY <1>6, <1>7, <1>10, <1>11

LEMMA Detaches ==
  ASSUME NEW as \in Seq(Attachment), NEW f \in File, NEW p \in Proc
  PROVE  LET new == Detach(as, f, p)
         IN  /\ new \in Seq(Attachment)
             /\ \A g \in File, q \in Proc \ {p} : \A m \in {"input", "output"} :
                  Attached(as, g, q, m) => Attached(new, g, q, m)
<1> DEFINE new == Detach(as, f, p)
           n == Len(as)
           I == {i \in 1..n : Concerns(as[i], f, p)}
           j == IF I # {} THEN Min(I) ELSE 0
<1>1. n \in Nat /\ DOMAIN as = 1..n /\ \A k \in 1..n : as[k] \in Attachment BY SeqPlaces
<1>2. SelectInSeq(as, LAMBDA a : Concerns(a, f, p)) = j BY DEF SelectInSeq
<1>3. new = IF j = 0 THEN as ELSE RemoveAt(as, j) BY <1>2 DEF Detach
<1>4. j # 0 => j \in 1..n /\ Concerns(as[j], f, p)
  <2> SUFFICES ASSUME j # 0 PROVE j \in I OBVIOUS
  <2>1. I # {} /\ j = Min(I) OBVIOUS
  <2>3. I \subseteq 1..n OBVIOUS
  <2> HIDE DEF I, j, n
  <2>2. I \subseteq Nat BY <1>1, <2>3
  <2> QED BY <2>1, <2>2, FirstOf
<1>7. n = Len(as) OBVIOUS
<1> HIDE DEF I, j, new
<1>5. CASE j = 0 BY <1>3, <1>5 DEF new
<1>6. CASE j # 0
  <2>1. j \in 1..n /\ j \in 1..Len(as) BY <1>4, <1>6, <1>7
  <2>2. new = RemoveAt(as, j) BY <1>3, <1>6
  <2>3. /\ new \in Seq(Attachment) /\ DOMAIN new = 1..n - 1
        /\ \A k \in 1..n - 1 : new[k] = IF k < j THEN as[k] ELSE as[k + 1]
    BY <1>7, <2>1, <2>2, RemovePlaces
  <2> HIDE DEF n
  <2>4. ASSUME NEW g, NEW q, NEW m, q # p, Attached(as, g, q, m) PROVE Attached(new, g, q, m)
    <3>1. PICK k \in 1..n : as[k].f = g /\ as[k].p = q /\ as[k].mode = m BY <2>4, <1>1 DEF Attached
    <3>2. k # j BY <3>1, <2>4, <1>4, <1>6 DEF Concerns
    <3>3. CASE k < j
      <4>1. k \in 1..n - 1 BY <1>1, <2>1, <3>3
      <4>2. new[k] = as[k] BY <4>1, <2>3, <3>3
      <4> QED BY <4>1, <4>2, <3>1, <2>3 DEF Attached
    <3>4. CASE k > j
      <4>1. k - 1 \in 1..n - 1 /\ ~(k - 1 < j) /\ (k - 1) + 1 = k BY <1>1, <2>1, <3>4
      <4>2. new[k - 1] = as[k] BY <4>1, <2>3
      <4> QED BY <4>1, <4>2, <3>1, <2>3 DEF Attached
    <3>5. k < j \/ k > j BY <1>1, <2>1, <3>2
    <3> QED BY <3>3, <3>4, <3>5
  <2> QED BY <2>3, <2>4 DEF new
<1> QED BY <1>5, <1>6

-----------------------------------------------------------------------------
(***************************************************************************)
(* What a process is to execute, and what it has kept.                     *)
(***************************************************************************)
LEMMA ClientCases ==
  ASSUME NEW x \in Clients
  PROVE  /\ x[1] \in {"none", "text", "off", "dec", "sock"}
         /\ (x = NoClient) <=> (x[1] = "none")
         /\ x[1] = "text" => x[2] \in Seq(Places)
         /\ x[1] = "off" => x[2] \in Nat
         /\ x[1] = "dec" => x[2] \in [count : Nat, body : Seq(Places)]
         /\ x[1] = "sock" => x[2] \in File
  BY DEF Clients, NoClient

LEMMA TurnRight ==
  ASSUME TypeInv, NEW p \in Proc, NEW c \in Turn(p)
  PROVE  /\ c \in Call /\ state[p] = "runnable" /\ spinning \in {NoCall, p}
         /\ client[p] \in Clients /\ (client[p] = NoClient \/ client[p][1] \in Kinds(c.op))
         /\ call[p] # NoCall => c = call[p]
         /\ call[p] = NoCall => c = Next1(p) /\ made[p] + 1 \in DOMAIN program[p]
         /\ Careful /\ call[p] = NoCall /\ Kinds(c.op) # Kinds("eof") => client[p] = NoClient
<1>1. /\ state[p] = "runnable" /\ spinning \in {NoCall, p}
      /\ c \in IF call[p] # NoCall THEN {call[p]} ELSE IF made[p] < Len(program[p]) THEN {Next1(p)} ELSE {}
      /\ client[p] = NoClient \/ client[p][1] \in Kinds(c.op)
      /\ Careful /\ call[p] = NoCall /\ Kinds(c.op) # Kinds("eof") => client[p] = NoClient
  BY DEF Turn
<1>2. /\ call[p] \in Call \cup {NoCall} /\ client[p] \in Clients /\ made[p] \in Nat /\ program[p] \in Seq(Call)
  BY DEF TypeInv, ProcTypes
<1>3. CASE call[p] # NoCall BY <1>1, <1>2, <1>3
<1>4. CASE call[p] = NoCall
  <2>1. made[p] < Len(program[p]) /\ c = Next1(p) BY <1>1, <1>4
  <2>2. /\ Len(program[p]) \in Nat /\ DOMAIN program[p] = 1..Len(program[p])
        /\ \A i \in 1..Len(program[p]) : program[p][i] \in Call
    BY <1>2, SeqPlaces
  <2>3. made[p] + 1 \in 1..Len(program[p]) BY <1>2, <2>1, <2>2
  <2>4. c \in Call BY <2>1, <2>2, <2>3 DEF Next1
  <2> QED BY <1>1, <1>2, <1>4, <2>1, <2>2, <2>3, <2>4
<1> QED BY <1>3, <1>4

\* What there is to be read of a file is a piece of it.
LEMMA AvailPiece ==
  ASSUME TypeInv, NEW f \in File
  PROVE  /\ Piece(f, taken[f], Avail(f))
         /\ \A i \in 1..Len(Avail(f)) : Code(Avail(f)[i]) \in Nat
<1> DEFINE upto == IF arrived[f] > Len(Script[f]) THEN Len(Script[f]) ELSE arrived[f]
           l == upto - taken[f]
           n == IF l > 0 THEN l ELSE 0
           q == Avail(f)
<1>1. /\ arrived[f] \in Nat /\ taken[f] \in Nat /\ Script[f] \in Seq(Nat)
  BY FilesAssumption DEF TypeInv
<1>2. Len(Script[f]) \in Nat /\ \A i \in 1..Len(Script[f]) : Script[f][i] \in Nat BY <1>1, LenProperties
<1>3. upto \in Nat /\ upto <= Len(Script[f]) BY <1>1, <1>2
<1>4. q = [k \in 1..l |-> <<f, taken[f] + k>>] BY DEF Avail
<1> HIDE DEF upto
<1>5. 1..l = 1..n /\ n \in Nat BY <1>1, <1>3
<1>8. \A k \in 1..n : k <= l BY <1>1, <1>3
<1>9. l = upto - taken[f] OBVIOUS
<1> HIDE DEF l, n
<1>6. q = [k \in 1..n |-> <<f, taken[f] + k>>] BY <1>4, <1>5
<1> HIDE DEF q
<1>7. q \in Seq(Places) /\ Len(q) = n
  <2>1. \A i \in 1..n : q[i] = <<f, taken[f] + i>> BY <1>6
  <2>2. ASSUME NEW i \in 1..n PROVE q[i] \in Places
    <3>1. taken[f] + i \in Nat BY <1>1, <1>5
    <3>2. <<f, taken[f] + i>> \in File \X Nat BY ONLY <3>1, f \in File
    <3> QED BY <2>1, <3>2 DEF Places
  <2>3. q = [i \in 1..n |-> q[i]] BY <1>6
  <2> QED BY ONLY <1>5, <2>2, <2>3, FunctionIsSeq
<1>10. ASSUME NEW k \in 1..n PROVE q[k] = <<f, taken[f] + k>> /\ Code(q[k]) \in Nat
  <2>1. q[k] = <<f, taken[f] + k>> BY <1>6
  <2>2. taken[f] + k \in 1..Len(Script[f]) BY <1>1, <1>2, <1>3, <1>5, <1>8, <1>9
  <2>3. Code(q[k]) = Script[f][taken[f] + k] BY <2>1 DEF Code
  <2> QED BY <1>2, <2>1, <2>2, <2>3
<1> QED BY <1>7, <1>10 DEF Piece, q

-----------------------------------------------------------------------------
(***************************************************************************)
(* No wake-up is lost.  An escape that is answered needs no attachment; one*)
(* that is to be tried again has the one it needs; and neither takes away  *)
(* that of another process.                                                *)
(***************************************************************************)
Modes == {"input", "output"}
Keeps(as, new, p) ==
  \A g \in File, q \in Proc \ {p} : \A m \in Modes : Attached(as, g, q, m) => Attached(new, g, q, m)

LEMMA DetachKeeps ==
  ASSUME TypeInv, NEW f \in File, NEW p \in Proc
  PROVE  Detach(attachments, f, p) \in Seq(Attachment) /\ Keeps(attachments, Detach(attachments, f, p), p)
<1>1. attachments \in Seq(Attachment) BY DEF TypeInv, ProcTypes
<1> QED BY <1>1, Detaches DEF Keeps, Modes

LEMMA CallTypes ==
  ASSUME TypeInv
  PROVE  /\ \A p \in Proc : call[p] # NoCall => call[p] \in Call /\ call[p].f \in File /\ ModeOf(call[p]) \in Modes
         /\ \A c \in Call : c.f \in File /\ c.n \in Nat /\ c.q \in Proc /\ ModeOf(c) \in Modes
<1>1. \A c \in Call : c.f \in File /\ c.n \in Nat /\ c.q \in Proc BY DEF Call
<1>2. \A c : ModeOf(c) \in Modes BY DEF ModeOf, Modes
<1>3. \A p \in Proc : call[p] # NoCall => call[p] \in Call BY DEF TypeInv, ProcTypes
<1> QED BY <1>1, <1>2, <1>3

LEMMA AnswerWaits ==
  ASSUME WaitInv, NEW p \in Proc, NEW c, NEW res, NEW val, Answer(p, c, res, val), state[p] = "runnable",
         attachments' \in Seq(Attachment), Keeps(attachments, attachments', p)
  PROVE  (ProcTypes /\ WaitsAttached)'
<1>1. TypeInv /\ WaitsAttached /\ ProcTypes BY DEF WaitInv, TypeInv
<1>2. /\ answer' = [answer EXCEPT ![p] = [call |-> c, res |-> res, val |-> val]]
      /\ call' = [call EXCEPT ![p] = NoCall] /\ made' = [made EXCEPT ![p] = @ + 1]
      /\ program' = program /\ state' = state
  BY DEF Answer
<1>3. ProcTypes'
  <2>1. answer' = [q \in Proc |-> answer'[q]]
    <3>1. DOMAIN answer = Proc BY <1>1 DEF ProcTypes
    <3> DEFINE a == [call |-> c, res |-> res, val |-> val]
    <3>2. answer' = [answer EXCEPT ![p] = a] BY <1>2
    <3> HIDE DEF a
    <3> QED BY <3>1, <3>2
  <2>2. made' \in [Proc -> Nat] BY <1>1, <1>2 DEF ProcTypes
  <2>3. call' \in [Proc -> Call \cup {NoCall}] BY <1>1, <1>2 DEF ProcTypes
  <2> QED BY <1>1, <1>2, <2>1, <2>2, <2>3 DEF ProcTypes
<1>4. ASSUME NEW q \in Proc, state'[q] = "wait_io"
      PROVE  call'[q] # NoCall /\ Attached(attachments', call'[q].f, q, ModeOf(call'[q]))
  <2>1. q # p /\ state[q] = "wait_io" BY <1>2, <1>4
  <2>2. call'[q] = call[q] BY <1>1, <1>2, <2>1 DEF ProcTypes
  <2>3. call[q] # NoCall /\ Attached(attachments, call[q].f, q, ModeOf(call[q])) BY <1>1, <2>1 DEF WaitsAttached
  <2>4. call[q].f \in File /\ ModeOf(call[q]) \in Modes BY <1>1, <2>3, CallTypes
  <2> QED BY <2>1, <2>2, <2>3, <2>4 DEF Keeps
<1> QED BY <1>3, <1>4 DEF WaitsAttached

LEMMA SuspendWaits ==
  ASSUME WaitInv, NEW p \in Proc, NEW c \in Call, NEW as \in Seq(Attachment), Keeps(attachments, as, p),
         Suspend(p, c, as, ModeOf(c))
  PROVE  (ProcTypes /\ WaitsAttached)'
<1>1. TypeInv /\ WaitsAttached /\ ProcTypes BY DEF WaitInv, TypeInv
<1>2. /\ attachments' = Attach(as, c.f, p, ModeOf(c))
      /\ state' = [state EXCEPT ![p] = "wait_io"] /\ call' = [call EXCEPT ![p] = c]
      /\ program' = program /\ made' = made /\ answer' = answer
  BY DEF Suspend
<1>3. c.f \in File /\ ModeOf(c) \in Modes BY <1>1, CallTypes
<1>4. /\ attachments' \in Seq(Attachment) /\ Attached(attachments', c.f, p, ModeOf(c)) /\ Keeps(as, attachments', p)
  <2>1. c.f \in File /\ ModeOf(c) \in {"input", "output"} BY <1>3 DEF Modes
  <2> DEFINE f == c.f
             mode == ModeOf(c)
             new == Attach(as, f, p, mode)
  <2> HIDE DEF f, mode
  <2>2. f \in File /\ mode \in {"input", "output"} BY <2>1 DEF f, mode
  <2>3. /\ new \in Seq(Attachment) /\ Attached(new, f, p, mode)
        /\ \A g \in File, q \in Proc \ {p} : \A m \in {"input", "output"} :
             Attached(as, g, q, m) => Attached(new, g, q, m)
    BY ONLY <2>2, as \in Seq(Attachment), p \in Proc, Attaches
  <2> HIDE DEF new
  <2>4. attachments' = new BY <1>2 DEF new, f, mode
  <2> QED BY <2>3, <2>4 DEF Keeps, Modes, f, mode
<1>5. ProcTypes' BY <1>1, <1>2, <1>4 DEF ProcTypes
<1>6. NoCall \notin Call BY FilesAssumption
<1>7. ASSUME NEW q \in Proc, state'[q] = "wait_io"
      PROVE  call'[q] # NoCall /\ Attached(attachments', call'[q].f, q, ModeOf(call'[q]))
  <2>1. CASE q = p
    <3>1. call'[q] = c BY <1>1, <1>2, <2>1 DEF ProcTypes
    <3> QED BY <3>1, <2>1, <1>4, <1>6
  <2>2. CASE q # p
    <3>1. state[q] = "wait_io" /\ call'[q] = call[q] BY <1>1, <1>2, <1>7, <2>2 DEF ProcTypes
    <3>2. call[q] # NoCall /\ Attached(attachments, call[q].f, q, ModeOf(call[q])) BY <1>1, <3>1 DEF WaitsAttached
    <3>3. call[q].f \in File /\ ModeOf(call[q]) \in Modes BY <1>1, <3>2, CallTypes
    <3>4. Attached(as, call[q].f, q, ModeOf(call[q])) BY <2>2, <3>2, <3>3 DEF Keeps
    <3> QED BY <1>4, <2>2, <3>1, <3>2, <3>3, <3>4 DEF Keeps
  <2> QED BY <2>1, <2>2
<1> QED BY <1>5, <1>7 DEF WaitsAttached

LEMMA KeepsAll == ASSUME NEW as, NEW p PROVE Keeps(as, as, p)
  BY DEF Keeps

\* An escape that changes nothing of the files that the invariant is about.
LEMMA QuietWaits ==
  ASSUME WaitInv, NEW p \in Proc, NEW c, NEW res, NEW val, Answer(p, c, res, val), state[p] = "runnable",
         UNCHANGED <<client, inVars, outVars, attachments>>
  PROVE  WaitInv'
<1>1. attachments' = attachments /\ attachments \in Seq(Attachment) BY DEF WaitInv, TypeInv, ProcTypes
<1>2. (ProcTypes /\ WaitsAttached)' BY <1>1, AnswerWaits, KeepsAll
<1>3. (client' = client) /\ (unsent' = unsent) /\ (written' = written) /\ (arrived' = arrived) /\ (taken' = taken)
  BY DEF inVars, outVars
<1> QED BY <1>2, <1>3 DEF WaitInv, TypeInv, OutTypes

LEMMA TakenType ==
  ASSUME TypeInv, NEW f \in File, NEW used, Len(used) \in Nat, Taken(f, used)
  PROVE  taken' \in [File -> Nat]
  BY DEF TypeInv, Taken

LEMMA ReadEndsWaits ==
  ASSUME WaitInv, NEW p \in Proc, NEW c \in Call, state[p] = "runnable",
         NEW used, Len(used) \in Nat, NEW res, NEW val, ReadEnds(p, c, used, res, val), client' \in [Proc -> Clients]
  PROVE  WaitInv'
<1>1. TypeInv BY DEF WaitInv
<1>2. c.f \in File BY <1>1, CallTypes
<1>3. /\ Answer(p, c, res, val) /\ attachments' = Detach(attachments, c.f, p) /\ Taken(c.f, used)
      /\ arrived' = arrived /\ unsent' = unsent /\ written' = written
  BY DEF ReadEnds, Given, outVars
<1>4. attachments' \in Seq(Attachment) /\ Keeps(attachments, attachments', p) BY <1>1, <1>2, <1>3, DetachKeeps
<1>5. (ProcTypes /\ WaitsAttached)' BY <1>3, <1>4, AnswerWaits
<1>6. taken' \in [File -> Nat] BY <1>1, <1>2, <1>3, TakenType
<1> QED BY <1>1, <1>3, <1>5, <1>6 DEF WaitInv, TypeInv, OutTypes

\* A read that is to be tried again.
LEMMA ReadWaits ==
  ASSUME WaitInv, NEW p \in Proc, NEW c \in Call, ModeOf(c) = "input",
         NEW as, as = attachments \/ as = Detach(attachments, c.f, p), Suspend(p, c, as, "input"),
         NEW used, Len(used) \in Nat, Taken(c.f, used) \/ UNCHANGED taken,
         client' \in [Proc -> Clients], UNCHANGED <<arrived, outVars>>
  PROVE  WaitInv'
<1>1. TypeInv /\ attachments \in Seq(Attachment) BY DEF WaitInv, TypeInv, ProcTypes
<1>2. c.f \in File BY <1>1, CallTypes
<1>3. as \in Seq(Attachment) /\ Keeps(attachments, as, p) BY <1>1, <1>2, DetachKeeps, KeepsAll
<1>4. (ProcTypes /\ WaitsAttached)' BY <1>3, SuspendWaits
<1>5. taken' \in [File -> Nat] BY <1>1, <1>2, TakenType DEF TypeInv
<1>6. arrived' = arrived /\ unsent' = unsent /\ written' = written BY DEF outVars
<1> QED BY <1>1, <1>4, <1>5, <1>6 DEF WaitInv, TypeInv, OutTypes

-----------------------------------------------------------------------------
(***************************************************************************)
(* What the escapes that read have in common: a piece of the file is read; *)
(* the escape is answered with characters of that piece and of what the    *)
(* process had kept, or it is to be tried again, and keeps all of these    *)
(* but the ones it gives up.                                               *)
(***************************************************************************)
Part(cl) == CASE cl[1] = "text" -> cl[2] [] cl[1] = "dec" -> cl[2].body [] OTHER -> << >>

Ends(p, c, used, cl) ==
  /\ \E res, val :
       /\ ReadEnds(p, c, used, res, val)
       /\ \A x \in ToSet(val) : x[2] # 0 => x \in ToSet(used) \cup ToSet(Holds(p))
  /\ cl = NoClient \/ (cl = client[p] /\ c.op \notin TextReads \cup {"decode"})

Waits(p, c, used, cl) ==
  /\ \E as : (as = attachments \/ as = Detach(attachments, c.f, p)) /\ Suspend(p, c, as, "input")
  /\ \E gone :
       /\ dropped' = dropped \cup gone /\ gone \subseteq ToSet(used)
       /\ gone \cup ToSet(Part(cl)) = ToSet(used) \cup ToSet(Holds(p))
       /\ gone \cap (ToSet(Part(cl)) \ ToSet(Holds(p))) = {}
  /\ Taken(c.f, used)
  /\ UNCHANGED <<arrived, delivered, outVars, refs, reached>>
  /\ \/ cl = client[p]
     \/ cl[1] = "text" /\ c.op \in TextReads
     \/ cl[1] = "dec" /\ c.op = "decode"

Reading(p, c) ==
  \E used, cl \in Seq(Places) \cup Clients :
    /\ used \in Seq(Places) /\ Piece(c.f, taken[c.f], used) /\ cl \in Clients /\ ClientOf(p, cl)
    /\ Ends(p, c, used, cl) \/ Waits(p, c, used, cl)

LEMMA HoldsPart ==
  ASSUME TypeInv, NEW p \in Proc
  PROVE  Holds(p) = Part(client[p]) /\ Holds(p) \in Seq(Places) /\ (client[p] = NoClient => Holds(p) = << >>)
<1>1. client[p] \in Clients BY DEF TypeInv
<1>2. << >> \in Seq(Places) BY EmptySeq
<1> QED BY <1>1, <1>2, ClientCases DEF Holds, Part, NoClient

LEMMA TextBegun ==
  ASSUME TypeInv, NEW p \in Proc, NEW c \in Turn(p), c.op \in TextReads
  PROVE  Begun(p) \in Seq(Places) /\ Holds(p) = Begun(p)
<1>1. client[p] \in Clients /\ (client[p] = NoClient \/ client[p][1] \in Kinds(c.op)) BY TurnRight
<1>2. Kinds(c.op) = {"text"} BY DEF Kinds, TextReads
<1>3. CASE client[p] = NoClient
  <2>1. Begun(p) = << >> BY <1>3 DEF Begun
  <2> QED BY <2>1, <1>3, HoldsPart
<1>4. CASE client[p] # NoClient
  <2>1. client[p][1] = "text" /\ client[p][2] \in Seq(Places) BY <1>1, <1>2, <1>4, ClientCases
  <2> QED BY <2>1, <1>4 DEF Begun, Holds
<1> QED BY <1>3, <1>4

LEMMA SameClient == ASSUME TypeInv, NEW p \in Proc, UNCHANGED client PROVE ClientOf(p, client[p]) /\ client[p] \in Clients
  BY DEF TypeInv, ClientOf

\* Nothing is read of a file that is not ready.
LEMMA NothingTaken ==
  ASSUME TypeInv, NEW f \in File, UNCHANGED taken
  PROVE  Piece(f, taken[f], << >>) /\ Taken(f, << >>) /\ << >> \in Seq(Places) /\ ToSet(<< >>) = {}
<1>1. Len(<< >>) = 0 /\ << >> \in Seq(Places) /\ ToSet(<< >>) = {} BY EmptySeq, EmptySet
<1>2. taken' = [taken EXCEPT ![f] = @ + 0] BY DEF TypeInv
<1>3. Taken(f, << >>) BY ONLY <1>1, <1>2 DEF Taken
<1> QED BY <1>1, <1>3, PieceOfNothing

LEMMA NotReadyReads ==
  ASSUME TypeInv, NEW p \in Proc, NEW c \in Call,
         NEW as, as = attachments \/ as = Detach(attachments, c.f, p), Suspend(p, c, as, "input"),
         UNCHANGED <<client, inVars, outVars, refs, reached>>
  PROVE  Reading(p, c)
<1>1. c.f \in File BY CallTypes
<1>2. UNCHANGED <<taken, dropped, arrived, delivered, outVars, refs, reached, client>> BY DEF inVars
<1> DEFINE used == << >>
<1>3. /\ Piece(c.f, taken[c.f], used) /\ Taken(c.f, used) /\ used \in Seq(Places) /\ ToSet(used) = {}
  BY <1>1, <1>2, NothingTaken
<1>4. ClientOf(p, client[p]) /\ client[p] \in Clients BY <1>2, SameClient
<1>5. Holds(p) = Part(client[p]) BY HoldsPart
<1> HIDE DEF used
<1>6. Waits(p, c, used, client[p])
  <2>1. \E gone :
          /\ dropped' = dropped \cup gone /\ gone \subseteq ToSet(used)
          /\ gone \cup ToSet(Part(client[p])) = ToSet(used) \cup ToSet(Holds(p))
          /\ gone \cap (ToSet(Part(client[p])) \ ToSet(Holds(p))) = {}
    <3>1. dropped' = dropped \cup {} BY <1>2
    <3> QED BY <1>3, <1>5, <3>1
  <2> QED BY <1>2, <1>3, <2>1 DEF Waits
<1> QED BY <1>3, <1>4, <1>6 DEF Reading

LEMMA CollectReads ==
  ASSUME TypeInv, NEW p \in Proc, NEW c \in Turn(p), c.op \in TextReads,
         NEW used, Piece(c.f, taken[c.f], used), NEW got \in Seq(Places), NEW res, Collect(p, c, used, got, res),
         ToSet(got) \subseteq ToSet(used) \cup ToSet(Begun(p)),
         res = "wait" => ToSet(got) = ToSet(used) \cup ToSet(Begun(p))
  PROVE  Reading(p, c)
<1>1. used \in Seq(Places) BY DEF Piece
<1>2. Holds(p) = Begun(p) BY TextBegun
<1>3. CASE res = "wait"
  <2> DEFINE cl == <<"text", got>>
  <2>1. cl \in Clients /\ cl[1] = "text" /\ Part(cl) = got BY DEF Clients, Part
  <2>2. /\ Suspend(p, c, Detach(attachments, c.f, p), "input") /\ ClientOf(p, cl) /\ Taken(c.f, used)
        /\ UNCHANGED <<arrived, delivered, dropped, outVars, refs, reached>>
    BY <1>3 DEF Collect, Kept
  <2> HIDE DEF cl
  <2>3. dropped' = dropped \cup {} BY <2>2
  <2>4. Waits(p, c, used, cl)
    <3>1. \E gone :
            /\ dropped' = dropped \cup gone /\ gone \subseteq ToSet(used)
            /\ gone \cup ToSet(Part(cl)) = ToSet(used) \cup ToSet(Holds(p))
            /\ gone \cap (ToSet(Part(cl)) \ ToSet(Holds(p))) = {}
      <4>1. ToSet(Part(cl)) = ToSet(used) \cup ToSet(Holds(p)) BY <1>2, <1>3, <2>1
      <4> HIDE DEF Part
      <4>2. {} \cup ToSet(Part(cl)) = ToSet(used) \cup ToSet(Holds(p)) BY <4>1
      <4>3. {} \cap (ToSet(Part(cl)) \ ToSet(Holds(p))) = {} OBVIOUS
      <4>4. {} \subseteq ToSet(used) OBVIOUS
      <4> QED BY <2>3, <4>2, <4>3, <4>4, Zenon
    <3> QED BY <2>1, <2>2, <3>1 DEF Waits
  <2> QED BY <1>1, <2>1, <2>2, <2>4 DEF Reading
<1>4. CASE res # "wait"
  <2> DEFINE val == IF res = "ok" THEN got ELSE << >>
  <2>1. ReadEnds(p, c, used, res, val) /\ ClientOf(p, NoClient) BY <1>4 DEF Collect
  <2>2. NoClient \in Clients BY DEF Clients
  <2>3. ToSet(val) \subseteq ToSet(used) \cup ToSet(Holds(p)) BY <1>2, EmptySet
  <2> HIDE DEF val
  <2>4. Ends(p, c, used, NoClient) BY <2>1, <2>3 DEF Ends
  <2> QED BY <1>1, <2>1, <2>2, <2>4 DEF Reading
<1> QED BY <1>3, <1>4

LEMMA PiecesNest ==
  ASSUME NEW f \in File, NEW n \in Nat, NEW s, NEW t, Piece(f, n, s), Piece(f, n, t), Len(s) <= Len(t)
  PROVE  ToSet(s) \subseteq ToSet(t) /\ (Len(s) = Len(t) => ToSet(s) = ToSet(t))
<1>1. ToSet(s) = {f} \X (n + 1 .. n + Len(s)) /\ Len(s) \in Nat BY PieceSet
<1>2. ToSet(t) = {f} \X (n + 1 .. n + Len(t)) /\ Len(t) \in Nat BY PieceSet
<1>3. n + 1 .. n + Len(s) \subseteq n + 1 .. n + Len(t) BY <1>1, <1>2
<1> QED BY <1>1, <1>2, <1>3

\* The text a process has, and what there is to be read behind it.
LEMMA TextThere ==
  ASSUME TypeInv, NEW p \in Proc, NEW c \in Turn(p)
  PROVE  /\ c \in Call /\ c.f \in File /\ taken[c.f] \in Nat /\ c.n \in Int
         /\ Piece(c.f, taken[c.f], Avail(c.f)) /\ Avail(c.f) \in Seq(Places) /\ Len(Avail(c.f)) \in Nat
<1>1. c \in Call BY TurnRight
<1>2. c.f \in File /\ c.n \in Int BY <1>1, CallTypes
<1>3. taken[c.f] \in Nat BY <1>2 DEF TypeInv
<1>4. Piece(c.f, taken[c.f], Avail(c.f)) BY <1>2, AvailPiece
<1>5. Avail(c.f) \in Seq(Places) BY <1>4 DEF Piece
<1>6. Len(Avail(c.f)) \in Nat BY <1>5, LenProperties
<1> QED BY <1>1, <1>2, <1>3, <1>4, <1>5, <1>6

LEMMA InbytesReads == ASSUME TypeInv, NEW p \in Proc, NEW c \in Turn(p), Inbytes(p, c) PROVE Reading(p, c)
<1> DEFINE m == c.n - Len(Begun(p))
           want == IF m < 0 THEN 0 ELSE m
           used == Start(Avail(c.f), want)
           got == Begun(p) \o used
           res == IF Len(got) >= c.n THEN "ok" ELSE AtEnd(c.f, got)
<1>1. c.op \in TextReads /\ Collect(p, c, used, got, res) BY DEF Inbytes, TextReads
<1>2. /\ c \in Call /\ c.f \in File /\ taken[c.f] \in Nat /\ c.n \in Int /\ Piece(c.f, taken[c.f], Avail(c.f))
  BY TextThere
<1>3. Begun(p) \in Seq(Places) BY <1>1, TextBegun
<1>4. Len(Begun(p)) \in Nat BY <1>3, LenProperties
<1>5. want \in Int BY <1>2, <1>4
<1> HIDE DEF want
<1>6. Piece(c.f, taken[c.f], used) BY <1>2, <1>5, PieceStart
<1>7. used \in Seq(Places) BY <1>6 DEF Piece
<1> HIDE DEF used
<1>8. got \in Seq(Places) /\ ToSet(got) = ToSet(used) \cup ToSet(Begun(p)) BY <1>3, <1>7, SetOfConcat
<1> HIDE DEF got, res
<1> QED BY <1>1, <1>6, <1>8, CollectReads

LEMMA InlineReads == ASSUME TypeInv, NEW p \in Proc, NEW c \in Turn(p), Inline(p, c) PROVE Reading(p, c)
<1> DEFINE a == Avail(c.f)
           line == Run(a, Nat \ {NEW_LINE})
           used == Start(a, Len(line) + 1)
           whole == Len(line) < Len(a)
           got == Begun(p) \o line
           res == IF whole THEN "ok" ELSE AtEnd(c.f, got)
<1>1. c.op \in TextReads /\ Collect(p, c, used, got, res) BY DEF Inline, TextReads
<1>2. /\ c \in Call /\ c.f \in File /\ taken[c.f] \in Nat /\ Piece(c.f, taken[c.f], a) /\ Len(a) \in Nat
  BY TextThere
<1>3. Begun(p) \in Seq(Places) BY <1>1, TextBegun
<1> HIDE DEF a
<1>4. Piece(c.f, taken[c.f], line) /\ Len(line) \in 0..Len(a) BY <1>2, PieceRun
<1> HIDE DEF line
<1>5. Len(line) + 1 \in Int /\ ~(Len(line) + 1 < 0) BY <1>2, <1>4
<1>6. Piece(c.f, taken[c.f], used) /\ Len(used) = IF Len(line) + 1 < Len(a) THEN Len(line) + 1 ELSE Len(a)
  BY <1>2, <1>5, PieceStart
<1> HIDE DEF used
<1>7. used \in Seq(Places) /\ line \in Seq(Places) BY <1>4, <1>6 DEF Piece
<1>8. Len(line) <= Len(used) /\ (~whole => Len(line) = Len(used)) BY <1>2, <1>4, <1>6
<1> HIDE DEF whole
<1>9. ToSet(line) \subseteq ToSet(used) /\ (~whole => ToSet(line) = ToSet(used)) BY <1>2, <1>4, <1>6, <1>8, PiecesNest
<1>10. got \in Seq(Places) /\ ToSet(got) = ToSet(Begun(p)) \cup ToSet(line) BY <1>3, <1>7, SetOfConcat
<1>11. res = "wait" => ~whole OBVIOUS
<1> HIDE DEF got, res
<1>12. /\ ToSet(got) \subseteq ToSet(used) \cup ToSet(Begun(p))
       /\ res = "wait" => ToSet(got) = ToSet(used) \cup ToSet(Begun(p))
  BY <1>9, <1>10, <1>11
<1> QED BY <1>1, <1>6, <1>10, <1>12, CollectReads

LEMMA IntextReads == ASSUME TypeInv, NEW p \in Proc, NEW c \in Turn(p), Intext(p, c) PROVE Reading(p, c)
<1> DEFINE used == Avail(c.f)
           got == Begun(p) \o used
           res == IF ~InReady(c.f) THEN "wait" ELSE IF End(c.f) = "wait" THEN "ok" ELSE AtEnd(c.f, got)
<1>1. c.op \in TextReads /\ Collect(p, c, used, got, res) BY DEF Intext, TextReads
<1>2. Piece(c.f, taken[c.f], used) /\ used \in Seq(Places) BY TextThere
<1>3. Begun(p) \in Seq(Places) BY <1>1, TextBegun
<1> HIDE DEF used
<1>4. got \in Seq(Places) /\ ToSet(got) = ToSet(Begun(p)) \cup ToSet(used) BY <1>2, <1>3, SetOfConcat
<1> HIDE DEF got, res
<1> QED BY <1>1, <1>2, <1>4, CollectReads

\* An escape that reads some, is answered with some of that, and keeps nothing.
LEMMA EndsReads ==
  ASSUME TypeInv, NEW p \in Proc, NEW c \in Call, c.op \notin TextReads \cup {"decode"},
         NEW used, Piece(c.f, taken[c.f], used), NEW res, NEW val, ReadEnds(p, c, used, res, val), UNCHANGED client,
         \A x \in ToSet(val) : x[2] # 0 => x \in ToSet(used)
  PROVE  Reading(p, c)
<1>1. ClientOf(p, client[p]) /\ client[p] \in Clients BY SameClient
<1>2. used \in Seq(Places) BY DEF Piece
<1>3. Ends(p, c, used, client[p])
  <2>1. \A x \in ToSet(val) : x[2] # 0 => x \in ToSet(used) \cup ToSet(Holds(p)) OBVIOUS
  <2>2. \E r, v : /\ ReadEnds(p, c, used, r, v)
                  /\ \A x \in ToSet(v) : x[2] # 0 => x \in ToSet(used) \cup ToSet(Holds(p))
    BY <2>1
  <2> QED BY <2>2 DEF Ends
<1> QED BY <1>1, <1>2, <1>3 DEF Reading

LEMMA IncharReads == ASSUME TypeInv, NEW p \in Proc, NEW c \in Turn(p), Inchar(p, c) PROVE Reading(p, c)
<1>1. c \in Call /\ taken[c.f] \in Nat /\ c.f \in File /\ Piece(c.f, taken[c.f], Avail(c.f)) BY TextThere
<1>2. CASE ~InReady(c.f)
  <2>1. Suspend(p, c, Detach(attachments, c.f, p), "input") /\ UNCHANGED <<client, inVars, outVars, refs, reached>>
    BY <1>2 DEF Inchar
  <2> QED BY <1>1, <2>1, NotReadyReads
<1>3. CASE InReady(c.f)
  <2> DEFINE ch == Start(Avail(c.f), 1)
             res == IF ch = << >> THEN "eeof" ELSE "ok"
  <2>1. ReadEnds(p, c, ch, res, ch) /\ UNCHANGED client BY <1>3 DEF Inchar
  <2>2. Piece(c.f, taken[c.f], ch) BY <1>1, PieceStart
  <2>3. c.op \notin TextReads \cup {"decode"} BY DEF Inchar, TextReads
  <2> HIDE DEF ch, res
  <2> QED BY <1>1, <2>1, <2>2, <2>3, EndsReads
<1> QED BY <1>2, <1>3

LEMMA EofReads == ASSUME TypeInv, NEW p \in Proc, NEW c \in Turn(p), Eof(p, c) PROVE Reading(p, c)
<1>1. c \in Call BY TextThere
<1>2. CASE ~InReady(c.f) /\ NotReady(p, c) BY <1>1, <1>2, NotReadyReads DEF NotReady
<1>3. CASE ~(~InReady(c.f) /\ NotReady(p, c))
  <2> DEFINE res == IF Avail(c.f) = << >> /\ End(c.f) = "eof" THEN "true" ELSE "false"
  <2>1. ReadEnds(p, c, << >>, res, << >>) /\ UNCHANGED client BY <1>3 DEF Eof
  <2>2. Piece(c.f, taken[c.f], << >>) BY PieceOfNothing
  <2>3. c.op \notin TextReads \cup {"decode"} BY DEF Eof, TextReads
  <2>4. ToSet(<< >>) = {} BY EmptySet
  <2> HIDE DEF res
  <2> QED BY <1>1, <2>1, <2>2, <2>3, <2>4, EndsReads
<1> QED BY <1>2, <1>3

LEMMA BinlineReads == ASSUME TypeInv, NEW p \in Proc, NEW c \in Turn(p), Binline(p, c) PROVE Reading(p, c)
<1>1. /\ c \in Call /\ taken[c.f] \in Nat /\ c.f \in File /\ Piece(c.f, taken[c.f], Avail(c.f))
      /\ Avail(c.f) \in Seq(Places) /\ Len(Avail(c.f)) \in Nat
  BY TextThere
<1>2. CASE ~InReady(c.f) /\ NotReady(p, c) BY <1>1, <1>2, NotReadyReads DEF NotReady
<1>3. CASE ~(~InReady(c.f) /\ NotReady(p, c))
  <2> DEFINE a == Avail(c.f)
             bal == BalRead(c.f, a)
             used == Start(a, bal.n)
             res == IF bal.res = "eof" THEN IF bal.out = << >> THEN "eeof" ELSE "ok" ELSE bal.res
             val == IF res = "ok" THEN bal.out ELSE << >>
  <2>1. ReadEnds(p, c, used, res, val) /\ UNCHANGED client BY <1>3 DEF Binline
  <2>2. c.op \notin TextReads \cup {"decode"} BY DEF Binline, TextReads
  <2>3. /\ bal.n \in 0..Len(a) /\ bal.out \in Seq(Places)
        /\ ToSet(bal.out) \subseteq ToSet(SubSeq(a, 1, bal.n)) \cup {<<c.f, 0>>}
    BY <1>1, BalReads
  <2> HIDE DEF a, bal, res
  <2>4. bal.n \in Int /\ ~(Len(a) < bal.n) /\ (bal.n < Len(a) \/ bal.n = Len(a)) BY <1>1, <2>3 DEF a
  <2>5. used = SubSeq(a, 1, bal.n) BY <2>4 DEF Start, Smaller
  <2>6. Piece(c.f, taken[c.f], used) BY <1>1, <2>4, PieceStart DEF a
  <2>7. ToSet(val) \subseteq ToSet(used) \cup {<<c.f, 0>>} BY <2>3, <2>5, EmptySet
  <2> HIDE DEF used, val
  <2>8. \A x \in ToSet(val) : x[2] # 0 => x \in ToSet(used) BY <2>7
  <2> QED BY <1>1, <2>1, <2>2, <2>6, <2>8, EndsReads
<1> QED BY <1>2, <1>3

LEMMA ReadTermReads == ASSUME TypeInv, NEW p \in Proc, NEW c \in Turn(p), ReadTerm(p, c) PROVE Reading(p, c)
<1> DEFINE a == Avail(c.f)
           blanks == Run(a, Blanks)
           rest == AfterFirst(a, Len(blanks))
           word == Run(rest, Letters)
           one == Start(rest, Len(word) + 1)
           used == blanks \o one
<1>1. /\ c \in Call /\ taken[c.f] \in Nat /\ c.f \in File /\ Piece(c.f, taken[c.f], a) /\ Len(a) \in Nat
  BY TextThere
<1>2. c.op \notin TextReads \cup {"decode"} BY DEF ReadTerm, TextReads
<1>3. CASE rest = << >>
  <2>1. /\ Suspend(p, c, attachments, "input") /\ Taken(c.f, blanks) /\ Given(blanks, << >>)
        /\ UNCHANGED <<client, outVars, refs, reached>>
    BY <1>3 DEF ReadTerm
  <2> HIDE DEF a
  <2>2. Piece(c.f, taken[c.f], blanks) BY <1>1, PieceRun
  <2> HIDE DEF blanks
  <2>3. ClientOf(p, client[p]) /\ client[p] \in Clients BY <2>1, SameClient
  <2>4. UNCHANGED <<arrived, delivered>> /\ dropped' = dropped \cup ToSet(blanks) BY <2>1, EmptySet DEF Given
  <2>5. Holds(p) = Part(client[p]) BY HoldsPart
  <2>6. Waits(p, c, blanks, client[p])
    <3>1. \E gone :
            /\ dropped' = dropped \cup gone /\ gone \subseteq ToSet(blanks)
            /\ gone \cup ToSet(Part(client[p])) = ToSet(blanks) \cup ToSet(Holds(p))
            /\ gone \cap (ToSet(Part(client[p])) \ ToSet(Holds(p))) = {}
      <4> WITNESS ToSet(blanks)
      <4> QED BY <2>4, <2>5
    <3> QED BY <2>1, <2>4, <3>1 DEF Waits
  <2>7. blanks \in Seq(Places) BY <2>2 DEF Piece
  <2> QED BY <2>2, <2>3, <2>6, <2>7 DEF Reading
<1>4. CASE rest # << >>
  <2> DEFINE res == IF word = << >> THEN "efail" ELSE "ok"
  <2>1. ReadEnds(p, c, used, res, word) /\ UNCHANGED client BY <1>4 DEF ReadTerm
  <2> HIDE DEF a
  <2>2. Piece(c.f, taken[c.f], blanks) /\ Len(blanks) \in 0..Len(a) BY <1>1, PieceRun
  <2>3. blanks \in Seq(Places) BY <2>2 DEF Piece
  <2> HIDE DEF blanks
  <2> DEFINE n == taken[c.f] + Len(blanks)
  <2>4. n \in Nat BY <1>1, <2>2
  <2>5. Piece(c.f, n, rest) BY <1>1, <2>2, PieceAfter
  <2> HIDE DEF rest
  <2>6. n = taken[c.f] + Len(blanks) OBVIOUS
  <2> HIDE DEF n
  <2>7. Piece(c.f, n, word) /\ Len(word) \in 0..Len(rest) BY <1>1, <2>4, <2>5, PieceRun
  <2>8. Len(rest) \in Nat BY <2>5, LenProperties DEF Piece
  <2> HIDE DEF word
  <2>9. Len(word) + 1 \in Int /\ ~(Len(word) + 1 < 0) BY <2>7, <2>8
  <2>10. Piece(c.f, n, one) /\ Len(one) = IF Len(word) + 1 < Len(rest) THEN Len(word) + 1 ELSE Len(rest)
    BY <1>1, <2>4, <2>5, <2>9, PieceStart
  <2>11. one \in Seq(Places) BY <2>10 DEF Piece
  <2> HIDE DEF one
  <2>12. Len(word) <= Len(one) BY <2>7, <2>8, <2>10
  <2>13. ToSet(word) \subseteq ToSet(one) BY <1>1, <2>4, <2>7, <2>10, <2>12, PiecesNest
  <2>14. Piece(c.f, taken[c.f], used) BY <1>1, <2>2, <2>6, <2>10, PieceConcat
  <2>15. ToSet(used) = ToSet(blanks) \cup ToSet(one) BY <2>3, <2>11, SetOfConcat
  <2> HIDE DEF used, res
  <2>16. \A x \in ToSet(word) : x[2] # 0 => x \in ToSet(used) BY <2>13, <2>15
  <2> QED BY <1>1, <1>2, <2>1, <2>14, <2>16, EndsReads
<1> QED BY <1>3, <1>4

LEMMA AcceptReads ==
  ASSUME TypeInv, NEW p \in Proc, NEW c \in Turn(p), Accept(p, c)
  PROVE  \/ Reading(p, c)
         \/ Answer(p, c, "enet", << >>) /\ UNCHANGED <<client, inVars, outVars, refs, reached, attachments>>
<1> DEFINE ch == Start(Avail(c.f), 1)
<1>1. c \in Call /\ taken[c.f] \in Nat /\ c.f \in File /\ Piece(c.f, taken[c.f], Avail(c.f)) BY TextThere
<1>2. c.op \notin TextReads \cup {"decode"} BY DEF Accept, TextReads
<1>3. \/ ReadEnds(p, c, ch, "ok", ch) /\ UNCHANGED client
      \/ NotReady(p, c)
      \/ Answer(p, c, "enet", << >>) /\ UNCHANGED <<client, inVars, outVars, refs, reached, attachments>>
  BY DEF Accept
<1>4. Piece(c.f, taken[c.f], ch) BY <1>1, PieceStart
<1> HIDE DEF ch
<1>5. CASE ReadEnds(p, c, ch, "ok", ch) /\ UNCHANGED client BY <1>1, <1>2, <1>4, <1>5, EndsReads
<1>6. CASE NotReady(p, c) BY <1>1, <1>6, NotReadyReads DEF NotReady
<1> QED BY <1>3, <1>5, <1>6

LEMMA PiecesApart ==
  ASSUME NEW f \in File, NEW n \in Nat, NEW s, NEW h, NEW m, Piece(f, n, s), Piece(f, n, h), Piece(f, n + Len(h), m),
         Len(s) = Len(h) + Len(m)
  PROVE  ToSet(s) = ToSet(h) \cup ToSet(m) /\ ToSet(h) \cap ToSet(m) = {}
<1>1. ToSet(s) = {f} \X (n + 1 .. n + Len(s)) /\ Len(s) \in Nat BY PieceSet
<1>2. ToSet(h) = {f} \X (n + 1 .. n + Len(h)) /\ Len(h) \in Nat BY PieceSet
<1>3. n + Len(h) \in Nat BY <1>2
<1>4. ToSet(m) = {f} \X ((n + Len(h)) + 1 .. (n + Len(h)) + Len(m)) /\ Len(m) \in Nat BY <1>3, PieceSet
<1> DEFINE S == n + 1 .. n + Len(s)
           H == n + 1 .. n + Len(h)
           M == (n + Len(h)) + 1 .. (n + Len(h)) + Len(m)
<1>5. S = H \cup M /\ H \cap M = {} BY <1>1, <1>2, <1>4
<1>6. ToSet(s) = {f} \X S /\ ToSet(h) = {f} \X H /\ ToSet(m) = {f} \X M BY <1>1, <1>2, <1>4
<1> HIDE DEF S, H, M
<1> QED BY <1>5, <1>6

LEMMA DecodeReads == ASSUME TypeInv, NEW p \in Proc, NEW c \in Turn(p), Decode(p, c) PROVE Reading(p, c)
<1> DEFINE text == Avail(c.f)
           fresh == client[p] = NoClient
           coded == text # << >> /\ Tag(Code(text[1])) = trmString
           upto == Smaller(1 + (Code(text[1]) % 16), Len(text))
           lens == IF fresh THEN SubSeq(text, 2, upto) ELSE << >>
           short == fresh /\ Len(lens) < Code(text[1]) % 16
           msg == IF fresh THEN [count |-> Length(lens), body |-> << >>] ELSE Begun(p)
           head == IF fresh THEN 1 + Len(lens) ELSE 0
           want == msg.count - Len(msg.body)
           more == IF short THEN << >> ELSE Start(AfterFirst(text, head), want)
           body == msg.body \o more
           used == Start(text, head + Len(more))
           lead == Start(text, head)
<1>1. /\ c \in Call /\ c.f \in File /\ taken[c.f] \in Nat /\ Piece(c.f, taken[c.f], text)
      /\ text \in Seq(Places) /\ Len(text) \in Nat
  BY TextThere
<1>2. c.op = "decode" BY DEF Decode
<1>3. \/ ~InReady(c.f) /\ NotReady(p, c)
      \/ fresh /\ ReadEnds(p, c, Start(text, 1), "einval", << >>) /\ UNCHANGED client
      \/ (fresh => coded) /\ ReadEnds(p, c, used, "ok", body) /\ ClientOf(p, NoClient)
      \/ /\ fresh => coded
         /\ Suspend(p, c, Detach(attachments, c.f, p), "input")
         /\ ClientOf(p, <<"dec", [count |-> msg.count, body |-> body]>>)
         /\ Taken(c.f, used) /\ Given(lead, << >>)
         /\ UNCHANGED <<outVars, refs, reached>>
      \/ (fresh => coded) /\ \E res : ReadEnds(p, c, used, res, << >>) /\ ClientOf(p, NoClient)
  BY ZenonT(40) DEF Decode
<1>4. NoClient \in Clients BY DEF Clients
<1>5. CASE ~InReady(c.f) /\ NotReady(p, c) BY <1>1, <1>5, NotReadyReads DEF NotReady
<1>6. CASE fresh /\ ReadEnds(p, c, Start(text, 1), "einval", << >>) /\ UNCHANGED client
  <2>1. Piece(c.f, taken[c.f], Start(text, 1)) BY <1>1, PieceStart
  <2>2. Start(text, 1) \in Seq(Places) BY <2>1 DEF Piece
  <2>3. ClientOf(p, NoClient) BY <1>6, SameClient
  <2>4. Ends(p, c, Start(text, 1), NoClient)
    <3>1. \E r, v : /\ ReadEnds(p, c, Start(text, 1), r, v)
                    /\ \A x \in ToSet(v) : x[2] # 0 => x \in ToSet(Start(text, 1)) \cup ToSet(Holds(p))
      <4>1. \A x \in ToSet(<< >>) : x[2] # 0 => x \in ToSet(Start(text, 1)) \cup ToSet(Holds(p)) BY EmptySet
      <4> QED BY <1>6, <4>1
    <3> QED BY <3>1 DEF Ends
  <2> QED BY <1>4, <2>1, <2>2, <2>3, <2>4 DEF Reading
<1>7. CASE fresh => coded
  <2>1. /\ msg.count \in Nat /\ msg.body \in Seq(Places) /\ ToSet(msg.body) = ToSet(Holds(p)) /\ head \in 0..Len(text)
    <3>1. CASE fresh
      <4>1. text # << >> BY <1>7, <3>1
      <4>2. Len(text) # 0 BY <1>1, <4>1, EmptySeq
      <4>3. Len(text) \in Nat \ {0} /\ 1 \in 1..Len(text) BY <1>1, <4>2
      <4>4. \A i \in 1..Len(text) : Code(text[i]) \in Nat BY <1>1, AvailPiece
      <4> DEFINE k == Code(text[1]) % 16
      <4>5. k \in Nat BY <4>3, <4>4
      <4>6. upto = Smaller(1 + k, Len(text)) OBVIOUS
      <4> HIDE DEF k
      <4>7. upto \in Int /\ upto <= Len(text) /\ 1 <= upto /\ 2 \in 1..Len(text) + 1 BY <4>3, <4>5, <4>6 DEF Smaller
      <4> HIDE DEF upto
      <4>8. lens = SubSeq(text, 2, upto) BY <3>1
      <4> HIDE DEF lens
      <4>9. /\ lens \in Seq(Places) /\ Len(lens) = IF 2 <= upto THEN upto - 2 + 1 ELSE 0
            /\ \A i \in 1..Len(lens) : lens[i] = text[2 + i - 1] /\ 2 + i - 1 \in 1..Len(text)
        BY <1>1, <4>7, <4>8, PartOf
      <4>10. Length(lens) \in Nat BY <4>4, <4>9, LengthIsNat
      <4>11. 1 + Len(lens) = upto BY <4>7, <4>9
      <4>12. msg = [count |-> Length(lens), body |-> << >>] /\ head = 1 + Len(lens) BY <3>1
      <4>13. Holds(p) = << >> BY <3>1, HoldsPart
      <4>14. << >> \in Seq(Places) BY EmptySeq
      <4> HIDE DEF msg, head
      <4> QED BY <4>3, <4>7, <4>10, <4>11, <4>12, <4>13, <4>14
    <3>2. CASE ~fresh
      <4>1. Kinds(c.op) = {"dec"} BY <1>2 DEF Kinds, TextReads
      <4>2. client[p] \in Clients /\ client[p][1] = "dec" BY <3>2, <4>1, TurnRight
      <4>3. client[p][2] \in [count : Nat, body : Seq(Places)] BY <4>2, ClientCases
      <4>4. msg = client[p][2] /\ head = 0 BY <3>2 DEF Begun
      <4>5. Holds(p) = client[p][2].body BY <4>2, HoldsPart DEF Part
      <4> HIDE DEF msg, head
      <4> QED BY <1>1, <4>3, <4>4, <4>5
    <3> QED BY <3>1, <3>2
  <2>2. Len(msg.body) \in Nat BY <2>1, LenProperties
  <2>3. want \in Int BY <2>1, <2>2
  <2> DEFINE rest == AfterFirst(text, head)
             n == taken[c.f] + head
  <2>4. more = IF short THEN << >> ELSE Start(rest, want) OBVIOUS
  <2>5. c.f \in File /\ taken[c.f] \in Nat /\ Len(text) \in Nat /\ Piece(c.f, taken[c.f], text) BY <1>1
  <2> HIDE DEF text, head, want
  <2>6. n \in Nat /\ Piece(c.f, n, rest) /\ Len(rest) = Len(text) - head
    <3>1. head \in 0..Len(text) BY <2>1
    <3>2. n \in Nat BY ONLY <2>5, <3>1
    <3> QED BY ONLY <2>5, <3>1, <3>2, PieceAfter
  <2> HIDE DEF rest
  <2>7. n = taken[c.f] + head OBVIOUS
  <2> HIDE DEF n, short, more
  <2>8. Piece(c.f, n, more) /\ Len(more) \in 0..Len(rest)
    <3>1. Len(rest) \in Nat BY <2>1, <2>5, <2>6
    <3>2. CASE short BY <2>4, <3>1, <3>2, PieceOfNothing
    <3>3. CASE ~short
      <4>1. /\ Piece(c.f, n, Start(rest, want))
            /\ Len(Start(rest, want)) = IF want < 0 THEN 0 ELSE IF want < Len(rest) THEN want ELSE Len(rest)
        BY <2>3, <2>5, <2>6, PieceStart
      <4> QED BY <2>3, <2>4, <3>1, <3>3, <4>1
    <3> QED BY <3>2, <3>3
  <2>9. /\ head \in Int /\ ~(head < 0) /\ (head < Len(text) \/ head = Len(text))
        /\ head + Len(more) \in Int /\ ~(head + Len(more) < 0)
        /\ head + Len(more) < Len(text) \/ head + Len(more) = Len(text)
    BY <2>1, <2>5, <2>6, <2>8
  <2>10. /\ Piece(c.f, taken[c.f], used)
         /\ Len(used) = IF head + Len(more) < 0 THEN 0 ELSE IF head + Len(more) < Len(text) THEN head + Len(more) ELSE Len(text)
    BY <2>5, <2>9, PieceStart
  <2>11. Piece(c.f, taken[c.f], lead) /\ Len(lead) = IF head < 0 THEN 0 ELSE IF head < Len(text) THEN head ELSE Len(text)
    BY <2>5, <2>9, PieceStart
  <2> HIDE DEF used, lead
  <2>12. Len(lead) = head /\ Len(used) = head + Len(more) BY <2>9, <2>10, <2>11
  <2>13. ToSet(used) = ToSet(lead) \cup ToSet(more) /\ ToSet(lead) \cap ToSet(more) = {}
    <3>1. n = taken[c.f] + Len(lead) /\ Len(used) = Len(lead) + Len(more) BY <2>7, <2>12
    <3>2. Piece(c.f, taken[c.f] + Len(lead), more) BY <2>8, <3>1
    <3> DEFINE g == c.f
               t == taken[c.f]
    <3>3. /\ g \in File /\ t \in Nat /\ Piece(g, t, used) /\ Piece(g, t, lead) /\ Piece(g, t + Len(lead), more)
          /\ Len(used) = Len(lead) + Len(more)
      BY <2>5, <2>10, <2>11, <3>1, <3>2
    <3> HIDE DEF g, t
    <3> QED BY ONLY <3>3, PiecesApart
  <2>14. used \in Seq(Places) /\ more \in Seq(Places) BY <2>8, <2>10 DEF Piece
  <2>16. msg.count \in Nat /\ msg.body \in Seq(Places) BY <2>1
  <2> HIDE DEF msg
  <2>20. body \in Seq(Places) /\ ToSet(body) = ToSet(msg.body) \cup ToSet(more) BY <2>14, <2>16, SetOfConcat
  <2> HIDE DEF body
  <2>15. ToSet(body) = ToSet(Holds(p)) \cup ToSet(more) BY <2>1, <2>20
  <2>17. ASSUME NEW res, NEW val, ReadEnds(p, c, used, res, val), ClientOf(p, NoClient), ToSet(val) \subseteq ToSet(body)
         PROVE  Reading(p, c)
    <3>1. \A x \in ToSet(val) : x[2] # 0 => x \in ToSet(used) \cup ToSet(Holds(p)) BY <2>13, <2>15, <2>17
    <3>2. \E r, v : /\ ReadEnds(p, c, used, r, v)
                    /\ \A x \in ToSet(v) : x[2] # 0 => x \in ToSet(used) \cup ToSet(Holds(p))
      BY <2>17, <3>1
    <3>3. Ends(p, c, used, NoClient) BY <3>2 DEF Ends
    <3> QED BY <1>4, <2>10, <2>14, <2>17, <3>3 DEF Reading
  <2>18. ASSUME Suspend(p, c, Detach(attachments, c.f, p), "input"),
                ClientOf(p, <<"dec", [count |-> msg.count, body |-> body]>>),
                Taken(c.f, used), Given(lead, << >>), UNCHANGED <<outVars, refs, reached>>
         PROVE  Reading(p, c)
    <3> DEFINE cl == <<"dec", [count |-> msg.count, body |-> body]>>
    <3>1. cl \in Clients /\ cl[1] = "dec" /\ Part(cl) = body BY <2>16, <2>20 DEF Clients, Part
    <3>2. ClientOf(p, cl) BY <2>18
    <3> HIDE DEF cl
    <3>3. dropped' = dropped \cup ToSet(lead) /\ UNCHANGED <<arrived, delivered>> BY <2>18, EmptySet DEF Given
    <3>4. \E gone :
            /\ dropped' = dropped \cup gone /\ gone \subseteq ToSet(used)
            /\ gone \cup ToSet(Part(cl)) = ToSet(used) \cup ToSet(Holds(p))
            /\ gone \cap (ToSet(Part(cl)) \ ToSet(Holds(p))) = {}
      <4> WITNESS ToSet(lead)
      <4> QED BY <2>13, <2>15, <3>1, <3>3
    <3>5. Waits(p, c, used, cl) BY <1>2, <2>18, <3>1, <3>3, <3>4 DEF Waits
    <3> QED BY <2>10, <2>14, <3>1, <3>2, <3>5 DEF Reading
  <2>19. ToSet(<< >>) \subseteq ToSet(body) BY EmptySet
  <2> HIDE DEF coded, fresh
  <2> QED BY <1>3, <1>5, <1>6, <2>17, <2>18, <2>19
<1> QED BY <1>3, <1>5, <1>6, <1>7

-----------------------------------------------------------------------------
(***************************************************************************)
(* Every step keeps whoever waits attached to what it waits for.           *)
(***************************************************************************)
LEMMA ClientType ==
  ASSUME TypeInv, NEW p \in Proc, NEW cl \in Clients, ClientOf(p, cl)
  PROVE  client' \in [Proc -> Clients] /\ client'[p] = cl /\ \A q \in Proc \ {p} : client'[q] = client[q]
<1>1. client \in [Proc -> Clients] /\ client' = [client EXCEPT ![p] = cl] BY DEF TypeInv, ClientOf
<1> QED BY <1>1

LEMMA ReadingWaits ==
  ASSUME WaitInv, NEW p \in Proc, NEW c \in Turn(p), ModeOf(c) = "input", Reading(p, c)
  PROVE  WaitInv'
<1>1. TypeInv BY DEF WaitInv
<1>2. c \in Call /\ state[p] = "runnable" BY <1>1, TurnRight
<1>3. PICK used \in Seq(Places) \cup Clients, cl \in Seq(Places) \cup Clients :
        /\ used \in Seq(Places) /\ Piece(c.f, taken[c.f], used) /\ cl \in Clients /\ ClientOf(p, cl)
        /\ Ends(p, c, used, cl) \/ Waits(p, c, used, cl)
  BY DEF Reading
<1>4. Len(used) \in Nat BY <1>3, LenProperties
<1>5. client' \in [Proc -> Clients] BY <1>1, <1>3, ClientType
<1>6. CASE Ends(p, c, used, cl)
  <2>1. \E res, val : ReadEnds(p, c, used, res, val) BY <1>6 DEF Ends
  <2> QED BY <1>2, <1>4, <1>5, <2>1, ReadEndsWaits
<1>7. CASE Waits(p, c, used, cl)
  <2>1. /\ \E as : (as = attachments \/ as = Detach(attachments, c.f, p)) /\ Suspend(p, c, as, "input")
        /\ Taken(c.f, used) /\ UNCHANGED <<arrived, outVars>>
    BY <1>7 DEF Waits
  <2> QED BY <1>2, <1>4, <1>5, <2>1, ReadWaits
<1> QED BY <1>3, <1>6, <1>7

LEMMA PutTypes ==
  ASSUME TypeInv, NEW p \in Proc, NEW f \in File, NEW from \in Nat, NEW to \in Int, to - from <= Room - unsent[f],
         Put(p, f, from, to)
  PROVE  OutTypes'
<1> DEFINE u == unsent[f] + to - from
           cs == CodesOf(p, from, to)
           n == IF to - from > 0 THEN to - from ELSE 0
           N3 == Proc \X Nat \X Nat
<1>1. /\ unsent \in [File -> Int] /\ \A g \in File : unsent[g] <= Room
      /\ written \in [File -> Seq(N3)] /\ made[p] \in Nat /\ Room \in Nat
  BY FilesAssumption DEF TypeInv, OutTypes, ProcTypes
<1>2. unsent' = [unsent EXCEPT ![f] = u] /\ written' = [written EXCEPT ![f] = @ \o cs] BY DEF Put
<1>3. u \in Int /\ u <= Room BY <1>1
<1> HIDE DEF u
<1>4. unsent' \in [File -> Int] /\ \A g \in File : unsent'[g] <= Room BY <1>1, <1>2, <1>3
<1>5. cs \in Seq(N3)
  <2>1. n \in Nat /\ 1..to - from = 1..n BY <1>1
  <2> HIDE DEF n
  <2>2. cs = [k \in 1..n |-> <<p, made[p] + 1, from + k>>] BY <2>1 DEF CodesOf
  <2> HIDE DEF cs
  <2>3. ASSUME NEW k \in 1..n PROVE cs[k] \in N3
    <3>1. cs[k] = <<p, made[p] + 1, from + k>> BY <2>2
    <3>2. made[p] + 1 \in Nat /\ from + k \in Nat BY <1>1, <2>1
    <3> QED BY <3>1, <3>2
  <2>4. cs = [k \in 1..n |-> cs[k]] BY <2>2
  <2> HIDE DEF N3
  <2> QED BY ONLY <2>1, <2>3, <2>4, FunctionIsSeq
<1> HIDE DEF cs, N3
<1>6. written[f] \o cs \in Seq(N3) BY <1>1, <1>5, ConcatProperties
<1>7. written' \in [File -> Seq(N3)] BY <1>1, <1>2, <1>6
<1> QED BY <1>4, <1>7 DEF OutTypes, N3

\* How far a call that writes comes.
Written(p) == IF client[p] = NoClient THEN 0 ELSE client[p][2]
Upto(off, c) == IF End(c.f) = "err" THEN off ELSE off + Smaller(c.n - off, Room - unsent[c.f])

LEMMA WritesUpto ==
  ASSUME TypeInv, NEW p \in Proc, NEW c \in Turn(p), c.op \in Writes, NEW off \in Begins(p, c)
  PROVE  /\ off \in Nat /\ Upto(off, c) \in Int /\ Upto(off, c) - off <= Room - unsent[c.f]
         /\ Upto(off, c) < c.n => off <= Upto(off, c) /\ Upto(off, c) \in Nat
<1>1. c \in Call /\ client[p] \in Clients /\ (client[p] = NoClient \/ client[p][1] \in Kinds(c.op))
  BY TurnRight
<1>2. Kinds(c.op) = {"off"} BY DEF Kinds, Writes, TextReads
<1>3. Written(p) \in Nat BY <1>1, <1>2, ClientCases DEF Written
<1>4. c.f \in File /\ c.n \in Nat BY <1>1, CallTypes
<1>5. off = Written(p) \/ off \in 0 .. c.n BY DEF Begins, Written
<1>6. off \in Nat BY <1>3, <1>4, <1>5
<1>7. unsent[c.f] \in Int /\ unsent[c.f] <= Room /\ Room \in Nat BY <1>4, FilesAssumption DEF TypeInv, OutTypes
<1> QED BY <1>4, <1>6, <1>7 DEF Upto, Smaller

LEMMA OutcharWaits == ASSUME WaitInv, NEW p \in Proc, NEW c \in Turn(p), Outchar(p, c) PROVE WaitInv'
<1>0. PICK off \in Begins(p, c) : WriteFrom(p, c, off) BY DEF Outchar
<1> DEFINE upto == Upto(off, c)
           as == Detach(attachments, c.f, p)
<1>1. TypeInv BY DEF WaitInv
<1>2. c.op \in Writes BY DEF Outchar, Writes
<1>3. c \in Call /\ state[p] = "runnable" BY <1>1, TurnRight
<1>4. c.f \in File /\ c.n \in Nat BY <1>1, <1>3, CallTypes
<1>5. /\ Put(p, c.f, off, upto) /\ UNCHANGED <<inVars, refs, reached>>
      /\ \/ \E res : Answer(p, c, res, << >>) /\ ClientOf(p, NoClient) /\ attachments' = as
         \/ upto < c.n /\ Suspend(p, c, as, "output") /\ ClientOf(p, Offset(upto))
  BY <1>0 DEF WriteFrom, Upto
<1>6. /\ off \in Nat /\ upto \in Int /\ upto - off <= Room - unsent[c.f] /\ (upto < c.n => upto \in Nat)
  BY <1>1, <1>2, WritesUpto
<1> HIDE DEF upto
<1>7. OutTypes' BY <1>1, <1>4, <1>5, <1>6, PutTypes
<1>8. as \in Seq(Attachment) /\ Keeps(attachments, as, p) BY <1>1, <1>4, DetachKeeps
<1>9. taken' = taken /\ arrived' = arrived BY <1>5 DEF inVars
<1> HIDE DEF as
<1>10. NoClient \in Clients BY DEF Clients
<1>11. CASE \E res : Answer(p, c, res, << >>) /\ ClientOf(p, NoClient) /\ attachments' = as
  <2>1. (ProcTypes /\ WaitsAttached)' BY <1>3, <1>8, <1>11, AnswerWaits
  <2>2. client' \in [Proc -> Clients] BY <1>1, <1>10, <1>11, ClientType
  <2> QED BY <1>1, <1>7, <1>9, <2>1, <2>2 DEF WaitInv, TypeInv
<1>12. CASE upto < c.n /\ Suspend(p, c, as, "output") /\ ClientOf(p, Offset(upto))
  <2>1. ModeOf(c) = "output" BY <1>2 DEF ModeOf
  <2>2. (ProcTypes /\ WaitsAttached)' BY <1>3, <1>8, <1>12, <2>1, SuspendWaits
  <2>3. Offset(upto) \in Clients BY <1>6, <1>12 DEF Offset, Clients
  <2>4. client' \in [Proc -> Clients] BY <1>1, <1>12, <2>3, ClientType
  <2> QED BY <1>1, <1>7, <1>9, <2>2, <2>4 DEF WaitInv, TypeInv
<1> QED BY <1>5, <1>11, <1>12

LEMMA EncodeWaits == ASSUME WaitInv, NEW p \in Proc, NEW c \in Turn(p), Encode(p, c) PROVE WaitInv'
<1> DEFINE fits == IF End(c.f) = "err" THEN 0 ELSE Smaller(c.n + 2, Room - unsent[c.f])
           res == IF fits = c.n + 2 THEN "ok" ELSE "efail"
           as == Detach(attachments, c.f, p)
<1>1. TypeInv BY DEF WaitInv
<1>2. c \in Call /\ state[p] = "runnable" BY <1>1, TurnRight
<1>3. c.f \in File /\ c.n \in Nat BY <1>1, <1>2, CallTypes
<1>4. /\ Put(p, c.f, 0, fits) /\ Answer(p, c, res, << >>) /\ attachments' = as
      /\ UNCHANGED <<client, inVars, refs, reached>>
  BY DEF Encode
<1>5. unsent[c.f] \in Int /\ unsent[c.f] <= Room /\ Room \in Nat BY <1>1, <1>3, FilesAssumption DEF TypeInv, OutTypes
<1>6. fits \in Int /\ fits - 0 <= Room - unsent[c.f] BY <1>3, <1>5 DEF Smaller
<1> HIDE DEF fits, res
<1>7. OutTypes' BY <1>1, <1>3, <1>4, <1>6, PutTypes
<1>8. as \in Seq(Attachment) /\ Keeps(attachments, as, p) BY <1>1, <1>3, DetachKeeps
<1> HIDE DEF as
<1>9. (ProcTypes /\ WaitsAttached)' BY <1>2, <1>4, <1>8, AnswerWaits
<1>10. taken' = taken /\ arrived' = arrived /\ client' = client BY <1>4 DEF inVars
<1> QED BY <1>1, <1>7, <1>9, <1>10 DEF WaitInv, TypeInv

\* The escapes that are answered and neither read nor write.
LEMMA AnsweredWaits ==
  ASSUME WaitInv, NEW p \in Proc, NEW c \in Turn(p), NEW res, NEW val, Answer(p, c, res, val),
         UNCHANGED <<client, inVars, outVars, attachments>>
  PROVE  WaitInv'
<1>1. state[p] = "runnable" BY TurnRight DEF WaitInv
<1> QED BY <1>1, QuietWaits

LEMMA FlushWaits == ASSUME WaitInv, NEW p \in Proc, NEW c \in Turn(p), Flush(p, c) PROVE WaitInv'
<1>1. UNCHANGED <<client, inVars, outVars, attachments>> BY DEF Flush
<1>2. \/ \E res : Answer(p, c, res, << >>)
      \/ UNCHANGED <<program, made, call, state, answer>>
  BY DEF Flush
<1>3. CASE \E res : Answer(p, c, res, << >>) BY <1>1, <1>3, AnsweredWaits
<1>4. CASE UNCHANGED <<program, made, call, state, answer>>
  BY <1>1, <1>4 DEF WaitInv, TypeInv, ProcTypes, OutTypes, WaitsAttached, inVars, outVars
<1> QED BY <1>2, <1>3, <1>4

LEMMA FcloseWaits == ASSUME WaitInv, NEW p \in Proc, NEW c \in Turn(p), Fclose(p, c) PROVE WaitInv'
<1>1. TypeInv BY DEF WaitInv
<1>2. c \in Call /\ state[p] = "runnable" BY <1>1, TurnRight
<1>3. c.f \in File BY <1>1, <1>2, CallTypes
<1>4. /\ Answer(p, c, "ok", << >>) /\ attachments' = Detach(attachments, c.f, p)
      /\ UNCHANGED <<client, inVars, outVars>>
  BY DEF Fclose
<1>5. attachments' \in Seq(Attachment) /\ Keeps(attachments, attachments', p) BY <1>1, <1>3, <1>4, DetachKeeps
<1>6. (ProcTypes /\ WaitsAttached)' BY <1>2, <1>4, <1>5, AnswerWaits
<1> QED BY <1>1, <1>4, <1>6 DEF WaitInv, TypeInv, OutTypes, inVars, outVars

LEMMA ConnectWaits == ASSUME WaitInv, NEW p \in Proc, NEW c \in Turn(p), Connect(p, c) PROVE WaitInv'
<1> DEFINE f == IF client[p] = NoClient THEN c.f ELSE client[p][2]
           d == [c EXCEPT !.f = f]
<1>1. TypeInv BY DEF WaitInv
<1>2. /\ c \in Call /\ client[p] \in Clients /\ state[p] = "runnable"
      /\ client[p] = NoClient \/ client[p][1] \in Kinds(c.op)
  BY <1>1, TurnRight
<1>3. c.op = "connect" BY DEF Connect
<1>4. Kinds(c.op) = {"sock"} BY <1>3 DEF Kinds, TextReads
<1>5. f \in File BY <1>1, <1>2, <1>4, ClientCases, CallTypes
<1>6. \/ (\E res : Answer(p, c, res, << >>)) /\ UNCHANGED <<client, attachments>>
      \/ Suspend(p, d, attachments, "output") /\ ClientOf(p, <<"sock", f>>)
  BY DEF Connect
<1>7. UNCHANGED <<inVars, outVars>> BY DEF Connect
<1> HIDE DEF f
<1>8. CASE (\E res : Answer(p, c, res, << >>)) /\ UNCHANGED <<client, attachments>> BY <1>7, <1>8, AnsweredWaits
<1>9. CASE Suspend(p, d, attachments, "output") /\ ClientOf(p, <<"sock", f>>)
  <2>1. d \in Call /\ d.op = c.op BY <1>2, <1>5 DEF Call
  <2> HIDE DEF d
  <2>2. ModeOf(d) = "output" BY <1>3, <2>1 DEF ModeOf
  <2>3. attachments \in Seq(Attachment) BY <1>1 DEF TypeInv, ProcTypes
  <2>4. (ProcTypes /\ WaitsAttached)' BY <1>9, <2>1, <2>2, <2>3, KeepsAll, SuspendWaits
  <2>5. <<"sock", f>> \in Clients BY <1>5 DEF Clients
  <2>6. client' \in [Proc -> Clients] BY <1>1, <1>9, <2>5, ClientType
  <2> QED BY <1>1, <1>7, <2>4, <2>6 DEF WaitInv, TypeInv, OutTypes, inVars, outVars
<1> QED BY <1>6, <1>8, <1>9

\* Whoever is interrupted waits no longer.
LEMMA InterruptWaits == ASSUME WaitInv, NEW p \in Proc, NEW c \in Turn(p), Interrupt(p, c) PROVE WaitInv'
<1>1. TypeInv /\ ProcTypes /\ WaitsAttached BY DEF WaitInv, TypeInv
<1>2. c \in Call /\ state[p] = "runnable" BY <1>1, TurnRight
<1>3. c.q \in Proc BY <1>1, <1>2, CallTypes
<1> DEFINE ok == [call |-> c, res |-> "ok", val |-> << >>]
           err == [call |-> call[c.q], res |-> "error", val |-> << >>]
<1>4. /\ answer' = [answer EXCEPT ![p] = ok, ![c.q] = IF call[c.q] = NoCall THEN @ ELSE err]
      /\ made' = [made EXCEPT ![p] = @ + 1, ![c.q] = IF call[c.q] = NoCall THEN @ ELSE @ + 1]
      /\ call' = [call EXCEPT ![p] = NoCall, ![c.q] = NoCall]
      /\ state' = [state EXCEPT ![c.q] = "runnable"]
      /\ UNCHANGED <<program, client, inVars, outVars, attachments>>
  BY DEF Interrupt, waitVars
<1>5. ProcTypes'
  <2>1. answer' = [r \in Proc |-> answer'[r]]
    <3>1. DOMAIN answer = Proc BY <1>1 DEF ProcTypes
    <3> HIDE DEF ok, err
    <3> QED BY <1>4, <3>1
  <2> HIDE DEF ok, err
  <2>2. made' \in [Proc -> Nat] BY <1>1, <1>3, <1>4 DEF ProcTypes
  <2>3. call' \in [Proc -> Call \cup {NoCall}] BY <1>1, <1>3, <1>4 DEF ProcTypes
  <2>4. state' \in [Proc -> {"runnable", "wait_io"}] BY <1>1, <1>3, <1>4 DEF ProcTypes
  <2> QED BY <1>1, <1>4, <2>1, <2>2, <2>3, <2>4 DEF ProcTypes
<1>6. WaitsAttached'
  <2> SUFFICES ASSUME NEW r \in Proc, state'[r] = "wait_io"
               PROVE  call'[r] # NoCall /\ Attached(attachments', call'[r].f, r, ModeOf(call'[r]))
    BY DEF WaitsAttached
  <2> HIDE DEF ok, err
  <2>1. r # c.q /\ r # p /\ state[r] = "wait_io" BY <1>1, <1>2, <1>3, <1>4 DEF ProcTypes
  <2>2. call'[r] = call[r] BY <1>1, <1>4, <2>1 DEF ProcTypes
  <2> QED BY <1>1, <1>4, <2>1, <2>2 DEF WaitsAttached
<1> QED BY <1>1, <1>4, <1>5, <1>6 DEF WaitInv, TypeInv, OutTypes, inVars, outVars

LEMMA EscapeWaits == ASSUME WaitInv, NEW p \in Proc, Escape(p) PROVE WaitInv'
<1>1. TypeInv BY DEF WaitInv
<1>2. PICK c \in Turn(p) :
        \/ Refuse(p, c)
        \/ Inbytes(p, c) \/ Inline(p, c) \/ Intext(p, c) \/ Inchar(p, c) \/ Eof(p, c) \/ Ready(p, c) \/ Binline(p, c)
        \/ ReadTerm(p, c) \/ Decode(p, c) \/ Outchar(p, c) \/ Encode(p, c) \/ Flush(p, c) \/ Ftell(p, c)
        \/ Fopen(p, c) \/ Dupfile(p, c) \/ Fclose(p, c) \/ Connect(p, c) \/ Accept(p, c) \/ Interrupt(p, c)
  BY DEF Escape
<1>3. ASSUME c.op \in TextReads \cup {"inascii", "inchar", "eof", "binline", "read", "decode", "accept"}
      PROVE  ModeOf(c) = "input"
  BY <1>3 DEF ModeOf, Writes, TextReads
<1>4. CASE Refuse(p, c) BY <1>4, AnsweredWaits DEF Refuse
<1>5. CASE Inbytes(p, c)
  <2>1. ModeOf(c) = "input" BY <1>3, <1>5 DEF Inbytes, TextReads
  <2> QED BY <1>1, <1>5, <2>1, InbytesReads, ReadingWaits
<1>6. CASE Inline(p, c)
  <2>1. ModeOf(c) = "input" BY <1>3, <1>6 DEF Inline, TextReads
  <2> QED BY <1>1, <1>6, <2>1, InlineReads, ReadingWaits
<1>7. CASE Intext(p, c)
  <2>1. ModeOf(c) = "input" BY <1>3, <1>7 DEF Intext, TextReads
  <2> QED BY <1>1, <1>7, <2>1, IntextReads, ReadingWaits
<1>8. CASE Inchar(p, c)
  <2>1. ModeOf(c) = "input" BY <1>3, <1>8 DEF Inchar
  <2> QED BY <1>1, <1>8, <2>1, IncharReads, ReadingWaits
<1>9. CASE Eof(p, c)
  <2>1. ModeOf(c) = "input" BY <1>3, <1>9 DEF Eof
  <2> QED BY <1>1, <1>9, <2>1, EofReads, ReadingWaits
<1>10. CASE Ready(p, c) BY <1>10, AnsweredWaits DEF Ready
<1>11. CASE Binline(p, c)
  <2>1. ModeOf(c) = "input" BY <1>3, <1>11 DEF Binline
  <2> QED BY <1>1, <1>11, <2>1, BinlineReads, ReadingWaits
<1>12. CASE ReadTerm(p, c)
  <2>1. ModeOf(c) = "input" BY <1>3, <1>12 DEF ReadTerm
  <2> QED BY <1>1, <1>12, <2>1, ReadTermReads, ReadingWaits
<1>13. CASE Decode(p, c)
  <2>1. ModeOf(c) = "input" BY <1>3, <1>13 DEF Decode
  <2> QED BY <1>1, <1>13, <2>1, DecodeReads, ReadingWaits
<1>14. CASE Accept(p, c)
  <2>1. ModeOf(c) = "input" BY <1>3, <1>14 DEF Accept
  <2> QED BY <1>1, <1>14, <2>1, AcceptReads, ReadingWaits, AnsweredWaits
<1>15. CASE Ftell(p, c) BY <1>15, AnsweredWaits DEF Ftell
<1>16. CASE Fopen(p, c) BY <1>16, AnsweredWaits DEF Fopen
<1>17. CASE Dupfile(p, c) BY <1>17, AnsweredWaits DEF Dupfile
<1> QED
  BY <1>2, <1>4, <1>5, <1>6, <1>7, <1>8, <1>9, <1>10, <1>11, <1>12, <1>13, <1>14, <1>15, <1>16, <1>17,
     OutcharWaits, EncodeWaits, FlushWaits, FcloseWaits, ConnectWaits, InterruptWaits

LEMMA TriggerWaits == ASSUME WaitInv, trigger_io PROVE WaitInv'
<1>1. /\ state' = [p \in Proc |-> IF p \in Triggered THEN "runnable" ELSE state[p]]
      /\ UNCHANGED <<program, made, call, client, answer, inVars, outVars, attachments>>
  BY DEF trigger_io, waitVars
<1>2. state \in [Proc -> {"runnable", "wait_io"}] BY DEF WaitInv, TypeInv, ProcTypes
<1>3. state' \in [Proc -> {"runnable", "wait_io"}] BY <1>1, <1>2
<1>4. \A p \in Proc : state'[p] = "wait_io" => state[p] = "wait_io" BY <1>1
<1> QED BY <1>1, <1>3, <1>4 DEF WaitInv, TypeInv, ProcTypes, OutTypes, WaitsAttached, inVars, outVars

LEMMA OutsideWaits == ASSUME WaitInv, NEW f \in File, Outside(f) PROVE WaitInv'
<1>1. TypeInv /\ ProcTypes /\ WaitsAttached BY DEF WaitInv, TypeInv
<1>2. CASE Arrive(f)
  <2>1. /\ UNCHANGED <<program, made, state, call, answer, attachments, client, unsent, written, taken>>
        /\ \E n \in arrived[f] + 1 .. Len(Script[f]) + (IF Ending[f] = "none" THEN 0 ELSE 1) :
              arrived' = [arrived EXCEPT ![f] = n]
    BY <1>2 DEF Arrive, procVars, outVars, waitVars
  <2>2. arrived[f] \in Nat /\ arrived \in [File -> Nat] BY <1>1 DEF TypeInv
  <2>3. arrived' \in [File -> Nat] BY <2>1, <2>2
  <2> QED BY <1>1, <2>1, <2>3 DEF WaitInv, TypeInv, ProcTypes, OutTypes, WaitsAttached
<1>3. CASE Drain(f)
  <2>1. /\ UNCHANGED <<program, made, state, call, answer, attachments, client, arrived, written, taken>>
        /\ unsent' = [unsent EXCEPT ![f] = @ - 1]
    BY <1>3 DEF Drain, procVars, inVars, waitVars
  <2>2. unsent \in [File -> Int] /\ \A g \in File : unsent[g] <= Room BY <1>1 DEF TypeInv, OutTypes
  <2>3. Room \in Nat BY FilesAssumption
  <2>4. unsent' \in [File -> Int] /\ \A g \in File : unsent'[g] <= Room BY <2>1, <2>2, <2>3
  <2> QED BY <1>1, <2>1, <2>4 DEF WaitInv, TypeInv, ProcTypes, OutTypes, WaitsAttached
<1>4. CASE Reach(f)
  <2>1. UNCHANGED <<program, made, state, call, answer, attachments, client, arrived, unsent, written, taken>>
    BY <1>4 DEF Reach, procVars, inVars, outVars, waitVars
  <2> QED BY <1>1, <2>1 DEF WaitInv, TypeInv, ProcTypes, OutTypes, WaitsAttached
<1> QED BY <1>2, <1>3, <1>4 DEF Outside

LEMMA WaitsAtFirst == ASSUME Init PROVE WaitInv
<1>1. /\ program \in Programs /\ made = [p \in Proc |-> 0] /\ state = [p \in Proc |-> "runnable"]
      /\ call = [p \in Proc |-> NoCall] /\ client = [p \in Proc |-> NoClient] /\ answer = [p \in Proc |-> NoCall]
      /\ arrived = [f \in File |-> IF f \in Used THEN 0 ELSE Len(Script[f])] /\ taken = [f \in File |-> 0]
      /\ unsent = [f \in File |-> 0] /\ written = [f \in File |-> << >>] /\ attachments = << >>
  BY DEF Init
<1>2. NoClient \in Clients BY DEF Clients
<1>3. \A f \in File : Len(Script[f]) \in Nat
  <2>1. \A f \in File : Script[f] \in Seq(Nat) BY FilesAssumption
  <2> QED BY <2>1, LenProperties
<1>4. << >> \in Seq(Attachment) /\ << >> \in Seq(Proc \X Nat \X Nat) BY EmptySeq
<1>5. ProcTypes BY <1>1, <1>4, FilesAssumption DEF ProcTypes
<1>6. OutTypes BY <1>1, <1>4, FilesAssumption DEF OutTypes
<1>7. WaitsAttached BY <1>1 DEF WaitsAttached
<1>8. arrived \in [File -> Nat] BY <1>1, <1>3
<1> QED BY <1>1, <1>2, <1>5, <1>6, <1>7, <1>8 DEF WaitInv, TypeInv

LEMMA WaitsAlways == Spec => []WaitInv
<1>1. Init => WaitInv BY WaitsAtFirst
<1>2. WaitInv /\ [Next]_vars => WaitInv'
  <2> SUFFICES ASSUME WaitInv, [Next]_vars PROVE WaitInv' OBVIOUS
  <2>1. CASE \E p \in Proc : Escape(p) BY <2>1, EscapeWaits
  <2>2. CASE trigger_io BY <2>2, TriggerWaits
  <2>3. CASE \E f \in File : Outside(f) BY <2>3, OutsideWaits
  <2>4. CASE UNCHANGED vars
    BY <2>4 DEF WaitInv, TypeInv, ProcTypes, OutTypes, WaitsAttached, vars, procVars, inVars, outVars, waitVars
  <2> QED BY <2>1, <2>2, <2>3, <2>4 DEF Next
<1> QED BY <1>1, <1>2, PTL DEF Spec

(***************************************************************************)
(* No wake-up is lost (attachProcessToFile, set_in_fdset, set_out_fdset    *)
(* and trigger_io of fileio.c): whatever escapes it has begun before, and  *)
(* whoever else uses the file, a process that waits is found by the event  *)
(* loop when the file is ready for what the process waits for.             *)
(***************************************************************************)
THEOREM NoWakeUpLost == Spec => []ReadyResumes
<1>1. WaitInv => ReadyResumes
  <2> SUFFICES ASSUME WaitInv, NEW p \in Proc, state[p] = "wait_io",
                      IF call[p].op \in Writes \cup {"connect"} THEN OutReady(call[p].f) \/ End(call[p].f) = "err"
                      ELSE InReady(call[p].f)
               PROVE  p \in Triggered
    BY DEF ReadyResumes
  <2> DEFINE f == call[p].f
             m == ModeOf(call[p])
  <2>1. TypeInv /\ attachments \in Seq(Attachment) BY DEF WaitInv, TypeInv, ProcTypes
  <2>2. call[p] # NoCall /\ Attached(attachments, f, p, m) BY DEF WaitInv, WaitsAttached
  <2>3. PICK k \in DOMAIN attachments : attachments[k].f = f /\ attachments[k].p = p /\ attachments[k].mode = m
    BY <2>2 DEF Attached
  <2> DEFINE a == attachments[k]
  <2>4. a \in ToSet(attachments) BY <2>3 DEF ToSet
  <2>5. a.f = f /\ a.p = p /\ a.mode = m BY <2>3
  <2> HIDE DEF a
  <2>6. CASE call[p].op \in Writes \cup {"connect"}
    <3>1. m = "output" BY <2>6 DEF ModeOf
    <3>2. OutReady(f) \/ End(f) = "err" BY <2>6
    <3> HIDE DEF f, m
    <3>3. f \in outFds BY <2>4, <2>5, <3>1 DEF outFds
    <3>4. f \in Found["output"] BY <3>2, <3>3 DEF Found
    <3> QED BY <2>4, <2>5, <3>1, <3>4 DEF Triggered
  <2>7. CASE call[p].op \notin Writes \cup {"connect"}
    <3>1. m = "input" BY <2>7 DEF ModeOf
    <3>2. InReady(f) BY <2>7
    <3> HIDE DEF f, m
    <3>3. f \in inFds BY <2>4, <2>5, <3>1 DEF inFds
    <3>4. f \in Found["input"] BY <3>2, <3>3 DEF Found
    <3> QED BY <2>4, <2>5, <3>1, <3>4 DEF Triggered
  <2> QED BY <2>6, <2>7
<1> QED BY <1>1, WaitsAlways, PTL

-----------------------------------------------------------------------------
(***************************************************************************)
(* Where programs are careful: each character once.  First, what is read:  *)
(* a step that takes a piece of a file and divides it, with what its       *)
(* process had kept, among the answer, what is given up and what is kept.  *)
(***************************************************************************)
AllTaken == UNION {{f} \X (1 .. taken[f]) : f \in File}

LEMMA TakenGrows ==
  ASSUME TypeInv, NEW f \in File, NEW used, Piece(f, taken[f], used), Taken(f, used)
  PROVE  AllTaken' = AllTaken \cup ToSet(used) /\ AllTaken \cap ToSet(used) = {}
<1>1. taken \in [File -> Nat] /\ taken' = [taken EXCEPT ![f] = @ + Len(used)] BY DEF TypeInv, Taken
<1>2. ToSet(used) = {f} \X (taken[f] + 1 .. taken[f] + Len(used)) /\ Len(used) \in Nat BY <1>1, PieceSet
<1>3. taken'[f] = taken[f] + Len(used) /\ \A g \in File \ {f} : taken'[g] = taken[g] BY <1>1
<1> DEFINE B(t) == UNION {{g} \X (1 .. t[g]) : g \in File}
<1>4. ASSUME NEW x, NEW t PROVE x \in B(t) <=> \E g \in File : \E i \in 1..t[g] : x = <<g, i>> OBVIOUS
<1>5. AllTaken = B(taken) /\ AllTaken' = B(taken') BY DEF AllTaken
<1> HIDE DEF B
<1>6. ASSUME NEW x \in B(taken') PROVE x \in B(taken) \cup ToSet(used)
  <2>1. PICK g \in File : \E i \in 1..taken'[g] : x = <<g, i>> BY <1>4, <1>6
  <2>2. PICK i \in 1..taken'[g] : x = <<g, i>> BY <2>1
  <2>3. CASE g # f
    <3>1. i \in 1..taken[g] BY <1>3, <2>2, <2>3
    <3> QED BY <1>4, <2>2, <3>1
  <2>4. CASE g = f
    <3>1. i \in 1..taken[f] \/ i \in taken[f] + 1 .. taken[f] + Len(used) BY <1>1, <1>2, <1>3, <2>2, <2>4
    <3> QED BY <1>2, <1>4, <2>2, <2>4, <3>1
  <2> QED BY <2>3, <2>4
<1>7. ASSUME NEW x \in B(taken) PROVE x \in B(taken')
  <2>1. PICK g \in File : \E i \in 1..taken[g] : x = <<g, i>> BY <1>4, <1>7
  <2>2. PICK i \in 1..taken[g] : x = <<g, i>> BY <2>1
  <2>3. taken[g] \in Nat /\ taken[f] \in Nat BY <1>1
  <2>4. i \in 1..taken'[g] BY <1>2, <1>3, <2>2, <2>3
  <2> QED BY <1>4, <2>2, <2>4
<1>8. ASSUME NEW x \in ToSet(used) PROVE x \in B(taken') /\ x \notin B(taken)
  <2>1. PICK i \in taken[f] + 1 .. taken[f] + Len(used) : x = <<f, i>> BY <1>2, <1>8
  <2>2. taken[f] \in Nat BY <1>1
  <2>3. i \in 1..taken'[f] /\ i \notin 1..taken[f] BY <1>2, <1>3, <2>1, <2>2
  <2>4. x \in B(taken') BY <1>4, <2>1, <2>3
  <2>5. ASSUME x \in B(taken) PROVE FALSE
    <3>1. PICK g \in File : \E k \in 1..taken[g] : x = <<g, k>> BY <1>4, <2>5
    <3>2. PICK k \in 1..taken[g] : x = <<g, k>> BY <3>1
    <3>3. g = f /\ k = i BY <2>1, <3>2
    <3> QED BY <2>3, <3>2, <3>3
  <2> QED BY <2>4, <2>5
<1> QED BY <1>5, <1>6, <1>7, <1>8

\* TextKept, by the part that each process has kept.
HeldBy(p) == ToSet(Holds(p))
LEMMA KeptText ==
  TextKept <=> /\ AllTaken = delivered \cup dropped \cup UNION {HeldBy(p) : p \in Proc}
               /\ delivered \cap dropped = {}
               /\ \A p \in Proc : HeldBy(p) \cap (delivered \cup dropped) = {}
               /\ \A p, q \in Proc : p # q => HeldBy(p) \cap HeldBy(q) = {}
  BY DEF TextKept, AllTaken, HeldBy

LEMMA TextMoves ==
  ASSUME TypeInv, TextKept, NEW p \in Proc, NEW f \in File, NEW used, Piece(f, taken[f], used), Taken(f, used),
         NEW answered, delivered' = delivered \cup answered, NEW gone, dropped' = dropped \cup gone,
         \A q \in Proc \ {p} : client'[q] = client[q],
         answered \cup gone \cup ToSet(Part(client'[p])) = ToSet(used) \cup HeldBy(p),
         answered \cap gone = {}, (answered \cup gone) \cap ToSet(Part(client'[p])) = {}
  PROVE  TextKept'
<1> DEFINE A == ToSet(used) \cup HeldBy(p)
           K == ToSet(Part(client'[p]))
           D == delivered
           X == dropped
<1>1. /\ AllTaken = D \cup X \cup UNION {HeldBy(q) : q \in Proc}
      /\ D \cap X = {} /\ \A q \in Proc : HeldBy(q) \cap (D \cup X) = {}
      /\ \A r, q \in Proc : r # q => HeldBy(r) \cap HeldBy(q) = {}
  BY KeptText
<1>2. AllTaken' = AllTaken \cup ToSet(used) /\ AllTaken \cap ToSet(used) = {} BY TakenGrows
<1>3. HeldBy(p)' = K BY DEF HeldBy, Holds, Part
<1>4. \A q \in Proc \ {p} : HeldBy(q)' = HeldBy(q) BY DEF HeldBy, Holds
<1> DEFINE H == [q \in Proc |-> HeldBy(q)]
           G == [q \in Proc |-> HeldBy(q)']
<1>5. G[p] = K /\ \A q \in Proc \ {p} : G[q] = H[q] BY <1>3, <1>4
<1>6. /\ \A q \in Proc : HeldBy(q) = H[q]
      /\ \A q \in Proc : HeldBy(q)' = G[q]
  OBVIOUS
<1>7. A = ToSet(used) \cup H[p] OBVIOUS
<1>8. /\ AllTaken = D \cup X \cup UNION {H[q] : q \in Proc}
      /\ D \cap X = {} /\ \A q \in Proc : H[q] \cap (D \cup X) = {}
      /\ \A r, q \in Proc : r # q => H[r] \cap H[q] = {}
  BY <1>1
<1>9. answered \cup gone \cup K = A /\ answered \cap gone = {} /\ (answered \cup gone) \cap K = {} OBVIOUS
<1> HIDE DEF A, K, H, G
<1>10. A \cap D = {} /\ A \cap X = {} /\ \A q \in Proc \ {p} : A \cap H[q] = {}
  <2>1. \A q \in Proc : H[q] \subseteq AllTaken BY <1>8
  <2> QED BY <1>2, <1>7, <1>8, <2>1
<1>11. AllTaken' = D' \cup X' \cup UNION {G[q] : q \in Proc}
  <2>1. ASSUME NEW x \in AllTaken' PROVE x \in D' \cup X' \cup UNION {G[q] : q \in Proc}
    <3>1. x \in AllTaken \/ x \in ToSet(used) BY <1>2, <2>1
    <3>2. x \in D \/ x \in X \/ x \in A \/ \E q \in Proc \ {p} : x \in H[q] BY <1>7, <1>8, <3>1
    <3>3. x \in A => x \in D' \cup X' \cup G[p] BY <1>5, <1>9
    <3>4. (\E q \in Proc \ {p} : x \in H[q]) => \E q \in Proc : x \in G[q] BY <1>5
    <3> QED BY <3>2, <3>3, <3>4
  <2>2. ASSUME NEW x, x \in D' \cup X' \cup UNION {G[q] : q \in Proc} PROVE x \in AllTaken'
    <3>1. x \in D \/ x \in X \/ x \in A \/ \E q \in Proc \ {p} : x \in H[q] BY <1>5, <1>9, <2>2
    <3> QED BY <1>2, <1>7, <1>8, <3>1
  <2> QED BY <2>1, <2>2
<1>12. D' \cap X' = {} BY <1>8, <1>9, <1>10
<1>13. \A q \in Proc : G[q] \cap (D' \cup X') = {}
  <2>1. K \cap (D' \cup X') = {} BY <1>9, <1>10
  <2>2. \A q \in Proc \ {p} : H[q] \cap (D' \cup X') = {} BY <1>8, <1>9, <1>10
  <2> QED BY <1>5, <2>1, <2>2
<1>14. \A r, q \in Proc : r # q => G[r] \cap G[q] = {}
  <2>1. \A q \in Proc \ {p} : K \cap H[q] = {} BY <1>9, <1>10
  <2> QED BY <1>5, <1>8, <2>1
<1>15. UNION {G[q] : q \in Proc} = UNION {HeldBy(q)' : q \in Proc} BY <1>6
<1>16. TextKept' <=> /\ AllTaken' = D' \cup X' \cup UNION {HeldBy(q)' : q \in Proc}
                     /\ D' \cap X' = {}
                     /\ \A q \in Proc : HeldBy(q)' \cap (D' \cup X') = {}
                     /\ \A r, q \in Proc : r # q => HeldBy(r)' \cap HeldBy(q)' = {}
  BY DEF TextKept, AllTaken, HeldBy
<1> QED BY <1>6, <1>11, <1>12, <1>13, <1>14, <1>15, <1>16

LEMMA TextSame ==
  ASSUME TextKept, UNCHANGED <<taken, delivered, dropped>>, \A q \in Proc : Holds(q)' = Holds(q)
  PROVE  TextKept'
  BY DEF TextKept

-----------------------------------------------------------------------------
(***************************************************************************)
(* What a process has kept is of the call it is to go on with.             *)
(***************************************************************************)
LEMMA KeptOf ==
  ASSUME WaitInv, KeptRight, NEW p \in Proc, NEW c \in Turn(p)
  PROVE  /\ client[p] \in Clients
         /\ client[p][1] = "text" => c.op \in TextReads
         /\ client[p][1] = "off" => c.op \in Writes /\ c = call[p] /\ client[p][2] \in Nat /\ client[p][2] < c.n
         /\ client[p][1] = "dec" => c.op = "decode"
         /\ c.op \notin TextReads \cup {"decode"} => HeldBy(p) = {}
<1>1. TypeInv BY DEF WaitInv
<1>2. client[p] \in Clients /\ (call[p] # NoCall => c = call[p]) BY <1>1, TurnRight
<1>3. /\ client[p][1] = "text" => call[p] # NoCall /\ call[p].op \in TextReads
      /\ client[p][1] = "off" => call[p] # NoCall /\ call[p].op \in Writes /\ client[p][2] < call[p].n
      /\ client[p][1] = "dec" => call[p] # NoCall /\ call[p].op = "decode"
  BY DEF KeptRight
<1>4. client[p][1] = "off" => client[p][2] \in Nat BY <1>2, ClientCases
<1>5. client[p][1] \notin {"text", "dec"} => HeldBy(p) = {}
  <2>1. Holds(p) = Part(client[p]) BY <1>1, HoldsPart
  <2>2. client[p][1] \notin {"text", "dec"} => Part(client[p]) = << >> BY DEF Part
  <2> QED BY <2>1, <2>2, EmptySet DEF HeldBy
<1> QED BY <1>2, <1>3, <1>4, <1>5

LEMMA TurnNext ==
  ASSUME WaitInv, CallRight, NEW p \in Proc, NEW c \in Turn(p)
  PROVE  /\ made[p] + 1 \in DOMAIN program[p] /\ c.op = Next1(p).op /\ (c.op # "connect" => c = Next1(p))
         /\ call[p] # NoCall => Accepted(c) /\ c.op # "interrupt"
<1>1. /\ call[p] # NoCall => c = call[p]
      /\ call[p] = NoCall => c = Next1(p) /\ made[p] + 1 \in DOMAIN program[p]
  BY TurnRight DEF WaitInv
<1>2. CASE call[p] = NoCall BY <1>1, <1>2
<1>3. CASE call[p] # NoCall BY <1>1, <1>3 DEF CallRight
<1> QED BY <1>2, <1>3

LEMMA AnswerKept ==
  ASSUME WaitInv, KeptRight, CallRight, NEW p \in Proc, NEW c, NEW res, NEW val, Answer(p, c, res, val),
         client'[p][1] \notin {"text", "off", "dec"}, \A q \in Proc \ {p} : client'[q] = client[q]
  PROVE  KeptRight' /\ CallRight'
<1>1. /\ call \in [Proc -> Call \cup {NoCall}] /\ made \in [Proc -> Nat] BY DEF WaitInv, TypeInv, ProcTypes
<1>2. /\ call' = [call EXCEPT ![p] = NoCall] /\ made' = [made EXCEPT ![p] = @ + 1] /\ program' = program
  BY DEF Answer
<1>3. call'[p] = NoCall /\ \A q \in Proc \ {p} : call'[q] = call[q] /\ made'[q] = made[q] BY <1>1, <1>2
<1>4. KeptRight' BY <1>3 DEF KeptRight
<1>5. CallRight' BY <1>2, <1>3 DEF CallRight, Next1, Accepted, isReading, isWriting
<1> QED BY <1>4, <1>5

LEMMA SuspendKept ==
  ASSUME WaitInv, KeptRight, CallRight, NEW p \in Proc, NEW c, NEW as, NEW mode, Suspend(p, c, as, mode),
         Accepted(c), c.op # "interrupt", made[p] + 1 \in DOMAIN program[p], c.op = Next1(p).op,
         c.op # "connect" => c = Next1(p), c # NoCall,
         client'[p][1] = "text" => c.op \in TextReads,
         client'[p][1] = "off" => c.op \in Writes /\ client'[p][2] < c.n,
         client'[p][1] = "dec" => c.op = "decode",
         \A q \in Proc \ {p} : client'[q] = client[q]
  PROVE  KeptRight' /\ CallRight'
<1>1. call \in [Proc -> Call \cup {NoCall}] BY DEF WaitInv, TypeInv, ProcTypes
<1>2. call' = [call EXCEPT ![p] = c] /\ made' = made /\ program' = program BY DEF Suspend
<1>3. call'[p] = c /\ \A q \in Proc \ {p} : call'[q] = call[q] BY <1>1, <1>2
<1>4. KeptRight' BY <1>3 DEF KeptRight
<1>5. CallRight' BY <1>2, <1>3 DEF CallRight, Next1, Accepted, isReading, isWriting
<1> QED BY <1>4, <1>5

-----------------------------------------------------------------------------
(***************************************************************************)
(* What is written, by a call that has written nothing at this step.       *)
(***************************************************************************)
LEMMA PlacesSame ==
  ASSUME UNCHANGED written
  PROVE  \A q, j, g : PlacesOf(q, j, g)' = PlacesOf(q, j, g) /\ NumbersOf(q, j, g)' = NumbersOf(q, j, g)
  BY DEF PlacesOf, NumbersOf

LEMMA AscendSame == ASSUME Ascend, UNCHANGED written PROVE Ascend'
  BY DEF Ascend, PlacesOf

\* What a call that is not begun has written, and of a call that is over.
SentNow(p, f) ==
  NumbersOf(p, made[p] + 1, f) = IF client[p][1] = "off" /\ call[p].f = f THEN 1 .. client[p][2] ELSE {}
SentCall(p, f, j) ==
  program[p][j].op \in Writes /\ program[p][j].f = f =>
    /\ \E n \in 0 .. program[p][j].n : NumbersOf(p, j, f) = 1 .. n
    /\ answer[p] # NoCall /\ made[p] = j /\ answer[p].res = "ok" => NumbersOf(p, j, f) = 1 .. program[p][j].n
SentOf(p, f) ==
  /\ \A j \in Nat : j > made[p] + 1 => PlacesOf(p, j, f) = {}
  /\ SentNow(p, f)
  /\ \A j \in DOMAIN program[p] : j <= made[p] => SentCall(p, f, j)

LEMMA SentParts == SentRight <=> \A p \in Proc, f \in File : SentOf(p, f)
  BY DEF SentRight, SentOf, SentNow, SentCall

LEMMA SentPartsNext == SentRight' <=> \A p \in Proc, f \in File : SentOf(p, f)'
  BY DEF SentRight, SentOf, SentNow, SentCall

\* A process that does nothing.
LEMMA SentSame ==
  ASSUME NEW q \in Proc, NEW g \in File, SentOf(q, g), UNCHANGED program,
         made'[q] = made[q], client'[q] = client[q], call'[q] = call[q], answer'[q] = answer[q],
         \A j : PlacesOf(q, j, g)' = PlacesOf(q, j, g) /\ NumbersOf(q, j, g)' = NumbersOf(q, j, g)
  PROVE  SentOf(q, g)'
  BY DEF SentOf, SentNow, SentCall

\* A process whose call is over.
LEMMA SentOver ==
  ASSUME NEW q \in Proc, NEW g \in File, SentOf(q, g), NEW i \in Nat, made[q] + 1 = i, made[q] \in Nat,
         program[q] \in Seq(Call), UNCHANGED program, made'[q] = i, client'[q][1] # "off",
         \A j : j # i => PlacesOf(q, j, g)' = PlacesOf(q, j, g) /\ NumbersOf(q, j, g)' = NumbersOf(q, j, g),
         program[q][i].op \in Writes /\ program[q][i].f = g =>
           /\ \E n \in 0 .. program[q][i].n : NumbersOf(q, i, g)' = 1 .. n
           /\ answer'[q].res = "ok" => NumbersOf(q, i, g)' = 1 .. program[q][i].n
  PROVE  SentOf(q, g)'
<1>1. ASSUME NEW j \in Nat, j > i + 1 PROVE PlacesOf(q, j, g)' = {}
  <2>1. j > made[q] + 1 /\ j # i BY <1>1
  <2>2. PlacesOf(q, j, g) = {} BY <2>1 DEF SentOf
  <2> QED BY <2>1, <2>2
<1>2. ASSUME NEW j \in Nat, j = i + 1 PROVE NumbersOf(q, j, g)' = {}
  <2>1. j > made[q] + 1 /\ j # i BY <1>2
  <2>2. PlacesOf(q, j, g) = {} BY <2>1 DEF SentOf
  <2>3. NumbersOf(q, j, g) = {} BY <2>2 DEF NumbersOf
  <2> QED BY <2>1, <2>3
<1>3. SentNow(q, g)'
  <2>1. i + 1 \in Nat OBVIOUS
  <2>2. NumbersOf(q, i + 1, g)' = {} BY <1>2, <2>1
  <2> QED BY <2>2 DEF SentNow
<1>4. ASSUME NEW j \in DOMAIN program[q], j <= i PROVE SentCall(q, g, j)'
  <2>1. j \in Nat BY SeqPlaces
  <2>2. CASE j = i BY <2>2 DEF SentCall
  <2>3. CASE j # i
    <3>1. j <= made[q] /\ made'[q] # j BY <1>4, <2>1, <2>3
    <3>2. SentCall(q, g, j) BY <3>1 DEF SentOf
    <3>3. NumbersOf(q, j, g)' = NumbersOf(q, j, g) BY <2>3
    <3> QED BY <3>1, <3>2, <3>3 DEF SentCall
  <2> QED BY <2>2, <2>3
<1> QED BY <1>1, <1>3, <1>4 DEF SentOf

LEMMA AnswerSent ==
  ASSUME WaitInv, Ascend, SentRight, NEW p \in Proc, NEW c, NEW res, NEW val, Answer(p, c, res, val), UNCHANGED written,
         client'[p][1] # "off", \A q \in Proc \ {p} : client'[q] = client[q], made[p] + 1 \in DOMAIN program[p],
         Next1(p).op \in Writes => res # "ok" /\ client[p][1] # "off"
  PROVE  Ascend' /\ SentRight'
<1>1. /\ made \in [Proc -> Nat] /\ program \in [Proc -> Seq(Call)] /\ call \in [Proc -> Call \cup {NoCall}]
      /\ DOMAIN answer = Proc
  BY DEF WaitInv, TypeInv, ProcTypes
<1> DEFINE a == [call |-> c, res |-> res, val |-> val]
<1>2. /\ answer' = [answer EXCEPT ![p] = a] /\ call' = [call EXCEPT ![p] = NoCall]
      /\ made' = [made EXCEPT ![p] = @ + 1] /\ program' = program
  BY DEF Answer
<1>3. a.res = res OBVIOUS
<1> HIDE DEF a
<1>4. answer'[p] = a /\ made'[p] = made[p] + 1
  BY <1>1, <1>2
<1>5. \A q \in Proc \ {p} : answer'[q] = answer[q] /\ made'[q] = made[q] /\ call'[q] = call[q] BY <1>1, <1>2
<1>6. \A q, j, g : PlacesOf(q, j, g)' = PlacesOf(q, j, g) /\ NumbersOf(q, j, g)' = NumbersOf(q, j, g) BY PlacesSame
<1>7. ASSUME NEW q \in Proc, NEW g \in File PROVE SentOf(q, g)'
  <2>1. SentOf(q, g) BY SentParts
  <2>2. CASE q # p BY <1>2, <1>5, <1>6, <2>1, <2>2, SentSame
  <2>3. CASE q = p
    <3>1. PICK i \in Nat : made[p] + 1 = i BY <1>1
    <3>2. made[p] \in Nat /\ program[p] \in Seq(Call) BY <1>1
    <3>3. Next1(p) = program[p][i] BY <3>1 DEF Next1
    <3>4. program[p][i] \in Call
      <4>1. i \in 1..Len(program[p]) BY <3>1, <3>2, LenProperties
      <4> QED BY <3>2, <4>1, SeqPlaces
    <3>5. program[p][i].n \in Nat BY <3>4 DEF Call
    <3>6. ASSUME program[p][i].op \in Writes, program[p][i].f = g
          PROVE  /\ \E n \in 0 .. program[p][i].n : NumbersOf(p, i, g)' = 1 .. n
                 /\ answer'[p].res # "ok"
      <4>1. NumbersOf(p, i, g) = {}
        <5>1. SentNow(p, g) BY <2>1, <2>3 DEF SentOf
        <5>2. client[p][1] # "off" BY <3>3, <3>6
        <5> QED BY <3>1, <5>1, <5>2 DEF SentNow
      <4>2. NumbersOf(p, i, g)' = 1..0 BY <1>6, <4>1
      <4>3. 0 \in 0 .. program[p][i].n BY <3>5
      <4> QED BY <1>3, <1>4, <3>3, <3>6, <4>2, <4>3
    <3>7. made'[p] = i BY <1>4, <3>1
    <3> QED BY <1>2, <1>6, <2>1, <2>3, <3>1, <3>2, <3>6, <3>7, SentOver
  <2> QED BY <2>2, <2>3
<1> QED BY <1>7, SentPartsNext, AscendSame

LEMMA SuspendSent ==
  ASSUME WaitInv, Ascend, SentRight, NEW p \in Proc, NEW c, NEW as, NEW mode, Suspend(p, c, as, mode),
         UNCHANGED written, client[p][1] # "off", client'[p][1] # "off", \A q \in Proc \ {p} : client'[q] = client[q]
  PROVE  Ascend' /\ SentRight'
<1>1. call \in [Proc -> Call \cup {NoCall}] BY DEF WaitInv, TypeInv, ProcTypes
<1>2. call' = [call EXCEPT ![p] = c] /\ UNCHANGED <<program, made, answer>> BY DEF Suspend
<1>3. \A q \in Proc \ {p} : call'[q] = call[q] BY <1>1, <1>2
<1>4. \A q, j, g : PlacesOf(q, j, g)' = PlacesOf(q, j, g) /\ NumbersOf(q, j, g)' = NumbersOf(q, j, g) BY PlacesSame
<1>5. ASSUME NEW q \in Proc, NEW g \in File PROVE SentOf(q, g)'
  <2>1. SentOf(q, g) BY SentParts
  <2>2. CASE q # p BY <1>2, <1>3, <1>4, <2>1, <2>2, SentSame
  <2>3. CASE q = p
    <3>1. \A j : SentCall(p, g, j) => SentCall(p, g, j)' BY <1>2, <1>4 DEF SentCall
    <3>2. SentNow(p, g)' BY <1>2, <1>4, <2>1, <2>3 DEF SentOf, SentNow
    <3> QED BY <1>2, <1>4, <2>1, <2>3, <3>1, <3>2 DEF SentOf
  <2> QED BY <2>2, <2>3
<1> QED BY <1>5, SentPartsNext, AscendSame

-----------------------------------------------------------------------------
(***************************************************************************)
(* The escapes that read.                                                  *)
(***************************************************************************)
LEMMA ReadingText ==
  ASSUME WaitInv, KeptRight, TextKept, NEW p \in Proc, NEW c \in Turn(p), Reading(p, c)
  PROVE  TextKept'
<1>1. TypeInv BY DEF WaitInv
<1>2. c \in Call BY <1>1, TurnRight
<1>3. c.f \in File BY <1>1, <1>2, CallTypes
<1>4. taken[c.f] \in Nat BY <1>1, <1>3 DEF TypeInv
<1>5. PICK used \in Seq(Places) \cup Clients, cl \in Seq(Places) \cup Clients :
        /\ used \in Seq(Places) /\ Piece(c.f, taken[c.f], used) /\ cl \in Clients /\ ClientOf(p, cl)
        /\ Ends(p, c, used, cl) \/ Waits(p, c, used, cl)
  BY DEF Reading
<1>6. client'[p] = cl /\ \A q \in Proc \ {p} : client'[q] = client[q] BY <1>1, <1>5, ClientType
<1>7. Holds(p) \in Seq(Places) /\ Holds(p) = Part(client[p]) BY <1>1, HoldsPart
<1>8. HeldBy(p) \subseteq AllTaken BY KeptText
<1>9. ToSet(used) = {c.f} \X (taken[c.f] + 1 .. taken[c.f] + Len(used)) /\ Len(used) \in Nat
  BY <1>3, <1>4, <1>5, PieceSet
<1>10. \A x \in ToSet(used) : x[2] # 0
  <2>1. \A i \in taken[c.f] + 1 .. taken[c.f] + Len(used) : i # 0 BY <1>4, <1>9
  <2> QED BY <1>9, <2>1
<1>11. \A x \in AllTaken : x[2] # 0
  <2> SUFFICES ASSUME NEW x \in AllTaken PROVE x[2] # 0 OBVIOUS
  <2>1. PICK g \in File : x \in {g} \X (1 .. taken[g]) BY DEF AllTaken
  <2>2. x[2] \in 1 .. taken[g] BY <2>1
  <2>3. taken[g] \in Nat BY <1>1 DEF TypeInv
  <2> QED BY <2>2, <2>3
<1>12. CASE Ends(p, c, used, cl)
  <2>1. PICK res, val :
          /\ ReadEnds(p, c, used, res, val)
          /\ \A x \in ToSet(val) : x[2] # 0 => x \in ToSet(used) \cup ToSet(Holds(p))
    BY <1>12 DEF Ends
  <2> DEFINE answered == ToSet(val) \ {x \in ToSet(val) : x[2] = 0}
             gone == ToSet(used \o Holds(p)) \ ToSet(val)
  <2>2. Taken(c.f, used) /\ delivered' = delivered \cup answered /\ dropped' = dropped \cup gone
    BY <2>1 DEF ReadEnds, Given
  <2>3. ToSet(used \o Holds(p)) = ToSet(used) \cup HeldBy(p) BY <1>5, <1>7, SetOfConcat DEF HeldBy
  <2>4. ToSet(Part(cl)) = {}
    <3>1. CASE cl = NoClient
      <4>1. Part(cl) = << >> BY <3>1 DEF Part, NoClient
      <4> QED BY <4>1, EmptySet
    <3>2. CASE cl = client[p] /\ c.op \notin TextReads \cup {"decode"}
      <4>1. HeldBy(p) = {} BY <3>2, KeptOf
      <4> QED BY <3>2, <4>1, <1>7 DEF HeldBy
    <3> QED BY <1>12, <3>1, <3>2 DEF Ends
  <2>5. \A x \in ToSet(used) \cup HeldBy(p) : x[2] # 0 BY <1>8, <1>10, <1>11
  <2>6. \A x \in ToSet(val) : x[2] # 0 => x \in ToSet(used) \cup HeldBy(p) BY <2>1 DEF HeldBy
  <2>7. answered \cup gone = ToSet(used) \cup HeldBy(p) /\ answered \cap gone = {} BY <2>3, <2>5, <2>6
  <2> HIDE DEF answered, gone
  <2>8. /\ answered \cup gone \cup ToSet(Part(client'[p])) = ToSet(used) \cup HeldBy(p)
        /\ (answered \cup gone) \cap ToSet(Part(client'[p])) = {}
    BY <1>6, <2>4, <2>7
  <2> QED BY <1>1, <1>3, <1>5, <1>6, <2>2, <2>7, <2>8, TextMoves
<1>13. CASE Waits(p, c, used, cl)
  <2>1. PICK gone :
          /\ dropped' = dropped \cup gone /\ gone \subseteq ToSet(used)
          /\ gone \cup ToSet(Part(cl)) = ToSet(used) \cup ToSet(Holds(p))
          /\ gone \cap (ToSet(Part(cl)) \ ToSet(Holds(p))) = {}
    BY <1>13 DEF Waits
  <2>2. Taken(c.f, used) /\ delivered' = delivered \cup {} BY <1>13 DEF Waits
  <2>3. AllTaken \cap ToSet(used) = {} BY <1>1, <1>3, <1>5, <2>2, TakenGrows
  <2>4. /\ {} \cup gone \cup ToSet(Part(client'[p])) = ToSet(used) \cup HeldBy(p)
        /\ {} \cap gone = {} /\ ({} \cup gone) \cap ToSet(Part(client'[p])) = {}
    BY <1>6, <1>8, <2>1, <2>3 DEF HeldBy
  <2> QED BY <1>1, <1>3, <1>5, <1>6, <2>1, <2>2, <2>4, TextMoves
<1> QED BY <1>5, <1>12, <1>13

LEMMA ReadingCare ==
  ASSUME WaitInv, CareInv, NEW p \in Proc, NEW c \in Turn(p), Accepted(c), c.op \in Reads \cup {"eof"}, Reading(p, c)
  PROVE  CareInv'
<1>1. TypeInv /\ KeptRight /\ CallRight /\ TextKept /\ Ascend /\ SentRight BY DEF WaitInv, CareInv
<1>2. c \in Call /\ c # NoCall BY <1>1, TurnRight, FilesAssumption
<1>3. TextKept' BY <1>1, ReadingText
<1>4. PICK used \in Seq(Places) \cup Clients, cl \in Seq(Places) \cup Clients :
        /\ used \in Seq(Places) /\ Piece(c.f, taken[c.f], used) /\ cl \in Clients /\ ClientOf(p, cl)
        /\ Ends(p, c, used, cl) \/ Waits(p, c, used, cl)
  BY DEF Reading
<1>5. client'[p] = cl /\ \A q \in Proc \ {p} : client'[q] = client[q] BY <1>1, <1>4, ClientType
<1>6. c.op \notin Writes /\ c.op # "connect" /\ c.op # "interrupt" BY DEF Reads, Writes, TextReads
<1>7. /\ made[p] + 1 \in DOMAIN program[p] /\ c.op = Next1(p).op /\ (c.op # "connect" => c = Next1(p))
  BY <1>1, TurnNext
<1>8. /\ client[p][1] = "text" => c.op \in TextReads
      /\ client[p][1] # "off"
      /\ client[p][1] = "dec" => c.op = "decode"
  BY <1>1, <1>6, KeptOf
<1>9. NoClient[1] = "none" BY DEF NoClient
<1>10. CASE Ends(p, c, used, cl)
  <2>1. PICK res, val : ReadEnds(p, c, used, res, val) BY <1>10 DEF Ends
  <2>2. Answer(p, c, res, val) /\ UNCHANGED written BY <2>1 DEF ReadEnds, outVars
  <2>3. client'[p][1] \notin {"text", "off", "dec"} BY <1>5, <1>8, <1>9, <1>10 DEF Ends
  <2>4. KeptRight' /\ CallRight' BY <1>1, <1>5, <2>2, <2>3, AnswerKept
  <2>5. Ascend' /\ SentRight' BY <1>1, <1>5, <1>6, <1>7, <2>2, <2>3, AnswerSent
  <2> QED BY <1>3, <2>4, <2>5 DEF CareInv
<1>11. CASE Waits(p, c, used, cl)
  <2>1. PICK as : Suspend(p, c, as, "input") BY <1>11 DEF Waits
  <2>2. UNCHANGED written BY <1>11 DEF Waits, outVars
  <2>3. /\ client'[p][1] = "text" => c.op \in TextReads
        /\ client'[p][1] # "off"
        /\ client'[p][1] = "dec" => c.op = "decode"
    BY <1>5, <1>8, <1>11 DEF Waits
  <2>4. KeptRight' /\ CallRight' BY <1>1, <1>2, <1>5, <1>6, <1>7, <2>1, <2>3, SuspendKept
  <2>5. Ascend' /\ SentRight' BY <1>1, <1>5, <1>8, <2>1, <2>2, <2>3, SuspendSent
  <2> QED BY <1>3, <2>4, <2>5 DEF CareInv
<1> QED BY <1>4, <1>10, <1>11

-----------------------------------------------------------------------------
(***************************************************************************)
(* The escapes that neither read nor write.                                *)
(***************************************************************************)
LEMMA AnsweredCare ==
  ASSUME WaitInv, CareInv, NEW p \in Proc, NEW c \in Turn(p), NEW res, NEW val, Answer(p, c, res, val),
         UNCHANGED <<client, taken, delivered, dropped, written>>,
         client[p][1] \notin {"text", "off", "dec"}, c.op \in Writes => res # "ok"
  PROVE  CareInv'
<1>1. TypeInv /\ KeptRight /\ CallRight /\ TextKept /\ Ascend /\ SentRight BY DEF WaitInv, CareInv
<1>2. made[p] + 1 \in DOMAIN program[p] /\ c.op = Next1(p).op BY <1>1, TurnNext
<1>3. client'[p] = client[p] /\ \A q \in Proc \ {p} : client'[q] = client[q] OBVIOUS
<1>4. KeptRight' /\ CallRight' BY <1>1, <1>3, AnswerKept
<1>5. Ascend' /\ SentRight' BY <1>1, <1>2, <1>3, AnswerSent
<1>6. TextKept' BY <1>1, TextSame DEF Holds
<1> QED BY <1>4, <1>5, <1>6 DEF CareInv

LEMMA NothingKept ==
  ASSUME WaitInv, CareInv, NEW p \in Proc, NEW c \in Turn(p),
         c.op \notin TextReads \cup Writes \cup {"decode"} \/ call[p] = NoCall
  PROVE  client[p][1] \notin {"text", "off", "dec"}
<1>1. KeptRight BY DEF CareInv
<1>2. CASE call[p] = NoCall BY <1>1, <1>2 DEF KeptRight
<1>3. CASE c.op \notin TextReads \cup Writes \cup {"decode"} BY <1>1, <1>3, KeptOf
<1> QED BY <1>2, <1>3

LEMMA RefuseCare ==
  ASSUME WaitInv, CareInv, NEW p \in Proc, NEW c \in Turn(p), ~Accepted(c), Refuse(p, c) PROVE CareInv'
<1>1. call[p] = NoCall BY TurnNext DEF CareInv
<1>2. client[p][1] \notin {"text", "off", "dec"} BY <1>1, NothingKept
<1>3. Answer(p, c, "einval", << >>) /\ UNCHANGED <<client, taken, delivered, dropped, written>>
  BY DEF Refuse, inVars, outVars
<1> QED BY <1>2, <1>3, AnsweredCare

\* A step that changes nothing of what has been read and written.
LEMMA CareSame ==
  ASSUME CareInv, UNCHANGED <<program, made, call, client, answer, taken, delivered, dropped, written>>
  PROVE  CareInv'
<1>1. KeptRight' BY DEF CareInv, KeptRight
<1>2. CallRight' BY DEF CareInv, CallRight, Next1, Accepted, isReading, isWriting
<1>3. TextKept' BY TextSame DEF CareInv, Holds
<1>4. Ascend' BY AscendSame DEF CareInv
<1>5. \A q, j, g : PlacesOf(q, j, g)' = PlacesOf(q, j, g) /\ NumbersOf(q, j, g)' = NumbersOf(q, j, g) BY PlacesSame
<1>6. SentRight'
  <2> SUFFICES ASSUME NEW q \in Proc, NEW g \in File PROVE SentOf(q, g)' BY SentPartsNext
  <2>1. SentOf(q, g) BY SentParts DEF CareInv
  <2> QED BY <1>5, <2>1, SentSame
<1> QED BY <1>1, <1>2, <1>3, <1>4, <1>6 DEF CareInv

LEMMA ConnectCare ==
  ASSUME WaitInv, CareInv, NEW p \in Proc, NEW c \in Turn(p), Accepted(c), Connect(p, c) PROVE CareInv'
<1> DEFINE f == IF client[p] = NoClient THEN c.f ELSE client[p][2]
           d == [c EXCEPT !.f = f]
<1>1. TypeInv /\ KeptRight /\ CallRight /\ TextKept /\ Ascend /\ SentRight BY DEF WaitInv, CareInv
<1>2. c.op = "connect" /\ UNCHANGED <<inVars, outVars>> BY DEF Connect
<1>3. \/ (\E res : Answer(p, c, res, << >>)) /\ UNCHANGED client
      \/ Suspend(p, d, attachments, "output") /\ ClientOf(p, <<"sock", f>>)
  BY DEF Connect
<1>4. client[p][1] \notin {"text", "off", "dec"} BY <1>2, NothingKept DEF TextReads, Writes
<1>5. CASE (\E res : Answer(p, c, res, << >>)) /\ UNCHANGED client
  <2>1. UNCHANGED <<client, taken, delivered, dropped, written>> BY <1>2, <1>5 DEF inVars, outVars
  <2>2. c.op \notin Writes BY <1>2 DEF Writes
  <2> QED BY <1>4, <1>5, <2>1, <2>2, AnsweredCare
<1>6. CASE Suspend(p, d, attachments, "output") /\ ClientOf(p, <<"sock", f>>)
  <2>1. c \in Call /\ client[p] \in Clients /\ (client[p] = NoClient \/ client[p][1] \in Kinds(c.op)) BY <1>1, TurnRight
  <2>2. Kinds(c.op) = {"sock"} BY <1>2 DEF Kinds, TextReads
  <2>3. f \in File BY <1>1, <2>1, <2>2, ClientCases, CallTypes
  <2> HIDE DEF f
  <2>4. d \in Call /\ d.op = c.op /\ d.valid = c.valid BY <2>1, <2>3 DEF Call
  <2> HIDE DEF d
  <2>5. d # NoCall BY <2>4, FilesAssumption
  <2>6. Accepted(d) BY <1>2, <2>4 DEF Accepted, TextReads
  <2>7. made[p] + 1 \in DOMAIN program[p] /\ c.op = Next1(p).op BY <1>1, TurnNext
  <2> DEFINE cl == <<"sock", f>>
  <2>8. cl \in Clients /\ cl[1] = "sock" /\ ClientOf(p, cl) /\ Part(cl) = << >> BY <1>6, <2>3 DEF Clients, Part
  <2> HIDE DEF cl
  <2>9. client'[p] = cl /\ \A q \in Proc \ {p} : client'[q] = client[q] BY <1>1, <2>8, ClientType
  <2>10. client'[p][1] = "sock" BY <2>8, <2>9
  <2>11. KeptRight' /\ CallRight' BY <1>1, <1>2, <1>6, <2>4, <2>5, <2>6, <2>7, <2>9, <2>10, SuspendKept
  <2>12. Ascend' /\ SentRight' BY <1>1, <1>2, <1>4, <1>6, <2>9, <2>10, SuspendSent DEF outVars
  <2>13. Holds(p)' = << >> BY <2>10 DEF Holds
  <2>14. Holds(p) = << >> BY <1>4 DEF Holds
  <2>15. \A q \in Proc : Holds(q)' = Holds(q) BY <2>9, <2>13, <2>14 DEF Holds
  <2>16. TextKept' BY <1>1, <1>2, <2>15, TextSame DEF inVars
  <2> QED BY <2>11, <2>12, <2>16 DEF CareInv
<1> QED BY <1>3, <1>5, <1>6

-----------------------------------------------------------------------------
(***************************************************************************)
(* The escapes that write: codes from + 1 to `to' of the call reach the    *)
(* file behind the codes from 1 to from.                                   *)
(***************************************************************************)
LEMMA PutPlaces ==
  ASSUME TypeInv, Ascend, NEW p \in Proc, NEW f \in File, NEW from \in Nat, NEW to \in Nat, from <= to,
         Put(p, f, from, to), NEW i \in Nat, made[p] + 1 = i, NumbersOf(p, i, f) = 1 .. from
  PROVE  /\ Ascend' /\ NumbersOf(p, i, f)' = 1 .. to
         /\ \A q \in Proc, g \in File : \A j : q # p \/ g # f \/ j # i =>
              PlacesOf(q, j, g)' = PlacesOf(q, j, g) /\ NumbersOf(q, j, g)' = NumbersOf(q, j, g)
<1> DEFINE N3 == Proc \X Nat \X Nat
           w == written[f]
           n == to - from
           cs == CodesOf(p, from, to)
           v == w \o cs
           L == Len(w)
<1>1. written \in [File -> Seq(N3)] /\ made[p] \in Nat BY DEF TypeInv, OutTypes, ProcTypes
<1>2. written' = [written EXCEPT ![f] = v] BY DEF Put
<1>3. n \in Nat OBVIOUS
<1>4. cs = [k \in 1..n |-> <<p, i, from + k>>] BY DEF CodesOf
<1> HIDE DEF cs
<1>5. cs \in Seq(N3) /\ Len(cs) = n
  <2>1. ASSUME NEW k \in 1..n PROVE cs[k] \in N3
    <3>1. cs[k] = <<p, i, from + k>> BY <1>4
    <3>2. from + k \in Nat BY <1>3
    <3> QED BY <3>1, <3>2
  <2>2. cs = [k \in 1..n |-> cs[k]] BY <1>4
  <2> HIDE DEF n, N3
  <2> QED BY ONLY <1>3, <2>1, <2>2, FunctionIsSeq
<1>6. w \in Seq(N3) BY <1>1
<1>12. n = to - from OBVIOUS
<1> HIDE DEF n, w, N3
<1>7. /\ v \in Seq(N3) /\ Len(v) = Len(w) + Len(cs)
      /\ \A k \in 1..Len(w) + Len(cs) : v[k] = IF k <= Len(w) THEN w[k] ELSE cs[k - Len(w)]
  BY <1>5, <1>6, ConcatProperties
<1>8. L \in Nat /\ DOMAIN w = 1..L BY <1>6, LenProperties
<1>9. DOMAIN v = 1..L + n BY <1>5, <1>7, LenProperties
<1> HIDE DEF v, L
<1>10. /\ \A k \in 1..L : k \in 1..L + n /\ v[k] = w[k]
       /\ \A k \in 1..L + n : k \in 1..L \/ (k > L /\ k - L \in 1..n /\ v[k] = <<p, i, from + (k - L)>>)
  <2>1. \A k \in 1..L : k \in 1..L + n /\ v[k] = w[k] BY <1>3, <1>5, <1>7, <1>8 DEF L
  <2>2. ASSUME NEW k \in 1..L + n, ~(k <= L) PROVE k - L \in 1..n /\ v[k] = <<p, i, from + (k - L)>>
    <3>1. k - L \in 1..n BY <1>3, <1>8, <2>2
    <3>2. v[k] = cs[k - L] BY <1>5, <1>7, <2>2 DEF L
    <3> QED BY <1>4, <3>1, <3>2
  <2> QED BY <1>3, <1>8, <2>1, <2>2
<1>11. written'[f] = v /\ \A g \in File \ {f} : written'[g] = written[g] BY <1>1, <1>2
<1> HIDE DEF CodesOf
<1>13. ASSUME NEW q \in Proc, NEW g \in File, NEW j, q # p \/ g # f \/ j # i
       PROVE  /\ PlacesOf(q, j, g)' = PlacesOf(q, j, g) /\ NumbersOf(q, j, g)' = NumbersOf(q, j, g)
              /\ \A k \in PlacesOf(q, j, g) : written'[g][k] = written[g][k]
  <2>1. CASE g # f BY <1>11, <2>1 DEF PlacesOf, NumbersOf
  <2>2. CASE g = f
    <3>1. ASSUME NEW k \in 1..L + n, v[k][1] = q, v[k][2] = j PROVE k \in 1..L /\ v[k] = w[k]
      <4>1. CASE k \in 1..L BY <1>10, <4>1
      <4>2. CASE v[k] = <<p, i, from + (k - L)>> BY <2>2, <3>1, <4>2, <1>13
      <4> QED BY <1>10, <4>1, <4>2
    <3>2. PlacesOf(q, j, f) = {k \in 1..L : w[k][1] = q /\ w[k][2] = j} BY <1>8 DEF PlacesOf, w
    <3>3. PlacesOf(q, j, f)' = {k \in 1..L + n : v[k][1] = q /\ v[k][2] = j} BY <1>9, <1>11 DEF PlacesOf
    <3>4. PlacesOf(q, j, f)' = PlacesOf(q, j, f) BY <1>10, <3>1, <3>2, <3>3
    <3>5. \A k \in PlacesOf(q, j, f) : written'[f][k] = written[f][k] BY <1>10, <1>11, <3>2 DEF w
    <3>6. NumbersOf(q, j, f)' = NumbersOf(q, j, f) BY <3>4, <3>5 DEF NumbersOf
    <3> QED BY <2>2, <3>4, <3>5, <3>6
  <2> QED BY <2>1, <2>2
<1>14. PlacesOf(p, i, f) = {k \in 1..L : w[k][1] = p /\ w[k][2] = i} BY <1>8 DEF PlacesOf, w
<1>15. PlacesOf(p, i, f)' = {k \in 1..L + n : v[k][1] = p /\ v[k][2] = i} BY <1>9, <1>11 DEF PlacesOf
<1>16. NumbersOf(p, i, f) = {w[k][3] : k \in PlacesOf(p, i, f)} BY DEF NumbersOf, w
<1>17. NumbersOf(p, i, f)' = {v[k][3] : k \in PlacesOf(p, i, f)'} BY <1>11 DEF NumbersOf
<1>18. ASSUME NEW k \in PlacesOf(p, i, f)'
       PROVE  \/ k \in PlacesOf(p, i, f) /\ k \in 1..L /\ v[k] = w[k] /\ v[k][3] \in 1..from
              \/ k > L /\ k \in Nat /\ k - L \in 1..n /\ v[k][3] = from + (k - L)
  <2>1. k \in 1..L + n /\ v[k][1] = p /\ v[k][2] = i BY <1>15
  <2>2. CASE k \in 1..L
    <3>1. v[k] = w[k] /\ k \in PlacesOf(p, i, f) BY <1>10, <1>14, <2>1, <2>2
    <3>2. v[k][3] \in 1..from BY <1>16, <3>1
    <3> QED BY <2>2, <3>1, <3>2
  <2>3. CASE k > L /\ k - L \in 1..n /\ v[k] = <<p, i, from + (k - L)>>
    <3>1. k \in Nat BY <1>3, <1>8, <2>1
    <3> QED BY <2>3, <3>1
  <2> QED BY <1>10, <2>1, <2>2, <2>3
<1>19. NumbersOf(p, i, f)' = 1 .. to
  <2>1. ASSUME NEW x \in NumbersOf(p, i, f)' PROVE x \in 1..to
    <3>1. PICK k \in PlacesOf(p, i, f)' : x = v[k][3] BY <1>17, <2>1
    <3>2. CASE v[k][3] \in 1..from BY <3>1, <3>2
    <3>3. CASE k > L /\ k - L \in 1..n /\ v[k][3] = from + (k - L) BY <1>3, <1>12, <3>1, <3>3
    <3> QED BY <1>18, <3>2, <3>3
  <2>2. ASSUME NEW x \in 1..to PROVE x \in NumbersOf(p, i, f)'
    <3>1. CASE x <= from
      <4>1. x \in NumbersOf(p, i, f) BY <3>1
      <4>2. PICK k \in PlacesOf(p, i, f) : x = w[k][3] BY <1>16, <4>1
      <4>3. k \in 1..L /\ w[k][1] = p /\ w[k][2] = i BY <1>14
      <4>4. k \in PlacesOf(p, i, f)' /\ v[k] = w[k] BY <1>10, <1>15, <4>3
      <4> QED BY <1>17, <4>2, <4>4
    <3>2. CASE ~(x <= from)
      <4> DEFINE k == L + (x - from)
      <4>1. k \in 1..L + n /\ k \notin 1..L /\ from + (k - L) = x BY <1>3, <1>8, <1>12, <3>2
      <4> HIDE DEF k
      <4>2. v[k] = <<p, i, x>> BY <1>10, <4>1
      <4>3. k \in PlacesOf(p, i, f)' /\ v[k][3] = x BY <1>15, <4>1, <4>2
      <4> QED BY <1>17, <4>3
    <3> QED BY <3>1, <3>2
  <2> QED BY <2>1, <2>2
<1>20. Ascend'
  <2> SUFFICES ASSUME NEW q \in Proc, NEW g \in File, NEW j \in Nat,
                      NEW k \in PlacesOf(q, j, g)', NEW m \in PlacesOf(q, j, g)', k < m
               PROVE  written'[g][k][3] < written'[g][m][3]
    BY DEF Ascend
  <2>1. CASE q # p \/ g # f \/ j # i
    <3>1. k \in PlacesOf(q, j, g) /\ m \in PlacesOf(q, j, g) BY <1>13, <2>1
    <3>2. written[g][k][3] < written[g][m][3] BY <3>1 DEF Ascend
    <3> QED BY <1>13, <2>1, <3>1, <3>2
  <2>2. CASE q = p /\ g = f /\ j = i
    <3>1. k \in PlacesOf(p, i, f)' /\ m \in PlacesOf(p, i, f)' BY <2>2
    <3>2. CASE m \in PlacesOf(p, i, f) /\ m \in 1..L /\ v[m] = w[m]
      <4>1. k \in PlacesOf(p, i, f) /\ v[k] = w[k] BY <1>8, <1>18, <3>1, <3>2
      <4>2. written[f][k][3] < written[f][m][3] BY <3>2, <4>1 DEF Ascend
      <4> QED BY <1>11, <2>2, <3>2, <4>1, <4>2 DEF w
    <3>3. CASE m > L /\ m \in Nat /\ m - L \in 1..n /\ v[m][3] = from + (m - L)
      <4>1. CASE v[k][3] \in 1..from BY <1>3, <1>11, <2>2, <3>3, <4>1
      <4>2. CASE k > L /\ k \in Nat /\ v[k][3] = from + (k - L) BY <1>8, <1>11, <2>2, <3>3, <4>2
      <4> QED BY <1>18, <3>1, <4>1, <4>2
    <3> QED BY <1>18, <3>1, <3>2, <3>3
  <2> QED BY <2>1, <2>2
<1> QED BY <1>13, <1>19, <1>20

LEMMA TextOfOthers ==
  ASSUME TextKept, UNCHANGED inVars, NEW p \in Proc, \A q \in Proc \ {p} : client'[q] = client[q],
         client[p][1] \notin {"text", "dec"}, client'[p][1] \notin {"text", "dec"}
  PROVE  TextKept'
<1>1. Holds(p)' = << >> BY DEF Holds
<1>2. Holds(p) = << >> BY DEF Holds
<1>3. \A q \in Proc : Holds(q)' = Holds(q) BY <1>1, <1>2 DEF Holds
<1> QED BY <1>3, TextSame DEF inVars

LEMMA AnswerPut ==
  ASSUME WaitInv, CareInv, NEW p \in Proc, NEW c \in Turn(p), NEW res, NEW val, Answer(p, c, res, val),
         NEW from \in Nat, NEW to \in Nat, from <= to, Put(p, c.f, from, to), UNCHANGED inVars, c.op # "connect",
         NEW i \in Nat, made[p] + 1 = i, NumbersOf(p, i, c.f) = 1 .. from,
         client[p][1] \notin {"text", "dec"}, client'[p][1] \notin {"text", "off", "dec"},
         \A q \in Proc \ {p} : client'[q] = client[q],
         c.op \in Writes => to <= c.n /\ (res = "ok" => to = c.n)
  PROVE  CareInv'
<1>1. TypeInv /\ KeptRight /\ CallRight /\ TextKept /\ Ascend /\ SentRight BY DEF WaitInv, CareInv
<1>2. c \in Call BY <1>1, TurnRight
<1>3. c.f \in File BY <1>1, <1>2, CallTypes
<1>4. KeptRight' /\ CallRight' BY <1>1, AnswerKept
<1>5. TextKept' BY <1>1, TextOfOthers
<1>6. /\ Ascend' /\ NumbersOf(p, i, c.f)' = 1 .. to
      /\ \A q \in Proc, g \in File : \A j : q # p \/ g # c.f \/ j # i =>
           PlacesOf(q, j, g)' = PlacesOf(q, j, g) /\ NumbersOf(q, j, g)' = NumbersOf(q, j, g)
  <2> PICK f : f = c.f OBVIOUS
  <2>1. f \in File /\ Put(p, f, from, to) /\ NumbersOf(p, i, f) = 1 .. from BY <1>3
  <2>2. /\ Ascend' /\ NumbersOf(p, i, f)' = 1 .. to
        /\ \A q \in Proc, g \in File : \A j : q # p \/ g # f \/ j # i =>
             PlacesOf(q, j, g)' = PlacesOf(q, j, g) /\ NumbersOf(q, j, g)' = NumbersOf(q, j, g)
    BY <1>1, <2>1, PutPlaces
  <2> QED BY <2>2
<1>7. /\ made \in [Proc -> Nat] /\ program \in [Proc -> Seq(Call)] /\ call \in [Proc -> Call \cup {NoCall}]
      /\ DOMAIN answer = Proc
  BY <1>1 DEF TypeInv, ProcTypes
<1> DEFINE a == [call |-> c, res |-> res, val |-> val]
<1>8. /\ answer' = [answer EXCEPT ![p] = a] /\ call' = [call EXCEPT ![p] = NoCall]
      /\ made' = [made EXCEPT ![p] = @ + 1] /\ program' = program
  BY DEF Answer
<1>9. a.res = res OBVIOUS
<1> HIDE DEF a
<1>10. answer'[p] = a /\ made'[p] = i BY <1>7, <1>8
<1>11. \A q \in Proc \ {p} : answer'[q] = answer[q] /\ made'[q] = made[q] /\ call'[q] = call[q] BY <1>7, <1>8
<1>12. c = program[p][i]
  <2>1. c = Next1(p) BY <1>1, TurnNext
  <2> QED BY <2>1 DEF Next1
<1>13. ASSUME NEW q \in Proc, NEW g \in File PROVE SentOf(q, g)'
  <2>1. SentOf(q, g) BY <1>1, SentParts
  <2>2. CASE q # p BY <1>6, <1>8, <1>11, <2>1, <2>2, SentSame
  <2>3. CASE q = p
    <3>1. made[p] \in Nat /\ program[p] \in Seq(Call) BY <1>7
    <3>2. ASSUME c.op \in Writes, c.f = g
          PROVE  /\ \E n \in 0 .. c.n : NumbersOf(p, i, g)' = 1 .. n
                 /\ answer'[p].res = "ok" => NumbersOf(p, i, g)' = 1 .. c.n
      <4>1. NumbersOf(p, i, g)' = 1 .. to BY <1>6, <3>2
      <4>2. to \in 0 .. c.n BY <1>1, <1>2, <3>2, CallTypes
      <4> QED BY <1>9, <1>10, <3>2, <4>1, <4>2
    <3>3. SentOf(p, g) BY <2>1, <2>3
    <3>4. \A j : j # i => PlacesOf(p, j, g)' = PlacesOf(p, j, g) /\ NumbersOf(p, j, g)' = NumbersOf(p, j, g) BY <1>6
    <3>5. program[p][i].op \in Writes /\ program[p][i].f = g =>
            /\ \E n \in 0 .. program[p][i].n : NumbersOf(p, i, g)' = 1 .. n
            /\ answer'[p].res = "ok" => NumbersOf(p, i, g)' = 1 .. program[p][i].n
      BY <1>12, <3>2
    <3>6. SentOf(p, g)' BY <1>8, <1>10, <3>1, <3>3, <3>4, <3>5, SentOver
    <3> QED BY <2>3, <3>6
  <2> QED BY <2>2, <2>3
<1>14. SentRight' BY <1>13, SentPartsNext
<1> QED BY <1>4, <1>5, <1>6, <1>14 DEF CareInv

LEMMA OutcharCare ==
  ASSUME Careful, WaitInv, CareInv, NEW p \in Proc, NEW c \in Turn(p), Accepted(c), Outchar(p, c)
  PROVE  CareInv'
<1>1. TypeInv /\ KeptRight /\ CallRight /\ TextKept /\ Ascend /\ SentRight BY DEF WaitInv, CareInv
<1>2. c \in Call /\ c # NoCall /\ client[p] \in Clients /\ (client[p] = NoClient \/ client[p][1] \in Kinds(c.op))
  BY <1>1, TurnRight, FilesAssumption
<1>3. c.f \in File /\ c.n \in Nat BY <1>1, <1>2, CallTypes
<1>4. c.op \in Writes /\ c.op # "connect" /\ c.op # "interrupt" BY DEF Outchar, Writes
<1>5. Kinds(c.op) = {"off"} BY <1>4 DEF Kinds, Writes, TextReads
<1>6. NoClient[1] = "none" BY DEF NoClient
<1>7. /\ client[p] = NoClient \/ client[p][1] = "off"
      /\ client[p][1] \notin {"text", "dec"} /\ (client[p] = NoClient => client[p][1] = "none")
  BY <1>2, <1>5, <1>6
<1>8. client[p][1] = "off" => c = call[p] /\ client[p][2] \in Nat /\ client[p][2] < c.n BY <1>1, KeptOf
<1> DEFINE off == Written(p)
           upto == Upto(off, c)
<1>9. off \in Nat /\ off <= c.n BY <1>3, <1>7, <1>8 DEF Written
<1>10. upto \in Nat /\ off <= upto /\ upto <= c.n
  <2>1. unsent[c.f] \in Int /\ unsent[c.f] <= Room /\ Room \in Nat BY <1>1, <1>3, FilesAssumption DEF TypeInv, OutTypes
  <2> HIDE DEF off
  <2>2. upto = IF End(c.f) = "err" THEN off ELSE off + Smaller(c.n - off, Room - unsent[c.f]) BY DEF Upto, off
  <2> QED BY <1>3, <1>9, <2>1, <2>2 DEF Smaller
<1>11. PICK i \in Nat : made[p] + 1 = i BY <1>1 DEF TypeInv, ProcTypes
<1>12. NumbersOf(p, i, c.f) = 1 .. off
  <2>1. SentNow(p, c.f) BY <1>1, <1>3, SentParts DEF SentOf
  <2>2. CASE client[p][1] = "off"
    <3>1. off = client[p][2] BY <1>6, <2>2 DEF Written
    <3> QED BY <1>8, <1>11, <2>1, <2>2, <3>1 DEF SentNow
  <2>3. CASE client[p] = NoClient
    <3>1. off = 0 BY <2>3 DEF Written
    <3>2. NumbersOf(p, i, c.f) = {} BY <1>6, <1>11, <2>1, <2>3 DEF SentNow
    <3> QED BY <3>1, <3>2
  <2> QED BY <1>7, <2>2, <2>3
<1>13. /\ Put(p, c.f, off, upto) /\ UNCHANGED inVars
       /\ \/ \E res : Answer(p, c, res, << >>) /\ ClientOf(p, NoClient) /\ (res = "ok" => upto >= c.n)
          \/ upto < c.n /\ Suspend(p, c, Detach(attachments, c.f, p), "output") /\ ClientOf(p, Offset(upto))
  <2>1. Begins(p, c) = {Written(p)} BY DEF Begins, Written
  <2>2. WriteFrom(p, c, Written(p)) BY <2>1 DEF Outchar
  <2> QED BY <2>2 DEF WriteFrom, Upto
<1>14. NoClient \in Clients BY DEF Clients
<1> HIDE DEF off, upto
<1>15. CASE \E res : Answer(p, c, res, << >>) /\ ClientOf(p, NoClient) /\ (res = "ok" => upto >= c.n)
  <2>1. PICK res : Answer(p, c, res, << >>) /\ ClientOf(p, NoClient) /\ (res = "ok" => upto >= c.n) BY <1>15
  <2>2. client'[p] = NoClient /\ \A q \in Proc \ {p} : client'[q] = client[q] BY <1>1, <1>14, <2>1, ClientType
  <2>3. client'[p][1] \notin {"text", "off", "dec"} BY <1>6, <2>2
  <2>4. upto <= c.n /\ (res = "ok" => upto = c.n) BY <1>3, <1>10, <2>1
  <2> QED BY <1>4, <1>7, <1>9, <1>10, <1>11, <1>12, <1>13, <2>1, <2>2, <2>3, <2>4, AnswerPut
<1>16. CASE upto < c.n /\ Suspend(p, c, Detach(attachments, c.f, p), "output") /\ ClientOf(p, Offset(upto))
  <2>1. Offset(upto) \in Clients BY <1>10 DEF Offset, Clients
  <2>2. client'[p] = Offset(upto) /\ \A q \in Proc \ {p} : client'[q] = client[q] BY <1>1, <1>16, <2>1, ClientType
  <2>3. /\ client'[p][1] \in {"none", "off"}
        /\ client'[p][1] = "off" => client'[p][2] = upto
        /\ client'[p][1] # "off" => upto = 0
    BY <1>6, <2>2 DEF Offset
  <2>4. c = Next1(p) /\ made[p] + 1 \in DOMAIN program[p] BY <1>1, <1>4, TurnNext
  <2>5. KeptRight' /\ CallRight' BY <1>1, <1>2, <1>4, <1>16, <2>2, <2>3, <2>4, SuspendKept
  <2>6. TextKept' BY <1>1, <1>7, <1>13, <2>2, <2>3, TextOfOthers
  <2>7. PICK f \in File : f = c.f BY <1>3
  <2>8. Put(p, f, off, upto) /\ NumbersOf(p, i, f) = 1 .. off BY <1>12, <1>13, <2>7
  <2>9. /\ Ascend' /\ NumbersOf(p, i, f)' = 1 .. upto
        /\ \A q \in Proc, g \in File : \A j : q # p \/ g # f \/ j # i =>
             PlacesOf(q, j, g)' = PlacesOf(q, j, g) /\ NumbersOf(q, j, g)' = NumbersOf(q, j, g)
    <3>1. PICK a, b : a = off /\ b = upto OBVIOUS
    <3>2. /\ a \in Nat /\ b \in Nat /\ a <= b /\ Put(p, f, a, b) /\ NumbersOf(p, i, f) = 1 .. a
      BY <1>9, <1>10, <2>8, <3>1
    <3>3. /\ Ascend' /\ NumbersOf(p, i, f)' = 1 .. b
          /\ \A q \in Proc, g \in File : \A j : q # p \/ g # f \/ j # i =>
               PlacesOf(q, j, g)' = PlacesOf(q, j, g) /\ NumbersOf(q, j, g)' = NumbersOf(q, j, g)
      BY <1>1, <1>11, <3>2, PutPlaces
    <3> QED BY <3>1, <3>3
  <2>10. call \in [Proc -> Call \cup {NoCall}] /\ made[p] \in Nat BY <1>1 DEF TypeInv, ProcTypes
  <2>11. call' = [call EXCEPT ![p] = c] /\ UNCHANGED <<program, made, answer>> BY <1>16 DEF Suspend
  <2>12. call'[p] = c /\ \A q \in Proc \ {p} : call'[q] = call[q] BY <2>10, <2>11
  <2>13. ASSUME NEW q \in Proc, NEW g \in File PROVE SentOf(q, g)'
    <3>1. SentOf(q, g) BY <1>1, SentParts
    <3>2. CASE q # p BY <2>2, <2>9, <2>11, <2>12, <3>1, <3>2, SentSame
    <3>3. CASE q = p
      <4>1. \A j \in Nat : j > made'[p] + 1 => PlacesOf(p, j, g)' = {}
        BY <1>11, <2>9, <2>11, <3>1, <3>3 DEF SentOf
      <4>2. SentNow(p, g)'
        <5>1. CASE g = f
          <6>1. NumbersOf(p, made[p] + 1, g)' = 1 .. upto BY <1>11, <2>9, <2>11, <5>1
          <6>2. upto = 0 => 1 .. upto = {} BY <1>10
          <6> QED BY <2>3, <2>7, <2>12, <5>1, <6>1, <6>2 DEF SentNow
        <5>2. CASE g # f
          <6>1. NumbersOf(p, i, g)' = NumbersOf(p, i, g) BY <2>9, <5>2
          <6>2. NumbersOf(p, i, g) = {} BY <1>7, <1>8, <1>11, <2>7, <3>1, <3>3, <5>2 DEF SentOf, SentNow
          <6>3. NumbersOf(p, made[p] + 1, g)' = {} BY <1>11, <2>11, <6>1, <6>2
          <6> QED BY <2>7, <2>12, <5>2, <6>3 DEF SentNow
        <5> QED BY <5>1, <5>2
      <4>3. ASSUME NEW j \in DOMAIN program[p], j <= made[p] PROVE SentCall(p, g, j)'
        <5>1. j # i BY <1>11, <2>10, <4>3
        <5>2. NumbersOf(p, j, g)' = NumbersOf(p, j, g) BY <2>9, <5>1
        <5>3. SentCall(p, g, j) BY <3>1, <3>3, <4>3 DEF SentOf
        <5> QED BY <2>11, <5>2, <5>3 DEF SentCall
      <4> QED BY <2>11, <3>3, <4>1, <4>2, <4>3 DEF SentOf
    <3> QED BY <3>2, <3>3
  <2>14. SentRight' BY <2>13, SentPartsNext
  <2> QED BY <2>5, <2>6, <2>9, <2>14 DEF CareInv
<1> QED BY <1>13, <1>15, <1>16

LEMMA EncodeCare == ASSUME WaitInv, CareInv, NEW p \in Proc, NEW c \in Turn(p), Encode(p, c) PROVE CareInv'
<1> DEFINE fits == IF End(c.f) = "err" THEN 0 ELSE Smaller(c.n + 2, Room - unsent[c.f])
           res == IF fits = c.n + 2 THEN "ok" ELSE "efail"
<1>1. TypeInv /\ SentRight BY DEF WaitInv, CareInv
<1>2. c \in Call BY <1>1, TurnRight
<1>3. c.f \in File /\ c.n \in Nat BY <1>1, <1>2, CallTypes
<1>4. c.op \notin Writes /\ c.op # "connect" /\ c.op \notin TextReads \cup {"decode"} BY DEF Encode, Writes, TextReads
<1>5. /\ Put(p, c.f, 0, fits) /\ Answer(p, c, res, << >>) /\ UNCHANGED <<client, inVars>>
  BY DEF Encode
<1>6. unsent[c.f] \in Int /\ unsent[c.f] <= Room /\ Room \in Nat BY <1>1, <1>3, FilesAssumption DEF TypeInv, OutTypes
<1>7. fits \in Nat /\ 0 <= fits BY <1>3, <1>6 DEF Smaller
<1> HIDE DEF fits, res
<1>8. client[p][1] \notin {"text", "off", "dec"} BY <1>4, NothingKept
<1>9. PICK i \in Nat : made[p] + 1 = i BY <1>1 DEF TypeInv, ProcTypes
<1>10. NumbersOf(p, i, c.f) = 1 .. 0
  <2>1. SentNow(p, c.f) BY <1>1, <1>3, SentParts DEF SentOf
  <2> QED BY <1>8, <1>9, <2>1 DEF SentNow
<1>11. 0 \in Nat /\ client'[p] = client[p] /\ \A q \in Proc \ {p} : client'[q] = client[q] BY <1>5
<1>12. PICK a, b, r : a = 0 /\ b = fits /\ r = res OBVIOUS
<1>13. /\ a \in Nat /\ b \in Nat /\ a <= b /\ Put(p, c.f, a, b) /\ Answer(p, c, r, << >>) /\ UNCHANGED inVars
       /\ NumbersOf(p, i, c.f) = 1 .. a
  BY <1>5, <1>7, <1>10, <1>12
<1>14. client[p][1] \notin {"text", "dec"} /\ client'[p][1] \notin {"text", "off", "dec"} BY <1>8, <1>11
<1>15. c.op \in Writes => b <= c.n /\ (r = "ok" => b = c.n) BY <1>4
<1> QED BY <1>4, <1>9, <1>11, <1>13, <1>14, <1>15, AnswerPut

-----------------------------------------------------------------------------
(***************************************************************************)
(* A careful program interrupts nobody who has something kept.             *)
(***************************************************************************)
LEMMA InterruptCare ==
  ASSUME Careful, WaitInv, CareInv, NEW p \in Proc, NEW c \in Turn(p), Interrupt(p, c) PROVE CareInv'
<1>1. TypeInv /\ KeptRight /\ CallRight /\ TextKept /\ Ascend /\ SentRight BY DEF WaitInv, CareInv
<1>2. c \in Call BY <1>1, TurnRight
<1>3. c.q \in Proc BY <1>1, <1>2, CallTypes
<1>4. c.op = "interrupt" /\ client[c.q] = NoClient BY DEF Interrupt
<1>5. /\ call \in [Proc -> Call \cup {NoCall}] /\ made \in [Proc -> Nat] /\ DOMAIN answer = Proc
      /\ program \in [Proc -> Seq(Call)]
  BY <1>1 DEF TypeInv, ProcTypes
<1>6. call[p] = NoCall BY <1>1, <1>4, TurnNext
<1>7. c.op \notin TextReads \cup Writes \cup {"decode"} BY <1>4 DEF TextReads, Writes
<1>8. client[p][1] \notin {"text", "off", "dec"} BY <1>7, NothingKept
<1> DEFINE ok == [call |-> c, res |-> "ok", val |-> << >>]
           err == [call |-> call[c.q], res |-> "error", val |-> << >>]
<1>9. /\ answer' = [answer EXCEPT ![p] = ok, ![c.q] = IF call[c.q] = NoCall THEN @ ELSE err]
      /\ made' = [made EXCEPT ![p] = @ + 1, ![c.q] = IF call[c.q] = NoCall THEN @ ELSE @ + 1]
      /\ call' = [call EXCEPT ![p] = NoCall, ![c.q] = NoCall]
      /\ UNCHANGED <<program, client, taken, delivered, dropped, written>>
  BY DEF Interrupt, inVars, outVars
<1>10. err.res = "error" OBVIOUS
<1> HIDE DEF ok, err
<1>11. \A q \in Proc : call'[q] = IF q = p \/ q = c.q THEN NoCall ELSE call[q] BY <1>5, <1>9
<1>12. \A q \in Proc : made'[q] = IF q = p \/ (q = c.q /\ call[q] # NoCall) THEN made[q] + 1 ELSE made[q]
  BY <1>3, <1>5, <1>6, <1>9
<1>13. \A q \in Proc : q # p => answer'[q] = IF q = c.q /\ call[q] # NoCall THEN err ELSE answer[q]
  BY <1>3, <1>5, <1>6, <1>9
<1>14. KeptRight'
  <2>1. client[c.q][1] = "none" BY <1>4 DEF NoClient
  <2>2. ASSUME NEW q \in Proc, q = p \/ q = c.q PROVE client'[q][1] \notin {"text", "off", "dec"}
    BY <1>8, <1>9, <2>1, <2>2
  <2>3. ASSUME NEW q \in Proc, q # p /\ q # c.q PROVE client'[q] = client[q] /\ call'[q] = call[q]
    BY <1>9, <1>11, <2>3
  <2> QED BY <1>1, <2>2, <2>3 DEF KeptRight
<1>15. CallRight'
  <2>1. ASSUME NEW q \in Proc, call'[q] # NoCall PROVE call'[q] = call[q] /\ made'[q] = made[q]
    BY <1>11, <1>12, <2>1
  <2>2. ASSUME NEW q \in Proc, call'[q] # NoCall PROVE
          LET i == made[q] + 1
          IN /\ Accepted(call[q]) /\ call[q].op # "interrupt"
             /\ i \in DOMAIN program[q] /\ call[q].op = program[q][i].op
             /\ call[q].op # "connect" => call[q] = program[q][i]
    BY <1>1, <2>1, <2>2 DEF CallRight, Next1
  <2>3. ASSUME NEW q \in Proc, call'[q] # NoCall PROVE
          /\ Accepted(call'[q]) /\ call'[q].op # "interrupt"
          /\ made'[q] + 1 \in DOMAIN program'[q] /\ call'[q].op = program'[q][made'[q] + 1].op
          /\ call'[q].op # "connect" => call'[q] = program'[q][made'[q] + 1]
    BY <1>9, <2>1, <2>2, <2>3
  <2> QED BY <2>3 DEF CallRight, Next1, Accepted, isReading, isWriting
<1>16. TextKept' BY <1>1, <1>9, TextSame DEF Holds
<1>17. \A q, j, g : PlacesOf(q, j, g)' = PlacesOf(q, j, g) /\ NumbersOf(q, j, g)' = NumbersOf(q, j, g) BY <1>9, PlacesSame
<1>18. ASSUME NEW q \in Proc, NEW g \in File PROVE SentOf(q, g)'
  <2>1. SentOf(q, g) BY <1>1, SentParts
  <2>2. CASE q # p /\ q # c.q BY <1>9, <1>11, <1>12, <1>13, <1>17, <2>1, <2>2, SentSame
  <2>3. CASE q # p /\ q = c.q /\ call[q] = NoCall BY <1>9, <1>11, <1>12, <1>13, <1>17, <2>1, <2>3, SentSame
  <2>4. CASE q = p \/ (q = c.q /\ call[q] # NoCall)
    <3>1. PICK i \in Nat : made[q] + 1 = i BY <1>5
    <3>2. made[q] \in Nat /\ program[q] \in Seq(Call) /\ made'[q] = i BY <1>5, <1>12, <2>4, <3>1
    <3>3. client[q][1] # "off" BY <1>4, <1>8, <2>4 DEF NoClient
    <3>4. i \in DOMAIN program[q] /\ (q = p => program[q][i].op = c.op)
      <4>1. CASE q = p BY <1>1, <2>4, <3>1, <4>1, TurnNext DEF Next1
      <4>2. CASE q # p BY <1>1, <2>4, <3>1, <4>2 DEF CallRight
      <4> QED BY <4>1, <4>2
    <3>5. program[q][i].n \in Nat
      <4>1. i \in 1..Len(program[q]) BY <3>2, <3>4, LenProperties
      <4>2. program[q][i] \in Call BY <3>2, <4>1, SeqPlaces
      <4> QED BY <4>2 DEF Call
    <3>6. NumbersOf(q, i, g)' = 1 .. 0
      <4>1. NumbersOf(q, i, g) = {} BY <2>1, <3>1, <3>3 DEF SentOf, SentNow
      <4> QED BY <1>17, <4>1
    <3>7. program[q][i].op \in Writes /\ program[q][i].f = g =>
            /\ \E n \in 0 .. program[q][i].n : NumbersOf(q, i, g)' = 1 .. n
            /\ answer'[q].res = "ok" => NumbersOf(q, i, g)' = 1 .. program[q][i].n
      <4>1. 0 \in 0 .. program[q][i].n BY <3>5
      <4>2. q = p => program[q][i].op \notin Writes BY <1>7, <3>4
      <4>3. q # p => answer'[q].res = "error" BY <1>10, <1>13, <2>4
      <4> QED BY <3>6, <4>1, <4>2, <4>3
    <3>8. client'[q][1] # "off" BY <1>9, <3>3
    <3> QED BY <1>9, <1>17, <2>1, <3>1, <3>2, <3>7, <3>8, SentOver
  <2> QED BY <2>2, <2>3, <2>4
<1>19. SentRight' BY <1>18, SentPartsNext
<1>20. Ascend' BY <1>1, <1>9, AscendSame
<1> QED BY <1>14, <1>15, <1>16, <1>19, <1>20 DEF CareInv

LEMMA FlushCare == ASSUME WaitInv, CareInv, NEW p \in Proc, NEW c \in Turn(p), Flush(p, c) PROVE CareInv'
<1>1. UNCHANGED <<client, taken, delivered, dropped, written>> BY DEF Flush, inVars, outVars
<1>2. c.op \notin TextReads \cup Writes \cup {"decode"} BY DEF Flush, TextReads, Writes
<1>3. \/ \E res : Answer(p, c, res, << >>)
      \/ UNCHANGED <<program, made, call, answer>>
  BY DEF Flush
<1>4. client[p][1] \notin {"text", "off", "dec"} BY <1>2, NothingKept
<1>5. CASE \E res : Answer(p, c, res, << >>) BY <1>1, <1>2, <1>4, <1>5, AnsweredCare
<1>6. CASE UNCHANGED <<program, made, call, answer>> BY <1>1, <1>6, CareSame
<1> QED BY <1>3, <1>5, <1>6

\* The escapes that are answered at once.
LEMMA AtOnceCare ==
  ASSUME WaitInv, CareInv, NEW p \in Proc, NEW c \in Turn(p), NEW res, NEW val, Answer(p, c, res, val),
         UNCHANGED <<client, inVars, outVars>>, c.op \notin TextReads \cup Writes \cup {"decode"}
  PROVE  CareInv'
<1>1. UNCHANGED <<client, taken, delivered, dropped, written>> BY DEF inVars, outVars
<1>2. client[p][1] \notin {"text", "off", "dec"} BY NothingKept
<1> QED BY <1>1, <1>2, AnsweredCare

LEMMA EscapeCare == ASSUME Careful, WaitInv, CareInv, NEW p \in Proc, Escape(p) PROVE CareInv'
<1>1. TypeInv BY DEF WaitInv
<1>2. PICK c \in Turn(p) :
        \/ ~Accepted(c) /\ Refuse(p, c)
        \/ /\ Accepted(c)
           /\ \/ Inbytes(p, c) \/ Inline(p, c) \/ Intext(p, c) \/ Inchar(p, c) \/ Eof(p, c) \/ Ready(p, c)
              \/ Binline(p, c) \/ ReadTerm(p, c) \/ Decode(p, c) \/ Outchar(p, c) \/ Encode(p, c) \/ Flush(p, c)
              \/ Ftell(p, c) \/ Fopen(p, c) \/ Dupfile(p, c) \/ Fclose(p, c) \/ Connect(p, c) \/ Accept(p, c)
              \/ Interrupt(p, c)
  BY DEF Escape
<1>3. CASE ~Accepted(c) /\ Refuse(p, c) BY <1>3, RefuseCare
<1>4. CASE Accepted(c)
  <2>1. CASE Inbytes(p, c)
    <3>1. c.op \in Reads \cup {"eof"} BY <2>1 DEF Inbytes, Reads, TextReads
    <3> QED BY <1>1, <1>4, <2>1, <3>1, InbytesReads, ReadingCare
  <2>2. CASE Inline(p, c)
    <3>1. c.op \in Reads \cup {"eof"} BY <2>2 DEF Inline, Reads, TextReads
    <3> QED BY <1>1, <1>4, <2>2, <3>1, InlineReads, ReadingCare
  <2>3. CASE Intext(p, c)
    <3>1. c.op \in Reads \cup {"eof"} BY <2>3 DEF Intext, Reads, TextReads
    <3> QED BY <1>1, <1>4, <2>3, <3>1, IntextReads, ReadingCare
  <2>4. CASE Inchar(p, c)
    <3>1. c.op \in Reads \cup {"eof"} BY <2>4 DEF Inchar, Reads
    <3> QED BY <1>1, <1>4, <2>4, <3>1, IncharReads, ReadingCare
  <2>5. CASE Eof(p, c)
    <3>1. c.op \in Reads \cup {"eof"} BY <2>5 DEF Eof
    <3> QED BY <1>1, <1>4, <2>5, <3>1, EofReads, ReadingCare
  <2>6. CASE Binline(p, c)
    <3>1. c.op \in Reads \cup {"eof"} BY <2>6 DEF Binline, Reads
    <3> QED BY <1>1, <1>4, <2>6, <3>1, BinlineReads, ReadingCare
  <2>7. CASE ReadTerm(p, c)
    <3>1. c.op \in Reads \cup {"eof"} BY <2>7 DEF ReadTerm, Reads
    <3> QED BY <1>1, <1>4, <2>7, <3>1, ReadTermReads, ReadingCare
  <2>8. CASE Decode(p, c)
    <3>1. c.op \in Reads \cup {"eof"} BY <2>8 DEF Decode, Reads
    <3> QED BY <1>1, <1>4, <2>8, <3>1, DecodeReads, ReadingCare
  <2>9. CASE Accept(p, c)
    <3>1. c.op \in Reads \cup {"eof"} /\ c.op \notin TextReads \cup Writes \cup {"decode"}
      BY <2>9 DEF Accept, Reads, TextReads, Writes
    <3>2. CASE Reading(p, c) BY <1>4, <3>1, <3>2, ReadingCare
    <3>3. CASE Answer(p, c, "enet", << >>) /\ UNCHANGED <<client, inVars, outVars, refs, reached, attachments>>
      BY <3>1, <3>3, AtOnceCare
    <3> QED BY <1>1, <2>9, <3>2, <3>3, AcceptReads
  <2>10. ASSUME \/ Ready(p, c) \/ Ftell(p, c) \/ Fopen(p, c) \/ Dupfile(p, c) \/ Fclose(p, c)
         PROVE  CareInv'
    <3>1. c.op \notin TextReads \cup Writes \cup {"decode"}
      BY <2>10 DEF Ready, Ftell, Fopen, Dupfile, Fclose, TextReads, Writes
    <3>2. (\E res, val : Answer(p, c, res, val)) /\ UNCHANGED <<client, inVars, outVars>>
      BY <2>10 DEF Ready, Ftell, Fopen, Dupfile, Fclose
    <3> QED BY <3>1, <3>2, AtOnceCare
  <2> QED
    BY <1>2, <1>4, <2>1, <2>2, <2>3, <2>4, <2>5, <2>6, <2>7, <2>8, <2>9, <2>10,
       OutcharCare, EncodeCare, FlushCare, ConnectCare, InterruptCare
<1> QED BY <1>2, <1>3, <1>4

LEMMA OutsideCare == ASSUME CareInv, NEW f \in File, Outside(f) PROVE CareInv'
<1>1. UNCHANGED <<program, made, call, client, answer, taken, delivered, dropped, written>>
  BY DEF Outside, Arrive, Drain, Reach, procVars, inVars, outVars
<1> QED BY <1>1, CareSame

LEMMA TriggerCare == ASSUME CareInv, trigger_io PROVE CareInv'
<1>1. UNCHANGED <<program, made, call, client, answer, taken, delivered, dropped, written>>
  BY DEF trigger_io, inVars, outVars
<1> QED BY <1>1, CareSame

LEMMA CareAtFirst == ASSUME Init PROVE CareInv
<1>1. /\ program \in Programs /\ made = [p \in Proc |-> 0]
      /\ call = [p \in Proc |-> NoCall] /\ client = [p \in Proc |-> NoClient]
      /\ taken = [f \in File |-> 0] /\ written = [f \in File |-> << >>]
      /\ delivered = {} /\ dropped = {}
  BY DEF Init
<1>2. \A p \in Proc : client[p] = NoClient /\ client[p][1] \notin {"text", "off", "dec"} /\ Holds(p) = << >>
  BY <1>1 DEF NoClient, Holds
<1>3. KeptRight BY <1>2 DEF KeptRight
<1>4. CallRight BY <1>1 DEF CallRight
<1>5. TextKept
  <2>1. \A p \in Proc : ToSet(Holds(p)) = {} BY <1>2, EmptySet
  <2>2. UNION {ToSet(Holds(p)) : p \in Proc} = {} BY <2>1
  <2>3. UNION {{f} \X (1 .. taken[f]) : f \in File} = {} BY <1>1
  <2> QED BY <1>1, <2>1, <2>2, <2>3 DEF TextKept
<1>6. \A p, j : \A f \in File : PlacesOf(p, j, f) = {} /\ NumbersOf(p, j, f) = {}
  <2> SUFFICES ASSUME NEW p, NEW j, NEW f \in File PROVE PlacesOf(p, j, f) = {} /\ NumbersOf(p, j, f) = {} OBVIOUS
  <2>1. DOMAIN written[f] = {} BY <1>1
  <2>2. PlacesOf(p, j, f) = {} BY <2>1 DEF PlacesOf
  <2> QED BY <2>2 DEF NumbersOf
<1>7. Ascend BY <1>6 DEF Ascend
<1>8. SentRight
  <2> SUFFICES ASSUME NEW p \in Proc, NEW f \in File PROVE SentOf(p, f) BY SentParts
  <2>1. SentNow(p, f) BY <1>2, <1>6 DEF SentNow
  <2>2. ASSUME NEW j \in DOMAIN program[p] PROVE ~(j <= made[p])
    <3>1. program[p] \in Seq(Call) BY <1>1, FilesAssumption
    <3>2. j \in 1 .. Len(program[p]) /\ Len(program[p]) \in Nat BY <2>2, <3>1, LenProperties
    <3> QED BY <1>1, <3>2
  <2> QED BY <1>6, <2>1, <2>2 DEF SentOf
<1> QED BY <1>3, <1>4, <1>5, <1>7, <1>8 DEF CareInv

\* Of each call: what it has written is right, whether it is over, begun or to come.
LEMMA WrittenRight == ASSUME WaitInv, CareInv PROVE WrittenOnce
<1> SUFFICES ASSUME NEW p \in Proc, NEW f \in File, NEW j \in DOMAIN program[p],
                    program[p][j].op \in Writes, program[p][j].f = f
             PROVE  /\ \A k, m \in PlacesOf(p, j, f) : k < m => written[f][k][3] < written[f][m][3]
                    /\ SentCall(p, f, j)
  BY DEF WrittenOnce, SentCall
<1>1. /\ program[p] \in Seq(Call) /\ made[p] \in Nat /\ KeptRight /\ CallRight /\ Ascend /\ SentRight /\ TypeInv
  BY DEF WaitInv, TypeInv, ProcTypes, CareInv
<1>2. j \in Nat /\ program[p][j] \in Call
  <2>1. j \in 1 .. Len(program[p]) /\ Len(program[p]) \in Nat BY <1>1, LenProperties
  <2> QED BY <1>1, <2>1, SeqPlaces
<1>3. program[p][j].n \in Nat BY <1>2 DEF Call
<1>4. SentOf(p, f) BY <1>1, SentParts
<1>5. \A k, m \in PlacesOf(p, j, f) : k < m => written[f][k][3] < written[f][m][3] BY <1>1, <1>2 DEF Ascend
<1>6. SentCall(p, f, j)
  <2>1. CASE j <= made[p] BY <1>4, <2>1 DEF SentOf
  <2>2. CASE j = made[p] + 1
    <3>1. PICK n \in 0 .. program[p][j].n : NumbersOf(p, j, f) = 1 .. n
      <4>1. CASE client[p][1] = "off" /\ call[p].f = f
        <5>1. NumbersOf(p, j, f) = 1 .. client[p][2] BY <1>4, <2>2, <4>1 DEF SentOf, SentNow
        <5>2. client[p][2] \in Nat BY <1>1, <4>1, ClientCases DEF TypeInv
        <5>3. client[p][2] < program[p][j].n
          <6>1. call[p] # NoCall /\ call[p].op \in Writes /\ client[p][2] < call[p].n BY <1>1, <4>1 DEF KeptRight
          <6>2. call[p].op # "connect" BY <6>1 DEF Writes
          <6>3. call[p] = program[p][j] BY <1>1, <2>2, <6>1, <6>2 DEF CallRight, Next1
          <6> QED BY <6>1, <6>3
        <5>4. client[p][2] \in 0 .. program[p][j].n BY <1>3, <5>2, <5>3
        <5> QED BY <5>1, <5>4
      <4>2. CASE ~(client[p][1] = "off" /\ call[p].f = f)
        <5>1. NumbersOf(p, j, f) = {} BY <1>4, <2>2, <4>2 DEF SentOf, SentNow
        <5>2. 1 .. 0 = {} /\ 0 \in 0 .. program[p][j].n BY <1>3
        <5> QED BY <5>1, <5>2
      <4> QED BY <4>1, <4>2
    <3>2. made[p] # j BY <1>1, <1>2, <2>2
    <3> QED BY <3>1, <3>2 DEF SentCall
  <2>3. CASE j > made[p] + 1
    <3>1. PlacesOf(p, j, f) = {} BY <1>2, <1>4, <2>3 DEF SentOf
    <3>2. NumbersOf(p, j, f) = {} BY <3>1 DEF NumbersOf
    <3>3. 1 .. 0 = {} /\ 0 \in 0 .. program[p][j].n BY <1>3
    <3>4. made[p] # j BY <1>1, <1>2, <2>3
    <3>5. \E n \in 0 .. program[p][j].n : NumbersOf(p, j, f) = 1 .. n BY <3>2, <3>3
    <3> QED BY <3>4, <3>5 DEF SentCall
  <2> QED BY <1>1, <1>2, <2>1, <2>2, <2>3
<1> QED BY <1>5, <1>6

LEMMA CareAlways == ASSUME Careful PROVE Spec => []CareInv
<1>1. Init => CareInv BY CareAtFirst
<1>2. WaitInv /\ CareInv /\ [Next]_vars => CareInv'
  <2> SUFFICES ASSUME WaitInv, CareInv, [Next]_vars PROVE CareInv' OBVIOUS
  <2>1. CASE \E p \in Proc : Escape(p) BY <2>1, EscapeCare
  <2>2. CASE trigger_io BY <2>2, TriggerCare
  <2>3. CASE \E f \in File : Outside(f) BY <2>3, OutsideCare
  <2>4. CASE UNCHANGED vars
    <3>1. UNCHANGED <<program, made, call, client, answer, taken, delivered, dropped, written>>
      BY <2>4 DEF vars, procVars, inVars, outVars
    <3> QED BY <3>1, CareSame
  <2> QED BY <2>1, <2>2, <2>3, <2>4 DEF Next
<1> QED BY <1>1, <1>2, WaitsAlways, PTL DEF Spec

(***************************************************************************)
(* Of the reads and writes of fileio.c that suspend their process and are  *)
(* begun again (m_inbytes to m_binline, m_read, m_decode, m_outchar): when *)
(* programs leave no escape with the data of another, each character taken *)
(* from a file is answered once, kept by one process or passed over, and   *)
(* each call writes its codes once, in their order, and all of them by the *)
(* time it is answered.                                                    *)
(***************************************************************************)
THEOREM CharactersOnce == ASSUME Careful PROVE Spec => []EachCharacterOnce
<1>1. WaitInv /\ CareInv => EachCharacterOnce BY WrittenRight DEF EachCharacterOnce, CareInv
<1> QED BY <1>1, WaitsAlways, CareAlways, PTL

-----------------------------------------------------------------------------
(***************************************************************************)
(* What a read answers.  The text that a call has, kept or answered: places*)
(* of f up to n, in their order.                                           *)
(***************************************************************************)
Ordered(f, n, s) ==
  /\ s \in Seq(Places) /\ \A k \in 1..Len(s) : s[k][1] = f /\ s[k][2] \in Nat /\ s[k][2] <= n
  /\ \A k \in 1..Len(s) - 1 : s[k][2] < s[k + 1][2]

LEMMA OrderedGrows ==
  ASSUME NEW f \in File, NEW n \in Nat, NEW s, Ordered(f, n, s), NEW t, Piece(f, n, t), NEW m \in Nat, n + Len(t) <= m
  PROVE  Ordered(f, m, s \o t)
<1>1. /\ s \in Seq(Places) /\ t \in Seq(Places) /\ Len(s) \in Nat /\ Len(t) \in Nat
  BY LenProperties DEF Ordered, Piece
<1> DEFINE r == s \o t
<1>2. /\ r \in Seq(Places) /\ Len(r) = Len(s) + Len(t)
      /\ \A k \in 1..Len(s) + Len(t) : r[k] = IF k <= Len(s) THEN s[k] ELSE t[k - Len(s)]
  BY <1>1, ConcatProperties
<1> HIDE DEF r
<1>3. ASSUME NEW k \in 1..Len(s) PROVE r[k] = s[k] /\ s[k][1] = f /\ s[k][2] \in Nat /\ s[k][2] <= n
  BY <1>1, <1>2 DEF Ordered
<1>4. ASSUME NEW k \in 1..Len(r), ~(k <= Len(s)) PROVE r[k][1] = f /\ r[k][2] = n + (k - Len(s))
  <2>1. k - Len(s) \in 1..Len(t) /\ r[k] = t[k - Len(s)] BY <1>1, <1>2, <1>4
  <2>2. r[k] = <<f, n + (k - Len(s))>> BY <2>1 DEF Piece
  <2> QED BY <2>2
<1>5. ASSUME NEW k \in 1..Len(r) PROVE r[k][1] = f /\ r[k][2] \in Nat /\ r[k][2] <= m
  <2>1. CASE k <= Len(s)
    <3>1. k \in 1..Len(s) BY <1>1, <1>2, <2>1
    <3> QED BY <1>1, <1>3, <3>1
  <2>2. CASE ~(k <= Len(s)) BY <1>1, <1>2, <1>4, <2>2
  <2> QED BY <2>1, <2>2
<1>6. ASSUME NEW k \in 1..Len(r) - 1 PROVE r[k][2] < r[k + 1][2]
  <2>1. k \in 1..Len(r) /\ k + 1 \in 1..Len(r) BY <1>1, <1>2
  <2>2. CASE k + 1 <= Len(s)
    <3>1. k \in 1..Len(s) - 1 /\ k \in 1..Len(s) /\ k + 1 \in 1..Len(s) BY <1>1, <1>2, <2>2
    <3>2. s[k][2] < s[k + 1][2] BY <3>1 DEF Ordered
    <3> QED BY <1>3, <3>1, <3>2
  <2>3. CASE k = Len(s)
    <3>1. k \in 1..Len(s) /\ ~(k + 1 <= Len(s)) /\ (k + 1) - Len(s) = 1 BY <1>1, <2>1, <2>3
    <3>2. r[k][2] \in Nat /\ r[k][2] <= n BY <1>3, <3>1
    <3>3. r[k + 1][2] = n + 1 BY <1>4, <2>1, <3>1
    <3> QED BY <3>2, <3>3
  <2>4. CASE k > Len(s)
    <3>1. ~(k <= Len(s)) /\ ~(k + 1 <= Len(s)) BY <1>1, <2>1, <2>4
    <3>2. r[k][2] = n + (k - Len(s)) /\ r[k + 1][2] = n + ((k + 1) - Len(s)) BY <1>4, <2>1, <3>1
    <3> QED BY <1>1, <3>2
  <2> QED BY <1>1, <1>2, <2>2, <2>3, <2>4
<1> QED BY <1>2, <1>5, <1>6 DEF Ordered, r

\* A text that ends at n goes on with the piece behind n.
LEMMA BehindGrows ==
  ASSUME NEW f \in File, NEW n \in Nat, NEW i \in Int, NEW s, Piece(f, i, s), i + Len(s) = n, NEW t, Piece(f, n, t)
  PROVE  Piece(f, i, s \o t) /\ i + Len(s \o t) = n + Len(t)
<1>1. /\ s \in Seq(Places) /\ t \in Seq(Places) /\ Len(s) \in Nat /\ Len(t) \in Nat
  BY LenProperties DEF Piece
<1> DEFINE r == s \o t
<1>2. /\ r \in Seq(Places) /\ Len(r) = Len(s) + Len(t)
      /\ \A k \in 1..Len(s) + Len(t) : r[k] = IF k <= Len(s) THEN s[k] ELSE t[k - Len(s)]
  BY <1>1, ConcatProperties
<1> HIDE DEF r
<1>3. ASSUME NEW k \in 1..Len(r) PROVE r[k] = <<f, i + k>>
  <2>1. CASE k <= Len(s)
    <3>1. k \in 1..Len(s) /\ r[k] = s[k] BY <1>1, <1>2, <2>1
    <3> QED BY <3>1 DEF Piece
  <2>2. CASE ~(k <= Len(s))
    <3>1. k - Len(s) \in 1..Len(t) /\ r[k] = t[k - Len(s)] BY <1>1, <1>2, <2>2
    <3>2. k \in Int /\ n = i + Len(s) BY <1>1, <1>2
    <3>3. n + (k - Len(s)) = i + k BY <1>1, <3>2
    <3> QED BY <3>1, <3>3 DEF Piece
  <2> QED BY <2>1, <2>2
<1>4. i + Len(r) = n + Len(t)
  <2>1. n = i + Len(s) /\ Len(r) = Len(s) + Len(t) /\ Len(s) \in Int /\ Len(t) \in Int /\ i \in Int BY <1>1, <1>2
  <2> QED BY ONLY <2>1
<1> QED BY <1>2, <1>3, <1>4 DEF r, Piece

LEMMA PieceOrdered ==
  ASSUME NEW f \in File, NEW n \in Nat, NEW s, Piece(f, n, s), NEW m \in Nat, n + Len(s) <= m
  PROVE  Ordered(f, m, s)
<1>1. s \in Seq(Places) /\ Len(s) \in Nat BY LenProperties DEF Piece
<1>2. \A k \in 1..Len(s) : s[k][1] = f /\ s[k][2] = n + k BY DEF Piece
<1>3. ASSUME NEW k \in 1..Len(s) - 1 PROVE s[k][2] < s[k + 1][2]
  <2>1. k \in 1..Len(s) /\ k + 1 \in 1..Len(s) BY <1>1
  <2> QED BY <1>2, <2>1
<1>4. ASSUME NEW k \in 1..Len(s) PROVE s[k][1] = f /\ s[k][2] \in Nat /\ s[k][2] <= m BY <1>1, <1>2
<1> QED BY <1>1, <1>3, <1>4 DEF Ordered

\* What the two say of an answer.
LEMMA AnswerInOrder ==
  ASSUME NEW f, NEW n, NEW s, Ordered(f, n, s)
  PROVE  (s # << >> => s[1][1] = f) /\ InOrder(s)
<1>1. s \in Seq(Places) /\ Len(s) \in Nat BY LenProperties DEF Ordered
<1>2. ASSUME s # << >> PROVE s[1][1] = f
  <2>1. Len(s) # 0 BY <1>1, <1>2, EmptySeq
  <2>2. 1 \in 1..Len(s) BY <1>1, <2>1
  <2> QED BY <2>2 DEF Ordered
<1>3. ASSUME NEW k \in 1..Len(s) - 1 PROVE s[k + 1][1] = s[k][1] /\ s[k + 1][2] > s[k][2]
  <2>1. k \in 1..Len(s) /\ k + 1 \in 1..Len(s) BY <1>1
  <2>2. s[k][2] \in Nat /\ s[k + 1][2] \in Nat /\ s[k][2] < s[k + 1][2] /\ s[k + 1][1] = s[k][1] BY <2>1 DEF Ordered
  <2> QED BY <2>2
<1> QED BY <1>2, <1>3 DEF InOrder

LEMMA AnswerUnbroken ==
  ASSUME NEW f, NEW i \in Int, NEW s, Piece(f, i, s)
  PROVE  Unbroken(s)
<1>1. s \in Seq(Places) /\ Len(s) \in Nat BY LenProperties DEF Piece
<1>2. ASSUME NEW k \in 1..Len(s) - 1 PROVE s[k + 1] = <<s[k][1], s[k][2] + 1>>
  <2>1. k \in 1..Len(s) /\ k + 1 \in 1..Len(s) BY <1>1
  <2>2. s[k] = <<f, i + k>> /\ s[k + 1] = <<f, i + (k + 1)>> BY <2>1 DEF Piece
  <2>3. s[k][1] = f /\ s[k][2] + 1 = i + (k + 1) BY <2>2
  <2> QED BY <2>2, <2>3
<1> QED BY <1>2 DEF Unbroken

(***************************************************************************)
(* What a process has kept is right for the call c it is to go on with; cl *)
(* is its client data.  Where nobody else reads, it ends where the file has*)
(* been read up to.                                                        *)
(***************************************************************************)
HeldRight(p, c, cl) ==
  /\ Ordered(c.f, taken[c.f], Part(cl))
  /\ SoleReader(p, c.f) => Piece(c.f, taken[c.f] - Len(Part(cl)), Part(cl))
  /\ c.op \in {"inchars", "inbytes"} => Len(Part(cl)) <= c.n
  /\ c.op = "inline" => \A x \in ToSet(Part(cl)) : Code(x) # NEW_LINE
  /\ cl[1] = "dec" => \E t \in DOMAIN Script[c.f] :
       /\ Tag(Script[c.f][t]) = trmString /\ cl[2].count = Length(LengthBytes(c.f, t))
       /\ SoleReader(p, c.f) => taken[c.f] - Len(Part(cl)) = t + HeadSize(c.f, t)

HeldOf(p) == client[p][1] \in {"text", "dec"} => HeldRight(p, call[p], client[p])
AnsweredOf(p) ==
  answer[p] # NoCall =>
    /\ answer[p].call \in Call
    /\ answer[p].call.op \in Reads \ {"binline"} /\ answer[p].res = "ok" =>
         AnsweredWhole(p, answer[p].call, answer[p].val)

\* A careful peer never stops inside the head of a coded term.
HeadsArrive == \A f \in Used : arrived[f] \in DOMAIN Script[f] => ~InHead(f, arrived[f])

WholeInv == HeadsArrive /\ \A p \in Proc : HeldOf(p) /\ AnsweredOf(p)

\* What a process has kept while others read, and what a call was answered, stay right.
LEMMA HeldStays ==
  ASSUME TypeInv, KeptRight, NEW q \in Proc, HeldOf(q), UNCHANGED program, client'[q] = client[q], call'[q] = call[q],
         taken' \in [File -> Nat],
         \A g \in File : taken[g] <= taken'[g] /\ (SoleReader(q, g) => taken'[g] = taken[g])
  PROVE  HeldOf(q)'
<1>1. PICK c, cl : c = call[q] /\ cl = client[q] OBVIOUS
<1>2. SUFFICES ASSUME cl[1] \in {"text", "dec"} PROVE HeldRight(q, c, cl)' BY <1>1 DEF HeldOf
<1>3. HeldRight(q, c, cl) BY <1>1, <1>2 DEF HeldOf
<1>4. c.f \in File
  <2>1. c # NoCall BY <1>1, <1>2 DEF KeptRight
  <2> QED BY <1>1, <2>1, CallTypes
<1>5. \A g : SoleReader(q, g)' <=> SoleReader(q, g) BY DEF SoleReader
<1> DEFINE n == taken[c.f]
           m == taken'[c.f]
<1>6. n \in Nat /\ m \in Nat /\ n <= m /\ (SoleReader(q, c.f) => m = n) BY <1>4 DEF TypeInv
<1>7. Ordered(c.f, m, Part(cl))
  <2>1. Ordered(c.f, n, Part(cl)) BY <1>3 DEF HeldRight
  <2> HIDE DEF n, m
  <2> QED BY <1>6, <2>1 DEF Ordered
<1>8. SoleReader(q, c.f) => Piece(c.f, m - Len(Part(cl)), Part(cl)) BY <1>3, <1>6 DEF HeldRight
<1>9. cl[1] = "dec" => \E t \in DOMAIN Script[c.f] :
        /\ Tag(Script[c.f][t]) = trmString /\ cl[2].count = Length(LengthBytes(c.f, t))
        /\ SoleReader(q, c.f) => m - Len(Part(cl)) = t + HeadSize(c.f, t)
  BY <1>3, <1>6 DEF HeldRight
<1>10. /\ c.op \in {"inchars", "inbytes"} => Len(Part(cl)) <= c.n
       /\ c.op = "inline" => \A x \in ToSet(Part(cl)) : Code(x) # NEW_LINE
  BY <1>3 DEF HeldRight
<1> QED BY <1>5, <1>7, <1>8, <1>9, <1>10 DEF HeldRight

LEMMA AnswerStays ==
  ASSUME NEW q \in Proc, AnsweredOf(q), UNCHANGED program, answer'[q] = answer[q], dropped \subseteq dropped',
         \A f \in File : Ended(f) => Ended(f)'
  PROVE  AnsweredOf(q)'
<1>2. PICK c, val : c = answer[q].call /\ val = answer[q].val OBVIOUS
<1>1. SUFFICES ASSUME answer[q] # NoCall
      PROVE  c \in Call /\ (c.op \in Reads \ {"binline"} /\ answer[q].res = "ok" => AnsweredWhole(q, c, val)')
  BY <1>2 DEF AnsweredOf
<1>3. c \in Call BY <1>1, <1>2 DEF AnsweredOf
<1>4. c.f \in File BY <1>3 DEF Call
<1>5. ASSUME AnsweredWhole(q, c, val) PROVE AnsweredWhole(q, c, val)'
  <2>1. SoleReader(q, c.f)' <=> SoleReader(q, c.f) BY DEF SoleReader
  <2>2. Ended(c.f) => Ended(c.f)' BY <1>4
  <2>3. /\ val # << >> => val[1][1] = c.f
        /\ InOrder(val)
        /\ SoleReader(q, c.f)' => Unbroken(val)
    BY <1>5, <2>1 DEF AnsweredWhole
  <2>4. c.op \in {"inchars", "inbytes"} => Len(val) = c.n \/ Ended(c.f)' BY <1>5, <2>2 DEF AnsweredWhole
  <2>5. c.op = "inline" =>
          /\ \A x \in ToSet(val) : Code(x) # NEW_LINE
          /\ Ended(c.f)' \/ \E x \in dropped' : Code(x) = NEW_LINE /\ \A y \in ToSet(val) : x[1] = c.f /\ x[2] > y[2]
    BY <1>5, <2>2 DEF AnsweredWhole
  <2>6. c.op = "decode" => \E t \in DOMAIN Script[c.f] :
          /\ Tag(Script[c.f][t]) = trmString /\ Len(val) = Length(LengthBytes(c.f, t))
          /\ SoleReader(q, c.f)' => \A k \in 1 .. Len(val) : val[k] = <<c.f, t + HeadSize(c.f, t) + k>>
    BY <1>5, <2>1 DEF AnsweredWhole
  <2> QED BY <2>3, <2>4, <2>5, <2>6 DEF AnsweredWhole
<1> QED BY <1>1, <1>2, <1>3, <1>5 DEF AnsweredOf

\* A step by which nothing is read.
LEMMA QuietWhole ==
  ASSUME WaitInv, KeptRight, WholeInv, UNCHANGED <<program, taken, arrived>>, dropped \subseteq dropped',
         \A q \in Proc : client'[q][1] \in {"text", "dec"} => client'[q] = client[q] /\ call'[q] = call[q],
         \A q \in Proc : \/ answer'[q] = answer[q]
                         \/ /\ answer'[q].call \in Call
                            /\ answer'[q].call.op \notin Reads \ {"binline"} \/ answer'[q].res # "ok"
  PROVE  WholeInv'
<1>1. TypeInv /\ taken' \in [File -> Nat] BY DEF WaitInv, TypeInv
<1>2. \A g \in File : taken[g] <= taken'[g] /\ taken'[g] = taken[g] BY <1>1
<1>3. HeadsArrive' BY DEF WholeInv, HeadsArrive, Used
<1>4. \A f \in File : Ended(f) => Ended(f)' BY DEF Ended, End
<1>5. ASSUME NEW q \in Proc PROVE HeldOf(q)'
  <2>1. CASE client'[q][1] \in {"text", "dec"}
    <3>1. HeldOf(q) /\ client'[q] = client[q] /\ call'[q] = call[q] BY <2>1 DEF WholeInv
    <3> QED BY <1>1, <1>2, <3>1, HeldStays
  <2>2. CASE client'[q][1] \notin {"text", "dec"} BY <2>2 DEF HeldOf
  <2> QED BY <2>1, <2>2
<1>6. ASSUME NEW q \in Proc PROVE AnsweredOf(q)'
  <2>1. CASE answer'[q] = answer[q] BY <1>4, <2>1, AnswerStays DEF WholeInv
  <2>2. CASE answer'[q] # answer[q] BY <2>2 DEF AnsweredOf
  <2> QED BY <2>1, <2>2
<1> QED BY <1>3, <1>5, <1>6 DEF WholeInv

\* A step by which p reads some of the file of its call c.
LEMMA ReadWhole ==
  ASSUME WaitInv, KeptRight, WholeInv, NEW p \in Proc, NEW c \in Call, c \in ToSet(program[p]), c.op \in Reads,
         UNCHANGED <<program, arrived>>, dropped \subseteq dropped',
         \A q \in Proc \ {p} : client'[q] = client[q] /\ call'[q] = call[q] /\ answer'[q] = answer[q],
         NEW used, Piece(c.f, taken[c.f], used), Taken(c.f, used), HeldOf(p)', AnsweredOf(p)'
  PROVE  WholeInv'
<1>1. TypeInv /\ taken \in [File -> Nat] BY DEF WaitInv, TypeInv
<1>2. c.f \in File BY DEF Call
<1>3. Len(used) \in Nat BY LenProperties DEF Piece
<1>4. taken' \in [File -> Nat] BY <1>1, <1>2, <1>3, TakenType
<1>5. taken' = [taken EXCEPT ![c.f] = @ + Len(used)] BY DEF Taken
<1>6. \A g \in File : taken[g] <= taken'[g] /\ (g # c.f => taken'[g] = taken[g])
  <2>1. ASSUME NEW g \in File PROVE taken[g] <= taken'[g] /\ (g # c.f => taken'[g] = taken[g])
    <3>1. CASE g = c.f
      <4>1. taken'[g] = taken[g] + Len(used) /\ taken[g] \in Nat BY <1>1, <1>5, <3>1
      <4> QED BY <1>3, <3>1, <4>1
    <3>2. CASE g # c.f
      <4>1. taken'[g] = taken[g] /\ taken[g] \in Nat BY <1>1, <1>5, <3>2
      <4> QED BY <4>1
    <3> QED BY <3>1, <3>2
  <2> QED BY <2>1
<1>7. HeadsArrive' BY DEF WholeInv, HeadsArrive, Used
<1>8. \A f \in File : Ended(f) => Ended(f)' BY DEF Ended, End
<1>9. ASSUME NEW q \in Proc, q # p PROVE HeldOf(q)' /\ AnsweredOf(q)'
  <2>1. client'[q] = client[q] /\ call'[q] = call[q] /\ answer'[q] = answer[q] /\ HeldOf(q) /\ AnsweredOf(q)
    BY <1>9 DEF WholeInv
  <2>2. \A g \in File : SoleReader(q, g) => g # c.f BY <1>9 DEF SoleReader
  <2>3. \A g \in File : taken[g] <= taken'[g] /\ (SoleReader(q, g) => taken'[g] = taken[g]) BY <1>6, <2>2
  <2> QED BY <1>1, <1>4, <1>8, <2>1, <2>3, HeldStays, AnswerStays
<1> QED BY <1>7, <1>9 DEF WholeInv

-----------------------------------------------------------------------------
(***************************************************************************)
(* An answer, when it is given.                                            *)
(***************************************************************************)
LEMMA WholeNext ==
  ASSUME NEW p \in Proc, NEW c, UNCHANGED program, NEW n, NEW val, Ordered(c.f, n, val),
         SoleReader(p, c.f) => \E i \in Int : Piece(c.f, i, val),
         c.op \in {"inchars", "inbytes"} => Len(val) = c.n \/ Ended(c.f)',
         c.op = "inline" =>
           /\ \A x \in ToSet(val) : Code(x) # NEW_LINE
           /\ Ended(c.f)' \/ \E x \in dropped' : Code(x) = NEW_LINE /\ \A y \in ToSet(val) : x[1] = c.f /\ x[2] > y[2],
         c.op = "decode" => \E t \in DOMAIN Script[c.f] :
           /\ Tag(Script[c.f][t]) = trmString /\ Len(val) = Length(LengthBytes(c.f, t))
           /\ SoleReader(p, c.f) => \A k \in 1 .. Len(val) : val[k] = <<c.f, t + HeadSize(c.f, t) + k>>
  PROVE  AnsweredWhole(p, c, val)'
<1>1. SoleReader(p, c.f)' <=> SoleReader(p, c.f) BY DEF SoleReader
<1>2. (val # << >> => val[1][1] = c.f) /\ InOrder(val) BY AnswerInOrder
<1>3. SoleReader(p, c.f)' => Unbroken(val) BY <1>1, AnswerUnbroken
<1>4. c.op = "decode" => \E t \in DOMAIN Script[c.f] :
        /\ Tag(Script[c.f][t]) = trmString /\ Len(val) = Length(LengthBytes(c.f, t))
        /\ SoleReader(p, c.f)' => \A k \in 1 .. Len(val) : val[k] = <<c.f, t + HeadSize(c.f, t) + k>>
  BY <1>1
<1> QED BY <1>2, <1>3, <1>4 DEF AnsweredWhole

LEMMA AnswerNext ==
  ASSUME TypeInv, NEW p \in Proc, NEW c \in Call, NEW res, NEW val, Answer(p, c, res, val),
         res = "ok" /\ c.op \in Reads \ {"binline"} => AnsweredWhole(p, c, val)'
  PROVE  /\ AnsweredOf(p)' /\ UNCHANGED program /\ call'[p] = NoCall
         /\ \A q \in Proc \ {p} : answer'[q] = answer[q] /\ call'[q] = call[q]
<1> DEFINE a == [call |-> c, res |-> res, val |-> val]
<1>1. /\ answer' = [answer EXCEPT ![p] = a] /\ call' = [call EXCEPT ![p] = NoCall] /\ program' = program
      /\ DOMAIN answer = Proc /\ DOMAIN call = Proc
  BY DEF Answer, TypeInv, ProcTypes
<1>2. a.call = c /\ a.res = res /\ a.val = val OBVIOUS
<1> HIDE DEF a
<1>3. answer'[p] = a /\ call'[p] = NoCall BY <1>1
<1>4. \A q \in Proc \ {p} : answer'[q] = answer[q] /\ call'[q] = call[q] BY <1>1
<1>5. AnsweredOf(p)'
  <2>1. answer'[p].call = c /\ answer'[p].res = res /\ answer'[p].val = val BY <1>2, <1>3
  <2>2. c \in Call /\ (c.op \in Reads \ {"binline"} /\ answer'[p].res = "ok" => AnsweredWhole(p, c, val)') BY <2>1
  <2> QED BY <2>1, <2>2 DEF AnsweredOf
<1> QED BY <1>1, <1>3, <1>4, <1>5

LEMMA CallOfProgram ==
  ASSUME WaitInv, CallRight, NEW p \in Proc, NEW c \in Turn(p), c.op # "connect"
  PROVE  c \in ToSet(program[p]) /\ c.f \in Used
<1>1. made[p] + 1 \in DOMAIN program[p] /\ c = Next1(p) BY TurnNext
<1>2. c \in ToSet(program[p]) BY <1>1 DEF ToSet, Next1
<1>3. c \in UNION {ToSet(program[q]) : q \in Proc} BY <1>2
<1> QED BY <1>2, <1>3 DEF Used

-----------------------------------------------------------------------------
(***************************************************************************)
(* Reads of text.                                                          *)
(***************************************************************************)
LEMMA BegunWhole ==
  ASSUME WaitInv, KeptRight, WholeInv, NEW p \in Proc, NEW c \in Turn(p), c.op \in TextReads
  PROVE  /\ Begun(p) \in Seq(Places) /\ Len(Begun(p)) \in Nat /\ Ordered(c.f, taken[c.f], Begun(p))
         /\ SoleReader(p, c.f) => Piece(c.f, taken[c.f] - Len(Begun(p)), Begun(p))
         /\ c.op \in {"inchars", "inbytes"} => Len(Begun(p)) <= c.n
         /\ c.op = "inline" => \A x \in ToSet(Begun(p)) : Code(x) # NEW_LINE
<1>1. TypeInv BY DEF WaitInv
<1>2. Begun(p) \in Seq(Places) /\ Holds(p) = Begun(p) /\ Holds(p) = Part(client[p]) BY <1>1, TextBegun, HoldsPart
<1>3. Len(Begun(p)) \in Nat BY <1>2, LenProperties
<1>4. CASE client[p] = NoClient
  <2>1. c \in Call BY <1>1, TurnRight
  <2>2. c.n \in Nat BY <2>1 DEF Call
  <2>3. PICK b : b = Begun(p) OBVIOUS
  <2>4. b = << >> BY <1>4, <2>3 DEF Begun
  <2>5. b \in Seq(Places) /\ Len(b) = 0 /\ ToSet(b) = {} BY <2>4, EmptySeq, EmptySet
  <2>6. Ordered(c.f, taken[c.f], b) BY <2>5 DEF Ordered
  <2>7. Piece(c.f, taken[c.f] - Len(b), b) BY <2>5 DEF Piece
  <2>8. Len(b) <= c.n BY <2>2, <2>5
  <2>9. \A x \in ToSet(b) : Code(x) # NEW_LINE BY <2>5
  <2> QED BY <1>2, <1>3, <2>3, <2>6, <2>7, <2>8, <2>9
<1>5. CASE client[p] # NoClient
  <2>1. client[p][1] \in Kinds(c.op) /\ (call[p] # NoCall => c = call[p]) BY <1>1, <1>5, TurnRight
  <2>2. client[p][1] = "text" BY <2>1 DEF Kinds, TextReads
  <2>3. call[p] # NoCall BY <2>2 DEF KeptRight
  <2>4. HeldRight(p, c, client[p]) BY <2>1, <2>2, <2>3 DEF WholeInv, HeldOf
  <2> QED BY <1>2, <1>3, <2>4 DEF HeldRight
<1> QED BY <1>4, <1>5

LEMMA CollectWhole ==
  ASSUME WaitInv, KeptRight, CallRight, WholeInv, NEW p \in Proc, NEW c \in Turn(p), c.op \in TextReads,
         NEW used, Piece(c.f, taken[c.f], used), NEW part, Piece(c.f, taken[c.f], part), Len(part) <= Len(used),
         NEW got, got = Begun(p) \o part, NEW res, Collect(p, c, used, got, res),
         res = "wait" => Len(part) = Len(used),
         c.op \in {"inchars", "inbytes"} => Len(got) <= c.n /\ (res = "ok" => Len(got) = c.n \/ Ended(c.f)),
         c.op = "inline" =>
           /\ \A x \in ToSet(part) : Code(x) # NEW_LINE
           /\ res = "ok" => Ended(c.f) \/ (Len(part) < Len(used) /\ Code(used[Len(part) + 1]) = NEW_LINE)
  PROVE  WholeInv'
<1>1. TypeInv BY DEF WaitInv
<1>2. c \in Call /\ c.f \in File /\ taken[c.f] \in Nat BY <1>1, TextThere
<1>3. c.op \in Reads /\ c.op \notin {"decode", "connect"} BY DEF Reads, TextReads
<1>4. c \in ToSet(program[p]) BY <1>3, CallOfProgram
<1> DEFINE n == taken[c.f]
           i == n - Len(Begun(p))
<1>5. /\ Begun(p) \in Seq(Places) /\ Len(Begun(p)) \in Nat /\ Ordered(c.f, n, Begun(p))
      /\ SoleReader(p, c.f) => Piece(c.f, i, Begun(p))
      /\ c.op = "inline" => \A x \in ToSet(Begun(p)) : Code(x) # NEW_LINE
  BY BegunWhole
<1>6. /\ used \in Seq(Places) /\ part \in Seq(Places) /\ Len(used) \in Nat /\ Len(part) \in Nat
  BY LenProperties DEF Piece
<1>7. got \in Seq(Places) /\ ToSet(got) = ToSet(Begun(p)) \cup ToSet(part) BY <1>5, <1>6, SetOfConcat
<1>8. Taken(c.f, used) BY DEF Collect, ReadEnds
<1>9. n \in Nat /\ i \in Int /\ i + Len(Begun(p)) = n BY <1>2, <1>5
<1> HIDE DEF i
<1>10. SoleReader(p, c.f) => Piece(c.f, i, got) /\ i + Len(got) = n + Len(part)
  <2> HIDE DEF n
  <2> SUFFICES ASSUME SoleReader(p, c.f) PROVE Piece(c.f, i, got) /\ i + Len(got) = n + Len(part) OBVIOUS
  <2>1. Piece(c.f, i, Begun(p)) BY <1>5
  <2>2. Piece(c.f, n, part) BY DEF n
  <2> QED BY <1>2, <1>9, <2>1, <2>2, BehindGrows
<1>11. c.op = "inline" => \A x \in ToSet(got) : Code(x) # NEW_LINE BY <1>5, <1>7
<1>12. Ordered(c.f, n + Len(part), got)
  <2>1. n + Len(part) \in Nat /\ n + Len(part) <= n + Len(part) BY <1>6, <1>9
  <2>2. Ordered(c.f, n, Begun(p)) /\ Piece(c.f, n, part) BY <1>5
  <2> HIDE DEF n
  <2> QED BY <1>2, <1>9, <2>1, <2>2, OrderedGrows
<1>13. CASE res = "wait"
  <2> DEFINE cl == <<"text", got>>
  <2>1. /\ Suspend(p, c, Detach(attachments, c.f, p), "input") /\ ClientOf(p, cl)
        /\ UNCHANGED <<arrived, dropped>>
    BY <1>13 DEF Collect, Kept
  <2>2. cl \in Clients /\ cl[1] = "text" /\ Part(cl) = got BY <1>7 DEF Clients, Part
  <2> HIDE DEF cl
  <2>3. client'[p] = cl /\ \A q \in Proc \ {p} : client'[q] = client[q] BY <1>1, <2>1, <2>2, ClientType
  <2>4. /\ call' = [call EXCEPT ![p] = c] /\ program' = program /\ answer' = answer
        /\ DOMAIN call = Proc
    BY <1>1, <2>1 DEF Suspend, TypeInv, ProcTypes
  <2>5. call'[p] = c /\ \A q \in Proc \ {p} : call'[q] = call[q] BY <2>4
  <2>6. taken'[c.f] = n + Len(part)
    <3>1. taken' = [taken EXCEPT ![c.f] = @ + Len(used)] /\ taken \in [File -> Nat] BY <1>1, <1>8 DEF Taken, TypeInv
    <3> QED BY <1>2, <1>13, <3>1
  <2>7. HeldRight(p, c, cl)'
    <3>1. SoleReader(p, c.f)' <=> SoleReader(p, c.f) BY <2>4 DEF SoleReader
    <3>2. Ordered(c.f, taken'[c.f], Part(cl)) BY <1>12, <2>2, <2>6
    <3>3. SoleReader(p, c.f)' => Piece(c.f, taken'[c.f] - Len(Part(cl)), Part(cl))
      <4>1. Len(got) \in Nat BY <1>7, LenProperties
      <4>2. SoleReader(p, c.f) => taken'[c.f] - Len(got) = i BY <1>9, <1>10, <2>6, <4>1
      <4> QED BY <1>10, <2>2, <3>1, <4>2
    <3>4. c.op \in {"inchars", "inbytes"} => Len(Part(cl)) <= c.n BY <2>2
    <3>5. c.op = "inline" => \A x \in ToSet(Part(cl)) : Code(x) # NEW_LINE BY <1>11, <2>2
    <3>6. cl[1] # "dec" BY <2>2
    <3> QED BY <3>2, <3>3, <3>4, <3>5, <3>6 DEF HeldRight
  <2>8. HeldOf(p)' BY <2>3, <2>5, <2>7 DEF HeldOf
  <2>9. AnsweredOf(p)'
    <3>1. AnsweredOf(p) /\ answer'[p] = answer[p] /\ dropped \subseteq dropped' BY <2>1, <2>4 DEF WholeInv
    <3>2. \A f \in File : Ended(f) => Ended(f)' BY <2>1 DEF Ended, End
    <3> QED BY <2>4, <3>1, <3>2, AnswerStays
  <2>10. UNCHANGED <<program, arrived>> /\ dropped \subseteq dropped' BY <2>1, <2>4
  <2>11. \A q \in Proc \ {p} : client'[q] = client[q] /\ call'[q] = call[q] /\ answer'[q] = answer[q]
    BY <2>3, <2>4, <2>5
  <2> QED BY <1>2, <1>3, <1>4, <1>8, <2>8, <2>9, <2>10, <2>11, ReadWhole
<1>14. CASE res # "wait"
  <2> DEFINE val == IF res = "ok" THEN got ELSE << >>
  <2>1. ReadEnds(p, c, used, res, val) /\ ClientOf(p, NoClient) BY <1>14 DEF Collect
  <2>2. res = "ok" => val = got OBVIOUS
  <2> HIDE DEF val
  <2>3. /\ Answer(p, c, res, val) /\ UNCHANGED arrived
        /\ dropped' = dropped \cup (ToSet(used \o Holds(p)) \ ToSet(val))
    BY <2>1 DEF ReadEnds, Given
  <2>4. NoClient \in Clients /\ NoClient[1] = "none" BY DEF Clients, NoClient
  <2>5. client'[p] = NoClient /\ \A q \in Proc \ {p} : client'[q] = client[q] BY <1>1, <2>1, <2>4, ClientType
  <2>6. HeldOf(p)' BY <2>4, <2>5 DEF HeldOf
  <2>7. UNCHANGED program BY <2>3 DEF Answer
  <2>8. \A f \in File : Ended(f) <=> Ended(f)' BY <2>3 DEF Ended, End
  <2>9. ASSUME res = "ok" PROVE AnsweredWhole(p, c, val)'
    <3>1. val = got /\ Ordered(c.f, n + Len(part), val) BY <1>12, <2>2, <2>9
    <3>2. SoleReader(p, c.f) => \E j \in Int : Piece(c.f, j, val) BY <1>9, <1>10, <3>1
    <3>3. c.op \in {"inchars", "inbytes"} => Len(val) = c.n \/ Ended(c.f)' BY <1>2, <2>8, <2>9, <3>1
    <3>4. ASSUME c.op = "inline", ~Ended(c.f)
          PROVE  \E x \in dropped' : Code(x) = NEW_LINE /\ \A y \in ToSet(val) : x[1] = c.f /\ x[2] > y[2]
      <4>1. Len(part) + 1 \in 1..Len(used) /\ Code(used[Len(part) + 1]) = NEW_LINE BY <1>6, <2>9, <3>4
      <4> DEFINE x == used[Len(part) + 1]
      <4>2. x = <<c.f, n + (Len(part) + 1)>> BY <4>1 DEF Piece
      <4>3. Code(x) = NEW_LINE BY <4>1
      <4>4. x \in ToSet(used) BY <1>6, <4>1, SetOfSeq
      <4> HIDE DEF x
      <4>5. x[1] = c.f /\ x[2] = n + (Len(part) + 1) BY <4>2
      <4>6. ASSUME NEW y \in ToSet(val) PROVE x[2] > y[2]
        <5>1. PICK k \in 1..Len(val) : y = val[k] BY <1>7, <3>1, <4>6, SetOfSeq
        <5>2. y[2] \in Nat /\ y[2] <= n + Len(part) BY <3>1, <5>1 DEF Ordered
        <5> QED BY <1>6, <1>9, <4>5, <5>2
      <4>7. x \notin ToSet(val)
        <5> SUFFICES ASSUME x \in ToSet(val) PROVE FALSE OBVIOUS
        <5>1. x[2] > x[2] BY <4>6
        <5> QED BY <1>6, <1>9, <4>5, <5>1
      <4>8. x \in ToSet(used \o Holds(p))
        <5>1. Holds(p) \in Seq(Places) BY <1>1, HoldsPart
        <5> QED BY <1>6, <4>4, <5>1, SetOfConcat
      <4>9. x \in dropped' BY <2>3, <4>7, <4>8
      <4> QED BY <4>3, <4>5, <4>6, <4>9
    <3>5. c.op = "inline" =>
            /\ \A x \in ToSet(val) : Code(x) # NEW_LINE
            /\ Ended(c.f)' \/ \E x \in dropped' : Code(x) = NEW_LINE /\ \A y \in ToSet(val) : x[1] = c.f /\ x[2] > y[2]
      BY <1>2, <1>11, <2>8, <3>1, <3>4
    <3> QED BY <1>3, <2>7, <3>1, <3>2, <3>3, <3>5, WholeNext
  <2>10. AnsweredOf(p)' /\ \A q \in Proc \ {p} : answer'[q] = answer[q] /\ call'[q] = call[q]
    BY <1>1, <1>2, <2>3, <2>9, AnswerNext
  <2>11. UNCHANGED <<program, arrived>> /\ dropped \subseteq dropped' BY <2>3, <2>7
  <2> QED BY <1>2, <1>3, <1>4, <1>8, <2>5, <2>6, <2>10, <2>11, ReadWhole
<1> QED BY <1>13, <1>14

-----------------------------------------------------------------------------
\* All of a run pass the test, and what is behind it does not.
LEMMA RunPasses ==
  ASSUME NEW f \in File, NEW n \in Nat, NEW s, Piece(f, n, s), NEW S
  PROVE  /\ \A x \in ToSet(Run(s, S)) : Code(x) \in S
         /\ Len(Run(s, S)) < Len(s) => Code(s[Len(Run(s, S)) + 1]) \notin S
<1> DEFINE I == {i \in 1..Len(s) : Code(s[i]) \notin S}
           k == IF I # {} THEN Min(I) ELSE 0
           r == Run(s, S)
<1>1. SelectInSeq(s, LAMBDA x : Code(x) \notin S) = k BY DEF SelectInSeq
<1>2. s \in Seq(Places) /\ Len(s) \in Nat BY LenProperties DEF Piece
<1>3. r = IF k = 0 THEN s ELSE SubSeq(s, 1, k - 1) BY <1>1 DEF Run
<1> HIDE DEF r
<1>4. CASE I = {}
  <2>1. r = s BY <1>3, <1>4
  <2>2. ToSet(s) = {s[i] : i \in 1..Len(s)} BY <1>2, SetOfSeq
  <2>3. \A x \in ToSet(s) : Code(x) \in S BY <1>4, <2>2
  <2>4. ~(Len(s) < Len(s)) BY <1>2
  <2> QED BY <2>1, <2>3, <2>4 DEF r
<1>5. CASE I # {}
  <2>1. I \subseteq Nat BY <1>2
  <2>2. k \in I /\ \A y \in I : k <= y BY <1>5, <2>1, FirstOf
  <2>3. k \in 1..Len(s) /\ Code(s[k]) \notin S BY <2>2
  <2>4. \A i \in 1..Len(s) : i < k => Code(s[i]) \in S
    <3>1. ASSUME NEW i \in 1..Len(s), i < k, Code(s[i]) \notin S PROVE FALSE
      <4>1. i \in I BY <3>1
      <4>2. k <= i BY <2>2, <4>1
      <4> HIDE DEF k
      <4> QED BY <2>3, <3>1, <4>2
    <3> QED BY <3>1
  <2> HIDE DEF k, I
  <2>5. 1 \in 1..Len(s) + 1 /\ k - 1 \in Int /\ k - 1 <= Len(s) /\ r = SubSeq(s, 1, k - 1) BY <1>2, <1>3, <2>3
  <2>6. /\ r \in Seq(Places) /\ Len(r) = IF 1 <= k - 1 THEN k - 1 - 1 + 1 ELSE 0
        /\ \A i \in 1..Len(r) : r[i] = s[1 + i - 1] /\ 1 + i - 1 \in 1..Len(s)
    BY <1>2, <2>5, PartOf
  <2>7. Len(r) = k - 1 BY <2>3, <2>6
  <2>8. ToSet(r) = {r[i] : i \in 1..Len(r)} BY <2>6, SetOfSeq
  <2>9. ASSUME NEW x \in ToSet(r) PROVE Code(x) \in S
    <3>1. PICK i \in 1..Len(r) : x = r[i] BY <2>8, <2>9
    <3>2. x = s[i] /\ i \in 1..Len(s) /\ i < k
      <4>1. 1 + i - 1 = i BY <2>3, <2>7
      <4> QED BY <2>3, <2>6, <2>7, <3>1, <4>1
    <3> QED BY <2>4, <3>2
  <2>10. Len(r) + 1 = k BY <2>3, <2>7
  <2> QED BY <2>3, <2>9, <2>10 DEF r
<1> QED BY <1>4, <1>5

\* What a read that is at the end answers with "ok", ends the file.
LEMMA AtEndRight ==
  ASSUME NEW f \in File, NEW got
  PROVE  AtEnd(f, got) = "ok" => Ended(f)
<1>1. End(f) = "wait" => AtEnd(f, got) = "wait" BY DEF AtEnd
<1> QED BY <1>1 DEF Ended

LEMMA InbytesWhole ==
  ASSUME WaitInv, CareInv, WholeInv, NEW p \in Proc, NEW c \in Turn(p), Accepted(c), Inbytes(p, c)
  PROVE  WholeInv'
<1> DEFINE m == c.n - Len(Begun(p))
           want == IF m < 0 THEN 0 ELSE m
           used == Start(Avail(c.f), want)
           got == Begun(p) \o used
           res == IF Len(got) >= c.n THEN "ok" ELSE AtEnd(c.f, got)
<1>1. c.op \in TextReads /\ c.op \in {"inchars", "inbytes"} /\ Collect(p, c, used, got, res) BY DEF Inbytes, TextReads
<1>2. TypeInv /\ KeptRight /\ CallRight BY DEF WaitInv, CareInv
<1>3. /\ c \in Call /\ c.f \in File /\ taken[c.f] \in Nat /\ c.n \in Int /\ Piece(c.f, taken[c.f], Avail(c.f))
      /\ Len(Avail(c.f)) \in Nat
  BY <1>2, TextThere
<1>4. Begun(p) \in Seq(Places) /\ Len(Begun(p)) \in Nat /\ Len(Begun(p)) <= c.n BY <1>1, <1>2, BegunWhole
<1>5. want \in Int /\ want = c.n - Len(Begun(p)) /\ ~(want < 0) BY <1>3, <1>4
<1> HIDE DEF want
<1>6. Piece(c.f, taken[c.f], used) /\ Len(used) = IF want < Len(Avail(c.f)) THEN want ELSE Len(Avail(c.f))
  BY <1>3, <1>5, PieceStart
<1>7. used \in Seq(Places) /\ Len(used) \in Nat BY <1>6, LenProperties DEF Piece
<1> HIDE DEF used
<1>8. Len(got) = Len(Begun(p)) + Len(used) BY <1>4, <1>7, ConcatProperties
<1>9. got = Begun(p) \o used OBVIOUS
<1> HIDE DEF got
<1>10. Len(got) <= c.n BY <1>3, <1>4, <1>5, <1>6, <1>7, <1>8
<1>11. AtEnd(c.f, got) = "ok" => Ended(c.f) BY <1>3, AtEndRight
<1>12. Len(got) >= c.n => Len(got) = c.n BY <1>3, <1>4, <1>7, <1>8, <1>10
<1>13. res = "ok" => Len(got) = c.n \/ Ended(c.f) BY <1>11, <1>12
<1>14. Len(used) <= Len(used) /\ c.op # "inline" BY <1>1, <1>7
<1> HIDE DEF res
<1> QED BY <1>1, <1>2, <1>6, <1>9, <1>10, <1>13, <1>14, CollectWhole

LEMMA InlineWhole ==
  ASSUME WaitInv, CareInv, WholeInv, NEW p \in Proc, NEW c \in Turn(p), Inline(p, c)
  PROVE  WholeInv'
<1> DEFINE a == Avail(c.f)
           line == Run(a, Nat \ {NEW_LINE})
           used == Start(a, Len(line) + 1)
           whole == Len(line) < Len(a)
           got == Begun(p) \o line
           res == IF whole THEN "ok" ELSE AtEnd(c.f, got)
<1>1. c.op \in TextReads /\ c.op = "inline" /\ Collect(p, c, used, got, res) BY DEF Inline, TextReads
<1>2. TypeInv /\ KeptRight /\ CallRight BY DEF WaitInv, CareInv
<1>3. /\ c \in Call /\ c.f \in File /\ taken[c.f] \in Nat /\ Piece(c.f, taken[c.f], a) /\ Len(a) \in Nat
  BY <1>2, TextThere
<1>4. \A i \in 1..Len(a) : Code(a[i]) \in Nat BY <1>2, <1>3, AvailPiece
<1> HIDE DEF a
<1>5. Piece(c.f, taken[c.f], line) /\ Len(line) \in 0..Len(a) BY <1>3, PieceRun
<1>6. /\ \A x \in ToSet(line) : Code(x) \in Nat \ {NEW_LINE}
      /\ whole => Code(a[Len(line) + 1]) \notin Nat \ {NEW_LINE}
  BY <1>3, RunPasses
<1> HIDE DEF line
<1>7. Len(line) + 1 \in Int /\ ~(Len(line) + 1 < 0) BY <1>3, <1>5
<1>8. Piece(c.f, taken[c.f], used) /\ Len(used) = IF Len(line) + 1 < Len(a) THEN Len(line) + 1 ELSE Len(a)
  BY <1>3, <1>7, PieceStart
<1> HIDE DEF used
<1>9. Len(line) <= Len(used) /\ (~whole => Len(line) = Len(used)) /\ (whole => Len(used) = Len(line) + 1)
  BY <1>3, <1>5, <1>8
<1>10. whole => Len(line) < Len(used) /\ Code(used[Len(line) + 1]) = NEW_LINE
  <2> SUFFICES ASSUME whole PROVE Len(line) < Len(used) /\ Code(used[Len(line) + 1]) = NEW_LINE OBVIOUS
  <2>1. Len(line) + 1 \in 1..Len(a) /\ Len(line) + 1 \in 1..Len(used) BY <1>3, <1>5, <1>9
  <2>2. used[Len(line) + 1] = a[Len(line) + 1] BY <1>3, <1>8, <2>1 DEF Piece
  <2>3. Code(a[Len(line) + 1]) = NEW_LINE BY <1>4, <1>6, <2>1
  <2> QED BY <1>5, <1>9, <2>2, <2>3
<1> HIDE DEF whole
<1>11. \A x \in ToSet(line) : Code(x) # NEW_LINE BY <1>6
<1>12. got = Begun(p) \o line /\ (res = "wait" => ~whole) OBVIOUS
<1>13. AtEnd(c.f, got) = "ok" => Ended(c.f) BY <1>3, AtEndRight
<1>14. res = "ok" => Ended(c.f) \/ (Len(line) < Len(used) /\ Code(used[Len(line) + 1]) = NEW_LINE) BY <1>10, <1>13
<1> HIDE DEF got, res
<1>15. c.op \notin {"inchars", "inbytes"} BY <1>1
<1> QED BY <1>1, <1>2, <1>5, <1>8, <1>9, <1>11, <1>12, <1>14, <1>15, CollectWhole

LEMMA IntextWhole ==
  ASSUME WaitInv, CareInv, WholeInv, NEW p \in Proc, NEW c \in Turn(p), Intext(p, c)
  PROVE  WholeInv'
<1> DEFINE used == Avail(c.f)
           got == Begun(p) \o used
           res == IF ~InReady(c.f) THEN "wait" ELSE IF End(c.f) = "wait" THEN "ok" ELSE AtEnd(c.f, got)
<1>1. c.op \in TextReads /\ c.op = "intext" /\ Collect(p, c, used, got, res) BY DEF Intext, TextReads
<1>2. TypeInv /\ KeptRight /\ CallRight BY DEF WaitInv, CareInv
<1>3. Piece(c.f, taken[c.f], used) /\ Len(used) \in Nat BY <1>2, TextThere
<1> HIDE DEF used
<1>4. got = Begun(p) \o used OBVIOUS
<1> HIDE DEF got, res
<1>5. Len(used) <= Len(used) /\ c.op \notin {"inchars", "inbytes"} /\ c.op # "inline" BY <1>1, <1>3
<1> QED BY <1>1, <1>2, <1>3, <1>4, <1>5, CollectWhole

-----------------------------------------------------------------------------
(***************************************************************************)
(* Reads that keep nothing.                                                *)
(***************************************************************************)
LEMMA ReadEndsWhole ==
  ASSUME WaitInv, CareInv, WholeInv, NEW p \in Proc, NEW c \in Turn(p), c.op \in Reads,
         NEW used, Piece(c.f, taken[c.f], used), NEW res, NEW val, ReadEnds(p, c, used, res, val),
         client'[p][1] \notin {"text", "dec"}, \A q \in Proc \ {p} : client'[q] = client[q],
         res = "ok" /\ c.op \in Reads \ {"binline"} => AnsweredWhole(p, c, val)'
  PROVE  WholeInv'
<1>1. TypeInv /\ KeptRight /\ CallRight BY DEF WaitInv, CareInv
<1>2. c \in Call BY <1>1, TextThere
<1>3. c.op # "connect" BY DEF Reads, TextReads
<1>4. c \in ToSet(program[p]) BY <1>1, <1>3, CallOfProgram
<1>5. /\ Answer(p, c, res, val) /\ UNCHANGED <<program, arrived>> /\ dropped \subseteq dropped' /\ Taken(c.f, used)
  BY DEF ReadEnds, Given, Answer
<1>6. HeldOf(p)' BY DEF HeldOf
<1>7. AnsweredOf(p)' /\ \A q \in Proc \ {p} : answer'[q] = answer[q] /\ call'[q] = call[q]
  BY <1>1, <1>2, <1>5, AnswerNext
<1> QED BY <1>1, <1>2, <1>4, <1>5, <1>6, <1>7, ReadWhole

LEMMA EndsWhole ==
  ASSUME WaitInv, CareInv, WholeInv, NEW p \in Proc, NEW c \in Turn(p), c.op \in Reads \ (TextReads \cup {"decode"}),
         NEW used, Piece(c.f, taken[c.f], used), NEW res, NEW val, ReadEnds(p, c, used, res, val), UNCHANGED client,
         res = "ok" => c.op = "binline" \/ \E n \in Nat : Piece(c.f, n, val)
  PROVE  WholeInv'
<1>1. TypeInv /\ KeptRight /\ CallRight BY DEF WaitInv, CareInv
<1>2. c \in Call /\ c.f \in File BY <1>1, TextThere
<1>3. c.op # "decode" /\ c.op \notin {"inchars", "inbytes", "inline"} BY DEF TextReads
<1>4. UNCHANGED program BY DEF ReadEnds, Answer
<1>5. client'[p][1] \notin {"text", "dec"} /\ \A q \in Proc \ {p} : client'[q] = client[q] BY <1>1, KeptOf
<1>6. ASSUME res = "ok", c.op \in Reads \ {"binline"} PROVE AnsweredWhole(p, c, val)'
  <2>1. PICK n \in Nat : Piece(c.f, n, val) BY <1>6
  <2>2. Len(val) \in Nat BY <2>1, LenProperties DEF Piece
  <2>3. n + Len(val) \in Nat /\ n + Len(val) <= n + Len(val) BY <2>2
  <2>4. Ordered(c.f, n + Len(val), val) BY <1>2, <2>1, <2>3, PieceOrdered
  <2>5. SoleReader(p, c.f) => \E i \in Int : Piece(c.f, i, val)
    <3>1. n \in Int OBVIOUS
    <3> QED BY <2>1, <3>1
  <2> QED BY <1>3, <1>4, <2>4, <2>5, WholeNext
<1> QED BY <1>5, <1>6, ReadEndsWhole

\* A read that is to be tried again.
LEMMA SuspendWhole ==
  ASSUME WaitInv, CareInv, WholeInv, NEW p \in Proc, NEW c \in Turn(p), c.op \in Reads,
         NEW as, NEW mode, Suspend(p, c, as, mode), NEW used, Piece(c.f, taken[c.f], used), Taken(c.f, used),
         UNCHANGED arrived, dropped \subseteq dropped', \A q \in Proc \ {p} : client'[q] = client[q], HeldOf(p)'
  PROVE  WholeInv'
<1>1. TypeInv /\ KeptRight /\ CallRight BY DEF WaitInv, CareInv
<1>2. c \in Call BY <1>1, TextThere
<1>3. c.op # "connect" BY DEF Reads, TextReads
<1>4. c \in ToSet(program[p]) BY <1>1, <1>3, CallOfProgram
<1>5. call' = [call EXCEPT ![p] = c] /\ program' = program /\ answer' = answer /\ DOMAIN call = Proc
  BY <1>1 DEF Suspend, TypeInv, ProcTypes
<1>6. \A q \in Proc \ {p} : call'[q] = call[q] /\ answer'[q] = answer[q] BY <1>5
<1>7. AnsweredOf(p)'
  <2>1. AnsweredOf(p) /\ answer'[p] = answer[p] /\ UNCHANGED program BY <1>5 DEF WholeInv
  <2>2. \A f \in File : Ended(f) => Ended(f)' BY DEF Ended, End
  <2> QED BY <2>1, <2>2, AnswerStays
<1>8. UNCHANGED <<program, arrived>> BY <1>5
<1> QED BY <1>1, <1>2, <1>4, <1>6, <1>7, <1>8, ReadWhole

\* An escape that is to be tried again, and read nothing.
LEMMA SuspendQuiet ==
  ASSUME WaitInv, CareInv, WholeInv, NEW p \in Proc, NEW c, c \in Turn(p) \/ client[p][1] \notin {"text", "dec"},
         NEW as, NEW mode, Suspend(p, c, as, mode),
         UNCHANGED <<taken, arrived>>, dropped \subseteq dropped', \A q \in Proc \ {p} : client'[q] = client[q],
         client'[p][1] \in {"text", "dec"} => client'[p] = client[p]
  PROVE  WholeInv'
<1>1. TypeInv /\ KeptRight BY DEF WaitInv, CareInv
<1>2. call' = [call EXCEPT ![p] = c] /\ program' = program /\ answer' = answer /\ DOMAIN call = Proc
  BY <1>1 DEF Suspend, TypeInv, ProcTypes
<1>3. call'[p] = c /\ \A q \in Proc \ {p} : call'[q] = call[q] BY <1>2
<1>4. client'[p][1] \in {"text", "dec"} => call'[p] = call[p]
  <2> SUFFICES ASSUME client'[p][1] \in {"text", "dec"} PROVE c = call[p] BY <1>3
  <2>1. client[p][1] \in {"text", "dec"} OBVIOUS
  <2>2. c \in Turn(p) /\ call[p] # NoCall BY <1>1, <2>1 DEF KeptRight
  <2> QED BY <1>1, <2>2, TurnRight
<1>5. \A q \in Proc : client'[q][1] \in {"text", "dec"} => client'[q] = client[q] /\ call'[q] = call[q] BY <1>3, <1>4
<1>6. \A q \in Proc : answer'[q] = answer[q] /\ UNCHANGED <<program, taken, arrived>> BY <1>2
<1> QED BY <1>1, <1>2, <1>5, <1>6, QuietWhole

\* An escape that is answered, and read nothing.
LEMMA AnswerQuiet ==
  ASSUME WaitInv, CareInv, WholeInv, NEW p \in Proc, NEW c \in Call, NEW res, NEW val, Answer(p, c, res, val),
         UNCHANGED <<taken, arrived>>, dropped \subseteq dropped', \A q \in Proc \ {p} : client'[q] = client[q],
         client'[p][1] \notin {"text", "dec"}, c.op \notin Reads \ {"binline"} \/ res # "ok"
  PROVE  WholeInv'
<1>1. TypeInv /\ KeptRight BY DEF WaitInv, CareInv
<1> DEFINE a == [call |-> c, res |-> res, val |-> val]
<1>2. /\ answer' = [answer EXCEPT ![p] = a] /\ call' = [call EXCEPT ![p] = NoCall] /\ program' = program
      /\ DOMAIN answer = Proc /\ DOMAIN call = Proc
  BY <1>1 DEF Answer, TypeInv, ProcTypes
<1>3. a.call = c /\ a.res = res OBVIOUS
<1> HIDE DEF a
<1>4. answer'[p] = a /\ \A q \in Proc \ {p} : answer'[q] = answer[q] /\ call'[q] = call[q] BY <1>2
<1>5. \A q \in Proc : client'[q][1] \in {"text", "dec"} => client'[q] = client[q] /\ call'[q] = call[q] BY <1>4
<1>6. \A q \in Proc : \/ answer'[q] = answer[q]
                      \/ /\ answer'[q].call \in Call
                         /\ answer'[q].call.op \notin Reads \ {"binline"} \/ answer'[q].res # "ok"
  BY <1>3, <1>4
<1>7. UNCHANGED <<program, taken, arrived>> BY <1>2
<1> QED BY <1>1, <1>5, <1>6, <1>7, QuietWhole

LEMMA NotReadyWhole ==
  ASSUME WaitInv, CareInv, WholeInv, NEW p \in Proc, NEW c \in Turn(p), NEW as, Suspend(p, c, as, "input"),
         UNCHANGED <<client, inVars>>
  PROVE  WholeInv'
<1>1. UNCHANGED <<taken, arrived>> /\ dropped \subseteq dropped' BY DEF inVars
<1> QED BY <1>1, SuspendQuiet

LEMMA IncharWhole ==
  ASSUME WaitInv, CareInv, WholeInv, NEW p \in Proc, NEW c \in Turn(p), Inchar(p, c) PROVE WholeInv'
<1>1. TypeInv BY DEF WaitInv
<1>2. c \in Call /\ taken[c.f] \in Nat /\ c.f \in File /\ Piece(c.f, taken[c.f], Avail(c.f)) BY <1>1, TextThere
<1>3. CASE ~InReady(c.f)
  <2>1. Suspend(p, c, Detach(attachments, c.f, p), "input") /\ UNCHANGED <<client, inVars>> BY <1>3 DEF Inchar
  <2> QED BY <2>1, NotReadyWhole
<1>4. CASE InReady(c.f)
  <2> DEFINE ch == Start(Avail(c.f), 1)
             res == IF ch = << >> THEN "eeof" ELSE "ok"
  <2>1. ReadEnds(p, c, ch, res, ch) /\ UNCHANGED client BY <1>4 DEF Inchar
  <2>2. Piece(c.f, taken[c.f], ch) BY <1>2, PieceStart
  <2>3. c.op \in Reads \ (TextReads \cup {"decode"}) BY DEF Inchar, TextReads, Reads
  <2> HIDE DEF ch, res
  <2> QED BY <1>2, <2>1, <2>2, <2>3, EndsWhole
<1> QED BY <1>3, <1>4

LEMMA EofWhole ==
  ASSUME WaitInv, CareInv, WholeInv, NEW p \in Proc, NEW c \in Turn(p), Eof(p, c) PROVE WholeInv'
<1>1. TypeInv /\ KeptRight BY DEF WaitInv, CareInv
<1>2. c \in Call /\ c.f \in File BY <1>1, TextThere
<1>3. c.op = "eof" BY DEF Eof
<1>4. c.op \notin Reads /\ c.op \notin TextReads \cup {"decode"} BY <1>3 DEF Reads, TextReads
<1>5. CASE ~InReady(c.f) /\ NotReady(p, c) BY <1>5, NotReadyWhole DEF NotReady
<1>6. CASE ~(~InReady(c.f) /\ NotReady(p, c))
  <2>1. (\E res : ReadEnds(p, c, << >>, res, << >>)) /\ UNCHANGED client BY <1>6 DEF Eof
  <2>2. PICK res : ReadEnds(p, c, << >>, res, << >>) BY <2>1
  <2>3. Answer(p, c, res, << >>) /\ Taken(c.f, << >>) /\ UNCHANGED arrived /\ dropped \subseteq dropped'
    BY <2>2 DEF ReadEnds, Given
  <2>4. taken' = taken
    <3>1. taken' = [taken EXCEPT ![c.f] = @ + 0] /\ taken \in [File -> Nat] BY <1>1, <2>3, EmptySet DEF Taken, TypeInv
    <3> QED BY <1>2, <3>1
  <2>5. client'[p][1] \notin {"text", "dec"} /\ \A q \in Proc \ {p} : client'[q] = client[q] BY <1>1, <1>4, <2>1, KeptOf
  <2> QED BY <1>2, <1>4, <2>3, <2>4, <2>5, AnswerQuiet
<1> QED BY <1>5, <1>6

LEMMA BinlineWhole ==
  ASSUME WaitInv, CareInv, WholeInv, NEW p \in Proc, NEW c \in Turn(p), Binline(p, c) PROVE WholeInv'
<1>1. TypeInv BY DEF WaitInv
<1>2. /\ c \in Call /\ taken[c.f] \in Nat /\ c.f \in File /\ Piece(c.f, taken[c.f], Avail(c.f))
      /\ Avail(c.f) \in Seq(Places) /\ Len(Avail(c.f)) \in Nat
  BY <1>1, TextThere
<1>3. CASE ~InReady(c.f) /\ NotReady(p, c) BY <1>3, NotReadyWhole DEF NotReady
<1>4. CASE ~(~InReady(c.f) /\ NotReady(p, c))
  <2> DEFINE a == Avail(c.f)
             bal == BalRead(c.f, a)
             used == Start(a, bal.n)
             res == IF bal.res = "eof" THEN IF bal.out = << >> THEN "eeof" ELSE "ok" ELSE bal.res
             val == IF res = "ok" THEN bal.out ELSE << >>
  <2>1. ReadEnds(p, c, used, res, val) /\ UNCHANGED client BY <1>4 DEF Binline
  <2>2. c.op \in Reads \ (TextReads \cup {"decode"}) /\ c.op = "binline" BY DEF Binline, TextReads, Reads
  <2>3. bal.n \in 0..Len(a) BY <1>2, BalReads
  <2> HIDE DEF bal, res, val
  <2>4. Piece(c.f, taken[c.f], used) BY <1>2, <2>3, PieceStart
  <2> HIDE DEF used
  <2> QED BY <2>1, <2>2, <2>4, EndsWhole
<1> QED BY <1>3, <1>4

LEMMA AcceptWhole ==
  ASSUME WaitInv, CareInv, WholeInv, NEW p \in Proc, NEW c \in Turn(p), Accept(p, c) PROVE WholeInv'
<1> DEFINE ch == Start(Avail(c.f), 1)
<1>1. TypeInv /\ KeptRight BY DEF WaitInv, CareInv
<1>2. c \in Call /\ taken[c.f] \in Nat /\ c.f \in File /\ Piece(c.f, taken[c.f], Avail(c.f)) BY <1>1, TextThere
<1>3. c.op \in Reads \ (TextReads \cup {"decode"}) BY DEF Accept, TextReads, Reads
<1>4. \/ ReadEnds(p, c, ch, "ok", ch) /\ UNCHANGED client
      \/ NotReady(p, c)
      \/ Answer(p, c, "enet", << >>) /\ UNCHANGED <<client, inVars>>
  BY DEF Accept
<1>5. Piece(c.f, taken[c.f], ch) BY <1>2, PieceStart
<1> HIDE DEF ch
<1>6. CASE ReadEnds(p, c, ch, "ok", ch) /\ UNCHANGED client BY <1>2, <1>3, <1>5, <1>6, EndsWhole
<1>7. CASE NotReady(p, c) BY <1>7, NotReadyWhole DEF NotReady
<1>8. CASE Answer(p, c, "enet", << >>) /\ UNCHANGED <<client, inVars>>
  <2>1. UNCHANGED <<taken, arrived>> /\ dropped \subseteq dropped' BY <1>8 DEF inVars
  <2>2. client'[p][1] \notin {"text", "dec"} /\ \A q \in Proc \ {p} : client'[q] = client[q] BY <1>1, <1>3, <1>8, KeptOf
  <2> QED BY <1>2, <1>8, <2>1, <2>2, AnswerQuiet
<1> QED BY <1>4, <1>6, <1>7, <1>8

LEMMA ReadTermWhole ==
  ASSUME WaitInv, CareInv, WholeInv, NEW p \in Proc, NEW c \in Turn(p), ReadTerm(p, c) PROVE WholeInv'
<1> DEFINE a == Avail(c.f)
           blanks == Run(a, Blanks)
           rest == AfterFirst(a, Len(blanks))
           word == Run(rest, Letters)
           one == Start(rest, Len(word) + 1)
           used == blanks \o one
<1>1. TypeInv /\ KeptRight BY DEF WaitInv, CareInv
<1>2. /\ c \in Call /\ taken[c.f] \in Nat /\ c.f \in File /\ Piece(c.f, taken[c.f], a) /\ Len(a) \in Nat
  BY <1>1, TextThere
<1>3. c.op \in Reads \ (TextReads \cup {"decode"}) BY DEF ReadTerm, TextReads, Reads
<1>4. CASE rest = << >>
  <2>1. /\ Suspend(p, c, attachments, "input") /\ Taken(c.f, blanks) /\ Given(blanks, << >>) /\ UNCHANGED client
    BY <1>4 DEF ReadTerm
  <2> HIDE DEF a
  <2>2. Piece(c.f, taken[c.f], blanks) BY <1>2, PieceRun
  <2> HIDE DEF blanks
  <2>3. UNCHANGED arrived /\ dropped \subseteq dropped' BY <2>1 DEF Given
  <2>4. client'[p][1] \notin {"text", "dec"} /\ \A q \in Proc \ {p} : client'[q] = client[q] BY <1>1, <1>3, <2>1, KeptOf
  <2>5. HeldOf(p)' BY <2>4 DEF HeldOf
  <2> QED BY <1>3, <2>1, <2>2, <2>3, <2>4, <2>5, SuspendWhole
<1>5. CASE rest # << >>
  <2> DEFINE res == IF word = << >> THEN "efail" ELSE "ok"
  <2>1. ReadEnds(p, c, used, res, word) /\ UNCHANGED client BY <1>5 DEF ReadTerm
  <2> HIDE DEF a
  <2>2. Piece(c.f, taken[c.f], blanks) /\ Len(blanks) \in 0..Len(a) BY <1>2, PieceRun
  <2> HIDE DEF blanks
  <2> DEFINE n == taken[c.f] + Len(blanks)
  <2>3. n \in Nat BY <1>2, <2>2
  <2>4. Piece(c.f, n, rest) BY <1>2, <2>2, PieceAfter
  <2> HIDE DEF rest
  <2>5. n = taken[c.f] + Len(blanks) OBVIOUS
  <2> HIDE DEF n
  <2>6. Piece(c.f, n, word) /\ Len(word) \in 0..Len(rest) BY <1>2, <2>3, <2>4, PieceRun
  <2>7. Len(rest) \in Nat BY <2>4, LenProperties DEF Piece
  <2> HIDE DEF word
  <2>8. Len(word) + 1 \in Int BY <2>6, <2>7
  <2>9. Piece(c.f, n, one) BY <1>2, <2>3, <2>4, <2>8, PieceStart
  <2> HIDE DEF one
  <2>10. Piece(c.f, taken[c.f], used) BY <1>2, <2>2, <2>5, <2>9, PieceConcat
  <2> HIDE DEF used, res
  <2>11. \E k \in Nat : Piece(c.f, k, word) BY <2>3, <2>6
  <2> QED BY <1>3, <2>1, <2>10, <2>11, EndsWhole
<1> QED BY <1>4, <1>5

-----------------------------------------------------------------------------
(***************************************************************************)
(* Decoding.                                                               *)
(***************************************************************************)
LEMMA AvailUpto ==
  ASSUME TypeInv, NEW f \in File
  PROVE  /\ \A i \in 1..Len(Avail(f)) : /\ taken[f] + i \in DOMAIN Script[f] /\ taken[f] + i <= arrived[f]
                                        /\ Avail(f)[i] = <<f, taken[f] + i>>
         /\ End(f) = "wait" => arrived[f] <= Len(Script[f])
         /\ arrived[f] <= Len(Script[f]) /\ Avail(f) # << >> =>
              /\ arrived[f] = taken[f] + Len(Avail(f)) /\ arrived[f] \in DOMAIN Script[f]
<1> DEFINE l == Len(Script[f])
           upto == IF arrived[f] > l THEN l ELSE arrived[f]
           d == upto - taken[f]
           n == IF d > 0 THEN d ELSE 0
           q == Avail(f)
<1>1. arrived[f] \in Nat /\ taken[f] \in Nat /\ Script[f] \in Seq(Nat) BY FilesAssumption DEF TypeInv
<1>2. l \in Nat /\ DOMAIN Script[f] = 1..l BY <1>1, LenProperties
<1>3. q = [k \in 1..d |-> <<f, taken[f] + k>>] BY DEF Avail
<1>4. arrived[f] > l => Ending[f] \in {"eof", "err", "none"} BY FilesAssumption
<1>5. End(f) = "wait" => ~(arrived[f] > l) BY <1>4 DEF End
<1> HIDE DEF l
<1>6. upto \in Nat /\ upto <= l /\ upto <= arrived[f] /\ (arrived[f] <= l => upto = arrived[f]) BY <1>1, <1>2
<1> HIDE DEF upto
<1>7. d = upto - taken[f] OBVIOUS
<1> HIDE DEF d
<1>8. n \in Nat /\ 1..d = 1..n /\ (n # 0 => n = d) BY <1>1, <1>6, <1>7
<1> HIDE DEF n, q
<1>9. q = [k \in 1..n |-> <<f, taken[f] + k>>] BY <1>3, <1>8
<1>10. q \in Seq(Places) BY AvailPiece DEF Piece, q
<1>11. Len(q) = n
  <2>1. DOMAIN q = 1..Len(q) /\ Len(q) \in Nat BY <1>10, LenProperties
  <2>2. 1..Len(q) = 1..n BY <1>9, <2>1
  <2>3. n \in Nat /\ Len(q) \in Nat BY <1>8, <2>1
  <2> QED BY ONLY <2>2, <2>3
<1>12. ASSUME NEW i \in 1..n
       PROVE  taken[f] + i \in 1..l /\ taken[f] + i <= arrived[f] /\ q[i] = <<f, taken[f] + i>>
  <2>1. q[i] = <<f, taken[f] + i>> BY <1>9
  <2>2. i \in 1..d /\ d = upto - taken[f] BY <1>7, <1>8
  <2>3. upto \in Nat /\ upto <= l /\ upto <= arrived[f] /\ l \in Nat /\ taken[f] \in Nat /\ arrived[f] \in Nat
    BY <1>1, <1>2, <1>6
  <2>4. taken[f] + i \in 1..l /\ taken[f] + i <= arrived[f] BY ONLY <2>2, <2>3
  <2> QED BY <2>1, <2>4
<1>13. ASSUME arrived[f] <= l, q # << >> PROVE arrived[f] = taken[f] + n /\ arrived[f] \in 1..l
  <2>1. n # 0 BY <1>10, <1>11, <1>13, EmptySeq
  <2> QED BY <1>1, <1>2, <1>6, <1>7, <1>8, <1>13, <2>1
<1>14. End(f) = "wait" => arrived[f] <= l BY <1>1, <1>2, <1>5
<1> QED BY <1>2, <1>11, <1>12, <1>13, <1>14 DEF q, l

\* The head of a coded term that is to be decoded from the start.
LEMMA DecodeHead ==
  ASSUME TypeInv, NEW f \in File, NEW text, text = Avail(f), text # << >>, Tag(Code(text[1])) = trmString,
         NEW lens, lens = SubSeq(text, 2, Smaller(1 + (Code(text[1]) % 16), Len(text)))
  PROVE  LET t == taken[f] + 1
         IN /\ t \in DOMAIN Script[f] /\ Tag(Script[f][t]) = trmString /\ HeadSize(f, t) = Code(text[1]) % 16
            /\ HeadSize(f, t) \in Nat /\ Len(lens) \in Nat /\ Length(lens) \in Nat /\ 1 + Len(lens) \in 1..Len(text)
            /\ ~(Len(lens) < HeadSize(f, t)) => Len(lens) = HeadSize(f, t) /\ Length(lens) = Length(LengthBytes(f, t))
            /\ Len(lens) < HeadSize(f, t) /\ End(f) = "wait" => arrived[f] \in DOMAIN Script[f] /\ InHead(f, arrived[f])
<1> DEFINE t == taken[f] + 1
           k == Code(text[1]) % 16
           upto == Smaller(1 + k, Len(text))
<1>1. text \in Seq(Places) /\ Len(text) \in Nat /\ taken[f] \in Nat /\ arrived[f] \in Nat
  BY AvailPiece, LenProperties DEF Piece, TypeInv
<1>2. Len(text) # 0 BY <1>1, EmptySeq
<1>3. 1 \in 1..Len(text) /\ 2 \in 1..Len(text) + 1 BY <1>1, <1>2
<1>4. \A i \in 1..Len(text) : /\ taken[f] + i \in DOMAIN Script[f] /\ taken[f] + i <= arrived[f]
                              /\ text[i] = <<f, taken[f] + i>>
  BY AvailUpto
<1>5. \A i \in 1..Len(text) : Code(text[i]) \in Nat BY AvailPiece
<1>6. t \in DOMAIN Script[f] /\ t <= arrived[f] /\ text[1] = <<f, t>> BY <1>3, <1>4
<1>7. Code(text[1]) = Script[f][t] BY <1>6 DEF Code
<1>8. k \in Nat BY <1>3, <1>5
<1>9. Tag(Script[f][t]) = trmString /\ HeadSize(f, t) = k BY <1>7 DEF HeadSize
<1> HIDE DEF k
<1>10. upto = IF 1 + k < Len(text) THEN 1 + k ELSE Len(text) BY DEF Smaller
<1> HIDE DEF upto
<1>11. upto \in Int /\ upto <= Len(text) /\ 1 <= upto BY <1>1, <1>2, <1>8, <1>10
<1>12. lens = SubSeq(text, 2, upto) BY DEF upto, k
<1>13. /\ lens \in Seq(Places) /\ Len(lens) = IF 2 <= upto THEN upto - 2 + 1 ELSE 0
       /\ \A i \in 1..Len(lens) : lens[i] = text[2 + i - 1] /\ 2 + i - 1 \in 1..Len(text)
  <2>1. text \in Seq(Places) /\ 2 \in 1..Len(text) + 1 /\ upto \in Int /\ upto <= Len(text) BY <1>1, <1>3, <1>11
  <2> QED BY ONLY <1>12, <2>1, PartOf
<1>14. Len(lens) \in Nat /\ 1 + Len(lens) = upto
  <2>1. Len(lens) = IF 2 <= upto THEN upto - 2 + 1 ELSE 0 BY <1>13
  <2> QED BY ONLY <1>11, <2>1
<1>15. Length(lens) \in Nat
  <2>1. lens \in Seq(Places) /\ \A i \in 1..Len(lens) : Code(lens[i]) \in Nat BY <1>5, <1>13
  <2> QED BY ONLY <2>1, LengthIsNat
<1>16. ASSUME ~(Len(lens) < k) PROVE Len(lens) = k /\ lens = LengthBytes(f, t)
  <2>0. Len(text) \in Nat /\ ~(Len(lens) < k) BY <1>1, <1>16
  <2>1. Len(lens) = k BY ONLY <1>8, <1>10, <1>14, <2>0
  <2>2. DOMAIN lens = 1..k /\ lens = [i \in 1..k |-> lens[i]] BY <1>13, <2>1, LenProperties
  <2>3. ASSUME NEW i \in 1..k PROVE lens[i] = <<f, t + i>>
    <3>1. lens[i] = text[2 + i - 1] /\ 2 + i - 1 \in 1..Len(text) BY <1>13, <2>1
    <3>2. text[2 + i - 1] = <<f, taken[f] + (2 + i - 1)>> BY <1>4, <3>1
    <3>4. taken[f] \in Nat /\ i \in 1..k BY <1>1
    <3>3. taken[f] + (2 + i - 1) = t + i BY ONLY <1>8, <3>4
    <3> QED BY <3>1, <3>2, <3>3
  <2> HIDE DEF t
  <2>4. LengthBytes(f, t) = [i \in 1..k |-> <<f, t + i>>] BY <1>9 DEF LengthBytes
  <2>5. [i \in 1..k |-> lens[i]] = [i \in 1..k |-> <<f, t + i>>] BY ONLY <2>3
  <2> QED BY ONLY <2>1, <2>2, <2>4, <2>5
<1>17. ASSUME Len(lens) < k, End(f) = "wait" PROVE arrived[f] \in DOMAIN Script[f] /\ InHead(f, arrived[f])
  <2>1. arrived[f] = taken[f] + Len(text) /\ arrived[f] \in DOMAIN Script[f] BY <1>17, AvailUpto
  <2>4. Len(text) \in Nat /\ taken[f] \in Nat /\ Len(lens) < k BY <1>1, <1>17
  <2>2. Len(text) = upto BY ONLY <1>8, <1>10, <1>14, <2>4
  <2>5. t = taken[f] + 1 /\ t <= arrived[f] BY <1>6
  <2> HIDE DEF t
  <2>3. t \in 1..arrived[f] /\ arrived[f] < t + k
    <3>1. arrived[f] = taken[f] + Len(text) BY <2>1
    <3> QED BY ONLY <1>8, <1>14, <2>2, <2>4, <2>5, <3>1
  <2> QED BY <1>9, <2>1, <2>3 DEF InHead
<1>18. 1 + Len(lens) \in 1..Len(text)
  <2>1. Len(text) \in Nat BY <1>1
  <2> QED BY ONLY <1>11, <1>14, <2>1
<1> HIDE DEF t
<1>19. /\ t \in DOMAIN Script[f] /\ Tag(Script[f][t]) = trmString /\ HeadSize(f, t) = k
       /\ HeadSize(f, t) \in Nat /\ Len(lens) \in Nat /\ Length(lens) \in Nat /\ 1 + Len(lens) \in 1..Len(text)
       /\ ~(Len(lens) < HeadSize(f, t)) => Len(lens) = HeadSize(f, t) /\ Length(lens) = Length(LengthBytes(f, t))
       /\ Len(lens) < HeadSize(f, t) /\ End(f) = "wait" => arrived[f] \in DOMAIN Script[f] /\ InHead(f, arrived[f])
  BY <1>6, <1>8, <1>9, <1>14, <1>15, <1>16, <1>17, <1>18
<1> QED BY <1>19 DEF t, k

-----------------------------------------------------------------------------
\* What the part read by now, s, up to place n, is to become: the bytes of a term behind its length.
Decoding(p, f, n, count, s) ==
  /\ Ordered(f, n, s)
  /\ SoleReader(p, f) => Piece(f, n - Len(s), s)
  /\ \E t \in DOMAIN Script[f] :
       /\ Tag(Script[f][t]) = trmString /\ count = Length(LengthBytes(f, t))
       /\ SoleReader(p, f) => n - Len(s) = t + HeadSize(f, t)

LEMMA DecodingGrows ==
  ASSUME NEW p, NEW f \in File, NEW n \in Nat, NEW count, NEW s, Decoding(p, f, n, count, s),
         NEW more, Piece(f, n, more), NEW m, m = n + Len(more)
  PROVE  Decoding(p, f, m, count, s \o more)
<1> DEFINE r == s \o more
<1>1. s \in Seq(Places) /\ Len(s) \in Nat /\ more \in Seq(Places) /\ Len(more) \in Nat
  BY LenProperties DEF Decoding, Ordered, Piece
<1>2. m \in Nat /\ n + Len(more) <= m BY <1>1
<1>3. Ordered(f, m, r) BY <1>2, OrderedGrows DEF Decoding
<1>4. Len(r) = Len(s) + Len(more) BY <1>1, ConcatProperties
<1>5. m - Len(r) = n - Len(s)
  <2>1. m = n + Len(more) /\ n \in Nat /\ Len(s) \in Nat /\ Len(more) \in Nat /\ Len(r) = Len(s) + Len(more)
    BY <1>1, <1>4
  <2> QED BY ONLY <2>1
<1>6. SoleReader(p, f) => Piece(f, m - Len(r), r)
  <2> SUFFICES ASSUME SoleReader(p, f) PROVE Piece(f, n - Len(s), r) BY <1>5
  <2>1. PICK i : i = n - Len(s) OBVIOUS
  <2>2. i \in Int /\ i + Len(s) = n /\ Piece(f, i, s) BY <1>1, <2>1 DEF Decoding
  <2> QED BY <2>1, <2>2, BehindGrows
<1>7. \E t \in DOMAIN Script[f] :
        /\ Tag(Script[f][t]) = trmString /\ count = Length(LengthBytes(f, t))
        /\ SoleReader(p, f) => m - Len(r) = t + HeadSize(f, t)
  BY <1>5 DEF Decoding
<1> HIDE DEF r
<1>8. Decoding(p, f, m, count, r) BY <1>3, <1>6, <1>7 DEF Decoding
<1> QED BY <1>8 DEF r

\* A decoded term is whole, and one that is begun is kept right.
LEMMA DecodedWhole ==
  ASSUME NEW p \in Proc, NEW c, c.op = "decode", c.f \in File, UNCHANGED program,
         NEW n \in Nat, NEW count, NEW val, Decoding(p, c.f, n, count, val), Len(val) = count
  PROVE  AnsweredWhole(p, c, val)'
<1>1. Len(val) \in Nat BY LenProperties DEF Decoding, Ordered
<1>2. PICK i : i = n - Len(val) OBVIOUS
<1>3. i \in Int /\ Ordered(c.f, n, val) /\ (SoleReader(p, c.f) => Piece(c.f, i, val)) BY <1>1, <1>2 DEF Decoding
<1>4. PICK t \in DOMAIN Script[c.f] :
        /\ Tag(Script[c.f][t]) = trmString /\ count = Length(LengthBytes(c.f, t))
        /\ SoleReader(p, c.f) => i = t + HeadSize(c.f, t)
  BY <1>2 DEF Decoding
<1>5. SoleReader(p, c.f) => \A k \in 1 .. Len(val) : val[k] = <<c.f, t + HeadSize(c.f, t) + k>>
  <2> SUFFICES ASSUME SoleReader(p, c.f), NEW k \in 1 .. Len(val)
               PROVE  val[k] = <<c.f, t + HeadSize(c.f, t) + k>>
    OBVIOUS
  <2>1. val[k] = <<c.f, i + k>> BY <1>3 DEF Piece
  <2> QED BY <1>4, <2>1
<1>6. SoleReader(p, c.f) => \E j \in Int : Piece(c.f, j, val) BY <1>3
<1>7. Len(val) = Length(LengthBytes(c.f, t)) /\ Tag(Script[c.f][t]) = trmString BY <1>4
<1>8. c.op = "decode" => \E u \in DOMAIN Script[c.f] :
        /\ Tag(Script[c.f][u]) = trmString /\ Len(val) = Length(LengthBytes(c.f, u))
        /\ SoleReader(p, c.f) => \A k \in 1 .. Len(val) : val[k] = <<c.f, u + HeadSize(c.f, u) + k>>
  BY <1>5, <1>7
<1> QED BY <1>3, <1>6, <1>8, WholeNext

LEMMA DecodeWhole ==
  ASSUME WaitInv, CareInv, WholeInv, NEW p \in Proc, NEW c \in Turn(p), Decode(p, c) PROVE WholeInv'
<1> DEFINE text == Avail(c.f)
           fresh == client[p] = NoClient
           coded == text # << >> /\ Tag(Code(text[1])) = trmString
           size == Code(text[1]) % 16
           lens == IF fresh THEN SubSeq(text, 2, Smaller(1 + size, Len(text))) ELSE << >>
           short == fresh /\ Len(lens) < size
           msg == IF fresh THEN [count |-> Length(lens), body |-> << >>] ELSE Begun(p)
           head == IF fresh THEN 1 + Len(lens) ELSE 0
           want == msg.count - Len(msg.body)
           more == IF short THEN << >> ELSE Start(AfterFirst(text, head), want)
           body == msg.body \o more
           used == Start(text, head + Len(more))
           lead == Start(text, head)
<1>1. TypeInv /\ KeptRight /\ CallRight BY DEF WaitInv, CareInv
<1>2. /\ c \in Call /\ c.f \in File /\ taken[c.f] \in Nat /\ Piece(c.f, taken[c.f], text)
      /\ text \in Seq(Places) /\ Len(text) \in Nat
  BY <1>1, TextThere
<1>3. c.op = "decode" /\ c.op \in Reads BY DEF Decode, Reads
<1>4. \/ ~InReady(c.f) /\ NotReady(p, c)
      \/ fresh /\ ReadEnds(p, c, Start(text, 1), "einval", << >>) /\ UNCHANGED client
      \/ (fresh => coded) /\ ~short /\ Len(body) = msg.count /\ ReadEnds(p, c, used, "ok", body) /\ ClientOf(p, NoClient)
      \/ /\ fresh => coded
         /\ End(c.f) = "wait"
         /\ Suspend(p, c, Detach(attachments, c.f, p), "input")
         /\ ClientOf(p, <<"dec", [count |-> msg.count, body |-> body]>>)
         /\ Taken(c.f, used) /\ Given(lead, << >>)
      \/ /\ fresh => coded
         /\ \E res : res # "ok" /\ ReadEnds(p, c, used, res, << >>)
         /\ ClientOf(p, NoClient)
  BY DEF Decode
<1>5. NoClient \in Clients /\ NoClient[1] = "none" BY DEF Clients, NoClient
<1>6. ASSUME ClientOf(p, NoClient)
      PROVE  client'[p][1] \notin {"text", "dec"} /\ \A q \in Proc \ {p} : client'[q] = client[q]
  BY <1>1, <1>5, <1>6, ClientType
<1>7. CASE ~InReady(c.f) /\ NotReady(p, c) BY <1>7, NotReadyWhole DEF NotReady
<1>8. CASE fresh /\ ReadEnds(p, c, Start(text, 1), "einval", << >>) /\ UNCHANGED client
  <2> DEFINE one == Start(text, 1)
  <2>1. Piece(c.f, taken[c.f], one) BY <1>2, PieceStart
  <2>2. ReadEnds(p, c, one, "einval", << >>) BY <1>8
  <2>3. client'[p][1] \notin {"text", "dec"} /\ \A q \in Proc \ {p} : client'[q] = client[q] BY <1>5, <1>8
  <2> HIDE DEF one
  <2> QED BY <1>3, <2>1, <2>2, <2>3, ReadEndsWhole
<1>9. CASE fresh => coded
  <2>1. /\ msg.count \in Nat /\ msg.body \in Seq(Places) /\ head \in 0..Len(text)
        /\ ~short => Decoding(p, c.f, taken[c.f] + head, msg.count, msg.body)
        /\ End(c.f) = "wait" => ~short
    <3>1. CASE fresh
      <4> DEFINE t == taken[c.f] + 1
      <4>1. text # << >> /\ Tag(Code(text[1])) = trmString BY <1>9, <3>1
      <4>2. lens = SubSeq(text, 2, Smaller(1 + size, Len(text))) BY <3>1
      <4> HIDE DEF lens
      <4>3. /\ t \in DOMAIN Script[c.f] /\ Tag(Script[c.f][t]) = trmString /\ HeadSize(c.f, t) = size
            /\ HeadSize(c.f, t) \in Nat /\ Len(lens) \in Nat /\ Length(lens) \in Nat /\ 1 + Len(lens) \in 1..Len(text)
            /\ ~(Len(lens) < HeadSize(c.f, t)) =>
                 Len(lens) = HeadSize(c.f, t) /\ Length(lens) = Length(LengthBytes(c.f, t))
            /\ Len(lens) < HeadSize(c.f, t) /\ End(c.f) = "wait" =>
                 arrived[c.f] \in DOMAIN Script[c.f] /\ InHead(c.f, arrived[c.f])
        BY <1>1, <1>2, <4>1, <4>2, DecodeHead
      <4>4. c.f \in Used BY <1>1, <1>3, CallOfProgram
      <4>5. arrived[c.f] \in DOMAIN Script[c.f] => ~InHead(c.f, arrived[c.f]) BY <4>4 DEF WholeInv, HeadsArrive
      <4>6. short <=> Len(lens) < HeadSize(c.f, t) BY <3>1, <4>3
      <4> HIDE DEF short, size
      <4>7. End(c.f) = "wait" => ~short BY <4>3, <4>5, <4>6
      <4>8. msg = [count |-> Length(lens), body |-> << >>] /\ head = 1 + Len(lens) BY <3>1
      <4>9. msg.count = Length(lens) /\ msg.body = << >> BY <4>8
      <4> HIDE DEF msg, head
      <4>10. ASSUME ~short PROVE Decoding(p, c.f, taken[c.f] + head, msg.count, msg.body)
        <5>1. PICK n, s : n = taken[c.f] + head /\ s = msg.body OBVIOUS
        <5>2. s = << >> /\ s \in Seq(Places) /\ Len(s) = 0 BY <4>9, <5>1, EmptySeq
        <5>3. Len(lens) = HeadSize(c.f, t) /\ Length(lens) = Length(LengthBytes(c.f, t)) BY <4>3, <4>6, <4>10
        <5>4. n - Len(s) = t + HeadSize(c.f, t)
          <6>1. /\ n = taken[c.f] + head /\ head = 1 + Len(lens) /\ t = taken[c.f] + 1 /\ taken[c.f] \in Nat
                /\ Len(lens) \in Nat /\ Len(lens) = HeadSize(c.f, t)
            BY <1>2, <4>3, <4>8, <5>1, <5>3
          <6> HIDE DEF t
          <6> QED BY ONLY <5>2, <6>1
        <5> HIDE DEF t
        <5>5. Ordered(c.f, n, s) /\ Piece(c.f, n - Len(s), s) BY <5>2 DEF Ordered, Piece
        <5>6. Decoding(p, c.f, n, msg.count, s) BY <4>3, <4>9, <5>3, <5>4, <5>5 DEF Decoding
        <5> QED BY <5>1, <5>6
      <4>11. << >> \in Seq(Places) BY EmptySeq
      <4>12. head \in 0..Len(text) BY <1>2, <4>3, <4>8
      <4> QED BY <4>3, <4>7, <4>9, <4>10, <4>11, <4>12
    <3>2. CASE ~fresh
      <4>1. Kinds(c.op) = {"dec"} BY <1>3 DEF Kinds, TextReads
      <4>2. client[p] \in Clients /\ client[p][1] = "dec" /\ (call[p] # NoCall => c = call[p])
        BY <1>1, <3>2, <4>1, TurnRight
      <4>3. client[p][2] \in [count : Nat, body : Seq(Places)] BY <4>2, ClientCases
      <4>4. msg = client[p][2] /\ head = 0 /\ ~short BY <3>2 DEF Begun
      <4>5. Part(client[p]) = client[p][2].body BY <4>2 DEF Part
      <4>6. c = call[p] BY <1>1, <4>2 DEF KeptRight
      <4>7. HeldRight(p, c, client[p]) BY <4>2, <4>6 DEF WholeInv, HeldOf
      <4> HIDE DEF msg, head, short
      <4>8. Decoding(p, c.f, taken[c.f], msg.count, msg.body) BY <4>2, <4>4, <4>5, <4>7 DEF HeldRight, Decoding
      <4>9. taken[c.f] + head = taken[c.f] BY <1>2, <4>4
      <4> QED BY <1>2, <4>3, <4>4, <4>8, <4>9
    <3> QED BY <3>1, <3>2
  <2>2. Len(msg.body) \in Nat BY <2>1, LenProperties
  <2>3. want \in Int BY <2>1, <2>2
  <2> DEFINE rest == AfterFirst(text, head)
             n == taken[c.f] + head
  <2>4. more = IF short THEN << >> ELSE Start(rest, want) OBVIOUS
  <2> HIDE DEF text, head, want
  <2>5. n \in Nat /\ Piece(c.f, n, rest) /\ Len(rest) = Len(text) - head
    <3>1. head \in 0..Len(text) BY <2>1
    <3>2. n \in Nat BY ONLY <1>2, <3>1
    <3> QED BY ONLY <1>2, <3>1, <3>2, PieceAfter
  <2> HIDE DEF rest
  <2>6. n = taken[c.f] + head OBVIOUS
  <2> HIDE DEF n, short, more
  <2>7. Piece(c.f, n, more) /\ Len(more) \in 0..Len(rest)
    <3>1. Len(rest) \in Nat BY <1>2, <2>1, <2>5
    <3>2. CASE short BY <2>4, <3>1, <3>2, PieceOfNothing
    <3>3. CASE ~short
      <4>1. /\ Piece(c.f, n, Start(rest, want))
            /\ Len(Start(rest, want)) = IF want < 0 THEN 0 ELSE IF want < Len(rest) THEN want ELSE Len(rest)
        BY <1>2, <2>3, <2>5, PieceStart
      <4> QED BY <2>3, <2>4, <3>1, <3>3, <4>1
    <3> QED BY <3>2, <3>3
  <2>8. /\ head + Len(more) \in Int /\ ~(head + Len(more) < 0)
        /\ head + Len(more) < Len(text) \/ head + Len(more) = Len(text)
    BY <1>2, <2>1, <2>5, <2>7
  <2>9. Piece(c.f, taken[c.f], used) /\ Len(used) = head + Len(more) BY <1>2, <2>8, PieceStart
  <2> HIDE DEF used, lead
  <2> DEFINE m == n + Len(more)
  <2>10. m \in Nat /\ (Taken(c.f, used) => taken'[c.f] = m)
    <3>1. Len(more) \in Nat /\ head \in Nat BY <1>2, <2>1, <2>5, <2>7
    <3>2. Taken(c.f, used) => taken'[c.f] = taken[c.f] + Len(used) BY <1>1, <1>2 DEF Taken, TypeInv
    <3>3. taken[c.f] \in Nat BY <1>2
    <3>4. taken[c.f] + Len(used) = m /\ m \in Nat BY ONLY <2>6, <2>9, <3>1, <3>3
    <3> QED BY <3>2, <3>4
  <2>11. msg.count \in Nat /\ msg.body \in Seq(Places) /\ (~short => Decoding(p, c.f, n, msg.count, msg.body))
         /\ (End(c.f) = "wait" => ~short)
    BY <2>1, <2>6
  <2> HIDE DEF msg
  <2>12. m = n + Len(more) OBVIOUS
  <2> HIDE DEF m
  <2>13. ~short => Decoding(p, c.f, m, msg.count, body) BY <1>2, <2>5, <2>7, <2>11, <2>12, DecodingGrows
  <2>14. body \in Seq(Places)
    <3>1. more \in Seq(Places) BY <2>7 DEF Piece
    <3> QED BY <2>11, <3>1, SetOfConcat
  <2> HIDE DEF body
  <2>15. ASSUME ~short, Len(body) = msg.count, ReadEnds(p, c, used, "ok", body), ClientOf(p, NoClient) PROVE WholeInv'
    <3>1. UNCHANGED program BY <2>15 DEF ReadEnds, Answer
    <3>2. PICK val, k, u, i : val = body /\ k = msg.count /\ u = used /\ i = m OBVIOUS
    <3>3. i \in Nat /\ Decoding(p, c.f, i, k, val) /\ Len(val) = k BY <2>10, <2>13, <2>15, <3>2
    <3>4. AnsweredWhole(p, c, val)' BY <1>2, <1>3, <3>1, <3>3, DecodedWhole
    <3>5. ReadEnds(p, c, u, "ok", val) /\ Piece(c.f, taken[c.f], u) BY <2>9, <2>15, <3>2
    <3> QED BY <1>3, <1>6, <2>15, <3>4, <3>5, ReadEndsWhole
  <2>16. ASSUME NEW res, res # "ok", ReadEnds(p, c, used, res, << >>), ClientOf(p, NoClient) PROVE WholeInv'
    <3>1. PICK u, r : u = used /\ r = res OBVIOUS
    <3>2. ReadEnds(p, c, u, r, << >>) /\ Piece(c.f, taken[c.f], u) /\ r # "ok" BY <2>9, <2>16, <3>1
    <3> QED BY <1>3, <1>6, <2>16, <3>2, ReadEndsWhole
  <2>17. ASSUME End(c.f) = "wait", Suspend(p, c, Detach(attachments, c.f, p), "input"),
                ClientOf(p, <<"dec", [count |-> msg.count, body |-> body]>>), Taken(c.f, used), Given(lead, << >>)
         PROVE  WholeInv'
    <3>0. PICK cl, u : cl = <<"dec", [count |-> msg.count, body |-> body]>> /\ u = used OBVIOUS
    <3>1. cl \in Clients /\ cl[1] = "dec" /\ Part(cl) = body /\ cl[2].count = msg.count
      BY <2>11, <2>14, <3>0 DEF Clients, Part
    <3>2. ClientOf(p, cl) /\ Taken(c.f, u) /\ Piece(c.f, taken[c.f], u) BY <2>9, <2>17, <3>0
    <3>3. client'[p] = cl /\ \A q \in Proc \ {p} : client'[q] = client[q] BY <1>1, <3>1, <3>2, ClientType
    <3>4. call'[p] = c /\ UNCHANGED program BY <1>1, <2>17 DEF Suspend, TypeInv, ProcTypes
    <3>5. UNCHANGED arrived /\ dropped \subseteq dropped' BY <2>17 DEF Given
    <3>6. SoleReader(p, c.f)' <=> SoleReader(p, c.f) BY <3>4 DEF SoleReader
    <3>7. Decoding(p, c.f, taken'[c.f], cl[2].count, Part(cl)) BY <2>10, <2>11, <2>13, <2>17, <3>1
    <3>8. c.op \notin {"inchars", "inbytes", "inline"} BY <1>3
    <3>9. HeldRight(p, c, cl)'
      <4>1. Ordered(c.f, taken'[c.f], Part(cl)) BY <3>7 DEF Decoding
      <4>2. SoleReader(p, c.f)' => Piece(c.f, taken'[c.f] - Len(Part(cl)), Part(cl)) BY <3>6, <3>7 DEF Decoding
      <4>3. \E t \in DOMAIN Script[c.f] :
              /\ Tag(Script[c.f][t]) = trmString /\ cl[2].count = Length(LengthBytes(c.f, t))
              /\ SoleReader(p, c.f)' => taken'[c.f] - Len(Part(cl)) = t + HeadSize(c.f, t)
        BY <3>6, <3>7 DEF Decoding
      <4> QED BY <3>8, <4>1, <4>2, <4>3 DEF HeldRight
    <3>10. HeldOf(p)' BY <3>3, <3>4, <3>9 DEF HeldOf
    <3> QED BY <1>3, <2>17, <3>2, <3>3, <3>5, <3>10, SuspendWhole
  <2> HIDE DEF coded, fresh
  <2> QED BY <1>4, <1>7, <1>8, <2>15, <2>16, <2>17
<1> QED BY <1>4, <1>7, <1>8, <1>9

-----------------------------------------------------------------------------
(***************************************************************************)
(* Steps by which nothing is read.                                         *)
(***************************************************************************)
LEMMA OtherWhole ==
  ASSUME WaitInv, CareInv, WholeInv, NEW p \in Proc, NEW c \in Turn(p),
         NEW res, NEW val, Answer(p, c, res, val), UNCHANGED <<client, inVars>>,
         c.op \notin Reads \/ (res # "ok" /\ client[p][1] \notin {"text", "dec"})
  PROVE  WholeInv'
<1>1. TypeInv /\ KeptRight BY DEF WaitInv, CareInv
<1>2. c \in Call BY <1>1, TurnRight
<1>3. c.op \notin Reads => c.op \notin TextReads \cup {"decode"} BY DEF Reads
<1>4. client[p][1] \notin {"text", "dec"} BY <1>1, <1>3, KeptOf
<1>5. UNCHANGED <<taken, arrived>> /\ dropped \subseteq dropped' BY DEF inVars
<1>6. client'[p][1] \notin {"text", "dec"} /\ \A q \in Proc \ {p} : client'[q] = client[q] BY <1>4
<1> QED BY <1>2, <1>5, <1>6, AnswerQuiet

LEMMA StillWhole ==
  ASSUME WaitInv, CareInv, WholeInv, UNCHANGED <<program, client, call, answer, taken, arrived, dropped>> PROVE WholeInv'
  BY QuietWhole DEF CareInv

LEMMA RefuseWhole ==
  ASSUME WaitInv, CareInv, WholeInv, NEW p \in Proc, NEW c \in Turn(p), ~Accepted(c), Refuse(p, c) PROVE WholeInv'
<1>1. call[p] = NoCall BY TurnNext DEF CareInv
<1>2. client[p][1] \notin {"text", "dec"} BY <1>1, NothingKept
<1>3. Answer(p, c, "einval", << >>) /\ UNCHANGED <<client, inVars>> BY DEF Refuse
<1>4. "einval" # "ok" OBVIOUS
<1> QED BY <1>2, <1>3, <1>4, OtherWhole

LEMMA OutcharWhole ==
  ASSUME WaitInv, CareInv, WholeInv, NEW p \in Proc, NEW c \in Turn(p), Outchar(p, c) PROVE WholeInv'
<1>1. TypeInv /\ KeptRight BY DEF WaitInv, CareInv
<1>2. c \in Call /\ c.f \in File BY <1>1, TextThere
<1>3. c.op \notin Reads BY DEF Outchar, Reads, TextReads
<1>4. UNCHANGED <<taken, arrived, dropped>> BY DEF Outchar, WriteFrom, inVars
<1>5. \/ \E res : Answer(p, c, res, << >>) /\ ClientOf(p, NoClient)
      \/ \E as, n : Suspend(p, c, as, "output") /\ ClientOf(p, Offset(n))
  BY DEF Outchar, WriteFrom
<1>6. DOMAIN client = Proc BY <1>1 DEF TypeInv
<1>7. ASSUME NEW cl, ClientOf(p, cl) PROVE client'[p] = cl /\ \A q \in Proc \ {p} : client'[q] = client[q]
  BY <1>6, <1>7 DEF ClientOf
<1>8. CASE \E res : Answer(p, c, res, << >>) /\ ClientOf(p, NoClient)
  <2>1. PICK res : Answer(p, c, res, << >>) BY <1>8
  <2>2. client'[p] = NoClient /\ \A q \in Proc \ {p} : client'[q] = client[q] BY <1>7, <1>8
  <2>3. client'[p][1] \notin {"text", "dec"} BY <2>2 DEF NoClient
  <2> QED BY <1>2, <1>3, <1>4, <2>1, <2>2, <2>3, AnswerQuiet
<1>9. CASE \E as, n : Suspend(p, c, as, "output") /\ ClientOf(p, Offset(n))
  <2>1. PICK as, n : Suspend(p, c, as, "output") /\ ClientOf(p, Offset(n)) BY <1>9
  <2>2. PICK cl : cl = Offset(n) OBVIOUS
  <2>3. client'[p] = cl /\ \A q \in Proc \ {p} : client'[q] = client[q] BY <1>7, <2>1, <2>2
  <2>4. client'[p][1] \notin {"text", "dec"} BY <2>2, <2>3 DEF Offset, NoClient
  <2> QED BY <1>4, <2>1, <2>3, <2>4, SuspendQuiet
<1> QED BY <1>5, <1>8, <1>9

LEMMA ConnectWhole ==
  ASSUME WaitInv, CareInv, WholeInv, NEW p \in Proc, NEW c \in Turn(p), Connect(p, c) PROVE WholeInv'
<1>1. TypeInv /\ KeptRight BY DEF WaitInv, CareInv
<1>2. c.op = "connect" /\ UNCHANGED inVars BY DEF Connect
<1>3. c.op \notin Reads /\ c.op \notin TextReads \cup {"decode"} BY <1>2 DEF Reads, TextReads
<1>4. \/ (\E res : Answer(p, c, res, << >>)) /\ UNCHANGED client
      \/ \E d, f : Suspend(p, d, attachments, "output") /\ ClientOf(p, <<"sock", f>>)
  BY DEF Connect
<1>5. CASE (\E res : Answer(p, c, res, << >>)) /\ UNCHANGED client BY <1>2, <1>3, <1>5, OtherWhole
<1>6. CASE \E d, f : Suspend(p, d, attachments, "output") /\ ClientOf(p, <<"sock", f>>)
  <2>1. PICK d, f : Suspend(p, d, attachments, "output") /\ ClientOf(p, <<"sock", f>>) BY <1>6
  <2>2. PICK cl : cl = <<"sock", f>> OBVIOUS
  <2>3. client'[p] = cl /\ \A q \in Proc \ {p} : client'[q] = client[q] BY <1>1, <2>1, <2>2 DEF TypeInv, ClientOf
  <2>4. client'[p][1] \notin {"text", "dec"} BY <2>2, <2>3
  <2>5. client[p][1] \notin {"text", "dec"} BY <1>1, <1>3, KeptOf
  <2>6. UNCHANGED <<taken, arrived>> /\ dropped \subseteq dropped' BY <1>2 DEF inVars
  <2> QED BY <2>1, <2>3, <2>4, <2>5, <2>6, SuspendQuiet
<1> QED BY <1>4, <1>5, <1>6

\* Of the process that is interrupted nothing is kept, and its call is answered with an error.
LEMMA InterruptWhole ==
  ASSUME Careful, WaitInv, CareInv, WholeInv, NEW p \in Proc, NEW c \in Turn(p), Interrupt(p, c) PROVE WholeInv'
<1>1. TypeInv /\ KeptRight BY DEF WaitInv, CareInv
<1>2. c \in Call BY <1>1, TurnRight
<1>3. c.q \in Proc BY <1>1, <1>2, CallTypes
<1>4. c.op = "interrupt" /\ client[c.q] = NoClient BY DEF Interrupt
<1>5. call \in [Proc -> Call \cup {NoCall}] /\ DOMAIN answer = Proc BY <1>1 DEF TypeInv, ProcTypes
<1>6. c.op \notin Reads /\ c.op \notin TextReads \cup {"decode"} BY <1>4 DEF Reads, TextReads
<1>7. client[p][1] \notin {"text", "dec"} /\ client[c.q][1] \notin {"text", "dec"} BY <1>1, <1>4, <1>6, KeptOf DEF NoClient
<1> DEFINE ok == [call |-> c, res |-> "ok", val |-> << >>]
           err == [call |-> call[c.q], res |-> "error", val |-> << >>]
<1>8. /\ answer' = [answer EXCEPT ![p] = ok, ![c.q] = IF call[c.q] = NoCall THEN @ ELSE err]
      /\ call' = [call EXCEPT ![p] = NoCall, ![c.q] = NoCall]
      /\ UNCHANGED <<program, client, taken, arrived, dropped>>
  BY DEF Interrupt, inVars
<1>9. err.res = "error" /\ err.call = call[c.q] /\ ok.call = c OBVIOUS
<1> HIDE DEF ok, err
<1>10. \A q \in Proc : q # p /\ q # c.q => answer'[q] = answer[q] /\ call'[q] = call[q] BY <1>5, <1>8
<1>11. \A q \in Proc : q = p \/ q = c.q =>
         answer'[q] = answer[q] \/ answer'[q] = ok \/ (call[c.q] # NoCall /\ answer'[q] = err)
  BY <1>3, <1>5, <1>8
<1>12. ASSUME NEW q \in Proc
       PROVE  /\ client'[q][1] \in {"text", "dec"} => client'[q] = client[q] /\ call'[q] = call[q]
              /\ \/ answer'[q] = answer[q]
                 \/ /\ answer'[q].call \in Call
                    /\ answer'[q].call.op \notin Reads \ {"binline"} \/ answer'[q].res # "ok"
  <2>1. call[c.q] # NoCall => call[c.q] \in Call BY <1>3, <1>5
  <2>2. CASE q = p \/ q = c.q BY <1>2, <1>6, <1>7, <1>8, <1>9, <1>11, <2>1, <2>2
  <2>3. CASE q # p /\ q # c.q BY <1>8, <1>10, <2>3
  <2> QED BY <2>2, <2>3
<1> QED BY <1>1, <1>8, <1>12, QuietWhole

LEMMA EscapeWhole == ASSUME Careful, WaitInv, CareInv, WholeInv, NEW p \in Proc, Escape(p) PROVE WholeInv'
<1>1. PICK c \in Turn(p) :
        \/ ~Accepted(c) /\ Refuse(p, c)
        \/ /\ Accepted(c)
           /\ \/ Inbytes(p, c) \/ Inline(p, c) \/ Intext(p, c) \/ Inchar(p, c) \/ Eof(p, c) \/ Ready(p, c)
              \/ Binline(p, c) \/ ReadTerm(p, c) \/ Decode(p, c) \/ Outchar(p, c) \/ Encode(p, c) \/ Flush(p, c)
              \/ Ftell(p, c) \/ Fopen(p, c) \/ Dupfile(p, c) \/ Fclose(p, c) \/ Connect(p, c) \/ Accept(p, c)
              \/ Interrupt(p, c)
  BY DEF Escape
<1>2. CASE ~Accepted(c) /\ Refuse(p, c) BY <1>2, RefuseWhole
<1>3. CASE Encode(p, c) \/ Ready(p, c) \/ Ftell(p, c) \/ Fopen(p, c) \/ Dupfile(p, c) \/ Fclose(p, c)
  <2>1. c.op \notin Reads BY <1>3 DEF Encode, Ready, Ftell, Fopen, Dupfile, Fclose, Reads, TextReads
  <2>2. (\E res, val : Answer(p, c, res, val)) /\ UNCHANGED <<client, inVars>>
    BY <1>3 DEF Encode, Ready, Ftell, Fopen, Dupfile, Fclose
  <2> QED BY <2>1, <2>2, OtherWhole
<1>4. CASE Flush(p, c)
  <2>1. c.op \notin Reads BY <1>4 DEF Flush, Reads, TextReads
  <2>2. UNCHANGED <<client, inVars>> /\ ((\E res : Answer(p, c, res, << >>)) \/ UNCHANGED <<program, call, answer>>)
    BY <1>4 DEF Flush
  <2>3. CASE \E res : Answer(p, c, res, << >>) BY <2>1, <2>2, <2>3, OtherWhole
  <2>4. CASE UNCHANGED <<program, call, answer>> BY <2>2, <2>4, StillWhole DEF inVars
  <2> QED BY <2>2, <2>3, <2>4
<1> QED
  BY <1>1, <1>2, <1>3, <1>4, InbytesWhole, InlineWhole, IntextWhole, IncharWhole, EofWhole, BinlineWhole, ReadTermWhole,
     DecodeWhole, OutcharWhole, ConnectWhole, AcceptWhole, InterruptWhole

\* More of a file arrives: what has ended has ended, and nothing stops inside a head.
LEMMA ArriveWhole == ASSUME Careful, WaitInv, CareInv, WholeInv, NEW f \in File, Arrive(f) PROVE WholeInv'
<1>1. TypeInv /\ KeptRight BY DEF WaitInv, CareInv
<1>2. arrived \in [File -> Nat] /\ taken \in [File -> Nat] BY <1>1 DEF TypeInv
<1>3. PICK n \in arrived[f] + 1 .. Len(Script[f]) + (IF Ending[f] = "none" THEN 0 ELSE 1) :
        /\ n \in DOMAIN Script[f] => ~InHead(f, n)
        /\ arrived' = [arrived EXCEPT ![f] = n]
  BY DEF Arrive
<1>4. UNCHANGED <<program, client, call, answer, taken, dropped>> BY DEF Arrive, procVars
<1>5. arrived'[f] = n /\ \A g \in File : g # f => arrived'[g] = arrived[g] BY <1>2, <1>3
<1>6. arrived[f] \in Nat /\ n \in Int /\ arrived[f] < n /\ Len(Script[f]) \in Nat
  <2>1. Script[f] \in Seq(Nat) BY FilesAssumption
  <2>2. Len(Script[f]) \in Nat BY <2>1, LenProperties
  <2> QED BY <1>2, <1>3, <2>2
<1>7. ASSUME NEW g \in File, Ended(g) PROVE Ended(g)'
  <2>1. CASE g # f BY <1>5, <1>7, <2>1 DEF Ended, End
  <2>2. CASE g = f
    <3>1. arrived[f] > Len(Script[f]) /\ Ending[f] # "wait" BY <1>7, <2>2 DEF Ended, End
    <3>2. n > Len(Script[f]) BY ONLY <1>6, <3>1
    <3> QED BY <1>5, <2>2, <3>1, <3>2 DEF Ended, End
  <2> QED BY <2>1, <2>2
<1>8. HeadsArrive'
  <2>1. Used' = Used BY <1>4 DEF Used
  <2>2. ASSUME NEW g \in Used, arrived'[g] \in DOMAIN Script[g] PROVE ~InHead(g, arrived'[g])
    <3>1. CASE g = f BY <1>3, <1>5, <2>2, <3>1
    <3>2. CASE g # f
      <4>1. g \in File
        <5>1. PICK q \in Proc : \E c \in ToSet(program[q]) : c.f = g BY DEF Used
        <5>2. PICK c \in ToSet(program[q]) : c.f = g BY <5>1
        <5>3. program[q] \in Seq(Call) BY <1>1 DEF TypeInv, ProcTypes
        <5>4. c \in Call BY <5>2, <5>3, SetOfSeq
        <5> QED BY <5>2, <5>4 DEF Call
      <4>2. arrived'[g] = arrived[g] BY <1>5, <3>2, <4>1
      <4> QED BY <2>2, <4>2 DEF WholeInv, HeadsArrive
    <3> QED BY <3>1, <3>2
  <2> QED BY <2>1, <2>2 DEF HeadsArrive, InHead, HeadSize
<1>9. ASSUME NEW q \in Proc PROVE HeldOf(q)' /\ AnsweredOf(q)'
  <2>1. client'[q] = client[q] /\ call'[q] = call[q] /\ answer'[q] = answer[q] /\ UNCHANGED program
        /\ dropped \subseteq dropped' /\ HeldOf(q) /\ AnsweredOf(q)
    BY <1>4 DEF WholeInv
  <2>2. taken' \in [File -> Nat]
        /\ \A g \in File : taken[g] <= taken'[g] /\ (SoleReader(q, g) => taken'[g] = taken[g])
    BY <1>2, <1>4
  <2> QED BY <1>1, <1>7, <2>1, <2>2, HeldStays, AnswerStays
<1> QED BY <1>8, <1>9 DEF WholeInv

LEMMA WholeAtFirst == ASSUME Init PROVE WholeInv
<1>1. /\ client = [p \in Proc |-> NoClient] /\ answer = [p \in Proc |-> NoCall] /\ program \in Programs
      /\ arrived = [f \in File |-> IF f \in Used THEN 0 ELSE Len(Script[f])]
  BY DEF Init
<1>2. \A p \in Proc : client[p][1] \notin {"text", "dec"} /\ answer[p] = NoCall BY <1>1 DEF NoClient
<1>3. HeadsArrive
  <2> SUFFICES ASSUME NEW f \in Used, arrived[f] \in DOMAIN Script[f] PROVE FALSE BY DEF HeadsArrive
  <2>1. f \in File
    <3>1. PICK q \in Proc : \E c \in ToSet(program[q]) : c.f = f BY DEF Used
    <3>2. PICK c \in ToSet(program[q]) : c.f = f BY <3>1
    <3>3. program[q] \in Seq(Call) BY <1>1, FilesAssumption
    <3>4. c \in Call BY <3>2, <3>3, SetOfSeq
    <3> QED BY <3>2, <3>4 DEF Call
  <2>2. arrived[f] = 0 BY <1>1, <2>1
  <2>3. Script[f] \in Seq(Nat) BY <2>1, FilesAssumption
  <2>4. DOMAIN Script[f] = 1..Len(Script[f]) BY <2>3, LenProperties
  <2> QED BY <2>2, <2>4
<1> QED BY <1>2, <1>3 DEF WholeInv, HeldOf, AnsweredOf

LEMMA WholeNow == ASSUME WholeInv PROVE AnswersWhole
  BY DEF WholeInv, AnsweredOf, AnswersWhole

(***************************************************************************)
(* What m_inbytes, m_inchars, m_inline, m_intext, m_inascii, m_inchar,     *)
(* m_read, m_decode and m_accept answer, when programs leave no escape with*)
(* the data of another and no peer stops inside the head of a coded term:  *)
(* the characters of their file in its order, as many as were asked for    *)
(* unless the file has ended, a line without its end, a term with as many  *)
(* bytes as its length bytes say; and where nobody else reads the file, the*)
(* ones right behind each other, those of a term right behind its length.  *)
(***************************************************************************)
THEOREM ReadsAnswerWhole == ASSUME Careful PROVE Spec => []AnswersWhole
<1>1. Init => WholeInv BY WholeAtFirst
<1>2. WaitInv /\ CareInv /\ WholeInv /\ [Next]_vars => WholeInv'
  <2> SUFFICES ASSUME WaitInv, CareInv, WholeInv, [Next]_vars PROVE WholeInv' OBVIOUS
  <2>1. CASE \E p \in Proc : Escape(p) BY <2>1, EscapeWhole
  <2>2. CASE trigger_io
    <3>1. UNCHANGED <<program, client, call, answer, taken, arrived, dropped>> BY <2>2 DEF trigger_io, inVars
    <3> QED BY <3>1, StillWhole
  <2>3. CASE \E f \in File : Outside(f)
    <3>1. PICK f \in File : Arrive(f) \/ Drain(f) \/ Reach(f) BY <2>3 DEF Outside
    <3>2. CASE Arrive(f) BY <3>2, ArriveWhole
    <3>3. CASE Drain(f) \/ Reach(f)
      <4>1. UNCHANGED <<program, client, call, answer, taken, arrived, dropped>>
        BY <3>3 DEF Drain, Reach, procVars, inVars
      <4> QED BY <4>1, StillWhole
    <3> QED BY <3>1, <3>2, <3>3
  <2>4. CASE UNCHANGED vars
    <3>1. UNCHANGED <<program, client, call, answer, taken, arrived, dropped>> BY <2>4 DEF vars, procVars, inVars
    <3> QED BY <3>1, StillWhole
  <2> QED BY <2>1, <2>2, <2>3, <2>4 DEF Next
<1>3. WholeInv => AnswersWhole BY WholeNow
<1> QED BY <1>1, <1>2, <1>3, WaitsAlways, CareAlways, PTL DEF Spec
=============================================================================
