---------------------------- MODULE MailboxProofs ----------------------------
(***************************************************************************)
(* The mailbox, for any number of messages: its queue is sound, nothing is *)
(* missed or looked at again, and it does what MessageQueue promises.      *)
(* Where _front_msg is used the messages are less than ten thousand: every *)
(* use counts the sequence number of the first message down, and ##Seq     *)
(* starts a receive at -10000.  And none is put in front, while another is *)
(* held for trial, with the number of that: see FrontMsg.                  *)
(***************************************************************************)
EXTENDS Mailbox, DataInduction, SequenceTheorems

\* How far down the messages put in front can have counted, A being all messages so far.
Fronted(A) == IF Fronting THEN Cardinality(A) ELSE 0

SafeNumbers == Fronted(Msg) < -NoneSeen /\ (Fronting => ~Clashing)

(***************************************************************************)
(* The records q as mb links them, front to back.  A back link is right or *)
(* missing.                                                                *)
(***************************************************************************)
Distinct(q) == \A i, j \in 1..Len(q) : q[i] = q[j] => i = j
Elements(q) == {q[i] : i \in 1..Len(q)}
At(q, i) == IF i \in 1..Len(q) THEN q[i] ELSE Nil

Chain(q, mb) ==
  /\ q \in Seq(Msg) /\ Distinct(q)
  /\ mb.mfront = At(q, 1) /\ mb.mback = At(q, Len(q))
  /\ \A i \in 1..Len(q) : mb.next[q[i]] = At(q, i + 1)
  /\ \A i \in 1..Len(q) : mb.prev[q[i]] \in {Nil, At(q, i - 1)}

Ascending(q, seq) == \A i, j \in 1..Len(q) : i < j => seq[q[i]] < seq[q[j]]

\* Sequence numbers count up from the last message, and down from the first, by one for
\* each of the n messages there have been at most.
Numbered(mb, n) == \A m \in Msg : mb.seq[m] \in -n .. mb.sequence

\* The back link of the first message behind number sc is right, if others are before it.
BackLinked(q, mb, sc) ==
  \A i \in 1..Len(q) : i > 1 /\ mb.seq[q[i - 1]] <= sc /\ mb.seq[q[i]] > sc
                       => mb.prev[q[i]] = q[i - 1]

Box == [mfront : Link, mback : Link, next : [Msg -> Link], prev : [Msg -> Link],
        sequence : Nat, seq : [Msg -> Int]]

Good(q, mb, n, sc) ==
  /\ mb \in Box
  /\ Chain(q, mb) /\ Ascending(q, mb.seq) /\ Numbered(mb, n) /\ BackLinked(q, mb, sc)

(***************************************************************************)
(* The invariant.                                                          *)
(***************************************************************************)
QueueRight == Good(Walk(mail), mail, Fronted(sent), scan)

ScanRight ==
  /\ scan \in NoneSeen .. mail.sequence
  /\ phase \in {"running", "resting"} => scan = NoneSeen

\* A message is held exactly while the patterns are tried on it.
HeldRight ==
  /\ phase = "trying" => held \in sent \ gone /\ scan = mail.seq[held]
  /\ phase # "trying" => held = Nil
  /\ held \notin Elements(Walk(mail))
  /\ \A m \in Elements(Walk(mail)) : held # Nil => mail.seq[m] # mail.seq[held]

\* All that lies before the cursor has been passed.
Passed(q, k) == \A i \in 1..k - 1 : mail.seq[q[i]] <= scan

CursorRight ==
  LET q == Walk(mail) IN
  /\ phase # "looking" => cursor = Nil
  /\ phase = "looking" =>
       \/ \E k \in 1..Len(q) : cursor = q[k] /\ Passed(q, k)
       \/ /\ cursor = Nil
          /\ \A m \in Elements(q) : mail.seq[m] <= scan \/ (from[m] = "ack" /\ escape # "wait")

MailInv ==
  /\ TypeOK /\ QueueRight /\ ScanRight
  /\ NothingLost /\ HeldRight /\ CursorRight /\ NoMessageMissed

-----------------------------------------------------------------------------
(***************************************************************************)
(* Putting a record in at place k, and taking it out.                      *)
(***************************************************************************)
With(q, k, m) ==
  [i \in 1..Len(q) + 1 |-> IF i < k THEN q[i] ELSE IF i = k THEN m ELSE q[i - 1]]
Without(q, k) == [i \in 1..Len(q) - 1 |-> IF i < k THEN q[i] ELSE q[i + 1]]

LEMMA SeqPlaces ==
  ASSUME NEW S, NEW q \in Seq(S)
  PROVE  Len(q) \in Nat /\ DOMAIN q = 1..Len(q) /\ \A i \in 1..Len(q) : q[i] \in S
  BY LenProperties

\* A function on an interval from 1 is a sequence.
LEMMA FunctionIsSeq ==
  ASSUME NEW S, NEW n \in Nat, NEW q, q = [i \in 1..n |-> q[i]], \A i \in 1..n : q[i] \in S
  PROVE  q \in Seq(S) /\ Len(q) = n
<1>1. q \in [1..n -> S] BY Zenon
<1>2. q \in Seq(S) BY <1>1, IsASeq
<1>3. DOMAIN q = 1..n BY <1>1
<1>4. Len(q) \in Nat /\ DOMAIN q = 1..Len(q) BY <1>2, LenProperties
<1> QED BY <1>2, <1>3, <1>4

LEMMA WithPlaces ==
  ASSUME NEW S, NEW q \in Seq(S), NEW k \in 1..Len(q) + 1, NEW m \in S
  PROVE  LET r == With(q, k, m)
         IN  /\ r \in Seq(S) /\ Len(r) = Len(q) + 1
             /\ \A i \in 1..Len(q) + 1 :
                  r[i] = IF i < k THEN q[i] ELSE IF i = k THEN m ELSE q[i - 1]
             /\ Elements(r) = Elements(q) \cup {m}
             /\ Distinct(q) /\ m \notin Elements(q) => Distinct(r)
<1> DEFINE n == Len(q)
           r == With(q, k, m)
<1>1. n \in Nat /\ k \in 1..n + 1 /\ \A i \in 1..n : q[i] \in S BY SeqPlaces
<1>2. r = [i \in 1..n + 1 |-> IF i < k THEN q[i] ELSE IF i = k THEN m ELSE q[i - 1]]
  BY DEF With
<1> HIDE DEF n, r
<1>3. \A i \in 1..n + 1 : r[i] = IF i < k THEN q[i] ELSE IF i = k THEN m ELSE q[i - 1]
  BY <1>2
<1>4. \A i \in 1..n + 1 : r[i] \in S BY <1>1, <1>3
<1>5. r = [i \in 1..n + 1 |-> r[i]] /\ n + 1 \in Nat BY <1>1, <1>2
<1>6. r \in Seq(S) /\ Len(r) = n + 1 BY <1>4, <1>5, FunctionIsSeq
<1>7. Elements(r) = Elements(q) \cup {m}
  <2>1. ASSUME NEW x \in Elements(r) PROVE x \in Elements(q) \cup {m}
    <3>1. PICK i \in 1..n + 1 : r[i] = x BY <1>6 DEF Elements
    <3> DEFINE j == IF i < k THEN i ELSE i - 1
    <3>2. i # k => j \in 1..n /\ x = q[j] BY <3>1, <1>1, <1>3
    <3>3. i = k => x = m BY <3>1, <1>3
    <3> QED BY <3>2, <3>3 DEF Elements, n
  <2>2. ASSUME NEW x \in Elements(q) PROVE x \in Elements(r)
    <3>1. PICK j \in 1..n : q[j] = x BY DEF Elements, n
    <3> DEFINE i == IF j < k THEN j ELSE j + 1
    <3>2. i \in 1..n + 1 /\ r[i] = x BY <3>1, <1>1, <1>3
    <3> QED BY <3>2, <1>6 DEF Elements
  <2>3. m \in Elements(r)
    <3>1. r[k] = m BY <1>1, <1>3
    <3> QED BY <3>1, <1>1, <1>6 DEF Elements
  <2> QED BY <2>1, <2>2, <2>3
<1>8. ASSUME Distinct(q), m \notin Elements(q) PROVE Distinct(r)
  <2>1. \A i, j \in 1..n : q[i] = q[j] => i = j BY <1>8 DEF Distinct, n
  <2>2. \A i \in 1..n : q[i] # m BY <1>8 DEF Elements, n
  <2> SUFFICES ASSUME NEW i \in 1..n + 1, NEW j \in 1..n + 1, r[i] = r[j] PROVE i = j
    BY <1>6 DEF Distinct
  <2> DEFINE at(l) == IF l < k THEN l ELSE l - 1
  <2>3. \A l \in 1..n + 1 : l # k => at(l) \in 1..n /\ r[l] = q[at(l)] BY <1>1, <1>3
  <2>4. r[k] = m BY <1>1, <1>3
  <2>5. CASE i = k \/ j = k BY <2>2, <2>3, <2>4, <2>5
  <2>6. CASE i # k /\ j # k
    <3>1. at(i) = at(j)
      <4> HIDE DEF at
      <4> QED BY <2>1, <2>3, <2>6
    <3> QED BY <3>1, <2>6, <1>1
  <2> QED BY <2>5, <2>6
<1> QED BY <1>3, <1>6, <1>7, <1>8 DEF n, r

LEMMA WithoutPlaces ==
  ASSUME NEW S, NEW q \in Seq(S), NEW k \in 1..Len(q), Distinct(q)
  PROVE  LET r == Without(q, k)
         IN  /\ r \in Seq(S) /\ Len(r) = Len(q) - 1
             /\ \A i \in 1..Len(q) - 1 : r[i] = IF i < k THEN q[i] ELSE q[i + 1]
             /\ Elements(r) = Elements(q) \ {q[k]}
             /\ Distinct(r)
<1> DEFINE n == Len(q)
           r == Without(q, k)
<1>1. n \in Nat /\ k \in 1..n /\ n - 1 \in Nat /\ \A i \in 1..n : q[i] \in S
  <2>1. n \in Nat /\ k \in 1..n /\ \A i \in 1..n : q[i] \in S BY SeqPlaces
  <2> HIDE DEF n
  <2> QED BY <2>1
<1>2. r = [i \in 1..n - 1 |-> IF i < k THEN q[i] ELSE q[i + 1]] BY DEF Without
<1>9. \A i, j \in 1..n : q[i] = q[j] => i = j BY DEF Distinct
<1> HIDE DEF n, r
<1>3. \A i \in 1..n - 1 : r[i] = IF i < k THEN q[i] ELSE q[i + 1] BY <1>2
<1>4. \A i \in 1..n - 1 : r[i] \in S BY <1>1, <1>3
<1>5. r = [i \in 1..n - 1 |-> r[i]] BY <1>2
<1>6. r \in Seq(S) /\ Len(r) = n - 1 BY <1>1, <1>4, <1>5, FunctionIsSeq
<1>7. Elements(r) = Elements(q) \ {q[k]}
  <2>1. ASSUME NEW x \in Elements(r) PROVE x \in Elements(q) \ {q[k]}
    <3>1. PICK i \in 1..n - 1 : r[i] = x BY <1>6 DEF Elements
    <3> DEFINE j == IF i < k THEN i ELSE i + 1
    <3>2. j \in 1..n /\ j # k /\ x = q[j] BY <3>1, <1>1, <1>3
    <3>3. x # q[k] BY <3>2, <1>1, <1>9
    <3> QED BY <3>2, <3>3 DEF Elements, n
  <2>2. ASSUME NEW x \in Elements(q), x # q[k] PROVE x \in Elements(r)
    <3>1. PICK j \in 1..n : q[j] = x BY DEF Elements, n
    <3> DEFINE i == IF j < k THEN j ELSE j - 1
    <3>2. j # k BY <3>1, <2>2
    <3>3. i \in 1..n - 1 /\ r[i] = x BY <3>1, <3>2, <1>1, <1>3
    <3> QED BY <3>3, <1>6 DEF Elements
  <2> QED BY <2>1, <2>2
<1>8. Distinct(r)
  <2> SUFFICES ASSUME NEW i \in 1..n - 1, NEW j \in 1..n - 1, r[i] = r[j] PROVE i = j
    BY <1>6 DEF Distinct
  <2> DEFINE at(l) == IF l < k THEN l ELSE l + 1
  <2>3. \A l \in 1..n - 1 : at(l) \in 1..n /\ r[l] = q[at(l)] BY <1>1, <1>3
  <2>4. at(i) = at(j)
    <3> HIDE DEF at
    <3> QED BY <2>3, <1>9
  <2> QED BY <2>4, <1>1
<1> QED BY <1>3, <1>6, <1>7, <1>8 DEF n, r

-----------------------------------------------------------------------------
(***************************************************************************)
(* The walk along a chain meets its records in their order.                *)
(***************************************************************************)
LEMMA LenIsCardinality ==
  ASSUME NEW S, NEW q \in Seq(S), Distinct(q)
  PROVE  IsFiniteSet(Elements(q)) /\ Cardinality(Elements(q)) = Len(q)
<1> DEFINE n == Len(q)
<1>1. n \in Nat /\ DOMAIN q = 1..n /\ q \in [1..n -> S] BY LenProperties
<1>2. q \in Bijection(1..n, Elements(q))
  BY <1>1 DEF Bijection, Injection, Surjection, IsInjective, Elements, Distinct
<1>3. ExistsBijection(1..n, Elements(q)) BY <1>2 DEF ExistsBijection
<1>4. IsFiniteSet(1..n) /\ Cardinality(1..n) = n
  <2> HIDE DEF n
  <2> QED BY <1>1, FS_Interval
<1> QED BY <1>3, <1>4, FS_Bijection

\* The n first places of f are what a walk along nx from a meets.
Follows(n, f, a, nx) ==
  \A i \in 1..n : f[i] = IF i = 1 THEN a ELSE IF f[i - 1] = Nil THEN Nil ELSE nx[f[i - 1]]

LEMMA SameWalk ==
  ASSUME NEW n \in Nat, NEW f, NEW g, NEW a, NEW nx,
         Follows(n, f, a, nx), Follows(n, g, a, nx)
  PROVE  \A i \in 1..n : f[i] = g[i]
<1> DEFINE T == {i \in 1..n : f[i] # g[i]}
<1> SUFFICES ASSUME T # {} PROVE FALSE OBVIOUS
<1>1. T \subseteq Nat OBVIOUS
<1> HIDE DEF T
<1>2. PICK i \in T : \A j \in T : i <= j BY <1>1, LeastNat
<1>3. i \in 1..n /\ f[i] # g[i] BY DEF T
<1>4. CASE i = 1 BY <1>3, <1>4 DEF Follows
<1>5. CASE i # 1
  <2>1. i - 1 \in 1..n /\ ~(i <= i - 1) BY <1>3, <1>5
  <2>2. f[i - 1] = g[i - 1] BY <1>2, <2>1 DEF T
  <2> QED BY <1>3, <1>5, <2>2 DEF Follows
<1> QED BY <1>4, <1>5

LEMMA WalkIsChain ==
  ASSUME NEW q, NEW mb, Chain(q, mb)
  PROVE  Walk(mb) = q
<1> DEFINE n == Cardinality(Msg)
           k == Len(q)
<1>1. k \in Nat /\ q = [i \in 1..k |-> q[i]] /\ \A i \in 1..k : q[i] \in Msg /\ q[i] # Nil
  BY LenProperties, MailboxAssumption DEF Chain
<1>2. n \in Nat /\ k <= n
  <2>1. IsFiniteSet(Elements(q)) /\ Cardinality(Elements(q)) = k BY LenIsCardinality DEF Chain
  <2>2. Elements(q) \subseteq Msg BY <1>1 DEF Elements
  <2> QED BY <2>1, <2>2, MailboxAssumption, FS_Subset, FS_CardinalityType
<1>3. mb.mfront = At(q, 1) /\ \A i \in 1..k : mb.next[q[i]] = At(q, i + 1) BY DEF Chain
<1>4. \A i : At(q, i) = IF i \in 1..k THEN q[i] ELSE Nil BY DEF At
<1> HIDE DEF n, k
<1> DEFINE Def(g) == [i \in 1..n |-> IF i = 1 THEN mb.mfront
                                     ELSE IF g[i - 1] = Nil THEN Nil ELSE mb.next[g[i - 1]]]
           at == CHOOSE g : g = Def(g)
           f == [i \in 1..n |-> At(q, i)]
<1>5. \A i \in 1..n : f[i] = IF i = 1 THEN mb.mfront
                             ELSE IF f[i - 1] = Nil THEN Nil ELSE mb.next[f[i - 1]]
  <2> SUFFICES ASSUME NEW i \in 1..n, i # 1
               PROVE  f[i] = IF f[i - 1] = Nil THEN Nil ELSE mb.next[f[i - 1]]
    BY <1>3
  <2>1. i - 1 \in 1..n BY <1>2
  <2>2. f[i] = At(q, i) /\ f[i - 1] = At(q, i - 1) BY <2>1
  <2>3. CASE i - 1 \in 1..k
    <3>1. i - 1 + 1 = i BY <1>2
    <3>2. f[i - 1] = q[i - 1] /\ q[i - 1] # Nil BY <2>2, <2>3, <1>1, <1>4
    <3>3. mb.next[q[i - 1]] = At(q, i) BY <2>3, <3>1, <1>3
    <3> QED BY <2>2, <3>2, <3>3
  <2>4. CASE i - 1 \notin 1..k
    <3>1. i \notin 1..k BY <2>1, <2>4, <1>1
    <3> QED BY <2>2, <2>4, <3>1, <1>4
  <2> QED BY <2>3, <2>4
<1>6. f = Def(f) BY <1>5
<1>7. at = Def(at)
  <2> HIDE DEF Def, f
  <2> QED BY <1>6
<1>8. \A i \in 1..n : at[i] = At(q, i)
  <2>1. Follows(n, at, mb.mfront, mb.next)
    <3> HIDE DEF at
    <3> QED BY <1>7 DEF Follows
  <2>2. Follows(n, f, mb.mfront, mb.next)
    <3> HIDE DEF f
    <3> QED BY <1>5 DEF Follows
  <2> HIDE DEF at
  <2>3. \A i \in 1..n : at[i] = f[i]
    <3> HIDE DEF f
    <3> QED BY <2>1, <2>2, <1>2, SameWalk
  <2> QED BY <2>3
<1>9. Walk(mb) = [i \in 1..Cardinality({j \in 1..n : at[j] # Nil}) |-> at[i]] BY DEF Walk, n
<1> HIDE DEF at, f, Def
<1>10. {j \in 1..n : at[j] # Nil} = 1..k
  <2>1. \A j \in 1..n : at[j] # Nil <=> j \in 1..k BY <1>1, <1>4, <1>8
  <2>2. 1..k \subseteq 1..n BY <1>1, <1>2
  <2> QED BY <2>1, <2>2
<1>11. Cardinality(1..k) = k BY <1>1, FS_Interval
<1>12. Walk(mb) = [i \in 1..k |-> at[i]] BY <1>9, <1>10, <1>11
<1>13. \A i \in 1..k : at[i] = q[i] BY <1>1, <1>2, <1>4, <1>8
<1> QED BY <1>12, <1>13, <1>1

-----------------------------------------------------------------------------
(***************************************************************************)
(* The relinkings: what each does to a chain.                              *)
(***************************************************************************)
\* At is about any place, also those just outside q.
LEMMA AtPlaces ==
  ASSUME NEW q, NEW mb, Chain(q, mb)
  PROVE  /\ Len(q) \in Nat
         /\ \A i \in Int : IF i \in 1..Len(q) THEN At(q, i) = q[i] /\ At(q, i) \in Elements(q)
                                              ELSE At(q, i) = Nil
         /\ \A i, j \in Int : At(q, i) = At(q, j) => i = j \/ At(q, i) = Nil
         /\ Elements(q) \subseteq Msg /\ Nil \notin Elements(q)
<1>1. Len(q) \in Nat /\ \A i \in 1..Len(q) : q[i] \in Msg BY LenProperties DEF Chain
<1>2. \A i, j \in 1..Len(q) : q[i] = q[j] => i = j BY DEF Chain, Distinct
<1>3. Elements(q) \subseteq Msg /\ Nil \notin Elements(q)
  BY <1>1, MailboxAssumption DEF Elements
<1>4. \A i \in Int : IF i \in 1..Len(q) THEN At(q, i) = q[i] /\ At(q, i) \in Elements(q)
                                          ELSE At(q, i) = Nil
  BY DEF At, Elements
<1>5. \A i \in Int : At(q, i) # Nil => i \in 1..Len(q) /\ At(q, i) = q[i] BY <1>4
<1>6. ASSUME NEW i \in Int, NEW j \in Int, At(q, i) = At(q, j), At(q, i) # Nil PROVE i = j
  <2>1. i \in 1..Len(q) /\ j \in 1..Len(q) /\ q[i] = q[j] BY <1>5, <1>6
  <2> QED BY <2>1, <1>2
<1> QED BY <1>1, <1>3, <1>4, <1>6

LEMMA WithAt ==
  ASSUME NEW q \in Seq(Msg), NEW k \in 1..Len(q) + 1, NEW m \in Msg, NEW i \in Int
  PROVE  At(With(q, k, m), i) = IF i < k THEN At(q, i) ELSE IF i = k THEN m ELSE At(q, i - 1)
<1> DEFINE n == Len(q)
           r == With(q, k, m)
<1> SUFFICES At(r, i) = IF i < k THEN At(q, i) ELSE IF i = k THEN m ELSE At(q, i - 1)
  OBVIOUS
<1>1. n \in Nat /\ k \in 1..n + 1 BY LenProperties
<1>2. Len(r) = n + 1
      /\ \A j \in 1..n + 1 : r[j] = IF j < k THEN q[j] ELSE IF j = k THEN m ELSE q[j - 1]
  BY WithPlaces
<1>3. At(r, i) = (IF i \in 1..n + 1 THEN r[i] ELSE Nil) BY <1>2 DEF At
<1>4. At(q, i) = (IF i \in 1..n THEN q[i] ELSE Nil) BY DEF At
<1>5. At(q, i - 1) = (IF i - 1 \in 1..n THEN q[i - 1] ELSE Nil) BY DEF At
<1> HIDE DEF n, r
<1>6. CASE i < k
  <2>1. i \in 1..n <=> i \in 1..n + 1 BY <1>1, <1>6
  <2> QED BY <2>1, <1>2, <1>3, <1>4, <1>6
<1>7. CASE i = k BY <1>1, <1>2, <1>3, <1>7
<1>8. CASE i > k
  <2>1. i - 1 \in 1..n <=> i \in 1..n + 1 BY <1>1, <1>8
  <2>2. ~(i < k) /\ i # k BY <1>1, <1>8
  <2> QED BY <2>1, <2>2, <1>2, <1>3, <1>5
<1>9. i < k \/ i = k \/ i > k BY <1>1
<1> QED BY <1>6, <1>7, <1>8, <1>9

LEMMA WithoutAt ==
  ASSUME NEW q \in Seq(Msg), NEW k \in 1..Len(q), Distinct(q), NEW i \in Int
  PROVE  At(Without(q, k), i) = IF i < k THEN At(q, i) ELSE At(q, i + 1)
<1> DEFINE n == Len(q)
           r == Without(q, k)
<1> SUFFICES At(r, i) = IF i < k THEN At(q, i) ELSE At(q, i + 1) OBVIOUS
<1>1. n \in Nat /\ k \in 1..n BY LenProperties
<1>2. Len(r) = n - 1 /\ \A j \in 1..n - 1 : r[j] = IF j < k THEN q[j] ELSE q[j + 1]
  BY WithoutPlaces
<1>3. At(r, i) = (IF i \in 1..n - 1 THEN r[i] ELSE Nil) BY <1>2 DEF At
<1>4. At(q, i) = (IF i \in 1..n THEN q[i] ELSE Nil) BY DEF At
<1>5. At(q, i + 1) = (IF i + 1 \in 1..n THEN q[i + 1] ELSE Nil) BY DEF At
<1> HIDE DEF n, r
<1>6. CASE i < k
  <2>1. i \in 1..n <=> i \in 1..n - 1 BY <1>1, <1>6
  <2> QED BY <2>1, <1>2, <1>3, <1>4, <1>6
<1>7. CASE ~(i < k)
  <2>1. i + 1 \in 1..n <=> i \in 1..n - 1 BY <1>1, <1>7
  <2> QED BY <2>1, <1>2, <1>3, <1>5, <1>7
<1> QED BY <1>6, <1>7

\* A chain is known by its places: the links of place i lead to the next and the last.
LEMMA ChainByPlaces ==
  ASSUME NEW r \in Seq(Msg), Distinct(r), NEW mb,
         mb.mfront = At(r, 1), mb.mback = At(r, Len(r)),
         \A i \in 1..Len(r) : /\ mb.next[At(r, i)] = At(r, i + 1)
                              /\ mb.prev[At(r, i)] \in {Nil, At(r, i - 1)}
  PROVE  Chain(r, mb)
<1>1. \A i \in 1..Len(r) : At(r, i) = r[i] BY DEF At
<1> QED BY <1>1 DEF Chain

LEMMA LinkedChain ==
  ASSUME NEW mb \in Box, NEW q, Chain(q, mb), NEW k \in 1..Len(q) + 1,
         NEW m \in Msg, m \notin Elements(q)
  PROVE  LET new == Linked(mb, At(q, k - 1), m, At(q, k))
         IN  /\ new \in Box /\ Chain(With(q, k, m), new)
             /\ new.seq = mb.seq /\ new.sequence = mb.sequence
             /\ \A x \in Msg : new.prev[x] = IF x = At(q, k) THEN m ELSE
                                             IF x = m THEN At(q, k - 1) ELSE mb.prev[x]
<1> DEFINE n == Len(q)
           r == With(q, k, m)
           a == At(q, k - 1)
           b == At(q, k)
           new == Linked(mb, a, m, b)
           A(i) == At(q, i)
<1>1. q \in Seq(Msg) /\ Distinct(q) BY DEF Chain
<1>2. /\ n \in Nat /\ k \in 1..n + 1
      /\ \A i \in Int : IF i \in 1..n THEN A(i) = q[i] /\ A(i) \in Elements(q) ELSE A(i) = Nil
      /\ \A i, j \in Int : A(i) = A(j) => i = j \/ A(i) = Nil
      /\ Elements(q) \subseteq Msg /\ Nil \notin Elements(q)
  BY AtPlaces
<1>3. r \in Seq(Msg) /\ Len(r) = n + 1 /\ Distinct(r) BY <1>1, WithPlaces
<1>4. \A i \in Int : At(r, i) = IF i < k THEN A(i) ELSE IF i = k THEN m ELSE A(i - 1)
  BY <1>1, WithAt
<1>5. mb.mfront = A(1) /\ mb.mback = A(n) BY DEF Chain
<1>6. \A i \in 1..n : mb.next[A(i)] = A(i + 1) /\ mb.prev[A(i)] \in {Nil, A(i - 1)}
  BY <1>2 DEF Chain
<1>7. a = A(k - 1) /\ b = A(k) OBVIOUS
<1> HIDE DEF n, r, a, b, A
<1>8. a \in Link /\ b \in Link /\ m \in Link /\ a # m /\ b # m /\ Nil # m
  <2>1. k - 1 \in Int /\ k \in Int BY <1>2
  <2>2. a \in Elements(q) \cup {Nil} /\ b \in Elements(q) \cup {Nil} BY <1>2, <1>7, <2>1
  <2> QED BY <2>2, <1>2, MailboxAssumption DEF Link
<1>9. /\ new \in Box /\ new.seq = mb.seq /\ new.sequence = mb.sequence
      /\ new.mfront = (IF a = Nil THEN m ELSE mb.mfront)
      /\ new.mback = (IF b = Nil THEN m ELSE mb.mback)
      /\ \A x \in Msg : new.next[x] = IF x = a THEN m ELSE IF x = m THEN b ELSE mb.next[x]
      /\ \A x \in Msg : new.prev[x] = IF x = b THEN m ELSE IF x = m THEN a ELSE mb.prev[x]
  BY <1>8 DEF Linked, Box
<1> HIDE DEF new
<1>10. a = Nil <=> k = 1 BY <1>2, <1>7
<1>11. b = Nil <=> k = n + 1 BY <1>2, <1>7
<1>12. new.mfront = At(r, 1) BY <1>2, <1>4, <1>5, <1>9, <1>10
<1>13. new.mback = At(r, n + 1)
  <2>1. CASE k = n + 1 BY <2>1, <1>2, <1>4, <1>9, <1>11
  <2>2. CASE k # n + 1
    <3>1. At(r, n + 1) = A(n) BY <2>2, <1>2, <1>4
    <3> QED BY <3>1, <2>2, <1>5, <1>9, <1>11
  <2> QED BY <2>1, <2>2
<1>14. ASSUME NEW i \in 1..n + 1
       PROVE  /\ new.next[At(r, i)] = At(r, i + 1)
              /\ new.prev[At(r, i)] \in {Nil, At(r, i - 1)}
  <2>1. CASE i < k
    <3>1. i \in 1..n /\ i \in Int /\ i + 1 \in Int /\ i - 1 \in Int BY <2>1, <1>2
    <3>2. At(r, i) = A(i) /\ A(i) \in Msg /\ A(i) # Nil /\ A(i) # m BY <3>1, <2>1, <1>2, <1>4
    <3>3. A(i) = a <=> i + 1 = k BY <3>1, <3>2, <1>2, <1>7
    <3>4. A(i) # b BY <3>1, <3>2, <2>1, <1>2, <1>7
    <3>5. At(r, i + 1) = IF i + 1 = k THEN m ELSE A(i + 1) BY <3>1, <2>1, <1>2, <1>4
    <3>6. At(r, i - 1) = A(i - 1) BY <3>1, <2>1, <1>2, <1>4
    <3> QED BY <3>1, <3>2, <3>3, <3>4, <3>5, <3>6, <1>6, <1>9
  <2>2. CASE i = k
    <3>1. At(r, i) = m BY <2>2, <1>4
    <3>2. At(r, i + 1) = b /\ At(r, i - 1) = a BY <2>2, <1>2, <1>4, <1>7
    <3> QED BY <3>1, <3>2, <1>8, <1>9
  <2>3. CASE i > k
    <3>1. i - 1 \in 1..n /\ i \in Int /\ i - 1 \in Int /\ i + 1 \in Int /\ (i - 1) + 1 = i
          /\ (i + 1) - 1 = i /\ (i - 1) - 1 \in Int /\ i - 1 # k - 1
      BY <2>3, <1>2
    <3>2. At(r, i) = A(i - 1) /\ At(r, i + 1) = A(i) BY <3>1, <2>3, <1>2, <1>4
    <3>3. A(i - 1) \in Msg /\ A(i - 1) # Nil /\ A(i - 1) # m BY <3>1, <1>2
    <3>4. A(i - 1) # a BY <3>1, <3>3, <1>2, <1>7
    <3>5. A(i - 1) = b <=> i - 1 = k BY <3>1, <3>3, <1>2, <1>7
    <3>6. At(r, i - 1) = IF i - 1 = k THEN m ELSE A((i - 1) - 1) BY <3>1, <2>3, <1>2, <1>4
    <3>7. mb.next[A(i - 1)] = A(i) /\ mb.prev[A(i - 1)] \in {Nil, A((i - 1) - 1)}
      BY <3>1, <1>6
    <3> QED BY <3>2, <3>3, <3>4, <3>5, <3>6, <3>7, <1>9
  <2> QED BY <2>1, <2>2, <2>3, <1>2
<1>15. Chain(r, new) BY <1>3, <1>12, <1>13, <1>14, ChainByPlaces
<1> QED BY <1>9, <1>15 DEF r, a, b, new

LEMMA UnlinkedChain ==
  ASSUME NEW mb \in Box, NEW q, Chain(q, mb), NEW k \in 1..Len(q),
         mb.prev[q[k]] = At(q, k - 1)
  PROVE  LET new == Unlinked(mb, q[k])
         IN  /\ new \in Box /\ Chain(Without(q, k), new)
             /\ new.seq = mb.seq /\ new.sequence = mb.sequence
             /\ \A x \in Msg : new.prev[x] = IF x = At(q, k + 1) THEN At(q, k - 1) ELSE mb.prev[x]
<1> DEFINE n == Len(q)
           r == Without(q, k)
           m == q[k]
           a == At(q, k - 1)
           b == At(q, k + 1)
           new == Unlinked(mb, m)
           A(i) == At(q, i)
<1>1. q \in Seq(Msg) /\ Distinct(q) BY DEF Chain
<1>2. /\ n \in Nat /\ k \in 1..n
      /\ \A i \in Int : IF i \in 1..n THEN A(i) = q[i] /\ A(i) \in Elements(q) ELSE A(i) = Nil
      /\ \A i, j \in Int : A(i) = A(j) => i = j \/ A(i) = Nil
      /\ Elements(q) \subseteq Msg /\ Nil \notin Elements(q)
  BY AtPlaces
<1>3. r \in Seq(Msg) /\ Len(r) = n - 1 /\ Distinct(r) BY <1>1, WithoutPlaces
<1>4. \A i \in Int : At(r, i) = IF i < k THEN A(i) ELSE A(i + 1) BY <1>1, WithoutAt
<1>5. mb.mfront = A(1) /\ mb.mback = A(n) BY DEF Chain
<1>6. \A i \in 1..n : mb.next[A(i)] = A(i + 1) /\ mb.prev[A(i)] \in {Nil, A(i - 1)}
  BY <1>2, SMTT(30) DEF Chain
<1>7. a = A(k - 1) /\ b = A(k + 1) /\ m = A(k) BY <1>2
<1>8. mb.next[m] = b /\ mb.prev[m] = a BY <1>2, <1>6, <1>7
<1> HIDE DEF n, r, a, b, m, A
<1>9. a \in Link /\ b \in Link /\ m \in Msg
  <2>1. k - 1 \in Int /\ k + 1 \in Int /\ k \in Int BY <1>2
  <2>2. a \in Elements(q) \cup {Nil} /\ b \in Elements(q) \cup {Nil} /\ m \in Elements(q)
    BY <1>2, <1>7, <2>1
  <2> QED BY <2>2, <1>2 DEF Link
<1>10. /\ new \in Box /\ new.seq = mb.seq /\ new.sequence = mb.sequence
       /\ new.mfront = (IF a = Nil THEN b ELSE mb.mfront)
       /\ new.mback = (IF b = Nil THEN a ELSE mb.mback)
       /\ \A x \in Msg : new.next[x] = IF x = a THEN b ELSE mb.next[x]
       /\ \A x \in Msg : new.prev[x] = IF x = b THEN a ELSE mb.prev[x]
  BY <1>8, <1>9 DEF Unlinked, Box
<1> HIDE DEF new
<1>11. a = Nil <=> k = 1 BY <1>2, <1>7
<1>12. b = Nil <=> k = n BY <1>2, <1>7
<1>13. new.mfront = At(r, 1)
  <2>1. CASE k = 1 BY <2>1, <1>2, <1>4, <1>7, <1>10, <1>11
  <2>2. CASE k # 1 BY <2>2, <1>2, <1>4, <1>5, <1>10, <1>11
  <2> QED BY <2>1, <2>2
<1>14. new.mback = At(r, n - 1)
  <2>1. CASE k = n
    <3>1. At(r, n - 1) = A(n - 1) BY <2>1, <1>2, <1>4
    <3> QED BY <3>1, <2>1, <1>7, <1>10, <1>12
  <2>2. CASE k # n
    <3>1. At(r, n - 1) = A(n) BY <2>2, <1>2, <1>4
    <3> QED BY <3>1, <2>2, <1>5, <1>10, <1>12
  <2> QED BY <2>1, <2>2
<1>15. ASSUME NEW i \in 1..n - 1
       PROVE  /\ new.next[At(r, i)] = At(r, i + 1)
              /\ new.prev[At(r, i)] \in {Nil, At(r, i - 1)}
  <2>1. CASE i < k
    <3>1. i \in 1..n /\ i \in Int /\ i + 1 \in Int /\ i - 1 \in Int /\ k + 1 \in Int /\ i # k + 1
      BY <2>1, <1>2
    <3>2. At(r, i) = A(i) /\ A(i) \in Msg /\ A(i) # Nil BY <3>1, <2>1, <1>2, <1>4
    <3>3. A(i) = a <=> i + 1 = k BY <3>1, <3>2, <1>2, <1>7
    <3>4. A(i) # b BY <3>1, <3>2, <1>2, <1>7
    <3>5. At(r, i + 1) = IF i + 1 = k THEN b ELSE A(i + 1)
      <4>1. i + 1 < k \/ i + 1 = k BY <2>1, <1>2
      <4>2. i + 1 = k => ~(i + 1 < k) BY <1>2
      <4> QED BY <4>1, <4>2, <3>1, <1>4, <1>7
    <3>6. At(r, i - 1) = A(i - 1) BY <3>1, <2>1, <1>2, <1>4
    <3> QED BY <3>1, <3>2, <3>3, <3>4, <3>5, <3>6, <1>6, <1>10
  <2>2. CASE ~(i < k)
    <3>1. i + 1 \in 1..n /\ i \in Int /\ i + 1 \in Int /\ i + 1 + 1 \in Int /\ i - 1 \in Int
          /\ (i + 1) - 1 = i /\ k + 1 \in Int /\ k - 1 \in Int /\ i + 1 # k - 1 /\ ~(i + 1 < k)
      BY <2>2, <1>2
    <3>2. At(r, i) = A(i + 1) /\ At(r, i + 1) = A(i + 1 + 1) BY <3>1, <2>2, <1>4
    <3>3. A(i + 1) \in Msg /\ A(i + 1) # Nil BY <3>1, <1>2
    <3>4. A(i + 1) # a BY <3>1, <3>3, <1>2, <1>7
    <3>5. A(i + 1) = b <=> i = k
      <4>1. A(i + 1) = b => i + 1 = k + 1 BY <3>1, <3>3, <1>2, <1>7
      <4>2. i + 1 = k + 1 <=> i = k
        <5>1. i \in Int /\ k \in Int BY <1>2
        <5> QED BY <5>1
      <4> QED BY <4>1, <4>2, <1>7
    <3>6. At(r, i - 1) = IF i = k THEN a ELSE A(i)
      <4>1. i = k => i - 1 < k BY <3>1
      <4>2. i # k => ~(i - 1 < k) /\ i - 1 + 1 = i BY <2>2, <3>1, <1>2
      <4> QED BY <4>1, <4>2, <3>1, <1>4, <1>7
    <3>7. mb.next[A(i + 1)] = A(i + 1 + 1) /\ mb.prev[A(i + 1)] \in {Nil, A(i)}
      BY <3>1, <1>6
    <3> QED BY <3>2, <3>3, <3>4, <3>5, <3>6, <3>7, <1>10
  <2> QED BY <2>1, <2>2
<1>16. Chain(r, new) BY <1>3, <1>13, <1>14, <1>15, ChainByPlaces
<1> QED BY <1>10, <1>16 DEF r, a, b, m, new

LEMMA AppendedChain ==
  ASSUME NEW mb \in Box, NEW q, Chain(q, mb), NEW m \in Msg, m \notin Elements(q)
  PROVE  LET new == Appended(mb, m)
         IN  /\ new \in Box /\ Chain(With(q, Len(q) + 1, m), new)
             /\ new.seq = [mb.seq EXCEPT ![m] = mb.sequence + 1]
             /\ new.sequence = mb.sequence + 1
             /\ \A x \in Msg : new.prev[x] = IF x = m THEN At(q, Len(q)) ELSE mb.prev[x]
<1> DEFINE k == Len(q) + 1
           nb == [mb EXCEPT !.sequence = @ + 1, !.seq[m] = mb.sequence + 1]
<1>1. /\ nb \in Box /\ nb.seq = [mb.seq EXCEPT ![m] = mb.sequence + 1]
      /\ nb.sequence = mb.sequence + 1
      /\ nb.mfront = mb.mfront /\ nb.mback = mb.mback /\ nb.next = mb.next /\ nb.prev = mb.prev
  <2> DEFINE sq == [mb.seq EXCEPT ![m] = mb.sequence + 1]
  <2>1. sq \in [Msg -> Int] /\ mb.sequence + 1 \in Nat BY DEF Box
  <2>2. nb = [mb EXCEPT !.sequence = mb.sequence + 1, !.seq = sq] BY DEF Box
  <2> HIDE DEF sq, nb
  <2>3. nb \in Box BY <2>1, <2>2 DEF Box
  <2>4. nb.seq = sq /\ nb.sequence = mb.sequence + 1 BY <2>1, <2>2 DEF Box
  <2>5. nb.mfront = mb.mfront /\ nb.mback = mb.mback /\ nb.next = mb.next /\ nb.prev = mb.prev
    BY <2>1, <2>2 DEF Box
  <2> QED BY <2>3, <2>4, <2>5 DEF sq
<1>2. Appended(mb, m) = Linked(nb, mb.mback, m, Nil) BY DEF Appended
<1> HIDE DEF nb
<1>3. Chain(q, nb) BY <1>1 DEF Chain
<1>4. Len(q) \in Nat /\ k - 1 = Len(q) /\ k \in 1..Len(q) + 1 BY LenProperties DEF Chain
<1>5. At(q, k - 1) = mb.mback /\ At(q, k) = Nil
  <2>1. k \notin 1..Len(q) BY <1>4
  <2> QED BY <1>4, <2>1 DEF Chain, At
<1> HIDE DEF k
<1>6. /\ Appended(mb, m) \in Box /\ Chain(With(q, k, m), Appended(mb, m))
      /\ Appended(mb, m).seq = nb.seq /\ Appended(mb, m).sequence = nb.sequence
      /\ \A x \in Msg : Appended(mb, m).prev[x] = IF x = Nil THEN m ELSE
                                                  IF x = m THEN At(q, k - 1) ELSE nb.prev[x]
  BY <1>1, <1>2, <1>3, <1>4, <1>5, LinkedChain
<1>7. \A x \in Msg : x # Nil BY MailboxAssumption
<1> QED BY <1>1, <1>4, <1>6, <1>7 DEF k

LEMMA FrontChain ==
  ASSUME NEW mb \in Box, NEW q, Chain(q, mb), mb.mfront # Nil, NEW m \in Msg, m \notin Elements(q)
  PROVE  LET new == PutFront(mb, m)
         IN  /\ new \in Box /\ Chain(With(q, 1, m), new)
             /\ new.seq = [mb.seq EXCEPT ![m] = mb.seq[mb.mfront] - 1]
             /\ new.sequence = mb.sequence
             /\ \A x \in Msg : new.prev[x] = IF x = m THEN Nil ELSE mb.prev[x]
<1> DEFINE n == Len(q)
           r == With(q, 1, m)
           new == PutFront(mb, m)
           A(i) == At(q, i)
<1>1. q \in Seq(Msg) /\ Distinct(q) BY DEF Chain
<1>2. /\ n \in Nat /\ 1 \in 1..n + 1
      /\ \A i \in Int : IF i \in 1..n THEN A(i) = q[i] /\ A(i) \in Elements(q) ELSE A(i) = Nil
      /\ Elements(q) \subseteq Msg /\ Nil \notin Elements(q)
  <2>1. n \in Nat BY AtPlaces
  <2>2. 1 \in 1..n + 1
    <3> HIDE DEF n
    <3> QED BY <2>1
  <2> QED BY <2>1, <2>2, AtPlaces
<1>3. r \in Seq(Msg) /\ Len(r) = n + 1 /\ Distinct(r) BY <1>1, <1>2, WithPlaces
<1>4. \A i \in Int : At(r, i) = IF i < 1 THEN A(i) ELSE IF i = 1 THEN m ELSE A(i - 1)
  BY <1>1, <1>2, WithAt
<1>5. mb.mfront = A(1) /\ mb.mback = A(n) BY DEF Chain
<1>6. \A i \in 1..n : mb.next[A(i)] = A(i + 1) /\ mb.prev[A(i)] \in {Nil, A(i - 1)}
  BY <1>2 DEF Chain
<1> HIDE DEF n, r, A
<1>7. n # 0 /\ mb.mfront \in Msg /\ Nil \notin Msg BY <1>2, <1>5, MailboxAssumption
<1>8. /\ new \in Box /\ new.seq = [mb.seq EXCEPT ![m] = mb.seq[mb.mfront] - 1]
      /\ new.sequence = mb.sequence /\ new.mfront = m /\ new.mback = mb.mback
      /\ \A x \in Msg : new.next[x] = IF x = m THEN mb.mfront ELSE mb.next[x]
      /\ \A x \in Msg : new.prev[x] = IF x = m THEN Nil ELSE mb.prev[x]
  <2> DEFINE sq == [mb.seq EXCEPT ![m] = mb.seq[mb.mfront] - 1]
             nx == [mb.next EXCEPT ![m] = mb.mfront]
             pv == [mb.prev EXCEPT ![m] = Nil]
  <2>1. /\ sq \in [Msg -> Int] /\ nx \in [Msg -> Link] /\ pv \in [Msg -> Link] /\ m \in Link
        /\ \A x \in Msg : nx[x] = IF x = m THEN mb.mfront ELSE mb.next[x]
        /\ \A x \in Msg : pv[x] = IF x = m THEN Nil ELSE mb.prev[x]
    BY <1>7 DEF Box, Link
  <2>2. new = [mb EXCEPT !.seq = sq, !.next = nx, !.prev = pv, !.mfront = m]
    BY <1>7 DEF Box, PutFront
  <2> HIDE DEF sq, nx, pv, new
  <2>3. new \in Box BY <2>1, <2>2 DEF Box
  <2>4. /\ new.seq = sq /\ new.sequence = mb.sequence /\ new.mfront = m
        /\ new.mback = mb.mback /\ new.next = nx /\ new.prev = pv
    BY <2>1, <2>2 DEF Box
  <2>5. new.seq = [mb.seq EXCEPT ![m] = mb.seq[mb.mfront] - 1] BY <2>4 DEF sq
  <2>6. \A x \in Msg : new.next[x] = IF x = m THEN mb.mfront ELSE mb.next[x] BY <2>1, <2>4
  <2>7. \A x \in Msg : new.prev[x] = IF x = m THEN Nil ELSE mb.prev[x] BY <2>1, <2>4
  <2> QED BY <2>3, <2>4, <2>5, <2>6, <2>7
<1> HIDE DEF new
<1>9. new.mfront = At(r, 1) BY <1>4, <1>8
<1>10. new.mback = At(r, n + 1) BY <1>2, <1>4, <1>5, <1>7, <1>8
<1>11. ASSUME NEW i \in 1..n + 1
       PROVE  /\ new.next[At(r, i)] = At(r, i + 1)
              /\ new.prev[At(r, i)] \in {Nil, At(r, i - 1)}
  <2>1. CASE i = 1 BY <2>1, <1>2, <1>4, <1>5, <1>7, <1>8
  <2>2. CASE i # 1
    <3>1. i - 1 \in 1..n /\ i \in Int /\ i - 1 \in Int /\ i + 1 \in Int /\ (i - 1) + 1 = i
          /\ (i + 1) - 1 = i /\ (i - 1) - 1 \in Int /\ ~(i < 1) /\ ~(i + 1 < 1) /\ i + 1 # 1
      BY <2>2, <1>2
    <3>2. At(r, i) = A(i - 1) /\ At(r, i + 1) = A(i) BY <3>1, <2>2, <1>4
    <3>3. A(i - 1) \in Msg /\ A(i - 1) # m BY <3>1, <1>2
    <3>4. mb.next[A(i - 1)] = A(i) /\ mb.prev[A(i - 1)] \in {Nil, A((i - 1) - 1)}
      BY <3>1, <1>6
    <3>5. (i - 1) - 1 \in 1..n => At(r, i - 1) = A((i - 1) - 1)
      <4>1. (i - 1) - 1 \in 1..n => ~(i - 1 < 1) /\ i - 1 # 1 BY <3>1
      <4> QED BY <4>1, <3>1, <1>4
    <3>6. (i - 1) - 1 \notin 1..n => A((i - 1) - 1) = Nil BY <3>1, <1>2
    <3> QED BY <3>2, <3>3, <3>4, <3>5, <3>6, <1>8
  <2> QED BY <2>1, <2>2
<1>12. Chain(r, new) BY <1>3, <1>9, <1>10, <1>11, ChainByPlaces
<1> QED BY <1>8, <1>12 DEF r, new

-----------------------------------------------------------------------------
(***************************************************************************)
(* What each relinking does to a good queue.                               *)
(***************************************************************************)
\* r and new are q and mb after the records of more came behind, each with a number of
\* its own.
Grown(q, mb, r, new, more) ==
  /\ new \in Box /\ Chain(r, new)
  /\ Len(q) <= Len(r) /\ \A i \in 1..Len(q) : r[i] = q[i]
  /\ \A i \in Len(q) + 1 .. Len(r) : r[i] \in more /\ (i > 1 => new.prev[r[i]] = r[i - 1])
  /\ Elements(r) = Elements(q) \cup more /\ more \cap Elements(q) = {}
  /\ mb.sequence <= new.sequence
  /\ \A x \in Msg \ more : new.seq[x] = mb.seq[x] /\ new.prev[x] = mb.prev[x]
  /\ \A x \in more : new.seq[x] \in mb.sequence + 1 .. new.sequence
  /\ \A i, j \in Len(q) + 1 .. Len(r) : i < j => new.seq[r[i]] < new.seq[r[j]]

LEMMA GrownByNone ==
  ASSUME NEW mb \in Box, NEW q, Chain(q, mb)
  PROVE  Grown(q, mb, q, mb, {})
<1>1. Len(q) \in Nat /\ mb.sequence \in Nat BY AtPlaces DEF Box
<1>2. Len(q) + 1 .. Len(q) = {} /\ Len(q) <= Len(q) /\ mb.sequence <= mb.sequence BY <1>1
<1> QED BY <1>2 DEF Grown

LEMMA GrownByOne ==
  ASSUME NEW mb \in Box, NEW q, Chain(q, mb), NEW m \in Msg, m \notin Elements(q)
  PROVE  Grown(q, mb, With(q, Len(q) + 1, m), Appended(mb, m), {m})
<1> DEFINE n == Len(q)
           r == With(q, n + 1, m)
           new == Appended(mb, m)
<1>1. /\ new \in Box /\ Chain(r, new)
      /\ new.seq = [mb.seq EXCEPT ![m] = mb.sequence + 1]
      /\ new.sequence = mb.sequence + 1
      /\ \A x \in Msg : new.prev[x] = IF x = m THEN At(q, Len(q)) ELSE mb.prev[x]
  BY AppendedChain
<1>2. n \in Nat /\ mb.sequence \in Nat /\ mb.seq \in [Msg -> Int] BY AtPlaces DEF Box
<1>3. /\ Len(r) = n + 1
      /\ \A i \in 1..n + 1 : r[i] = IF i < n + 1 THEN q[i] ELSE IF i = n + 1 THEN m ELSE q[i - 1]
      /\ Elements(r) = Elements(q) \cup {m}
  <2>1. n + 1 \in 1..n + 1
    <3> HIDE DEF n
    <3> QED BY <1>2
  <2> QED BY <2>1, WithPlaces DEF Chain
<1>4. At(q, n) = IF n \in 1..n THEN q[n] ELSE Nil BY DEF At
<1> HIDE DEF n, r, new
<1>5. n + 1 .. n + 1 = {n + 1} /\ r[n + 1] = m /\ n <= n + 1 BY <1>2, <1>3
<1>6. \A i \in 1..n : r[i] = q[i] BY <1>2, <1>3
<1>7. new.prev[m] = At(q, n) BY <1>1 DEF n
<1>8. n + 1 > 1 => new.prev[m] = r[n] BY <1>2, <1>4, <1>6, <1>7
<1>9. \A x \in Msg \ {m} : new.seq[x] = mb.seq[x] /\ new.prev[x] = mb.prev[x] BY <1>1, <1>2
<1>10. new.seq[m] \in mb.sequence + 1 .. new.sequence /\ mb.sequence <= new.sequence
  BY <1>1, <1>2
<1>11. \A i, j \in n + 1 .. n + 1 : ~(i < j) BY <1>2
<1>12. \A i \in n + 1 .. n + 1 : r[i] \in {m} /\ (i > 1 => new.prev[r[i]] = r[i - 1])
  <2> SUFFICES ASSUME NEW i \in n + 1 .. n + 1
               PROVE  r[i] \in {m} /\ (i > 1 => new.prev[r[i]] = r[i - 1])
    OBVIOUS
  <2>1. i = n + 1 /\ i - 1 = n BY <1>2, <1>5
  <2>2. r[i] = m BY <2>1, <1>5
  <2>3. i > 1 => new.prev[m] = r[i - 1] BY <2>1, <1>8
  <2> QED BY <2>2, <2>3
<1> QED BY <1>1, <1>3, <1>5, <1>6, <1>9, <1>10, <1>11, <1>12 DEF Grown, n, r, new

LEMMA GrownTwice ==
  ASSUME NEW q, NEW mb \in Box, Chain(q, mb), NEW r1, NEW mb1, NEW more1 \in SUBSET Msg,
         Grown(q, mb, r1, mb1, more1),
         NEW r2, NEW mb2, NEW more2 \in SUBSET Msg, Grown(r1, mb1, r2, mb2, more2)
  PROVE  Grown(q, mb, r2, mb2, more1 \cup more2)
<1> DEFINE n == Len(q)
           n1 == Len(r1)
           n2 == Len(r2)
           t == mb.sequence
           t1 == mb1.sequence
           t2 == mb2.sequence
<1>1. /\ n \in Nat /\ n1 \in Nat /\ n2 \in Nat /\ n <= n1 /\ n1 <= n2
      /\ t \in Nat /\ t1 \in Nat /\ t2 \in Nat /\ t <= t1 /\ t1 <= t2
  BY AtPlaces DEF Grown, Box
<1>2. /\ \A i \in 1..n : r1[i] = q[i]
      /\ \A i \in n + 1 .. n1 : r1[i] \in more1 /\ (i > 1 => mb1.prev[r1[i]] = r1[i - 1])
      /\ \A x \in Msg \ more1 : mb1.seq[x] = mb.seq[x] /\ mb1.prev[x] = mb.prev[x]
      /\ \A x \in more1 : mb1.seq[x] \in t + 1 .. t1
      /\ \A i, j \in n + 1 .. n1 : i < j => mb1.seq[r1[i]] < mb1.seq[r1[j]]
  BY DEF Grown
<1>3. /\ \A i \in 1..n1 : r2[i] = r1[i]
      /\ \A i \in n1 + 1 .. n2 : r2[i] \in more2 /\ (i > 1 => mb2.prev[r2[i]] = r2[i - 1])
      /\ \A x \in Msg \ more2 : mb2.seq[x] = mb1.seq[x] /\ mb2.prev[x] = mb1.prev[x]
      /\ \A x \in more2 : mb2.seq[x] \in t1 + 1 .. t2
      /\ \A i, j \in n1 + 1 .. n2 : i < j => mb2.seq[r2[i]] < mb2.seq[r2[j]]
  BY DEF Grown
<1>4. /\ mb2 \in Box /\ Chain(r2, mb2) /\ Elements(r2) = Elements(q) \cup (more1 \cup more2)
      /\ (more1 \cup more2) \cap Elements(q) = {} /\ more1 \cap more2 = {}
  BY DEF Grown
<1> HIDE DEF n, n1, n2, t, t1, t2
<1>5. n <= n2 /\ t <= t2 /\ \A i \in 1..n : r2[i] = q[i] BY <1>1, <1>2, <1>3
<1>6. ASSUME NEW i \in n + 1 .. n2
      PROVE  r2[i] \in more1 \cup more2 /\ (i > 1 => mb2.prev[r2[i]] = r2[i - 1])
  <2>1. CASE i \in n1 + 1 .. n2 BY <2>1, <1>3
  <2>2. CASE i \notin n1 + 1 .. n2
    <3>1. i \in n + 1 .. n1 /\ i \in 1..n1 BY <2>2, <1>1
    <3>2. r2[i] = r1[i] /\ r1[i] \in more1 BY <3>1, <1>2, <1>3
    <3>3. r1[i] \in Msg \ more2 BY <3>2, <1>4
    <3>4. i > 1 => r2[i - 1] = r1[i - 1]
      <4>1. i > 1 => i - 1 \in 1..n1 BY <3>1, <1>1
      <4> QED BY <4>1, <1>3
    <3>5. i > 1 => mb2.prev[r2[i]] = r2[i - 1] BY <3>1, <3>2, <3>3, <3>4, <1>2, <1>3
    <3> QED BY <3>2, <3>5
  <2> QED BY <2>1, <2>2
<1>7. \A x \in Msg \ (more1 \cup more2) : mb2.seq[x] = mb.seq[x] /\ mb2.prev[x] = mb.prev[x]
  BY <1>2, <1>3
<1>8. \A x \in more1 : x \in Msg \ more2 /\ mb2.seq[x] = mb1.seq[x] BY <1>3, <1>4
<1>9. \A x \in more1 \cup more2 : mb2.seq[x] \in t + 1 .. t2
  <2>1. \A x \in more1 : mb2.seq[x] \in t + 1 .. t2 BY <1>1, <1>2, <1>8
  <2>2. \A x \in more2 : mb2.seq[x] \in t + 1 .. t2 BY <1>1, <1>3
  <2> QED BY <2>1, <2>2
<1>10. ASSUME NEW i \in n + 1 .. n2, NEW j \in n + 1 .. n2, i < j
       PROVE  mb2.seq[r2[i]] < mb2.seq[r2[j]]
  <2>1. CASE i \in n1 + 1 .. n2
    <3>1. j \in n1 + 1 .. n2 BY <2>1, <1>10, <1>1
    <3> QED BY <3>1, <2>1, <1>10, <1>3
  <2>2. CASE i \in n + 1 .. n1
    <3>1. i \in 1..n1 /\ r2[i] = r1[i] /\ r1[i] \in more1 BY <2>2, <1>1, <1>2, <1>3
    <3>2. mb2.seq[r2[i]] = mb1.seq[r1[i]] /\ mb1.seq[r1[i]] \in t + 1 .. t1
      BY <3>1, <1>2, <1>8
    <3>3. CASE j \in n1 + 1 .. n2
      <4>1. mb2.seq[r2[j]] \in t1 + 1 .. t2 BY <3>3, <1>3
      <4> QED BY <4>1, <3>2, <1>1
    <3>4. CASE j \in n + 1 .. n1
      <4>1. j \in 1..n1 /\ r2[j] = r1[j] /\ r1[j] \in more1 BY <3>4, <1>1, <1>2, <1>3
      <4>2. mb2.seq[r2[j]] = mb1.seq[r1[j]] BY <4>1, <1>8
      <4> QED BY <4>2, <3>2, <3>4, <2>2, <1>10, <1>2
    <3> QED BY <3>3, <3>4, <1>1
  <2> QED BY <2>1, <2>2, <1>1
<1> QED BY <1>4, <1>5, <1>6, <1>7, <1>9, <1>10 DEF Grown, n, n1, n2, t, t1, t2

LEMMA GrownGood ==
  ASSUME NEW c \in Nat, NEW sc \in Int, NEW q, NEW mb, Good(q, mb, c, sc), sc <= mb.sequence,
         NEW r, NEW new, NEW more \in SUBSET Msg, Grown(q, mb, r, new, more),
         NEW c2 \in Nat, c <= c2
  PROVE  Good(r, new, c2, sc)
<1> DEFINE n == Len(q)
           k == Len(r)
<1>1. /\ n \in Nat /\ k \in Nat /\ n <= k
      /\ mb.sequence \in Nat /\ new.sequence \in Nat /\ mb.sequence <= new.sequence
      /\ mb.seq \in [Msg -> Int] /\ new.seq \in [Msg -> Int]
  BY AtPlaces DEF Grown, Good, Box
<1>2. /\ \A i \in 1..n : r[i] = q[i]
      /\ \A i \in n + 1 .. k : r[i] \in more /\ (i > 1 => new.prev[r[i]] = r[i - 1])
      /\ \A x \in Msg \ more : new.seq[x] = mb.seq[x] /\ new.prev[x] = mb.prev[x]
      /\ \A x \in more : new.seq[x] \in mb.sequence + 1 .. new.sequence
      /\ \A i, j \in n + 1 .. k : i < j => new.seq[r[i]] < new.seq[r[j]]
  BY DEF Grown
<1>3. \A m \in Msg : mb.seq[m] \in -c .. mb.sequence BY DEF Good, Numbered
<1>4. \A i, j \in 1..n : i < j => mb.seq[q[i]] < mb.seq[q[j]] BY DEF Good, Ascending
<1>5. \A i \in 1..n : i > 1 /\ mb.seq[q[i - 1]] <= sc /\ mb.seq[q[i]] > sc
                     => mb.prev[q[i]] = q[i - 1]
  BY DEF Good, BackLinked
<1>6. new \in Box /\ Chain(r, new) BY DEF Grown
<1>7. \A i \in 1..n : q[i] \in Msg
  <2>1. q \in Seq(Msg) BY DEF Good, Chain
  <2> QED BY <2>1, SeqPlaces
<1> HIDE DEF n, k
<1>8. Numbered(new, c2)
  <2> SUFFICES ASSUME NEW m \in Msg PROVE new.seq[m] \in -c2 .. new.sequence BY DEF Numbered
  <2>1. CASE m \in more BY <2>1, <1>1, <1>2
  <2>2. CASE m \notin more
    <3>1. mb.seq[m] \in -c .. mb.sequence /\ new.seq[m] = mb.seq[m] BY <2>2, <1>2, <1>3
    <3> QED BY <3>1, <1>1
  <2> QED BY <2>1, <2>2
\* A record that came later has a number above mb.sequence, and one of q has not.
<1>9. \A i \in n + 1 .. k : new.seq[r[i]] \in Int /\ new.seq[r[i]] > mb.sequence
  <2> SUFFICES ASSUME NEW i \in n + 1 .. k
               PROVE  new.seq[r[i]] \in Int /\ new.seq[r[i]] > mb.sequence OBVIOUS
  <2>1. new.seq[r[i]] \in mb.sequence + 1 .. new.sequence BY <1>2
  <2> QED BY <2>1, <1>1
<1>10. ASSUME NEW i \in 1..n, q[i] \notin more
       PROVE  /\ new.seq[r[i]] = mb.seq[q[i]] /\ mb.seq[q[i]] \in Int
              /\ mb.seq[q[i]] <= mb.sequence /\ new.prev[r[i]] = mb.prev[q[i]]
  <2>1. mb.seq[q[i]] \in -c .. mb.sequence BY <1>3, <1>7
  <2> QED BY <2>1, <1>1, <1>2, <1>7, <1>10
<1>11. \A i \in 1..n : q[i] \notin more BY DEF Grown, Elements, n
<1>12. Ascending(r, new.seq)
  <2> SUFFICES ASSUME NEW i \in 1..k, NEW j \in 1..k, i < j
               PROVE  new.seq[r[i]] < new.seq[r[j]]
    BY DEF Ascending, k
  <2>1. CASE i \in n + 1 .. k
    <3>1. j \in n + 1 .. k BY <2>1, <1>1
    <3> QED BY <3>1, <2>1, <1>2
  <2>2. CASE i \in 1..n
    <3>1. CASE j \in 1..n BY <2>2, <3>1, <1>4, <1>10, <1>11
    <3>2. CASE j \in n + 1 .. k BY <2>2, <3>2, <1>1, <1>9, <1>10, <1>11
    <3> QED BY <3>1, <3>2, <1>1
  <2> QED BY <2>1, <2>2, <1>1
<1>13. BackLinked(r, new, sc)
  <2> SUFFICES ASSUME NEW i \in 1..k, i > 1, new.seq[r[i - 1]] <= sc, new.seq[r[i]] > sc
               PROVE  new.prev[r[i]] = r[i - 1]
    BY DEF BackLinked, k
  <2>1. CASE i \in n + 1 .. k BY <2>1, <1>2
  <2>2. CASE i \in 1..n
    <3>1. i - 1 \in 1..n BY <2>2, <1>1
    <3> QED BY <3>1, <2>2, <1>2, <1>5, <1>10, <1>11
  <2> QED BY <2>1, <2>2, <1>1
<1> QED BY <1>6, <1>8, <1>12, <1>13 DEF Good

\* The same queue is good for a receive that begins.
LEMMA GoodAtStart ==
  ASSUME NEW c \in Nat, c < -NoneSeen, NEW sc \in Int, NEW q, NEW mb, Good(q, mb, c, sc)
  PROVE  Good(q, mb, c, NoneSeen)
<1>1. Len(q) \in Nat /\ mb \in Box /\ \A i \in 1..Len(q) : q[i] \in Msg
  BY LenProperties DEF Good, Chain
<1>2. mb.sequence \in Nat BY <1>1 DEF Box
<1>3. ASSUME NEW i \in 1..Len(q), i > 1 PROVE ~(mb.seq[q[i - 1]] <= NoneSeen)
  <2>1. q[i - 1] \in Msg
    <3>1. i - 1 \in 1..Len(q) BY <1>1, <1>3
    <3> QED BY <3>1, <1>1
  <2>2. mb.seq[q[i - 1]] \in -c .. mb.sequence BY <2>1 DEF Good, Numbered
  <2> QED BY <2>2, <1>2 DEF NoneSeen
<1>4. BackLinked(q, mb, NoneSeen) BY <1>3 DEF BackLinked
<1> QED BY <1>4 DEF Good

\* The facts about a good queue that the lemmas below use.
LEMMA GoodPlaces ==
  ASSUME NEW c \in Nat, NEW sc \in Int, NEW q, NEW mb, Good(q, mb, c, sc)
  PROVE  /\ Len(q) \in Nat /\ mb.sequence \in Nat
         /\ mb \in Box /\ Chain(q, mb) /\ q \in Seq(Msg) /\ Distinct(q)
         /\ \A x \in Msg : mb.seq[x] \in Int /\ -c <= mb.seq[x] /\ mb.seq[x] <= mb.sequence
         /\ \A i \in 1..Len(q) : q[i] \in Msg /\ q[i] # Nil /\ q[i] \in Elements(q)
         /\ \A i, j \in 1..Len(q) : q[i] = q[j] => i = j
         /\ \A i, j \in 1..Len(q) : i < j => mb.seq[q[i]] < mb.seq[q[j]]
         /\ \A i \in 1..Len(q) : mb.prev[q[i]] \in {Nil, At(q, i - 1)}
         /\ \A i \in 1..Len(q) : i > 1 /\ mb.seq[q[i - 1]] <= sc /\ mb.seq[q[i]] > sc
                                => mb.prev[q[i]] = q[i - 1]
<1>1. mb \in Box /\ Chain(q, mb) /\ q \in Seq(Msg) /\ Distinct(q) BY DEF Good, Chain
<1>2. Len(q) \in Nat /\ \A i \in 1..Len(q) : q[i] \in Msg BY <1>1, LenProperties
<1>3. \A i \in 1..Len(q) : q[i] \in Msg /\ q[i] # Nil /\ q[i] \in Elements(q)
  BY <1>2, MailboxAssumption DEF Elements
<1>4. ASSUME NEW x \in Msg
      PROVE  mb.seq[x] \in Int /\ -c <= mb.seq[x] /\ mb.seq[x] <= mb.sequence
  <2>1. mb.seq[x] \in -c .. mb.sequence BY DEF Good, Numbered
  <2>2. mb.sequence \in Nat BY <1>1 DEF Box
  <2> QED BY <2>1, <2>2
<1>5. mb.sequence \in Nat BY <1>1 DEF Box
<1>6. \A i, j \in 1..Len(q) : q[i] = q[j] => i = j BY <1>1 DEF Distinct
<1>7. \A i, j \in 1..Len(q) : i < j => mb.seq[q[i]] < mb.seq[q[j]] BY DEF Good, Ascending
<1>8. \A i \in 1..Len(q) : mb.prev[q[i]] \in {Nil, At(q, i - 1)} BY DEF Good, Chain
<1>9. \A i \in 1..Len(q) : i > 1 /\ mb.seq[q[i - 1]] <= sc /\ mb.seq[q[i]] > sc
                           => mb.prev[q[i]] = q[i - 1]
  BY DEF Good, BackLinked
<1> QED BY <1>1, <1>2, <1>3, <1>4, <1>5, <1>6, <1>7, <1>8, <1>9

\* The k-th message of q is the first that has not been passed.
FirstUnpassed(q, mb, sc, k) ==
  k \in 1..Len(q) /\ (\A i \in 1..k - 1 : mb.seq[q[i]] <= sc) /\ mb.seq[q[k]] > sc

\* The back link of the first message that has not been passed is right.
LEMMA BackLinkRight ==
  ASSUME NEW c \in Nat, NEW sc \in Int, NEW q, NEW mb, Good(q, mb, c, sc),
         NEW k, FirstUnpassed(q, mb, sc, k)
  PROVE  mb.prev[q[k]] = At(q, k - 1)
<1> DEFINE n == Len(q)
<1> USE DEF FirstUnpassed
<1>1. /\ n \in Nat
      /\ \A i \in 1..n : mb.prev[q[i]] \in {Nil, At(q, i - 1)}
      /\ \A i \in 1..n : i > 1 /\ mb.seq[q[i - 1]] <= sc /\ mb.seq[q[i]] > sc
                         => mb.prev[q[i]] = q[i - 1]
  BY GoodPlaces
<1>2. At(q, k - 1) = IF k - 1 \in 1..n THEN q[k - 1] ELSE Nil BY DEF At
<1>3. k \in 1..n OBVIOUS
<1> HIDE DEF n
<1>4. CASE k = 1
  <2>1. k - 1 \notin 1..n BY <1>4
  <2> QED BY <2>1, <1>1, <1>2, <1>3
<1>5. CASE k # 1
  <2>1. k - 1 \in 1..n /\ k - 1 \in 1..k - 1 /\ k > 1 BY <1>1, <1>3, <1>5
  <2> QED BY <2>1, <1>1, <1>2, <1>3
<1> QED BY <1>4, <1>5

LEMMA UnlinkedGood ==
  ASSUME NEW c \in Nat, NEW sc \in Int, NEW q, NEW mb, Good(q, mb, c, sc),
         NEW k \in 1..Len(q), \A i \in 1..k - 1 : mb.seq[q[i]] <= sc, mb.seq[q[k]] > sc,
         NEW sc2 \in Int, sc <= sc2, sc2 <= mb.seq[q[k]]
  PROVE  LET new == Unlinked(mb, q[k])
         IN  /\ Good(Without(q, k), new, c, sc2)
             /\ new.seq = mb.seq /\ new.sequence = mb.sequence
             /\ Elements(Without(q, k)) = Elements(q) \ {q[k]}
<1> DEFINE n == Len(q)
           r == Without(q, k)
           new == Unlinked(mb, q[k])
<1>1. /\ n \in Nat /\ mb.sequence \in Nat
      /\ mb \in Box /\ Chain(q, mb) /\ q \in Seq(Msg) /\ Distinct(q)
      /\ \A x \in Msg : mb.seq[x] \in Int
      /\ \A i \in 1..n : q[i] \in Msg /\ q[i] # Nil
      /\ \A i, j \in 1..n : q[i] = q[j] => i = j
      /\ \A i, j \in 1..n : i < j => mb.seq[q[i]] < mb.seq[q[j]]
      /\ \A i \in 1..n : i > 1 /\ mb.seq[q[i - 1]] <= sc /\ mb.seq[q[i]] > sc
                         => mb.prev[q[i]] = q[i - 1]
  BY GoodPlaces
<1>2. mb.prev[q[k]] = At(q, k - 1)
  <2> HIDE DEF n, r, new
  <2>1. FirstUnpassed(q, mb, sc, k) BY DEF FirstUnpassed
  <2>2. Good(q, mb, c, sc) /\ c \in Nat /\ sc \in Int OBVIOUS
  <2> QED BY ONLY <2>1, <2>2, BackLinkRight
<1>3. /\ new \in Box /\ Chain(r, new)
      /\ new.seq = mb.seq /\ new.sequence = mb.sequence
      /\ \A x \in Msg : new.prev[x] = IF x = At(q, k + 1) THEN At(q, k - 1) ELSE mb.prev[x]
  BY <1>1, <1>2, UnlinkedChain
<1>4. /\ Len(r) = n - 1 /\ Elements(r) = Elements(q) \ {q[k]}
      /\ \A i \in 1..n - 1 : r[i] = IF i < k THEN q[i] ELSE q[i + 1]
  <2>1. q \in Seq(Msg) /\ Distinct(q) BY <1>1
  <2>2. /\ Len(Without(q, k)) = Len(q) - 1
        /\ Elements(Without(q, k)) = Elements(q) \ {q[k]}
        /\ \A i \in 1..Len(q) - 1 : Without(q, k)[i] = IF i < k THEN q[i] ELSE q[i + 1]
    <3> HIDE DEF n, r, new
    <3>1. k \in 1..Len(q) OBVIOUS
    <3> QED BY ONLY <2>1, <3>1, WithoutPlaces, SMTT(30)
  <2> QED BY <2>2 DEF r, n
<1>5. At(q, k - 1) = (IF k - 1 \in 1..n THEN q[k - 1] ELSE Nil) BY DEF At
<1>6. At(q, k + 1) = (IF k + 1 \in 1..n THEN q[k + 1] ELSE Nil) BY DEF At
<1>7. k \in 1..n OBVIOUS
<1> HIDE DEF n, r, new
<1>8. \A i \in 1..n - 1 : \E l \in 1..n : r[i] = q[l] /\ l = IF i < k THEN i ELSE i + 1
  BY <1>1, <1>4, <1>7
<1>9. Ascending(r, new.seq)
  <2> SUFFICES ASSUME NEW i \in 1..n - 1, NEW j \in 1..n - 1, i < j
               PROVE  mb.seq[r[i]] < mb.seq[r[j]]
    BY <1>3, <1>4 DEF Ascending
  <2>1. PICK a \in 1..n : r[i] = q[a] /\ a = IF i < k THEN i ELSE i + 1 BY <1>8
  <2>2. PICK b \in 1..n : r[j] = q[b] /\ b = IF j < k THEN j ELSE j + 1 BY <1>8
  <2>3. a < b BY <2>1, <2>2, <1>1, <1>7
  <2> QED BY <2>1, <2>2, <2>3, <1>1
<1>10. Numbered(new, c) BY <1>3 DEF Good, Numbered
<1>11. BackLinked(r, new, sc2)
  <2> SUFFICES ASSUME NEW i \in 1..n - 1, i > 1, mb.seq[r[i - 1]] <= sc2, mb.seq[r[i]] > sc2
               PROVE  new.prev[r[i]] = r[i - 1]
    BY <1>3, <1>4 DEF BackLinked
  <2>1. i - 1 \in 1..n - 1 /\ i \in Int BY <1>1
  <2>2. i - 1 < k
    <3> SUFFICES ASSUME ~(i - 1 < k) PROVE FALSE OBVIOUS
    <3>1. r[i - 1] = q[i] /\ i \in 1..n /\ k < i
      <4>1. r[i - 1] = q[i - 1 + 1] BY <2>1, <1>4
      <4>2. i - 1 + 1 = i /\ i \in 1..n /\ k < i BY <2>1, <1>1, <1>7
      <4> QED BY <4>1, <4>2
    <3>2. mb.seq[q[k]] < mb.seq[q[i]] /\ mb.seq[q[k]] \in Int /\ mb.seq[q[i]] \in Int
      BY <3>1, <1>1, <1>7
    <3> QED BY <3>1, <3>2
  <2>3. r[i - 1] = q[i - 1] BY <2>1, <2>2, <1>4
  <2>4. CASE i < k
    <3>1. r[i] = q[i] /\ i \in 1..n /\ i \in 1..k - 1 BY <2>4, <1>1, <1>4, <1>7
    <3>2. mb.seq[q[i]] <= sc /\ mb.seq[q[i]] \in Int BY <3>1, <1>1
    <3> QED BY <3>1, <3>2
  <2>5. CASE i = k
    <3>1. r[i] = q[k + 1] /\ k + 1 \in 1..n /\ k - 1 \in 1..n BY <2>5, <1>1, <1>4, <1>7
    <3>2. new.prev[r[i]] = At(q, k - 1) BY <3>1, <1>1, <1>3, <1>6
    <3> QED BY <2>3, <2>5, <3>1, <3>2, <1>5
  <2>6. i < k \/ i = k BY <2>1, <2>2, <1>7
  <2> QED BY <2>4, <2>5, <2>6
<1>12. Good(r, new, c, sc2) BY <1>3, <1>9, <1>10, <1>11 DEF Good
<1> QED BY <1>3, <1>4, <1>12 DEF r, new

\* A message between those with lower and those with higher numbers, where the receive
\* has come to.
LEMMA LinkedGood ==
  ASSUME NEW c \in Nat, NEW sc \in Int, NEW q, NEW mb, Good(q, mb, c, sc),
         NEW m \in Msg, m \notin Elements(q), sc = mb.seq[m], NEW k \in 1..Len(q) + 1,
         \A i \in 1..Len(q) : IF i < k THEN mb.seq[q[i]] < sc ELSE sc < mb.seq[q[i]]
  PROVE  LET new == Linked(mb, At(q, k - 1), m, At(q, k))
         IN  /\ Good(With(q, k, m), new, c, sc)
             /\ new.seq = mb.seq /\ new.sequence = mb.sequence
             /\ Elements(With(q, k, m)) = Elements(q) \cup {m}
<1> DEFINE n == Len(q)
           r == With(q, k, m)
           new == Linked(mb, At(q, k - 1), m, At(q, k))
<1>1. /\ n \in Nat /\ mb.sequence \in Nat
      /\ mb \in Box /\ Chain(q, mb) /\ q \in Seq(Msg) /\ Distinct(q)
      /\ \A x \in Msg : mb.seq[x] \in Int
      /\ \A i \in 1..n : q[i] \in Msg /\ q[i] # Nil /\ q[i] \in Elements(q)
      /\ \A i, j \in 1..n : q[i] = q[j] => i = j
      /\ \A i, j \in 1..n : i < j => mb.seq[q[i]] < mb.seq[q[j]]
      /\ \A i \in 1..n : i > 1 /\ mb.seq[q[i - 1]] <= sc /\ mb.seq[q[i]] > sc
                         => mb.prev[q[i]] = q[i - 1]
  BY GoodPlaces
<1>2. /\ new \in Box /\ Chain(r, new)
      /\ new.seq = mb.seq /\ new.sequence = mb.sequence
      /\ \A x \in Msg : new.prev[x] = IF x = At(q, k) THEN m ELSE
                                      IF x = m THEN At(q, k - 1) ELSE mb.prev[x]
  BY <1>1, LinkedChain
<1>3. /\ Len(r) = n + 1 /\ Elements(r) = Elements(q) \cup {m}
      /\ \A i \in 1..n + 1 : r[i] = IF i < k THEN q[i] ELSE IF i = k THEN m ELSE q[i - 1]
  <2>1. q \in Seq(Msg) BY <1>1
  <2>2. k \in 1..Len(q) + 1 OBVIOUS
  <2> QED BY <2>1, <2>2, WithPlaces, SMTT(30)
<1>4. At(q, k - 1) = (IF k - 1 \in 1..n THEN q[k - 1] ELSE Nil) BY DEF At
<1>5. At(q, k) = (IF k \in 1..n THEN q[k] ELSE Nil) BY DEF At
<1>6. /\ k \in 1..n + 1
      /\ \A i \in 1..n : IF i < k THEN mb.seq[q[i]] < sc ELSE sc < mb.seq[q[i]]
  OBVIOUS
<1> HIDE DEF n, r, new
\* Where the numbers of r come from.
<1>7. ASSUME NEW i \in 1..n + 1
      PROVE  \/ i < k /\ i \in 1..n /\ r[i] = q[i] /\ mb.seq[q[i]] \in Int /\ mb.seq[q[i]] < sc
             \/ i = k /\ r[i] = m
             \/ k < i /\ i - 1 \in 1..n /\ r[i] = q[i - 1] /\ mb.seq[q[i - 1]] \in Int /\ sc < mb.seq[q[i - 1]]
  <2>1. CASE i < k
    <3>1. i \in 1..n BY <2>1, <1>1, <1>6
    <3> QED BY <3>1, <2>1, <1>1, <1>3, <1>6
  <2>2. CASE i = k BY <2>2, <1>3, <1>6
  <2>3. CASE k < i
    <3>1. i - 1 \in 1..n /\ ~(i - 1 < k) /\ ~(i < k) /\ i # k BY <2>3, <1>1, <1>6
    <3> QED BY <3>1, <2>3, <1>1, <1>3, <1>6
  <2> QED BY <2>1, <2>2, <2>3, <1>6
<1>8. Ascending(r, new.seq)
  <2> SUFFICES ASSUME NEW i \in 1..n + 1, NEW j \in 1..n + 1, i < j
               PROVE  mb.seq[r[i]] < mb.seq[r[j]]
    BY <1>2, <1>3 DEF Ascending
  <2>1. CASE i < k /\ j < k
    <3>1. i \in 1..n /\ r[i] = q[i] /\ j \in 1..n /\ r[j] = q[j] BY <2>1, <1>6, <1>7
    <3> QED BY <3>1, <1>1
  <2>2. CASE i < k /\ j = k BY <2>2, <1>6, <1>7
  <2>3. CASE i < k /\ k < j
    <3>1. mb.seq[r[i]] \in Int /\ mb.seq[r[i]] < sc BY <2>3, <1>6, <1>7
    <3>2. mb.seq[r[j]] \in Int /\ sc < mb.seq[r[j]] BY <2>3, <1>6, <1>7
    <3> QED BY <3>1, <3>2
  <2>4. CASE i = k /\ k < j BY <2>4, <1>6, <1>7
  <2>5. CASE k < i /\ k < j
    <3>1. i - 1 \in 1..n /\ r[i] = q[i - 1] BY <2>5, <1>6, <1>7
    <3>2. j - 1 \in 1..n /\ r[j] = q[j - 1] BY <2>5, <1>6, <1>7
    <3>3. i - 1 < j - 1 BY <1>1
    <3> QED BY <3>1, <3>2, <3>3, <1>1
  <2>6. i \in Int /\ j \in Int /\ k \in Int BY <1>1, <1>6
  <2> QED BY <2>1, <2>2, <2>3, <2>4, <2>5, <2>6
<1>9. Numbered(new, c) BY <1>2 DEF Good, Numbered
<1>10. BackLinked(r, new, sc)
  <2> SUFFICES ASSUME NEW i \in 1..n + 1, i > 1, mb.seq[r[i - 1]] <= sc, mb.seq[r[i]] > sc
               PROVE  new.prev[r[i]] = r[i - 1]
    BY <1>2, <1>3 DEF BackLinked
  <2>1. i - 1 \in 1..n + 1 /\ i \in Int /\ k \in Int BY <1>1, <1>6
  <2>2. i - 1 <= k
    <3>1. k < i - 1 => sc < mb.seq[r[i - 1]] /\ mb.seq[r[i - 1]] \in Int BY <2>1, <1>7
    <3> QED BY <3>1, <2>1
  <2>3. CASE i < k
    <3>1. mb.seq[r[i]] \in Int /\ mb.seq[r[i]] < sc BY <2>3, <1>6, <1>7
    <3> QED BY <3>1
  <2>4. CASE i = k BY <2>4, <1>3, <1>6
  <2>5. CASE i = k + 1
    <3>1. k \in 1..n /\ i - 1 = k BY <2>5, <1>1, <1>6
    <3>2. r[i] = q[k] /\ r[i - 1] = m
      <4>1. ~(i < k) /\ i # k /\ i - 1 = k /\ ~(i - 1 < k) BY <2>1, <2>5
      <4> QED BY <4>1, <2>1, <1>3
    <3>3. At(q, k) = q[k] /\ q[k] \in Msg BY <3>1, <1>1, <1>5
    <3> QED BY <3>2, <3>3, <1>2
  <2> QED BY <2>1, <2>2, <2>3, <2>4, <2>5
<1>11. Good(r, new, c, sc) BY <1>2, <1>8, <1>9, <1>10 DEF Good
<1> QED BY <1>2, <1>3, <1>11 DEF r, new

\* m_replacemsg puts a message back where its number is due.
LEMMA ReplacedGood ==
  ASSUME NEW c \in Nat, NEW sc \in Int, NEW q, NEW mb, Good(q, mb, c, sc),
         NEW m \in Msg, m \notin Elements(q), sc = mb.seq[m],
         \A x \in Elements(q) : mb.seq[x] # sc
  PROVE  \E k \in 1..Len(q) + 1 :
           LET new == Replaced(mb, m)
           IN  /\ Good(With(q, k, m), new, c, sc)
               /\ new.seq = mb.seq /\ new.sequence = mb.sequence
               /\ Elements(With(q, k, m)) = Elements(q) \cup {m}
               /\ \A i \in 1..Len(q) : IF i < k THEN mb.seq[q[i]] < sc ELSE sc < mb.seq[q[i]]
<1> DEFINE n == Len(q)
           after == {i \in 1..n : mb.seq[q[i]] >= mb.seq[m]}
<1>1. /\ n \in Nat /\ Chain(q, mb) /\ DOMAIN q = 1..n
      /\ \A x \in Msg : mb.seq[x] \in Int
      /\ \A i \in 1..n : q[i] \in Msg /\ q[i] \in Elements(q)
      /\ \A i, j \in 1..n : i < j => mb.seq[q[i]] < mb.seq[q[j]]
  BY GoodPlaces, LenProperties
<1>2. Walk(mb) = q BY <1>1, WalkIsChain
<1>3. mb.mback = At(q, n) BY <1>1 DEF Chain
<1>4. CASE after = {}
  <2>1. n + 1 \in 1..Len(q) + 1
    <3>1. n \in Nat => n + 1 \in 1..n + 1
      <4> HIDE DEF n
      <4> QED OBVIOUS
    <3> QED BY <3>1, <1>1
  <2>2. At(q, n + 1) = Nil /\ n + 1 - 1 = n
    <3>1. At(q, n + 1) = IF n + 1 \in 1..n THEN q[n + 1] ELSE Nil BY DEF At
    <3> HIDE DEF n
    <3> QED BY <3>1, <1>1
  <2>3. Replaced(mb, m) = Linked(mb, At(q, n + 1 - 1), m, At(q, n + 1))
    BY <2>2, <1>1, <1>2, <1>3, <1>4 DEF Replaced
  <2>4. \A i \in 1..n : i < n + 1 /\ mb.seq[q[i]] < sc
    <3> HIDE DEF n
    <3> QED BY <1>1, <1>4
  <2> HIDE DEF after
  <2>5. \A i \in 1..Len(q) : IF i < n + 1 THEN mb.seq[q[i]] < sc ELSE sc < mb.seq[q[i]]
    BY <2>4
  <2>6. LET new == Replaced(mb, m)
        IN  /\ Good(With(q, n + 1, m), new, c, sc)
            /\ new.seq = mb.seq /\ new.sequence = mb.sequence
            /\ Elements(With(q, n + 1, m)) = Elements(q) \cup {m}
    BY <2>1, <2>3, <2>5, LinkedGood
  <2> QED BY <2>1, <2>5, <2>6
<1>5. CASE after # {}
  <2> DEFINE k == CHOOSE i \in after : \A j \in after : i <= j
  <2>1. after \subseteq Nat
    <3> HIDE DEF n
    <3> QED BY <1>1
  <2>2. k \in after /\ \A j \in after : k <= j
    <3> HIDE DEF after
    <3> QED BY <2>1, <1>5, LeastNat
  <2>3. Replaced(mb, m) = Linked(mb, mb.prev[q[k]], m, q[k])
    BY <1>1, <1>2, <1>5 DEF Replaced
  <2> HIDE DEF k
  <2>4. k \in 1..n /\ mb.seq[q[k]] >= sc BY <2>2
  <2>5. \A i \in 1..n : IF i < k THEN mb.seq[q[i]] < sc ELSE sc < mb.seq[q[i]]
    <3> SUFFICES ASSUME NEW i \in 1..n
                 PROVE  IF i < k THEN mb.seq[q[i]] < sc ELSE sc < mb.seq[q[i]]
      OBVIOUS
    <3>1. mb.seq[q[i]] \in Int /\ mb.seq[q[k]] \in Int /\ mb.seq[q[i]] # sc BY <2>4, <1>1
    <3>2. CASE i < k
      <4>1. ~(k <= i)
        <5> HIDE DEF n
        <5> QED BY <3>2, <2>4, <1>1
      <4>2. i \notin after BY <4>1, <2>2
      <4> QED BY <4>2, <3>1, <3>2
    <3>3. CASE ~(i < k)
      <4>1. i = k \/ k < i
        <5> HIDE DEF n
        <5> QED BY <3>3, <2>4, <1>1
      <4>2. i # k => mb.seq[q[k]] < mb.seq[q[i]] BY <4>1, <2>4, <1>1
      <4> QED BY <3>1, <3>3, <4>2, <2>4
    <3> QED BY <3>2, <3>3
  <2> HIDE DEF after
  <2>6. \A i \in 1..k - 1 : mb.seq[q[i]] <= sc
    <3> SUFFICES ASSUME NEW i \in 1..k - 1 PROVE mb.seq[q[i]] <= sc OBVIOUS
    <3>1. i \in 1..n /\ i < k
      <4> HIDE DEF n
      <4> QED BY <2>4, <1>1
    <3>2. mb.seq[q[i]] < sc /\ mb.seq[q[i]] \in Int BY <3>1, <2>5, <1>1
    <3> QED BY <3>2
  <2>13. mb.seq[q[k]] > sc
    <3>1. ~(k < k)
      <4> HIDE DEF n
      <4> QED BY <2>4, <1>1
    <3>2. sc < mb.seq[q[k]] /\ mb.seq[q[k]] \in Int BY <3>1, <2>4, <2>5, <1>1
    <3> QED BY <3>2
  <2>7. mb.prev[q[k]] = At(q, k - 1)
    <3>1. k \in 1..Len(q) BY <2>4
    <3> HIDE DEF n
    <3>2. FirstUnpassed(q, mb, sc, k) BY ONLY <3>1, <2>6, <2>13 DEF FirstUnpassed
    <3>3. Good(q, mb, c, sc) /\ c \in Nat /\ sc \in Int OBVIOUS
    <3> QED BY ONLY <3>2, <3>3, BackLinkRight
  <2>8. At(q, k) = q[k] BY <2>4 DEF At
  <2>9. k \in 1..Len(q) + 1
    <3>1. n \in Nat /\ k \in 1..n => k \in 1..n + 1
      <4> HIDE DEF n
      <4> QED OBVIOUS
    <3> QED BY <3>1, <2>4, <1>1
  <2>10. Replaced(mb, m) = Linked(mb, At(q, k - 1), m, At(q, k)) BY <2>3, <2>7, <2>8
  <2>11. \A i \in 1..Len(q) : IF i < k THEN mb.seq[q[i]] < sc ELSE sc < mb.seq[q[i]] BY <2>5
  <2>12. LET new == Replaced(mb, m)
         IN  /\ Good(With(q, k, m), new, c, sc)
             /\ new.seq = mb.seq /\ new.sequence = mb.sequence
             /\ Elements(With(q, k, m)) = Elements(q) \cup {m}
    BY <2>9, <2>10, <2>11, LinkedGood
  <2> QED BY <2>9, <2>11, <2>12
<1> QED BY <1>4, <1>5

\* m_front_msg, with a number that is not that of a held message.
LEMMA FrontGood ==
  ASSUME NEW c \in Nat, NEW sc \in Int, NEW q, NEW mb, Good(q, mb, c, sc),
         mb.mfront # Nil, NEW m \in Msg, m \notin Elements(q), mb.seq[mb.mfront] - 1 # sc
  PROVE  LET new == PutFront(mb, m)
         IN  /\ Good(With(q, 1, m), new, c + 1, sc)
             /\ new.sequence = mb.sequence
             /\ \A x \in Msg : new.seq[x] = IF x = m THEN mb.seq[mb.mfront] - 1 ELSE mb.seq[x]
             /\ Len(q) # 0 /\ mb.mfront = q[1]
             /\ Elements(With(q, 1, m)) = Elements(q) \cup {m}
<1> DEFINE n == Len(q)
           r == With(q, 1, m)
           new == PutFront(mb, m)
           s == mb.seq[mb.mfront] - 1
<1>1. /\ n \in Nat /\ mb.sequence \in Nat
      /\ mb \in Box /\ Chain(q, mb) /\ q \in Seq(Msg)
      /\ \A x \in Msg : mb.seq[x] \in Int /\ -c <= mb.seq[x] /\ mb.seq[x] <= mb.sequence
      /\ \A i \in 1..n : q[i] \in Msg /\ q[i] \in Elements(q)
      /\ \A i, j \in 1..n : i < j => mb.seq[q[i]] < mb.seq[q[j]]
  BY GoodPlaces
<1>18. \A i \in 1..n : i > 1 /\ mb.seq[q[i - 1]] <= sc /\ mb.seq[q[i]] > sc
                       => mb.prev[q[i]] = q[i - 1]
  BY DEF Good, BackLinked
<1>2. /\ new \in Box /\ Chain(r, new)
      /\ new.seq = [mb.seq EXCEPT ![m] = s] /\ new.sequence = mb.sequence
  BY <1>1, FrontChain
<1>19. \A x \in Msg \ {m} : new.prev[x] = mb.prev[x]
  <2>1. mb.prev \in [Msg -> Link] BY <1>1 DEF Box
  <2>2. new.prev = [mb.prev EXCEPT ![m] = Nil] BY <1>1 DEF PutFront, Box
  <2> HIDE DEF new
  <2> QED BY <2>1, <2>2
<1>3. mb.seq \in [Msg -> Int] BY <1>1 DEF Box
<1>4. /\ Len(r) = n + 1 /\ Elements(r) = Elements(q) \cup {m}
      /\ \A i \in 1..n + 1 : r[i] = IF i < 1 THEN q[i] ELSE IF i = 1 THEN m ELSE q[i - 1]
  <2>1. 1 \in 1..n + 1
    <3> HIDE DEF n
    <3> QED BY <1>1
  <2> QED BY <2>1, <1>1, WithPlaces
<1>5. mb.mfront = At(q, 1) /\ At(q, 1) = IF 1 \in 1..n THEN q[1] ELSE Nil
  BY <1>1 DEF Chain, At
<1> HIDE DEF n, r, new
<1>6. 1 \in 1..n /\ mb.mfront = q[1] BY <1>5
<1>7. s \in Int /\ -(c + 1) <= s /\ s < mb.seq[q[1]] /\ s <= mb.sequence /\ s = mb.seq[q[1]] - 1
  BY <1>1, <1>6
<1>15. s # sc OBVIOUS
<1>16. mb.seq[mb.mfront] - 1 = s OBVIOUS
<1> HIDE DEF s
<1>8. \A x \in Msg : new.seq[x] = IF x = m THEN s ELSE mb.seq[x] BY <1>2, <1>3
<1>9. \A x \in Msg : new.seq[x] \in Int /\ -(c + 1) <= new.seq[x] /\ new.seq[x] <= mb.sequence
  BY <1>1, <1>7, <1>8
<1>10. Numbered(new, c + 1) BY <1>1, <1>2, <1>9 DEF Numbered
<1>11. \A i \in 1..n + 1 : r[i] \in Msg
  <2> SUFFICES ASSUME NEW i \in 1..n + 1 PROVE r[i] \in Msg OBVIOUS
  <2>1. CASE i = 1 BY <2>1, <1>4
  <2>2. CASE i # 1
    <3>1. i - 1 \in 1..n /\ ~(i < 1) BY <2>2, <1>1
    <3> QED BY <3>1, <2>2, <1>1, <1>4
  <2> QED BY <2>1, <2>2
<1>12. BackLinked(r, new, sc)
  <2> SUFFICES ASSUME NEW i \in 1..n + 1, i > 1, new.seq[r[i - 1]] <= sc, new.seq[r[i]] > sc
               PROVE  new.prev[r[i]] = r[i - 1]
    BY <1>4 DEF BackLinked
  <2>1. i - 1 \in 1..n /\ r[i] = q[i - 1] /\ i - 1 \in 1..n + 1 BY <1>1, <1>4
  <2>2. \A l \in 1..n : q[l] # m /\ new.seq[q[l]] = mb.seq[q[l]] /\ new.prev[q[l]] = mb.prev[q[l]]
    BY <1>1, <1>8, <1>19
  <2>3. CASE i = 2
    <3>1. i - 1 = 1 BY <2>3
    <3>2. r[i - 1] = m /\ r[i] = q[1] BY <3>1, <2>1, <1>4
    <3>3. s <= sc /\ mb.seq[q[1]] > sc BY <3>2, <2>2, <1>6, <1>8
    <3>4. mb.seq[q[1]] \in Int BY <1>1, <1>6
    <3> QED BY ONLY <3>3, <3>4, <1>7, <1>15, sc \in Int
  <2>4. CASE i # 2
    <3>1. i - 1 > 1 /\ i - 1 - 1 \in 1..n /\ ~(i - 1 < 1) /\ i - 1 # 1 BY <2>1, <2>4, <1>1
    <3>2. r[i - 1] = q[i - 1 - 1] BY <3>1, <2>1, <1>4
    <3>3. mb.seq[q[i - 1 - 1]] <= sc /\ mb.seq[q[i - 1]] > sc BY <2>1, <2>2, <3>1, <3>2
    <3>4. mb.prev[q[i - 1]] = q[i - 1 - 1] BY <2>1, <3>1, <3>3, <1>18
    <3>5. new.prev[q[i - 1]] = mb.prev[q[i - 1]] BY <2>1, <2>2
    <3>6. new.prev[q[i - 1]] = r[i - 1] BY <3>2, <3>4, <3>5
    <3> QED BY <2>1, <3>6
  <2> QED BY <2>3, <2>4
<1>13. Ascending(r, new.seq)
  <2> SUFFICES ASSUME NEW i \in 1..n + 1, NEW j \in 1..n + 1, i < j
               PROVE  new.seq[r[i]] < new.seq[r[j]]
    BY <1>4 DEF Ascending
  <2>1. /\ \A l \in 1..n : q[l] # m /\ new.seq[q[l]] = mb.seq[q[l]]
        /\ j - 1 \in 1..n /\ r[j] = q[j - 1]
    BY <1>1, <1>4, <1>8
  <2>2. CASE i = 1
    <3>1. new.seq[r[i]] = s BY <2>2, <1>4, <1>8
    <3>2. mb.seq[q[1]] <= mb.seq[q[j - 1]]
      <4>1. j - 1 = 1 \/ 1 < j - 1 BY <2>1
      <4>2. 1 < j - 1 => mb.seq[q[1]] < mb.seq[q[j - 1]] BY <2>1, <1>1, <1>6
      <4>3. mb.seq[q[1]] \in Int /\ mb.seq[q[j - 1]] \in Int BY <2>1, <1>1, <1>6
      <4>4. CASE j - 1 = 1 BY <4>3, <4>4
      <4>5. CASE 1 < j - 1 BY <4>2, <4>3, <4>5
      <4> QED BY <4>1, <4>4, <4>5
    <3>3. mb.seq[q[1]] \in Int /\ mb.seq[q[j - 1]] \in Int BY <2>1, <1>1, <1>6
    <3> QED BY <2>1, <3>1, <3>2, <3>3, <1>7
  <2>3. CASE i # 1
    <3>1. i - 1 \in 1..n /\ r[i] = q[i - 1] /\ i - 1 < j - 1 BY <2>3, <1>1, <1>4
    <3> QED BY <2>1, <3>1, <1>1
  <2> QED BY <2>2, <2>3
<1>14. Good(r, new, c + 1, sc) BY <1>2, <1>10, <1>12, <1>13 DEF Good
<1>17. n # 0 BY <1>6
<1> QED BY <1>2, <1>4, <1>6, <1>8, <1>14, <1>16, <1>17 DEF r, new, n

-----------------------------------------------------------------------------
(***************************************************************************)
(* What each action does to the queue.                                     *)
(***************************************************************************)
LEMMA SentIsFinite ==
  ASSUME NEW A \in SUBSET Msg, NEW B \in SUBSET A
  PROVE  Fronted(B) \in Nat /\ Fronted(A) \in Nat /\ Fronted(B) <= Fronted(A)
<1>1. IsFiniteSet(A) BY MailboxAssumption, FS_Subset
<1>2. IsFiniteSet(B) /\ Cardinality(B) <= Cardinality(A) BY <1>1, FS_Subset
<1>3. Cardinality(A) \in Nat /\ Cardinality(B) \in Nat BY <1>1, <1>2, FS_CardinalityType
<1> QED BY <1>2, <1>3 DEF Fronted

LEMMA InvFacts ==
  ASSUME MailInv, SafeNumbers
  PROVE  LET q == Walk(mail)
             c == Fronted(sent)
         IN  /\ c \in Nat /\ c < -NoneSeen /\ c <= Fronted(Msg) /\ Fronted(Msg) \in Nat
             /\ Good(q, mail, c, scan) /\ scan \in Int /\ NoneSeen <= scan /\ scan <= mail.sequence
             /\ Len(q) \in Nat /\ q \in Seq(Msg) /\ mail \in Box /\ Chain(q, mail)
             /\ Queued = Elements(q)
             /\ sent \ gone = Elements(q) \cup ({held} \ {Nil})
             /\ Elements(q) \subseteq sent \ gone
             /\ \A x \in Msg : mail.seq[x] \in Int /\ NoneSeen < mail.seq[x]
<1> DEFINE q == Walk(mail)
           c == Fronted(sent)
<1>1. sent \in SUBSET Msg BY DEF MailInv, TypeOK
<1>2. c \in Nat /\ c <= Fronted(Msg) /\ Fronted(Msg) \in Nat BY <1>1, SentIsFinite
<1>3. Good(q, mail, c, scan) BY DEF MailInv, QueueRight
<1>4. mail.sequence \in Nat BY <1>3 DEF Good, Box
<1>5. scan \in Int /\ NoneSeen <= scan /\ scan <= mail.sequence
  BY <1>4 DEF MailInv, ScanRight, NoneSeen
<1>6. /\ Len(q) \in Nat /\ q \in Seq(Msg) /\ mail \in Box /\ Chain(q, mail)
      /\ \A x \in Msg : mail.seq[x] \in Int /\ -c <= mail.seq[x]
  BY <1>2, <1>3, <1>5, GoodPlaces
<1>7. DOMAIN q = 1..Len(q) BY <1>6, LenProperties
<1>8. Queued = Elements(q) BY <1>7 DEF Queued, Elements
<1>9. sent \ gone = Elements(q) \cup ({held} \ {Nil}) BY <1>8 DEF MailInv, NothingLost
<1> HIDE DEF c, q
<1>10. \A x \in Msg : NoneSeen < mail.seq[x] BY <1>2, <1>6 DEF SafeNumbers, NoneSeen
<1>11. c < -NoneSeen BY <1>2 DEF SafeNumbers, NoneSeen
<1> QED BY <1>2, <1>3, <1>5, <1>6, <1>8, <1>9, <1>10, <1>11 DEF c, q

LEMMA RepliesAre ==
  ASSUME NEW asked, NEW sender, NEW used, NEW reply \in Replies(asked, sender, used)
  PROVE  reply = {} \/ (asked /\ sender = "self" /\ \E r \in Msg \ used : reply = {r})
  BY DEF Replies

LEMMA WithReplyGrown ==
  ASSUME NEW mb \in Box, NEW q, Chain(q, mb),
         NEW reply, reply = {} \/ \E r \in Msg \ Elements(q) : reply = {r}
  PROVE  \E s : Grown(q, mb, s, WithReply(mb, reply), reply)
<1>1. CASE reply = {} BY <1>1, GrownByNone DEF WithReply
<1>2. CASE reply # {}
  <2>1. PICK r \in Msg \ Elements(q) : reply = {r} BY <1>2
  <2>2. WithReply(mb, reply) = Appended(mb, r) BY <2>1 DEF WithReply
  <2>3. Grown(q, mb, With(q, Len(q) + 1, r), Appended(mb, r), {r}) BY GrownByOne
  <2> QED BY <2>1, <2>2, <2>3
<1> QED BY <1>1, <1>2

\* Messages come behind the others.
LEMMA SendQueue ==
  ASSUME MailInv, SafeNumbers, NEW m \in Msg, NEW sender \in {"other", "self"}, NEW term, NEW asked,
         Send(m, sender, term, asked)
  PROVE  \E more \in SUBSET (Msg \ sent) :
           /\ Grown(Walk(mail), mail, Walk(mail)', mail', more)
           /\ sent' \ gone' = (sent \ gone) \cup more
           /\ term = "over" /\ phase \in {"waiting", "resting"} => mail' = mail /\ from'= [from EXCEPT ![m] = sender]
           /\ \A x \in sent : from'[x] = from[x]
           /\ from' \in [Msg -> {"other", "self", "ack"}]
           /\ sent \subseteq sent' /\ sent' \subseteq Msg /\ gone' \subseteq sent'
<1> DEFINE q == Walk(mail)
<1>1. /\ mail \in Box /\ Chain(q, mail) /\ Elements(q) \subseteq sent
  BY InvFacts
<1>2. /\ sent \subseteq Msg /\ gone \subseteq sent /\ from \in [Msg -> {"other", "self", "ack"}]
      /\ m \notin sent
  BY DEF MailInv, TypeOK, Send
<1>3. PICK reply \in Replies(asked, sender, sent \cup {m}) :
         /\ from' = Acknowledged([from EXCEPT ![m] = sender], reply)
         /\ sent' = sent \cup {m} \cup reply
         /\ IF term = "over"
              THEN gone' = gone \cup {m} /\ mail' = WithReply(mail, reply)
              ELSE gone' = gone /\ mail' = WithReply(Appended(mail, m), reply)
  BY DEF Send
<1>4. \/ reply = {}
      \/ asked /\ sender = "self" /\ \E r \in Msg \ (sent \cup {m}) : reply = {r}
  BY RepliesAre
<1>5. phase \in {"waiting", "resting"} => reply = {} BY <1>4 DEF Send
<1>6. /\ from' \in [Msg -> {"other", "self", "ack"}]
      /\ \A x \in sent : from'[x] = from[x]
      /\ reply = {} => from' = [from EXCEPT ![m] = sender]
  BY <1>2, <1>3, <1>4 DEF Acknowledged
<1> HIDE DEF q
<1>7. CASE term = "over"
  <2>1. PICK s : Grown(q, mail, s, mail', reply) BY <1>1, <1>3, <1>4, <1>7, WithReplyGrown
  <2>2. Walk(mail)' = s BY <2>1, WalkIsChain DEF Grown
  <2>3. phase \in {"waiting", "resting"} => mail' = mail BY <1>3, <1>5, <1>7 DEF WithReply
  <2>4. sent' \ gone' = (sent \ gone) \cup reply BY <1>2, <1>3, <1>4, <1>7
  <2>5. reply \in SUBSET (Msg \ sent) /\ sent \subseteq sent' /\ sent' \subseteq Msg /\ gone' \subseteq sent'
    BY <1>2, <1>3, <1>4, <1>7
  <2> QED BY <2>1, <2>2, <2>3, <2>4, <2>5, <1>5, <1>6 DEF q
<1>8. CASE term # "over"
  <2> DEFINE q1 == With(q, Len(q) + 1, m)
             mb1 == Appended(mail, m)
             more == {m} \cup reply
  <2>1. Grown(q, mail, q1, mb1, {m}) BY <1>1, <1>2, GrownByOne
  <2>2. mb1 \in Box /\ Chain(q1, mb1) /\ Elements(q1) = Elements(q) \cup {m} BY <2>1 DEF Grown
  <2> HIDE DEF q1, mb1
  <2>3. PICK s : Grown(q1, mb1, s, WithReply(mb1, reply), reply)
    BY <2>2, <1>1, <1>4, WithReplyGrown
  <2>4. mail' = WithReply(mb1, reply) BY <1>3, <1>8 DEF mb1
  <2>5. {m} \in SUBSET Msg /\ reply \in SUBSET Msg BY <1>4
  <2>6. Grown(q, mail, s, mail', more) BY <2>1, <2>3, <2>4, <2>5, <1>1, GrownTwice
  <2>7. Walk(mail)' = s BY <2>6, WalkIsChain DEF Grown
  <2>8. sent' \ gone' = (sent \ gone) \cup more BY <1>2, <1>3, <1>4, <1>8
  <2>9. more \in SUBSET (Msg \ sent) /\ sent \subseteq sent' /\ sent' \subseteq Msg /\ gone' \subseteq sent'
    BY <1>2, <1>3, <1>4, <1>8
  <2> HIDE DEF more
  <2> QED BY <2>6, <2>7, <2>8, <2>9, <1>6, <1>8 DEF q
<1> QED BY <1>7, <1>8

LEMMA FrontQueue ==
  ASSUME MailInv, SafeNumbers, NEW m \in Msg, NEW term, NEW asked, FrontMsg(m, term, asked)
  PROVE  /\ Good(Walk(mail)', mail', Fronted(sent)', scan')
         /\ Walk(mail)' = With(Walk(mail), 1, m)
         /\ Elements(Walk(mail)') = Elements(Walk(mail)) \cup {m}
         /\ m \notin Elements(Walk(mail))
         /\ mail.sequence <= mail'.sequence
         /\ \A x \in Msg \ {m} : mail'.seq[x] = mail.seq[x]
         /\ mail'.seq[m] \in Int /\ mail'.seq[m] # scan
         /\ IF Len(Walk(mail)) = 0 THEN mail'.seq[m] > scan
                                   ELSE mail'.seq[m] = mail.seq[Walk(mail)[1]] - 1
<1> DEFINE q == Walk(mail)
           c == Fronted(sent)
<1>1. /\ c \in Nat /\ Good(q, mail, c, scan) /\ scan \in Int /\ scan <= mail.sequence
      /\ mail \in Box /\ Chain(q, mail) /\ Len(q) \in Nat /\ q \in Seq(Msg)
      /\ Elements(q) \subseteq sent
  BY InvFacts
<1>2. /\ m \notin sent /\ sent' = sent \cup {m} /\ sent \subseteq Msg
      /\ mail' = PutFront(mail, m) /\ scan' = scan
  BY DEF MailInv, TypeOK, FrontMsg, recvVars
<1>3. Fronted(sent') = c + 1 /\ c + 1 < -NoneSeen
  <2>1. IsFiniteSet(sent) BY <1>2, MailboxAssumption, FS_Subset
  <2>2. Fronted(sent') = c + 1 BY <2>1, <1>2, FS_AddElement DEF Fronted, FrontMsg
  <2>3. Fronted(sent') <= Fronted(Msg) /\ Fronted(Msg) \in Nat /\ Fronted(sent') \in Nat
    <3>1. sent' \in SUBSET Msg BY <1>2
    <3> QED BY <3>1, SentIsFinite
  <2> HIDE DEF c
  <2> QED BY <2>2, <2>3, <1>1 DEF SafeNumbers, NoneSeen
<1>4. m \notin Elements(q) BY <1>1, <1>2
\* Nothing queued has the number before NoneSeen, and nothing is fronted with the number
\* of a held message.
<1>7. ASSUME mail.mfront # Nil PROVE mail.seq[mail.mfront] - 1 # scan /\ mail.mfront \in Msg
  <2>1. mail.mfront \in Msg BY <1>1, <1>7 DEF Box, Link
  <2>2. CASE phase = "running"
    <3>1. scan = NoneSeen BY <2>2 DEF MailInv, ScanRight
    <3>2. -c <= mail.seq[mail.mfront] /\ mail.seq[mail.mfront] \in Int BY <2>1, <1>1, GoodPlaces
    <3> HIDE DEF c
    <3> QED BY <2>1, <3>1, <3>2, <1>1, <1>3 DEF NoneSeen
  <2>3. CASE phase = "trying"
    <3>1. scan = mail.seq[held] /\ held # Nil
      BY <2>3, MailboxAssumption DEF MailInv, HeldRight, TypeOK
    <3> QED BY <2>1, <3>1, <1>7 DEF FrontMsg, SafeNumbers
  <2> QED BY <2>2, <2>3 DEF FrontMsg
<1> HIDE DEF q, c
<1>5. CASE mail.mfront # Nil
  <2>4. mail.seq[mail.mfront] - 1 # scan BY <1>5, <1>7
  <2>1. /\ Good(With(q, 1, m), mail', c + 1, scan)
        /\ mail'.sequence = mail.sequence
        /\ Elements(With(q, 1, m)) = Elements(q) \cup {m}
        /\ \A x \in Msg : mail'.seq[x] = IF x = m THEN mail.seq[mail.mfront] - 1 ELSE mail.seq[x]
        /\ Len(q) # 0 /\ mail.mfront = q[1]
    BY <1>1, <1>2, <1>4, <1>5, <2>4, FrontGood
  <2>2. Walk(mail)' = With(q, 1, m) BY <2>1, WalkIsChain DEF Good
  <2>3. mail.sequence <= mail'.sequence BY <2>1, <1>1 DEF Box
  <2>5. /\ \A x \in Msg \ {m} : mail'.seq[x] = mail.seq[x]
        /\ mail'.seq[m] = mail.seq[mail.mfront] - 1
    BY <2>1
  <2>6. mail'.seq[m] \in Int /\ mail'.seq[m] # scan
    <3>1. mail.seq[mail.mfront] \in Int BY <1>1, <1>5, <1>7 DEF Box
    <3> QED BY <3>1, <2>4, <2>5
  <2>7. mail'.seq[m] = mail.seq[q[1]] - 1 BY <2>1, <2>5
  <2> QED BY <2>1, <2>2, <2>3, <2>5, <2>6, <2>7, <1>2, <1>3, <1>4 DEF q
<1>6. CASE mail.mfront = Nil
  <2>1. Len(q) = 0
    <3>1. mail.mfront = At(q, 1) /\ (1 \in 1..Len(q) => At(q, 1) = q[1] /\ q[1] \in Msg)
      BY <1>1, SeqPlaces DEF Chain, At
    <3>2. 1 \notin 1..Len(q) BY <3>1, <1>6, MailboxAssumption
    <3> QED BY <3>2, <1>1
  <2>2. mail' = Appended(mail, m) BY <1>2, <1>6 DEF PutFront
  <2>3. Grown(q, mail, With(q, 1, m), mail', {m})
    <3>1. Len(q) + 1 = 1 BY <2>1
    <3> QED BY <3>1, <2>2, <1>1, <1>4, GrownByOne
  <2>4. Good(With(q, 1, m), mail', c + 1, scan)
    <3>1. c + 1 \in Nat /\ c <= c + 1 /\ {m} \in SUBSET Msg BY <1>1
    <3> QED BY <3>1, <2>3, <1>1, GrownGood
  <2>5. /\ Elements(With(q, 1, m)) = Elements(q) \cup {m}
        /\ mail.sequence <= mail'.sequence
        /\ \A x \in Msg \ {m} : mail'.seq[x] = mail.seq[x]
        /\ mail'.seq[m] \in mail.sequence + 1 .. mail'.sequence /\ mail' \in Box
    BY <2>3 DEF Grown
  <2>6. Walk(mail)' = With(q, 1, m) BY <2>4, WalkIsChain DEF Good
  <2>7. mail'.seq[m] \in Int /\ mail'.seq[m] # scan /\ mail'.seq[m] > scan
    <3>1. mail.sequence \in Nat /\ mail'.sequence \in Nat BY <2>5, <1>1 DEF Box
    <3> QED BY <3>1, <2>5, <1>1
  <2> QED BY <2>1, <2>4, <2>5, <2>6, <2>7, <1>2, <1>3, <1>4 DEF q
<1> QED BY <1>5, <1>6

LEMMA CursorAt ==
  ASSUME MailInv, SafeNumbers, phase = "looking", cursor # Nil
  PROVE  \E k \in 1..Len(Walk(mail)) : cursor = Walk(mail)[k] /\ Passed(Walk(mail), k)
  BY DEF MailInv, CursorRight

\* The looked-at message leaves the queue.
LEMMA TakeQueue ==
  ASSUME MailInv, SafeNumbers, TakeMessage
  PROVE  \E k \in 1..Len(Walk(mail)) :
           /\ cursor = Walk(mail)[k] /\ Passed(Walk(mail), k)
           /\ Walk(mail)' = Without(Walk(mail), k)
           /\ Good(Walk(mail)', mail', Fronted(sent)', scan')
           /\ mail'.seq = mail.seq /\ mail'.sequence = mail.sequence
           /\ Elements(Walk(mail)') = Elements(Walk(mail)) \ {cursor}
<1> DEFINE q == Walk(mail)
           c == Fronted(sent)
<1>1. /\ c \in Nat /\ Good(q, mail, c, scan) /\ scan \in Int
      /\ \A x \in Msg : mail.seq[x] \in Int
      /\ \A i \in 1..Len(q) : q[i] \in Msg
  BY InvFacts, SeqPlaces
<1>2. PICK k \in 1..Len(q) : cursor = q[k] /\ Passed(q, k) BY CursorAt DEF TakeMessage
<1>3. /\ mail' = Unlinked(mail, q[k]) /\ scan' = mail.seq[q[k]] /\ sent' = sent
      /\ mail.seq[q[k]] \in Int
  BY <1>1, <1>2 DEF TakeMessage
<1>4. \A i \in 1..k - 1 : mail.seq[q[i]] <= scan BY <1>2 DEF Passed
<1> HIDE DEF q, c
<1>5. mail.seq[q[k]] <= mail.seq[q[k]] /\ scan <= mail.seq[q[k]] /\ mail.seq[q[k]] > scan
  BY <1>1, <1>2, <1>3 DEF TakeMessage
<1>6. /\ Good(Without(q, k), mail', c, scan')
      /\ mail'.seq = mail.seq /\ mail'.sequence = mail.sequence
      /\ Elements(Without(q, k)) = Elements(q) \ {q[k]}
  BY <1>1, <1>3, <1>4, <1>5, UnlinkedGood
<1>7. Walk(mail)' = Without(q, k) BY <1>6, WalkIsChain DEF Good
<1>8. Fronted(sent)' = c BY <1>3 DEF c
<1> QED BY <1>2, <1>6, <1>7, <1>8 DEF q

\* The outdated message leaves it, after its acknowledgement came behind the others.
LEMMA DropQueue ==
  ASSUME MailInv, SafeNumbers, DropOutdated
  PROVE  \E k \in 1..Len(Walk(mail)), more \in SUBSET (Msg \ sent), r \in Seq(Msg), mb \in Box :
           /\ cursor = Walk(mail)[k] /\ Passed(Walk(mail), k)
           /\ Grown(Walk(mail), mail, r, mb, more)
           /\ Walk(mail)' = Without(r, k)
           /\ Good(Walk(mail)', mail', Fronted(sent)', scan')
           /\ mail'.seq = mb.seq /\ mail'.sequence = mb.sequence
           /\ Elements(Walk(mail)') = Elements(r) \ {cursor}
           /\ sent' = sent \cup more /\ from' = Acknowledged(from, more)
           /\ more # {} => escape # "wait"
<1> DEFINE q == Walk(mail)
           c == Fronted(sent)
<1>1. /\ c \in Nat /\ Good(q, mail, c, scan) /\ scan \in Int /\ scan <= mail.sequence
      /\ mail \in Box /\ Chain(q, mail) /\ Elements(q) \subseteq sent /\ Len(q) \in Nat
      /\ \A x \in Msg : mail.seq[x] \in Int
      /\ \A i \in 1..Len(q) : q[i] \in Msg /\ q[i] \in Elements(q)
  BY InvFacts, SeqPlaces DEF Elements
<1>2. PICK k \in 1..Len(q) : cursor = q[k] /\ Passed(q, k) BY CursorAt DEF DropOutdated
<1>3. PICK reply \in Replies(asks[cursor] /\ escape # "wait", from[cursor], sent) :
         /\ from' = Acknowledged(from, reply)
         /\ sent' = sent \cup reply
         /\ mail' = Unlinked(WithReply(mail, reply), cursor)
  BY DEF DropOutdated
<1>4. reply = {} \/ (escape # "wait" /\ \E r \in Msg \ sent : reply = {r}) BY RepliesAre
<1>5. reply \in SUBSET (Msg \ sent) BY <1>4
<1>6. scan' = scan /\ mail.seq[q[k]] > scan /\ sent \subseteq Msg
  BY <1>2 DEF DropOutdated, MailInv, TypeOK
<1>7. \A i \in 1..k - 1 : mail.seq[q[i]] <= scan BY <1>2 DEF Passed
<1> HIDE DEF q, c
<1> DEFINE mb == WithReply(mail, reply)
<1>8. PICK r : Grown(q, mail, r, mb, reply) BY <1>1, <1>4, WithReplyGrown
<1>20. r \in Seq(Msg) /\ mb \in Box BY <1>8 DEF Grown, Chain
<1> DEFINE c2 == Fronted(sent')
<1>9. c2 \in Nat /\ c <= c2
  <2>1. sent' \in SUBSET Msg /\ sent \in SUBSET sent' BY <1>3, <1>5, <1>6
  <2> QED BY <2>1, SentIsFinite DEF c
<1> HIDE DEF mb, c2
<1>10. Good(r, mb, c2, scan)
  <2>1. reply \in SUBSET Msg BY <1>5
  <2> QED BY <2>1, <1>1, <1>8, <1>9, GrownGood
<1>11. /\ Len(r) \in Nat /\ Len(q) <= Len(r)
       /\ \A i \in 1..Len(q) : r[i] = q[i] /\ mb.seq[r[i]] = mail.seq[q[i]]
  <2>1. Len(r) \in Nat /\ Len(q) <= Len(r) BY <1>10, <1>1, <1>9, <1>8, GoodPlaces DEF Grown
  <2>2. \A i \in 1..Len(q) : r[i] = q[i] /\ q[i] \in Msg \ reply
    BY <1>1, <1>5, <1>8 DEF Grown
  <2> QED BY <2>1, <2>2, <1>8 DEF Grown
<1>12. k \in 1..Len(r) /\ r[k] = q[k] /\ mb.seq[r[k]] > scan /\ mb.seq[r[k]] \in Int
  BY <1>1, <1>6, <1>11
<1>13. \A i \in 1..k - 1 : mb.seq[r[i]] <= scan
  <2>1. \A i \in 1..k - 1 : i \in 1..Len(q) BY <1>1
  <2> QED BY <2>1, <1>7, <1>11
<1>14. scan <= mb.seq[r[k]] /\ scan <= scan BY <1>1, <1>12
<1>15. mail' = Unlinked(mb, r[k]) BY <1>2, <1>3, <1>12 DEF mb
<1>16. /\ Good(Without(r, k), mail', c2, scan)
       /\ mail'.seq = mb.seq /\ mail'.sequence = mb.sequence
       /\ Elements(Without(r, k)) = Elements(r) \ {r[k]}
  BY <1>1, <1>9, <1>10, <1>12, <1>13, <1>14, <1>15, UnlinkedGood
<1>17. Walk(mail)' = Without(r, k) BY <1>16, WalkIsChain DEF Good
<1>18. Fronted(sent)' = c2 BY DEF c2
<1>19. reply # {} => escape # "wait" BY <1>4
<1> QED BY <1>2, <1>3, <1>5, <1>6, <1>8, <1>12, <1>16, <1>17, <1>18, <1>19, <1>20 DEF q

\* The rejected message goes back to where it was, after its acknowledgement came behind
\* the others.
LEMMA RejectQueue ==
  ASSUME MailInv, SafeNumbers, Reject
  PROVE  \E more \in SUBSET (Msg \ sent), r \in Seq(Msg), mb \in Box : \E k \in 1..Len(r) + 1 :
           /\ Grown(Walk(mail), mail, r, mb, more)
           /\ \A i \in 1..Len(r) : IF i < k THEN mb.seq[r[i]] < scan ELSE scan < mb.seq[r[i]]
           /\ Walk(mail)' = With(r, k, held)
           /\ Good(Walk(mail)', mail', Fronted(sent)', scan')
           /\ mail'.seq = mb.seq /\ mail'.sequence = mb.sequence
           /\ Elements(Walk(mail)') = Elements(r) \cup {held}
           /\ sent' = sent \cup more /\ from' = Acknowledged(from, more)
           /\ LookFromFront(mail')
<1> DEFINE q == Walk(mail)
           c == Fronted(sent)
<1>1. /\ c \in Nat /\ Good(q, mail, c, scan) /\ scan \in Int /\ scan <= mail.sequence
      /\ mail \in Box /\ Chain(q, mail) /\ Elements(q) \subseteq sent /\ Len(q) \in Nat
      /\ \A x \in Msg : mail.seq[x] \in Int
      /\ sent \ gone = Elements(q) \cup ({held} \ {Nil})
  BY InvFacts
<1>2. /\ held \in sent /\ held # Nil /\ held \in Msg /\ sent \subseteq Msg
      /\ scan = mail.seq[held] /\ held \notin Elements(q)
      /\ \A x \in Elements(q) : mail.seq[x] # scan
      /\ scan' = scan
  BY MailboxAssumption DEF MailInv, HeldRight, TypeOK, Reject
<1>3. PICK reply \in Replies(asks[held] /\ lease[held] = "over", from[held], sent) :
         /\ from' = Acknowledged(from, reply)
         /\ sent' = sent \cup reply
         /\ mail' = Replaced(WithReply(mail, reply), held)
         /\ LookFromFront(mail')
  BY DEF Reject
<1>4. reply = {} \/ \E r \in Msg \ sent : reply = {r} BY RepliesAre
<1>5. reply \in SUBSET (Msg \ sent) /\ reply \in SUBSET Msg BY <1>4
<1> HIDE DEF q, c
<1> DEFINE mb == WithReply(mail, reply)
<1>6. PICK r : Grown(q, mail, r, mb, reply) BY <1>1, <1>4, WithReplyGrown
<1>16. r \in Seq(Msg) /\ mb \in Box BY <1>6 DEF Grown, Chain
<1> DEFINE c2 == Fronted(sent')
<1>7. c2 \in Nat /\ c <= c2
  <2>1. sent' \in SUBSET Msg /\ sent \in SUBSET sent' BY <1>2, <1>3, <1>5
  <2> QED BY <2>1, SentIsFinite DEF c
<1> HIDE DEF mb, c2
<1>8. Good(r, mb, c2, scan) BY <1>1, <1>5, <1>6, <1>7, GrownGood
<1>9. /\ Elements(r) = Elements(q) \cup reply
      /\ \A x \in Msg \ reply : mb.seq[x] = mail.seq[x]
      /\ \A x \in reply : mb.seq[x] \in mail.sequence + 1 .. mb.sequence
      /\ mail.sequence \in Nat /\ mb.sequence \in Nat
  BY <1>1, <1>6 DEF Grown, Box
<1>10. held \notin Elements(r) /\ scan = mb.seq[held] BY <1>2, <1>5, <1>9
<1>11. \A x \in Elements(r) : mb.seq[x] # scan
  <2> SUFFICES ASSUME NEW x \in Elements(r) PROVE mb.seq[x] # scan OBVIOUS
  <2>1. CASE x \in reply
    <3>1. mb.seq[x] \in mail.sequence + 1 .. mb.sequence BY <2>1, <1>9
    <3> QED BY <3>1, <1>1, <1>9
  <2>2. CASE x \notin reply
    <3>1. x \in Elements(q) /\ x \in Msg \ reply BY <2>2, <1>1, <1>2, <1>9
    <3> QED BY <3>1, <1>2, <1>9
  <2> QED BY <2>1, <2>2
<1>12. mail' = Replaced(mb, held) BY <1>3 DEF mb
<1>13. PICK k \in 1..Len(r) + 1 :
          /\ Good(With(r, k, held), mail', c2, scan)
          /\ mail'.seq = mb.seq /\ mail'.sequence = mb.sequence
          /\ Elements(With(r, k, held)) = Elements(r) \cup {held}
          /\ \A i \in 1..Len(r) : IF i < k THEN mb.seq[r[i]] < scan ELSE scan < mb.seq[r[i]]
  BY <1>1, <1>2, <1>7, <1>8, <1>10, <1>11, <1>12, ReplacedGood
<1>14. Walk(mail)' = With(r, k, held) BY <1>13, WalkIsChain DEF Good
<1>15. Fronted(sent)' = c2 BY DEF c2
<1> QED BY <1>2, <1>3, <1>5, <1>6, <1>13, <1>14, <1>15, <1>16 DEF q

-----------------------------------------------------------------------------
(***************************************************************************)
(* Each action preserves the invariant.                                    *)
(***************************************************************************)
LEMMA DomainElements ==
  ASSUME NEW q \in Seq(Msg)
  PROVE  {q[i] : i \in DOMAIN q} = Elements(q)
  BY LenProperties DEF Elements

\* A receive that begins with the first message.
LEMMA LookedFromFront ==
  ASSUME NEW r, Chain(r, mail'), LookFromFront(mail')
  PROVE  CursorRight' /\ cursor' \in Link /\ phase' = "looking"
<1>1. Walk(mail)' = r /\ cursor' = At(r, 1) /\ phase' = "looking"
  BY WalkIsChain DEF LookFromFront, Chain
<1>2. Len(r) \in Nat /\ \A i \in 1..Len(r) : r[i] \in Msg BY LenProperties DEF Chain
<1>3. At(r, 1) = IF 1 \in 1..Len(r) THEN r[1] ELSE Nil BY DEF At
<1>4. CASE 1 \in 1..Len(r)
  <2>1. cursor' = r[1] /\ r[1] \in Msg BY <1>1, <1>2, <1>3, <1>4
  <2>2. \A i \in 1..1 - 1 : (mail.seq[r[i]] <= scan)' OBVIOUS
  <2>3. CursorRight' BY <2>1, <2>2, <1>1, <1>4 DEF CursorRight, Passed
  <2> QED BY <2>1, <2>3, <1>1 DEF Link
<1>5. CASE 1 \notin 1..Len(r)
  <2>1. cursor' = Nil /\ Elements(r) = {} BY <1>1, <1>2, <1>3, <1>5 DEF Elements
  <2>2. CursorRight' BY <2>1, <1>1 DEF CursorRight
  <2> QED BY <2>1, <2>2, <1>1 DEF Link
<1> QED BY <1>4, <1>5

LEMMA SendStep ==
  ASSUME MailInv, SafeNumbers, NEW m \in Msg, NEW sender \in {"other", "self"},
         NEW term \in {"none", "running", "over"}, NEW asked \in BOOLEAN,
         Send(m, sender, term, asked)
  PROVE  MailInv'
<1> DEFINE q == Walk(mail)
           r == Walk(mail)'
           c == Fronted(sent)
<1>1. /\ c \in Nat /\ Good(q, mail, c, scan) /\ scan \in Int /\ NoneSeen <= scan
      /\ scan <= mail.sequence
      /\ mail \in Box /\ Chain(q, mail)
      /\ Queued = Elements(q) /\ Elements(q) \subseteq sent
      /\ sent \ gone = Elements(q) \cup ({held} \ {Nil})
      /\ \A x \in Msg : mail.seq[x] \in Int
  BY InvFacts
<1>2. PICK more \in SUBSET (Msg \ sent) :
        /\ Grown(q, mail, r, mail', more)
        /\ sent' \ gone' = (sent \ gone) \cup more
        /\ term = "over" /\ phase \in {"waiting", "resting"} => mail' = mail /\ from' = [from EXCEPT ![m] = sender]
        /\ \A x \in sent : from'[x] = from[x]
        /\ from' \in [Msg -> {"other", "self", "ack"}]
        /\ sent \subseteq sent' /\ sent' \subseteq Msg /\ gone' \subseteq sent'
  BY SendQueue
<1>3. /\ phase # "looking" /\ m \notin sent
      /\ \/ term = "over" /\ phase' = phase /\ cursor' = cursor
         \/ term # "over" /\ Wake(mail')
      /\ escape' = escape /\ scan' = scan /\ held' = held
      /\ lease' = [lease EXCEPT ![m] = term] /\ asks' = [asks EXCEPT ![m] = asked]
  BY DEF Send
<1>4. /\ \/ phase = "waiting" /\ term # "over" /\ LookFromFront(mail')
         \/ phase' = phase /\ cursor' = cursor /\ (phase \in {"waiting", "resting"} => term = "over")
         \/ phase = "resting" /\ term # "over" /\ phase' = "running" /\ cursor' = cursor
  BY <1>3 DEF Wake
<1>5. /\ TypeOK /\ ScanRight /\ NothingLost /\ HeldRight /\ CursorRight /\ NoMessageMissed
  BY DEF MailInv
<1>6. /\ mail' \in Box /\ Chain(r, mail') /\ Elements(r) = Elements(q) \cup more
      /\ mail.sequence \in Nat /\ mail'.sequence \in Nat /\ mail.sequence <= mail'.sequence
      /\ \A x \in Msg \ more : mail'.seq[x] = mail.seq[x]
      /\ \A x \in more : mail'.seq[x] \in mail.sequence + 1 .. mail'.sequence
  BY <1>1, <1>2 DEF Grown, Box
<1>7. held \in Link /\ held \notin more
  <2>1. held \in Link /\ (held # Nil => held \in sent) BY <1>1, <1>5 DEF TypeOK
  <2> QED BY <2>1, <1>2, MailboxAssumption
<1>8. QueueRight'
  <2>1. Fronted(sent') \in Nat /\ c <= Fronted(sent')
    <3>1. sent' \in SUBSET Msg /\ sent \in SUBSET sent' BY <1>2
    <3> QED BY <3>1, SentIsFinite
  <2>2. more \in SUBSET Msg BY <1>2
  <2> HIDE DEF q, r, c
  <2>3. Good(r, mail', Fronted(sent'), scan) BY <2>1, <2>2, <1>1, <1>2, GrownGood
  <2> QED BY <2>3, <1>3 DEF QueueRight, r
<1>9. CursorRight' /\ cursor' \in Link /\ phase' \in {"running", "looking", "trying", "waiting", "resting"}
  <2>1. CASE phase = "waiting" /\ LookFromFront(mail')
    <3>1. CursorRight' /\ cursor' \in Link /\ phase' = "looking" BY <2>1, <1>6, LookedFromFront
    <3> QED BY <3>1
  <2>2. CASE phase' # "looking" /\ cursor' = cursor
    <3>1. cursor = Nil BY <1>3, <1>5 DEF CursorRight
    <3>2. CursorRight' /\ cursor' \in Link BY <3>1, <2>2 DEF CursorRight, Link
    <3>3. phase' \in {"running", "looking", "trying", "waiting", "resting"}
      <4>1. phase \in {"running", "looking", "trying", "waiting", "resting"} BY <1>5 DEF TypeOK
      <4> QED BY <4>1, <1>4 DEF LookFromFront
    <3> QED BY <3>2, <3>3
  <2> QED BY <2>1, <2>2, <1>3, <1>4
<1>10. TypeOK'
  <2>1. mail' \in Box /\ scan' \in Int /\ held' \in Link BY <1>1, <1>3, <1>6, <1>7
  <2>2. lease' \in [Msg -> {"none", "running", "over"}] /\ asks' \in [Msg -> BOOLEAN]
    BY <1>3, <1>5 DEF TypeOK
  <2>3. escape' \in {"next", "wait", "get"} BY <1>3, <1>5 DEF TypeOK
  <2> QED BY <2>1, <2>2, <2>3, <1>2, <1>9 DEF TypeOK, Box
<1>11. ScanRight'
  <2>1. scan' \in NoneSeen .. mail'.sequence BY <1>1, <1>3, <1>6 DEF NoneSeen
  <2>2. phase' \in {"running", "resting"} => phase \in {"running", "resting"}
    BY <1>4 DEF LookFromFront
  <2> QED BY <2>1, <2>2, <1>3, <1>5 DEF ScanRight
<1>12. Queued' = Elements(r)
  <2>1. r \in Seq(Msg) BY <1>6 DEF Chain
  <2> QED BY <2>1, DomainElements DEF Queued
<1>13. NothingLost' BY <1>1, <1>2, <1>3, <1>6, <1>12 DEF NothingLost
<1>14. HeldRight'
  <2>1. phase' = "trying" <=> phase = "trying" BY <1>4 DEF LookFromFront
  <2>2. phase = "trying" => held \in sent' \ gone' /\ scan = mail'.seq[held]
    <3>1. phase = "trying" => held \in sent \ gone /\ held \in Msg /\ scan = mail.seq[held]
      BY <1>5 DEF HeldRight, TypeOK
    <3> QED BY <3>1, <1>2, <1>6, <1>7
  <2>3. phase # "trying" => held = Nil BY <1>5 DEF HeldRight
  <2>4. held \notin Elements(r) BY <1>5, <1>6, <1>7 DEF HeldRight
  <2>5. ASSUME NEW x \in Elements(r), held # Nil PROVE mail'.seq[x] # mail'.seq[held]
    <3>1. mail'.seq[held] = scan BY <2>2, <2>3, <2>5
    <3>2. CASE x \in more
      <4>1. mail'.seq[x] \in mail.sequence + 1 .. mail'.sequence BY <3>2, <1>6
      <4> QED BY <4>1, <3>1, <1>1, <1>6
    <3>3. CASE x \notin more
      <4>1. x \in Elements(q) /\ x \in Msg \ more BY <3>3, <1>1, <1>5, <1>6 DEF TypeOK
      <4>2. mail.seq[x] # mail.seq[held] BY <4>1, <2>5, <1>5 DEF HeldRight
      <4>3. mail'.seq[held] = mail.seq[held] BY <2>5, <1>6, <1>7 DEF Link
      <4> QED BY <4>1, <4>2, <4>3, <1>6
    <3> QED BY <3>2, <3>3
  <2> HIDE DEF r
  <2>6. HeldRight' BY <2>1, <2>2, <2>3, <2>4, <2>5, <1>3 DEF HeldRight, r
  <2> QED BY <2>6
<1>15. NoMessageMissed'
  <2>1. CASE phase \in {"waiting", "resting"} /\ phase' = phase
    <3>1. mail' = mail /\ \A x \in sent : from'[x] = from[x]
      BY <2>1, <1>2, <1>4 DEF LookFromFront
    <3>2. Queued' = Queued /\ \A x \in Queued : x \in sent BY <3>1, <1>1 DEF Queued
    <3> QED BY <2>1, <3>1, <3>2, <1>3, <1>5 DEF NoMessageMissed
  <2>2. CASE phase' \notin {"waiting", "resting"} BY <2>2 DEF NoMessageMissed
  <2> QED BY <2>1, <2>2, <1>4 DEF LookFromFront
<1> QED BY <1>8, <1>9, <1>10, <1>11, <1>13, <1>14, <1>15 DEF MailInv

LEMMA FrontStep ==
  ASSUME MailInv, SafeNumbers, NEW m \in Msg, NEW term \in {"none", "running", "over"},
         NEW asked \in BOOLEAN, FrontMsg(m, term, asked)
  PROVE  MailInv'
<1> DEFINE q == Walk(mail)
           r == Walk(mail)'
<1>1. /\ scan \in Int /\ NoneSeen <= scan /\ scan <= mail.sequence
      /\ mail \in Box /\ Elements(q) \subseteq sent
      /\ sent \ gone = Elements(q) \cup ({held} \ {Nil})
  BY InvFacts
<1>2. /\ Good(r, mail', Fronted(sent)', scan')
      /\ Elements(r) = Elements(q) \cup {m} /\ mail.sequence <= mail'.sequence
      /\ \A x \in Msg \ {m} : mail'.seq[x] = mail.seq[x]
      /\ mail'.seq[m] # scan
  BY FrontQueue
<1>3. /\ phase \in {"running", "trying"} /\ phase' = phase /\ m \notin sent /\ sent' = sent \cup {m}
      /\ escape' = escape /\ scan' = scan /\ cursor' = cursor /\ held' = held /\ gone' = gone
      /\ from' = [from EXCEPT ![m] = "self"]
      /\ lease' = [lease EXCEPT ![m] = term] /\ asks' = [asks EXCEPT ![m] = asked]
  BY DEF FrontMsg, recvVars
<1>4. TypeOK /\ ScanRight /\ HeldRight /\ CursorRight BY DEF MailInv
<1>5. cursor = Nil /\ held # m
  <2>1. held # Nil => held \in sent BY <1>4 DEF HeldRight
  <2> QED BY <2>1, <1>3, <1>4, MailboxAssumption DEF CursorRight
<1>6. mail' \in Box /\ r \in Seq(Msg) BY <1>2 DEF Good, Chain
<1>7. QueueRight' BY <1>2 DEF QueueRight
<1>8. TypeOK'
  <2>1. sent' \subseteq Msg /\ gone' \subseteq sent' BY <1>3, <1>4 DEF TypeOK
  <2>2. /\ from' \in [Msg -> {"other", "self", "ack"}] /\ asks' \in [Msg -> BOOLEAN]
        /\ lease' \in [Msg -> {"none", "running", "over"}]
    BY <1>3, <1>4 DEF TypeOK
  <2>3. /\ scan' \in Int /\ cursor' \in Link /\ held' \in Link
        /\ escape' \in {"next", "wait", "get"}
    BY <1>3, <1>4 DEF TypeOK
  <2> QED BY <2>1, <2>2, <2>3, <1>3, <1>6 DEF TypeOK, Box
<1>9. ScanRight'
  <2>1. mail.sequence \in Nat /\ mail'.sequence \in Nat BY <1>1, <1>6 DEF Box
  <2> QED BY <2>1, <1>1, <1>2, <1>3, <1>4 DEF ScanRight, NoneSeen
<1>10. Queued' = Elements(r) BY <1>6, DomainElements DEF Queued
<1>11. NothingLost'
  <2>1. m \notin gone BY <1>3, <1>4 DEF TypeOK
  <2> QED BY <2>1, <1>1, <1>2, <1>3, <1>10 DEF NothingLost
<1>12. HeldRight'
  <2>1. phase = "trying" => held \in sent' \ gone' /\ scan = mail'.seq[held]
    <3>1. phase = "trying" => held \in sent \ gone /\ held \in Msg /\ scan = mail.seq[held]
      BY <1>4 DEF HeldRight, TypeOK
    <3> QED BY <3>1, <1>2, <1>3, <1>5
  <2>2. phase # "trying" => held = Nil BY <1>4 DEF HeldRight
  <2>3. held \notin Elements(r) BY <1>2, <1>4, <1>5 DEF HeldRight
  <2>4. ASSUME NEW x \in Elements(r), held # Nil PROVE mail'.seq[x] # mail'.seq[held]
    <3>1. held \in Msg \ {m} /\ mail'.seq[held] = scan
      BY <2>1, <2>2, <2>4, <1>4, <1>5 DEF TypeOK, Link
    <3>2. CASE x = m BY <3>1, <3>2, <1>2
    <3>3. CASE x # m
      <4>1. x \in Elements(q) /\ x \in Msg \ {m} BY <3>3, <1>1, <1>2, <1>4 DEF TypeOK
      <4>2. mail.seq[x] # mail.seq[held] BY <4>1, <2>4, <1>4 DEF HeldRight
      <4> QED BY <4>1, <4>2, <3>1, <1>2
    <3> QED BY <3>2, <3>3
  <2> HIDE DEF r
  <2> QED BY <2>1, <2>2, <2>3, <2>4, <1>3 DEF HeldRight, r
<1>13. CursorRight' BY <1>3, <1>5 DEF CursorRight
<1>14. NoMessageMissed' BY <1>3 DEF NoMessageMissed
<1> QED BY <1>7, <1>8, <1>9, <1>11, <1>12, <1>13, <1>14 DEF MailInv

LEMMA LeaseStep ==
  ASSUME MailInv, SafeNumbers, NEW m \in Msg, LeaseEnds(m)
  PROVE  MailInv'
<1>1. /\ UNCHANGED << mail, from, asks, phase, escape, scan, cursor, held, sent, gone >>
      /\ lease' = [lease EXCEPT ![m] = "over"]
  BY DEF LeaseEnds, recvVars
<1>2. TypeOK' BY <1>1 DEF MailInv, TypeOK
<1>3. QueueRight' /\ ScanRight' BY <1>1 DEF MailInv, QueueRight, ScanRight
<1>4. NothingLost' /\ HeldRight' BY <1>1 DEF MailInv, NothingLost, HeldRight, Queued
<1>5. CursorRight' /\ NoMessageMissed'
  BY <1>1 DEF MailInv, CursorRight, Passed, NoMessageMissed, Queued
<1> QED BY <1>2, <1>3, <1>4, <1>5 DEF MailInv

LEMMA BeginReceiveStep ==
  ASSUME MailInv, SafeNumbers, NEW e \in {"next", "wait", "get"}, BeginReceive(e)
  PROVE  MailInv'
<1>1. /\ UNCHANGED << mail, from, lease, asks, held, sent, gone >>
      /\ phase = "running" /\ escape' = e /\ scan' = NoneSeen /\ LookFromFront(mail)
  BY DEF BeginReceive, msgVars
<1>2. scan' = scan BY <1>1 DEF MailInv, ScanRight
<1>3. CursorRight' /\ cursor' \in Link /\ phase' = "looking"
  <2>1. Chain(Walk(mail), mail') /\ LookFromFront(mail') BY <1>1, InvFacts
  <2> QED BY <2>1, LookedFromFront
<1>4. TypeOK' BY <1>1, <1>2, <1>3 DEF MailInv, TypeOK
<1>5. QueueRight' /\ ScanRight' BY <1>1, <1>2, <1>3 DEF MailInv, QueueRight, ScanRight
<1>6. NothingLost' BY <1>1 DEF MailInv, NothingLost, Queued
<1>7. HeldRight' BY <1>1, <1>3 DEF MailInv, HeldRight
<1>8. NoMessageMissed' BY <1>3 DEF NoMessageMissed
<1> QED BY <1>3, <1>4, <1>5, <1>6, <1>7, <1>8 DEF MailInv

LEMMA AlarmStep ==
  ASSUME MailInv, SafeNumbers, AlarmWakes
  PROVE  MailInv'
<1>1. /\ UNCHANGED << mail, from, lease, asks, escape, scan, held, sent, gone >>
      /\ phase = "waiting" /\ LookFromFront(mail)
  BY DEF AlarmWakes, msgVars
<1>3. CursorRight' /\ cursor' \in Link /\ phase' = "looking"
  <2>1. Chain(Walk(mail), mail') /\ LookFromFront(mail') BY <1>1, InvFacts
  <2> QED BY <2>1, LookedFromFront
<1>4. TypeOK' BY <1>1, <1>3 DEF MailInv, TypeOK
<1>5. QueueRight' /\ ScanRight' BY <1>1, <1>3 DEF MailInv, QueueRight, ScanRight
<1>6. NothingLost' BY <1>1 DEF MailInv, NothingLost, Queued
<1>7. HeldRight' BY <1>1, <1>3 DEF MailInv, HeldRight
<1>8. NoMessageMissed' BY <1>3 DEF NoMessageMissed
<1> QED BY <1>3, <1>4, <1>5, <1>6, <1>7, <1>8 DEF MailInv

LEMMA PassStep ==
  ASSUME MailInv, SafeNumbers, Pass
  PROVE  MailInv'
<1> DEFINE q == Walk(mail)
<1>1. /\ UNCHANGED << mail, from, lease, asks, phase, escape, scan, held, sent, gone >>
      /\ phase = "looking" /\ cursor # Nil /\ mail.seq[cursor] <= scan
      /\ cursor' = mail.next[cursor]
  BY DEF Pass, msgVars
<1>2. /\ Len(q) \in Nat /\ Chain(q, mail) /\ \A i \in 1..Len(q) : q[i] \in Msg
      /\ \A i \in 1..Len(q) : mail.next[q[i]] = At(q, i + 1)
  BY InvFacts, SeqPlaces DEF Chain
<1>3. PICK k \in 1..Len(q) : cursor = q[k] /\ Passed(q, k) BY <1>1, CursorAt
<1>4. cursor' = IF k + 1 \in 1..Len(q) THEN q[k + 1] ELSE Nil BY <1>1, <1>2, <1>3 DEF At
<1>5. \A i \in 1..k : mail.seq[q[i]] <= scan
  <2>1. \A i \in 1..k : i = k \/ i \in 1..k - 1 BY <1>2
  <2> QED BY <2>1, <1>1, <1>3 DEF Passed
<1> HIDE DEF q
<1>6. CursorRight' /\ cursor' \in Link
  <2>1. CASE k + 1 \in 1..Len(q)
    <3>1. cursor' = q[k + 1] /\ cursor' \in Link BY <2>1, <1>2, <1>4 DEF Link
    <3>2. k + 1 - 1 = k BY <1>2
    <3>3. Passed(q, k + 1)' BY <3>2, <1>1, <1>5 DEF Passed, q
    <3>4. Walk(mail)' = q BY <1>1 DEF q
    <3>5. \E j \in 1..Len(q) : cursor' = q[j] /\ Passed(q, j)' BY <2>1, <3>1, <3>3
    <3>6. CursorRight' BY <3>4, <3>5, <1>1 DEF CursorRight, q
    <3> QED BY <3>1, <3>6
  <2>2. CASE k + 1 \notin 1..Len(q)
    <3>1. k = Len(q) /\ cursor' = Nil BY <2>2, <1>2, <1>4
    <3>2. \A x \in Elements(q) : mail.seq[x] <= scan BY <3>1, <1>5 DEF Elements
    <3>3. CursorRight' BY <3>1, <3>2, <1>1 DEF CursorRight, q
    <3> QED BY <3>1, <3>3 DEF Link
  <2> QED BY <2>1, <2>2
<1>7. TypeOK' BY <1>1, <1>6 DEF MailInv, TypeOK
<1>8. QueueRight' /\ ScanRight' BY <1>1 DEF MailInv, QueueRight, ScanRight
<1>9. NothingLost' /\ HeldRight' BY <1>1 DEF MailInv, NothingLost, HeldRight, Queued
<1>10. NoMessageMissed' BY <1>1 DEF NoMessageMissed
<1> QED BY <1>6, <1>7, <1>8, <1>9, <1>10 DEF MailInv

LEMMA TakeStep ==
  ASSUME MailInv, SafeNumbers, TakeMessage
  PROVE  MailInv'
<1> DEFINE q == Walk(mail)
           r == Walk(mail)'
<1>1. /\ UNCHANGED << from, lease, asks, escape, sent, gone >>
      /\ phase = "looking" /\ phase' = "trying"
      /\ held' = cursor /\ cursor' = Nil /\ scan' = mail.seq[cursor] /\ mail.seq[cursor] > scan
  BY DEF TakeMessage, msgVars
<1>2. /\ sent \ gone = Elements(q) \cup ({held} \ {Nil})
      /\ Good(q, mail, Fronted(sent), scan) /\ scan \in Int /\ Fronted(sent) \in Nat
      /\ NoneSeen <= scan
  BY InvFacts
<1>3. PICK k \in 1..Len(q) :
        /\ cursor = q[k] /\ Passed(q, k) /\ r = Without(q, k)
        /\ Good(r, mail', Fronted(sent)', scan')
        /\ mail'.seq = mail.seq /\ mail'.sequence = mail.sequence
        /\ Elements(r) = Elements(q) \ {cursor}
  BY TakeQueue
<1>4. /\ \A i \in 1..Len(q) : q[i] \in Msg /\ q[i] # Nil /\ q[i] \in Elements(q)
      /\ \A i, j \in 1..Len(q) : i < j => mail.seq[q[i]] < mail.seq[q[j]]
      /\ \A x \in Msg : mail.seq[x] \in Int /\ mail.seq[x] <= mail.sequence
      /\ mail.sequence \in Nat /\ Len(q) \in Nat
  BY <1>2, GoodPlaces
<1>5. held = Nil BY <1>1 DEF MailInv, HeldRight
<1>6. mail' \in Box /\ r \in Seq(Msg) BY <1>3 DEF Good, Chain
<1>7. cursor \in Msg /\ cursor # Nil /\ cursor \in Elements(q) /\ scan' \in Int
  BY <1>1, <1>3, <1>4
<1> HIDE DEF q, r
<1>8. QueueRight' BY <1>3 DEF QueueRight, r
<1>9. TypeOK'
  <2>1. cursor' \in Link /\ held' \in Link BY <1>1, <1>7 DEF Link
  <2> QED BY <2>1, <1>1, <1>6, <1>7 DEF MailInv, TypeOK, Box
<1>10. ScanRight'
  <2>1. mail.seq[cursor] <= mail.sequence /\ mail.seq[cursor] \in Int BY <1>4, <1>7
  <2> QED BY <2>1, <1>1, <1>2, <1>3, <1>4 DEF ScanRight, NoneSeen
<1>11. Queued' = Elements(r) BY <1>6, DomainElements DEF Queued, r
<1>12. NothingLost' BY <1>1, <1>2, <1>3, <1>5, <1>7, <1>11 DEF NothingLost
<1>13. HeldRight'
  <2>1. held' \in sent' \ gone' BY <1>1, <1>2, <1>7
  <2>2. scan' = mail'.seq[held'] /\ held' \notin Elements(r) BY <1>1, <1>3
  <2>3. ASSUME NEW x \in Elements(r) PROVE mail'.seq[x] # mail'.seq[held']
    <3>1. x \in Elements(q) /\ x # cursor BY <1>3
    <3>2. PICK i \in 1..Len(q) : x = q[i] BY <3>1 DEF Elements
    <3>3. i < k \/ k < i BY <3>1, <3>2, <1>3, <1>4
    <3>4. mail.seq[q[i]] \in Int /\ mail.seq[q[k]] \in Int BY <1>4
    <3>5. mail.seq[q[i]] # mail.seq[q[k]]
      <4>1. CASE i < k
        <5>1. mail.seq[q[i]] < mail.seq[q[k]] BY <4>1, <1>4
        <5> QED BY <5>1, <3>4
      <4>2. CASE k < i
        <5>1. mail.seq[q[k]] < mail.seq[q[i]] BY <4>2, <1>4
        <5> QED BY <5>1, <3>4
      <4> QED BY <3>3, <4>1, <4>2
    <3> QED BY <3>2, <3>5, <1>1, <1>3
  <2> QED BY <2>1, <2>2, <2>3, <1>1 DEF HeldRight, r
<1>14. CursorRight' BY <1>1 DEF CursorRight
<1>15. NoMessageMissed' BY <1>1 DEF NoMessageMissed
<1> QED BY <1>8, <1>9, <1>10, <1>12, <1>13, <1>14, <1>15 DEF MailInv

LEMMA DropStep ==
  ASSUME MailInv, SafeNumbers, DropOutdated
  PROVE  MailInv'
<1> DEFINE q == Walk(mail)
           p == Walk(mail)'
<1>1. /\ UNCHANGED << lease, asks, phase, escape, scan, held >>
      /\ phase = "looking" /\ mail.seq[cursor] > scan
      /\ gone' = gone \cup {cursor} /\ cursor' = mail.next[cursor]
  BY DEF DropOutdated
<1>2. /\ sent \ gone = Elements(q) \cup ({held} \ {Nil}) /\ Elements(q) \subseteq sent \ gone
      /\ Good(q, mail, Fronted(sent), scan) /\ scan \in Int /\ Fronted(sent) \in Nat
      /\ Chain(q, mail) /\ NoneSeen <= scan /\ scan <= mail.sequence
  BY InvFacts
<1>3. PICK k \in 1..Len(q), more \in SUBSET (Msg \ sent), r \in Seq(Msg), mb \in Box :
        /\ cursor = q[k] /\ Passed(q, k)
        /\ Grown(q, mail, r, mb, more)
        /\ p = Without(r, k)
        /\ Good(p, mail', Fronted(sent)', scan')
        /\ mail'.seq = mb.seq /\ mail'.sequence = mb.sequence
        /\ Elements(p) = Elements(r) \ {cursor}
        /\ sent' = sent \cup more /\ from' = Acknowledged(from, more)
        /\ more # {} => escape # "wait"
  BY DropQueue
<1>4. /\ \A i \in 1..Len(q) : q[i] \in Msg /\ q[i] # Nil /\ q[i] \in Elements(q)
      /\ mail.sequence \in Nat /\ Len(q) \in Nat
  BY <1>2, GoodPlaces
<1>5. /\ Len(q) <= Len(r) /\ \A i \in 1..Len(q) : r[i] = q[i]
      /\ Elements(r) = Elements(q) \cup more /\ more \cap Elements(q) = {}
      /\ mail.sequence <= mb.sequence
      /\ \A x \in Msg \ more : mb.seq[x] = mail.seq[x]
      /\ Chain(r, mb)
  BY <1>3 DEF Grown
<1>6. held = Nil BY <1>1 DEF MailInv, HeldRight
<1>7. mail' \in Box /\ p \in Seq(Msg) BY <1>3 DEF Good, Chain
<1>8. cursor \in Msg /\ cursor \in Elements(q) /\ cursor \notin more BY <1>3, <1>4, <1>5
<1>9. cursor' = At(q, k + 1) /\ At(q, k + 1) = IF k + 1 \in 1..Len(q) THEN q[k + 1] ELSE Nil
  BY <1>1, <1>2, <1>3 DEF Chain, At
<1>10. Len(r) \in Nat /\ r \in Seq(Msg) /\ Distinct(r) /\ k \in 1..Len(r)
  <2>1. Len(r) \in Nat /\ r \in Seq(Msg) /\ Distinct(r) BY <1>5, AtPlaces DEF Chain
  <2> QED BY <2>1, <1>4, <1>5
<1>11. Len(p) = Len(r) - 1 /\ \A i \in 1..Len(r) - 1 : p[i] = IF i < k THEN r[i] ELSE r[i + 1]
  <2>1. p = Without(r, k) BY <1>3
  <2> HIDE DEF p
  <2> QED BY <2>1, <1>10, WithoutPlaces
<1>20. sent \subseteq Msg /\ gone \subseteq sent /\ from \in [Msg -> {"other", "self", "ack"}]
  BY DEF MailInv, TypeOK
<1> HIDE DEF q, p
<1>12. QueueRight' BY <1>3 DEF QueueRight, p
<1>13. cursor' \in Link BY <1>4, <1>9 DEF Link
<1>14. TypeOK'
  <2>1. from' \in [Msg -> {"other", "self", "ack"}] BY <1>3, <1>20 DEF Acknowledged
  <2>2. sent' \subseteq Msg /\ gone' \subseteq sent' BY <1>1, <1>2, <1>3, <1>8, <1>20
  <2> QED BY <2>1, <2>2, <1>1, <1>7, <1>13 DEF MailInv, TypeOK, Box
<1>15. ScanRight'
  <2>1. scan <= mail'.sequence /\ mail'.sequence \in Nat
    BY <1>2, <1>3, <1>4, <1>5, <1>7 DEF Box
  <2> QED BY <2>1, <1>1, <1>2 DEF ScanRight, NoneSeen
<1>16. Queued' = Elements(p) BY <1>7, DomainElements DEF Queued, p
<1>17. NothingLost'
  <2>1. sent' \ gone' = (Elements(q) \cup more) \ {cursor}
    BY <1>1, <1>2, <1>3, <1>6, <1>20
  <2> QED BY <2>1, <1>1, <1>3, <1>5, <1>6, <1>16 DEF NothingLost
<1>18. HeldRight'
  <2>1. Nil \notin Elements(p)
    <3>1. Elements(p) \subseteq Msg BY <1>7, SeqPlaces DEF Elements
    <3> QED BY <3>1, MailboxAssumption
  <2> QED BY <2>1, <1>1, <1>6 DEF HeldRight, p
\* The numbers of the messages before the cursor.
<1>21. \A i \in 1..k - 1 : i \in 1..Len(q) /\ mail'.seq[q[i]] <= scan
  <2> SUFFICES ASSUME NEW i \in 1..k - 1
               PROVE  i \in 1..Len(q) /\ mail'.seq[q[i]] <= scan OBVIOUS
  <2>1. i \in 1..Len(q) BY <1>4
  <2>2. q[i] \in Msg \ more /\ mail.seq[q[i]] <= scan BY <2>1, <1>3, <1>4, <1>5 DEF Passed
  <2> QED BY <2>1, <2>2, <1>3, <1>5
<1>19. CursorRight'
  <2>1. CASE k + 1 \in 1..Len(q)
    <3>1. k \in 1..Len(r) - 1 /\ p[k] = q[k + 1]
      <4>1. k \in 1..Len(r) - 1 BY <2>1, <1>4, <1>5, <1>10
      <4>2. p[k] = r[k + 1] BY <4>1, <1>11
      <4> QED BY <4>1, <4>2, <2>1, <1>5
    <3>2. k \in 1..Len(p) /\ cursor' = p[k] BY <2>1, <3>1, <1>9, <1>11
    <3>3. \A i \in 1..k - 1 : mail'.seq[p[i]] <= scan'
      <4> SUFFICES ASSUME NEW i \in 1..k - 1 PROVE mail'.seq[p[i]] <= scan' OBVIOUS
      <4>1. i \in 1..Len(r) - 1 /\ i < k BY <3>1, <1>10
      <4>2. p[i] = r[i] /\ r[i] = q[i] BY <4>1, <1>5, <1>11, <1>21
      <4> QED BY <4>2, <1>1, <1>21
    <3>4. Passed(Walk(mail), k)' BY <3>3 DEF Passed, p
    <3> QED BY <3>2, <3>4, <1>1 DEF CursorRight, p
  <2>2. CASE k + 1 \notin 1..Len(q)
    <3>1. k = Len(q) /\ cursor' = Nil BY <2>2, <1>4, <1>9
    <3>2. ASSUME NEW x \in Elements(p)
          PROVE  mail'.seq[x] <= scan' \/ (from'[x] = "ack" /\ escape' # "wait")
      <4>1. x \in Elements(q) \cup more /\ x # cursor BY <1>3, <1>5
      <4>2. CASE x \in more
        <5>1. from'[x] = "ack" BY <4>2, <1>3 DEF Acknowledged
        <5> QED BY <5>1, <4>2, <1>1, <1>3
      <4>3. CASE x \in Elements(q)
        <5>1. PICK i \in 1..Len(q) : x = q[i] BY <4>3 DEF Elements
        <5>2. i # k BY <5>1, <4>1, <1>3
        <5>3. i \in 1..k - 1 BY <5>2, <3>1, <1>4
        <5> QED BY <5>1, <5>3, <1>1, <1>21
      <4> QED BY <4>1, <4>2, <4>3
    <3> QED BY <3>1, <3>2, <1>1 DEF CursorRight, p
  <2> QED BY <2>1, <2>2
<1>22. NoMessageMissed' BY <1>1 DEF NoMessageMissed
<1> QED BY <1>12, <1>14, <1>15, <1>17, <1>18, <1>19, <1>22 DEF MailInv

\* No message is left to look at.
LEMMA NoMessageStep ==
  ASSUME MailInv, SafeNumbers, NoMessage
  PROVE  MailInv'
<1> DEFINE q == Walk(mail)
<1>1. /\ UNCHANGED << mail, from, lease, asks, escape, cursor, held, sent, gone >>
      /\ phase = "looking" /\ cursor = Nil
      /\ \/ escape \in {"next", "wait"} /\ phase' = "waiting" /\ scan' = scan
         \/ phase' = "running" /\ scan' = NoneSeen
  BY DEF NoMessage, msgVars
<1>2. /\ Good(q, mail, Fronted(sent), scan) /\ scan \in Int /\ Fronted(sent) \in Nat
      /\ NoneSeen <= scan /\ scan <= mail.sequence /\ Queued = Elements(q)
      /\ mail \in Box /\ Chain(q, mail) /\ \A i \in 1..Len(q) : q[i] \in Msg
  BY InvFacts, SeqPlaces
<1>3. scan' \in Int /\ scan' <= scan BY <1>1, <1>2 DEF NoneSeen
<1>4. QueueRight'
  <2>1. Good(q, mail, Fronted(sent), scan')
    <3>1. Fronted(sent) < -NoneSeen BY InvFacts
    <3>2. Good(q, mail, Fronted(sent), NoneSeen) BY <3>1, <1>2, GoodAtStart
    <3> QED BY <3>2, <1>1, <1>2
  <2> QED BY <2>1, <1>1 DEF QueueRight
<1>5. TypeOK' BY <1>1, <1>3 DEF MailInv, TypeOK
<1>6. ScanRight'
  <2>1. NoneSeen <= mail.sequence /\ mail.sequence \in Nat BY <1>2 DEF Box, NoneSeen
  <2> QED BY <2>1, <1>1, <1>2 DEF ScanRight, NoneSeen
<1>7. NothingLost' /\ HeldRight' BY <1>1 DEF MailInv, NothingLost, HeldRight, Queued
<1>8. CursorRight' BY <1>1 DEF CursorRight
<1>9. NoMessageMissed'
  <2>1. \A k \in 1..Len(q) : cursor # q[k] BY <1>1, <1>2, MailboxAssumption
  <2>2. \A x \in Queued : mail.seq[x] <= scan \/ (from[x] = "ack" /\ escape # "wait")
    BY <2>1, <1>1, <1>2 DEF MailInv, CursorRight
  <2>3. Queued' = Queued BY <1>1 DEF Queued
  <2> QED BY <2>2, <2>3, <1>1 DEF NoMessageMissed
<1> QED BY <1>4, <1>5, <1>6, <1>7, <1>8, <1>9 DEF MailInv

LEMMA AcceptStep ==
  ASSUME MailInv, SafeNumbers, Accept
  PROVE  MailInv'
<1> DEFINE q == Walk(mail)
<1>1. /\ UNCHANGED << mail, from, lease, asks, escape, cursor, sent >>
      /\ phase = "trying" /\ phase' = "running" /\ gone' = gone \cup {held}
      /\ held' = Nil /\ scan' = NoneSeen
  BY DEF Accept, msgVars
<1>2. /\ Good(q, mail, Fronted(sent), scan) /\ scan \in Int /\ Fronted(sent) \in Nat
      /\ NoneSeen <= scan /\ scan <= mail.sequence /\ Queued = Elements(q)
      /\ mail \in Box /\ sent \ gone = Elements(q) \cup ({held} \ {Nil})
      /\ Elements(q) \subseteq Msg
  BY InvFacts, AtPlaces
<1>3. scan' \in Int /\ scan' <= scan BY <1>1, <1>2 DEF NoneSeen
<1>4. held \in sent \ gone /\ held \notin Elements(q) BY <1>1 DEF MailInv, HeldRight
<1>5. QueueRight'
  <2>1. Good(q, mail, Fronted(sent), scan')
    <3>1. Fronted(sent) < -NoneSeen BY InvFacts
    <3>2. Good(q, mail, Fronted(sent), NoneSeen) BY <3>1, <1>2, GoodAtStart
    <3> QED BY <3>2, <1>1
  <2> QED BY <2>1, <1>1 DEF QueueRight
<1>6. TypeOK' BY <1>1, <1>3, <1>4 DEF MailInv, TypeOK, Link
<1>7. ScanRight'
  <2>1. NoneSeen <= mail.sequence /\ mail.sequence \in Nat BY <1>2 DEF Box, NoneSeen
  <2> QED BY <2>1, <1>1 DEF ScanRight, NoneSeen
<1>8. NothingLost'
  <2>1. Queued' = Queued BY <1>1 DEF Queued
  <2>2. Nil \notin Elements(q) BY <1>2, MailboxAssumption
  <2> QED BY <2>1, <2>2, <1>1, <1>2, <1>4 DEF NothingLost
<1>9. HeldRight'
  <2>1. Nil \notin Elements(q) BY <1>2, MailboxAssumption
  <2> QED BY <2>1, <1>1 DEF HeldRight
<1>10. CursorRight' BY <1>1 DEF MailInv, CursorRight
<1>11. NoMessageMissed' BY <1>1 DEF NoMessageMissed
<1> QED BY <1>5, <1>6, <1>7, <1>8, <1>9, <1>10, <1>11 DEF MailInv

LEMMA RejectStep ==
  ASSUME MailInv, SafeNumbers, Reject
  PROVE  MailInv'
<1> DEFINE q == Walk(mail)
           p == Walk(mail)'
<1>1. /\ UNCHANGED << lease, asks, escape, scan, gone >>
      /\ phase = "trying" /\ held' = Nil
  BY DEF Reject
<1>2. /\ scan \in Int /\ NoneSeen <= scan /\ scan <= mail.sequence /\ mail \in Box
      /\ sent \ gone = Elements(q) \cup ({held} \ {Nil})
  BY InvFacts
<1>3. PICK more \in SUBSET (Msg \ sent), r \in Seq(Msg), mb \in Box : \E k \in 1..Len(r) + 1 :
        /\ Grown(q, mail, r, mb, more)
        /\ p = With(r, k, held)
        /\ Good(p, mail', Fronted(sent)', scan')
        /\ mail'.sequence = mb.sequence
        /\ Elements(p) = Elements(r) \cup {held}
        /\ sent' = sent \cup more /\ from' = Acknowledged(from, more)
        /\ LookFromFront(mail')
  BY RejectQueue
<1>4. /\ mail' \in Box /\ p \in Seq(Msg) /\ Chain(p, mail')
      /\ mail.sequence <= mb.sequence /\ Elements(r) = Elements(q) \cup more
  BY <1>3 DEF Good, Chain, Grown
<1>5. /\ sent \subseteq Msg /\ gone \subseteq sent /\ from \in [Msg -> {"other", "self", "ack"}]
      /\ held \in sent \ gone /\ held # Nil
  BY <1>1, MailboxAssumption DEF MailInv, TypeOK, HeldRight
<1> HIDE DEF q
<1>6. CursorRight' /\ cursor' \in Link /\ phase' = "looking" BY <1>3, <1>4, LookedFromFront
<1> HIDE DEF p
<1>7. QueueRight' BY <1>3 DEF QueueRight, p
<1>8. TypeOK'
  <2>1. from' \in [Msg -> {"other", "self", "ack"}] BY <1>3, <1>5 DEF Acknowledged
  <2>2. sent' \subseteq Msg /\ gone' \subseteq sent' BY <1>1, <1>3, <1>5
  <2>3. held' \in Link BY <1>1 DEF Link
  <2> QED BY <2>1, <2>2, <2>3, <1>1, <1>4, <1>6 DEF MailInv, TypeOK, Box
<1>9. ScanRight'
  <2>1. scan <= mail'.sequence /\ mail'.sequence \in Nat /\ scan' = scan
    BY <1>1, <1>2, <1>3, <1>4 DEF Box
  <2> QED BY <2>1, <1>2, <1>6 DEF ScanRight, NoneSeen
<1>10. Queued' = Elements(p) BY <1>4, DomainElements DEF Queued, p
<1>11. NothingLost'
  <2>1. sent' \ gone' = Elements(q) \cup {held} \cup more BY <1>1, <1>2, <1>3, <1>5
  <2> QED BY <2>1, <1>1, <1>3, <1>4, <1>10 DEF NothingLost
<1>12. HeldRight'
  <2>1. Nil \notin Elements(p)
    <3>1. Elements(p) \subseteq Msg BY <1>4, SeqPlaces DEF Elements
    <3> QED BY <3>1, MailboxAssumption
  <2> QED BY <2>1, <1>1, <1>6 DEF HeldRight, p
<1>13. NoMessageMissed' BY <1>6 DEF NoMessageMissed
<1> QED BY <1>6, <1>7, <1>8, <1>9, <1>11, <1>12, <1>13 DEF MailInv

LEMMA AwaitStep ==
  ASSUME MailInv, SafeNumbers, AwaitAny
  PROVE  MailInv'
<1>1. /\ UNCHANGED << mail, from, lease, asks, escape, scan, cursor, held, sent, gone >>
      /\ phase = "running" /\ phase' = "resting" /\ mail.mfront = Nil
  BY DEF AwaitAny, msgVars, recvVars
<1>2. TypeOK' BY <1>1 DEF MailInv, TypeOK
<1>3. QueueRight' /\ ScanRight' BY <1>1 DEF MailInv, QueueRight, ScanRight
<1>4. NothingLost' /\ HeldRight' BY <1>1 DEF MailInv, NothingLost, HeldRight, Queued
<1>5. CursorRight' BY <1>1 DEF MailInv, CursorRight, Passed
<1>6. NoMessageMissed'
  <2>1. /\ Chain(Walk(mail), mail) /\ Len(Walk(mail)) \in Nat /\ Queued = Elements(Walk(mail))
        /\ \A i \in 1..Len(Walk(mail)) : Walk(mail)[i] \in Msg
    BY InvFacts, SeqPlaces
  <2>2. 1 \notin 1..Len(Walk(mail)) BY <2>1, <1>1, MailboxAssumption DEF Chain, At
  <2>3. Queued = {} BY <2>1, <2>2 DEF Elements
  <2>4. Queued' = Queued BY <1>1 DEF Queued
  <2> QED BY <2>3, <2>4, <1>1 DEF NoMessageMissed
<1> QED BY <1>2, <1>3, <1>4, <1>5, <1>6 DEF MailInv

LEMMA InitMail == Init => MailInv
<1> SUFFICES ASSUME Init PROVE MailInv OBVIOUS
<1>1. Chain(<< >>, mail) BY DEF Init, Chain, Distinct, At
<1>2. Walk(mail) = << >> BY <1>1, WalkIsChain
<1>3. TypeOK BY MailboxAssumption DEF Init, TypeOK, Link, NoneSeen
<1>4. Elements(<< >>) = {} /\ Queued = {} BY <1>2 DEF Elements, Queued
<1>5. QueueRight
  <2>1. Fronted(sent) = 0 BY FS_EmptySet DEF Init, Fronted
  <2>2. Ascending(<< >>, mail.seq) /\ BackLinked(<< >>, mail, scan) BY DEF Ascending, BackLinked
  <2>3. Numbered(mail, 0) BY DEF Init, Numbered
  <2>4. mail \in Box BY <1>3 DEF TypeOK, Box
  <2> QED BY <2>1, <2>2, <2>3, <2>4, <1>1, <1>2 DEF QueueRight, Good
<1>6. ScanRight BY DEF Init, ScanRight, NoneSeen
<1>7. NothingLost BY <1>4 DEF Init, NothingLost
<1>8. HeldRight BY <1>2, <1>4 DEF Init, HeldRight
<1>9. CursorRight BY DEF Init, CursorRight
<1>10. NoMessageMissed BY DEF Init, NoMessageMissed
<1> QED BY <1>3, <1>5, <1>6, <1>7, <1>8, <1>9, <1>10 DEF MailInv

LEMMA NextMail == MailInv /\ SafeNumbers /\ [Next]_vars => MailInv'
<1> SUFFICES ASSUME MailInv, SafeNumbers, [Next]_vars PROVE MailInv' OBVIOUS
<1>1. CASE \E m \in Msg : \/ \E sender \in Senders, term \in Leases, asked \in Receipts :
                                Send(m, sender, term, asked)
                          \/ \E term \in Leases, asked \in Receipts : FrontMsg(m, term, asked)
                          \/ LeaseEnds(m)
  BY <1>1, SendStep, FrontStep, LeaseStep, MailboxAssumption
<1>2. CASE \E e \in Escapes : BeginReceive(e) BY <1>2, BeginReceiveStep, MailboxAssumption
<1>3. CASE Pass BY <1>3, PassStep
<1>4. CASE DropOutdated BY <1>4, DropStep
<1>5. CASE TakeMessage BY <1>5, TakeStep
<1>6. CASE NoMessage BY <1>6, NoMessageStep
<1>7. CASE AlarmWakes BY <1>7, AlarmStep
<1>8. CASE Accept BY <1>8, AcceptStep
<1>9. CASE Reject BY <1>9, RejectStep
<1>10. CASE AwaitAny BY <1>10, AwaitStep
<1>11. CASE UNCHANGED vars
  <2>1. UNCHANGED << mail, from, lease, asks, phase, escape, scan, cursor, held, sent, gone >>
    BY <1>11 DEF vars, msgVars, recvVars
  <2>2. TypeOK' BY <2>1 DEF MailInv, TypeOK
  <2>3. QueueRight' /\ ScanRight' BY <2>1 DEF MailInv, QueueRight, ScanRight
  <2>4. NothingLost' /\ HeldRight' BY <2>1 DEF MailInv, NothingLost, HeldRight, Queued
  <2>5. CursorRight' /\ NoMessageMissed'
    BY <2>1 DEF MailInv, CursorRight, Passed, NoMessageMissed, Queued
  <2> QED BY <2>2, <2>3, <2>4, <2>5 DEF MailInv
<1> QED
  BY <1>1, <1>2, <1>3, <1>4, <1>5, <1>6, <1>7, <1>8, <1>9, <1>10, <1>11 DEF Next

-----------------------------------------------------------------------------
(***************************************************************************)
(* The theorems.                                                           *)
(***************************************************************************)
LEMMA MailInvariant ==
  ASSUME SafeNumbers
  PROVE  Spec => []MailInv
<1>1. MailInv /\ [Next]_vars => MailInv' BY NextMail
<1> QED BY <1>1, InitMail, PTL DEF Spec

LEMMA InvIsSound ==
  ASSUME MailInv, SafeNumbers
  PROVE  QueueIsSound
<1> DEFINE q == Walk(mail)
           n == Len(q)
<1>1. /\ n \in Nat /\ q \in Seq(Msg) /\ Chain(q, mail) /\ DOMAIN q = 1..n
      /\ Queued = Elements(q) /\ Ascending(q, mail.seq)
  BY InvFacts, LenProperties DEF Good
<1>2. NothingLost BY DEF MailInv
<1>3. OrderKept BY <1>1 DEF OrderKept, Ascending
<1>4. Cardinality(Queued) = n BY <1>1, LenIsCardinality DEF Chain
<1>5. mail.mback = At(q, n) /\ At(q, n) = IF n \in 1..n THEN q[n] ELSE Nil
  BY <1>1 DEF Chain, At
<1>6. q = << >> <=> n = 0 BY <1>1, EmptySeq
<1>7. n \in 1..n <=> n # 0
  <2> HIDE DEF n
  <2> QED BY <1>1
<1>8. \A i \in 1..n : mail.prev[q[i]] \in {Nil} \cup (IF i > 1 THEN {q[i - 1]} ELSE {})
  <2> SUFFICES ASSUME NEW i \in 1..n
               PROVE  mail.prev[q[i]] \in {Nil} \cup (IF i > 1 THEN {q[i - 1]} ELSE {})
    OBVIOUS
  <2>1. mail.prev[q[i]] \in {Nil, At(q, i - 1)} BY <1>1 DEF Chain
  <2>2. At(q, i - 1) = IF i - 1 \in 1..n THEN q[i - 1] ELSE Nil BY DEF At
  <2>3. i - 1 \in 1..n <=> i > 1
    <3> HIDE DEF n
    <3> QED BY <1>1
  <2> QED BY <2>1, <2>2, <2>3
<1> HIDE DEF n
<1>9. LinksAgree BY <1>1, <1>4, <1>5, <1>6, <1>7, <1>8 DEF LinksAgree
<1> QED BY <1>2, <1>3, <1>9 DEF QueueIsSound

\* Whatever puts messages behind, before or between the others, or takes them out, no
\* message gets lost, the links agree and the numbers ascend (msg.c: LocalMsg,
\* m_front_msg, m_replacemsg, free_msg).
THEOREM QueueAlwaysSound ==
  ASSUME SafeNumbers
  PROVE  Spec => []QueueIsSound
<1>1. MailInv => QueueIsSound BY InvIsSound
<1> QED BY <1>1, MailInvariant, PTL

\* A process that waits has looked at every message in its queue, but for an
\* acknowledgement that m_nextmsg sent itself.
THEOREM NothingIsMissed ==
  ASSUME SafeNumbers
  PROVE  Spec => []NoMessageMissed
<1>1. MailInv => NoMessageMissed BY DEF MailInv
<1> QED BY <1>1, MailInvariant, PTL

LEMMA NextNeverAgain ==
  ASSUME MailInv, SafeNumbers, [Next]_vars
  PROVE  [held' \notin gone]_vars
<1> SUFFICES ASSUME Next PROVE held' \notin gone OBVIOUS
<1>1. MailInv' BY NextMail
<1>2. gone \subseteq gone'
  BY DEF Next, Send, FrontMsg, LeaseEnds, BeginReceive, Pass, DropOutdated, TakeMessage,
         NoMessage, AlarmWakes, Accept, Reject, AwaitAny, recvVars
<1>3. CASE phase' = "trying" BY <1>1, <1>2, <1>3 DEF MailInv, HeldRight
<1>4. CASE phase' # "trying"
  <2>1. held' = Nil BY <1>1, <1>4 DEF MailInv, HeldRight
  <2>2. gone \subseteq Msg BY DEF MailInv, TypeOK
  <2> QED BY <2>1, <2>2, MailboxAssumption
<1> QED BY <1>3, <1>4

\* A message that was accepted or dropped is not looked at again.
THEOREM NoMessageTwice ==
  ASSUME SafeNumbers
  PROVE  Spec => NeverAgain
<1>1. MailInv /\ [Next]_vars => [held' \notin gone]_vars BY NextNeverAgain
<1> QED BY <1>1, MailInvariant, PTL DEF Spec, NeverAgain

-----------------------------------------------------------------------------
(***************************************************************************)
(* The refinement: the operators of MessageQueue, and how many messages a  *)
(* receive has passed.                                                     *)
(***************************************************************************)
\* Two sequences with the same places are the same.
LEMMA SameSeq ==
  ASSUME NEW q \in Seq(Msg), NEW r \in Seq(Msg), Len(q) = Len(r),
         \A i \in 1..Len(q) : q[i] = r[i]
  PROVE  q = r
  BY SeqEqual

LEMMA SubSeqPlaces ==
  ASSUME NEW q \in Seq(Msg), NEW a \in 1..Len(q) + 1, NEW b \in 0..Len(q), a <= b + 1
  PROVE  LET s == SubSeq(q, a, b)
         IN  s \in Seq(Msg) /\ Len(s) = b - a + 1 /\ \A i \in 1..b - a + 1 : s[i] = q[a + i - 1]
<1> DEFINE n == Len(q)
           s == SubSeq(q, a, b)
<1>1. n \in Nat /\ a \in 1..n + 1 /\ b \in 0..n /\ \A i \in 1..n : q[i] \in Msg BY SeqPlaces
<1>2. \A i \in a..b : q[i] \in Msg
  <2> HIDE DEF n
  <2> QED BY <1>1
<1>3. a \in Int /\ b \in Int BY <1>1
<1>4. /\ s \in Seq(Msg) /\ Len(s) = IF a <= b THEN b - a + 1 ELSE 0
      /\ \A i \in 1..b - a + 1 : s[i] = q[a + i - 1]
  BY <1>2, <1>3, SubSeqProperties
<1>5. (IF a <= b THEN b - a + 1 ELSE 0) = b - a + 1 BY <1>3
<1> QED BY <1>4, <1>5

LEMMA PrefixOf ==
  ASSUME NEW q \in Seq(Msg), NEW r \in Seq(Msg), Len(q) <= Len(r),
         \A i \in 1..Len(q) : r[i] = q[i]
  PROVE  MQ!IsPrefix(q, r)
<1> DEFINE n == Len(q)
           s == SubSeq(q, 1, n)
           t == SubSeq(r, 1, n)
<1>1. n \in Nat /\ Len(r) \in Nat /\ n <= Len(r) BY SeqPlaces
<1>2. 1 \in 1..n + 1 /\ n \in 0..n /\ 1 \in 1..Len(r) + 1 /\ n \in 0..Len(r) /\ 1 <= n + 1
      /\ n - 1 + 1 = n
  <2> HIDE DEF n
  <2> QED BY <1>1
<1>3. s \in Seq(Msg) /\ Len(s) = n - 1 + 1 /\ \A i \in 1..n - 1 + 1 : s[i] = q[1 + i - 1]
  BY <1>2, SubSeqPlaces
<1>4. t \in Seq(Msg) /\ Len(t) = n - 1 + 1 /\ \A i \in 1..n - 1 + 1 : t[i] = r[1 + i - 1]
  BY <1>2, SubSeqPlaces
<1>5. \A i \in 1..n : 1 + i - 1 = i /\ r[i] = q[i] BY <1>1
<1> HIDE DEF s, t
<1>6. \A i \in 1..Len(s) : s[i] = t[i] BY <1>2, <1>3, <1>4, <1>5
<1>7. s = t BY <1>3, <1>4, <1>6, SameSeq
<1> QED BY <1>1, <1>7 DEF MQ!IsPrefix, s, t

LEMMA WithoutIsRemoveAt ==
  ASSUME NEW q \in Seq(Msg), NEW k \in 1..Len(q), Distinct(q)
  PROVE  MQ!RemoveAt(q, k) = Without(q, k)
<1> DEFINE n == Len(q)
           a == SubSeq(q, 1, k - 1)
           b == SubSeq(q, k + 1, n)
           r == Without(q, k)
<1>1. n \in Nat /\ k \in 1..n BY SeqPlaces
<1>2. /\ 1 \in 1..n + 1 /\ k - 1 \in 0..n /\ k - 1 - 1 + 1 = k - 1 /\ 1 <= k - 1 + 1
      /\ k + 1 \in 1..n + 1 /\ n \in 0..n /\ n - (k + 1) + 1 = n - k /\ k + 1 <= n + 1
  <2> HIDE DEF n
  <2> QED BY <1>1
<1>3. a \in Seq(Msg) /\ Len(a) = k - 1 /\ \A i \in 1..k - 1 : a[i] = q[1 + i - 1]
  <2>1. a \in Seq(Msg) /\ Len(a) = k - 1 - 1 + 1 /\ \A i \in 1..k - 1 - 1 + 1 : a[i] = q[1 + i - 1]
    BY <1>2, SubSeqPlaces
  <2> QED BY <2>1, <1>2
<1>4. b \in Seq(Msg) /\ Len(b) = n - k /\ \A i \in 1..n - k : b[i] = q[k + 1 + i - 1]
  <2>1. b \in Seq(Msg) /\ Len(b) = n - (k + 1) + 1 /\ \A i \in 1..n - (k + 1) + 1 : b[i] = q[k + 1 + i - 1]
    BY <1>2, SubSeqPlaces
  <2> QED BY <2>1, <1>2
<1>5. r \in Seq(Msg) /\ Len(r) = n - 1 /\ \A i \in 1..n - 1 : r[i] = IF i < k THEN q[i] ELSE q[i + 1]
  BY WithoutPlaces
<1>6. MQ!RemoveAt(q, k) = a \o b BY DEF MQ!RemoveAt
<1> HIDE DEF n, a, b, r
<1> DEFINE s == a \o b
<1>7. s \in Seq(Msg) /\ Len(s) = Len(a) + Len(b)
      /\ \A i \in 1..Len(a) + Len(b) : s[i] = IF i <= Len(a) THEN a[i] ELSE b[i - Len(a)]
  BY <1>3, <1>4, ConcatProperties
<1> HIDE DEF s
<1>8. Len(s) = n - 1 BY <1>1, <1>3, <1>4, <1>7
<1>9. ASSUME NEW i \in 1..n - 1 PROVE s[i] = r[i]
  <2>1. s[i] = IF i <= k - 1 THEN a[i] ELSE b[i - (k - 1)] BY <1>1, <1>3, <1>4, <1>7, <1>8
  <2>2. CASE i < k
    <3>1. i \in 1..k - 1 /\ i <= k - 1 /\ 1 + i - 1 = i BY <2>2, <1>1
    <3> QED BY <3>1, <2>1, <2>2, <1>3, <1>5
  <2>3. CASE ~(i < k)
    <3>1. i - (k - 1) \in 1..n - k /\ ~(i <= k - 1) /\ k + 1 + (i - (k - 1)) - 1 = i + 1
      BY <2>3, <1>1
    <3> QED BY <3>1, <2>1, <2>3, <1>4, <1>5
  <2> QED BY <2>2, <2>3
<1>10. s = r BY <1>5, <1>7, <1>8, <1>9, SameSeq
<1> QED BY <1>6, <1>10 DEF s, r

LEMMA WithIsInsertAt ==
  ASSUME NEW q \in Seq(Msg), NEW k \in 1..Len(q) + 1, NEW m \in Msg
  PROVE  MQ!InsertAt(q, k, m) = With(q, k, m)
<1> DEFINE n == Len(q)
           a == SubSeq(q, 1, k - 1)
           b == SubSeq(q, k, n)
           c == << m >>
           r == With(q, k, m)
<1>1. n \in Nat /\ k \in 1..n + 1 BY SeqPlaces
<1>2. /\ 1 \in 1..n + 1 /\ k - 1 \in 0..n /\ k - 1 - 1 + 1 = k - 1 /\ 1 <= k - 1 + 1
      /\ n \in 0..n /\ k <= n + 1
  <2> HIDE DEF n
  <2> QED BY <1>1
<1>3. a \in Seq(Msg) /\ Len(a) = k - 1 /\ \A i \in 1..k - 1 : a[i] = q[1 + i - 1]
  <2>1. a \in Seq(Msg) /\ Len(a) = k - 1 - 1 + 1 /\ \A i \in 1..k - 1 - 1 + 1 : a[i] = q[1 + i - 1]
    BY <1>2, SubSeqPlaces
  <2> QED BY <2>1, <1>2
<1>4. b \in Seq(Msg) /\ Len(b) = n - k + 1 /\ \A i \in 1..n - k + 1 : b[i] = q[k + i - 1]
  BY <1>2, SubSeqPlaces
<1>5. c \in Seq(Msg) /\ Len(c) = 1 /\ c[1] = m OBVIOUS
<1>6. /\ r \in Seq(Msg) /\ Len(r) = n + 1
      /\ \A i \in 1..n + 1 : r[i] = IF i < k THEN q[i] ELSE IF i = k THEN m ELSE q[i - 1]
  BY WithPlaces
<1>7. MQ!InsertAt(q, k, m) = (a \o c) \o b BY DEF MQ!InsertAt
<1> HIDE DEF n, a, b, c, r
<1> DEFINE d == a \o c
           s == d \o b
<1>8. d \in Seq(Msg) /\ Len(d) = Len(a) + Len(c)
      /\ \A i \in 1..Len(a) + Len(c) : d[i] = IF i <= Len(a) THEN a[i] ELSE c[i - Len(a)]
  BY <1>3, <1>5, ConcatProperties
<1> HIDE DEF d
<1>9. s \in Seq(Msg) /\ Len(s) = Len(d) + Len(b)
      /\ \A i \in 1..Len(d) + Len(b) : s[i] = IF i <= Len(d) THEN d[i] ELSE b[i - Len(d)]
  BY <1>4, <1>8, ConcatProperties, SMTT(30)
<1> HIDE DEF s
<1>10. Len(d) = k /\ Len(s) = n + 1 BY <1>1, <1>3, <1>4, <1>5, <1>8, <1>9
<1>11. ASSUME NEW i \in 1..n + 1 PROVE s[i] = r[i]
  <2>1. s[i] = IF i <= k THEN d[i] ELSE b[i - k] BY <1>9, <1>10
  <2>2. CASE i < k
    <3>1. i \in 1..k - 1 /\ i <= k /\ i <= k - 1 /\ 1 + i - 1 = i /\ i \in 1..k BY <2>2, <1>1
    <3>2. d[i] = a[i] BY <3>1, <1>3, <1>5, <1>8, <1>10
    <3> QED BY <3>1, <3>2, <2>1, <2>2, <1>3, <1>6
  <2>3. CASE i = k
    <3>1. k \in 1..k /\ k <= k /\ ~(k <= k - 1) /\ k - (k - 1) = 1 BY <1>1
    <3>2. d[k] = c[1] BY <3>1, <1>3, <1>5, <1>8, <1>10
    <3> QED BY <3>1, <3>2, <2>1, <2>3, <1>5, <1>6
  <2>4. CASE i > k
    <3>1. i - k \in 1..n - k + 1 /\ ~(i <= k) /\ k + (i - k) - 1 = i - 1 /\ ~(i < k) /\ i # k
      BY <2>4, <1>1
    <3> QED BY <3>1, <2>1, <1>4, <1>6
  <2>5. i \in Int /\ k \in Int BY <1>1
  <2> QED BY <2>2, <2>3, <2>4, <2>5
<1>12. s = r BY <1>6, <1>9, <1>10, <1>11, SameSeq
<1> QED BY <1>7, <1>12 DEF s, d, r

LEMMA WithFirst ==
  ASSUME NEW q \in Seq(Msg), NEW m \in Msg
  PROVE  << m >> \o q = With(q, 1, m)
<1> DEFINE n == Len(q)
           c == << m >>
           r == With(q, 1, m)
<1>1. n \in Nat BY SeqPlaces
<1>2. 1 \in 1..n + 1
  <2> HIDE DEF n
  <2> QED BY <1>1
<1>3. c \in Seq(Msg) /\ Len(c) = 1 /\ c[1] = m OBVIOUS
<1>4. /\ r \in Seq(Msg) /\ Len(r) = n + 1
      /\ \A i \in 1..n + 1 : r[i] = IF i < 1 THEN q[i] ELSE IF i = 1 THEN m ELSE q[i - 1]
  BY <1>2, WithPlaces
<1> HIDE DEF c, r
<1> DEFINE s == c \o q
<1>5. s \in Seq(Msg) /\ Len(s) = Len(c) + Len(q)
      /\ \A i \in 1..Len(c) + Len(q) : s[i] = IF i <= Len(c) THEN c[i] ELSE q[i - Len(c)]
  BY <1>3, ConcatProperties
<1> HIDE DEF s, n
<1>6. Len(s) = n + 1 BY <1>1, <1>3, <1>5 DEF n
<1>7. ASSUME NEW i \in 1..n + 1 PROVE s[i] = r[i]
  <2>1. s[i] = IF i <= 1 THEN c[i] ELSE q[i - 1] BY <1>3, <1>5, <1>6
  <2>2. ~(i < 1) /\ (i <= 1 <=> i = 1) BY <1>1
  <2> QED BY <2>1, <2>2, <1>3, <1>4
<1>8. s = r BY <1>4, <1>5, <1>6, <1>7, SameSeq
<1> QED BY <1>8 DEF s, c, r

\* The messages of q up to number sc are those before place k.
Split(q, seq, sc, k) ==
  /\ k \in 1..Len(q) + 1
  /\ \A i \in 1..Len(q) : seq[q[i]] <= sc <=> i < k

Marked(q, seq, sc) == Cardinality({m \in Elements(q) : seq[m] <= sc})

Mark == Cardinality({m \in Queued : mail.seq[m] <= scan})

LEMMA MarkedIs ==
  ASSUME NEW q \in Seq(Msg), Distinct(q), NEW seq, NEW sc, NEW k, Split(q, seq, sc, k)
  PROVE  Marked(q, seq, sc) = k - 1
<1> DEFINE n == Len(q)
           S == {m \in Elements(q) : seq[m] <= sc}
           f == [i \in 1..k - 1 |-> q[i]]
<1>1. n \in Nat /\ k \in 1..n + 1 /\ \A i, j \in 1..n : q[i] = q[j] => i = j
  BY SeqPlaces DEF Split, Distinct
<1>2. \A i \in 1..n : seq[q[i]] <= sc <=> i < k BY DEF Split
<1>3. Elements(q) = {q[i] : i \in 1..n} BY DEF Elements
<1> HIDE DEF n
<1>4. \A i \in 1..k - 1 : i \in 1..n /\ i < k /\ f[i] = q[i] BY <1>1
<1>5. \A i \in 1..n : i < k => i \in 1..k - 1 BY <1>1
<1>6. f \in [1..k - 1 -> S] BY <1>2, <1>3, <1>4
<1>7. \A x \in S : \E i \in 1..k - 1 : f[i] = x
  <2> SUFFICES ASSUME NEW x \in S PROVE \E i \in 1..k - 1 : f[i] = x OBVIOUS
  <2>1. PICK i \in 1..n : x = q[i] BY <1>3
  <2>2. i \in 1..k - 1 BY <2>1, <1>2, <1>5
  <2> QED BY <2>1, <2>2, <1>4
<1>8. \A i, j \in 1..k - 1 : f[i] = f[j] => i = j BY <1>1, <1>4
<1> HIDE DEF f, S
<1>9. f \in Bijection(1..k - 1, S)
  BY <1>6, <1>7, <1>8 DEF Bijection, Injection, Surjection, IsInjective
<1>10. ExistsBijection(1..k - 1, S) BY <1>9 DEF ExistsBijection
<1>11. IsFiniteSet(1..k - 1) /\ Cardinality(1..k - 1) = k - 1
  <2>1. k - 1 \in Nat /\ 1 \in Int /\ k - 1 \in Int BY <1>1
  <2>2. Cardinality(1..k - 1) = IF 1 > k - 1 THEN 0 ELSE k - 1 - 1 + 1 BY <2>1, FS_Interval
  <2> QED BY <2>1, <2>2, FS_Interval
<1>12. Cardinality(S) = k - 1 BY <1>10, <1>11, FS_Bijection
<1> QED BY <1>12 DEF Marked, S

LEMMA SplitExists ==
  ASSUME NEW c \in Nat, NEW sc \in Int, NEW q, NEW mb, Good(q, mb, c, sc)
  PROVE  \E k : Split(q, mb.seq, sc, k)
<1> DEFINE n == Len(q)
           T == {i \in 1..n + 1 : i = n + 1 \/ ~(mb.seq[q[i]] <= sc)}
<1>1. /\ n \in Nat
      /\ \A x \in Msg : mb.seq[x] \in Int
      /\ \A i \in 1..n : q[i] \in Msg
      /\ \A i, j \in 1..n : i < j => mb.seq[q[i]] < mb.seq[q[j]]
  BY GoodPlaces
<1> HIDE DEF n
<1>2. T \subseteq Nat /\ n + 1 \in T BY <1>1
<1>3. PICK k \in T : \A j \in T : k <= j
  <2> HIDE DEF T
  <2> QED BY <1>2, LeastNat
<1>4. k \in 1..n + 1 OBVIOUS
<1>5. ASSUME NEW i \in 1..n PROVE mb.seq[q[i]] <= sc <=> i < k
  <2>1. CASE i < k
    <3>1. i \notin T BY <2>1, <1>1, <1>3, <1>4
    <3>2. i \in 1..n + 1 BY <1>1
    <3> QED BY <2>1, <3>1, <3>2
  <2>2. CASE ~(i < k)
    <3>1. k \in 1..n /\ (i = k \/ k < i) /\ k # n + 1 BY <2>2, <1>1, <1>4
    <3>2. ~(mb.seq[q[k]] <= sc) /\ mb.seq[q[k]] \in Int /\ mb.seq[q[i]] \in Int
      BY <3>1, <1>1
    <3>3. k < i => mb.seq[q[k]] < mb.seq[q[i]] BY <3>1, <1>1
    <3>4. CASE i = k BY <2>2, <3>2, <3>4
    <3>5. CASE k < i BY <2>2, <3>2, <3>3, <3>5
    <3> QED BY <3>1, <3>4, <3>5
  <2> QED BY <2>1, <2>2
<1> QED BY <1>4, <1>5 DEF Split, n

LEMMA GrownSplit ==
  ASSUME NEW c \in Nat, NEW sc \in Int, NEW q, NEW mb, Good(q, mb, c, sc), sc <= mb.sequence,
         NEW r, NEW new, NEW more \in SUBSET Msg, Grown(q, mb, r, new, more),
         NEW k, Split(q, mb.seq, sc, k)
  PROVE  Split(r, new.seq, sc, k)
<1> DEFINE n == Len(q)
           l == Len(r)
<1>1. /\ n \in Nat /\ l \in Nat /\ n <= l /\ k \in 1..n + 1
      /\ mb.sequence \in Nat /\ new.sequence \in Nat
      /\ \A i \in 1..n : q[i] \in Msg /\ q[i] \in Elements(q)
      /\ \A i \in 1..n : mb.seq[q[i]] <= sc <=> i < k
  BY AtPlaces, GoodPlaces DEF Grown, Box, Split
<1>2. /\ \A i \in 1..n : r[i] = q[i]
      /\ \A i \in n + 1 .. l : r[i] \in more
      /\ \A x \in Msg \ more : new.seq[x] = mb.seq[x]
      /\ \A x \in more : new.seq[x] \in mb.sequence + 1 .. new.sequence
      /\ more \cap Elements(q) = {}
  BY DEF Grown
<1> HIDE DEF n, l
<1>3. ASSUME NEW i \in 1..l PROVE new.seq[r[i]] <= sc <=> i < k
  <2>1. CASE i \in 1..n
    <3>1. r[i] = q[i] /\ q[i] \in Msg \ more BY <2>1, <1>1, <1>2
    <3> QED BY <3>1, <2>1, <1>1, <1>2
  <2>2. CASE i \in n + 1 .. l
    <3>1. new.seq[r[i]] \in mb.sequence + 1 .. new.sequence BY <2>2, <1>2
    <3>2. ~(i < k) /\ ~(new.seq[r[i]] <= sc) BY <2>2, <3>1, <1>1
    <3> QED BY <3>2
  <2> QED BY <2>1, <2>2, <1>1
<1>4. k \in 1..l + 1 BY <1>1
<1> QED BY <1>3, <1>4 DEF Split, l

\* Outside of a receive nothing is marked.
LEMMA NoneMarked ==
  ASSUME NEW c \in Nat, c < -NoneSeen, NEW q, NEW mb, Good(q, mb, c, NoneSeen)
  PROVE  Marked(q, mb.seq, NoneSeen) = 0
<1>1. /\ \A x \in Msg : mb.seq[x] \in Int /\ -c <= mb.seq[x]
      /\ \A i \in 1..Len(q) : q[i] \in Msg
  <2>1. NoneSeen \in Int BY DEF NoneSeen
  <2> QED BY <2>1, GoodPlaces
<1>2. \A x \in Msg : ~(mb.seq[x] <= NoneSeen) BY <1>1 DEF NoneSeen
<1>3. \A x \in Elements(q) : x \in Msg BY <1>1 DEF Elements
<1>4. {m \in Elements(q) : mb.seq[m] <= NoneSeen} = {} BY <1>2, <1>3
<1> QED BY <1>4, FS_EmptySet DEF Marked

\* New messages behind r, to which those of q were put in order.
LEMMA GrowsTo ==
  ASSUME NEW q \in Seq(Msg), NEW r \in Seq(Msg), Walk(mail)' \in Seq(Msg), Walk(mail)' = r,
         Len(q) <= Len(r), \A i \in 1..Len(q) : r[i] = q[i],
         \A i \in Len(q) + 1 .. Len(r) : r[i] \notin Elements(Walk(mail))
  PROVE  MQ!Grows(q)
<1>1. MQ!IsPrefix(q, Walk(mail)') BY PrefixOf
<1>2. \A i \in Len(q) + 1 .. Len(r) : ~MQ!Contains(Walk(mail), r[i])
  BY DEF MQ!Contains, Elements
<1> QED BY <1>1, <1>2 DEF MQ!Grows

LEMMA SplitHere ==
  ASSUME NEW c \in Nat, NEW sc \in Int, NEW q, NEW mb, Good(q, mb, c, sc), NEW k \in 1..Len(q),
         \A i \in 1..k - 1 : mb.seq[q[i]] <= sc, mb.seq[q[k]] > sc
  PROVE  Split(q, mb.seq, sc, k)
<1> DEFINE n == Len(q)
<1>1. /\ n \in Nat
      /\ \A x \in Msg : mb.seq[x] \in Int
      /\ \A i \in 1..n : q[i] \in Msg
      /\ \A i, j \in 1..n : i < j => mb.seq[q[i]] < mb.seq[q[j]]
  BY GoodPlaces
<1> HIDE DEF n
<1>2. k \in 1..n BY DEF n
<1>3. ASSUME NEW i \in 1..n PROVE mb.seq[q[i]] <= sc <=> i < k
  <2>1. CASE i < k
    <3>1. i \in 1..k - 1 BY <2>1, <1>1, <1>2
    <3> QED BY <2>1, <3>1
  <2>2. CASE i = k
    <3>1. mb.seq[q[k]] \in Int BY <1>1, <1>2
    <3> QED BY <2>2, <3>1, <1>2
  <2>3. CASE k < i
    <3>1. mb.seq[q[k]] \in Int /\ mb.seq[q[i]] \in Int /\ mb.seq[q[k]] < mb.seq[q[i]]
      BY <2>3, <1>1, <1>2
    <3> QED BY <2>3, <3>1, <1>2
  <2> QED BY <2>1, <2>2, <2>3, <1>1, <1>2
<1>4. k \in 1..n + 1 BY <1>1, <1>2
<1> QED BY <1>3, <1>4 DEF Split, n

LEMMA SplitWithout ==
  ASSUME NEW q \in Seq(Msg), Distinct(q), NEW k \in 1..Len(q), NEW seq, NEW sc,
         \A i \in 1..Len(q) : i < k => seq[q[i]] <= sc,
         \A i \in 1..Len(q) : k < i => ~(seq[q[i]] <= sc)
  PROVE  Split(Without(q, k), seq, sc, k)
<1> DEFINE n == Len(q)
           r == Without(q, k)
<1>1. /\ n \in Nat /\ r \in Seq(Msg) /\ Len(r) = n - 1
      /\ \A i \in 1..n - 1 : r[i] = IF i < k THEN q[i] ELSE q[i + 1]
  BY SeqPlaces, WithoutPlaces
<1>2. /\ \A i \in 1..n : i < k => seq[q[i]] <= sc
      /\ \A i \in 1..n : k < i => ~(seq[q[i]] <= sc)
      /\ k \in 1..n
  OBVIOUS
<1> HIDE DEF n, r
<1>3. ASSUME NEW i \in 1..n - 1 PROVE seq[r[i]] <= sc <=> i < k
  <2>1. i \in 1..n /\ i + 1 \in 1..n /\ (~(i < k) => k < i + 1) BY <1>1, <1>2
  <2>2. r[i] = IF i < k THEN q[i] ELSE q[i + 1] BY <1>1
  <2>3. CASE i < k BY <2>1, <2>2, <2>3, <1>2
  <2>4. CASE ~(i < k) BY <2>1, <2>2, <2>4, <1>2
  <2> QED BY <2>3, <2>4
<1>4. k \in 1..Len(r) + 1 BY <1>1, <1>2
<1> QED BY <1>1, <1>3, <1>4 DEF Split, r

LEMMA SplitWith ==
  ASSUME NEW q \in Seq(Msg), NEW m \in Msg, NEW seq, NEW sc, NEW k, Split(q, seq, sc, k),
         seq[m] <= sc
  PROVE  Split(With(q, k, m), seq, sc, k + 1)
<1> DEFINE n == Len(q)
           r == With(q, k, m)
<1>1. /\ n \in Nat /\ k \in 1..n + 1 /\ \A i \in 1..n : seq[q[i]] <= sc <=> i < k
  BY SeqPlaces DEF Split
<1>2. /\ Len(r) = n + 1
      /\ \A i \in 1..n + 1 : r[i] = IF i < k THEN q[i] ELSE IF i = k THEN m ELSE q[i - 1]
  BY <1>1, WithPlaces
<1> HIDE DEF n, r
<1>3. ASSUME NEW i \in 1..n + 1 PROVE seq[r[i]] <= sc <=> i < k + 1
  <2>1. CASE i < k
    <3>1. i \in 1..n /\ i < k + 1 BY <2>1, <1>1
    <3> QED BY <3>1, <2>1, <1>1, <1>2
  <2>2. CASE i = k
    <3>1. i < k + 1 /\ ~(i < k) BY <2>2, <1>1
    <3> QED BY <3>1, <2>2, <1>2
  <2>3. CASE k < i
    <3>1. i - 1 \in 1..n /\ ~(i - 1 < k) /\ ~(i < k + 1) /\ ~(i < k) /\ i # k BY <2>3, <1>1
    <3>2. r[i] = q[i - 1] BY <3>1, <1>2
    <3> QED BY <3>1, <3>2, <1>1
  <2> QED BY <2>1, <2>2, <2>3, <1>1
<1>4. k + 1 \in 1..Len(r) + 1 BY <1>1, <1>2
<1> QED BY <1>2, <1>3, <1>4 DEF Split, r

-----------------------------------------------------------------------------
(***************************************************************************)
(* What each action is to MessageQueue.                                    *)
(***************************************************************************)
LEMMA MarkBefore ==
  ASSUME MailInv, SafeNumbers
  PROVE  Mark = Marked(Walk(mail), mail.seq, scan)
  BY InvFacts DEF Mark, Marked

LEMMA MarkAfter ==
  ASSUME Walk(mail)' \in Seq(Msg)
  PROVE  Mark' = Marked(Walk(mail)', mail'.seq, scan')
<1>1. Queued' = Elements(Walk(mail)') BY DomainElements DEF Queued
<1> QED BY <1>1 DEF Mark, Marked

\* What a step changes of the queue, the mark and the held message.
LEMMA NoChange ==
  ASSUME Walk(mail)' = Walk(mail), Mark' = Mark, held' = held
  PROVE  UNCHANGED MQ!vars
  BY DEF MQ!vars, Mark

LEMMA SendMaps ==
  ASSUME MailInv, SafeNumbers, NEW m \in Msg, NEW sender \in {"other", "self"}, NEW term,
         NEW asked, Send(m, sender, term, asked)
  PROVE  [MQ!Next]_(MQ!vars)
<1> DEFINE q == Walk(mail)
           r == Walk(mail)'
           c == Fronted(sent)
<1>1. /\ c \in Nat /\ Good(q, mail, c, scan) /\ scan \in Int /\ scan <= mail.sequence
      /\ q \in Seq(Msg) /\ Distinct(q)
  BY InvFacts DEF Chain
<1>2. PICK more \in SUBSET (Msg \ sent) : Grown(q, mail, r, mail', more) BY SendQueue
<1>3. scan' = scan /\ held' = held BY DEF Send
<1>4. PICK k : Split(q, mail.seq, scan, k) BY <1>1, SplitExists
<1>5. r \in Seq(Msg) /\ Distinct(r) BY <1>2 DEF Grown, Chain
<1>6. Split(r, mail'.seq, scan, k)
  <2>1. more \in SUBSET Msg OBVIOUS
  <2> HIDE DEF q, r, c
  <2> QED BY <2>1, <1>1, <1>2, <1>4, GrownSplit
<1>7. Mark = k - 1
  <2>1. Marked(q, mail.seq, scan) = k - 1 BY <1>1, <1>4, MarkedIs
  <2> QED BY <2>1, MarkBefore
<1>8. Mark' = k - 1
  <2>1. Marked(r, mail'.seq, scan) = k - 1 BY <1>5, <1>6, MarkedIs
  <2> QED BY <2>1, <1>3, <1>5, MarkAfter
<1>9. MQ!Grows(q)
  <2>1. /\ Len(q) <= Len(r) /\ \A i \in 1..Len(q) : r[i] = q[i]
        /\ \A i \in Len(q) + 1 .. Len(r) : r[i] \notin Elements(q)
    BY <1>2 DEF Grown
  <2> QED BY <2>1, <1>1, <1>5, GrowsTo
<1>10. CASE r = q BY <1>10, <1>3, <1>7, <1>8, NoChange
<1>11. CASE r # q BY <1>11, <1>3, <1>7, <1>8, <1>9 DEF MQ!Next, MQ!Arrive, Mark
<1> QED BY <1>10, <1>11

LEMMA FrontMaps ==
  ASSUME MailInv, SafeNumbers, NEW m \in Msg, NEW term, NEW asked, FrontMsg(m, term, asked)
  PROVE  [MQ!Next]_(MQ!vars)
<1> DEFINE q == Walk(mail)
           r == Walk(mail)'
           c == Fronted(sent)
           s == mail'.seq[m]
<1>1. /\ c \in Nat /\ c < -NoneSeen /\ Good(q, mail, c, scan) /\ q \in Seq(Msg) /\ Distinct(q)
      /\ scan \in Int /\ Len(q) \in Nat
      /\ \A i \in 1..Len(q) : q[i] \in Msg /\ q[i] \in Elements(q)
      /\ \A x \in Msg : mail.seq[x] \in Int /\ NoneSeen < mail.seq[x]
  BY InvFacts, SeqPlaces DEF Chain, Elements
<1>2. /\ r = With(q, 1, m) /\ m \notin Elements(q) /\ r \in Seq(Msg) /\ Distinct(r)
      /\ \A x \in Msg \ {m} : mail'.seq[x] = mail.seq[x]
      /\ s \in Int /\ s # scan
      /\ IF Len(q) = 0 THEN s > scan ELSE s = mail.seq[q[1]] - 1
  <2>1. Good(r, mail', Fronted(sent)', scan') BY FrontQueue
  <2>2. r \in Seq(Msg) /\ Distinct(r) BY <2>1 DEF Good, Chain
  <2> QED BY <2>2, FrontQueue
<1>3. scan' = scan /\ held' = held BY DEF FrontMsg, recvVars
<1>4. PICK k : Split(q, mail.seq, scan, k) BY <1>1, SplitExists
<1>5. k \in 1..Len(q) + 1 /\ \A i \in 1..Len(q) : mail.seq[q[i]] <= scan <=> i < k
  BY <1>4 DEF Split
<1>6. \A i \in 1..Len(q) : mail'.seq[q[i]] = mail.seq[q[i]] BY <1>1, <1>2
<1>7. Split(q, mail'.seq, scan, k) BY <1>5, <1>6 DEF Split
<1>8. Mark = k - 1
  <2>1. Marked(q, mail.seq, scan) = k - 1 BY <1>1, <1>4, MarkedIs
  <2> QED BY <2>1, MarkBefore
<1>9. Mark' = IF k = 1 THEN 0 ELSE k
  <2>1. Split(r, mail'.seq, scan, IF k = 1 THEN 1 ELSE k + 1)
    <3>1. Len(r) = Len(q) + 1 /\ \A i \in 1..Len(q) + 1 : r[i] = IF i < 1 THEN q[i] ELSE IF i = 1 THEN m ELSE q[i - 1]
      <4>1. 1 \in 1..Len(q) + 1 BY <1>5
      <4> QED BY <4>1, <1>1, <1>2, WithPlaces
    <3> DEFINE n == Len(q)
               seq == mail'.seq
    <3>2. /\ n \in Nat /\ k \in 1..n + 1 /\ Len(r) = n + 1 /\ scan \in Int /\ s = seq[m]
          /\ \A i \in 1..n : seq[q[i]] <= scan <=> i < k
          /\ \A i \in 1..n + 1 : r[i] = IF i < 1 THEN q[i] ELSE IF i = 1 THEN m ELSE q[i - 1]
          /\ s \in Int /\ s # scan
      BY <3>1, <1>1, <1>2, <1>5, <1>6
    <3>3. k = 1 => s > scan
      <4>1. CASE n = 0 BY <4>1, <1>2
      <4>2. CASE n # 0
        <5>1. 1 \in 1..n BY <4>2, <3>2
        <5>2. s = mail.seq[q[1]] - 1 /\ mail.seq[q[1]] \in Int BY <5>1, <4>2, <1>1, <1>2
        <5>3. k = 1 => ~(mail.seq[q[1]] <= scan) BY <5>1, <1>5
        <5> QED BY <5>2, <5>3, <3>2
      <4> QED BY <4>1, <4>2
    <3>4. k # 1 => s <= scan
      <4>1. k # 1 => 1 \in 1..n /\ 1 < k BY <3>2
      <4>2. k # 1 => s = mail.seq[q[1]] - 1 /\ mail.seq[q[1]] \in Int /\ mail.seq[q[1]] <= scan
        BY <4>1, <1>1, <1>2, <1>5
      <4> QED BY <4>2, <3>2
    <3> HIDE DEF n, seq, s, q, r
    <3>5. ASSUME NEW i \in 1..n + 1 PROVE seq[r[i]] <= scan <=> i < (IF k = 1 THEN 1 ELSE k + 1)
      <4>1. CASE i = 1
        <5>1. r[i] = m BY <4>1, <3>2
        <5> QED BY <4>1, <5>1, <3>2, <3>3, <3>4
      <4>2. CASE i # 1
        <5>1. i - 1 \in 1..n /\ r[i] = q[i - 1] BY <4>2, <3>2
        <5>2. seq[r[i]] <= scan <=> i - 1 < k BY <5>1, <3>2
        <5> QED BY <5>1, <5>2, <4>2, <3>2
      <4> QED BY <4>1, <4>2
    <3>6. (IF k = 1 THEN 1 ELSE k + 1) \in 1..Len(r) + 1 BY <3>2
    <3> QED BY <3>2, <3>5, <3>6 DEF Split, seq
  <2> DEFINE j == IF k = 1 THEN 1 ELSE k + 1
  <2>2. Marked(r, mail'.seq, scan) = j - 1
    <3> HIDE DEF r
    <3>1. Split(r, mail'.seq, scan, j) BY <2>1
    <3> HIDE DEF j
    <3> QED BY <3>1, <1>2, MarkedIs
  <2>3. j - 1 = IF k = 1 THEN 0 ELSE k BY <1>5
  <2> QED BY <2>2, <2>3, <1>2, <1>3, MarkAfter
<1>10. Mark' = (IF Mark = 0 THEN 0 ELSE Mark + 1)
  <2>1. k \in Int BY <1>5
  <2> QED BY <2>1, <1>8, <1>9
<1>11. Mark = 0 \/ held # Nil
  <2>1. CASE phase = "running"
    <3>1. scan = NoneSeen BY <2>1 DEF MailInv, ScanRight
    <3>2. Marked(q, mail.seq, NoneSeen) = 0 BY <1>1, <3>1, NoneMarked
    <3> QED BY <3>1, <3>2, MarkBefore
  <2>2. CASE phase = "trying"
    <3>1. held # Nil BY <2>2, MailboxAssumption DEF MailInv, HeldRight, TypeOK
    <3> QED BY <3>1
  <2> QED BY <2>1, <2>2 DEF FrontMsg
<1>12. r = << m >> \o q BY <1>1, <1>2, WithFirst
<1>13. ~MQ!Contains(q, m) BY <1>2 DEF MQ!Contains, Elements
<1> HIDE DEF q, r
<1>14. \E x \in Msg : ~MQ!Contains(Walk(mail), x) /\ Walk(mail)' = << x >> \o Walk(mail)
  BY <1>12, <1>13 DEF q, r
<1> QED BY <1>3, <1>10, <1>11, <1>14 DEF MQ!Next, MQ!PutFront, Mark

\* Nothing that MessageQueue knows of changes.
LEMMA SameMaps ==
  ASSUME mail' = mail, scan' = scan, held' = held
  PROVE  UNCHANGED MQ!vars
<1>1. Walk(mail)' = Walk(mail) /\ Mark' = Mark BY DEF Mark, Queued
<1> QED BY <1>1, NoChange

LEMMA LeavesReceive ==
  ASSUME MailInv, SafeNumbers, mail' = mail, scan' = NoneSeen
  PROVE  Walk(mail)' = Walk(mail) /\ Mark' = 0
<1> DEFINE q == Walk(mail)
           c == Fronted(sent)
<1>1. /\ c \in Nat /\ c < -NoneSeen /\ Good(q, mail, c, scan) /\ q \in Seq(Msg)
      /\ scan \in Int /\ NoneSeen <= scan /\ NoneSeen \in Int
  BY InvFacts DEF SafeNumbers, NoneSeen
<1>2. Good(q, mail, c, NoneSeen) BY <1>1, GoodAtStart
<1>3. Marked(q, mail.seq, NoneSeen) = 0 BY <1>1, <1>2, NoneMarked
<1>4. Walk(mail)' = q OBVIOUS
<1>5. Mark' = Marked(q, mail.seq, NoneSeen) BY <1>1, <1>4, MarkAfter
<1> QED BY <1>3, <1>4, <1>5

LEMMA AcceptMaps ==
  ASSUME MailInv, SafeNumbers, Accept
  PROVE  [MQ!Next]_(MQ!vars)
<1>1. mail' = mail /\ scan' = NoneSeen /\ held' = Nil /\ held # Nil
  BY MailboxAssumption DEF Accept, MailInv, HeldRight, TypeOK
<1>2. Walk(mail)' = Walk(mail) /\ Mark' = 0 BY <1>1, LeavesReceive
<1> QED BY <1>1, <1>2 DEF MQ!Next, MQ!Accept, Mark

LEMMA NoMessageMaps ==
  ASSUME MailInv, SafeNumbers, NoMessage
  PROVE  [MQ!Next]_(MQ!vars)
<1>1. mail' = mail /\ held' = held /\ held = Nil BY DEF NoMessage, MailInv, HeldRight
<1>2. CASE scan' = scan BY <1>1, <1>2, SameMaps
<1>3. CASE scan' = NoneSeen
  <2>1. Walk(mail)' = Walk(mail) /\ Mark' = 0 BY <1>1, <1>3, LeavesReceive
  <2> QED BY <2>1, <1>1 DEF MQ!Next, MQ!GiveUp, Mark
<1> QED BY <1>2, <1>3 DEF NoMessage

LEMMA BeginMaps ==
  ASSUME MailInv, NEW e, BeginReceive(e)
  PROVE  UNCHANGED MQ!vars
<1>1. mail' = mail /\ scan' = scan /\ held' = held BY DEF BeginReceive, MailInv, ScanRight
<1> QED BY <1>1, SameMaps

LEMMA TakeMaps ==
  ASSUME MailInv, SafeNumbers, TakeMessage
  PROVE  [MQ!Next]_(MQ!vars)
<1> DEFINE q == Walk(mail)
           r == Walk(mail)'
           c == Fronted(sent)
           sc == mail.seq[cursor]
<1>1. /\ c \in Nat /\ Good(q, mail, c, scan) /\ scan \in Int /\ q \in Seq(Msg) /\ Distinct(q)
      /\ Len(q) \in Nat /\ \A i \in 1..Len(q) : q[i] \in Msg
      /\ \A x \in Msg : mail.seq[x] \in Int
  BY InvFacts, SeqPlaces DEF Chain
<1>2. PICK k \in 1..Len(q) :
           /\ cursor = q[k] /\ Passed(q, k) /\ r = Without(q, k) /\ mail'.seq = mail.seq
  BY TakeQueue
<1>3. /\ mail.seq[q[k]] > scan /\ scan' = sc /\ held' = q[k] /\ held = Nil
  BY <1>2 DEF TakeMessage, MailInv, HeldRight
<1>4. Split(q, mail.seq, scan, k)
  <2>1. \A i \in 1..k - 1 : mail.seq[q[i]] <= scan BY <1>2 DEF Passed
  <2> QED BY <2>1, <1>1, <1>3, SplitHere
<1>5. Split(r, mail.seq, sc, k)
  <2>1. \A i, j \in 1..Len(q) : i < j => mail.seq[q[i]] < mail.seq[q[j]]
    BY <1>1 DEF Good, Ascending
  <2>2. \A i \in 1..Len(q) : i < k => mail.seq[q[i]] <= sc
    <3> SUFFICES ASSUME NEW i \in 1..Len(q), i < k PROVE mail.seq[q[i]] <= mail.seq[q[k]]
      BY <1>2
    <3>1. mail.seq[q[i]] < mail.seq[q[k]] /\ mail.seq[q[i]] \in Int /\ mail.seq[q[k]] \in Int
      BY <2>1, <1>1
    <3> QED BY <3>1
  <2>3. \A i \in 1..Len(q) : k < i => ~(mail.seq[q[i]] <= sc)
    <3> SUFFICES ASSUME NEW i \in 1..Len(q), k < i PROVE ~(mail.seq[q[i]] <= mail.seq[q[k]])
      BY <1>2
    <3>1. mail.seq[q[k]] < mail.seq[q[i]] /\ mail.seq[q[i]] \in Int /\ mail.seq[q[k]] \in Int
      BY <2>1, <1>1
    <3> QED BY <3>1
  <2> HIDE DEF sc, q
  <2> QED BY <2>2, <2>3, <1>1, <1>2, SplitWithout
<1>6. r \in Seq(Msg) /\ Distinct(r) BY <1>1, <1>2, WithoutPlaces
<1>7. Mark = k - 1
  <2>1. Marked(q, mail.seq, scan) = k - 1 BY <1>1, <1>4, MarkedIs
  <2> QED BY <2>1, MarkBefore
<1>8. Mark' = k - 1
  <2>1. Marked(r, mail.seq, sc) = k - 1 BY <1>5, <1>6, MarkedIs
  <2> QED BY <2>1, <1>2, <1>3, <1>6, MarkAfter
<1>9. r = MQ!RemoveAt(q, k) BY <1>1, <1>2, WithoutIsRemoveAt
<1>10. k - 1 < Len(q) /\ k - 1 + 1 = k
  <2> DEFINE n == Len(q)
  <2>1. n \in Nat /\ k \in 1..n BY <1>1
  <2> HIDE DEF n
  <2>2. k - 1 < n /\ k - 1 + 1 = k BY <2>1
  <2> QED BY <2>2 DEF n
<1> QED BY <1>3, <1>7, <1>8, <1>9, <1>10 DEF MQ!Next, MQ!Look, Mark

LEMMA DropMaps ==
  ASSUME MailInv, SafeNumbers, DropOutdated
  PROVE  [MQ!Next]_(MQ!vars)
<1> DEFINE q == Walk(mail)
           p == Walk(mail)'
           c == Fronted(sent)
<1>1. /\ c \in Nat /\ Good(q, mail, c, scan) /\ scan \in Int /\ q \in Seq(Msg) /\ Distinct(q)
      /\ scan <= mail.sequence /\ Len(q) \in Nat
  BY InvFacts DEF Chain
<1>2. PICK k \in 1..Len(q), more \in SUBSET (Msg \ sent), r \in Seq(Msg), mb \in Box :
           /\ cursor = q[k] /\ Passed(q, k)
           /\ Grown(q, mail, r, mb, more)
           /\ p = Without(r, k) /\ mail'.seq = mb.seq
  BY DropQueue
<1>3. mail.seq[q[k]] > scan /\ scan' = scan /\ held' = held /\ held = Nil
  BY <1>2 DEF DropOutdated, MailInv, HeldRight
<1>4. Split(q, mail.seq, scan, k)
  <2>1. \A i \in 1..k - 1 : mail.seq[q[i]] <= scan BY <1>2 DEF Passed
  <2> QED BY <2>1, <1>1, <1>3, SplitHere
<1> HIDE DEF q, p, c
<1>5. /\ r \in Seq(Msg) /\ Distinct(r) /\ Len(r) \in Nat /\ Len(q) <= Len(r)
      /\ \A i \in 1..Len(q) : r[i] = q[i]
      /\ \A i \in Len(q) + 1 .. Len(r) : r[i] \notin Elements(q)
  BY <1>2, LenProperties DEF Grown, Chain
<1>6. Split(r, mb.seq, scan, k)
  <2>1. more \in SUBSET Msg OBVIOUS
  <2> QED BY <2>1, <1>1, <1>2, <1>4, GrownSplit
<1>7. k \in 1..Len(r) BY <1>1, <1>5
<1>8. /\ \A i \in 1..Len(r) : i < k => mb.seq[r[i]] <= scan
      /\ \A i \in 1..Len(r) : k < i => ~(mb.seq[r[i]] <= scan)
  <2>1. \A i \in 1..Len(r) : mb.seq[r[i]] <= scan <=> i < k BY <1>6 DEF Split
  <2>2. \A i \in 1..Len(r) : k < i => ~(i < k) BY <1>5, <1>7
  <2> QED BY <2>1, <2>2
<1>9. Split(p, mb.seq, scan, k) BY <1>2, <1>5, <1>7, <1>8, SplitWithout
<1>10. /\ p \in Seq(Msg) /\ Distinct(p) /\ Len(p) = Len(r) - 1
       /\ \A i \in 1..Len(r) - 1 : p[i] = IF i < k THEN r[i] ELSE r[i + 1]
  BY <1>2, <1>5, <1>7, WithoutPlaces
<1>11. Mark = k - 1
  <2>1. Marked(q, mail.seq, scan) = k - 1 BY <1>1, <1>4, MarkedIs
  <2> QED BY <2>1, MarkBefore DEF q
<1>12. Mark' = k - 1
  <2>1. Marked(p, mb.seq, scan) = k - 1 BY <1>9, <1>10, MarkedIs
  <2> QED BY <2>1, <1>2, <1>3, <1>10, MarkAfter DEF p
<1>13. MQ!RemoveAt(q, k) = Without(q, k) BY <1>1, WithoutIsRemoveAt
<1> DEFINE w == Without(q, k)
<1>14. /\ w \in Seq(Msg) /\ Len(w) = Len(q) - 1
       /\ \A i \in 1..Len(q) - 1 : w[i] = IF i < k THEN q[i] ELSE q[i + 1]
  BY <1>1, WithoutPlaces
<1> HIDE DEF w
<1>15. Len(w) <= Len(p) /\ \A i \in 1..Len(w) : p[i] = w[i]
  <2>1. Len(w) <= Len(p) BY <1>1, <1>5, <1>10, <1>14
  <2>2. ASSUME NEW i \in 1..Len(q) - 1 PROVE p[i] = w[i]
    <3>1. i \in 1..Len(q) /\ i + 1 \in 1..Len(q) /\ i \in 1..Len(r) - 1 BY <1>1, <1>5
    <3>2. r[i] = q[i] /\ r[i + 1] = q[i + 1] BY <3>1, <1>5
    <3> QED BY <3>1, <3>2, <1>10, <1>14
  <2> QED BY <2>1, <2>2, <1>14
<1>16. \A i \in Len(w) + 1 .. Len(p) : p[i] \notin Elements(q)
  <2> SUFFICES ASSUME NEW i \in Len(q) - 1 + 1 .. Len(r) - 1 PROVE p[i] \notin Elements(q)
    BY <1>10, <1>14
  <2>1. i \in 1..Len(r) - 1 /\ ~(i < k) /\ i + 1 \in Len(q) + 1 .. Len(r) BY <1>1, <1>5, <1>7
  <2>2. p[i] = r[i + 1] BY <2>1, <1>10
  <2> QED BY <2>1, <2>2, <1>5
<1>17. MQ!Grows(w) BY <1>10, <1>14, <1>15, <1>16, GrowsTo DEF p, q
<1>18. MQ!Grows(MQ!RemoveAt(q, k)) BY <1>13, <1>17 DEF w
<1>19. k - 1 < Len(q) /\ k - 1 + 1 = k BY <1>1
<1> QED BY <1>3, <1>11, <1>12, <1>18, <1>19 DEF MQ!Next, MQ!Drop, Mark, q

LEMMA RejectMaps ==
  ASSUME MailInv, SafeNumbers, Reject
  PROVE  [MQ!Next]_(MQ!vars)
<1> DEFINE q == Walk(mail)
           p == Walk(mail)'
           c == Fronted(sent)
<1>1. /\ c \in Nat /\ Good(q, mail, c, scan) /\ scan \in Int /\ q \in Seq(Msg) /\ Distinct(q)
      /\ scan <= mail.sequence /\ Len(q) \in Nat /\ \A x \in Msg : mail.seq[x] \in Int
  BY InvFacts DEF Chain
<1>2. PICK more \in SUBSET (Msg \ sent), r \in Seq(Msg), mb \in Box : \E k \in 1..Len(r) + 1 :
           /\ Grown(q, mail, r, mb, more)
           /\ \A i \in 1..Len(r) : IF i < k THEN mb.seq[r[i]] < scan ELSE scan < mb.seq[r[i]]
           /\ p = With(r, k, held) /\ mail'.seq = mb.seq
           /\ Good(p, mail', Fronted(sent)', scan')
  BY RejectQueue
<1>3. PICK k \in 1..Len(r) + 1 :
           /\ \A i \in 1..Len(r) : IF i < k THEN mb.seq[r[i]] < scan ELSE scan < mb.seq[r[i]]
           /\ p = With(r, k, held)
  BY <1>2
<1>4. Grown(q, mail, r, mb, more) /\ mail'.seq = mb.seq /\ p \in Seq(Msg) /\ Distinct(p)
  BY <1>2 DEF Good, Chain
<1>5. /\ held \in Msg /\ held \in sent /\ held # Nil /\ scan = mail.seq[held]
      /\ scan' = scan /\ held' = Nil
  BY MailboxAssumption DEF Reject, MailInv, HeldRight, TypeOK
<1>6. mb.seq[held] <= scan
  <2>1. held \in Msg \ more BY <1>5
  <2>2. mb.seq[held] = mail.seq[held] BY <2>1, <1>4 DEF Grown
  <2> QED BY <2>2, <1>1, <1>5
<1> HIDE DEF q, p, c
<1>7. /\ r \in Seq(Msg) /\ Distinct(r) /\ Len(r) \in Nat /\ Len(q) <= Len(r) /\ mb \in Box
      /\ \A i \in 1..Len(q) : r[i] = q[i]
      /\ \A i \in Len(q) + 1 .. Len(r) : r[i] \notin Elements(q)
      /\ \A i \in 1..Len(r) : r[i] \in Msg
  BY <1>4, LenProperties DEF Grown, Chain
<1>8. Split(r, mb.seq, scan, k)
  <2>1. ASSUME NEW i \in 1..Len(r) PROVE mb.seq[r[i]] <= scan <=> i < k
    <3>1. mb.seq[r[i]] \in Int BY <1>7 DEF Box
    <3> QED BY <3>1, <1>1, <1>3
  <2> QED BY <2>1 DEF Split
<1>9. PICK j : Split(q, mail.seq, scan, j) BY <1>1, SplitExists
<1>10. Split(r, mb.seq, scan, j)
  <2>1. more \in SUBSET Msg OBVIOUS
  <2> QED BY <2>1, <1>1, <1>4, <1>9, GrownSplit
<1>11. j = k
  <2>1. Marked(r, mb.seq, scan) = k - 1 /\ Marked(r, mb.seq, scan) = j - 1
    BY <1>7, <1>8, <1>10, MarkedIs
  <2>2. j \in Int /\ k \in Int BY <1>7, <1>9 DEF Split
  <2> QED BY <2>1, <2>2
<1>12. k \in 1..Len(q) + 1 BY <1>9, <1>11 DEF Split
<1>13. Mark = k - 1
  <2>1. Marked(q, mail.seq, scan) = k - 1 BY <1>1, <1>9, <1>11, MarkedIs
  <2> QED BY <2>1, MarkBefore DEF q
<1>14. Mark' = k
  <2>1. Split(p, mb.seq, scan, k + 1) BY <1>3, <1>5, <1>6, <1>7, <1>8, SplitWith
  <2>2. Marked(p, mb.seq, scan) = k + 1 - 1 BY <2>1, <1>4, MarkedIs
  <2>3. k + 1 - 1 = k BY <1>7
  <2> QED BY <2>2, <2>3, <1>4, <1>5, MarkAfter DEF p
<1> DEFINE w == With(q, k, held)
<1>15. MQ!InsertAt(q, k, held) = w BY <1>1, <1>5, <1>12, WithIsInsertAt
<1>16. /\ w \in Seq(Msg) /\ Len(w) = Len(q) + 1
       /\ \A i \in 1..Len(q) + 1 : w[i] = IF i < k THEN q[i] ELSE IF i = k THEN held ELSE q[i - 1]
  <2>1. q \in Seq(Msg) /\ k \in 1..Len(q) + 1 /\ held \in Msg BY <1>1, <1>5, <1>12
  <2> QED BY <2>1, WithPlaces
<1>17. /\ Len(p) = Len(r) + 1
       /\ \A i \in 1..Len(r) + 1 : p[i] = IF i < k THEN r[i] ELSE IF i = k THEN held ELSE r[i - 1]
  <2> DEFINE v == With(r, k, held)
  <2>1. r \in Seq(Msg) /\ k \in 1..Len(r) + 1 /\ held \in Msg BY <1>3, <1>5, <1>7
  <2>2. /\ Len(v) = Len(r) + 1
        /\ \A i \in 1..Len(r) + 1 : v[i] = IF i < k THEN r[i] ELSE IF i = k THEN held ELSE r[i - 1]
    BY <2>1, WithPlaces
  <2>3. p = v BY <1>3
  <2> HIDE DEF v
  <2> QED BY <2>2, <2>3
<1> HIDE DEF w
<1>18. Len(w) <= Len(p) /\ \A i \in 1..Len(w) : p[i] = w[i]
  <2>1. Len(w) <= Len(p) BY <1>1, <1>7, <1>16, <1>17
  <2>2. ASSUME NEW i \in 1..Len(q) + 1 PROVE p[i] = w[i]
    <3>1. i \in 1..Len(r) + 1 BY <1>1, <1>7
    <3>2. CASE i < k
      <4>1. i \in 1..Len(q) BY <3>2, <1>1, <1>12
      <4> QED BY <4>1, <3>1, <3>2, <1>7, <1>16, <1>17
    <3>3. CASE i = k
      <4>1. ~(i < k) BY <3>3, <1>7
      <4> QED BY <4>1, <3>1, <3>3, <1>16, <1>17
    <3>4. CASE k < i
      <4>1. i - 1 \in 1..Len(q) /\ ~(i < k) /\ i # k BY <3>4, <1>1, <1>12
      <4> QED BY <4>1, <3>1, <1>7, <1>16, <1>17
    <3> QED BY <3>2, <3>3, <3>4, <1>7
  <2> QED BY <2>1, <2>2, <1>16
<1>19. \A i \in Len(w) + 1 .. Len(p) : p[i] \notin Elements(q)
  <2> SUFFICES ASSUME NEW i \in Len(q) + 1 + 1 .. Len(r) + 1 PROVE p[i] \notin Elements(q)
    BY <1>16, <1>17
  <2>1. i \in 1..Len(r) + 1 /\ ~(i < k) /\ i # k /\ i - 1 \in Len(q) + 1 .. Len(r)
    BY <1>1, <1>7, <1>12
  <2>2. p[i] = r[i - 1] BY <2>1, <1>17
  <2> QED BY <2>1, <2>2, <1>7
<1>20. MQ!Grows(w) BY <1>4, <1>16, <1>18, <1>19, GrowsTo DEF p, q
<1>21. MQ!Grows(MQ!InsertAt(q, k, held)) BY <1>15, <1>20
<1>22. k - 1 + 1 = k BY <1>7
<1> QED BY <1>5, <1>13, <1>14, <1>21, <1>22 DEF MQ!Next, MQ!Keep, Mark, q

LEMMA InitMaps == Init => MQ!Init
<1> SUFFICES ASSUME Init PROVE MQ!Init OBVIOUS
<1>1. MailInv BY InitMail
<1>2. mail.mfront = Nil /\ held = Nil BY DEF Init
<1> DEFINE q == Walk(mail)
<1>3. q \in Seq(Msg) /\ mail.mfront = At(q, 1) BY <1>1 DEF MailInv, QueueRight, Good, Chain
<1>4. q = << >>
  <2>1. Len(q) \in Nat /\ \A i \in 1..Len(q) : q[i] \in Msg BY <1>3, SeqPlaces
  <2>2. 1 \notin 1..Len(q) BY <2>1, <1>2, <1>3, MailboxAssumption DEF At
  <2> HIDE DEF q
  <2>3. Len(q) = 0 BY <2>1, <2>2
  <2> QED BY <2>3, <1>3, EmptySeq
<1>5. {m \in Queued : mail.seq[m] <= scan} = {}
  <2>1. DOMAIN q = {} BY <1>4
  <2> QED BY <2>1 DEF Queued
<1>6. Cardinality({m \in Queued : mail.seq[m] <= scan}) = 0 BY <1>5, FS_EmptySet
<1> QED BY <1>2, <1>4, <1>6 DEF MQ!Init

LEMMA NextMaps ==
  ASSUME MailInv, SafeNumbers, [Next]_vars
  PROVE  [MQ!Next]_(MQ!vars)
<1>1. CASE \E m \in Msg : \/ \E sender \in Senders, term \in Leases, asked \in Receipts :
                                Send(m, sender, term, asked)
                          \/ \E term \in Leases, asked \in Receipts : FrontMsg(m, term, asked)
  BY <1>1, SendMaps, FrontMaps, MailboxAssumption
<1>2. CASE \/ \E m \in Msg : LeaseEnds(m)
           \/ Pass \/ AlarmWakes \/ AwaitAny \/ UNCHANGED vars
  <2>1. mail' = mail /\ scan' = scan /\ held' = held
    BY <1>2 DEF LeaseEnds, Pass, AlarmWakes, AwaitAny, vars, recvVars
  <2> QED BY <2>1, SameMaps
<1>3. CASE \E e \in Escapes : BeginReceive(e) BY <1>3, BeginMaps
<1>4. CASE DropOutdated BY <1>4, DropMaps
<1>5. CASE TakeMessage BY <1>5, TakeMaps
<1>6. CASE NoMessage BY <1>6, NoMessageMaps
<1>7. CASE Accept BY <1>7, AcceptMaps
<1>8. CASE Reject BY <1>8, RejectMaps
<1> QED BY <1>1, <1>2, <1>3, <1>4, <1>5, <1>6, <1>7, <1>8 DEF Next

\* The list of message records and the receive statement do what MessageQueue promises:
\* messages are looked at in the order they came, and one that no pattern accepts stays
\* in its place (msg.c; include/msg.ah).
THEOREM MailboxImplementsQueue ==
  ASSUME SafeNumbers
  PROVE  Spec => ImplementsMessageQueue
<1>1. MailInv /\ [Next]_vars => [MQ!Next]_(MQ!vars) BY NextMaps
<1> QED BY <1>1, InitMaps, MailInvariant, PTL DEF Spec, ImplementsMessageQueue, MQ!Spec
=============================================================================
