---------------------------- MODULE RunQueueLemmas ----------------------------
(***************************************************************************)
(* Facts about the run queue as a sequence: which processes the operators  *)
(* of RunQueueOps put in and take out, and that none is ever in twice.     *)
(***************************************************************************)
EXTENDS RunQueueOps, SequenceTheorems, TLAPS

\* The members of a queue of processes are processes.
LEMMA MembersOfSeq == ASSUME NEW S, NEW q \in Seq(S) PROVE Members(q) \subseteq S
  BY DEF Members

\* The members of two sequences put together are those of both.
LEMMA MembersOfConcat ==
  ASSUME NEW S, NEW s \in Seq(S), NEW t \in Seq(S)
  PROVE  s \o t \in Seq(S) /\ Members(s \o t) = Members(s) \cup Members(t)
<1> DEFINE u == s \o t
<1>1. /\ u \in Seq(S) /\ Len(u) = Len(s) + Len(t)
      /\ \A i \in 1..Len(u) : u[i] = IF i <= Len(s) THEN s[i] ELSE t[i - Len(s)]
  BY ConcatProperties
<1>0. Len(s) \in Nat /\ Len(t) \in Nat /\ DOMAIN t = 1..Len(t) /\ DOMAIN s = 1..Len(s)
  BY LenProperties
<1>7. DOMAIN u = 1..Len(u) BY <1>1, LenProperties
<1> HIDE DEF u
<1>2. ASSUME NEW x \in Members(u) PROVE x \in Members(s) \cup Members(t)
  <2>1. PICK i \in 1..Len(u) : u[i] = x BY <1>1 DEF Members
  <2>2. CASE i <= Len(s) BY <2>1, <2>2, <1>1 DEF Members
  <2>3. CASE i > Len(s)
    <3>1. i - Len(s) \in 1..Len(t) /\ t[i - Len(s)] = x BY <2>1, <2>3, <1>1
    <3> QED BY <3>1 DEF Members
  <2> QED BY <2>2, <2>3
<1>3. ASSUME NEW x \in Members(s) PROVE x \in Members(u)
  <2>1. PICK i \in 1..Len(s) : s[i] = x BY DEF Members
  <2>2. i \in 1..Len(u) /\ u[i] = x BY <2>1, <1>1
  <2> QED BY <2>2, <1>1 DEF Members
<1>4. ASSUME NEW x \in Members(t) PROVE x \in Members(u)
  <2>1. PICK i \in 1..Len(t) : t[i] = x BY <1>0 DEF Members
  <2>2. Len(s) + i \in 1..Len(u) BY <1>0, <1>1
  <2>3. ~(Len(s) + i <= Len(s)) /\ (Len(s) + i) - Len(s) = i BY <1>0
  <2>4. u[Len(s) + i] = t[(Len(s) + i) - Len(s)] BY <2>2, <2>3, <1>1
  <2>5. u[Len(s) + i] = x BY <2>1, <2>3, <2>4
  <2> QED BY <2>2, <2>5, <1>7 DEF Members
<1>5. Members(u) = Members(s) \cup Members(t) BY <1>2, <1>3, <1>4
<1> QED BY <1>1, <1>5 DEF u

\* The members of a sequence that is not empty: its head and those of its tail.
LEMMA MembersOfTail ==
  ASSUME NEW S, NEW s \in Seq(S), s # << >>
  PROVE  /\ Head(s) \in S /\ Tail(s) \in Seq(S)
         /\ Members(s) = {Head(s)} \cup Members(Tail(s))
<1>1. /\ Tail(s) \in Seq(S) /\ Len(Tail(s)) = Len(s) - 1
      /\ \A i \in 1..Len(Tail(s)) : Tail(s)[i] = s[i + 1]
  BY HeadTailProperties
<1>2. ASSUME NEW x \in Members(s) PROVE x = Head(s) \/ x \in Members(Tail(s))
  <2>1. PICK i \in 1..Len(s) : s[i] = x BY DEF Members
  <2>2. CASE i = 1 BY <2>1, <2>2
  <2>3. CASE i # 1
    <3>1. i - 1 \in 1..Len(Tail(s)) /\ Tail(s)[i - 1] = x BY <2>1, <2>3, <1>1
    <3>2. DOMAIN Tail(s) = 1..Len(Tail(s)) BY <1>1, LenProperties
    <3> QED BY <3>1, <3>2 DEF Members
  <2> QED BY <2>2, <2>3
<1>3. ASSUME NEW x \in Members(Tail(s)) PROVE x \in Members(s)
  <2>1. PICK i \in 1..Len(Tail(s)) : Tail(s)[i] = x BY <1>1 DEF Members
  <2>2. i + 1 \in 1..Len(s) /\ s[i + 1] = x BY <2>1, <1>1
  <2> QED BY <2>2 DEF Members
<1>4. Head(s) \in S /\ Head(s) \in Members(s) BY DEF Members
<1>5. Members(s) = {Head(s)} \cup Members(Tail(s)) BY <1>2, <1>3, <1>4
<1> QED BY <1>1, <1>4, <1>5

\* add_to_run_q with front True.
LEMMA AddFrontLemma ==
  ASSUME NEW S, NEW q \in Seq(S), NEW p \in S, p \notin Members(q), NoDuplicates(q)
  PROVE  /\ AddFront(q, p) \in Seq(S) /\ AddFront(q, p) # << >>
         /\ Members(AddFront(q, p)) = Members(q) \cup {p}
         /\ NoDuplicates(AddFront(q, p))
<1>1. CASE q = << >> BY <1>1 DEF AddFront, Members, NoDuplicates
<1>2. CASE q # << >>
  <2> DEFINE r == << Head(q), p >> \o Tail(q)
  <2>1. r \in Seq(S) /\ Len(r) = Len(q) + 1 BY <1>2
  <2>2. \A i \in 1..Len(r) : r[i] = IF i = 1 THEN q[1] ELSE IF i = 2 THEN p ELSE q[i - 1]
    BY <1>2
  <2>8. Len(q) \in Nat \ {0} /\ DOMAIN q = 1..Len(q) BY <1>2, LenProperties
  <2>9. DOMAIN r = 1..(Len(q) + 1) BY <2>1, LenProperties
  <2>10. \A k \in 1..Len(q) : q[k] # p BY <2>8 DEF Members
  <2>11. \A k, l \in 1..Len(q) : q[k] = q[l] => k = l BY <2>8 DEF NoDuplicates
  <2>3. NoDuplicates(r)
    <3> SUFFICES ASSUME NEW i \in 1..(Len(q) + 1), NEW j \in 1..(Len(q) + 1), r[i] = r[j]
                 PROVE  i = j
      BY <2>9 DEF NoDuplicates
    <3> DEFINE at(m) == IF m = 1 THEN 1 ELSE m - 1
    <3>1. \A m \in 1..(Len(q) + 1) : m # 2 => at(m) \in 1..Len(q) /\ r[m] = q[at(m)]
      BY <2>1, <2>2, <2>8
    <3>2. r[2] = p BY <2>1, <2>2, <2>8
    <3>3. CASE i = 2 \/ j = 2 BY <3>1, <3>2, <3>3, <2>10
    <3>4. CASE i # 2 /\ j # 2
      <4>1. at(i) = at(j)
        <5> HIDE DEF at
        <5> QED BY <3>1, <3>4, <2>11
      <4> QED BY <4>1, <3>4
    <3> QED BY <3>3, <3>4
  <2>4. \A i \in DOMAIN r : r[i] \in Members(q) \cup {p} BY <2>1, <2>2, <1>2 DEF Members
  <2>5. \A i \in DOMAIN q : \E j \in DOMAIN r : r[j] = q[i]
    <3> TAKE i \in DOMAIN q
    <3>1. CASE i = 1 BY <3>1, <2>1, <2>2
    <3>2. CASE i # 1
      <4>1. i + 1 \in DOMAIN r /\ r[i + 1] = q[i] BY <3>2, <2>1, <2>2
      <4> QED BY <4>1
    <3> QED BY <3>1, <3>2
  <2>6. 2 \in DOMAIN r /\ r[2] = p BY <2>1, <2>2, <1>2
  <2> HIDE DEF r
  <2>7. Members(r) = Members(q) \cup {p} BY <2>4, <2>5, <2>6 DEF Members
  <2> QED BY <2>1, <2>3, <2>7, <1>2 DEF AddFront, r
<1> QED BY <1>1, <1>2

\* add_to_run_q with front False.
LEMMA AddBackLemma ==
  ASSUME NEW S, NEW q \in Seq(S), NEW p \in S, p \notin Members(q), NoDuplicates(q)
  PROVE  /\ AddBack(q, p) \in Seq(S) /\ AddBack(q, p) # << >>
         /\ Members(AddBack(q, p)) = Members(q) \cup {p}
         /\ NoDuplicates(AddBack(q, p))
<1> DEFINE r == Append(q, p)
<1>1. r \in Seq(S) /\ Len(r) = Len(q) + 1 OBVIOUS
<1>2. \A i \in 1..Len(r) : r[i] = IF i = Len(q) + 1 THEN p ELSE q[i] OBVIOUS
<1>3. NoDuplicates(r) BY <1>1, <1>2 DEF NoDuplicates, Members
<1>4. Members(r) = Members(q) \cup {p} BY <1>1, <1>2 DEF Members
<1> QED BY <1>1, <1>3, <1>4 DEF AddBack

\* The place of a member.
LEMMA PlaceOfLemma ==
  ASSUME NEW S, NEW q \in Seq(S), NEW p \in Members(q)
  PROVE  PlaceOf(q, p) \in 1..Len(q) /\ q[PlaceOf(q, p)] = p
<1>1. \E i \in DOMAIN q : q[i] = p BY DEF Members
<1> QED BY <1>1 DEF PlaceOf

\* remove_from_run_q.
LEMMA RemoveLemma ==
  ASSUME NEW S, NEW q \in Seq(S), NEW p \in Members(q), NoDuplicates(q)
  PROVE  /\ Remove(q, p) \in Seq(S)
         /\ Members(Remove(q, p)) = Members(q) \ {p}
         /\ NoDuplicates(Remove(q, p))
<1> DEFINE i == PlaceOf(q, p)
           n == Len(q)
           r == SubSeq(q, i + 1, n) \o SubSeq(q, 1, i - 1)
<1>0. i \in 1..n /\ q[i] = p BY PlaceOfLemma
<1>1. r = Remove(q, p) BY DEF Remove, RemoveAt
<1> HIDE DEF i
<1> DEFINE a == SubSeq(q, i + 1, n)
           b == SubSeq(q, 1, i - 1)
<1>8. n \in Nat /\ i \in Int /\ \A j \in 1..n : q[j] \in S BY <1>0
<1>9. a \in Seq(S) /\ Len(a) = n - i /\ \A j \in 1..(n - i) : a[j] = q[i + j]
  <2>1. \A j \in (i + 1)..n : q[j] \in S BY <1>0, <1>8
  <2>2. /\ a \in Seq(S) /\ Len(a) = IF i + 1 <= n THEN n - (i + 1) + 1 ELSE 0
        /\ \A j \in 1..(n - (i + 1) + 1) : a[j] = q[(i + 1) + j - 1]
    BY <2>1, <1>8, SubSeqProperties
  <2> QED BY <2>2, <1>0, <1>8
<1>10. b \in Seq(S) /\ Len(b) = i - 1 /\ \A j \in 1..(i - 1) : b[j] = q[j]
  <2>1. \A j \in 1..(i - 1) : q[j] \in S BY <1>0, <1>8
  <2>2. /\ b \in Seq(S) /\ Len(b) = IF 1 <= i - 1 THEN (i - 1) - 1 + 1 ELSE 0
        /\ \A j \in 1..((i - 1) - 1 + 1) : b[j] = q[1 + j - 1]
    BY <2>1, <1>8, SubSeqProperties
  <2> QED BY <2>2, <1>0, <1>8
<1> HIDE DEF a, b
<1>11. /\ a \o b \in Seq(S) /\ Len(a \o b) = Len(a) + Len(b)
       /\ \A j \in 1..(Len(a) + Len(b)) :
            (a \o b)[j] = IF j <= Len(a) THEN a[j] ELSE b[j - Len(a)]
  BY <1>9, <1>10, ConcatProperties
<1>12. r = a \o b BY DEF a, b
<1> HIDE DEF r
<1>13. Len(a) + Len(b) = n - 1 /\ Len(a) = n - i BY <1>8, <1>9, <1>10
<1>2. r \in Seq(S) /\ Len(r) = n - 1 BY <1>11, <1>12, <1>13
<1>14. n \in Nat /\ i \in 1..n BY <1>0, LenProperties
<1>3. \A j \in 1..(n - 1) : r[j] = IF j <= n - i THEN q[i + j] ELSE q[j - (n - i)]
  <2> TAKE j \in 1..(n - 1)
  <2>1. CASE j <= n - i
    <3>1. j \in 1..(n - i) /\ j <= Len(a) BY <2>1, <1>8, <1>13
    <3>2. r[j] = a[j] BY <3>1, <1>11, <1>12, <1>13
    <3> QED BY <3>1, <3>2, <2>1, <1>9
  <2>2. CASE j > n - i
    <3>1. j - (n - i) \in 1..(i - 1)
      <4> HIDE DEF n
      <4> QED BY <2>2, <1>14
    <3>4. j \in 1..(Len(a) + Len(b)) /\ ~(j <= Len(a)) BY <2>2, <1>13, <1>14
    <3>2. r[j] = b[j - (n - i)] BY <3>4, <1>11, <1>12, <1>13
    <3>3. b[j - (n - i)] = q[j - (n - i)] BY <3>1, <1>10
    <3> QED BY <2>2, <3>2, <3>3, <1>14
  <2> QED BY <2>1, <2>2, <1>14
<1>4. NoDuplicates(r)
  <2> SUFFICES ASSUME NEW j \in 1..(n - 1), NEW k \in 1..(n - 1), r[j] = r[k] PROVE j = k
    BY <1>2 DEF NoDuplicates
  <2> DEFINE at(l) == IF l <= n - i THEN i + l ELSE l - (n - i)
  <2>4. \A l \in 1..(n - 1) : at(l) \in 1..n
    <3> HIDE DEF n
    <3> QED BY <1>14
  <2>5. \A l \in 1..(n - 1) : r[l] = q[at(l)] BY <1>3
  <2>1. at(j) \in 1..n /\ at(k) \in 1..n /\ r[j] = q[at(j)] /\ r[k] = q[at(k)]
    <3> HIDE DEF at
    <3> QED BY <2>4, <2>5
  <2>2. q[at(j)] = q[at(k)] BY <2>1
  <2> HIDE DEF at
  <2>3. at(j) = at(k) BY <2>1, <2>2 DEF NoDuplicates
  <2> QED BY <2>3, <1>0, <1>8 DEF at
<1>5. \A j \in 1..(n - 1) : r[j] \in Members(q) \ {p}
  <2> TAKE j \in 1..(n - 1)
  <2> DEFINE l == IF j <= n - i THEN i + j ELSE j - (n - i)
  <2>1. l \in 1..n /\ l # i /\ r[j] = q[l] BY <1>0, <1>3
  <2> QED BY <2>1, <1>0 DEF NoDuplicates, Members
<1>6. \A k \in 1..n : k # i => \E j \in 1..(n - 1) : r[j] = q[k]
  <2> SUFFICES ASSUME NEW k \in 1..n, k # i PROVE \E j \in 1..(n - 1) : r[j] = q[k]
    OBVIOUS
  <2>1. CASE k > i
    <3>1. k - i \in 1..(n - 1) /\ r[k - i] = q[k] BY <2>1, <1>0, <1>3
    <3> QED BY <3>1
  <2>2. CASE k < i
    <3> DEFINE j == k + (n - i)
    <3>2. j \in 1..(n - 1) /\ j - (n - i) = k /\ ~(j <= n - i)
      <4> HIDE DEF n
      <4> QED BY <2>2, <1>14
    <3> HIDE DEF j
    <3>1. j \in 1..(n - 1) /\ r[j] = q[k] BY <3>2, <1>3
    <3> QED BY <3>1
  <2> QED BY <2>1, <2>2, <1>0
<1>7. Members(r) = Members(q) \ {p}
  <2>1. Members(r) \subseteq Members(q) \ {p} BY <1>2, <1>5 DEF Members
  <2>2. ASSUME NEW x \in Members(q), x # p PROVE x \in Members(r)
    <3>1. PICK k \in 1..n : q[k] = x BY DEF Members
    <3>2. k # i BY <3>1, <2>2, <1>0
    <3>3. PICK j \in 1..(n - 1) : r[j] = q[k] BY <3>2, <1>6
    <3> QED BY <3>1, <3>3, <1>2 DEF Members
  <2> QED BY <2>1, <2>2
<1> QED BY <1>1, <1>2, <1>4, <1>7

\* ps_pause.
LEMMA RotateLemma ==
  ASSUME NEW S, NEW q \in Seq(S), NoDuplicates(q)
  PROVE  /\ Rotate(q) \in Seq(S)
         /\ Members(Rotate(q)) = Members(q)
         /\ NoDuplicates(Rotate(q))
         /\ q # << >> => Rotate(q) # << >>
<1>1. CASE q = << >> BY <1>1 DEF Rotate
<1>2. CASE q # << >>
  <2> DEFINE n == Len(q)
             r == Append(Tail(q), Head(q))
  <2>1. r \in Seq(S) /\ Len(r) = n /\ n \in Nat \ {0} BY <1>2
  <2>2. \A i \in 1..n : r[i] = IF i = n THEN q[1] ELSE q[i + 1] BY <1>2
  <2> HIDE DEF r
  <2>7. DOMAIN r = 1..n /\ DOMAIN q = 1..n BY <2>1, LenProperties
  <2>3. NoDuplicates(r)
    <3> SUFFICES ASSUME NEW i \in 1..n, NEW j \in 1..n, r[i] = r[j] PROVE i = j
      BY <2>7 DEF NoDuplicates
    <3>1. \A k, l \in 1..n : q[k] = q[l] => k = l BY <2>7 DEF NoDuplicates
    <3>2. CASE i = n /\ j = n BY <3>2
    <3>3. CASE i = n /\ j # n
      <4>1. q[1] = q[j + 1] /\ 1 \in 1..n /\ j + 1 \in 1..n BY <3>3, <2>1, <2>2
      <4> QED BY <4>1, <3>1
    <3>4. CASE i # n /\ j = n
      <4>1. q[1] = q[i + 1] /\ 1 \in 1..n /\ i + 1 \in 1..n BY <3>4, <2>1, <2>2
      <4> QED BY <4>1, <3>1
    <3>5. CASE i # n /\ j # n
      <4>1. q[i + 1] = q[j + 1] /\ i + 1 \in 1..n /\ j + 1 \in 1..n BY <3>5, <2>1, <2>2
      <4> QED BY <4>1, <3>1
    <3> QED BY <3>2, <3>3, <3>4, <3>5
  <2>4. \A i \in 1..n : r[i] \in Members(q)
    BY <2>1, <2>2 DEF Members
  <2>5. \A i \in 1..n : \E j \in 1..n : r[j] = q[i]
    <3> TAKE i \in 1..n
    <3>1. CASE i = 1 BY <3>1, <2>1, <2>2
    <3>2. CASE i # 1
      <4>1. i - 1 \in 1..n /\ r[i - 1] = q[i] BY <3>2, <2>1, <2>2
      <4> QED BY <4>1
    <3> QED BY <3>1, <3>2
  <2>8. ASSUME NEW x \in Members(r) PROVE x \in Members(q) BY <2>4, <2>7 DEF Members
  <2>9. ASSUME NEW x \in Members(q) PROVE x \in Members(r)
    <3>1. PICK i \in 1..n : q[i] = x BY <2>7 DEF Members
    <3>2. PICK j \in 1..n : r[j] = q[i] BY <2>5
    <3> QED BY <3>1, <3>2, <2>7 DEF Members
  <2>6. Members(r) = Members(q) BY <2>8, <2>9
  <2> QED BY <1>2, <2>1, <2>3, <2>6 DEF Rotate, r
<1> QED BY <1>1, <1>2

\* A sequence without its element at one place.
LEMMA WithoutPlaceLemma ==
  ASSUME NEW S, NEW q \in Seq(S), NEW p \in Members(q), NoDuplicates(q)
  PROVE  LET i == PlaceOf(q, p)
             r == SubSeq(q, 1, i - 1) \o SubSeq(q, i + 1, Len(q))
         IN  r \in Seq(S) /\ Members(r) = Members(q) \ {p} /\ NoDuplicates(r)
<1> DEFINE i == PlaceOf(q, p)
           n == Len(q)
           a == SubSeq(q, 1, i - 1)
           b == SubSeq(q, i + 1, n)
<1>0. i \in 1..n /\ q[i] = p BY PlaceOfLemma
<1> HIDE DEF i
<1>10. n \in Nat /\ i \in 1..n BY <1>0, LenProperties
<1>1. n \in Nat /\ i \in Int /\ DOMAIN q = 1..n /\ \A j \in 1..n : q[j] \in S
  BY <1>0, LenProperties
<1>2. a \in Seq(S) /\ Len(a) = i - 1 /\ \A j \in 1..(i - 1) : a[j] = q[j]
  <2>1. \A j \in 1..(i - 1) : q[j] \in S BY <1>0, <1>1
  <2>2. /\ a \in Seq(S) /\ Len(a) = IF 1 <= i - 1 THEN (i - 1) - 1 + 1 ELSE 0
        /\ \A j \in 1..((i - 1) - 1 + 1) : a[j] = q[1 + j - 1]
    BY <2>1, <1>1, SubSeqProperties
  <2>3. (IF 1 <= i - 1 THEN (i - 1) - 1 + 1 ELSE 0) = i - 1 /\ (i - 1) - 1 + 1 = i - 1
    BY <1>0, <1>1
  <2>4. \A j \in 1..(i - 1) : 1 + j - 1 = j OBVIOUS
  <2> QED BY <2>2, <2>3, <2>4
<1>3. b \in Seq(S) /\ Len(b) = n - i /\ \A j \in 1..(n - i) : b[j] = q[i + j]
  <2>1. \A j \in (i + 1)..n : q[j] \in S BY <1>0, <1>1
  <2>2. /\ b \in Seq(S) /\ Len(b) = IF i + 1 <= n THEN n - (i + 1) + 1 ELSE 0
        /\ \A j \in 1..(n - (i + 1) + 1) : b[j] = q[(i + 1) + j - 1]
    BY <2>1, <1>1, SubSeqProperties
  <2>5. (IF i + 1 <= n THEN n - (i + 1) + 1 ELSE 0) = n - i
    <3> HIDE DEF n
    <3> QED BY <1>10
  <2>3. Len(b) = n - i BY <2>2, <2>5
  <2>4. ASSUME NEW j \in 1..(n - i) PROVE b[j] = q[i + j]
    <3>1. j \in 1..(n - (i + 1) + 1) /\ (i + 1) + j - 1 = i + j
      <4> HIDE DEF n
      <4> QED BY <1>10
    <3> QED BY <3>1, <2>2
  <2> QED BY <2>2, <2>3, <2>4
<1> HIDE DEF a, b
<1> DEFINE r == a \o b
<1>4. /\ r \in Seq(S) /\ Len(r) = Len(a) + Len(b)
      /\ \A j \in 1..Len(a) + Len(b) : r[j] = IF j <= Len(a) THEN a[j] ELSE b[j - Len(a)]
  BY <1>2, <1>3, ConcatProperties
<1> HIDE DEF r
<1>5. Len(r) = n - 1 /\ DOMAIN r = 1..(n - 1) BY <1>1, <1>2, <1>3, <1>4, LenProperties
<1>6. \A j \in 1..(n - 1) : r[j] = IF j < i THEN q[j] ELSE q[j + 1]
  <2> TAKE j \in 1..(n - 1)
  <2>1. CASE j < i
    <3>1. j \in 1..(i - 1) /\ j <= Len(a) /\ j \in 1..Len(a) + Len(b)
      BY <2>1, <1>0, <1>1, <1>2, <1>3
    <3>2. r[j] = a[j] BY <3>1, <1>4
    <3> QED BY <3>1, <3>2, <2>1, <1>2
  <2>2. CASE ~(j < i)
    <3>1. /\ j - (i - 1) \in 1..(n - i) /\ ~(j <= Len(a)) /\ j \in 1..Len(a) + Len(b)
          /\ i + (j - (i - 1)) = j + 1
      BY <2>2, <1>0, <1>1, <1>2, <1>3
    <3>2. r[j] = b[j - (i - 1)] BY <3>1, <1>2, <1>4
    <3>3. b[j - (i - 1)] = q[j + 1] BY <3>1, <1>3
    <3> QED BY <3>2, <3>3, <2>2
  <2> QED BY <2>1, <2>2
<1>7. \A k, l \in 1..n : q[k] = q[l] => k = l BY <1>1 DEF NoDuplicates
<1>8. NoDuplicates(r)
  <2> SUFFICES ASSUME NEW j \in 1..(n - 1), NEW k \in 1..(n - 1), r[j] = r[k] PROVE j = k
    BY <1>5 DEF NoDuplicates
  <2> DEFINE at(m) == IF m < i THEN m ELSE m + 1
  <2>1. at(j) \in 1..n /\ at(k) \in 1..n /\ q[at(j)] = q[at(k)] BY <1>0, <1>1, <1>6
  <2> HIDE DEF at
  <2>2. at(j) = at(k) BY <2>1, <1>7
  <2> QED BY <2>2, <1>0, <1>1 DEF at
<1>9. ASSUME NEW x \in Members(r) PROVE x \in Members(q) \ {p}
  <2>1. PICK j \in 1..(n - 1) : r[j] = x BY <1>5 DEF Members
  <2> DEFINE k == IF j < i THEN j ELSE j + 1
  <2>2. k \in 1..n /\ k # i /\ q[k] = x BY <2>1, <1>0, <1>1, <1>6
  <2> HIDE DEF k
  <2>3. x # p BY <2>2, <1>0, <1>7
  <2> QED BY <2>2, <2>3, <1>1 DEF Members
<1>11. ASSUME NEW x \in Members(q) \ {p} PROVE x \in Members(r)
  <2>1. PICK k \in 1..n : q[k] = x BY <1>1 DEF Members
  <2> DEFINE j == IF k < i THEN k ELSE k - 1
  <2>2. k # i BY <2>1, <1>0
  <2>3. j \in 1..(n - 1) /\ r[j] = x BY <2>1, <2>2, <1>10, <1>6
  <2> HIDE DEF j
  <2> QED BY <2>3, <1>5 DEF Members
<1> QED BY <1>4, <1>8, <1>9, <1>11 DEF i, a, b, r

\* The head of a queue is in it.
LEMMA HeadIsMember ==
  ASSUME NEW S, NEW q \in Seq(S), q # << >> PROVE Head(q) \in Members(q)
  BY DEF Members
=============================================================================
