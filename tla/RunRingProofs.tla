---------------------------- MODULE RunRingProofs ----------------------------
(***************************************************************************)
(* The circular list of schedule.c, for any number of processes: it is     *)
(* always sound, and each of its relinkings does what RunQueue promises.   *)
(***************************************************************************)
EXTENDS RunRing, RunQueueLemmas, DataInduction

(***************************************************************************)
(* The links nx and pv thread the records of q, from h on, into a ring.    *)
(***************************************************************************)
After(n, i) == IF i = n THEN 1 ELSE i + 1

Ring(q, h, nx, pv) ==
  /\ q \in Seq(Proc) /\ NoDuplicates(q)
  /\ IF q = << >> THEN h = Nil ELSE h = q[1]
  /\ \A i \in 1..Len(q) : nx[q[i]] = q[After(Len(q), i)] /\ pv[q[After(Len(q), i)]] = q[i]

Linked == Ring(Walk, run_q, pnext, pprev) /\ Members(Walk) = runnable

-----------------------------------------------------------------------------
(***************************************************************************)
(* Walking along the ring.                                                 *)
(***************************************************************************)
\* A queue without duplicates is as long as it has members.
LEMMA LenIsCardinality ==
  ASSUME NEW S, NEW q \in Seq(S), NoDuplicates(q)
  PROVE  IsFiniteSet(Members(q)) /\ Cardinality(Members(q)) = Len(q)
<1> DEFINE n == Len(q)
<1>1. n \in Nat /\ DOMAIN q = 1..n /\ q \in [1..n -> S] BY LenProperties
<1>2. q \in Bijection(1..n, Members(q))
  BY <1>1 DEF Bijection, Injection, Surjection, IsInjective, Members, NoDuplicates
<1>3. ExistsBijection(1..n, Members(q)) BY <1>2 DEF ExistsBijection
<1>4. IsFiniteSet(1..n) /\ Cardinality(1..n) = n
  <2> HIDE DEF n
  <2> QED BY <1>1, FS_Interval
<1> QED BY <1>3, <1>4, FS_Bijection

\* The n first places of f are what a walk along nx from a meets.
Follows(n, f, a, nx) == \A i \in 1..n : f[i] = IF i = 1 THEN a ELSE nx[f[i - 1]]

\* Two sequences that begin alike and go on by the same links are the same.
LEMMA SameWalk ==
  ASSUME NEW n \in Nat, NEW f, NEW g, NEW a, NEW nx,
         Follows(n, f, a, nx), Follows(n, g, a, nx)
  PROVE  \A i \in 1..n : f[i] = g[i]
<1> DEFINE T == {i \in 1..n : f[i] # g[i]}
<1> SUFFICES ASSUME T # {} PROVE FALSE OBVIOUS
<1>1. T \subseteq Nat OBVIOUS
<1> HIDE DEF T
<1>2. PICK i \in T : \A j \in T : i <= j BY <1>1, LeastNat
<1>3. i \in 1..n /\ f[i] # g[i] BY DEF T
<1>4. CASE i = 1 BY <1>3, <1>4 DEF Follows
<1>5. CASE i # 1
  <2>1. i - 1 \in 1..n /\ ~(i <= i - 1) BY <1>3, <1>5
  <2>2. f[i - 1] = g[i - 1] BY <1>2, <2>1 DEF T
  <2> QED BY <1>3, <1>5, <2>2 DEF Follows
<1> QED BY <1>4, <1>5

\* The walk of verifyRunQ meets the records of the ring in their order.
RingIsWalk ==
  \A q : Ring(q, run_q, pnext, pprev) /\ Members(q) = runnable => Walk = q

LEMMA WalkIsRing == RingIsWalk
<1> SUFFICES ASSUME NEW q, Ring(q, run_q, pnext, pprev), Members(q) = runnable
             PROVE  Walk = q
  BY DEF RingIsWalk
<1> DEFINE n == Len(q)
<1>1. n \in Nat /\ DOMAIN q = 1..n /\ q = [i \in 1..n |-> q[i]] /\ \A i \in 1..n : q[i] \in Proc
  BY LenProperties DEF Ring
<1>2. Cardinality(runnable) = n BY LenIsCardinality DEF Ring
<1>3. CASE q = << >>
  <2>1. run_q = Nil BY <1>3 DEF Ring
  <2> QED BY <1>3, <2>1 DEF Walk
<1>4. CASE q # << >>
  <2>1. n # 0 /\ run_q = q[1] /\ run_q # Nil BY <1>1, <1>4, ProcAssumption DEF Ring
  <2> HIDE DEF n
  <2> DEFINE Def(g) == [i \in 1..n |-> IF i = 1 THEN run_q ELSE pnext[g[i - 1]]]
             at == CHOOSE g : g = Def(g)
  <2>2. \A i \in 1..n : i # 1 => i - 1 \in 1..n /\ After(n, i - 1) = i BY <1>1 DEF After
  <2>3. \A i \in 1..n : i # 1 => q[i] = pnext[q[i - 1]] BY <2>2 DEF Ring, n
  <2>4. \A i \in 1..n : q[i] = IF i = 1 THEN run_q ELSE pnext[q[i - 1]] BY <2>1, <2>3
  <2>5. q = Def(q) BY <1>1, <2>4
  <2>6. at = Def(at)
    <3> HIDE DEF Def
    <3> QED BY <2>5
  <2>7. \A i \in 1..n : at[i] = IF i = 1 THEN run_q ELSE pnext[at[i - 1]]
    <3> HIDE DEF at
    <3> QED BY <2>6
  <2> HIDE DEF at
  <2>8. \A i \in 1..n : at[i] = q[i]
    <3>1. n \in Nat BY <1>1
    <3>2. Follows(n, q, run_q, pnext) BY <2>4 DEF Follows
    <3>3. Follows(n, at, run_q, pnext) BY <2>7 DEF Follows
    <3> QED BY <3>1, <3>2, <3>3, SameWalk
  <2>9. Walk = [i \in 1..n |-> at[i]] BY <1>2, <2>1 DEF Walk, at
  <2> QED BY <1>1, <2>8, <2>9
<1> QED BY <1>3, <1>4

-----------------------------------------------------------------------------
(***************************************************************************)
(* The places of the queue after each operation.                           *)
(***************************************************************************)
\* The end of q from i on, and then its first m places.
LEMMA TurnedPlaces ==
  ASSUME NEW S, NEW q \in Seq(S), NEW i \in 1..Len(q) + 1, NEW m \in 0..Len(q)
  PROVE  LET n == Len(q)
             r == SubSeq(q, i, n) \o SubSeq(q, 1, m)
         IN  /\ r \in Seq(S) /\ Len(r) = (n - i + 1) + m
             /\ \A j \in 1..(n - i + 1) + m :
                  r[j] = IF j <= n - i + 1 THEN q[j + i - 1] ELSE q[j - (n - i + 1)]
<1> DEFINE n == Len(q)
           a == SubSeq(q, i, n)
           b == SubSeq(q, 1, m)
           r == a \o b
<1>1. n \in Nat /\ i \in Int /\ m \in Int /\ \A j \in 1..n : q[j] \in S BY LenProperties
<1>2. i \in 1..n + 1 /\ m \in 0..n OBVIOUS
<1>3. a \in Seq(S) /\ Len(a) = n - i + 1 /\ \A j \in 1..(n - i + 1) : a[j] = q[i + j - 1]
  <2>1. \A j \in i..n : q[j] \in S BY <1>1, <1>2
  <2>2. /\ a \in Seq(S) /\ Len(a) = IF i <= n THEN n - i + 1 ELSE 0
        /\ \A j \in 1..(n - i + 1) : a[j] = q[i + j - 1]
    BY <2>1, <1>1, SubSeqProperties
  <2>3. (IF i <= n THEN n - i + 1 ELSE 0) = n - i + 1
    <3> HIDE DEF n
    <3> QED BY <1>1, <1>2
  <2> QED BY <2>2, <2>3
<1>4. b \in Seq(S) /\ Len(b) = m /\ \A j \in 1..m : b[j] = q[j]
  <2>1. \A j \in 1..m : q[j] \in S BY <1>1, <1>2
  <2>2. /\ b \in Seq(S) /\ Len(b) = IF 1 <= m THEN m - 1 + 1 ELSE 0
        /\ \A j \in 1..(m - 1 + 1) : b[j] = q[1 + j - 1]
    BY <2>1, <1>1, SubSeqProperties
  <2>3. (IF 1 <= m THEN m - 1 + 1 ELSE 0) = m /\ m - 1 + 1 = m BY <1>2
  <2>4. \A j \in 1..m : 1 + j - 1 = j OBVIOUS
  <2> QED BY <2>2, <2>3, <2>4
<1> HIDE DEF a, b, n
<1>5. /\ r \in Seq(S) /\ Len(r) = Len(a) + Len(b)
      /\ \A j \in 1..Len(a) + Len(b) : r[j] = IF j <= Len(a) THEN a[j] ELSE b[j - Len(a)]
  BY <1>3, <1>4, ConcatProperties
<1> HIDE DEF r
<1>6. ASSUME NEW j \in 1..(n - i + 1) + m
      PROVE  r[j] = IF j <= n - i + 1 THEN q[j + i - 1] ELSE q[j - (n - i + 1)]
  <2>1. r[j] = IF j <= n - i + 1 THEN a[j] ELSE b[j - (n - i + 1)] BY <1>3, <1>4, <1>5
  <2>2. CASE j <= n - i + 1
    <3>1. j \in 1..(n - i + 1) /\ i + j - 1 = j + i - 1 BY <2>2, <1>1, <1>2
    <3>2. a[j] = q[j + i - 1] BY <3>1, <1>3
    <3> QED BY <2>1, <2>2, <3>2
  <2>3. CASE ~(j <= n - i + 1)
    <3>1. j - (n - i + 1) \in 1..m BY <2>3, <1>1, <1>2
    <3> QED BY <2>1, <2>3, <3>1, <1>4
  <2> QED BY <2>2, <2>3
<1>7. Len(r) = (n - i + 1) + m BY <1>3, <1>4, <1>5
<1> QED BY <1>5, <1>6, <1>7 DEF a, b, n, r

\* remove_from_run_q.
LEMMA RemovePlaces ==
  ASSUME NEW S, NEW q \in Seq(S), NEW k \in 1..Len(q)
  PROVE  LET n == Len(q)
             r == RemoveAt(q, k)
         IN  /\ r \in Seq(S) /\ Len(r) = n - 1
             /\ \A j \in 1..n - 1 : r[j] = IF j <= n - k THEN q[j + k] ELSE q[j - (n - k)]
<1> DEFINE n == Len(q)
           r == RemoveAt(q, k)
<1>1. n \in Nat /\ k \in 1..n BY LenProperties
<1>2. k + 1 \in 1..n + 1 /\ k - 1 \in 0..n
  <2> HIDE DEF n
  <2> QED BY <1>1
<1>3. /\ r \in Seq(S) /\ Len(r) = (n - (k + 1) + 1) + (k - 1)
      /\ \A j \in 1..(n - (k + 1) + 1) + (k - 1) :
           r[j] = IF j <= n - (k + 1) + 1 THEN q[j + (k + 1) - 1] ELSE q[j - (n - (k + 1) + 1)]
  BY <1>2, TurnedPlaces, ZenonT(40) DEF RemoveAt
<1> HIDE DEF n, r
<1>4. (n - (k + 1) + 1) + (k - 1) = n - 1 /\ n - (k + 1) + 1 = n - k BY <1>1
<1>5. \A j \in 1..n - 1 : j + (k + 1) - 1 = j + k BY <1>1
<1>6. ASSUME NEW j \in 1..n - 1 PROVE r[j] = IF j <= n - k THEN q[j + k] ELSE q[j - (n - k)]
  BY <1>3, <1>4, <1>5
<1> QED BY <1>3, <1>4, <1>6 DEF n, r

\* ps_switch to a runnable process.
LEMMA TurnToPlaces ==
  ASSUME NEW S, NEW q \in Seq(S), NEW k \in 1..Len(q)
  PROVE  LET n == Len(q)
             r == TurnTo(q, k)
         IN  /\ r \in Seq(S) /\ Len(r) = n
             /\ \A j \in 1..n : r[j] = IF j <= n - k + 1 THEN q[j + k - 1] ELSE q[j - (n - k + 1)]
<1> DEFINE n == Len(q)
           r == TurnTo(q, k)
<1>1. n \in Nat /\ k \in 1..n BY LenProperties
<1>2. k \in 1..n + 1 /\ k - 1 \in 0..n
  <2> HIDE DEF n
  <2> QED BY <1>1
<1>3. /\ r \in Seq(S) /\ Len(r) = (n - k + 1) + (k - 1)
      /\ \A j \in 1..(n - k + 1) + (k - 1) :
           r[j] = IF j <= n - k + 1 THEN q[j + k - 1] ELSE q[j - (n - k + 1)]
  BY <1>2, TurnedPlaces DEF TurnTo
<1> HIDE DEF n, r
<1>4. (n - k + 1) + (k - 1) = n BY <1>1
<1>5. ASSUME NEW j \in 1..n
      PROVE  r[j] = IF j <= n - k + 1 THEN q[j + k - 1] ELSE q[j - (n - k + 1)]
  BY <1>3, <1>4
<1> QED BY <1>3, <1>4, <1>5 DEF n, r

-----------------------------------------------------------------------------
(***************************************************************************)
(* The relinkings, one by one: what each does to a ring.                   *)
(***************************************************************************)
\* A ring by its places.
LEMMA RingPlaces ==
  ASSUME NEW q, NEW h, NEW nx, NEW pv, Ring(q, h, nx, pv), q # << >>
  PROVE  /\ Len(q) \in Nat \ {0} /\ DOMAIN q = 1..Len(q) /\ h = q[1]
         /\ \A i \in 1..Len(q) : q[i] \in Proc
         /\ \A i, j \in 1..Len(q) : q[i] = q[j] => i = j
         /\ \A i \in 1..Len(q) : /\ After(Len(q), i) \in 1..Len(q)
                                 /\ nx[q[i]] = q[After(Len(q), i)]
                                 /\ pv[q[After(Len(q), i)]] = q[i]
<1>1. q \in Seq(Proc) /\ Len(q) \in Nat \ {0} /\ DOMAIN q = 1..Len(q)
  BY LenProperties DEF Ring
<1>2. \A i \in 1..Len(q) : q[i] \in Proc BY <1>1
<1>3. ASSUME NEW n \in Nat, NEW i \in 1..n PROVE After(n, i) \in 1..n BY DEF After
<1>4. \A i \in 1..Len(q) : After(Len(q), i) \in 1..Len(q) BY <1>1, <1>3
<1> QED BY <1>1, <1>2, <1>4 DEF Ring, NoDuplicates

\* AddAlone
LEMMA AloneRing ==
  ASSUME NEW p \in Proc, NEW nx \in [Proc -> Link], NEW pv \in [Proc -> Link]
  PROVE  Ring(<< p >>, p, [nx EXCEPT ![p] = p], [pv EXCEPT ![p] = p])
<1> DEFINE q == << p >>
<1>1. q \in Seq(Proc) /\ Len(q) = 1 /\ q[1] = p /\ q # << >> OBVIOUS
<1> HIDE DEF q
<1>2. DOMAIN q = 1..1 BY <1>1, LenProperties
<1>3. NoDuplicates(q) BY <1>2 DEF NoDuplicates
<1>4. \A i \in 1..Len(q) : i = 1 /\ After(Len(q), i) = 1 BY <1>1 DEF After
<1>5. Ring(q, p, [nx EXCEPT ![p] = p], [pv EXCEPT ![p] = p]) BY <1>1, <1>3, <1>4 DEF Ring
<1> QED BY <1>5 DEF q

\* LinkFront
LEMMA FrontRing ==
  ASSUME NEW nx \in [Proc -> Link], NEW pv \in [Proc -> Link], NEW q, NEW h,
         Ring(q, h, nx, pv), q # << >>, NEW p \in Proc, p \notin Members(q)
  PROVE  Ring(AddFront(q, p), h, [nx EXCEPT ![p] = nx[h], ![h] = p],
                                 [pv EXCEPT ![nx[h]] = p, ![p] = h])
<1> DEFINE n == Len(q)
           r == AddFront(q, p)
           nx2 == [nx EXCEPT ![p] = nx[h], ![h] = p]
           pv2 == [pv EXCEPT ![nx[h]] = p, ![p] = h]
<1>1. /\ n \in Nat \ {0} /\ DOMAIN q = 1..n /\ h = q[1]
      /\ \A i \in 1..n : q[i] \in Proc /\ q[i] # p
      /\ \A i, j \in 1..n : q[i] = q[j] => i = j
      /\ \A i \in 1..n : /\ After(n, i) \in 1..n
                         /\ nx[q[i]] = q[After(n, i)] /\ pv[q[After(n, i)]] = q[i]
  BY RingPlaces DEF Members
<1>2. r \in Seq(Proc) /\ NoDuplicates(r) /\ r # << >> BY AddFrontLemma DEF Ring
<1>3. Len(r) = n + 1 /\ \A i \in 1..n + 1 : r[i] = IF i = 1 THEN q[1] ELSE IF i = 2 THEN p ELSE q[i - 1]
  <2> DEFINE s == << Head(q), p >> \o Tail(q)
  <2>1. q \in Seq(Proc) /\ r = s BY DEF AddFront, Ring
  <2>2. Len(s) = n + 1 BY <2>1
  <2>3. \A i \in 1..Len(s) : s[i] = IF i = 1 THEN q[1] ELSE IF i = 2 THEN p ELSE q[i - 1]
    BY <2>1
  <2> QED BY <2>1, <2>2, <2>3
<1> HIDE DEF n, r
<1>4. nx[h] = q[After(n, 1)] /\ nx[h] \in Proc /\ h \in Proc /\ h # p /\ nx[h] # p
  BY <1>1
<1>5. /\ nx2[p] = nx[h] /\ nx2[h] = p /\ \A x \in Proc \ {p, h} : nx2[x] = nx[x]
      /\ pv2[nx[h]] = p /\ pv2[p] = h /\ \A x \in Proc \ {nx[h], p} : pv2[x] = pv[x]
  BY <1>4
<1> HIDE DEF nx2, pv2
<1>6. ASSUME NEW i \in 1..n + 1
      PROVE  nx2[r[i]] = r[After(n + 1, i)] /\ pv2[r[After(n + 1, i)]] = r[i]
  <2>1. CASE i = 1
    <3>1. After(n + 1, i) = 2 /\ 2 \in 1..n + 1 BY <2>1, <1>1 DEF After
    <3>2. r[i] = h /\ r[After(n + 1, i)] = p BY <3>1, <2>1, <1>1, <1>3
    <3> QED BY <3>2, <1>5
  <2>2. CASE i = 2
    <3>1. r[i] = p BY <2>2, <1>3
    <3>2. r[After(n + 1, i)] = q[After(n, 1)] BY <2>2, <1>1, <1>3 DEF After
    <3> QED BY <3>1, <3>2, <1>4, <1>5
  <2>3. CASE i \notin {1, 2}
    <3>1. i - 1 \in 1..n /\ i - 1 # 1 /\ r[i] = q[i - 1] BY <2>3, <1>1, <1>3
    <3>2. r[After(n + 1, i)] = q[After(n, i - 1)] BY <2>3, <1>1, <1>3 DEF After
    <3>3. After(n, i - 1) # After(n, 1) BY <3>1, <1>1 DEF After
    <3>4. q[i - 1] \in Proc \ {p, h} BY <3>1, <1>1
    <3>5. q[After(n, i - 1)] \in Proc \ {p, nx[h]} BY <3>1, <3>3, <1>1, <1>4
    <3> QED BY <3>1, <3>2, <3>4, <3>5, <1>1, <1>5
  <2> QED BY <2>1, <2>2, <2>3
<1>7. h = r[1] BY <1>1, <1>3
<1>8. Ring(r, h, nx2, pv2) BY <1>2, <1>3, <1>6, <1>7 DEF Ring
<1> QED BY <1>8 DEF r, nx2, pv2

\* LinkBack
LEMMA BackRing ==
  ASSUME NEW nx \in [Proc -> Link], NEW pv \in [Proc -> Link], NEW q, NEW h,
         Ring(q, h, nx, pv), q # << >>, NEW p \in Proc, p \notin Members(q)
  PROVE  Ring(AddBack(q, p), h, [nx EXCEPT ![pv[h]] = p, ![p] = h],
                                [pv EXCEPT ![p] = pv[h], ![h] = p])
<1> DEFINE n == Len(q)
           r == AddBack(q, p)
           nx2 == [nx EXCEPT ![pv[h]] = p, ![p] = h]
           pv2 == [pv EXCEPT ![p] = pv[h], ![h] = p]
<1>1. /\ n \in Nat \ {0} /\ DOMAIN q = 1..n /\ h = q[1]
      /\ \A i \in 1..n : q[i] \in Proc /\ q[i] # p
      /\ \A i, j \in 1..n : q[i] = q[j] => i = j
      /\ \A i \in 1..n : /\ After(n, i) \in 1..n
                         /\ nx[q[i]] = q[After(n, i)] /\ pv[q[After(n, i)]] = q[i]
  BY RingPlaces DEF Members
<1>2. r \in Seq(Proc) /\ NoDuplicates(r) /\ r # << >> BY AddBackLemma DEF Ring
<1>3. Len(r) = n + 1 /\ \A i \in 1..n + 1 : r[i] = IF i = n + 1 THEN p ELSE q[i]
  BY DEF AddBack, Ring
<1> HIDE DEF n, r
<1>4. After(n, n) = 1 /\ n \in 1..n BY <1>1 DEF After
<1>5. pv[h] = q[n] /\ pv[h] \in Proc /\ h \in Proc /\ h # p /\ pv[h] # p BY <1>1, <1>4
<1>6. /\ nx2[pv[h]] = p /\ nx2[p] = h /\ \A x \in Proc \ {p, pv[h]} : nx2[x] = nx[x]
      /\ pv2[p] = pv[h] /\ pv2[h] = p /\ \A x \in Proc \ {h, p} : pv2[x] = pv[x]
  BY <1>5
<1> HIDE DEF nx2, pv2
<1>7. ASSUME NEW i \in 1..n + 1
      PROVE  nx2[r[i]] = r[After(n + 1, i)] /\ pv2[r[After(n + 1, i)]] = r[i]
  <2>1. CASE i = n + 1
    <3>1. After(n + 1, i) = 1 /\ r[1] = h /\ r[i] = p BY <2>1, <1>1, <1>3 DEF After
    <3> QED BY <3>1, <1>6
  <2>2. CASE i = n
    <3>1. After(n + 1, i) = n + 1 /\ r[n + 1] = p /\ r[i] = q[n]
      BY <2>2, <1>1, <1>3 DEF After
    <3> QED BY <3>1, <1>5, <1>6
  <2>3. CASE i \notin {n, n + 1}
    <3>1. i \in 1..n /\ i # n /\ r[i] = q[i] /\ n \in 1..n BY <2>3, <1>1, <1>3
    <3>2. After(n + 1, i) = i + 1 /\ After(n, i) = i + 1 /\ i + 1 \in 1..n /\ i + 1 # 1
      BY <3>1, <1>1 DEF After
    <3>3. r[i + 1] = q[i + 1] BY <3>2, <1>1, <1>3
    <3>4. q[i] \in Proc \ {p, pv[h]} BY <3>1, <1>1, <1>5
    <3>5. q[i + 1] \in Proc \ {p, h} BY <3>2, <1>1
    <3> QED BY <3>1, <3>2, <3>3, <3>4, <3>5, <1>1, <1>6
  <2> QED BY <2>1, <2>2, <2>3
<1>8. h = r[1] BY <1>1, <1>3
<1>9. Ring(r, h, nx2, pv2) BY <1>2, <1>3, <1>7, <1>8 DEF Ring
<1> QED BY <1>9 DEF r, nx2, pv2

\* UnlinkLast: a record linked to itself is the only one.
LEMMA OnlyOne ==
  ASSUME NEW q, NEW h, NEW nx, NEW pv, Ring(q, h, nx, pv), NEW k \in 1..Len(q)
  PROVE  nx[q[k]] = q[k] <=> Len(q) = 1
<1> DEFINE n == Len(q)
<1>1. q # << >> OBVIOUS
<1>2. /\ n \in Nat \ {0} /\ k \in 1..n
      /\ \A i, j \in 1..n : q[i] = q[j] => i = j
      /\ After(n, k) \in 1..n /\ nx[q[k]] = q[After(n, k)]
  BY <1>1, RingPlaces
<1> HIDE DEF n
<1>3. nx[q[k]] = q[k] <=> After(n, k) = k BY <1>2
<1>4. After(n, k) = k <=> n = 1 BY <1>2 DEF After
<1> QED BY <1>3, <1>4 DEF n

\* UnlinkOne
LEMMA UnlinkRing ==
  ASSUME NEW nx \in [Proc -> Link], NEW pv \in [Proc -> Link], NEW q, NEW h,
         Ring(q, h, nx, pv), NEW p \in Members(q), nx[p] # p
  PROVE  Ring(Remove(q, p), nx[p], [nx EXCEPT ![pv[p]] = nx[p]], [pv EXCEPT ![nx[p]] = pv[p]])
<1> DEFINE n == Len(q)
           k == PlaceOf(q, p)
           r == Remove(q, p)
           nx2 == [nx EXCEPT ![pv[p]] = nx[p]]
           pv2 == [pv EXCEPT ![nx[p]] = pv[p]]
<1>1. q \in Seq(Proc) /\ NoDuplicates(q) /\ k \in 1..Len(q) /\ q[k] = p
  BY PlaceOfLemma DEF Ring
<1>2. q # << >> BY <1>1
<1>3. /\ n \in Nat \ {0} /\ k \in 1..n
      /\ \A i \in 1..n : q[i] \in Proc
      /\ \A i, j \in 1..n : q[i] = q[j] => i = j
      /\ \A i \in 1..n : /\ After(n, i) \in 1..n
                         /\ nx[q[i]] = q[After(n, i)] /\ pv[q[After(n, i)]] = q[i]
  BY <1>1, <1>2, RingPlaces
<1>4. NoDuplicates(r) BY <1>1, RemoveLemma
<1>5. /\ r \in Seq(Proc) /\ Len(r) = n - 1
      /\ \A j \in 1..n - 1 : r[j] = IF j <= n - k THEN q[j + k] ELSE q[j - (n - k)]
  BY <1>1, RemovePlaces DEF Remove
<1>6. n # 1 BY <1>1, OnlyOne
<1> HIDE DEF n, k, r
\* The places in q of the record before p and of those of r.
<1> DEFINE l == IF k = 1 THEN n ELSE k - 1
           at(j) == IF j <= n - k THEN j + k ELSE j - (n - k)
<1>7. l \in 1..n /\ l # k /\ After(n, l) = k /\ After(n, k) # k /\ l = at(n - 1) /\ After(n, k) = at(1)
  BY <1>3, <1>6 DEF After
<1>8. \A j \in 1..n - 1 : at(j) \in 1..n /\ r[j] = q[at(j)] BY <1>3, <1>5

<1>9. \A j \in 1..n - 1 : j # n - 1 => at(j) # l /\ After(n, at(j)) = at(j + 1) /\ at(j + 1) # at(1)
  BY <1>3, <1>6 DEF After
<1>10. 1 \in 1..n - 1 /\ n - 1 \in 1..n - 1 BY <1>3, <1>6
<1>18. q[k] = p BY <1>1 DEF k
<1>11. nx[p] = q[at(1)] /\ nx[p] = r[1]
  <2>1. nx[q[k]] = q[After(n, k)] BY <1>3
  <2> HIDE DEF l, at
  <2> QED BY <2>1, <1>7, <1>8, <1>10, <1>18
<1>12. pv[p] = q[l] /\ pv[p] = r[n - 1]
  <2>1. pv[q[After(n, l)]] = q[l] BY <1>3, <1>7
  <2> HIDE DEF l, at
  <2> QED BY <2>1, <1>1, <1>7, <1>8, <1>10 DEF k
<1> HIDE DEF l, at
<1>13. nx[p] \in Proc /\ pv[p] \in Proc BY <1>3, <1>7, <1>8, <1>10, <1>11, <1>12
<1>14. /\ nx2[pv[p]] = nx[p] /\ \A x \in Proc \ {pv[p]} : nx2[x] = nx[x]
       /\ pv2[nx[p]] = pv[p] /\ \A x \in Proc \ {nx[p]} : pv2[x] = pv[x]
  BY <1>13
<1> HIDE DEF nx2, pv2
<1>15. ASSUME NEW j \in 1..n - 1
       PROVE  nx2[r[j]] = r[After(n - 1, j)] /\ pv2[r[After(n - 1, j)]] = r[j]
  <2>1. CASE j = n - 1
    <3>1. After(n - 1, j) = 1 BY <2>1 DEF After
    <3> QED BY <3>1, <2>1, <1>11, <1>12, <1>14
  <2>2. CASE j # n - 1
    <3>1. After(n - 1, j) = j + 1 /\ j + 1 \in 1..n - 1 BY <2>2, <1>3 DEF After
    <3>2. r[j] = q[at(j)] /\ r[j + 1] = q[at(j + 1)] /\ at(j) \in 1..n /\ at(j + 1) \in 1..n
      BY <3>1, <1>8
    <3>3. at(j) # l /\ After(n, at(j)) = at(j + 1) /\ at(j + 1) # at(1) BY <2>2, <1>9
    <3>7. at(1) \in 1..n /\ l \in 1..n BY <1>7, <1>8, <1>10
    <3>4. r[j] \in Proc \ {pv[p]}
      <4>1. q[at(j)] # q[l] BY <3>2, <3>3, <3>7, <1>3
      <4> QED BY <4>1, <3>2, <1>3, <1>12
    <3>5. r[j + 1] \in Proc \ {nx[p]}
      <4>1. q[at(j + 1)] # q[at(1)] BY <3>2, <3>3, <3>7, <1>3
      <4> QED BY <4>1, <3>2, <1>3, <1>11
    <3>6. nx[r[j]] = r[j + 1] /\ pv[r[j + 1]] = r[j] BY <3>2, <3>3, <1>3
    <3> QED BY <3>1, <3>4, <3>5, <3>6, <1>14
  <2> QED BY <2>1, <2>2
<1>16. r # << >> BY <1>3, <1>5, <1>6
<1>17. Ring(r, nx[p], nx2, pv2) BY <1>4, <1>5, <1>11, <1>15, <1>16 DEF Ring
<1> QED BY <1>17 DEF r, nx2, pv2

\* The ring entered at another place.
LEMMA TurnedRing ==
  ASSUME NEW q, NEW h, NEW nx, NEW pv, Ring(q, h, nx, pv), NEW k \in 1..Len(q)
  PROVE  /\ Ring(TurnTo(q, k), q[k], nx, pv)
         /\ Members(TurnTo(q, k)) = Members(q)
<1> DEFINE n == Len(q)
           r == TurnTo(q, k)
<1>1. q \in Seq(Proc) /\ q # << >> BY DEF Ring
<1>2. /\ n \in Nat \ {0} /\ k \in 1..n /\ DOMAIN q = 1..n
      /\ \A i \in 1..n : q[i] \in Proc
      /\ \A i, j \in 1..n : q[i] = q[j] => i = j
      /\ \A i \in 1..n : /\ After(n, i) \in 1..n
                         /\ nx[q[i]] = q[After(n, i)] /\ pv[q[After(n, i)]] = q[i]
  BY <1>1, RingPlaces
<1>3. /\ r \in Seq(Proc) /\ Len(r) = n
      /\ \A j \in 1..n : r[j] = IF j <= n - k + 1 THEN q[j + k - 1] ELSE q[j - (n - k + 1)]
  BY <1>1, TurnToPlaces
<1> HIDE DEF n, r
<1> DEFINE at(j) == IF j <= n - k + 1 THEN j + k - 1 ELSE j - (n - k + 1)
<1>4. DOMAIN r = 1..n /\ \A j \in 1..n : at(j) \in 1..n /\ r[j] = q[at(j)]
  BY <1>2, <1>3, LenProperties, SMTT(30)
<1>0. n \in Nat \ {0} /\ k \in 1..n BY <1>2
<1>5. \A i, j \in 1..n : at(i) = at(j) => i = j BY <1>0
<1>6. \A j \in 1..n : After(n, at(j)) = at(After(n, j)) BY <1>0 DEF After
<1>7. at(1) = k /\ 1 \in 1..n BY <1>0
<1>8. ASSUME NEW i \in 1..n PROVE \E j \in 1..n : at(j) = i
  <2>1. CASE i >= k
    <3>1. i - k + 1 \in 1..n /\ at(i - k + 1) = i BY <2>1, <1>0
    <3> QED BY <3>1
  <2>2. CASE i < k
    <3>1. i + (n - k + 1) \in 1..n /\ at(i + (n - k + 1)) = i BY <2>2, <1>0
    <3> QED BY <3>1
  <2> QED BY <2>1, <2>2, <1>2
<1> HIDE DEF at
<1>9. NoDuplicates(r)
  <2>1. ASSUME NEW i \in 1..n, NEW j \in 1..n, r[i] = r[j] PROVE i = j
    <3>1. q[at(i)] = q[at(j)] /\ at(i) \in 1..n /\ at(j) \in 1..n BY <2>1, <1>4
    <3>2. at(i) = at(j) BY <3>1, <1>2
    <3> QED BY <3>2, <1>5
  <2> QED BY <2>1, <1>4 DEF NoDuplicates
<1>10. Members(r) = Members(q)
  <2>1. ASSUME NEW x \in Members(r) PROVE x \in Members(q)
    <3>1. PICK j \in 1..n : r[j] = x BY <1>4 DEF Members
    <3>2. at(j) \in 1..n /\ q[at(j)] = x BY <3>1, <1>4
    <3> QED BY <3>2, <1>2 DEF Members
  <2>2. ASSUME NEW x \in Members(q) PROVE x \in Members(r)
    <3>1. PICK i \in 1..n : q[i] = x BY <1>2 DEF Members
    <3>2. PICK j \in 1..n : at(j) = i BY <1>8
    <3>3. r[j] = x BY <3>1, <3>2, <1>4
    <3> QED BY <3>3, <1>4 DEF Members
  <2> QED BY <2>1, <2>2
<1>11. ASSUME NEW j \in 1..n PROVE nx[r[j]] = r[After(n, j)] /\ pv[r[After(n, j)]] = r[j]
  <2>1. After(n, j) \in 1..n BY <1>2
  <2>2. r[j] = q[at(j)] /\ at(j) \in 1..n BY <1>4
  <2>3. r[After(n, j)] = q[After(n, at(j))] BY <2>1, <1>4, <1>6
  <2>4. nx[q[at(j)]] = q[After(n, at(j))] /\ pv[q[After(n, at(j))]] = q[at(j)] BY <2>2, <1>2
  <2> QED BY <2>2, <2>3, <2>4
<1>12. r # << >> /\ r[1] = q[k] BY <1>2, <1>3, <1>4, <1>7
<1>13. Ring(r, q[k], nx, pv) BY <1>3, <1>9, <1>11, <1>12 DEF Ring
<1> QED BY <1>10, <1>13 DEF r

\* A pause turns the ring to its second place.
LEMMA RotateTurns ==
  ASSUME NEW q \in Seq(Proc), q # << >>
  PROVE  Rotate(q) = TurnTo(q, After(Len(q), 1))
<1> DEFINE n == Len(q)
           r == Rotate(q)
           k == After(n, 1)
           s == TurnTo(q, k)
<1>1. n \in Nat \ {0} BY LenProperties
<1>2. r \in Seq(Proc) /\ Len(r) = n /\ \A i \in 1..n : r[i] = IF i = n THEN q[1] ELSE q[i + 1]
  BY DEF Rotate
<1>3. k \in 1..n
  <2> HIDE DEF n
  <2> QED BY <1>1 DEF After
<1>4. /\ s \in Seq(Proc) /\ Len(s) = n
      /\ \A j \in 1..n : s[j] = IF j <= n - k + 1 THEN q[j + k - 1] ELSE q[j - (n - k + 1)]
  BY <1>3, TurnToPlaces
<1> HIDE DEF n, r, s
<1>5. ASSUME NEW j \in 1..n PROVE r[j] = s[j]
  <2>1. CASE n = 1
    <3>1. j = 1 /\ k = 1 BY <2>1 DEF After
    <3> QED BY <3>1, <2>1, <1>2, <1>4
  <2>2. CASE n # 1
    <3>1. k = 2 BY <2>2, <1>1 DEF After
    <3>2. j <= n - k + 1 <=> j # n BY <3>1, <1>1
    <3>3. j + k - 1 = j + 1 /\ (j = n => j - (n - k + 1) = 1) BY <3>1, <1>1
    <3> QED BY <3>2, <3>3, <1>2, <1>4
  <2> QED BY <2>1, <2>2
<1>6. r = [i \in 1..n |-> r[i]] /\ s = [i \in 1..n |-> s[i]] BY <1>1, <1>2, <1>4, LenProperties
<1>7. r = s BY <1>5, <1>6
<1> QED BY <1>7 DEF r, s, n

-----------------------------------------------------------------------------
(***************************************************************************)
(* The invariant: the walk is a ring, of the runnable processes.  That     *)
(* there is a ring would do, but the links have only one from run_q on.    *)
(***************************************************************************)
\* The walk after a step.
LEMMA WalkIsRingNext == RingIsWalk'
  BY WalkIsRing, PTL

RingInv == TypeOK /\ Linked

LEMMA InitRing == Init => RingInv /\ Walk = << >>
<1> SUFFICES ASSUME Init PROVE RingInv /\ Walk = << >> OBVIOUS
<1>1. Ring(<< >>, run_q, pnext, pprev) BY DEF Init, Ring, NoDuplicates
<1>2. Members(<< >>) = runnable BY DEF Init, Members
<1>3. Walk = << >> BY <1>1, <1>2, WalkIsRing DEF RingIsWalk
<1>4. TypeOK BY DEF Init, TypeOK, Link
<1> QED BY <1>1, <1>2, <1>3, <1>4 DEF RingInv, Linked

\* A step leaves the variables as they are, or does what one of RunQueue does.
StepIsSound ==
  /\ RingInv'
  /\ \/ \E p \in Proc :
          \/ p \notin Members(Walk) /\ Walk' \in {AddFront(Walk, p), AddBack(Walk, p)}
          \/ p \in Members(Walk) /\ Walk' \in {Remove(Walk, p), TurnTo(Walk, PlaceOf(Walk, p))}
     \/ Walk # << >> /\ Walk' = Rotate(Walk)

\* It is enough to know the ring after the step.
LEMMA NewRing ==
  ASSUME NEW r, Ring(r, run_q', pnext', pprev'), Members(r) = runnable', TypeOK'
  PROVE  RingInv' /\ Walk' = r
<1>1. Walk' = r BY WalkIsRingNext DEF RingIsWalk
<1> QED BY <1>1 DEF RingInv, Linked

LEMMA AddStep ==
  ASSUME RingInv, NEW p \in Proc, NEW front \in BOOLEAN, add_to_run_q(p, front)
  PROVE  StepIsSound
<1> DEFINE q == Walk
<1>1. Ring(q, run_q, pnext, pprev) /\ Members(q) = runnable /\ p \notin Members(q)
  BY DEF RingInv, Linked, add_to_run_q
<1>2. /\ run_q \in Link /\ pnext \in [Proc -> Link] /\ pprev \in [Proc -> Link]
      /\ runnable \subseteq Proc /\ runnable' = runnable \cup {p} /\ p \in Link
  BY DEF RingInv, TypeOK, Link, add_to_run_q
<1>3. q = << >> <=> run_q = Nil
  <2>1. q # << >> => run_q \in Proc BY <1>1, RingPlaces
  <2> QED BY <1>1, <2>1, ProcAssumption DEF Ring
<1>4. q \in Seq(Proc) /\ NoDuplicates(q) BY <1>1 DEF Ring
<1> HIDE DEF q
<1>5. CASE AddAlone(p)
  <2>1. q = << >> /\ AddBack(q, p) = << p >> BY <1>3, <1>5 DEF AddAlone, AddBack
  <2>2. Ring(<< p >>, run_q', pnext', pprev') BY <1>2, <1>5, AloneRing DEF AddAlone
  <2>3. TypeOK' BY <1>2, <1>5 DEF AddAlone, TypeOK
  <2>4. Members(AddBack(q, p)) = runnable' BY <1>1, <1>2, <1>4, AddBackLemma
  <2>6. Members(<< p >>) = runnable' BY <2>1, <2>4, Zenon
  <2>5. RingInv' /\ Walk' = << p >> BY <2>2, <2>3, <2>6, NewRing
  <2> QED BY <2>1, <2>5, <1>1 DEF StepIsSound, q
<1>6. CASE front /\ LinkFront(p)
  <2>1. q # << >> BY <1>3, <1>6 DEF LinkFront
  <2>2. Ring(AddFront(q, p), run_q', pnext', pprev')
    BY <2>1, <1>1, <1>2, <1>6, FrontRing DEF LinkFront
  <2>3. run_q \in Proc /\ pnext[run_q] \in Link BY <2>1, <1>1, <1>2, RingPlaces
  <2>4. TypeOK' BY <2>3, <1>2, <1>6 DEF LinkFront, TypeOK
  <2>5. Members(AddFront(q, p)) = runnable' BY <1>1, <1>2, <1>4, AddFrontLemma
  <2>6. RingInv' /\ Walk' = AddFront(q, p) BY <2>2, <2>4, <2>5, NewRing
  <2> QED BY <2>6, <1>1 DEF StepIsSound, q
<1>7. CASE ~front /\ LinkBack(p)
  <2>1. q # << >> BY <1>3, <1>7 DEF LinkBack
  <2>2. Ring(AddBack(q, p), run_q', pnext', pprev')
    BY <2>1, <1>1, <1>2, <1>7, BackRing DEF LinkBack
  <2>3. run_q \in Proc /\ pprev[run_q] \in Link BY <2>1, <1>1, <1>2, RingPlaces
  <2>4. TypeOK' BY <2>3, <1>2, <1>7 DEF LinkBack, TypeOK
  <2>5. Members(AddBack(q, p)) = runnable' BY <1>1, <1>2, <1>4, AddBackLemma
  <2>6. RingInv' /\ Walk' = AddBack(q, p) BY <2>2, <2>4, <2>5, NewRing
  <2> QED BY <2>6, <1>1 DEF StepIsSound, q
<1> QED BY <1>5, <1>6, <1>7 DEF add_to_run_q

LEMMA RemoveStep ==
  ASSUME RingInv, NEW p \in Proc, remove_from_run_q(p)
  PROVE  StepIsSound
<1> DEFINE q == Walk
<1>1. Ring(q, run_q, pnext, pprev) /\ Members(q) = runnable /\ p \in Members(q)
  BY DEF RingInv, Linked, remove_from_run_q
<1>2. /\ run_q \in Link /\ pnext \in [Proc -> Link] /\ pprev \in [Proc -> Link]
      /\ runnable \subseteq Proc /\ runnable' = runnable \ {p}
  BY DEF RingInv, TypeOK, remove_from_run_q
<1>3. q \in Seq(Proc) /\ NoDuplicates(q) BY <1>1 DEF Ring
<1> HIDE DEF q
<1>4. Members(Remove(q, p)) = runnable' BY <1>1, <1>2, <1>3, RemoveLemma
<1>5. CASE UnlinkOne(p)
  <2>1. Ring(Remove(q, p), run_q', pnext', pprev') BY <1>1, <1>2, <1>5, UnlinkRing DEF UnlinkOne
  <2>2. pnext[p] \in Link /\ pprev[p] \in Link BY <1>2
  <2>3. TypeOK' BY <2>2, <1>2, <1>5 DEF UnlinkOne, TypeOK
  <2>4. RingInv' /\ Walk' = Remove(q, p) BY <2>1, <2>3, <1>4, NewRing
  <2> QED BY <2>4, <1>1 DEF StepIsSound, q
<1>6. CASE UnlinkLast(p)
  <2> DEFINE k == PlaceOf(q, p)
             r == Remove(q, p)
  <2>1. k \in 1..Len(q) /\ q[k] = p BY <1>1, <1>3, PlaceOfLemma
  <2> HIDE DEF k
  <2>2. Len(q) = 1 BY <2>1, <1>1, <1>6, OnlyOne DEF UnlinkLast
  <2>3. r \in Seq(Proc) /\ Len(r) = Len(q) - 1 BY <2>1, <1>3, RemovePlaces DEF Remove, k
  <2> HIDE DEF r
  <2>4. r = << >> BY <2>2, <2>3, EmptySeq
  <2>5. Ring(<< >>, run_q', pnext', pprev') BY <1>6 DEF UnlinkLast, Ring, NoDuplicates
  <2>6. Nil \in Link BY DEF Link
  <2>7. TypeOK' BY <2>6, <1>2, <1>6 DEF UnlinkLast, TypeOK
  <2>8. RingInv' /\ Walk' = r BY <2>4, <2>5, <2>7, <1>4, NewRing DEF r
  <2> QED BY <2>8, <1>1 DEF StepIsSound, q, r
<1> QED BY <1>5, <1>6 DEF remove_from_run_q

LEMMA PauseStep ==
  ASSUME RingInv, ps_pause PROVE StepIsSound
<1> DEFINE q == Walk
<1>1. Ring(q, run_q, pnext, pprev) /\ Members(q) = runnable /\ q # << >>
  BY DEF RingInv, Linked, ps_pause, Ring
<1> HIDE DEF q
<1> DEFINE k == After(Len(q), 1)
<1>2. q \in Seq(Proc) /\ Len(q) \in Nat \ {0} /\ k \in 1..Len(q) /\ pnext[run_q] = q[k] /\ q[k] \in Proc
  BY <1>1, RingPlaces DEF Ring
<1>3. Rotate(q) = TurnTo(q, k) BY <1>1, <1>2, RotateTurns
<1> HIDE DEF k
<1>4. Ring(Rotate(q), q[k], pnext, pprev) /\ Members(Rotate(q)) = Members(q)
  BY <1>1, <1>2, <1>3, TurnedRing
<1>5. Ring(Rotate(q), run_q', pnext', pprev') /\ Members(Rotate(q)) = runnable'
  BY <1>1, <1>2, <1>4 DEF ps_pause
<1>6. TypeOK' BY <1>2 DEF RingInv, TypeOK, ps_pause, Link
<1>7. RingInv' /\ Walk' = Rotate(q) BY <1>5, <1>6, NewRing
<1> QED BY <1>7, <1>1 DEF StepIsSound, q

LEMMA SwitchStep ==
  ASSUME RingInv, NEW p \in Proc, ps_switch(p) PROVE StepIsSound
<1>1. CASE add_to_run_q(p, TRUE) BY <1>1, AddStep
<1>2. CASE p \in runnable /\ run_q' = p /\ UNCHANGED << pnext, pprev, runnable >>
  <2> DEFINE q == Walk
             k == PlaceOf(q, p)
  <2>1. Ring(q, run_q, pnext, pprev) /\ Members(q) = runnable /\ p \in Members(q)
    BY <1>2 DEF RingInv, Linked
  <2>2. k \in 1..Len(q) /\ q[k] = p BY <2>1, PlaceOfLemma DEF Ring
  <2> HIDE DEF q, k
  <2>3. Ring(TurnTo(q, k), p, pnext, pprev) /\ Members(TurnTo(q, k)) = Members(q)
    BY <2>1, <2>2, TurnedRing
  <2>4. Ring(TurnTo(q, k), run_q', pnext', pprev') /\ Members(TurnTo(q, k)) = runnable'
    BY <2>1, <2>3, <1>2
  <2>5. TypeOK' BY <1>2 DEF RingInv, TypeOK, Link
  <2>6. RingInv' /\ Walk' = TurnTo(q, k) BY <2>4, <2>5, NewRing
  <2> QED BY <2>6, <2>1 DEF StepIsSound, q, k
<1> QED BY <1>1, <1>2 DEF ps_switch

LEMMA NextIsSound == RingInv /\ Next => StepIsSound
<1> SUFFICES ASSUME RingInv, Next PROVE StepIsSound OBVIOUS
<1>1. CASE \E p \in Proc : add_to_run_q(p, FALSE) BY <1>1, AddStep
<1>2. CASE \E p \in Proc : remove_from_run_q(p) BY <1>2, RemoveStep
<1>3. CASE \E p \in Proc : ps_switch(p) BY <1>3, SwitchStep
<1>4. CASE ps_pause BY <1>4, PauseStep
<1> QED BY <1>1, <1>2, <1>3, <1>4 DEF Next

\* A step of nobody.
LEMMA StutterKeepsRing == RingInv /\ UNCHANGED vars => RingInv' /\ Walk' = Walk
<1> SUFFICES ASSUME RingInv, UNCHANGED vars PROVE RingInv' /\ Walk' = Walk OBVIOUS
<1>1. Ring(Walk, run_q', pnext', pprev') /\ Members(Walk) = runnable' /\ TypeOK'
  BY DEF RingInv, Linked, TypeOK, vars
<1> QED BY <1>1, NewRing

(***************************************************************************)
(* The links of the ring undo each other, and verifyRunQ never finds       *)
(* anything to complain of.                                                *)
(***************************************************************************)
LEMMA RingInvariant == Spec => []RingInv
<1>1. RingInv /\ [Next]_vars => RingInv'
  BY NextIsSound, StutterKeepsRing DEF StepIsSound
<1> QED BY InitRing, <1>1, PTL DEF Spec

LEMMA RingInvIsSound == RingInv => RingIsSound
<1> SUFFICES ASSUME RingInv PROVE RingIsSound OBVIOUS
<1> DEFINE q == Walk
           n == Len(q)
<1>1. Ring(q, run_q, pnext, pprev) /\ Members(q) = runnable BY DEF RingInv, Linked
<1>2. n \in Nat /\ DOMAIN q = 1..n /\ Cardinality(runnable) = n
  BY <1>1, LenIsCardinality, LenProperties DEF Ring
<1>3. CASE q = << >>
  <2>1. runnable = {} BY <1>1, <1>3 DEF Members
  <2>2. run_q = Nil BY <1>1, <1>3 DEF Ring
  <2> QED BY <2>1, <2>2 DEF RingIsSound, LinksAgree, WalkIsRunnable
<1>4. CASE q # << >>
  <2> HIDE DEF q
  <2>1. /\ n # 0 /\ run_q = q[1]
        /\ \A i \in 1..n : q[i] \in Proc
        /\ \A i \in 1..n : /\ After(n, i) \in 1..n
                           /\ pnext[q[i]] = q[After(n, i)] /\ pprev[q[After(n, i)]] = q[i]
    BY <1>1, <1>4, RingPlaces
  <2> HIDE DEF n
  <2>2. runnable = {q[i] : i \in 1..n} BY <1>1, <1>2 DEF Members
  <2>3. ASSUME NEW p \in runnable
        PROVE  /\ pnext[p] \in runnable /\ pprev[pnext[p]] = p
               /\ pprev[p] \in runnable /\ pnext[pprev[p]] = p
    <3>1. PICK i \in 1..n : q[i] = p BY <2>2
    <3>2. pnext[p] \in runnable /\ pprev[pnext[p]] = p BY <3>1, <2>1, <2>2
    <3> DEFINE l == IF i = 1 THEN n ELSE i - 1
    <3>3. l \in 1..n /\ After(n, l) = i BY <1>2, <2>1 DEF After
    <3>4. pprev[p] = q[l] /\ pnext[q[l]] = p BY <3>1, <3>3, <2>1
    <3> QED BY <3>2, <3>3, <3>4, <2>2
  <2>4. runnable # {} /\ run_q \in Proc BY <1>2, <2>1, <2>2
  <2>5. After(n, n) = 1 /\ n \in 1..n BY <1>2, <2>1 DEF After
  <2>6. pnext[q[n]] = run_q BY <2>1, <2>5
  <2>7. WalkIsRunnable BY <2>2, <2>4, <2>6, <1>2, ProcAssumption DEF WalkIsRunnable, q
  <2> QED BY <2>3, <2>7 DEF RingIsSound, LinksAgree
<1> QED BY <1>3, <1>4

\* However add_to_run_q, remove_from_run_q, ps_pause and ps_switch follow each other: the
\* list holds the runnable processes, each once, and its two directions agree.
THEOREM RingCorrect == Spec => []RingIsSound
  BY RingInvariant, RingInvIsSound, PTL

(***************************************************************************)
(* Each function that relinks the ring does to the sequence of its         *)
(* processes what RunQueue says it does.                                   *)
(***************************************************************************)
LEMMA InitImplements == Init => RQ!Init
  BY InitRing DEF RQ!Init

LEMMA StepImplements == RingInv /\ [Next]_vars => [RQ!Next]_Walk
<1>1. CASE RingInv /\ Next
  <2>1. StepIsSound BY <1>1, NextIsSound
  <2> QED BY <2>1 DEF StepIsSound, RQ!Next, RQ!EnterFront, RQ!EnterBack, RQ!Leave, RQ!SwitchTo, RQ!Pause,
     RQ!Members, RQ!AddFront, RQ!AddBack, RQ!Remove, RQ!RemoveAt, RQ!TurnTo, RQ!PlaceOf, RQ!Rotate,
     Members, AddFront, AddBack, Remove, RemoveAt, TurnTo, PlaceOf, Rotate
<1>2. CASE RingInv /\ UNCHANGED vars BY <1>2, StutterKeepsRing
<1> QED BY <1>1, <1>2

\* Each function of schedule.c that relinks the ring enters, leaves or turns the sequence
\* of its processes in the way that RunQueue promises.
THEOREM RingImplementsRunQueue == Spec => ImplementsRunQueue
  BY RingInvariant, InitImplements, StepImplements, PTL DEF Spec, ImplementsRunQueue, RQ!Spec
=============================================================================
