------------------------- MODULE ClickCountersProofs -------------------------
(***************************************************************************)
(* Click counters, for any number of processes and counters and any width  *)
(* of the machine word: no click is made or lost, and no user is left on a *)
(* counter that is spent.                                                  *)
(***************************************************************************)
EXTENDS ClickCounters, DataInduction, SequenceTheorems

-----------------------------------------------------------------------------
(***************************************************************************)
(* Sums.  FoldFunction adds up the values of a function one index after    *)
(* another, in an order of its own; what is to be known of it is that      *)
(* changing one value changes the sum as much.                             *)
(***************************************************************************)
First(s) == CHOOSE x \in s : TRUE

\* g[t] is the sum of f over t, for each subset t of s.
Sums(g, f, s) == g = [t \in SUBSET s |-> IF t = {} THEN 0 ELSE f[First(t)] + g[t \ {First(t)}]]

LEMMA FirstIsIn == ASSUME NEW s, s # {} PROVE First(s) \in s
  BY DEF First

\* The defining equation, for one subset.
LEMMA SumsAt ==
  ASSUME NEW f, NEW g, NEW s, Sums(g, f, s)
  PROVE  \A t \in SUBSET s : /\ t = {} => g[t] = 0
                             /\ t # {} => g[t] = f[First(t)] + g[t \ {First(t)}]
<1> SUFFICES ASSUME NEW t \in SUBSET s
             PROVE  /\ t = {} => g[t] = 0
                    /\ t # {} => g[t] = f[First(t)] + g[t \ {First(t)}]
  OBVIOUS
<1> DEFINE h == [u \in SUBSET s |-> IF u = {} THEN 0 ELSE f[First(u)] + g[u \ {First(u)}]]
<1>1. g = h BY DEF Sums
<1>2. h[t] = IF t = {} THEN 0 ELSE f[First(t)] + g[t \ {First(t)}] OBVIOUS
<1> QED BY <1>1, <1>2

\* Two of them agree where both are defined.
LEMMA SumsAgree ==
  ASSUME NEW f, NEW g, NEW h, NEW s, NEW r, Sums(g, f, s), Sums(h, f, r),
         NEW t \in SUBSET s, t \in SUBSET r, IsFiniteSet(t)
  PROVE  g[t] = h[t]
<1> DEFINE T == {u \in SUBSET t : g[u] # h[u]}
<1> SUFFICES ASSUME T # {} PROVE FALSE OBVIOUS
<1>1. \A u \in T : IsFiniteSet(u) BY FS_Subset
<1> HIDE DEF T
<1>2. PICK u \in T : \A w \in T : w \subseteq u => w = u BY <1>1, LeastSet
<1>3. u \in SUBSET s /\ u \in SUBSET r /\ g[u] # h[u] /\ u \in SUBSET t BY DEF T
<1>4. u # {} BY <1>3, SumsAt
<1> DEFINE w == u \ {First(u)}
<1>5. w \subseteq u /\ w # u /\ w \in SUBSET t BY <1>3, <1>4, FirstIsIn
<1>6. g[w] = h[w] BY <1>2, <1>5 DEF T
<1>7. g[u] = f[First(u)] + g[w] /\ h[u] = f[First(u)] + h[w] BY <1>3, <1>4, SumsAt
<1> QED BY <1>3, <1>6, <1>7

\* There is one for every finite set.
LEMMA SumsExist ==
  ASSUME NEW C, NEW f \in [C -> Int], NEW s \in SUBSET C, IsFiniteSet(s)
  PROVE  \E it : Sums(it, f, s)
<1> DEFINE T == {t \in SUBSET s : ~ \E it : Sums(it, f, t)}
<1> SUFFICES ASSUME T # {} PROVE FALSE OBVIOUS
<1>1. \A t \in T : IsFiniteSet(t) BY FS_Subset
<1> HIDE DEF T
<1>2. PICK t \in T : \A u \in T : u \subseteq t => u = t BY <1>1, LeastSet
<1>3. t \in SUBSET s /\ (~ \E it : Sums(it, f, t)) /\ IsFiniteSet(t) BY <1>1 DEF T
<1> DEFINE G(u) == CHOOSE it : Sums(it, f, u)
<1>4. ASSUME NEW u \in SUBSET t, u # t PROVE Sums(G(u), f, u) /\ IsFiniteSet(u)
  <2>1. \E it : Sums(it, f, u) BY <1>2, <1>3, <1>4 DEF T
  <2> QED BY <2>1, <1>3, FS_Subset
<1> HIDE DEF G
<1> DEFINE val(u) == IF u = {} THEN 0 ELSE f[First(u)] + G(u \ {First(u)})[u \ {First(u)}]
           g == [u \in SUBSET t |-> val(u)]
<1>5. ASSUME NEW u \in SUBSET t
      PROVE  val(u) = IF u = {} THEN 0 ELSE f[First(u)] + g[u \ {First(u)}]
  <2>1. CASE u = {} BY <2>1
  <2>2. CASE u # {}
    <3> DEFINE w == u \ {First(u)}
    <3>1. w \in SUBSET t /\ w # t BY <2>2, FirstIsIn
    <3>2. Sums(G(w), f, w) /\ IsFiniteSet(w) BY <3>1, <1>4
    <3>3. g[w] = val(w) BY <3>1
    <3>4. G(w)[w] = val(w)
      <4>1. CASE w = {} BY <4>1, <3>2, SumsAt
      <4>2. CASE w # {}
        <5> DEFINE y == w \ {First(w)}
        <5>1. G(w)[w] = f[First(w)] + G(w)[y]
          <6>1. w \in SUBSET w OBVIOUS
          <6> HIDE DEF w
          <6> QED BY <6>1, <4>2, <3>2, SumsAt
        <5>2. y \in SUBSET t /\ y # t /\ y \in SUBSET w BY <3>1, <4>2, FirstIsIn
        <5>3. Sums(G(y), f, y) /\ IsFiniteSet(y) BY <5>2, <1>4
        <5>4. y \in SUBSET y OBVIOUS
        <5>5. G(w)[y] = G(y)[y]
          <6> HIDE DEF y, w
          <6> QED BY <5>2, <5>3, <5>4, <3>2, SumsAgree
        <5> QED BY <4>2, <5>1, <5>5
      <4> QED BY <4>1, <4>2
    <3>5. val(u) = f[First(u)] + G(w)[w] BY <2>2
    <3> QED BY <2>2, <3>3, <3>4, <3>5
  <2> QED BY <2>1, <2>2
<1>6. g = [u \in SUBSET t |-> IF u = {} THEN 0 ELSE f[First(u)] + g[u \ {First(u)}]]
  <2> HIDE DEF val
  <2> QED BY <1>5
<1>7. Sums(g, f, t)
  <2> HIDE DEF g
  <2> QED BY <1>6 DEF Sums
<1>8. \E it : Sums(it, f, t) BY <1>7
<1> QED BY <1>3, <1>8

Sum(f) == FoldFunction(+, 0, f)

\* The fold of a function is one of these sums.
LEMMA FoldIsSum ==
  ASSUME NEW C, IsFiniteSet(C), NEW f \in [C -> Int]
  PROVE  \E g : Sums(g, f, C) /\ Sum(f) = g[C]
<1> DEFINE g == CHOOSE it : it = [s \in SUBSET C |-> IF s = {} THEN 0
                 ELSE f[CHOOSE x \in s : TRUE] + it[s \ {CHOOSE x \in s : TRUE}]]
<1>1. DOMAIN f = C OBVIOUS
<1>2. Sum(f) = g[C]
  BY <1>1 DEF Sum, FoldFunction, FoldFunctionOnSet, MapThenFoldSet
<1>3. g = CHOOSE it : Sums(it, f, C) BY DEF Sums, First
<1>4. \E it : Sums(it, f, C) BY SumsExist
<1> HIDE DEF g
<1>5. Sums(g, f, C) BY <1>3, <1>4
<1> QED BY <1>2, <1>5

\* What changes one value changes the sum as much.
LEMMA SumUpdate ==
  ASSUME NEW C, IsFiniteSet(C), NEW f \in [C -> Int], NEW c \in C, NEW v \in Int
  PROVE  /\ Sum(f) \in Int
         /\ Sum([f EXCEPT ![c] = v]) = Sum(f) - f[c] + v
<1> DEFINE e == [f EXCEPT ![c] = v]
<1>1. /\ e \in [C -> Int] /\ e[c] = v /\ \A x \in C \ {c} : e[x] = f[x]
      /\ f[c] \in Int /\ \A x \in C : f[x] \in Int
  OBVIOUS
<1> HIDE DEF e
<1>2. PICK g : Sums(g, f, C) /\ Sum(f) = g[C] BY FoldIsSum
<1>3. PICK h : Sums(h, e, C) /\ Sum(e) = h[C] BY <1>1, FoldIsSum
<1> DEFINE Good(s) == g[s] \in Int /\ h[s] = IF c \in s THEN g[s] - f[c] + v ELSE g[s]
           T == {s \in SUBSET C : ~ Good(s)}
<1>4. T = {}
  <2> SUFFICES ASSUME T # {} PROVE FALSE OBVIOUS
  <2>1. \A s \in T : IsFiniteSet(s) BY FS_Subset
  <2> HIDE DEF T
  <2>2. PICK s \in T : \A r \in T : r \subseteq s => r = s BY <2>1, LeastSet
  <2>3. s \in SUBSET C /\ ~ Good(s) BY DEF T
  <2>4. s # {}
    <3>1. s = {} => g[s] = 0 /\ h[s] = 0 BY <2>3, <1>2, <1>3, SumsAt, SMTT(30)
    <3> QED BY <3>1, <2>3
  <2> DEFINE x == First(s)
             r == s \ {x}
  <2>5. x \in s /\ x \in C /\ r \in SUBSET C /\ r # s /\ r \subseteq s BY <2>3, <2>4, FirstIsIn
  <2>11. s \in SUBSET C BY <2>3
  <2>6. g[s] = f[x] + g[r] /\ h[s] = e[x] + h[r]
    <3> HIDE DEF Good
    <3>1. g[s] = f[First(s)] + g[s \ {First(s)}] BY <2>11, <2>4, <1>2, SumsAt
    <3>3. \A t \in SUBSET C : t # {} => h[t] = e[First(t)] + h[t \ {First(t)}]
      BY <1>3, SumsAt
    <3>2. h[s] = e[First(s)] + h[s \ {First(s)}] BY <2>11, <2>4, <3>3
    <3> QED BY <3>1, <3>2
  <2>7. c \in r <=> c \in s /\ c # x OBVIOUS
  <2> HIDE DEF x, r, Good
  <2>8. Good(r) BY <2>2, <2>5 DEF T
  <2>9. f[x] \in Int /\ (x # c => e[x] = f[x]) BY <2>5, <1>1
  <2>10. Good(s)
    <3>1. g[r] \in Int /\ h[r] = IF c \in r THEN g[r] - f[c] + v ELSE g[r] BY <2>8 DEF Good
    <3>2. CASE x = c BY <3>1, <3>2, <2>5, <2>6, <2>7, <2>9, <1>1 DEF Good
    <3>3. CASE x # c BY <3>1, <3>3, <2>6, <2>7, <2>9, <1>1 DEF Good
    <3> QED BY <3>2, <3>3
  <2> QED BY <2>3, <2>10
<1>5. Good(C) BY <1>4
<1> QED BY <1>2, <1>3, <1>5 DEF e

-----------------------------------------------------------------------------
(***************************************************************************)
(* The machine word: Wrap brings a number into its range, and changes it   *)
(* by a multiple of its width.                                             *)
(***************************************************************************)
Width == 2 * (Top + 1)
Word == -(Top + 1) .. Top
Multiple(n) == \E k \in Int : n = k * Width

LEMMA WidthType == Top \in Nat \ {0} /\ Width \in Nat \ {0} /\ Word \subseteq Int /\ 0 \in Word /\ Top \in Word
  BY ClickAssumption DEF Width, Word

\* Division with a remainder.
LEMMA Division ==
  ASSUME NEW x \in Int, NEW m \in Nat \ {0}
  PROVE  x % m \in 0..(m - 1) /\ \E k \in Int : x = k * m + (x % m)
<1>1. x % m \in 0..(m - 1) OBVIOUS
<1>2. x = (x \div m) * m + (x % m) /\ x \div m \in Int OBVIOUS
<1> QED BY <1>1, <1>2

LEMMA MultipleIsZero ==
  ASSUME NEW n \in Int PROVE Multiple(n) <=> n % Width = 0
<1>1. Width \in Nat \ {0} BY WidthType
<1>2. n % Width = 0 => Multiple(n)
  <2>1. PICK k \in Int : n = k * Width + (n % Width) BY <1>1, Division
  <2>2. k * Width \in Int BY <1>1
  <2>3. n % Width = 0 => n = k * Width BY <2>1, <2>2
  <2> QED BY <2>3 DEF Multiple
<1>3. ASSUME NEW k \in Int, NEW m \in Nat \ {0} PROVE (k * m) % m = 0 OBVIOUS
<1>4. Multiple(n) => n % Width = 0 BY <1>1, <1>3 DEF Multiple
<1> QED BY <1>2, <1>4

LEMMA MultiplesAdd ==
  ASSUME NEW a \in Int, NEW b \in Int, Multiple(a), Multiple(b)
  PROVE  Multiple(a + b)
<1>1. ASSUME NEW k \in Int, NEW l \in Int, NEW m \in Int
      PROVE  k * m + l * m = (k + l) * m /\ k + l \in Int
  OBVIOUS
<1>2. PICK k \in Int : a = k * Width BY DEF Multiple
<1>3. PICK l \in Int : b = l * Width BY DEF Multiple
<1>4. a + b = (k + l) * Width /\ k + l \in Int BY <1>1, <1>2, <1>3, WidthType
<1> QED BY <1>4 DEF Multiple

LEMMA WrapLemma ==
  ASSUME NEW n \in Int
  PROVE  /\ Wrap(n) \in Word /\ Wrap(n) \in Int
         /\ Multiple(Wrap(n) - n)
         /\ n \in Word => Wrap(n) = n
<1> DEFINE m == n + Top + 1
           r == m % Width
<1>1. Width \in Nat \ {0} /\ Top \in Nat \ {0} /\ m \in Int BY WidthType
<1>2. Wrap(n) = r - (Top + 1) BY DEF Wrap, Width
<1>3. r \in 0..(Width - 1) /\ \E k \in Int : m = k * Width + r BY <1>1, Division
<1>4. n \in Word => r = m
  <2>1. n \in Word => m \in 0..(Width - 1) BY <1>1 DEF Word, Width
  <2>2. ASSUME NEW w \in Nat \ {0}, NEW x \in 0..(w - 1) PROVE x % w = x OBVIOUS
  <2> HIDE DEF m
  <2> QED BY <1>1, <2>1, <2>2
<1> HIDE DEF r
<1>5. Wrap(n) \in Word /\ Wrap(n) \in Int BY <1>1, <1>2, <1>3 DEF Word, Width
<1>6. Multiple(Wrap(n) - n)
  <2>1. PICK k \in Int : m = k * Width + r BY <1>3
  <2>2. k * Width \in Int /\ r \in Int BY <1>1, <1>3
  <2>3. Wrap(n) - n = -(k * Width)
    <3> DEFINE e == k * Width
    <3>1. e \in Int /\ n + Top + 1 = e + r BY <2>1, <2>2
    <3> HIDE DEF e
    <3>2. Wrap(n) - n = -e BY <3>1, <2>2, <1>1, <1>2
    <3> QED BY <3>2 DEF e
  <2>4. ASSUME NEW a \in Int, NEW b \in Int PROVE -(a * b) = (-a) * b OBVIOUS
  <2>5. Wrap(n) - n = (-k) * Width /\ -k \in Int BY <2>3, <2>4, <1>1
  <2> QED BY <2>5 DEF Multiple
<1> QED BY <1>1, <1>2, <1>4, <1>5, <1>6

-----------------------------------------------------------------------------
(***************************************************************************)
(* The sum of the counters after a change.                                 *)
(***************************************************************************)
Counts == [Counter -> Word]

LEMMA CountsSum == ASSUME NEW f \in Counts PROVE f \in [Counter -> Int] /\ Sum(f) \in Int
<1>1. f \in [Counter -> Int] BY WidthType DEF Counts
<1>2. IsFiniteSet(Counter) /\ RootClicks \in Counter BY ClickAssumption
<1> QED BY <1>1, <1>2, SumUpdate

\* A count that is changed by n, up to the width of the word.
LEMMA ChangedCount ==
  ASSUME NEW f \in Counts, NEW c \in Counter, NEW n \in Int
  PROVE  LET g == [f EXCEPT ![c] = Wrap(@ + n)]
         IN  g \in Counts /\ Multiple(Sum(g) - (Sum(f) + n))
<1> DEFINE g == [f EXCEPT ![c] = Wrap(@ + n)]
<1>1. f \in [Counter -> Int] /\ Sum(f) \in Int BY CountsSum
<1>2. f[c] \in Int /\ f[c] + n \in Int BY <1>1
<1>3. /\ Wrap(f[c] + n) \in Word /\ Wrap(f[c] + n) \in Int
      /\ Multiple(Wrap(f[c] + n) - (f[c] + n))
  BY <1>2, WrapLemma
<1> DEFINE v == Wrap(f[c] + n)
<1> HIDE DEF v
<1>4. g = [f EXCEPT ![c] = v] BY <1>1 DEF v
<1>5. g \in Counts BY <1>3, <1>4 DEF Counts, v
<1>6. Sum(g) = Sum(f) - f[c] + v BY <1>1, <1>3, <1>4, ClickAssumption, SumUpdate DEF v
<1>7. Sum(g) - (Sum(f) + n) = v - (f[c] + n)
  <2>1. v \in Int BY <1>3 DEF v
  <2> HIDE DEF g
  <2> QED BY <2>1, <1>1, <1>2, <1>6
<1>8. Multiple(v - (f[c] + n)) BY <1>3 DEF v
<1> HIDE DEF g
<1>9. Multiple(Sum(g) - (Sum(f) + n)) BY <1>7, <1>8
<1> QED BY <1>5, <1>9 DEF g

\* ps_credit_clicks moves clicks: what one counter gets another loses.
LEMMA MovedCounts ==
  ASSUME left \in Counts, NEW to \in Counter, NEW from \in Counter, NEW n \in Int
  PROVE  /\ Moved(to, n, from) \in Counts /\ Multiple(Sum(Moved(to, n, from)) - Sum(left))
         /\ \A c \in Counter \ {to, from} : Moved(to, n, from)[c] = left[c]
<1> DEFINE g == Moved(to, n, from)
<1>1. left \in [Counter -> Int] /\ Sum(left) \in Int BY CountsSum
<1>2. \A c \in Counter : left[c] \in Int /\ Wrap(left[c]) = left[c] BY <1>1, WrapLemma DEF Counts
<1>3. CASE to = from
  <2>1. \A c \in Counter : g[c] = left[c]
    <3> TAKE c \in Counter
    <3>1. left[c] + (IF c = to THEN n ELSE 0) - (IF c = from THEN n ELSE 0) = left[c]
      BY <1>2, <1>3
    <3> QED BY <3>1, <1>2 DEF Moved
  <2>2. g = left BY <2>1, <1>1 DEF Moved
  <2>3. Sum(g) - Sum(left) = 0 * Width BY <2>2, <1>1, WidthType
  <2>4. Multiple(Sum(g) - Sum(left)) BY <2>3 DEF Multiple
  <2> HIDE DEF g
  <2> QED BY <2>2, <2>4 DEF g
<1>4. CASE to # from
  <2> DEFINE f == [left EXCEPT ![to] = Wrap(@ + n)]
             h == [f EXCEPT ![from] = Wrap(@ + (-n))]
  <2>1. f \in Counts /\ Multiple(Sum(f) - (Sum(left) + n)) BY ChangedCount
  <2>8. -n \in Int OBVIOUS
  <2> HIDE DEF f
  <2>2. h \in Counts /\ Multiple(Sum(h) - (Sum(f) + (-n))) BY <2>1, <2>8, ChangedCount
  <2>3. \A c \in Counter : g[c] = h[c]
    <3> TAKE c \in Counter
    <3>1. g[c] = Wrap(left[c] + (IF c = to THEN n ELSE 0) - (IF c = from THEN n ELSE 0))
      BY DEF Moved
    <3>2. f[c] = IF c = to THEN Wrap(left[c] + n) ELSE left[c] BY <1>1 DEF f
    <3>3. h[c] = IF c = from THEN Wrap(f[c] + (-n)) ELSE f[c] BY <2>1 DEF Counts
    <3>4. CASE c = to
      <4>1. left[c] + n - 0 = left[c] + n BY <1>2
      <4> QED BY <3>1, <3>2, <3>3, <3>4, <4>1, <1>4
    <3>5. CASE c = from
      <4>1. left[c] + 0 - n = left[c] + (-n) BY <1>2
      <4> QED BY <3>1, <3>2, <3>3, <3>5, <4>1, <1>4
    <3>6. CASE c # to /\ c # from
      <4>1. left[c] + 0 - 0 = left[c] BY <1>2
      <4> QED BY <3>1, <3>2, <3>3, <3>6, <4>1, <1>2
    <3> QED BY <3>4, <3>5, <3>6
  <2>4. \A c \in Counter \ {to, from} : h[c] = left[c] BY <1>1, <2>1 DEF f, Counts
  <2>5. g = h
    <3>1. g = [c \in Counter |-> g[c]] BY DEF Moved
    <3>2. h = [c \in Counter |-> h[c]] BY <2>2 DEF Counts
    <3> HIDE DEF g, h
    <3> QED BY <3>1, <3>2, <2>3
  <2> HIDE DEF h
  <2>6. Sum(f) \in Int /\ Sum(h) \in Int BY <2>1, <2>2, CountsSum
  <2>7. Multiple(Sum(h) - Sum(left))
    <3>1. (Sum(h) - (Sum(f) + (-n))) + (Sum(f) - (Sum(left) + n)) = Sum(h) - Sum(left)
      BY <2>6, <1>1
    <3>2. Sum(h) - (Sum(f) + (-n)) \in Int /\ Sum(f) - (Sum(left) + n) \in Int BY <2>6, <1>1
    <3> QED BY <3>1, <3>2, <2>1, <2>2, MultiplesAdd
  <2> QED BY <2>2, <2>4, <2>5, <2>7
<1> QED BY <1>3, <1>4

-----------------------------------------------------------------------------
(***************************************************************************)
(* The invariant.  That no click is lost rests on the counters that are    *)
(* not made yet: they hold none, and nobody uses them.                     *)
(***************************************************************************)
UnmadeEmpty == \A c \in Counter \ made : left[c] = 0
UsedAreMade == RootClicks \in made /\ \A p \in Proc : uses[p] \in made
Balance == Multiple(Sum(left) + used - issued)
ClickInv == TypeOK /\ UnmadeEmpty /\ UsedAreMade /\ Balance

LEMMA BalanceIsConserved == TypeOK => (Balance <=> ClicksConserved)
<1> SUFFICES ASSUME TypeOK PROVE Balance <=> ClicksConserved OBVIOUS
<1>1. left \in Counts BY DEF TypeOK, Counts, Word
<1>2. Sum(left) + used - issued \in Int BY <1>1, CountsSum DEF TypeOK
<1>3. Balance <=> (Sum(left) + used - issued) % Width = 0
  BY <1>2, MultipleIsZero DEF Balance
<1>4. ClicksConserved <=> (Sum(left) + used - issued) % Width = 0
  BY Zenon DEF ClicksConserved, Sum, Width
<1> QED BY <1>3, <1>4

\* All that a step may do to the counts, for the balance to be kept.
LEMMA BalanceKept ==
  ASSUME TypeOK, TypeOK', Balance, Multiple((Sum(left') - Sum(left)) + (used' - used) - (issued' - issued))
  PROVE  Balance'
<1>1. left \in Counts /\ left' \in Counts BY DEF TypeOK, Counts, Word
<1>2. /\ Sum(left) \in Int /\ Sum(left') \in Int
      /\ used \in Nat /\ used' \in Nat /\ issued \in Nat /\ issued' \in Nat
  BY <1>1, CountsSum DEF TypeOK
<1> DEFINE a == Sum(left) + used - issued
           b == (Sum(left') - Sum(left)) + (used' - used) - (issued' - issued)
<1>3. a \in Int /\ b \in Int /\ a + b = Sum(left') + used' - issued' BY <1>2
<1>4. Multiple(a) /\ Multiple(b) BY DEF Balance
<1> HIDE DEF a, b
<1>5. Multiple(a + b) BY <1>3, <1>4, MultiplesAdd
<1>6. Multiple(Sum(left') + used' - issued') BY <1>3, <1>5
<1> QED BY <1>6 DEF Balance

\* The machine word of no change.
LEMMA NoChange == Multiple(0)
<1>1. 0 = 0 * Width BY WidthType
<1> QED BY <1>1 DEF Multiple

LEMMA InitClicks == Init => ClickInv
<1> SUFFICES ASSUME Init PROVE ClickInv OBVIOUS
<1> DEFINE zero == [c \in Counter |-> 0]
           it == [s \in SUBSET Counter |-> 0]
<1>1. TypeOK BY ClickAssumption, WidthType DEF Init, TypeOK, Word
<1>2. UnmadeEmpty /\ UsedAreMade BY ClickAssumption DEF Init, UnmadeEmpty, UsedAreMade
<1>3. zero \in Counts /\ zero \in [Counter -> Int] BY WidthType DEF Counts
<1>4. PICK g : Sums(g, zero, Counter) /\ Sum(zero) = g[Counter]
  BY <1>3, ClickAssumption, FoldIsSum
<1>5. Sum(zero) = 0
  <2> DEFINE T == {s \in SUBSET Counter : g[s] # 0}
  <2> SUFFICES ASSUME T # {} PROVE FALSE BY <1>4
  <2>1. \A s \in T : IsFiniteSet(s) BY ClickAssumption, FS_Subset
  <2> HIDE DEF T
  <2>2. PICK s \in T : \A r \in T : r \subseteq s => r = s BY <2>1, LeastSet
  <2>3. s \in SUBSET Counter /\ g[s] # 0 BY DEF T
  <2>4. \A t \in SUBSET Counter : /\ t = {} => g[t] = 0
                                  /\ t # {} => g[t] = zero[First(t)] + g[t \ {First(t)}]
    BY <1>4, SumsAt
  <2>5. s # {} BY <2>3, <2>4
  <2> DEFINE r == s \ {First(s)}
  <2>6. First(s) \in Counter /\ r \in SUBSET Counter /\ r \subseteq s /\ r # s
    BY <2>3, <2>5, FirstIsIn
  <2>7. g[r] = 0 BY <2>2, <2>6 DEF T
  <2>8. g[s] = zero[First(s)] + g[r] BY <2>3, <2>4, <2>5
  <2>9. g[s] = 0 BY <2>6, <2>7, <2>8
  <2> QED BY <2>3, <2>9
<1>6. left = [zero EXCEPT ![RootClicks] = Top] BY ClickAssumption DEF Init
<1> HIDE DEF zero
<1>11. Top \in Int /\ RootClicks \in Counter /\ IsFiniteSet(Counter) BY ClickAssumption
<1>12. Sum([zero EXCEPT ![RootClicks] = Top]) = Sum(zero) - zero[RootClicks] + Top
  BY <1>3, <1>11, SumUpdate
<1>7. Sum(left) = Sum(zero) - zero[RootClicks] + Top BY <1>6, <1>12
<1>8. zero[RootClicks] = 0 BY ClickAssumption DEF zero
<1>9. Sum(left) + used - issued = 0 BY <1>5, <1>7, <1>8, ClickAssumption DEF Init
<1>10. Balance BY <1>9, NoChange DEF Balance
<1> QED BY <1>1, <1>2, <1>10 DEF ClickInv

LEMMA NewClicksKeeps ==
  ASSUME ClickInv, NEW p \in Proc, NEW c \in Counter, NEW amount \in Amount, NewClicks(p, c, amount)
  PROVE  ClickInv'
<1>1. amount \in 1..Top /\ amount \in Word /\ amount \in Int BY ClickAssumption DEF Word
<1>2. left \in Counts /\ issued \in Nat /\ left[c] = 0
  BY DEF ClickInv, TypeOK, Counts, Word, UnmadeEmpty, NewClicks
<1>3. left' = [left EXCEPT ![c] = amount] /\ made' = made \cup {c} BY DEF NewClicks
<1>4. left' \in Counts BY <1>1, <1>2, <1>3 DEF Counts
<1>5. TypeOK' BY <1>1, <1>2, <1>3, <1>4 DEF ClickInv, TypeOK, NewClicks, Counts, Word
<1>6. UnmadeEmpty' /\ UsedAreMade'
  BY <1>2, <1>3 DEF ClickInv, UnmadeEmpty, UsedAreMade, NewClicks, Counts
<1>7. left \in [Counter -> Int] /\ Sum(left) \in Int BY <1>2, CountsSum
<1>8. Sum(left') = Sum(left) - left[c] + amount
  BY <1>1, <1>3, <1>7, ClickAssumption, SumUpdate
<1>9. (Sum(left') - Sum(left)) + (used' - used) - (issued' - issued) = 0
  <2>1. used' = used /\ issued' = issued + amount /\ used \in Nat /\ issued \in Nat
    BY DEF NewClicks, ClickInv, TypeOK
  <2> QED BY <2>1, <1>1, <1>2, <1>7, <1>8
<1>10. Balance' BY <1>5, <1>9, NoChange, BalanceKept DEF ClickInv
<1> QED BY <1>5, <1>6, <1>10 DEF ClickInv

\* Clicks are moved, and perhaps a counter is made for them.
LEMMA MovedKeeps ==
  ASSUME ClickInv, NEW to \in Counter, NEW from \in Counter, NEW n \in Int,
         to \in made', from \in made', made \subseteq made', made' \subseteq Counter,
         left' = Moved(to, n, from),
         UNCHANGED << uses, blocks, raising, alive, issued, used >>
  PROVE  ClickInv'
<1>1. left \in Counts BY DEF ClickInv, TypeOK, Counts, Word
<1>2. /\ left' \in Counts /\ Multiple(Sum(left') - Sum(left))
      /\ \A c \in Counter \ {to, from} : left'[c] = left[c]
  BY <1>1, MovedCounts
<1>3. TypeOK' BY <1>2 DEF ClickInv, TypeOK, Counts, Word
<1>4. UnmadeEmpty' /\ UsedAreMade' BY <1>2 DEF ClickInv, UnmadeEmpty, UsedAreMade
<1>5. (Sum(left') - Sum(left)) + (used' - used) - (issued' - issued) = Sum(left') - Sum(left)
  <2>1. Sum(left) \in Int /\ Sum(left') \in Int BY <1>1, <1>2, CountsSum
  <2>2. used' = used /\ issued' = issued /\ used \in Nat /\ issued \in Nat BY DEF ClickInv, TypeOK
  <2> QED BY <2>1, <2>2
<1>6. Balance' BY <1>2, <1>3, <1>5, BalanceKept DEF ClickInv
<1> QED BY <1>3, <1>4, <1>6 DEF ClickInv

\* The counts stay, and only counters that are made get into use.
LEMMA SameCountsKeep ==
  ASSUME ClickInv, TypeOK', UsedAreMade', UNCHANGED << left, made, issued, used >>
  PROVE  ClickInv'
<1>1. UnmadeEmpty' /\ Balance' BY DEF ClickInv, UnmadeEmpty, Balance
<1> QED BY <1>1 DEF ClickInv

Kinds == {"try", "within"}

\* A charge changes the counts and what was used as the balance asks.
LEMMA FareBalance ==
  ASSUME ClickInv, NEW p \in Proc, NEW gap \in Gap, TaxiFare(p, gap), UNCHANGED << made, issued >>
  PROVE  /\ left' \in Counts /\ used' \in Nat /\ UnmadeEmpty'
         /\ Multiple((Sum(left') - Sum(left)) + (used' - used) - (issued' - issued))
<1> DEFINE c == uses[p]
<1>1. gap \in Int /\ gap \in Nat /\ -gap \in Int BY ClickAssumption
<1>2. /\ left \in Counts /\ left \in [Counter -> Int] /\ Sum(left) \in Int
      /\ c \in Counter /\ c \in made /\ used \in Nat /\ issued \in Nat
  BY CountsSum DEF ClickInv, TypeOK, Counts, Word, UsedAreMade
<1>3. CASE left[c] = Top
  <2>1. left' = left /\ used' = used BY <1>3 DEF TaxiFare, Charged
  <2>2. (Sum(left') - Sum(left)) + (used' - used) - (issued' - issued) = 0 BY <2>1, <1>2
  <2>3. UnmadeEmpty' BY <2>1 DEF ClickInv, UnmadeEmpty
  <2> QED BY <2>1, <2>2, <2>3, <1>2, NoChange
<1>4. CASE left[c] # Top
  <2>1. used' = used + gap BY <1>4 DEF TaxiFare
  <2>2. left' = [left EXCEPT ![c] = Wrap(@ + (-gap))]
    <3>1. left[c] - gap = left[c] + (-gap) BY <1>1, <1>2
    <3>2. left' = [left EXCEPT ![c] = Wrap(left[c] - gap)] BY <1>4 DEF TaxiFare, Charged
    <3> QED BY <3>1, <3>2
  <2> HIDE DEF c
  <2>3. left' \in Counts /\ Multiple(Sum(left') - (Sum(left) + (-gap)))
    BY <1>1, <1>2, <2>2, ChangedCount
  <2>4. UnmadeEmpty' BY <1>2, <2>2 DEF ClickInv, UnmadeEmpty
  <2>5. Sum(left') \in Int BY <2>3, CountsSum
  <2>6. (Sum(left') - Sum(left)) + (used' - used) - (issued' - issued) = Sum(left') - (Sum(left) + (-gap))
    BY <1>1, <1>2, <2>1, <2>5
  <2> QED BY <1>1, <1>2, <2>1, <2>3, <2>4, <2>6
<1> QED BY <1>3, <1>4

\* What is left to see of a step that charges: where its processes go on.
LEMMA FareKeeps ==
  ASSUME ClickInv, NEW p \in Proc, NEW gap \in Gap, TaxiFare(p, gap), UNCHANGED << made, issued >>,
         uses' \in [Proc -> made], blocks' \in [Proc -> Seq(Kinds)],
         raising' \subseteq alive', alive' \subseteq Proc
  PROVE  ClickInv'
<1>1. /\ left' \in Counts /\ used' \in Nat /\ UnmadeEmpty'
      /\ Multiple((Sum(left') - Sum(left)) + (used' - used) - (issued' - issued))
  BY FareBalance
<1>2. TypeOK' BY <1>1 DEF ClickInv, TypeOK, Counts, Word, Kinds
<1>3. UsedAreMade' BY DEF ClickInv, UsedAreMade
<1>4. Balance' BY <1>1, <1>2, BalanceKept DEF ClickInv
<1> QED BY <1>1, <1>2, <1>3, <1>4 DEF ClickInv

\* Where recovered processes go on.
LEMMA RecoverTypes ==
  ASSUME TypeOK, NEW S, NEW p \in Proc, NEW twice \in BOOLEAN, Recover(S, p, twice)
  PROVE  /\ blocks' \in [Proc -> Seq(Kinds)] /\ raising' \subseteq alive' /\ alive' \subseteq alive
         /\ \A q \in alive' : q \in S => Len(blocks'[q]) < Len(blocks[q])
<1> DEFINE depth(q) == IF q = p /\ twice THEN 2 ELSE 1
<1>1. \A q \in Proc : depth(q) \in {1, 2} OBVIOUS
<1> HIDE DEF depth
<1>2. /\ alive' = {q \in alive : q \in S => depth(q) <= Len(blocks[q])}
      /\ raising' \subseteq alive'
      /\ blocks' = [q \in Proc |-> IF q \in S /\ q \in alive'
                                     THEN SubSeq(blocks[q], depth(q) + 1, Len(blocks[q]))
                                     ELSE blocks[q]]
  BY DEF Recover, depth
<1>3. blocks \in [Proc -> Seq(Kinds)] /\ alive \subseteq Proc BY DEF TypeOK, Kinds
<1>4. ASSUME NEW q \in Proc, q \in S, q \in alive'
      PROVE  /\ SubSeq(blocks[q], depth(q) + 1, Len(blocks[q])) \in Seq(Kinds)
             /\ Len(SubSeq(blocks[q], depth(q) + 1, Len(blocks[q]))) < Len(blocks[q])
  <2>1. blocks[q] \in Seq(Kinds) /\ depth(q) \in {1, 2} /\ depth(q) <= Len(blocks[q])
    BY <1>1, <1>2, <1>3, <1>4
  <2>2. ASSUME NEW s \in Seq(Kinds), NEW d \in {1, 2}, d <= Len(s)
        PROVE  SubSeq(s, d + 1, Len(s)) \in Seq(Kinds) /\ Len(SubSeq(s, d + 1, Len(s))) < Len(s)
    <3>1. Len(s) \in Nat /\ d + 1 \in 1..(Len(s) + 1) /\ Len(s) \in ((d + 1) - 1)..Len(s)
      BY <2>2, LenProperties
    <3>2. /\ SubSeq(s, d + 1, Len(s)) \in Seq(Kinds)
          /\ Len(SubSeq(s, d + 1, Len(s))) = Len(s) - (d + 1) + 1
      BY <3>1, SubSeqProperties
    <3> QED BY <3>1, <3>2
  <2> QED BY <2>1, <2>2
<1>5. blocks' \in [Proc -> Seq(Kinds)] BY <1>2, <1>3, <1>4
<1>6. alive' \subseteq alive BY <1>2
<1>7. \A q \in alive' : q \in S => Len(blocks'[q]) < Len(blocks[q]) BY <1>2, <1>3, <1>4, <1>6
<1> QED BY <1>2, <1>5, <1>6, <1>7

LEMMA RaisedTypes ==
  ASSUME TypeOK, NEW p \in Proc, Raised(p)
  PROVE  blocks' \in [Proc -> Seq(Kinds)] /\ raising' \subseteq alive' /\ alive' \subseteq alive
<1>1. CASE EngineEnds BY <1>1 DEF EngineEnds, TypeOK, Kinds
<1>2. CASE Recover({p}, p, FALSE) BY <1>2, RecoverTypes
<1> QED BY <1>1, <1>2 DEF Raised

\* The processes that are clicked out use rootClicks.
LEMMA RootInUse ==
  ASSUME ClickInv, NEW S PROVE OnRootClicks(S) \in [Proc -> made]
  BY DEF ClickInv, TypeOK, UsedAreMade, OnRootClicks

LEMMA ChargeKeeps ==
  ASSUME ClickInv, NEW p \in Proc, NEW gap \in Gap, Charge(p, gap)
  PROVE  ClickInv'
<1>1. TypeOK /\ alive \subseteq Proc BY DEF ClickInv, TypeOK
<1>2. /\ blocks' \in [Proc -> Seq(Kinds)] /\ raising' \subseteq alive' /\ alive' \subseteq alive
  <2>1. Recover(Out(p, gap), p, FALSE) BY DEF Charge
  <2> QED BY <1>1, <2>1, RecoverTypes
<1>3. uses' \in [Proc -> made'] BY RootInUse DEF Charge
<1> QED BY <1>1, <1>2, <1>3, FareKeeps DEF Charge

LEMMA UseClicksKeeps ==
  ASSUME ClickInv, NEW p \in Proc, NEW c \in Counter, NEW gap \in Gap, UseClicks(p, c, gap)
  PROVE  ClickInv'
<1>1. TypeOK /\ alive \subseteq Proc BY DEF ClickInv, TypeOK
<1>2. /\ blocks' \in [Proc -> Seq(Kinds)] /\ raising' \subseteq alive' /\ alive' \subseteq alive
  <2>1. Recover(Out(p, gap), p, FALSE) BY DEF UseClicks
  <2> QED BY <1>1, <2>1, RecoverTypes
<1>3. uses' \in [Proc -> made']
  <2>1. OnRootClicks(Out(p, gap)) \in [Proc -> made] BY RootInUse
  <2> QED BY <2>1 DEF UseClicks
<1> QED BY <1>1, <1>2, <1>3, FareKeeps DEF UseClicks

\* The instruction, with whatever happens behind it.
LEMMA UseKeeps ==
  ASSUME ClickInv, NEW p \in Proc, NEW c \in made, NEW gap \in Gap, NEW x,
         Use(p, c, gap, x),
         x => blocks' \in [Proc -> Seq(Kinds)] /\ raising' \subseteq alive' /\ alive' \subseteq alive
  PROVE  ClickInv'
<1>1. TypeOK /\ alive \subseteq Proc /\ made \subseteq Counter BY DEF ClickInv, TypeOK
<1>2. TaxiFare(p, gap) /\ UNCHANGED << made, issued >> BY DEF Use
<1>3. CASE Out(p, gap) = {}
  <2>1. x /\ uses' = [uses EXCEPT ![p] = c] BY <1>3 DEF Use
  <2>2. uses' \in [Proc -> made'] BY <2>1, <1>2 DEF ClickInv, TypeOK, UsedAreMade
  <2> QED BY <1>1, <1>2, <2>1, <2>2, FareKeeps
<1>4. CASE Out(p, gap) # {}
  <2>1. uses' = OnRootClicks(Out(p, gap)) BY <1>4 DEF Use
  <2>2. uses' \in [Proc -> made'] BY <2>1, <1>2, RootInUse
  <2>3. blocks' \in [Proc -> Seq(Kinds)] /\ raising' \subseteq alive' /\ alive' \subseteq alive
    <3>1. CASE EngineEnds BY <3>1, <1>1 DEF EngineEnds, TypeOK, Kinds
    <3>2. CASE Recover(Out(p, gap), p, TRUE) BY <3>2, <1>1, RecoverTypes
    <3> QED BY <3>1, <3>2, <1>4 DEF Use
  <2> QED BY <1>1, <1>2, <2>2, <2>3, FareKeeps
<1> QED BY <1>3, <1>4

LEMMA BeginWithinKeeps ==
  ASSUME ClickInv, NEW p \in Proc, NEW c \in Counter, NEW gap \in Gap, BeginWithin(p, c, gap)
  PROVE  ClickInv'
<1> DEFINE x == /\ blocks' = [blocks EXCEPT ![p] = << "within" >> \o @]
                /\ UNCHANGED << raising, alive >>
<1>1. Use(p, c, gap, x) /\ c \in made BY DEF BeginWithin
<1>2. << "within" >> \o blocks[p] \in Seq(Kinds) BY DEF ClickInv, TypeOK, Kinds
<1>3. x => blocks' \in [Proc -> Seq(Kinds)] /\ raising' \subseteq alive' /\ alive' \subseteq alive
  BY <1>2 DEF ClickInv, TypeOK, Kinds
<1> HIDE DEF x
<1> QED BY <1>1, <1>3, UseKeeps

LEMMA EndWithinKeeps ==
  ASSUME ClickInv, NEW p \in Proc, NEW gap \in Gap, EndWithin(p, gap)
  PROVE  ClickInv'
<1> DEFINE x == /\ blocks' = [blocks EXCEPT ![p] = Tail(@)]
                /\ UNCHANGED << raising, alive >>
<1>1. Use(p, uses[p], gap, x) /\ uses[p] \in made
  BY DEF EndWithin, Restored, ClickInv, UsedAreMade
<1>2. Tail(blocks[p]) \in Seq(Kinds) BY DEF ClickInv, TypeOK, Kinds, EndWithin
<1>3. x => blocks' \in [Proc -> Seq(Kinds)] /\ raising' \subseteq alive' /\ alive' \subseteq alive
  BY <1>2 DEF ClickInv, TypeOK, Kinds
<1> HIDE DEF x
<1> QED BY <1>1, <1>3, UseKeeps

LEMMA RaiseAgainKeeps ==
  ASSUME ClickInv, NEW p \in Proc, NEW gap \in Gap, RaiseAgain(p, gap)
  PROVE  ClickInv'
<1>1. Use(p, uses[p], gap, Raised(p)) /\ uses[p] \in made
  BY DEF RaiseAgain, Restored, ClickInv, UsedAreMade
<1>2. Raised(p) => blocks' \in [Proc -> Seq(Kinds)] /\ raising' \subseteq alive' /\ alive' \subseteq alive
  BY RaisedTypes DEF ClickInv
<1> QED BY <1>1, <1>2, UseKeeps

LEMMA NextKeepsClicks == ClickInv /\ [Next]_vars => ClickInv'
<1> SUFFICES ASSUME ClickInv, [Next]_vars PROVE ClickInv' OBVIOUS
<1>1. /\ left \in Counts /\ left \in [Counter -> Int] /\ made \subseteq Counter
      /\ uses \in [Proc -> Counter] /\ blocks \in [Proc -> Seq(Kinds)]
      /\ raising \subseteq alive /\ alive \subseteq Proc
      /\ \A c \in Counter : left[c] \in Int
  BY CountsSum DEF ClickInv, TypeOK, Counts, Word, Kinds
<1>2. CASE \E p \in Proc : BeginTry(p)
  <2> PICK p \in Proc : BeginTry(p) BY <1>2
  <2>1. << "try" >> \o blocks[p] \in Seq(Kinds) BY <1>1 DEF Kinds
  <2>2. TypeOK' BY <2>1 DEF BeginTry, ClickInv, TypeOK, Kinds
  <2>3. UsedAreMade' BY DEF BeginTry, ClickInv, UsedAreMade
  <2> QED BY <2>2, <2>3, SameCountsKeep DEF BeginTry
<1>3. CASE \E p \in Proc : EndTry(p)
  <2> PICK p \in Proc : EndTry(p) BY <1>3
  <2>1. Tail(blocks[p]) \in Seq(Kinds) BY <1>1 DEF EndTry
  <2>2. TypeOK' BY <2>1 DEF EndTry, ClickInv, TypeOK, Kinds
  <2>3. UsedAreMade' BY DEF EndTry, ClickInv, UsedAreMade
  <2> QED BY <2>2, <2>3, SameCountsKeep DEF EndTry
<1>4. CASE \E p \in Proc : Raise(p)
  <2> PICK p \in Proc : Raise(p) BY <1>4
  <2>1. blocks' \in [Proc -> Seq(Kinds)] /\ raising' \subseteq alive' /\ alive' \subseteq alive
    BY RaisedTypes DEF Raise, ClickInv
  <2>2. TypeOK' BY <2>1, <1>1 DEF Raise, ClickInv, TypeOK, Kinds
  <2>3. UsedAreMade' BY DEF Raise, ClickInv, UsedAreMade
  <2> QED BY <2>2, <2>3, SameCountsKeep DEF Raise
<1>5. CASE \E p, q \in Proc : Fork(p, q)
  <2> PICK p \in Proc, q \in Proc : Fork(p, q) BY <1>5
  <2>1. << >> \in Seq(Kinds) OBVIOUS
  <2>2. TypeOK' BY <2>1 DEF Fork, ClickInv, TypeOK, Kinds
  <2>3. UsedAreMade' BY <1>1 DEF Fork, ClickInv, UsedAreMade
  <2> QED BY <2>2, <2>3, SameCountsKeep DEF Fork
<1>6. CASE \E p \in Proc, gap \in Gap : Charge(p, gap) BY <1>6, ChargeKeeps
<1>7. CASE \E p \in Proc, gap \in Gap : EndWithin(p, gap) BY <1>7, EndWithinKeeps
<1>8. CASE \E p \in Proc, gap \in Gap : RaiseAgain(p, gap) BY <1>8, RaiseAgainKeeps
<1>9. CASE \E p \in Proc, gap \in Gap, c \in Counter : UseClicks(p, c, gap) BY <1>9, UseClicksKeeps
<1>10. CASE \E p \in Proc, gap \in Gap, c \in Counter : BeginWithin(p, c, gap)
  BY <1>10, BeginWithinKeeps
<1>11. CASE \E p \in Proc, c, d \in Counter : MergeClicks(p, d, c)
  <2> PICK p \in Proc, c \in Counter, d \in Counter : MergeClicks(p, d, c) BY <1>11
  <2>1. left[d] \in Int BY <1>1
  <2> QED BY <2>1, <1>1, MovedKeeps DEF MergeClicks
<1>12. CASE \E p \in Proc, c \in Counter, amount \in Amount : NewClicks(p, c, amount)
  BY <1>12, NewClicksKeeps
<1>13. CASE \E p \in Proc, c, d \in Counter, amount \in Amount : SplitClicks(p, d, c, amount)
  <2> PICK p \in Proc, c \in Counter, d \in Counter, amount \in Amount : SplitClicks(p, d, c, amount)
    BY <1>13
  <2>1. amount \in Int BY ClickAssumption
  <2> QED BY <2>1, <1>1, MovedKeeps DEF SplitClicks
<1>14. CASE \E p \in Proc, c, d \in Counter, amount \in Amount : CreditClicks(p, d, c, amount)
  <2> PICK p \in Proc, c \in Counter, d \in Counter, amount \in Amount : CreditClicks(p, d, c, amount)
    BY <1>14
  <2>1. amount \in Int BY ClickAssumption
  <2> QED BY <2>1, <1>1, MovedKeeps DEF CreditClicks
<1>15. CASE UNCHANGED vars
  <2>1. TypeOK' BY <1>15 DEF vars, ClickInv, TypeOK
  <2>2. UsedAreMade' BY <1>15 DEF vars, ClickInv, UsedAreMade
  <2> QED BY <2>1, <2>2, <1>15, SameCountsKeep DEF vars
<1>16. CASE Next
  <2>1. PICK p \in Proc :
          \/ BeginTry(p) \/ EndTry(p) \/ Raise(p)
          \/ \E q \in Proc : Fork(p, q)
          \/ \E gap \in Gap :
               \/ Charge(p, gap) \/ EndWithin(p, gap) \/ RaiseAgain(p, gap)
               \/ \E c \in Counter : UseClicks(p, c, gap) \/ BeginWithin(p, c, gap)
          \/ \E c, d \in Counter :
               \/ MergeClicks(p, d, c)
               \/ \E amount \in Amount :
                    NewClicks(p, c, amount) \/ SplitClicks(p, d, c, amount) \/ CreditClicks(p, d, c, amount)
    BY <1>16 DEF Next
  <2> QED BY <2>1, <1>2, <1>3, <1>4, <1>5, <1>6, <1>7, <1>8, <1>9, <1>10, <1>11, <1>12, <1>13, <1>14
<1> QED BY <1>15, <1>16

LEMMA ClickInvariant == Spec => []ClickInv
  BY InitClicks, NextKeepsClicks, PTL DEF Spec

(***************************************************************************)
(* Whatever the width of the word: what was issued is in a counter or was  *)
(* used.                                                                   *)
(***************************************************************************)
THEOREM ClicksAreConserved == Spec => []ClicksConserved
<1>1. ClickInv => ClicksConserved BY BalanceIsConserved DEF ClickInv
<1> QED BY ClickInvariant, <1>1, PTL

(***************************************************************************)
(* The steps that charge, and what they have in common.                    *)
(***************************************************************************)
Fares(p, gap) ==
  \/ Charge(p, gap) \/ EndWithin(p, gap) \/ RaiseAgain(p, gap)
  \/ \E c \in Counter : UseClicks(p, c, gap) \/ BeginWithin(p, c, gap)

LEMMA OnlyFares ==
  ASSUME Next, used' # used
  PROVE  \E p \in Proc, gap \in Gap : Fares(p, gap)
<1>1. PICK p \in Proc :
        \/ BeginTry(p) \/ EndTry(p) \/ Raise(p)
        \/ \E q \in Proc : Fork(p, q)
        \/ \E gap \in Gap :
             \/ Charge(p, gap) \/ EndWithin(p, gap) \/ RaiseAgain(p, gap)
             \/ \E c \in Counter : UseClicks(p, c, gap) \/ BeginWithin(p, c, gap)
        \/ \E c, d \in Counter :
             \/ MergeClicks(p, d, c)
             \/ \E amount \in Amount :
                  NewClicks(p, c, amount) \/ SplitClicks(p, d, c, amount) \/ CreditClicks(p, d, c, amount)
  BY DEF Next
<1>2. ~(BeginTry(p) \/ EndTry(p) \/ Raise(p)) BY DEF BeginTry, EndTry, Raise
<1>3. ~ \E q \in Proc : Fork(p, q) BY DEF Fork
<1>4. ~ \E c, d \in Counter :
             \/ MergeClicks(p, d, c)
             \/ \E amount \in Amount :
                  NewClicks(p, c, amount) \/ SplitClicks(p, d, c, amount) \/ CreditClicks(p, d, c, amount)
  BY DEF MergeClicks, NewClicks, SplitClicks, CreditClicks
<1>5. PICK gap \in Gap :
             \/ Charge(p, gap) \/ EndWithin(p, gap) \/ RaiseAgain(p, gap)
             \/ \E c \in Counter : UseClicks(p, c, gap) \/ BeginWithin(p, c, gap)
  BY <1>1, <1>2, <1>3, <1>4
<1> QED BY <1>5 DEF Fares

\* A counter other than rootClicks that a charge has spent has none of its users but p.
LEMMA SpentIsLeft ==
  ASSUME ClickInv, NEW p \in Proc, NEW gap \in Gap, Fares(p, gap),
         NEW c \in Counter \ {RootClicks}, left'[c] # left[c], left'[c] <= 0,
         NEW q \in alive', uses[q] = c
  PROVE  Len(blocks'[q]) < Len(blocks[q]) /\ (q # p => uses'[q] # c)
<1>1. TypeOK BY DEF ClickInv
<1>2. TaxiFare(p, gap) BY DEF Fares, Charge, EndWithin, RaiseAgain, UseClicks, BeginWithin, Use
<1>3. /\ left \in [Counter -> Word] /\ uses[p] \in Counter
      /\ left' = Charged(p, gap)
  BY <1>1, <1>2 DEF TypeOK, TaxiFare, Word
<1>4. c = uses[p] BY <1>3 DEF Charged
<1>5. left'[c] \in Int
  <2>1. left \in Counts BY <1>3 DEF Counts
  <2>2. left[uses[p]] \in Int /\ gap \in Int
    <3>1. left[uses[p]] \in Word BY <1>3
    <3>2. gap \in Int BY ClickAssumption
    <3> QED BY <3>1, <3>2, WidthType
  <2>3. Wrap(left[uses[p]] - gap) \in Int BY <2>2, WrapLemma
  <2> QED BY <2>2, <2>3, <1>3, <1>4 DEF Charged
<1>6. Out(p, gap) = Users(p) BY <1>3, <1>4, <1>5 DEF Out
<1>7. alive \subseteq Proc /\ uses \in [Proc -> Counter] /\ p \in alive BY <1>1, <1>2 DEF TypeOK, TaxiFare
<1>8. Out(p, gap) # {} BY <1>6, <1>7 DEF Users
<1>9. \/ Recover(Out(p, gap), p, FALSE) \/ Recover(Out(p, gap), p, TRUE) \/ EngineEnds
  BY <1>8 DEF Fares, Charge, EndWithin, RaiseAgain, UseClicks, BeginWithin, Use
<1>10. ~EngineEnds BY DEF EngineEnds
<1>11. alive' \subseteq alive /\ (q \in Out(p, gap) => Len(blocks'[q]) < Len(blocks[q]))
  BY <1>1, <1>9, <1>10, RecoverTypes
<1>12. q \in Out(p, gap) BY <1>4, <1>6, <1>11 DEF Users
<1>13. \/ uses' = OnRootClicks(Out(p, gap))
       \/ \E d \in Counter : uses' = [OnRootClicks(Out(p, gap)) EXCEPT ![p] = d]
  BY <1>8 DEF Fares, Charge, EndWithin, RaiseAgain, UseClicks, BeginWithin, Use
<1>14. q # p => uses'[q] = RootClicks BY <1>7, <1>11, <1>12, <1>13 DEF OnRootClicks
<1> QED BY <1>11, <1>12, <1>14

\* Who did not use a spent counter does not come to use it in the step that spends it.
LEMMA NobodyArrives ==
  ASSUME ClickInv, NEW p \in Proc, NEW gap \in Gap, Fares(p, gap),
         NEW c \in Counter \ {RootClicks}, left'[c] # left[c], left'[c] <= 0,
         NEW r \in alive', uses'[r] = c
  PROVE  r = p
<1> SUFFICES ASSUME r # p PROVE FALSE OBVIOUS
<1>1. TypeOK BY DEF ClickInv
<1>2. uses[r] # c BY SpentIsLeft
<1>3. /\ alive' \subseteq alive /\ alive \subseteq Proc /\ uses \in [Proc -> Counter]
  <2>1. \/ alive' \subseteq alive
        \/ Recover(Out(p, gap), p, FALSE) \/ Recover(Out(p, gap), p, TRUE) \/ EngineEnds
        \/ Raised(p)
    BY DEF Fares, Charge, EndWithin, RaiseAgain, UseClicks, BeginWithin, Use
  <2>2. EngineEnds => alive' \subseteq alive BY DEF EngineEnds
  <2> QED BY <2>1, <2>2, <1>1, RecoverTypes, RaisedTypes DEF TypeOK
<1>4. uses'[r] \in {uses[r], RootClicks}
  <2>1. \/ uses' = OnRootClicks(Out(p, gap))
        \/ \E d \in Counter : uses' = [OnRootClicks(Out(p, gap)) EXCEPT ![p] = d]
        \/ \E d : uses' = [uses EXCEPT ![p] = d]
    BY DEF Fares, Charge, EndWithin, RaiseAgain, UseClicks, BeginWithin, Use
  <2> QED BY <2>1, <1>3 DEF OnRootClicks
<1> QED BY <1>2, <1>4

(***************************************************************************)
(* No step but a charge uses clicks up; when it spends a counter, each of  *)
(* its users is ended or loses an error block and leaves it, but for the   *)
(* one that asks for this counter.                                         *)
(***************************************************************************)
THEOREM NobodyStaysOnSpent == Spec => NobodyLeftOnSpent
<1> DEFINE A == \A c \in Counter \ {RootClicks} :
                  used' # used /\ left'[c] # left[c] /\ left'[c] <= 0 =>
                    \A q \in alive' : uses[q] = c =>
                      /\ Len(blocks'[q]) < Len(blocks[q])
                      /\ \A r \in alive' \ {q} : ~(uses'[q] = c /\ uses'[r] = c)
<1>1. ClickInv /\ [Next]_vars => [A]_vars
  <2> SUFFICES ASSUME ClickInv, Next, NEW c \in Counter \ {RootClicks},
                      used' # used, left'[c] # left[c], left'[c] <= 0,
                      NEW q \in alive', uses[q] = c
               PROVE  /\ Len(blocks'[q]) < Len(blocks[q])
                      /\ \A r \in alive' \ {q} : ~(uses'[q] = c /\ uses'[r] = c)
    OBVIOUS
  <2>1. PICK p \in Proc, gap \in Gap : Fares(p, gap) BY OnlyFares
  <2>2. Len(blocks'[q]) < Len(blocks[q]) BY <2>1, SpentIsLeft
  <2>3. \A r \in alive' \ {q} : ~(uses'[q] = c /\ uses'[r] = c) BY <2>1, NobodyArrives
  <2> QED BY <2>2, <2>3
<1>2. Spec => [][A]_vars BY ClickInvariant, <1>1, PTL DEF Spec
<1> QED BY <1>2 DEF NobodyLeftOnSpent
=============================================================================
