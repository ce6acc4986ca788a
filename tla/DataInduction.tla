---------------------------- MODULE DataInduction ----------------------------
(***************************************************************************)
(* Induction without operators: the least counterexample.  The induction   *)
(* theorems of the library are about an operator P(_); these are about a   *)
(* set, so that the counterexamples of what is to be proved, of which      *)
(* there is a least one if there is any, can be given as a set.            *)
(***************************************************************************)
EXTENDS Integers, FiniteSets, FiniteSetTheorems, WellFoundedInduction, TLAPS

\* A set of naturals that is not empty has a least element.
LEMMA LeastNat ==
  ASSUME NEW T, T \subseteq Nat, T # {}
  PROVE  \E x \in T : \A y \in T : x <= y
<1> DEFINE R == {ss \in Nat \X Nat : ss[1] < ss[2]}
<1>1. IsWellFoundedOn(R, Nat) BY NatLessThanWellFounded DEF OpToRel
<1> HIDE DEF R
<1>3. PICK x \in T : \A y \in T : ~(<<y, x>> \in R) BY <1>1, WFMin
<1>4. ASSUME NEW y \in T PROVE x <= y
  <2>1. x \in Nat /\ y \in Nat OBVIOUS
  <2>2. y < x => <<y, x>> \in R BY <2>1 DEF R
  <2>3. ~(y < x) BY <1>3, <2>2
  <2> QED BY <2>1, <2>3
<1> QED BY <1>4

\* A set of finite sets that is not empty has a smallest element: one with no proper
\* subset in the set.
LEMMA LeastSet ==
  ASSUME NEW T, T # {}, \A x \in T : IsFiniteSet(x)
  PROVE  \E x \in T : \A y \in T : y \subseteq x => y = x
<1> DEFINE S == UNION T
           R == StrictSubsetOrdering(S)
           F == FiniteSubsetsOf(S)
<1>1. IsWellFoundedOn(R, F) BY FS_StrictSubsetOrderingWellFounded
<1>2. T \subseteq F BY DEF FiniteSubsetsOf
<1>3. \A x, y \in T : y \subseteq x /\ y # x => <<y, x>> \in R BY DEF StrictSubsetOrdering
<1> HIDE DEF R, F, S
<1>4. PICK x \in T : \A y \in T : ~(<<y, x>> \in R) BY <1>1, <1>2, WFMin
<1> QED BY <1>3, <1>4
=============================================================================
