----------------------------- MODULE NumberLemmas -----------------------------
(***************************************************************************)
(* Lemmas about sets of natural numbers, for the proofs about the heights  *)
(* and the ids of a chain.                                                 *)
(***************************************************************************)
EXTENDS Integers, FiniteSets, FiniteSetTheorems, WellFoundedInduction, TLAPS

\* A non-empty set of naturals has a least element.
LEMMA LeastElement ==
  ASSUME NEW S \in SUBSET Nat, S # {}
  PROVE  \E n \in S : \A m \in S : n <= m
<1>1. PICK n \in S : \A m \in S : ~(<<m, n>> \in OpToRel(<, Nat))
  BY NatLessThanWellFounded, WFMin
<1>2. \A m \in S : ~(m < n)
  BY <1>1 DEF OpToRel
<1> QED
  BY <1>2

\* One that is bounded has a greatest.
LEMMA GreatestElement ==
  ASSUME NEW b \in Nat, NEW S \in SUBSET (0..b), S # {}
  PROVE  \E n \in S : \A m \in S : m <= n
<1> DEFINE T == {b - n : n \in S}
<1>0. \A n \in S : n \in Nat /\ n <= b
  OBVIOUS
<1>1. T \in SUBSET Nat /\ T # {}
  <2>1. \A n \in S : b - n \in Nat
    BY <1>0
  <2>2. PICK n \in S : TRUE
    OBVIOUS
  <2>3. b - n \in T
    BY <2>2
  <2> QED
    BY <2>1, <2>3
<1>2. PICK t \in T : \A u \in T : t <= u
  BY <1>1, LeastElement
<1>3. PICK n \in S : t = b - n
  BY <1>2
<1>4. \A m \in S : b - m \in T
  OBVIOUS
<1>5. \A m \in S : b - n <= b - m
  BY <1>2, <1>3, <1>4
<1>6. \A m \in S : m <= n
  BY <1>0, <1>5
<1> QED
  BY <1>6

\* A set of numbers that has whatever is below one of them, from 1 on, is as
\* long as its cardinality says.
LEMMA LowerSet ==
  ASSUME NEW b \in Nat, NEW S \in SUBSET (1..b),
         \A m, n \in 1..b : m <= n /\ n \in S => m \in S
  PROVE  Cardinality(S) \in 0..b /\ S = 1..Cardinality(S)
<1>1. CASE S = {}
  <2>1. Cardinality(S) = 0
    BY <1>1, FS_EmptySet
  <2> QED
    BY <1>1, <2>1
<1>2. CASE S # {}
  <2>1. S \in SUBSET (0..b)
    OBVIOUS
  <2>2. PICK n \in S : \A m \in S : m <= n
    BY <1>2, <2>1, GreatestElement
  <2>3. n \in 1..b
    OBVIOUS
  <2>4. S = 1..n
    <3>1. \A m \in S : m \in 1..n
      BY <2>2, <2>3
    <3>2. ASSUME NEW m \in 1..n PROVE m \in S
      <4>1. m \in 1..b /\ m <= n
        BY <2>3
      <4> QED
        BY <2>3, <4>1
    <3> QED
      BY <3>1, <3>2
  <2>5. Cardinality(1..n) = n
    BY <2>3, FS_Interval
  <2> QED
    BY <2>3, <2>4, <2>5
<1> QED
  BY <1>1, <1>2

===============================================================================
