------------------------------- MODULE Induction -------------------------------
(***************************************************************************)
(* Induction without a predicate as a parameter: a set of numbers that is  *)
(* not empty has a least member.  To show something for all numbers, look  *)
(* at the least one it does not hold for.                                  *)
(***************************************************************************)
EXTENDS Integers, FiniteSetTheorems, WellFoundedInduction, TLAPS

\* The intervals that begin with 0 and end in the set are finite, and strict
\* inclusion is well-founded on finite sets: one of them is the smallest.
LEMMA LeastNat ==
    ASSUME NEW T \in SUBSET Nat, T # {}
    PROVE  \E m \in T : \A n \in T : m <= n
<1> DEFINE S == {0 .. n : n \in T}
<1>1. \A n \in T : 0 .. n \in FiniteSubsetsOf(Nat)
  <2> TAKE n \in T
  <2>1. IsFiniteSet(0 .. n)
    BY FS_Interval
  <2> QED
    BY <2>1 DEF FiniteSubsetsOf
<1>2. S \subseteq FiniteSubsetsOf(Nat) /\ S # {}
  BY <1>1
<1> HIDE DEF S
<1>3. PICK s \in S : \A r \in S : ~(<<r, s>> \in StrictSubsetOrdering(Nat))
  BY <1>2, FS_StrictSubsetOrderingWellFounded, WFMin
<1>4. PICK m \in T : s = 0 .. m
  BY DEF S
<1>5. ASSUME NEW n \in T, n < m PROVE FALSE
  <2>1. 0 .. n \in S
    BY DEF S
  <2>2. 0 .. n \subseteq 0 .. m /\ m \in 0 .. m /\ m \notin 0 .. n
    BY <1>5
  <2>3. 0 .. n \in SUBSET Nat /\ 0 .. m \in SUBSET Nat
    OBVIOUS
  <2>4. <<0 .. n, s>> \in StrictSubsetOrdering(Nat)
    BY <1>4, <2>2, <2>3, Zenon DEF StrictSubsetOrdering
  <2> QED
    BY <1>3, <2>1, <2>4
<1> QED
  BY <1>5

\* A set of numbers up to a bound has a greatest member.
LEMMA GreatestNat ==
    ASSUME NEW bound \in Nat, NEW T \in SUBSET (0 .. bound), T # {}
    PROVE  \E m \in T : \A n \in T : n <= m
<1> DEFINE U == {k \in Nat : \A n \in T : n <= k}
<1>1. bound \in U
  OBVIOUS
<1>2. PICK m \in U : \A k \in U : m <= k
  BY <1>1, LeastNat
<1>3. m \in T
  <2> SUFFICES ASSUME m \notin T PROVE FALSE
    OBVIOUS
  <2>1. \A n \in T : n \in Nat /\ n <= m - 1
    BY <1>2
  <2>2. m - 1 \in U
    <3>1. PICK n \in T : TRUE
      OBVIOUS
    <3>2. m - 1 \in Nat
      BY <2>1, <3>1
    <3> QED
      BY <2>1, <3>2
  <2> QED
    BY <1>2, <2>2
<1> QED
  BY <1>2, <1>3

\* What holds of 0, and of a number when it holds of the one before, holds.
LEMMA UpTo ==
    ASSUME NEW bound \in Nat, NEW T, 0 \in T, \A n \in 1 .. bound : n - 1 \in T => n \in T
    PROVE  0 .. bound \subseteq T
<1> SUFFICES ASSUME (0 .. bound) \ T # {} PROVE FALSE
  OBVIOUS
<1>1. (0 .. bound) \ T \in SUBSET Nat
  OBVIOUS
<1>2. PICK m \in (0 .. bound) \ T : \A n \in (0 .. bound) \ T : m <= n
  BY <1>1, LeastNat
<1>3. m \in 1 .. bound /\ m - 1 \in 0 .. bound
  BY <1>2
<1> QED
  BY <1>2, <1>3

\* A finite set of numbers has a bound.
LEMMA FiniteBounded ==
    ASSUME NEW T \in SUBSET Nat, IsFiniteSet(T)
    PROVE  \E b \in Nat : T \in SUBSET (0 .. b)
<1> DEFINE Bound(S) == \E b \in Nat : S \in SUBSET (0 .. b)
           Sizes == {k \in Nat : \E S \in SUBSET Nat : IsFiniteSet(S) /\ Cardinality(S) = k /\ ~Bound(S)}
<1> SUFFICES ASSUME ~Bound(T) PROVE FALSE
  OBVIOUS
<1>1. Cardinality(T) \in Sizes
  BY FS_CardinalityType
<1> HIDE DEF Sizes
<1>2. PICK k \in Sizes : \A l \in Sizes : k <= l
  <2>1. Sizes \in SUBSET Nat /\ Sizes # {}
    BY <1>1 DEF Sizes
  <2> QED
    BY <2>1, LeastNat
<1>3. PICK S \in SUBSET Nat : IsFiniteSet(S) /\ Cardinality(S) = k /\ ~Bound(S)
  BY DEF Sizes
<1>4. S # {}
  <2>1. 0 \in Nat /\ {} \in SUBSET (0 .. 0)
    OBVIOUS
  <2> QED
    BY <1>3, <2>1
<1>5. PICK x \in S : TRUE
  BY <1>4
<1>6. IsFiniteSet(S \ {x}) /\ Cardinality(S \ {x}) = k - 1 /\ k \in Nat /\ k - 1 \in Nat
  <2>1. IsFiniteSet(S \ {x}) /\ Cardinality(S \ {x}) = k - 1
    BY <1>3, <1>5, FS_RemoveElement
  <2>2. Cardinality(S \ {x}) \in Nat /\ Cardinality(S) \in Nat
    BY <1>3, <2>1, FS_CardinalityType
  <2> QED
    BY <1>3, <2>1, <2>2
<1>7. Bound(S \ {x})
  <2> SUFFICES ASSUME ~Bound(S \ {x}) PROVE FALSE
    OBVIOUS
  <2>1. S \ {x} \in SUBSET Nat
    OBVIOUS
  <2>2. k - 1 \in Sizes
    BY <1>6, <2>1 DEF Sizes
  <2>3. k <= k - 1
    BY <1>2, <2>2
  <2> QED
    BY <1>6, <2>3
<1>8. PICK b \in Nat : S \ {x} \in SUBSET (0 .. b)
  BY <1>7
<1>9. b + x \in Nat /\ S \in SUBSET (0 .. b + x)
  BY <1>3, <1>5, <1>8
<1> QED
  BY <1>3, <1>9
================================================================================
