---------------------------- MODULE SequenceProofs ----------------------------
(***************************************************************************)
(* Facts about positions and other natural numbers that the proofs of      *)
(* several components use.  Where a proof needs induction it argues about  *)
(* a smallest counterexample, which LeastElement provides for sets.        *)
(***************************************************************************)
EXTENDS Integers, TLAPS
LOCAL INSTANCE WellFoundedInduction

\* Every non-empty set of natural numbers has a least element.
LEMMA LeastElement ==
  ASSUME NEW T, T \subseteq Nat, T # {}
  PROVE  \E m \in T : \A k \in T : m <= k
<1> DEFINE R == {ss \in Nat \X Nat : ss[1] < ss[2]}
<1>1. IsWellFoundedOn(R, Nat)
  BY NatLessThanWellFounded DEF OpToRel
<1> HIDE DEF R
<1>2. PICK m \in T : \A k \in T : ~(<<k, m>> \in R)
  BY <1>1, WFMin
<1>3. \A k \in T : ~(k < m)
  BY <1>2 DEF R
<1>. QED  BY <1>3

\* Every non-empty set of positions below a bound has a greatest element.
LEMMA GreatestElement ==
  ASSUME NEW n \in Nat, NEW T, T \subseteq 0 .. n, T # {}
  PROVE  \E m \in T : \A k \in T : k <= m
<1> DEFINE D == {n - k : k \in T}
<1>1. D \subseteq Nat
  <2> SUFFICES ASSUME NEW k \in T PROVE n - k \in Nat
    OBVIOUS
  <2>1. k \in 0 .. n
    OBVIOUS
  <2>. QED  BY <2>1
<1>0. D # {}
  <2>1. PICK k : k \in T
    OBVIOUS
  <2>2. n - k \in D
    BY <2>1
  <2>. QED  BY <2>2
<1> HIDE DEF D
<1>2. PICK d \in D : \A e \in D : d <= e
  BY <1>0, <1>1, LeastElement
<1>3. PICK m \in T : d = n - m
  BY DEF D
<1>4. \A k \in T : n - k \in D
  BY DEF D
<1>. QED  BY <1>2, <1>3, <1>4
=============================================================================
