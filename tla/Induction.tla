------------------------------- MODULE Induction -------------------------------
(***************************************************************************)
(* Induction without an operator parameter: what the least-number          *)
(* principle says of a set of naturals.  A property P of naturals is       *)
(* proved for all of them from the set {n \in Nat : P(n)}.                 *)
(***************************************************************************)
EXTENDS Integers, FiniteSets, FiniteSetTheorems, WellFoundedInduction, TLAPS

\* A set of naturals that holds 0 and with every number its successor holds them all.
LEMMA NatSetInduction ==
  ASSUME NEW S, 0 \in S, \A n \in Nat : n \in S => n + 1 \in S
  PROVE  Nat \subseteq S
<1> DEFINE R == {ss \in Nat \X Nat : ss[1] < ss[2]}
           T == Nat \ S
<1>1. IsWellFoundedOn(R, Nat)
  BY NatLessThanWellFounded DEF OpToRel
<1>2. \A x, y \in Nat : x < y => <<x, y>> \in R
  OBVIOUS
<1> HIDE DEF R
<1>3. SUFFICES ASSUME T # {} PROVE FALSE
  OBVIOUS
<1>4. T \subseteq Nat
  OBVIOUS
<1> HIDE DEF T
<1>5. PICK x \in T : \A y \in T : ~(<<y, x>> \in R)
  BY <1>1, <1>3, <1>4, WFMin
<1>6. x \in Nat /\ x \notin S /\ x # 0
  BY DEF T
<1>7. x - 1 \in Nat /\ x - 1 < x
  BY <1>6
<1>8. x - 1 \notin T
  BY <1>2, <1>5, <1>6, <1>7
<1>9. x - 1 \in S
  BY <1>7, <1>8 DEF T
<1> QED BY <1>6, <1>7, <1>9

\* Of finitely many elements one has the largest number.
LEMMA LastOfFinitelyMany ==
  ASSUME NEW K, IsFiniteSet(K), K # {}, NEW f, \A k \in K : f[k] \in Int
  PROVE  \E m \in K : \A k \in K : f[k] <= f[m]
<1> DEFINE Above(m) == {k \in K : f[k] > f[m]}
           S == {n \in Nat : \A m \in K : Cardinality(Above(m)) <= n =>
                               \E x \in K : \A k \in K : f[k] <= f[x]}
<1>1. \A m \in K : IsFiniteSet(Above(m)) /\ Cardinality(Above(m)) \in Nat
  BY FS_Subset, FS_CardinalityType
<1>2. 0 \in S
  <2> SUFFICES ASSUME NEW m \in K, Cardinality(Above(m)) <= 0
               PROVE  \A k \in K : f[k] <= f[m]
    OBVIOUS
  <2>1. Above(m) = {}
    <3> HIDE DEF Above
    <3>1. IsFiniteSet(Above(m)) /\ Cardinality(Above(m)) = 0
      BY <1>1
    <3> QED BY <3>1, FS_EmptySet
  <2>2. \A k \in K : f[k] \in Int /\ ~(f[k] > f[m])
    BY <2>1
  <2> QED BY <2>2
<1>3. ASSUME NEW n \in Nat, n \in S PROVE n + 1 \in S
  <2> SUFFICES ASSUME NEW m \in K, Cardinality(Above(m)) <= n + 1
               PROVE  \E x \in K : \A k \in K : f[k] <= f[x]
    OBVIOUS
  <2>1. CASE Above(m) = {}
    <3>1. \A k \in K : f[k] \in Int /\ ~(f[k] > f[m])
      BY <2>1
    <3>2. \A k \in K : f[k] <= f[m]
      BY <3>1
    <3> QED BY <3>2
  <2>2. CASE Above(m) # {}
    <3>1. PICK x \in K : f[x] > f[m]
      BY <2>2
    <3>2. Above(x) \subseteq Above(m) /\ x \in Above(m) /\ x \notin Above(x)
      BY <3>1
    <3>3. Cardinality(Above(x)) < Cardinality(Above(m))
      <4> HIDE DEF Above
      <4> QED BY <1>1, <3>2, FS_Subset
    <3>4. Cardinality(Above(x)) <= n
      <4> HIDE DEF Above
      <4> QED BY <1>1, <3>3
    <3> QED BY <1>3, <3>4
  <2> QED BY <2>1, <2>2
<1>4. Nat \subseteq S
  <2> HIDE DEF S
  <2> QED BY <1>2, <1>3, NatSetInduction
<1>5. PICK m \in K : TRUE
  OBVIOUS
<1>6. Cardinality(Above(m)) \in Nat /\ Cardinality(Above(m)) <= Cardinality(Above(m))
  BY <1>1
<1> HIDE DEF Above
<1>7. Cardinality(Above(m)) \in S
  BY <1>4, <1>6
<1> QED BY <1>6, <1>7

=============================================================================
