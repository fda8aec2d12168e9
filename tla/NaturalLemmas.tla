--------------------------- MODULE NaturalLemmas ---------------------------
(***************************************************************************)
(* Facts on sets of natural numbers that the other proofs share: a least   *)
(* and a largest member, the k-th member, and induction stated as a        *)
(* property of sets, for predicates that are sets of numbers.              *)
(***************************************************************************)
EXTENDS FiniteSets, FiniteSetTheorems, TLAPS

LEMMA Least ==
  ASSUME NEW T \in SUBSET Nat, T # {}
  PROVE  \E n \in T : \A m \in T : n <= m
<1> DEFINE R == {ss \in Nat \X Nat : ss[1] < ss[2]}
<1>1. IsWellFoundedOn(R, Nat)
  BY NatLessThanWellFounded DEF OpToRel
<1>2. PICK x \in T : \A y \in T : ~ (<<y, x>> \in R)
  BY <1>1, WFMin
<1>3. ASSUME NEW y \in T PROVE x <= y
  <2>1. ~(<<y, x>> \in R)
    BY <1>2
  <2>2. x \in Nat /\ y \in Nat
    OBVIOUS
  <2>3. ~(y < x)
    BY <2>1, <2>2
  <2> QED
    BY <2>2, <2>3
<1> QED
  BY <1>3

LEMMA Largest ==
  ASSUME NEW n \in Nat, NEW S \in SUBSET (1 .. n), S # {}
  PROVE  \E i \in S : \A j \in S : j <= i
<1> DEFINE T == {n - i : i \in S}
<1>1. T \in SUBSET Nat /\ T # {}
  <2>1. \A i \in 1 .. n : n - i \in Nat
    OBVIOUS
  <2>2. PICK i : i \in S
    OBVIOUS
  <2>3. n - i \in T
    BY <2>2
  <2> QED
    BY <2>1, <2>3
<1>2. PICK m \in T : \A t \in T : m <= t
  BY <1>1, Least
<1>3. PICK i \in S : m = n - i
  OBVIOUS
<1>4. ASSUME NEW j \in S PROVE j <= i
  <2>0. n - j \in T
    OBVIOUS
  <2>1. i \in Nat /\ j \in Nat /\ n - j \in T
    <3>1. \A k \in 1 .. n : k \in Nat
      OBVIOUS
    <3> QED
      BY <2>0, <3>1
  <2>2. m <= n - j
    BY <1>2, <2>1
  <2> QED
    BY <1>3, <2>1, <2>2
<1> QED
  BY <1>4

\* The k-th of the members of S.
LEMMA Rank ==
  ASSUME NEW n \in Nat, NEW S \in SUBSET (1 .. n), NEW k \in 1 .. Cardinality(S)
  PROVE  \E i \in S : Cardinality({j \in S : j <= i}) = k
<1> DEFINE Upto(i) == {j \in S : j <= i}
           T == {i \in S : Cardinality(Upto(i)) >= k}
<1>1. IsFiniteSet(S) /\ Cardinality(S) \in Nat
  <2>1. IsFiniteSet(1 .. n)
    BY FS_Interval
  <2> QED
    BY <2>1, FS_Subset, FS_CardinalityType
<1>2. ASSUME NEW i PROVE IsFiniteSet(Upto(i)) /\ Cardinality(Upto(i)) \in Nat
  <2>1. Upto(i) \in SUBSET S
    OBVIOUS
  <2> QED
    BY <1>1, <2>1, FS_Subset, FS_CardinalityType
<1>3. T # {}
  <2>1. S # {}
    BY <1>1, FS_EmptySet
  <2>2. PICK i \in S : \A j \in S : j <= i
    BY <2>1, Largest
  <2>3. Upto(i) = S
    BY <2>2
  <2> QED
    BY <1>1, <2>3
<1>4. PICK i \in T : \A m \in T : i <= m
  <2>1. T \in SUBSET Nat
    <3>1. \A j \in 1 .. n : j \in Nat
      OBVIOUS
    <3> QED
      BY <3>1
  <2> HIDE DEF T
  <2> QED
    BY <1>3, <2>1, Least
<1>5. ASSUME Cardinality(Upto(i)) # k PROVE FALSE
  <2> DEFINE U == Upto(i) \ {i}
  <2>0. i \in S /\ \A j \in S : j \in Nat
    <3>1. \A j \in 1 .. n : j \in Nat
      OBVIOUS
    <3> QED
      BY <3>1
  <2>1. Cardinality(U) = Cardinality(Upto(i)) - 1 /\ U \in SUBSET (1 .. n)
    <3>1. i \in Upto(i) /\ U \in SUBSET (1 .. n)
      <4>1. i <= i
        BY <2>0
      <4>2. U \subseteq S
        OBVIOUS
      <4> QED
        BY <2>0, <4>1, <4>2
    <3>2. IsFiniteSet(Upto(i))
      BY <1>2
    <3> HIDE DEF Upto
    <3>3. Cardinality(U) = Cardinality(Upto(i)) - 1
      BY <3>1, <3>2, FS_RemoveElement
    <3> QED
      BY <3>1, <3>3
  <2>2. Cardinality(U) >= k
    BY <1>2, <1>5, <2>1
  <2>3. U # {}
    BY <2>2, FS_EmptySet
  <2>4. PICK h \in U : \A j \in U : j <= h
    <3> HIDE DEF U
    <3> QED
      BY <2>1, <2>3, Largest
  <2>5. Upto(h) = U
    <3>1. h \in S /\ h <= i /\ h # i
      OBVIOUS
    <3>2. ASSUME NEW j \in S PROVE j <= h <=> (j <= i /\ j # i)
      BY <2>0, <2>4, <3>1, <3>2
    <3> QED
      BY <3>2
  <2>6. h \in T
    BY <2>2, <2>5
  <2>7. h < i
    BY <2>0
  <2> QED
    BY <1>4, <2>6, <2>7
<1> QED
  BY <1>5

\* Induction up to n: T is the set of the numbers that satisfy the predicate.
LEMMA Induction ==
  ASSUME NEW n \in Nat, NEW T, 0 \in T,
         \A i \in 0 .. n - 1 : i \in T => i + 1 \in T
  PROVE  \A i \in 0 .. n : i \in T
<1> DEFINE Bad == {i \in 0 .. n : i \notin T}
<1>1. ASSUME Bad # {} PROVE FALSE
  <2>1. Bad \in SUBSET Nat
    OBVIOUS
  <2>2. PICK m \in Bad : \A i \in Bad : m <= i
    <3> HIDE DEF Bad
    <3> QED
      BY <1>1, <2>1, Least
  <2>3. m # 0 /\ m \in 0 .. n
    OBVIOUS
  <2>4. m - 1 \in 0 .. n - 1 /\ m - 1 \notin Bad
    BY <2>2, <2>3
  <2>5. m - 1 \in T
    BY <2>3, <2>4
  <2>6. (m - 1) + 1 = m
    BY <2>3
  <2> QED
    BY <2>4, <2>5, <2>6
<1> QED
  BY <1>1

\* f iterates the step G on 0 .. n, from a and with values in S.
Iterates(f, n, S, a, G) ==
  /\ f \in [0 .. n -> S] /\ f[0] = a
  /\ \A i \in 1 .. n : f[i] = G[<<i, f[i - 1]>>]

\* A recursive function whose values stay in a set exists.
LEMMA Iteration ==
  ASSUME NEW n \in Nat, NEW S, NEW a \in S, NEW G \in [(1 .. n) \X S -> S]
  PROVE  \E f : Iterates(f, n, S, a, G)
<1> DEFINE Works(m, f) == /\ f \in [0 .. m -> S] /\ f[0] = a
                          /\ \A i \in 1 .. m : f[i] = G[<<i, f[i - 1]>>]
           T == {m \in 0 .. n : \E f : Works(m, f)}
<1>1. 0 \in T
  <2>1. Works(0, [i \in 0 .. 0 |-> a])
    OBVIOUS
  <2> HIDE DEF Works
  <2> QED
    BY <2>1
<1>2. ASSUME NEW m \in 0 .. n - 1, m \in T PROVE m + 1 \in T
  <2>1. PICK f : Works(m, f)
    BY <1>2
  <2> DEFINE v == G[<<m + 1, f[m]>>]
             g == [i \in 0 .. m + 1 |-> IF i <= m THEN f[i] ELSE v]
  <2>2. f[m] \in S /\ <<m + 1, f[m]>> \in (1 .. n) \X S
    BY <2>1
  <2>3. v \in S
    BY <2>2
  <2>4. g \in [0 .. m + 1 -> S] /\ g[0] = a
    <3>1. ASSUME NEW i \in 0 .. m + 1, i <= m PROVE f[i] \in S
      BY <2>1, <3>1
    <3> QED
      BY <2>1, <2>3, <3>1
  <2>5. ASSUME NEW i \in 1 .. m + 1 PROVE g[i] = G[<<i, g[i - 1]>>]
    <3>1. CASE i <= m
      <4>1. g[i] = f[i] /\ g[i - 1] = f[i - 1]
        BY <3>1
      <4> HIDE DEF g
      <4> QED
        BY <2>1, <3>1, <4>1
    <3>2. CASE i = m + 1
      <4>1. g[i] = v /\ g[i - 1] = f[m]
        BY <3>2
      <4> QED
        BY <3>2, <4>1
    <3> QED
      BY <3>1, <3>2
  <2> HIDE DEF g
  <2>6. Works(m + 1, g)
    BY <2>4, <2>5
  <2> QED
    BY <2>6
<1>3. n \in T
  <2> HIDE DEF T
  <2>1. \A i \in 0 .. n - 1 : i \in T => i + 1 \in T
    BY <1>2
  <2>2. \A i \in 0 .. n : i \in T
    BY <1>1, <2>1, Induction
  <2> QED
    BY <2>2
<1> QED
  BY <1>3 DEF Iterates
=============================================================================
