------------------------ MODULE SentenceParserProofs ------------------------
(***************************************************************************)
(* What parse_sentences, rebuild_file and the splice of a commit do to     *)
(* every text: parsing loses nothing, and a commit replaces one sentence.  *)
(***************************************************************************)
EXTENDS SentenceParser, NaturalLemmas, SequenceTheorems

-----------------------------------------------------------------------------
(* Ordered: the members of a set, each once, in increasing order.          *)

LEMMA Interval ==
  ASSUME NEW n \in Nat, NEW S \in SUBSET (1 .. n)
  PROVE  /\ IsFiniteSet(S) /\ Cardinality(S) \in Nat
         /\ \A i \in S : i \in Nat /\ 1 <= i /\ i <= n
<1>1. IsFiniteSet(S)
  <2>1. IsFiniteSet(1 .. n)
    BY FS_Interval
  <2> QED
    BY <2>1, FS_Subset
<1>2. Cardinality(S) \in Nat
  BY <1>1, FS_CardinalityType
<1>3. \A i \in 1 .. n : i \in Nat /\ 1 <= i /\ i <= n
  OBVIOUS
<1> QED
  BY <1>1, <1>2, <1>3

LEMMA OrderedMembers ==
  ASSUME NEW n \in Nat, NEW S \in SUBSET (1 .. n)
  PROVE  /\ Ordered(S) \in Seq(S) /\ Len(Ordered(S)) = Cardinality(S)
         /\ DOMAIN Ordered(S) = 1 .. Cardinality(S)
         /\ \A k \in 1 .. Cardinality(S) :
              Ordered(S)[k] \in S /\ Cardinality({j \in S : j <= Ordered(S)[k]}) = k
<1> DEFINE c == Cardinality(S)
           At(i, k) == Cardinality({j \in S : j <= i}) = k
<1>1. c \in Nat
  BY Interval
<1>2. Ordered(S) = [k \in 1 .. c |-> CHOOSE i \in S : At(i, k)]
  BY DEF Ordered
<1>3. ASSUME NEW k \in 1 .. c PROVE Ordered(S)[k] \in S /\ At(Ordered(S)[k], k)
  <2>1. \E i \in S : At(i, k)
    BY Rank
  <2>2. Ordered(S)[k] = CHOOSE i \in S : At(i, k)
    BY <1>2
  <2> HIDE DEF At
  <2> QED
    BY <2>1, <2>2
<1>4. Ordered(S) \in [1 .. c -> S]
  <2> HIDE DEF c, At
  <2> QED
    BY <1>2, <1>3
<1> QED
  BY <1>1, <1>3, <1>4, SeqDef

LEMMA OrderedIncreases ==
  ASSUME NEW n \in Nat, NEW S \in SUBSET (1 .. n),
         NEW k \in 1 .. Cardinality(S), NEW m \in 1 .. Cardinality(S), k < m
  PROVE  Ordered(S)[k] < Ordered(S)[m]
<1> DEFINE i == Ordered(S)[k]
           j == Ordered(S)[m]
           Upto(h) == {g \in S : g <= h}
<1>1. /\ i \in S /\ Cardinality(Upto(i)) = k
      /\ j \in S /\ Cardinality(Upto(j)) = m
  BY OrderedMembers
<1>2. IsFiniteSet(S) /\ \A h \in S : h \in Nat
  BY Interval
<1>3. ASSUME j <= i PROVE FALSE
  <2>1. Upto(j) \subseteq Upto(i)
    <3>1. i \in Nat /\ j \in Nat /\ \A g \in S : g \in Nat
      BY <1>1, <1>2
    <3>2. \A g \in S : g <= j => g <= i
      <4> HIDE DEF i, j
      <4> QED
        BY <1>3, <3>1
    <3> QED
      BY <3>2
  <2>2. IsFiniteSet(Upto(i))
    <3>1. Upto(i) \in SUBSET S
      OBVIOUS
    <3> HIDE DEF Upto
    <3> QED
      BY <1>2, <3>1, FS_Subset
  <2> HIDE DEF Upto
  <2>3. Cardinality(Upto(j)) <= Cardinality(Upto(i))
    BY <2>1, <2>2, FS_Subset
  <2> QED
    BY <1>1, <2>3
<1> HIDE DEF i, j
<1>4. i < j
  BY <1>1, <1>2, <1>3
<1> QED
  BY <1>4 DEF i, j

LEMMA OrderedOnto ==
  ASSUME NEW n \in Nat, NEW S \in SUBSET (1 .. n), NEW i \in S
  PROVE  \E k \in 1 .. Cardinality(S) : Ordered(S)[k] = i
<1> DEFINE Upto(h) == {g \in S : g <= h}
           k == Cardinality(Upto(i))
           j == Ordered(S)[k]
<1>1. IsFiniteSet(S) /\ Cardinality(S) \in Nat /\ \A h \in S : h \in Nat
  BY Interval
<1>2. ASSUME NEW h PROVE IsFiniteSet(Upto(h)) /\ Upto(h) \in SUBSET S
                         /\ Cardinality(Upto(h)) \in Nat
                         /\ Cardinality(Upto(h)) <= Cardinality(S)
  <2>1. Upto(h) \in SUBSET S
    OBVIOUS
  <2> HIDE DEF Upto
  <2>2. IsFiniteSet(Upto(h)) /\ Cardinality(Upto(h)) <= Cardinality(S)
    BY <1>1, <2>1, FS_Subset
  <2> QED
    BY <2>1, <2>2, FS_CardinalityType
<1>3. k \in 1 .. Cardinality(S)
  <2>1. i \in Upto(i)
    BY <1>1
  <2>2. k # 0
    BY <1>2, <2>1, FS_EmptySet
  <2> QED
    BY <1>1, <1>2, <2>2
<1>4. j \in S /\ Cardinality(Upto(j)) = k
  BY <1>3, OrderedMembers
<1>5. ASSUME NEW g \in S, NEW h \in S, g < h
      PROVE  Cardinality(Upto(g)) # Cardinality(Upto(h))
  <2>1. Upto(g) \subseteq Upto(h) /\ h \in Upto(h) /\ h \notin Upto(g)
    <3>1. \A f \in S : f <= g => f <= h
      BY <1>1, <1>5
    <3>2. h <= h /\ ~(h <= g)
      BY <1>1, <1>5
    <3> QED
      BY <3>1, <3>2
  <2>2. Upto(g) # Upto(h) /\ IsFiniteSet(Upto(h))
    BY <1>2, <2>1
  <2> HIDE DEF Upto
  <2> QED
    BY <2>1, <2>2, FS_Subset
<1>6. i = j
  <2> HIDE DEF k, j, Upto
  <2>1. ~(i < j) /\ ~(j < i)
    BY <1>4, <1>5 DEF k
  <2> QED
    BY <1>1, <1>4, <2>1
<1> QED
  BY <1>3, <1>6

\* A number that comes after all others is put at the end.
LEMMA OrderedAppend ==
  ASSUME NEW n \in Nat, NEW S \in SUBSET (1 .. n), NEW p \in Nat, n < p
  PROVE  Ordered(S \cup {p}) = Append(Ordered(S), p)
<1> DEFINE U == S \cup {p}
           c == Cardinality(S)
           Upto(h) == {g \in S : g <= h}
           Upto2(h) == {g \in U : g <= h}
<1>1. IsFiniteSet(S) /\ c \in Nat /\ \A h \in S : h \in Nat /\ h < p
  BY Interval
<1>2. U \in SUBSET (1 .. p) /\ Cardinality(U) = c + 1
  <2>1. p \notin S /\ p \in 1 .. p /\ S \subseteq 1 .. p
    BY <1>1
  <2> QED
    BY <1>1, <2>1, FS_AddElement
<1>3. /\ Ordered(U) \in Seq(U) /\ Len(Ordered(U)) = c + 1
      /\ DOMAIN Ordered(U) = 1 .. c + 1
      /\ \A k \in 1 .. c + 1 : Ordered(U)[k] \in U /\ Cardinality(Upto2(Ordered(U)[k])) = k
  <2> HIDE DEF U
  <2> QED
    BY <1>2, OrderedMembers
<1>4. /\ Ordered(S) \in Seq(S) /\ Len(Ordered(S)) = c
      /\ \A k \in 1 .. c : Ordered(S)[k] \in S /\ Cardinality(Upto(Ordered(S)[k])) = k
  BY OrderedMembers
<1>5. \A h \in S : Upto(h) = Upto2(h)
  BY <1>1
<1>6. Upto2(p) = U
  <2>1. \A h \in U : h <= p
    BY <1>1
  <2> QED
    BY <2>1
<1>7. ASSUME NEW k \in 1 .. c PROVE Ordered(U)[k] = Ordered(S)[k]
  <2> DEFINE i == Ordered(S)[k]
  <2>1. i \in S /\ Cardinality(Upto2(i)) = k
    BY <1>4, <1>5
  <2>2. PICK m \in 1 .. c + 1 : Ordered(U)[m] = i
    <3> HIDE DEF U, i
    <3>1. i \in U
      BY <2>1 DEF U
    <3> QED
      BY <1>2, <3>1, OrderedOnto
  <2>3. m = k
    BY <1>3, <2>1, <2>2
  <2> QED
    BY <2>2, <2>3
<1>8. Ordered(U)[c + 1] = p
  <2> HIDE DEF U
  <2>1. PICK m \in 1 .. c + 1 : Ordered(U)[m] = p
    BY <1>2, OrderedOnto DEF U
  <2>2. m = c + 1
    BY <1>2, <1>3, <1>6, <2>1
  <2> QED
    BY <2>1, <2>2
<1>9. /\ Append(Ordered(S), p) \in Seq(U) /\ Len(Append(Ordered(S), p)) = c + 1
      /\ \A k \in 1 .. c : Append(Ordered(S), p)[k] = Ordered(S)[k]
      /\ Append(Ordered(S), p)[c + 1] = p
  <2>1. Ordered(S) \in Seq(U) /\ p \in U
    BY <1>4, SeqMonotonic
  <2> HIDE DEF U
  <2> QED
    BY <1>4, <2>1, AppendProperties
<1> QED
  <2> HIDE DEF U
  <2>1. ASSUME NEW k \in 1 .. c + 1 PROVE Ordered(U)[k] = Append(Ordered(S), p)[k]
    <3>1. k \in 1 .. c \/ k = c + 1
      BY <1>1
    <3> QED
      BY <1>7, <1>8, <1>9, <3>1
  <2>2. Ordered(U) = Append(Ordered(S), p)
    BY <1>3, <1>9, <2>1, SeqEqual
  <2> QED
    BY <2>2 DEF U

LEMMA OrderedEmpty == Ordered({}) = <<>>
  BY FS_EmptySet DEF Ordered

-----------------------------------------------------------------------------
(* FlattenSeq: the running concatenations, and what they end in.           *)

Concats(A, s, f) == /\ f \in [0 .. Len(s) -> Seq(A)] /\ f[0] = <<>>
                    /\ \A i \in 1 .. Len(s) : f[i] = f[i - 1] \o s[i]

LEMMA ConcatsExist ==
  ASSUME NEW A, NEW s \in Seq(Seq(A)) PROVE \E f : Concats(A, s, f)
<1> DEFINE n == Len(s)
           G == [p \in (1 .. n) \X Seq(A) |-> p[2] \o s[p[1]]]
<1>1. n \in Nat /\ \A i \in 1 .. n : s[i] \in Seq(A)
  BY ElementOfSeq
<1>2. G \in [(1 .. n) \X Seq(A) -> Seq(A)]
  <2>1. ASSUME NEW p \in (1 .. n) \X Seq(A) PROVE p[2] \o s[p[1]] \in Seq(A)
    BY <1>1, <2>1, ConcatProperties
  <2> QED
    BY <2>1
<1>3. PICK f \in [0 .. n -> Seq(A)] : /\ f[0] = <<>>
                                      /\ \A i \in 1 .. n : f[i] = G[<<i, f[i - 1]>>]
  <2> DEFINE V == Seq(A)
             e == <<>>
  <2>1. e \in V /\ n \in Nat /\ G \in [(1 .. n) \X V -> V]
    BY <1>1, <1>2
  <2> HIDE DEF G, n, V, e
  <2>2. \E f : Iterates(f, n, V, e, G)
    BY <2>1, Iteration
  <2> QED
    BY <2>2 DEF Iterates, V, e
<1>4. ASSUME NEW i \in 1 .. n PROVE f[i] = f[i - 1] \o s[i]
  <2>1. i - 1 \in 0 .. n
    BY <1>1
  <2>2. f[i - 1] \in Seq(A)
    BY <1>3, <2>1
  <2>3. G[<<i, f[i - 1]>>] = f[i - 1] \o s[i]
    BY <2>2
  <2> QED
    BY <1>3, <2>3
<1>5. Concats(A, s, f)
  BY <1>3, <1>4 DEF Concats
<1> QED
  BY <1>5

\* g runs along the concatenations of s as far as n.
RunsAlong(g, n, s) == g[0] = <<>> /\ \A i \in 1 .. n : g[i] = g[i - 1] \o s[i]

LEMMA ConcatsUnique ==
  ASSUME NEW A, NEW s \in Seq(Seq(A)), NEW f, NEW g, NEW n \in Nat,
         Concats(A, s, f), n <= Len(s), RunsAlong(g, n, s)
  PROVE  g[n] = f[n]
<1> DEFINE T == {i \in 0 .. n : g[i] = f[i]}
<1>1. Len(s) \in Nat
  BY LenProperties
<1>2. 0 \in T
  BY DEF Concats, RunsAlong
<1>3. ASSUME NEW i \in 0 .. n - 1, i \in T PROVE i + 1 \in T
  <2>1. i + 1 \in 1 .. n /\ i + 1 \in 1 .. Len(s) /\ (i + 1) - 1 = i
    BY <1>1
  <2>2. g[i + 1] = g[i] \o s[i + 1]
    BY <2>1 DEF RunsAlong
  <2>3. f[i + 1] = f[i] \o s[i + 1]
    BY <2>1 DEF Concats
  <2>4. g[i] = f[i]
    BY <1>3
  <2>5. i + 1 \in 0 .. n
    BY <2>1
  <2> QED
    BY <2>2, <2>3, <2>4, <2>5
<1>4. \A i \in 0 .. n : i \in T
  <2> HIDE DEF T
  <2> QED
    BY <1>2, <1>3, Induction
<1> QED
  BY <1>4

LEMMA FlattenIsConcats ==
  ASSUME NEW A, NEW s \in Seq(Seq(A)), NEW f, Concats(A, s, f)
  PROVE  FlattenSeq(s) = f[Len(s)]
<1> DEFINE n == Len(s)
           Eq(h) == h = [i \in 1 .. n |-> IF i = 1 THEN s[i] ELSE h[i - 1] \o s[i]]
           F == CHOOSE h : Eq(h)
<1>1. n \in Nat /\ \A i \in 1 .. n : s[i] \in Seq(A)
  BY ElementOfSeq
<1>2. CASE n = 0
  <2>1. s = <<>>
    BY <1>2, EmptySeq
  <2>2. FlattenSeq(s) = s
    BY <1>2 DEF FlattenSeq
  <2> QED
    BY <1>2, <2>1, <2>2 DEF Concats
<1>3. CASE n # 0
  <2> DEFINE h == [i \in 1 .. n |-> f[i]]
  <2>1. ASSUME NEW i \in 1 .. n
        PROVE  f[i] = IF i = 1 THEN s[i] ELSE h[i - 1] \o s[i]
    <3>1. f[i] = f[i - 1] \o s[i]
      BY DEF Concats
    <3>2. CASE i = 1
      <4>1. f[i - 1] = <<>>
        BY <3>2 DEF Concats
      <4> QED
        BY <1>1, <3>1, <3>2, <4>1, ConcatEmptySeq
    <3>3. CASE i # 1
      <4>1. i - 1 \in 1 .. n
        BY <1>1, <3>3
      <4> QED
        BY <3>1, <3>3, <4>1
    <3> QED
      BY <3>2, <3>3
  <2>2. Eq(h)
    <3>1. h = [i \in 1 .. n |-> IF i = 1 THEN s[i] ELSE h[i - 1] \o s[i]]
      BY <2>1
    <3> QED
      BY <3>1
  <2>3. Eq(F)
    <3> HIDE DEF Eq, h
    <3> QED
      BY <2>2
  <2>4. FlattenSeq(s) = F[n]
    BY <1>3 DEF FlattenSeq
  <2> DEFINE g == [i \in 0 .. n |-> IF i = 0 THEN <<>> ELSE F[i]]
  <2>5. ASSUME NEW i \in 1 .. n PROVE g[i] = g[i - 1] \o s[i]
    <3>1. F[i] = IF i = 1 THEN s[i] ELSE F[i - 1] \o s[i]
      <4> HIDE DEF F
      <4> QED
        BY <2>3
    <3>2. g[i] = F[i]
      BY <1>1
    <3>3. CASE i = 1
      <4>1. g[i - 1] = <<>>
        BY <1>1, <3>3
      <4> HIDE DEF g, F
      <4> QED
        BY <1>1, <3>1, <3>2, <3>3, <4>1, ConcatEmptySeq
    <3>4. CASE i # 1
      <4>1. g[i - 1] = F[i - 1]
        BY <1>1, <3>4
      <4> HIDE DEF g, F
      <4> QED
        BY <3>1, <3>2, <3>4, <4>1
    <3> QED
      BY <3>3, <3>4
  <2>6. DOMAIN g = 0 .. n /\ g[0] = <<>> /\ g[n] = F[n]
    BY <1>1, <1>3
  <2>7. g[n] = f[n]
    <3>1. n \in Nat /\ n <= Len(s)
      BY <1>1
    <3> HIDE DEF g, F, n, Eq
    <3>2. RunsAlong(g, n, s)
      BY <2>5, <2>6 DEF RunsAlong
    <3> QED
      BY <3>1, <3>2, ConcatsUnique
  <2> QED
    BY <2>4, <2>6, <2>7
<1> QED
  BY <1>2, <1>3

LEMMA FlattenTyped ==
  ASSUME NEW A, NEW s \in Seq(Seq(A)) PROVE FlattenSeq(s) \in Seq(A)
<1>1. PICK f : Concats(A, s, f)
  BY ConcatsExist
<1>2. Len(s) \in 0 .. Len(s)
  BY LenProperties
<1>3. f[Len(s)] \in Seq(A)
  BY <1>1, <1>2 DEF Concats
<1> QED
  BY <1>1, <1>3, FlattenIsConcats

LEMMA FlattenEmpty == FlattenSeq(<<>>) = <<>>
<1>1. Len(<<>>) = 0
  OBVIOUS
<1> QED
  BY <1>1 DEF FlattenSeq

LEMMA FlattenAppend ==
  ASSUME NEW A, NEW s \in Seq(Seq(A)), NEW x \in Seq(A)
  PROVE  FlattenSeq(Append(s, x)) = FlattenSeq(s) \o x
<1> DEFINE r == Append(s, x)
           n == Len(s)
<1>1. /\ n \in Nat /\ r \in Seq(Seq(A)) /\ Len(r) = n + 1
      /\ \A i \in 1 .. n : r[i] = s[i]
      /\ r[n + 1] = x
  BY AppendProperties
<1> HIDE DEF r, n
<1>2. PICK f : Concats(A, r, f)
  BY <1>1, ConcatsExist
<1>3. PICK g : Concats(A, s, g)
  BY ConcatsExist
<1>4. RunsAlong(f, n, s)
  <2>1. ASSUME NEW i \in 1 .. n PROVE f[i] = f[i - 1] \o s[i]
    <3>1. i \in 1 .. n + 1
      BY <1>1
    <3> QED
      BY <1>1, <1>2, <3>1 DEF Concats
  <2> QED
    BY <1>2, <2>1 DEF Concats, RunsAlong
<1>5. f[n] = FlattenSeq(s)
  <2>1. f[n] = g[n]
    <3>1. n <= Len(s)
      BY <1>1 DEF n
    <3> QED
      BY <1>1, <1>3, <1>4, <3>1, ConcatsUnique
  <2>2. FlattenSeq(s) = g[n]
    BY <1>3, FlattenIsConcats DEF n
  <2> QED
    BY <2>1, <2>2
<1>6. f[n + 1] = f[n] \o x
  <2>1. n + 1 \in 1 .. n + 1 /\ (n + 1) - 1 = n
    BY <1>1
  <2> QED
    BY <1>1, <1>2, <2>1 DEF Concats
<1>7. FlattenSeq(r) = f[n + 1]
  BY <1>1, <1>2, FlattenIsConcats
<1> QED
  BY <1>5, <1>6, <1>7 DEF r

\* A sequence grows by its last element.
LEMMA Grows ==
  ASSUME NEW A, NEW r \in Seq(A), NEW k \in 0 .. Len(r) - 1
  PROVE  /\ SubSeq(r, 1, k) \in Seq(A) /\ r[k + 1] \in A
         /\ SubSeq(r, 1, k + 1) = Append(SubSeq(r, 1, k), r[k + 1])
<1>1. Len(r) \in Nat /\ k + 1 \in 1 .. Len(r) /\ (k + 1) - 1 = k /\ 1 \in 1 .. Len(r)
  BY LenProperties
<1>2. r[k + 1] \in A
  BY <1>1, ElementOfSeq
<1>3. SubSeq(r, 1, k) \in Seq(A)
  <2>1. \A i \in 1 .. k : r[i] \in A
    BY <1>1, ElementOfSeq
  <2> QED
    BY <2>1, SubSeqProperties
<1>4. SubSeq(r, 1, k + 1) = SubSeq(r, 1, k) \o <<r[k + 1]>>
  <2>1. k + 1 \in 1 .. Len(r)
    BY <1>1
  <2> DEFINE m == k + 1
  <2>2. SubSeq(r, 1, m) = SubSeq(r, 1, m - 1) \o <<r[m]>>
    <3>1. m \in 1 .. Len(r)
      BY <2>1
    <3> HIDE DEF m
    <3> QED
      BY <1>1, <3>1, SubSeqRecursiveSecond
  <2> QED
    BY <1>1, <2>2
<1> QED
  BY <1>2, <1>3, <1>4, AppendIsConcat

\* A name for concatenation, so that the provers do not expand it.
Cat(s, t) == s \o t

LEMMA CatAssociative ==
  \A A : \A s, t, u \in Seq(A) : Cat(Cat(s, t), u) = Cat(s, Cat(t, u))
  BY ConcatAssociative DEF Cat

LEMMA FlattenConcat ==
  ASSUME NEW A, NEW s \in Seq(Seq(A)), NEW r \in Seq(Seq(A))
  PROVE  FlattenSeq(s \o r) = FlattenSeq(s) \o FlattenSeq(r)
<1> DEFINE u(k) == SubSeq(r, 1, k)
           T == {k \in 0 .. Len(r) : FlattenSeq(s \o u(k)) = FlattenSeq(s) \o FlattenSeq(u(k))}
<1>1. Len(r) \in Nat /\ FlattenSeq(s) \in Seq(A)
  BY LenProperties, FlattenTyped
<1>2. 0 \in T
  <2>1. u(0) = <<>>
    BY SubSeqEmpty
  <2>2. s \o u(0) = s
    BY <2>1, ConcatEmptySeq
  <2>3. FlattenSeq(s) \o FlattenSeq(u(0)) = FlattenSeq(s)
    BY <1>1, <2>1, FlattenEmpty, ConcatEmptySeq
  <2>4. 0 \in 0 .. Len(r)
    BY <1>1
  <2> HIDE DEF u
  <2> QED
    BY <2>2, <2>3, <2>4
<1>3. ASSUME NEW k \in 0 .. Len(r) - 1, k \in T PROVE k + 1 \in T
  <2> DEFINE w == u(k)
             x == r[k + 1]
  <2>1. w \in Seq(Seq(A)) /\ x \in Seq(A) /\ u(k + 1) = Append(w, x)
    BY Grows
  <2>2. FlattenSeq(s \o w) = FlattenSeq(s) \o FlattenSeq(w)
    BY <1>3
  <2>3. k + 1 \in 0 .. Len(r)
    BY <1>1
  <2> HIDE DEF w, x, u
  <2>4. s \o Append(w, x) = Append(s \o w, x) /\ s \o w \in Seq(Seq(A))
    <3>1. /\ Append(w, x) = w \o <<x>> /\ <<x>> \in Seq(Seq(A))
          /\ s \o w \in Seq(Seq(A))
      BY <2>1, AppendIsConcat, ConcatProperties
    <3>2. Append(s \o w, x) = (s \o w) \o <<x>>
      BY <2>1, <3>1, AppendIsConcat
    <3>3. (s \o w) \o <<x>> = s \o (w \o <<x>>)
      <4> DEFINE B == Seq(A)
                 e == <<x>>
      <4>1. s \in Seq(B) /\ w \in Seq(B) /\ e \in Seq(B)
        BY <2>1, <3>1
      <4> HIDE DEF B, e
      <4>2. Cat(Cat(s, w), e) = Cat(s, Cat(w, e))
        BY <4>1, CatAssociative
      <4> QED
        BY <4>2, Zenon DEF Cat, e
    <3> QED
      BY <3>1, <3>2, <3>3
  <2>5. FlattenSeq(s \o Append(w, x)) = (FlattenSeq(s) \o FlattenSeq(w)) \o x
    <3> DEFINE v == s \o w
    <3>1. v \in Seq(Seq(A)) /\ FlattenSeq(s \o Append(w, x)) = FlattenSeq(Append(v, x))
      BY <2>4
    <3>2. FlattenSeq(v) = FlattenSeq(s) \o FlattenSeq(w)
      BY <2>2
    <3> HIDE DEF v
    <3>3. FlattenSeq(Append(v, x)) = FlattenSeq(v) \o x
      BY <2>1, <3>1, FlattenAppend
    <3> QED
      BY <3>1, <3>2, <3>3, Zenon
  <2>6. FlattenSeq(Append(w, x)) = FlattenSeq(w) \o x /\ FlattenSeq(w) \in Seq(A)
    BY <2>1, FlattenAppend, FlattenTyped
  <2>7. (FlattenSeq(s) \o FlattenSeq(w)) \o x = FlattenSeq(s) \o (FlattenSeq(w) \o x)
    <3> DEFINE a == FlattenSeq(s)
               b == FlattenSeq(w)
    <3>1. a \in Seq(A) /\ b \in Seq(A) /\ x \in Seq(A)
      BY <1>1, <2>1, <2>6
    <3> HIDE DEF a, b
    <3>2. Cat(Cat(a, b), x) = Cat(a, Cat(b, x))
      BY <3>1, CatAssociative
    <3> QED
      BY <3>2, Zenon DEF Cat, a, b
  <2> QED
    BY <2>1, <2>3, <2>5, <2>6, <2>7
<1>4. Len(r) \in T
  <2> HIDE DEF T
  <2>1. \A k \in 0 .. Len(r) : k \in T
    BY <1>1, <1>2, <1>3, Induction
  <2> QED
    BY <1>1, <2>1
<1>5. u(Len(r)) = r
  BY SubSeqFull
<1> QED
  BY <1>4, <1>5

-----------------------------------------------------------------------------
(* Sentences.                                                              *)

LEMMA TextProperties ==
  ASSUME NEW t \in Text
  PROVE  /\ Len(t) \in Nat /\ DOMAIN t = 1 .. Len(t)
         /\ \A i \in 1 .. Len(t) : t[i] \in Atom
  BY LenProperties, ElementOfSeq DEF Text

\* The ends of the sentences increase from 0 to the length of the text, and every
\* delimiter is one of them.
LEMMA Ends ==
  ASSUME NEW t \in Text
  PROVE  LET c == Len(SentenceEnds(t)) IN
         /\ c \in Nat /\ DOMAIN SentenceEnds(t) = 1 .. c
         /\ EndOf(t, 0) = 0 /\ EndOf(t, c) = Len(t)
         /\ \A k \in 0 .. c : EndOf(t, k) \in 0 .. Len(t)
         /\ \A j, k \in 0 .. c : j < k => EndOf(t, j) < EndOf(t, k)
         /\ \A k \in 1 .. c : EndOf(t, k) = Len(t) \/ t[EndOf(t, k)] = Stop
         /\ \A i \in 1 .. Len(t) : t[i] = Stop => \E k \in 1 .. c : EndOf(t, k) = i
<1> DEFINE n == Len(t)
           S == {i \in DOMAIN t : t[i] = Stop \/ i = Len(t)}
           e == Ordered(S)
           c == Cardinality(S)
<1>1. n \in Nat /\ S \in SUBSET (1 .. n) /\ \A i \in S : t[i] = Stop \/ i = n
  BY TextProperties
<1>2. \A i \in 1 .. n : t[i] = Stop \/ i = n => i \in S
  BY TextProperties
<1>3. SentenceEnds(t) = e
  BY DEF SentenceEnds
<1> HIDE DEF S, e
<1>4. /\ c \in Nat /\ Len(e) = c /\ DOMAIN e = 1 .. c
      /\ \A k \in 1 .. c : e[k] \in S
      /\ \A i \in S : \E k \in 1 .. c : e[k] = i
      /\ \A j, k \in 1 .. c : j < k => e[j] < e[k]
  <2>1. c \in Nat
    BY <1>1, Interval
  <2>2. Len(e) = c /\ DOMAIN e = 1 .. c /\ \A k \in 1 .. c : e[k] \in S
    BY <1>1, OrderedMembers DEF e
  <2>3. \A i \in S : \E k \in 1 .. c : e[k] = i
    BY <1>1, OrderedOnto DEF e
  <2>4. ASSUME NEW j \in 1 .. c, NEW k \in 1 .. c, j < k PROVE e[j] < e[k]
    BY <1>1, <2>4, OrderedIncreases DEF e
  <2> QED
    BY <2>1, <2>2, <2>3, <2>4
<1>5. EndOf(t, 0) = 0 /\ \A k \in 1 .. c : EndOf(t, k) = e[k]
  BY <1>3, <1>4 DEF EndOf
<1>6. \A k \in 1 .. c : EndOf(t, k) \in S /\ EndOf(t, k) \in 1 .. n
  BY <1>1, <1>4, <1>5
<1>7. ASSUME NEW k \in 0 .. c PROVE EndOf(t, k) \in 0 .. n
  <2>1. k = 0 \/ k \in 1 .. c
    BY <1>4
  <2> QED
    BY <1>1, <1>5, <1>6, <2>1
<1>8. ASSUME NEW j \in 0 .. c, NEW k \in 0 .. c, j < k PROVE EndOf(t, j) < EndOf(t, k)
  <2>1. k \in 1 .. c
    BY <1>4, <1>8
  <2>2. CASE j = 0
    BY <1>1, <1>5, <1>6, <2>1, <2>2
  <2>3. CASE j # 0
    <3>1. j \in 1 .. c
      BY <1>4, <2>3
    <3> QED
      BY <1>4, <1>5, <1>8, <2>1, <3>1
  <2> QED
    BY <2>2, <2>3
<1>9. EndOf(t, c) = n
  <2>1. CASE n = 0
    <3>1. c \in 0 .. c
      BY <1>4
    <3> QED
      BY <1>7, <2>1, <3>1
  <2>2. CASE n # 0
    <3>1. n \in S
      BY <1>1, <1>2, <2>2
    <3>2. PICK k \in 1 .. c : EndOf(t, k) = n
      BY <1>4, <1>5, <3>1
    <3>3. c \in 0 .. c /\ k \in 0 .. c
      BY <1>4
    <3>4. ~(k < c)
      BY <1>1, <1>7, <1>8, <3>2, <3>3
    <3> QED
      BY <1>4, <3>2, <3>4
  <2> QED
    BY <2>1, <2>2
<1>10. \A i \in 1 .. n : t[i] = Stop => \E k \in 1 .. c : EndOf(t, k) = i
  BY <1>2, <1>4, <1>5
<1>11. \A k \in 1 .. c : EndOf(t, k) = n \/ t[EndOf(t, k)] = Stop
  BY <1>1, <1>6
<1> QED
  BY <1>3, <1>4, <1>5, <1>7, <1>8, <1>9, <1>10, <1>11

\* The part of a text between two positions.
LEMMA Part ==
  ASSUME NEW t \in Text, NEW i \in 0 .. Len(t), NEW j \in 0 .. Len(t), i <= j
  PROVE  /\ SubSeq(t, i + 1, j) \in Text
         /\ Len(SubSeq(t, i + 1, j)) = j - i
         /\ \A m \in 1 .. j - i : SubSeq(t, i + 1, j)[m] = t[i + m]
<1>1. Len(t) \in Nat /\ i \in Int /\ j \in Int /\ i + 1 \in Int
  BY TextProperties
<1>2. \A m \in i + 1 .. j : t[m] \in Atom
  BY <1>1, TextProperties
<1> DEFINE h == i + 1
<1>3. h \in Int /\ \A m \in h .. j : t[m] \in Atom
  BY <1>1, <1>2
<1> HIDE DEF h
<1>4. /\ SubSeq(t, h, j) \in Seq(Atom)
      /\ Len(SubSeq(t, h, j)) = IF h <= j THEN j - h + 1 ELSE 0
      /\ \A m \in 1 .. j - h + 1 : SubSeq(t, h, j)[m] = t[h + m - 1]
  BY <1>1, <1>3, SubSeqProperties
<1> QED
  BY <1>1, <1>4 DEF h, Text

LEMMA PartsJoin ==
  ASSUME NEW t \in Text, NEW i \in 0 .. Len(t), NEW j \in 0 .. Len(t), NEW k \in 0 .. Len(t),
         i <= j, j <= k
  PROVE  SubSeq(t, i + 1, j) \o SubSeq(t, j + 1, k) = SubSeq(t, i + 1, k)
<1> DEFINE m == i + 1
<1>1. Len(t) \in Nat
  BY TextProperties
<1>2. m \in 1 .. Len(t) + 1 /\ j \in m - 1 .. Len(t) /\ k \in j .. Len(t)
  BY <1>1
<1> HIDE DEF m
<1>3. SubSeq(t, m, j) \o SubSeq(t, j + 1, k) = SubSeq(t, m, k)
  BY <1>2, ConcatAdjacentSubSeq DEF Text
<1> QED
  BY <1>3 DEF m

LEMMA Sentences ==
  ASSUME NEW t \in Text
  PROVE  LET s == ParseSentences(t)
             c == Len(SentenceEnds(t))
         IN /\ s \in Seq(Text) /\ Len(s) = c /\ DOMAIN s = 1 .. c
            /\ \A k \in 1 .. c : s[k] = SubSeq(t, EndOf(t, k - 1) + 1, EndOf(t, k))
<1> DEFINE c == Len(SentenceEnds(t))
           s == ParseSentences(t)
<1>1. /\ c \in Nat
      /\ s = [k \in 1 .. c |-> SubSeq(t, EndOf(t, k - 1) + 1, EndOf(t, k))]
  BY Ends DEF ParseSentences
<1>2. ASSUME NEW k \in 1 .. c PROVE SubSeq(t, EndOf(t, k - 1) + 1, EndOf(t, k)) \in Text
  <2>1. k - 1 \in 0 .. c /\ k \in 0 .. c /\ k - 1 < k
    BY <1>1
  <2>2. /\ EndOf(t, k - 1) \in 0 .. Len(t) /\ EndOf(t, k) \in 0 .. Len(t)
        /\ EndOf(t, k - 1) < EndOf(t, k)
    BY <2>1, Ends
  <2>3. EndOf(t, k - 1) <= EndOf(t, k)
    BY <2>2, TextProperties
  <2> QED
    BY <2>2, <2>3, Part
<1>3. s \in [1 .. c -> Text]
  <2> HIDE DEF c, s
  <2> QED
    BY <1>1, <1>2
<1> HIDE DEF c, s
<1>4. s \in Seq(Text) /\ Len(s) = c
  BY <1>1, <1>3, SeqDef
<1> QED
  BY <1>1, <1>4 DEF c, s

\* rebuild_file of consecutive sentences is the part of the text they were cut from.
LEMMA Rebuilds ==
  ASSUME NEW t \in Text, NEW j \in 0 .. Len(SentenceEnds(t)),
         NEW k \in j .. Len(SentenceEnds(t))
  PROVE  RebuildFile(SubSeq(ParseSentences(t), j + 1, k))
           = SubSeq(t, EndOf(t, j) + 1, EndOf(t, k))
<1> DEFINE c == Len(SentenceEnds(t))
           s == ParseSentences(t)
           E(i) == EndOf(t, i)
           T == {m \in 0 .. c - j : FlattenSeq(SubSeq(s, j + 1, j + m))
                                      = SubSeq(t, E(j) + 1, E(j + m))}
<1>1. /\ c \in Nat /\ s \in Seq(Text) /\ Len(s) = c
      /\ \A i \in 1 .. c : s[i] = SubSeq(t, E(i - 1) + 1, E(i))
      /\ \A i \in 0 .. c : E(i) \in 0 .. Len(t)
      /\ \A i, l \in 0 .. c : i < l => E(i) < E(l)
  BY Ends, Sentences
<1>2. Len(t) \in Nat
  BY TextProperties
<1> HIDE DEF c, s, E
<1>3. j \in 0 .. c /\ k \in j .. c /\ c - j \in Nat
  BY <1>1 DEF c
<1>4. 0 \in T
  <2>1. SubSeq(s, j + 1, j + 0) = <<>>
    BY <1>3, SubSeqEmpty
  <2>2. E(j) \in Nat
    BY <1>1, <1>2, <1>3
  <2>3. SubSeq(t, E(j) + 1, E(j + 0)) = <<>>
    <3>1. j + 0 = j
      BY <1>3
    <3>2. E(j) + 1 \in Int /\ E(j) \in Int /\ E(j) < E(j) + 1
      BY <2>2
    <3> QED
      BY <3>1, <3>2, SubSeqEmpty
  <2>4. 0 \in 0 .. c - j
    BY <1>3
  <2> QED
    BY <2>1, <2>3, <2>4, FlattenEmpty
<1>5. ASSUME NEW m \in 0 .. (c - j) - 1, m \in T PROVE m + 1 \in T
  <2> DEFINE i == j + m
             x == s[i + 1]
             w == SubSeq(s, j + 1, i)
  <2>1. /\ i \in 0 .. c /\ i + 1 \in 1 .. c /\ i + 1 \in 0 .. c /\ j <= i
        /\ m + 1 \in 0 .. c - j /\ j + (m + 1) = i + 1 /\ (i + 1) - 1 = i
        /\ j \in 0 .. c
    BY <1>1, <1>3
  <2>2. FlattenSeq(w) = SubSeq(t, E(j) + 1, E(i))
    BY <1>5
  <2> HIDE DEF i
  <2>3. x = SubSeq(t, E(i) + 1, E(i + 1))
    BY <1>1, <2>1
  <2>4. x \in Text /\ w \in Seq(Text)
    <3>1. \A g \in j + 1 .. i : s[g] \in Text
      BY <1>1, <1>3, <2>1, ElementOfSeq
    <3>2. j + 1 \in Int /\ i \in Int
      BY <1>3, <2>1
    <3> HIDE DEF x
    <3>3. w \in Seq(Text)
      BY <3>1, <3>2, SubSeqProperties
    <3> QED
      BY <1>1, <2>1, <3>3, ElementOfSeq DEF x
  <2>5. SubSeq(s, j + 1, i + 1) = Append(w, x)
    <3> DEFINE a == j + 1
               b == i + 1
    <3>1. a \in 1 .. Len(s) /\ b \in a .. Len(s) /\ b - 1 = i
      BY <1>1, <2>1
    <3> HIDE DEF a, b
    <3>2. SubSeq(s, a, b) = SubSeq(s, a, b - 1) \o <<s[b]>>
      BY <1>1, <3>1, SubSeqRecursiveSecond
    <3>3. Append(w, x) = w \o <<x>>
      <4> HIDE DEF w, x
      <4> QED
        BY <2>4, AppendIsConcat
    <3> QED
      BY <3>1, <3>2, <3>3 DEF a, b
  <2> HIDE DEF w, x
  <2>6. FlattenSeq(Append(w, x)) = FlattenSeq(w) \o x
    BY <2>4, FlattenAppend DEF Text
  <2>7. FlattenSeq(w) \o x = SubSeq(t, E(j) + 1, E(i + 1))
    <3>1. /\ E(j) \in 0 .. Len(t) /\ E(i) \in 0 .. Len(t) /\ E(i + 1) \in 0 .. Len(t)
          /\ E(j) <= E(i) /\ E(i) <= E(i + 1)
      <4>1. E(j) \in 0 .. Len(t) /\ E(i) \in 0 .. Len(t) /\ E(i + 1) \in 0 .. Len(t)
        BY <1>1, <2>1
      <4>2. E(i) < E(i + 1)
        BY <1>1, <2>1
      <4>3. j = i \/ E(j) < E(i)
        BY <1>1, <2>1
      <4> QED
        BY <1>2, <4>1, <4>2, <4>3
    <3> QED
      BY <2>2, <2>3, <3>1, PartsJoin
  <2> QED
    BY <2>1, <2>5, <2>6, <2>7
<1>6. k - j \in T
  <2> HIDE DEF T
  <2>1. \A m \in 0 .. c - j : m \in T
    BY <1>3, <1>4, <1>5, Induction
  <2>2. k - j \in 0 .. c - j
    BY <1>1, <1>3
  <2> QED
    BY <2>1, <2>2
<1>7. j + (k - j) = k
  BY <1>1, <1>3
<1> QED
  BY <1>6, <1>7 DEF RebuildFile, s, E

\* rebuild_file puts back together exactly the file that parse_sentences took apart
\* (sentence_parser.c:19-67, 181-199).
THEOREM ParsingLosesNothing ==
  \A t \in Text : RebuildFile(ParseSentences(t)) = t
<1> SUFFICES ASSUME NEW t \in Text PROVE RebuildFile(ParseSentences(t)) = t
  OBVIOUS
<1> DEFINE c == Len(SentenceEnds(t))
           s == ParseSentences(t)
<1>1. c \in Nat /\ s \in Seq(Text) /\ Len(s) = c /\ EndOf(t, 0) = 0 /\ EndOf(t, c) = Len(t)
  BY Ends, Sentences
<1>2. RebuildFile(SubSeq(s, 0 + 1, c)) = SubSeq(t, EndOf(t, 0) + 1, EndOf(t, c))
  <2>1. 0 \in 0 .. c /\ c \in 0 .. c
    BY <1>1
  <2> QED
    BY <2>1, Rebuilds
<1>3. SubSeq(s, 1, c) = s
  <2> HIDE DEF s, c
  <2> QED
    BY <1>1, SubSeqFull
<1>4. SubSeq(t, 1, Len(t)) = t
  BY SubSeqFull DEF Text
<1> HIDE DEF s, c
<1>5. 0 + 1 = 1
  OBVIOUS
<1> QED
  BY <1>1, <1>2, <1>3, <1>4, <1>5 DEF s

\* A sentence has text, and no delimiter but at its end; only the last may have none.
LEMMA SentenceShape ==
  ASSUME NEW t \in Text, NEW k \in 1 .. Len(SentenceEnds(t))
  PROVE  LET x == ParseSentences(t)[k] IN
         /\ x \in Text /\ x # <<>>
         /\ \A i \in DOMAIN x : x[i] = Stop => i = Len(x)
         /\ k < Len(SentenceEnds(t)) => x[Len(x)] = Stop
<1> DEFINE c == Len(SentenceEnds(t))
           x == ParseSentences(t)[k]
           a == EndOf(t, k - 1)
           b == EndOf(t, k)
<1>1. c \in Nat /\ Len(t) \in Nat /\ k - 1 \in 0 .. c /\ k \in 0 .. c /\ k - 1 < k
  BY Ends, TextProperties
<1>2. a \in 0 .. Len(t) /\ b \in 0 .. Len(t) /\ a < b
  BY <1>1, Ends
<1>3. x = SubSeq(t, a + 1, b)
  BY Sentences
<1> HIDE DEF x, a, b
<1>4. x \in Text /\ Len(x) = b - a /\ \A m \in 1 .. b - a : x[m] = t[a + m]
  BY <1>1, <1>2, <1>3, Part
<1>5. DOMAIN x = 1 .. b - a /\ b - a \in Nat \ {0}
  BY <1>1, <1>2, <1>4, TextProperties
<1>6. ASSUME NEW i \in 1 .. b - a, x[i] = Stop PROVE i = b - a
  <2>1. a + i \in 1 .. Len(t) /\ t[a + i] = Stop
    BY <1>1, <1>2, <1>4, <1>6
  <2>2. PICK m \in 1 .. c : EndOf(t, m) = a + i
    BY <2>1, Ends
  <2>3. m \in 0 .. c /\ m \in Nat
    BY <1>1
  <2>4. ~(m < k)
    <3>1. CASE m = k - 1
      BY <1>1, <1>2, <2>2, <3>1 DEF a
    <3>2. ASSUME m < k - 1 PROVE FALSE
      <4>1. EndOf(t, m) < a
        BY <1>1, <2>3, <3>2, Ends DEF a
      <4> QED
        BY <1>1, <1>2, <2>2, <4>1
    <3> QED
      BY <1>1, <2>3, <3>1, <3>2
  <2>5. ~(k < m)
    <3>1. ASSUME k < m PROVE FALSE
      <4>1. b < EndOf(t, m)
        BY <1>1, <2>3, <3>1, Ends DEF b
      <4> QED
        BY <1>1, <1>2, <2>2, <4>1
    <3> QED
      BY <3>1
  <2>6. m = k
    BY <1>1, <2>3, <2>4, <2>5
  <2> QED
    BY <1>1, <1>2, <2>2, <2>6 DEF b
<1>7. ASSUME k < c PROVE x[Len(x)] = Stop
  <2>1. c \in 0 .. c /\ EndOf(t, c) = Len(t)
    BY <1>1, Ends
  <2>2. b < Len(t)
    BY <1>1, <1>7, <2>1, Ends DEF b
  <2>3. t[b] = Stop
    BY <1>1, <1>2, <2>2, Ends DEF b
  <2>4. b - a \in 1 .. b - a /\ a + (b - a) = b
    BY <1>1, <1>2
  <2> QED
    BY <1>4, <2>3, <2>4
<1> QED
  BY <1>4, <1>5, <1>6, <1>7 DEF x

-----------------------------------------------------------------------------
(* The commit.                                                             *)

LEMMA OneSentence ==
  ASSUME NEW A, NEW x \in Seq(A) PROVE FlattenSeq(<<x>>) = x
<1> DEFINE e == <<>>
<1>1. e \in Seq(Seq(A)) /\ Append(e, x) = <<x>> /\ e \in Seq(A)
  OBVIOUS
<1>2. FlattenSeq(e) = e
  BY FlattenEmpty
<1> HIDE DEF e
<1>3. FlattenSeq(Append(e, x)) = FlattenSeq(e) \o x
  BY <1>1, FlattenAppend
<1>4. e \o x = x
  BY ConcatEmptySeq DEF e
<1> QED
  BY <1>1, <1>2, <1>3, <1>4

LEMMA JoinTyped ==
  ASSUME NEW words \in Seq(Text) PROVE JoinWords(words) \in Text
<1> DEFINE n == Len(words)
           v(i) == IF i < Len(words) THEN words[i] \o <<Space>> ELSE words[i]
           w == [i \in DOMAIN words |-> v(i)]
<1>1. n \in Nat /\ DOMAIN words = 1 .. n
  BY LenProperties
<1>2. ASSUME NEW i \in 1 .. n PROVE v(i) \in Seq(Atom)
  <2>1. words[i] \in Seq(Atom)
    BY ElementOfSeq DEF Text
  <2>2. <<Space>> \in Seq(Atom)
    BY DEF Atom
  <2>3. words[i] \o <<Space>> \in Seq(Atom)
    BY <2>1, <2>2, ConcatProperties
  <2> QED
    BY <2>1, <2>3
<1>3. w \in [1 .. n -> Seq(Atom)]
  <2> HIDE DEF v
  <2> QED
    BY <1>1, <1>2
<1> HIDE DEF w
<1>4. w \in Seq(Seq(Atom))
  BY <1>1, <1>3, SeqDef
<1>5. FlattenSeq(w) \in Seq(Atom)
  BY <1>4, FlattenTyped
<1> QED
  BY <1>5 DEF JoinWords, Text, w

\* The sentences that the typed words are split into give the typed words again.
LEMMA PartsOfNew ==
  ASSUME NEW x \in Text
  PROVE  LET parts == IF HasDelimiter(x) THEN ParseSentences(x) ELSE <<x>>
         IN parts \in Seq(Text) /\ RebuildFile(parts) = x
<1>1. ParseSentences(x) \in Seq(Text) /\ RebuildFile(ParseSentences(x)) = x
  BY Sentences, ParsingLosesNothing
<1>2. <<x>> \in Seq(Text) /\ RebuildFile(<<x>>) = x
  BY OneSentence DEF Text, RebuildFile
<1> QED
  BY <1>1, <1>2

\* What comes before the n-th element, counted from 0, and what comes after it.
LEMMA Slices ==
  ASSUME NEW A, NEW s \in Seq(A), NEW n \in 0 .. Len(s)
  PROVE  SubSeq(s, 1, n) \in Seq(A) /\ SubSeq(s, n + 2, Len(s)) \in Seq(A)
<1>1. Len(s) \in Nat /\ n \in Int /\ n + 2 \in Int /\ Len(s) \in Int
  BY LenProperties
<1>2. \A i \in 1 .. n : s[i] \in A
  BY <1>1, ElementOfSeq
<1>3. \A i \in n + 2 .. Len(s) : s[i] \in A
  <2>1. \A i \in n + 2 .. Len(s) : i \in 1 .. Len(s)
    BY <1>1
  <2> QED
    BY <2>1, ElementOfSeq
<1> DEFINE m == n + 2
<1>4. m \in Int /\ \A i \in m .. Len(s) : s[i] \in A
  BY <1>1, <1>3
<1> HIDE DEF m
<1>5. SubSeq(s, m, Len(s)) \in Seq(A)
  BY <1>1, <1>4, SubSeqProperties
<1> QED
  BY <1>1, <1>2, <1>5, SubSeqProperties DEF m

\* A commit whose sentence number is in bounds makes a text.
LEMMA CommitTyped ==
  ASSUME NEW t \in Text, NEW words \in Seq(Text), NEW n \in Nat, ~CommitOutOfBounds(t, n)
  PROVE  CommitText(t, n, words) \in Text
<1> DEFINE s == ParseSentences(t)
           new == JoinWords(words)
           parts == IF HasDelimiter(new) THEN ParseSentences(new) ELSE <<new>>
           before == SubSeq(s, 1, n)
           after == SubSeq(s, n + 2, Len(s))
<1>1. s \in Seq(Text) /\ Len(s) \in Nat
  BY Sentences, Ends
<1>2. parts \in Seq(Text)
  <2>1. new \in Text
    BY JoinTyped
  <2> HIDE DEF new
  <2> QED
    BY <2>1, PartsOfNew
<1>3. CommitText(t, n, words)
        = IF s = <<>> THEN FlattenSeq(parts) ELSE FlattenSeq((before \o parts) \o after)
  BY DEF CommitText, RebuildFile
<1>4. s = <<>> \/ n \in 0 .. Len(s)
  BY <1>1, EmptySeq DEF CommitOutOfBounds
<1> HIDE DEF s, parts
<1>5. CASE s = <<>>
  BY <1>2, <1>3, <1>5, FlattenTyped DEF Text
<1>6. CASE s # <<>>
  <2>1. before \in Seq(Text) /\ after \in Seq(Text)
    BY <1>1, <1>4, <1>6, Slices
  <2> HIDE DEF before, after
  <2>2. before \o parts \in Seq(Text)
    BY <1>2, <2>1, ConcatProperties
  <2>3. (before \o parts) \o after \in Seq(Text)
    BY <2>1, <2>2, ConcatProperties
  <2> DEFINE whole == (before \o parts) \o after
  <2>4. whole \in Seq(Seq(Atom))
    BY <2>3 DEF Text
  <2> HIDE DEF whole
  <2>5. FlattenSeq(whole) \in Seq(Atom)
    BY <2>4, FlattenTyped
  <2> QED
    BY <1>3, <1>6, <2>5 DEF whole, Text
<1> QED
  BY <1>5, <1>6

\* Where a word starts: after the last white space before its end.
LEMMA WordStarts ==
  ASSUME NEW t \in Text, NEW e \in 1 .. Len(t)
  PROVE  /\ WordStart(t, e) \in 1 .. e + 1
         /\ t[e] # Space => WordStart(t, e) \in 1 .. e
<1> DEFINE Z == {0} \cup {i \in 1 .. e : t[i] = Space}
           Z1 == {i + 1 : i \in Z}
<1>1. Len(t) \in Nat /\ e \in Nat /\ e + 1 \in Nat
  BY TextProperties
<1>2. \A i \in Z : i \in Nat /\ i <= e
  BY <1>1
<1>3. Z1 \in SUBSET (1 .. e + 1) /\ Z1 # {}
  BY <1>1, <1>2
<1>4. \A i \in Z : i = e => t[e] = Space
  BY <1>1
<1>5. WordStart(t, e) = Max(Z) + 1
  BY DEF WordStart
<1> HIDE DEF Z
<1>6. PICK m \in Z1 : \A i \in Z1 : i <= m
  <2> HIDE DEF Z1
  <2> QED
    BY <1>1, <1>3, Largest
<1>7. \E i \in Z : \A j \in Z : i >= j
  <2>1. PICK i \in Z : m = i + 1
    OBVIOUS
  <2>2. ASSUME NEW j \in Z PROVE i >= j
    <3>1. j + 1 \in Z1
      OBVIOUS
    <3>2. j + 1 <= m
      BY <1>6, <3>1
    <3> QED
      BY <1>2, <2>1, <3>2
  <2> QED
    BY <2>2
<1>8. Max(Z) \in Z
  BY <1>7 DEF Max
<1> QED
  BY <1>1, <1>2, <1>4, <1>5, <1>8

\* A word ends before a white space or at the end of the text.
EndsOfWords(t) == {i \in DOMAIN t : t[i] # Space /\ (i < Len(t) => t[i + 1] = Space)}

LEMMA WordsEnd ==
  ASSUME NEW t \in Text
  PROVE  LET c == Len(WordEnds(t)) IN
         /\ EndsOfWords(t) \in SUBSET (1 .. Len(t))
         /\ c \in Nat /\ c = Cardinality(EndsOfWords(t)) /\ DOMAIN WordEnds(t) = 1 .. c
         /\ \A k \in 1 .. c : /\ WordEnds(t)[k] \in 1 .. Len(t)
                              /\ t[WordEnds(t)[k]] # Space
<1> DEFINE S == EndsOfWords(t)
           e == Ordered(S)
<1>1. /\ Len(t) \in Nat /\ DOMAIN t = 1 .. Len(t)
      /\ S \in SUBSET (1 .. Len(t)) /\ \A i \in S : t[i] # Space
  BY TextProperties DEF EndsOfWords
<1>2. WordEnds(t) = e
  BY DEF WordEnds, EndsOfWords
<1> HIDE DEF S, e
<1>3. /\ Len(e) = Cardinality(S) /\ DOMAIN e = 1 .. Cardinality(S)
      /\ \A k \in 1 .. Cardinality(S) : e[k] \in S
  BY <1>1, OrderedMembers DEF e
<1>4. Cardinality(S) \in Nat
  BY <1>1, Interval
<1> QED
  BY <1>1, <1>2, <1>3, <1>4 DEF S

\* parse_words makes texts, and none of them is empty.
LEMMA WordsTyped ==
  ASSUME NEW t \in Text
  PROVE  /\ ParseWords(t) \in Seq(Text)
         /\ Len(ParseWords(t)) = Len(WordEnds(t))
         /\ \A k \in DOMAIN ParseWords(t) : ParseWords(t)[k] # <<>>
<1> DEFINE ends == WordEnds(t)
           c == Len(ends)
           w(k) == SubSeq(t, WordStart(t, ends[k]), ends[k])
<1>1. Len(t) \in Nat /\ DOMAIN t = 1 .. Len(t)
  BY TextProperties
<1>2. /\ c \in Nat /\ DOMAIN ends = 1 .. c
      /\ \A k \in 1 .. c : ends[k] \in 1 .. Len(t) /\ t[ends[k]] # Space
  BY WordsEnd
<1>3. ASSUME NEW k \in 1 .. c PROVE w(k) \in Text /\ w(k) # <<>>
  <2> DEFINE e == ends[k]
             a == WordStart(t, e)
  <2>1. e \in 1 .. Len(t) /\ t[e] # Space
    BY <1>2
  <2> HIDE DEF ends, e
  <2>2. a \in 1 .. e
    BY <2>1, WordStarts
  <2> HIDE DEF a
  <2>3. a \in Int /\ e \in Int /\ a <= e /\ \A i \in a .. e : i \in 1 .. Len(t)
    BY <1>1, <2>1, <2>2
  <2>4. \A i \in a .. e : t[i] \in Atom
    BY <2>3, TextProperties
  <2>5. SubSeq(t, a, e) \in Seq(Atom) /\ Len(SubSeq(t, a, e)) = e - a + 1
    BY <2>3, <2>4, SubSeqProperties
  <2>6. Len(SubSeq(t, a, e)) # Len(<<>>)
    BY <2>3, <2>5
  <2> QED
    BY <2>5, <2>6 DEF a, e, Text
<1>4. ParseWords(t) = [k \in 1 .. c |-> w(k)]
  BY <1>2 DEF ParseWords
<1>5. [k \in 1 .. c |-> w(k)] \in [1 .. c -> Text]
  <2> HIDE DEF w, c
  <2> QED
    BY <1>3
<1>6. \A k \in 1 .. c : ParseWords(t)[k] # <<>>
  <2> HIDE DEF w, c
  <2> QED
    BY <1>3, <1>4
<1> HIDE DEF c, w
<1>7. ParseWords(t) \in [1 .. c -> Text]
  BY <1>4, <1>5
<1>8. ParseWords(t) \in Seq(Text) /\ Len(ParseWords(t)) = c /\ DOMAIN ParseWords(t) = 1 .. c
  BY <1>2, <1>7, SeqDef
<1> QED
  BY <1>6, <1>8 DEF c

\* A text with no word is white space.
LEMMA NoWordIsBlank ==
  ASSUME NEW t \in Text, ParseWords(t) = <<>>
  PROVE  \A i \in 1 .. Len(t) : t[i] = Space
<1> DEFINE B == {i \in 1 .. Len(t) : t[i] # Space}
           S == EndsOfWords(t)
<1>1. Len(t) \in Nat /\ DOMAIN t = 1 .. Len(t) /\ B \in SUBSET (1 .. Len(t))
  BY TextProperties
<1>2. S = {}
  <2>1. S \in SUBSET (1 .. Len(t)) /\ Len(WordEnds(t)) = Cardinality(S)
    BY WordsEnd
  <2>2. Cardinality(S) = 0
    BY <2>1, WordsTyped
  <2>3. IsFiniteSet(S)
    BY <1>1, <2>1, Interval
  <2> HIDE DEF S
  <2> QED
    BY <2>2, <2>3, FS_EmptySet
<1>3. ASSUME B # {} PROVE FALSE
  <2>1. PICK i \in B : \A j \in B : j <= i
    <3> HIDE DEF B
    <3> QED
      BY <1>1, <1>3, Largest
  <2>2. i \in 1 .. Len(t) /\ i \in Nat /\ t[i] # Space
    BY <1>1
  <2>3. i < Len(t) => t[i + 1] = Space
    <3>1. ASSUME i < Len(t), t[i + 1] # Space PROVE FALSE
      <4>1. i + 1 \in B
        BY <1>1, <2>2, <3>1
      <4> QED
        BY <2>1, <2>2, <4>1
    <3> QED
      BY <3>1
  <2>4. i \in S
    BY <1>1, <2>2, <2>3 DEF EndsOfWords
  <2> QED
    BY <1>2, <2>4
<1> QED
  BY <1>3

\* v is b, then x, then a, where b has n elements.
Between(v, b, x, a, n) ==
  /\ Len(v) = n + 1 + Len(a)
  /\ \A i \in 1 .. n : v[i] = b[i]
  /\ v[n + 1] = x
  /\ \A i \in n + 2 .. n + 1 + Len(a) : v[i] = a[i - (n + 1)]

\* One element between two sequences.
LEMMA InTheMiddle ==
  ASSUME NEW A, NEW b \in Seq(A), NEW x \in A, NEW a \in Seq(A), NEW n \in Nat, Len(b) = n,
         NEW v, v = Cat(Cat(b, <<x>>), a)
  PROVE  v \in Seq(A) /\ Between(v, b, x, a, n)
<1> DEFINE one == <<x>>
           c == b \o one
           w == c \o a
<1>1. one \in Seq(A) /\ Len(one) = 1 /\ one[1] = x
  OBVIOUS
<1> HIDE DEF one
<1>2. Len(b) \in Nat /\ Len(a) \in Nat
  BY LenProperties
<1>3. /\ c \in Seq(A) /\ Len(c) = Len(b) + Len(one)
      /\ \A i \in 1 .. Len(b) + Len(one) : c[i] = IF i <= Len(b) THEN b[i] ELSE one[i - Len(b)]
  BY <1>1, ConcatProperties
<1>4. Len(c) = n + 1 /\ \A i \in 1 .. n + 1 : c[i] = IF i <= n THEN b[i] ELSE one[i - n]
  BY <1>1, <1>3
<1>5. (\A i \in 1 .. n : c[i] = b[i]) /\ c[n + 1] = x
  BY <1>1, <1>4
<1>5a. c \in Seq(A)
  BY <1>3
<1> HIDE DEF c
<1>6. /\ w \in Seq(A) /\ Len(w) = Len(c) + Len(a)
      /\ \A i \in 1 .. Len(c) + Len(a) : w[i] = IF i <= Len(c) THEN c[i] ELSE a[i - Len(c)]
  BY <1>5a, ConcatProperties
<1> HIDE DEF w
<1>7. \A i \in 1 .. n : w[i] = b[i]
  BY <1>2, <1>4, <1>5, <1>6
<1>8. w[n + 1] = x
  BY <1>2, <1>4, <1>5, <1>6
<1>9. \A i \in n + 2 .. n + 1 + Len(a) : w[i] = a[i - (n + 1)]
  BY <1>2, <1>4, <1>6
<1>10. v = w
  BY Zenon DEF w, c, one, Cat
<1>11. w \in Seq(A) /\ Len(w) = n + 1 + Len(a)
  BY <1>4, <1>6
<1> QED
  BY <1>7, <1>8, <1>9, <1>10, <1>11 DEF Between

\* A word inserted among the words.
LEMMA InsertTyped ==
  ASSUME NEW A, NEW s \in Seq(A), NEW i \in 0 .. Len(s), NEW x \in A
  PROVE  InsertAt(s, i + 1, x) \in Seq(A)
<1>1. Len(s) \in Nat /\ i + 1 - 1 = i
  BY LenProperties
<1>2. \A k \in 1 .. i : s[k] \in A
  BY <1>1, ElementOfSeq
<1>3. \A k \in i + 1 .. Len(s) : s[k] \in A
  <2>1. \A k \in i + 1 .. Len(s) : k \in 1 .. Len(s)
    BY <1>1
  <2> QED
    BY <2>1, ElementOfSeq
<1> DEFINE b == SubSeq(s, 1, i)
           j == i + 1
           a == SubSeq(s, j, Len(s))
<1>4. j \in Int /\ \A k \in j .. Len(s) : s[k] \in A
  BY <1>1, <1>3
<1> HIDE DEF j
<1>5. b \in Seq(A)
  BY <1>1, <1>2, SubSeqProperties
<1>6. a \in Seq(A)
  BY <1>1, <1>4, SubSeqProperties
<1>7. InsertAt(s, j, x) = (b \o <<x>>) \o a
  <2>1. InsertAt(s, j, x) = (SubSeq(s, 1, j - 1) \o <<x>>) \o a
    BY DEF InsertAt
  <2>2. j - 1 = i
    BY <1>1 DEF j
  <2> QED
    BY <2>1, <2>2
<1> HIDE DEF a, b
<1> DEFINE n == Len(b)
           w == (b \o <<x>>) \o a
<1>8. n \in Nat /\ Len(b) = n
  BY <1>5, LenProperties
<1> HIDE DEF n
<1>9. w \in Seq(A)
  <2>1. w = Cat(Cat(b, <<x>>), a)
    BY Zenon DEF Cat
  <2> HIDE DEF w
  <2> QED
    BY <1>5, <1>6, <1>8, <2>1, InTheMiddle, Zenon
<1> QED
  BY <1>7, <1>9 DEF j

\* A commit leaves every character before and after its sentence alone and puts the
\* typed words in between, whatever the text, the sentence and the words
\* (storage_server.c:488-574).
THEOREM CommitReplacesSentence ==
  \A t \in Text, words \in Seq(Text) : \A n \in 0 .. Len(ParseSentences(t)) :
    CommitText(t, n, words) = Splice(t, n, words)
<1> SUFFICES ASSUME NEW t \in Text, NEW words \in Seq(Text),
                    NEW n \in 0 .. Len(ParseSentences(t))
             PROVE  CommitText(t, n, words) = Splice(t, n, words)
  OBVIOUS
<1> DEFINE c == Len(SentenceEnds(t))
           s == ParseSentences(t)
           new == JoinWords(words)
           parts == IF HasDelimiter(new) THEN ParseSentences(new) ELSE <<new>>
           next == IF n < c THEN EndOf(t, n + 1) ELSE Len(t)
           head == SubSeq(t, 1, EndOf(t, n))
           tail == SubSeq(t, next + 1, Len(t))
           before == SubSeq(s, 1, n)
           after == SubSeq(s, n + 2, Len(s))
<1>1. /\ c \in Nat /\ s \in Seq(Text) /\ Len(s) = c /\ n \in 0 .. c /\ Len(t) \in Nat
      /\ EndOf(t, 0) = 0 /\ EndOf(t, c) = Len(t)
      /\ \A k \in 0 .. c : EndOf(t, k) \in 0 .. Len(t)
  BY Ends, Sentences, TextProperties
<1>2. new \in Text /\ parts \in Seq(Text) /\ RebuildFile(parts) = new
  <2>1. new \in Text
    BY JoinTyped
  <2> HIDE DEF new
  <2> QED
    BY <2>1, PartsOfNew
<1>3. Splice(t, n, words) = (head \o new) \o tail
  BY DEF Splice
<1>4. CommitText(t, n, words)
        = IF s = <<>> THEN RebuildFile(parts)
          ELSE RebuildFile((before \o parts) \o after)
  BY DEF CommitText
<1>5. RebuildFile(before) = head
  <2>1. 0 \in 0 .. c /\ n \in 0 .. c /\ 0 + 1 = 1
    BY <1>1
  <2>2. RebuildFile(SubSeq(s, 0 + 1, n)) = SubSeq(t, EndOf(t, 0) + 1, EndOf(t, n))
    BY <2>1, Rebuilds
  <2> HIDE DEF s
  <2> QED
    BY <1>1, <2>1, <2>2
<1>6. RebuildFile(after) = tail
  <2>1. CASE n < c
    <3>1. n + 1 \in 0 .. c /\ c \in n + 1 .. c /\ (n + 1) + 1 = n + 2
      BY <1>1, <2>1
    <3>2. RebuildFile(SubSeq(s, (n + 1) + 1, c))
            = SubSeq(t, EndOf(t, n + 1) + 1, EndOf(t, c))
      BY <3>1, Rebuilds
    <3> HIDE DEF s
    <3> QED
      BY <1>1, <2>1, <3>1, <3>2
  <2>2. CASE n = c
    <3>1. after = <<>>
      <4>1. n + 2 \in Int /\ Len(s) \in Int /\ Len(s) < n + 2
        BY <1>1, <2>2
      <4> QED
        BY <4>1, SubSeqEmpty
    <3>2. tail = <<>>
      <4>1. next = Len(t) /\ Len(t) + 1 \in Int /\ Len(t) < Len(t) + 1
        BY <1>1, <2>2
      <4> QED
        BY <1>1, <4>1, SubSeqEmpty
    <3> QED
      BY <3>1, <3>2, FlattenEmpty DEF RebuildFile
  <2> QED
    BY <1>1, <2>1, <2>2
<1>7. head \in Text /\ tail \in Text /\ before \in Seq(Text) /\ after \in Seq(Text)
  <2>1. EndOf(t, n) \in 0 .. Len(t) /\ next \in 0 .. Len(t)
    <3>1. n \in 0 .. c /\ (n < c => n + 1 \in 0 .. c)
      BY <1>1
    <3> QED
      BY <1>1, <3>1
  <2>2. before \in Seq(Text) /\ after \in Seq(Text)
    <3> HIDE DEF s
    <3> QED
      BY <1>1, Slices
  <2>4. head \in Text
    <3>1. \A i \in 1 .. EndOf(t, n) : t[i] \in Atom
      BY <1>1, <2>1, TextProperties
    <3>2. EndOf(t, n) \in Int
      BY <1>1, <2>1
    <3> QED
      BY <3>1, <3>2, SubSeqProperties DEF Text
  <2>5. tail \in Text
    <3>1. Len(t) \in 0 .. Len(t) /\ next <= Len(t)
      BY <1>1, <2>1
    <3> HIDE DEF next
    <3> QED
      BY <2>1, <3>1, Part
  <2> QED
    BY <2>2, <2>4, <2>5
<1> HIDE DEF c, s, new, parts, next, head, tail, before, after
<1>8. CASE s = <<>>
  <2>1. c = 0 /\ n = 0
    BY <1>1, <1>8
  <2>2. head = <<>> /\ tail = <<>>
    <3>1. before = <<>>
      <4>1. SubSeq(s, 1, 0) = <<>>
        BY SubSeqEmpty
      <4> QED
        BY <2>1, <4>1 DEF before
    <3>2. after = <<>>
      <4>1. Len(s) = 0 /\ SubSeq(s, 2, 0) = <<>>
        BY <1>1, <2>1, SubSeqEmpty
      <4>2. n + 2 = 2
        BY <2>1
      <4> QED
        BY <4>1, <4>2 DEF after
    <3> QED
      BY <1>5, <1>6, <3>1, <3>2, FlattenEmpty DEF RebuildFile
  <2>3. (head \o new) \o tail = new
    BY <1>2, <2>2, ConcatEmptySeq DEF Text
  <2> QED
    BY <1>2, <1>3, <1>4, <1>8, <2>3
<1>9. CASE s # <<>>
  <2>1. before \o parts \in Seq(Text)
    BY <1>2, <1>7, ConcatProperties
  <2>2. FlattenSeq((before \o parts) \o after) = FlattenSeq(before \o parts) \o FlattenSeq(after)
    BY <1>7, <2>1, FlattenConcat DEF Text
  <2>3. FlattenSeq(before \o parts) = FlattenSeq(before) \o FlattenSeq(parts)
    BY <1>2, <1>7, FlattenConcat DEF Text
  <2> QED
    BY <1>2, <1>3, <1>4, <1>5, <1>6, <1>9, <2>2, <2>3 DEF RebuildFile
<1> QED
  BY <1>8, <1>9

-----------------------------------------------------------------------------
(* Words that have something in them.                                      *)

HasWord(words) == \E i \in DOMAIN words : words[i] # <<>>

\* A part that is not empty makes the whole not empty.
LEMMA FlattenKeeps ==
  ASSUME NEW A, NEW s \in Seq(Seq(A)), HasWord(s)
  PROVE  FlattenSeq(s) # <<>>
<1> DEFINE n == Len(s)
<1>1. n \in Nat /\ DOMAIN s = 1 .. n
  BY LenProperties
<1>2. PICK i \in 1 .. n : s[i] # <<>>
  BY <1>1 DEF HasWord
<1>3. PICK f : Concats(A, s, f)
  BY ConcatsExist
<1>4. FlattenSeq(s) = f[n]
  BY <1>3, FlattenIsConcats
<1> HIDE DEF n
<1>5. /\ \A k \in 0 .. n : f[k] \in Seq(A)
      /\ \A k \in 1 .. n : f[k] = f[k - 1] \o s[k]
  BY <1>3 DEF Concats, n
<1>6. ASSUME NEW k \in 1 .. n
      PROVE  /\ Len(f[k]) = Len(f[k - 1]) + Len(s[k])
             /\ Len(f[k - 1]) \in Nat /\ Len(s[k]) \in Nat
  <2> DEFINE x == f[k - 1]
             y == s[k]
  <2>1. x \in Seq(A) /\ y \in Seq(A) /\ f[k] = x \o y
    <3>1. k - 1 \in 0 .. n
      BY <1>1
    <3> QED
      BY <1>5, <3>1, ElementOfSeq DEF n
  <2> HIDE DEF x, y
  <2>2. Len(x) \in Nat /\ Len(y) \in Nat /\ Len(x \o y) = Len(x) + Len(y)
    BY <2>1, LenProperties, ConcatProperties
  <2> QED
    BY <2>1, <2>2 DEF x, y
<1> DEFINE T == {k \in 0 .. n : k >= i => Len(f[k]) > 0}
<1>7. 0 \in T
  BY <1>1, <1>2
<1>8. ASSUME NEW k \in 0 .. n - 1, k \in T PROVE k + 1 \in T
  <2>1. k + 1 \in 1 .. n /\ (k + 1) - 1 = k /\ k \in Nat /\ i \in Nat
    BY <1>1
  <2>2. /\ Len(f[k + 1]) = Len(f[k]) + Len(s[k + 1])
        /\ Len(f[k]) \in Nat /\ Len(s[k + 1]) \in Nat
    BY <1>6, <2>1
  <2>3. Len(s[i]) # 0
    <3>1. s[i] \in Seq(A) /\ s[i] # <<>>
      BY <1>2, ElementOfSeq DEF n
    <3> QED
      BY <3>1, EmptySeq
  <2>4. k >= i => Len(f[k]) > 0
    BY <1>8
  <2>5. ASSUME k + 1 >= i PROVE Len(f[k + 1]) > 0
    <3> DEFINE p == Len(f[k])
               q == Len(s[k + 1])
    <3>1. Len(f[k + 1]) = p + q /\ p \in Nat /\ q \in Nat
      BY <2>2
    <3>2. p > 0 \/ q # 0
      BY <2>1, <2>3, <2>4, <2>5
    <3> HIDE DEF p, q
    <3>3. p + q > 0
      BY <3>1, <3>2
    <3> QED
      BY <3>1, <3>3
  <2>6. k + 1 \in 0 .. n
    BY <1>1
  <2> QED
    BY <2>5, <2>6
<1> HIDE DEF T
<1>9. n \in T
  <2>1. \A k \in 0 .. n : k \in T
    BY <1>1, <1>7, <1>8, Induction
  <2> QED
    BY <1>1, <2>1
<1>10. Len(f[n]) > 0
  BY <1>1, <1>9 DEF T
<1> QED
  BY <1>4, <1>10

\* A session with a word that is not empty commits a sentence that is not empty.
LEMMA JoinKeeps ==
  ASSUME NEW words \in Seq(Text), HasWord(words)
  PROVE  JoinWords(words) # <<>>
<1> DEFINE n == Len(words)
           v(i) == IF i < Len(words) THEN words[i] \o <<Space>> ELSE words[i]
           w == [i \in DOMAIN words |-> v(i)]
<1>1. n \in Nat /\ DOMAIN words = 1 .. n
  BY LenProperties
<1>2. ASSUME NEW i \in 1 .. n
      PROVE  v(i) \in Seq(Atom) /\ (words[i] # <<>> => v(i) # <<>>)
  <2> DEFINE x == words[i]
             one == <<Space>>
  <2>1. x \in Seq(Atom) /\ one \in Seq(Atom) /\ Len(one) = 1
    BY ElementOfSeq DEF Text, Atom
  <2>2. v(i) = x \o one \/ v(i) = x
    OBVIOUS
  <2> HIDE DEF x, one
  <2>3. x \o one \in Seq(Atom) /\ Len(x \o one) = Len(x) + Len(one) /\ Len(x) \in Nat
    BY <2>1, ConcatProperties, LenProperties
  <2>4. x \o one # <<>>
    <3>1. Len(x \o one) # Len(<<>>)
      BY <2>1, <2>3
    <3> QED
      BY <3>1
  <2> HIDE DEF v
  <2> QED
    BY <2>1, <2>2, <2>3, <2>4 DEF x
<1>3. w \in [1 .. n -> Seq(Atom)] /\ \A i \in 1 .. n : words[i] # <<>> => w[i] # <<>>
  <2> HIDE DEF v
  <2> QED
    BY <1>1, <1>2
<1>4. JoinWords(words) = FlattenSeq(w)
  BY DEF JoinWords
<1> HIDE DEF w
<1>5. w \in Seq(Seq(Atom)) /\ DOMAIN w = 1 .. n
  BY <1>1, <1>3, SeqDef
<1>6. HasWord(w)
  BY <1>1, <1>3, <1>5 DEF HasWord
<1> QED
  BY <1>4, <1>5, <1>6, FlattenKeeps

\* Typing one more word keeps the words there are.
LEMMA InsertKeeps ==
  ASSUME NEW s \in Seq(Text), NEW i \in 0 .. Len(s), NEW x \in Text, HasWord(s)
  PROVE  HasWord(InsertAt(s, i + 1, x))
<1> DEFINE b == SubSeq(s, 1, i)
           h == i + 1
           a == SubSeq(s, h, Len(s))
           v == InsertAt(s, h, x)
<1>1. Len(s) \in Nat /\ DOMAIN s = 1 .. Len(s) /\ i \in Nat /\ h \in Nat /\ h - 1 = i
  BY LenProperties
<1>2. b \in Seq(Text) /\ Len(b) = i /\ \A k \in 1 .. i : b[k] = s[k]
  <2>1. \A k \in 1 .. i : s[k] \in Text
    BY <1>1, ElementOfSeq
  <2>2. /\ b \in Seq(Text) /\ Len(b) = (IF 1 <= i THEN i - 1 + 1 ELSE 0)
        /\ \A k \in 1 .. i - 1 + 1 : b[k] = s[1 + k - 1]
    BY <1>1, <2>1, SubSeqProperties
  <2>3. Len(b) = i
    BY <1>1, <2>2
  <2>4. ASSUME NEW k \in 1 .. i PROVE b[k] = s[k]
    <3>1. k \in 1 .. i - 1 + 1 /\ 1 + k - 1 = k
      BY <1>1
    <3> QED
      BY <2>2, <3>1
  <2> QED
    BY <2>2, <2>3, <2>4
<1>3. /\ a \in Seq(Text) /\ Len(a) = Len(s) - i
      /\ \A k \in 1 .. Len(s) - i : a[k] = s[i + k]
  <2>1. \A k \in h .. Len(s) : s[k] \in Text
    <3>1. \A k \in h .. Len(s) : k \in 1 .. Len(s)
      BY <1>1
    <3> QED
      BY <3>1, ElementOfSeq
  <2>2. /\ a \in Seq(Text) /\ Len(a) = (IF h <= Len(s) THEN Len(s) - h + 1 ELSE 0)
        /\ \A k \in 1 .. Len(s) - h + 1 : a[k] = s[h + k - 1]
    <3> HIDE DEF h
    <3> QED
      BY <1>1, <2>1, SubSeqProperties
  <2>3. Len(a) = Len(s) - i
    <3> DEFINE m == Len(s)
    <3>1. Len(a) = (IF h <= m THEN m - h + 1 ELSE 0) /\ m \in Nat /\ i \in 0 .. m
      BY <1>1, <2>2
    <3> HIDE DEF a, m
    <3>2. Len(a) = m - i
      BY <3>1
    <3> QED
      BY <3>2 DEF m
  <2>4. ASSUME NEW k \in 1 .. Len(s) - i PROVE a[k] = s[i + k]
    <3>1. k \in 1 .. Len(s) - h + 1 /\ h + k - 1 = i + k
      BY <1>1
    <3> QED
      BY <2>2, <3>1
  <2> QED
    BY <2>2, <2>3, <2>4
<1>4. v = (b \o <<x>>) \o a
  BY <1>1 DEF InsertAt
<1> HIDE DEF h, b, a, v
<1>5. v \in Seq(Text) /\ Between(v, b, x, a, i)
  <2>1. v = Cat(Cat(b, <<x>>), a)
    BY <1>4, Zenon DEF Cat
  <2> QED
    BY <1>1, <1>2, <1>3, <2>1, InTheMiddle, Zenon
<1>6. PICK k \in 1 .. Len(s) : s[k] # <<>>
  BY <1>1 DEF HasWord
<1>7. Len(v) = Len(s) + 1 /\ DOMAIN v = 1 .. Len(s) + 1
  BY <1>1, <1>3, <1>5, LenProperties DEF Between
<1>8. CASE k <= i
  <2>1. k \in 1 .. i /\ k \in 1 .. Len(s) + 1
    BY <1>1, <1>8
  <2>2. v[k] = s[k]
    BY <1>2, <1>5, <2>1 DEF Between
  <2> QED
    BY <1>6, <1>7, <2>1, <2>2 DEF HasWord, h, v
<1>9. CASE k > i
  <2>1. /\ k + 1 \in i + 2 .. i + 1 + Len(a) /\ k + 1 \in 1 .. Len(s) + 1
        /\ (k + 1) - (i + 1) \in 1 .. Len(s) - i /\ i + ((k + 1) - (i + 1)) = k
    BY <1>1, <1>3, <1>9
  <2>2. v[k + 1] = a[(k + 1) - (i + 1)]
    BY <1>5, <2>1 DEF Between
  <2>3. v[k + 1] = s[k]
    BY <1>3, <2>1, <2>2
  <2> QED
    BY <1>6, <1>7, <2>1, <2>3 DEF HasWord, h, v
<1> QED
  BY <1>1, <1>8, <1>9

\* A commit that empties a file had nothing but white space to replace, unless the
\* session forgot the words it started from (storage_server.c:488-574).
LEMMA EmptiedWasBlank ==
  ASSUME NEW t \in Text, NEW words \in Seq(Text), NEW n \in 0 .. Len(ParseSentences(t)),
         CommitText(t, n, words) = <<>>,
         \/ HasWord(words)
         \/ n < Len(ParseSentences(t)) => ParseWords(ParseSentences(t)[n + 1]) = <<>>
  PROVE  \A i \in 1 .. Len(t) : t[i] = Space
<1> DEFINE c == Len(SentenceEnds(t))
           e(k) == EndOf(t, k)
           new == JoinWords(words)
           next == IF n < c THEN e(n + 1) ELSE Len(t)
           head == SubSeq(t, 1, e(n))
           tail == SubSeq(t, next + 1, Len(t))
<1>1. /\ c \in Nat /\ n \in 0 .. c /\ Len(t) \in Nat /\ Len(ParseSentences(t)) = c
      /\ e(0) = 0 /\ e(c) = Len(t)
      /\ \A k \in 0 .. c : e(k) \in 0 .. Len(t)
      /\ \A j, k \in 0 .. c : j < k => e(j) < e(k)
  BY Ends, Sentences, TextProperties
<1>2. CommitText(t, n, words) = (head \o new) \o tail
  BY CommitReplacesSentence DEF Splice
<1> HIDE DEF c, e, new
<1>3. next \in 0 .. Len(t) /\ e(n) \in 0 .. Len(t)
  <2>1. n < c => n + 1 \in 0 .. c
    BY <1>1
  <2> QED
    BY <1>1, <2>1
<1> HIDE DEF next
<1>4. head \in Text /\ Len(head) = e(n) /\ tail \in Text /\ Len(tail) = Len(t) - next
  <2>1. SubSeq(t, 0 + 1, e(n)) \in Text /\ Len(SubSeq(t, 0 + 1, e(n))) = e(n) - 0
    <3>1. 0 \in 0 .. Len(t) /\ 0 <= e(n)
      BY <1>1, <1>3
    <3> QED
      BY <1>3, <3>1, Part
  <2>2. tail \in Text /\ Len(tail) = Len(t) - next
    <3>1. Len(t) \in 0 .. Len(t) /\ next <= Len(t)
      BY <1>1, <1>3
    <3> QED
      BY <1>3, <3>1, Part
  <2> QED
    BY <1>3, <2>1, <2>2
<1>5. new \in Text
  BY JoinTyped DEF new
<1> HIDE DEF head, tail
<1>6. e(n) = 0 /\ new = <<>> /\ next = Len(t)
  <2>1. /\ head \o new \in Text /\ Len(head \o new) = Len(head) + Len(new)
        /\ Len((head \o new) \o tail) = Len(head \o new) + Len(tail)
        /\ Len(new) \in Nat
    <3>1. head \o new \in Text /\ Len(head \o new) = Len(head) + Len(new)
      BY <1>4, <1>5, ConcatProperties, Zenon DEF Text
    <3>2. Len((head \o new) \o tail) = Len(head \o new) + Len(tail)
      BY <1>4, <3>1, ConcatProperties, Zenon DEF Text
    <3>3. Len(new) \in Nat
      BY <1>5, TextProperties
    <3> QED
      BY <3>1, <3>2, <3>3
  <2>2. Len((head \o new) \o tail) = 0
    BY <1>2
  <2>3. Len(head) = 0 /\ Len(new) = 0 /\ Len(tail) = 0
    BY <1>1, <1>3, <1>4, <2>1, <2>2
  <2> QED
    BY <1>1, <1>3, <1>4, <1>5, <2>3, EmptySeq DEF Text
<1>7. n = 0
  <2>1. ASSUME 0 < n PROVE FALSE
    <3>1. 0 \in 0 .. c /\ n \in 0 .. c
      BY <1>1
    <3>2. e(0) < e(n)
      BY <1>1, <2>1, <3>1
    <3> QED
      BY <1>1, <1>6, <3>2
  <2> QED
    BY <1>1, <2>1
<1>8. CASE c = 0
  BY <1>1, <1>8
<1>9. CASE c # 0
  <2>1. c = 1
    <3>1. e(1) = Len(t)
      BY <1>1, <1>6, <1>7, <1>9 DEF next
    <3>2. ASSUME 1 < c PROVE FALSE
      <4>1. 1 \in 0 .. c /\ c \in 0 .. c
        BY <1>1, <3>2
      <4>2. e(1) < e(c)
        BY <1>1, <3>2, <4>1
      <4> QED
        BY <1>1, <3>1, <4>2
    <3> QED
      BY <1>1, <1>9, <3>2
  <2>2. ParseSentences(t)[1] = t
    <3>1. ParseSentences(t)[1] = SubSeq(t, EndOf(t, 1 - 1) + 1, EndOf(t, 1))
      BY <2>1, Sentences DEF c
    <3>2. EndOf(t, 1 - 1) = 0 /\ EndOf(t, 1) = Len(t)
      BY <1>1, <2>1 DEF e
    <3>3. SubSeq(t, 1, Len(t)) = t
      BY SubSeqFull DEF Text
    <3> QED
      BY <3>1, <3>2, <3>3
  <2>3. ~HasWord(words)
    BY <1>6, JoinKeeps DEF new
  <2>4. ParseWords(t) = <<>>
    BY <1>1, <1>7, <2>1, <2>2, <2>3
  <2> QED
    BY <2>4, NoWordIsBlank
<1> QED
  BY <1>8, <1>9
=============================================================================
