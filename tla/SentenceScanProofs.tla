------------------------- MODULE SentenceScanProofs -------------------------
(***************************************************************************)
(* The loops of sentence_parser.c and of the commit compute the closed     *)
(* forms of SentenceParser on every text, so what is proved of the closed  *)
(* forms holds of the loops. Each loop is a recursive function; the proofs *)
(* say what it has found after p characters, step by step.                 *)
(***************************************************************************)
EXTENDS SentenceScan, SentenceParserProofs

-----------------------------------------------------------------------------
(* parse_sentences                                                         *)

\* The last member of a sequence of positions, and 0 before any.
LastOf(d) == IF Len(d) = 0 THEN 0 ELSE d[Len(d)]

\* The parts of t that end at the positions d.
Cut(t, d) == [k \in 1 .. Len(d) |-> SubSeq(t, (IF k = 1 THEN 0 ELSE d[k - 1]) + 1, d[k])]

LEMMA CutAppend ==
  ASSUME NEW t, NEW d \in Seq(Nat), NEW e \in Nat
  PROVE  /\ Cut(t, Append(d, e)) = Append(Cut(t, d), SubSeq(t, LastOf(d) + 1, e))
         /\ LastOf(Append(d, e)) = e
<1> DEFINE n == Len(d)
           r == Append(d, e)
           v(k) == SubSeq(t, (IF k = 1 THEN 0 ELSE r[k - 1]) + 1, r[k])
           x == SubSeq(t, LastOf(d) + 1, e)
<1>1. /\ n \in Nat /\ Len(r) = n + 1 /\ r[n + 1] = e
      /\ \A k \in 1 .. n : r[k] = d[k]
  BY AppendProperties
<1> HIDE DEF r
<1>2. LastOf(r) = e
  BY <1>1 DEF LastOf
<1>3. Cut(t, r) = [k \in 1 .. n + 1 |-> v(k)]
  BY <1>1 DEF Cut
<1>4. ASSUME NEW k \in 1 .. n PROVE Cut(t, d)[k] = v(k)
  <2>1. k = 1 \/ k - 1 \in 1 .. n
    BY <1>1
  <2> QED
    BY <1>1, <2>1 DEF Cut
<1>5. v(n + 1) = x
  <2>1. n = 0 \/ n \in 1 .. n
    BY <1>1
  <2>2. (n + 1) - 1 = n /\ (n + 1 = 1 <=> n = 0)
    BY <1>1
  <2>3. v(n + 1) = SubSeq(t, (IF n = 0 THEN 0 ELSE r[n]) + 1, e)
    BY <1>1, <2>2
  <2>4. LastOf(d) = IF n = 0 THEN 0 ELSE r[n]
    BY <1>1, <2>1 DEF LastOf
  <2> HIDE DEF v, n
  <2> QED
    BY <2>3, <2>4
<1>6. Append(Cut(t, d), x) = [k \in 1 .. n + 1 |-> IF k <= n THEN Cut(t, d)[k] ELSE x]
  <2>1. Cut(t, d) \in Seq(Range(Cut(t, d)) \cup {x}) /\ Len(Cut(t, d)) = n
    <3> DEFINE V == Range(Cut(t, d)) \cup {x}
    <3>1. Cut(t, d) \in [1 .. n -> V]
      BY DEF Cut, Range
    <3> HIDE DEF V
    <3> QED
      BY <1>1, <3>1, SeqDef DEF V
  <2> DEFINE V == Range(Cut(t, d)) \cup {x}
             c == Cut(t, d)
  <2>2. c \in Seq(V) /\ x \in V /\ Len(c) = n
    BY <2>1
  <2> HIDE DEF V, c, x
  <2>3. /\ Append(c, x) \in Seq(V) /\ Len(Append(c, x)) = n + 1
        /\ \A k \in 1 .. n : Append(c, x)[k] = c[k]
        /\ Append(c, x)[n + 1] = x
    BY <2>2, AppendProperties
  <2>4. DOMAIN Append(c, x) = 1 .. n + 1
        /\ Append(c, x) = [k \in 1 .. n + 1 |-> Append(c, x)[k]]
    BY <1>1, <2>3, LenProperties
  <2>5. \A k \in 1 .. n + 1 : Append(c, x)[k] = IF k <= n THEN c[k] ELSE x
    <3>1. \A k \in 1 .. n + 1 : k \in 1 .. n \/ k = n + 1
      BY <1>1
    <3> QED
      BY <1>1, <2>3, <3>1
  <2> QED
    BY <2>4, <2>5 DEF c
<1>7. \A k \in 1 .. n + 1 : v(k) = IF k <= n THEN Cut(t, d)[k] ELSE x
  <2> HIDE DEF v, x
  <2>1. \A k \in 1 .. n + 1 : k \in 1 .. n \/ k = n + 1
    BY <1>1
  <2> QED
    BY <1>1, <1>4, <1>5, <2>1
<1> QED
  <2> HIDE DEF v, x, n
  <2>1. Cut(t, r) = Append(Cut(t, d), x)
    BY <1>3, <1>6, <1>7
  <2> QED
    BY <1>2, <2>1 DEF r, x

\* The delimiters among the first p characters.
Stops(t, p) == Ordered({i \in 1 .. p : t[i] = Stop})

LEMMA StopsStep ==
  ASSUME NEW t \in Text, NEW p \in 1 .. Len(t)
  PROVE  /\ Stops(t, p - 1) \in Seq(Nat)
         /\ Stops(t, p) = IF t[p] = Stop THEN Append(Stops(t, p - 1), p)
                                         ELSE Stops(t, p - 1)
<1> DEFINE S == {i \in 1 .. p - 1 : t[i] = Stop}
           S1 == {i \in 1 .. p : t[i] = Stop}
<1>1. Len(t) \in Nat /\ p \in Nat /\ p - 1 \in Nat /\ p - 1 < p
  BY TextProperties
<1>2. S \in SUBSET (1 .. p - 1) /\ S \in SUBSET Nat
  BY <1>1
<1>3. S1 = IF t[p] = Stop THEN S \cup {p} ELSE S
  <2>1. \A i : i \in 1 .. p <=> i \in 1 .. p - 1 \/ i = p
    BY <1>1
  <2> QED
    BY <2>1
<1>4. Stops(t, p - 1) = Ordered(S) /\ Stops(t, p) = Ordered(S1)
  BY DEF Stops
<1> HIDE DEF S, S1
<1>5. Ordered(S) \in Seq(S)
  BY <1>1, <1>2, OrderedMembers
<1>6. Ordered(S) \in Seq(Nat)
  BY <1>2, <1>5, SeqMonotonic
<1>7. Ordered(S \cup {p}) = Append(Ordered(S), p)
  BY <1>1, <1>2, OrderedAppend
<1> QED
  BY <1>3, <1>4, <1>6, <1>7

\* What the loop has found after p characters.
Found(t, p) == [start |-> LastOf(Stops(t, p)) + 1, out |-> Cut(t, Stops(t, p))]

LEMMA FoundStep ==
  ASSUME NEW t \in Text
  PROVE  /\ Found(t, 0) = [start |-> 1, out |-> <<>>]
         /\ \A p \in 1 .. Len(t) : Found(t, p) = SentenceStep(t, p, Found(t, p - 1))
<1>1. Found(t, 0) = [start |-> 1, out |-> <<>>]
  <2>1. {i \in 1 .. 0 : t[i] = Stop} = {}
    OBVIOUS
  <2>2. Stops(t, 0) = <<>>
    BY <2>1, OrderedEmpty DEF Stops
  <2>3. LastOf(<<>>) = 0 /\ Cut(t, <<>>) = <<>>
    BY DEF LastOf, Cut
  <2> QED
    BY <2>2, <2>3 DEF Found
<1>2. ASSUME NEW p \in 1 .. Len(t) PROVE Found(t, p) = SentenceStep(t, p, Found(t, p - 1))
  <2> DEFINE d == Stops(t, p - 1)
  <2>1. d \in Seq(Nat) /\ Stops(t, p) = IF t[p] = Stop THEN Append(d, p) ELSE d
    BY StopsStep
  <2>2. p \in Nat
    OBVIOUS
  <2> HIDE DEF d
  <2>3. /\ Cut(t, Append(d, p)) = Append(Cut(t, d), SubSeq(t, LastOf(d) + 1, p))
        /\ LastOf(Append(d, p)) = p
    BY <2>1, <2>2, CutAppend
  <2>4. Found(t, p - 1) = [start |-> LastOf(d) + 1, out |-> Cut(t, d)]
    BY DEF Found, d
  <2>5. CASE t[p] = Stop
    <3>1. Found(t, p) = [start |-> p + 1,
                         out |-> Append(Cut(t, d), SubSeq(t, LastOf(d) + 1, p))]
      BY <2>1, <2>3, <2>5 DEF Found
    <3> DEFINE f == Found(t, p - 1)
    <3>2. f.start = LastOf(d) + 1 /\ f.out = Cut(t, d)
      BY <2>4
    <3>3. SentenceStep(t, p, f)
            = [start |-> p + 1, out |-> Append(f.out, SubSeq(t, f.start, p))]
      BY <2>5 DEF SentenceStep
    <3> HIDE DEF f
    <3> QED
      BY <3>1, <3>2, <3>3 DEF f
  <2>6. CASE t[p] # Stop
    <3>1. Found(t, p) = Found(t, p - 1)
      BY <2>1, <2>4, <2>6 DEF Found
    <3> QED
      BY <2>6, <3>1 DEF SentenceStep
  <2> QED
    BY <2>5, <2>6
<1> QED
  BY <1>1, <1>2

\* The loop of parse_sentences and split_by_delimiters finds the sentences
\* (sentence_parser.c:19-68).
LEMMA ScanIsParse ==
  ASSUME NEW t \in Text PROVE ScanSentences(t) = ParseSentences(t)
<1> DEFINE n == Len(t)
           Eq(h) == h = [p \in 0 .. n |-> IF p = 0 THEN [start |-> 1, out |-> <<>>]
                                          ELSE SentenceStep(t, p, h[p - 1])]
           F == CHOOSE h : Eq(h)
           g == [p \in 0 .. n |-> Found(t, p)]
           last == LastOf(Stops(t, n))
           d == Stops(t, n)
<1>1. n \in Nat /\ DOMAIN t = 1 .. n
  BY TextProperties
<1>2. Eq(g)
  <2>1. ASSUME NEW p \in 0 .. n
        PROVE  Found(t, p) = IF p = 0 THEN [start |-> 1, out |-> <<>>]
                             ELSE SentenceStep(t, p, g[p - 1])
    <3>1. CASE p = 0
      BY <3>1, FoundStep
    <3>2. CASE p # 0
      <4>1. p \in 1 .. n /\ p - 1 \in 0 .. n
        BY <1>1, <3>2
      <4>2. g[p - 1] = Found(t, p - 1)
        BY <4>1
      <4> HIDE DEF g
      <4>3. Found(t, p) = SentenceStep(t, p, Found(t, p - 1))
        BY <4>1, FoundStep
      <4> QED
        BY <3>2, <4>2, <4>3
    <3> QED
      BY <3>1, <3>2
  <2>2. g = [p \in 0 .. n |-> IF p = 0 THEN [start |-> 1, out |-> <<>>]
                              ELSE SentenceStep(t, p, g[p - 1])]
    BY <2>1
  <2> QED
    BY <2>2
<1>3. Eq(F)
  <2> HIDE DEF Eq, g
  <2> QED
    BY <1>2
<1>4. F[n] = Found(t, n)
  <2> DEFINE T == {p \in 0 .. n : F[p] = g[p]}
  <2> HIDE DEF F, g
  <2>1. 0 \in T
    BY <1>1, <1>2, <1>3
  <2>2. ASSUME NEW p \in 0 .. n - 1, p \in T PROVE p + 1 \in T
    <3>1. p + 1 \in 0 .. n /\ p + 1 # 0 /\ (p + 1) - 1 = p
      BY <1>1
    <3>2. F[p + 1] = SentenceStep(t, p + 1, F[p])
      BY <1>3, <3>1
    <3>3. g[p + 1] = SentenceStep(t, p + 1, g[p])
      BY <1>2, <3>1
    <3>4. F[p] = g[p]
      BY <2>2
    <3> QED
      BY <3>1, <3>2, <3>3, <3>4
  <2>3. \A p \in 0 .. n : p \in T
    <3> HIDE DEF T
    <3> QED
      BY <1>1, <2>1, <2>2, Induction
  <2>4. F[n] = g[n] /\ n \in 0 .. n
    BY <1>1, <2>3
  <2> QED
    BY <2>4 DEF g
<1>5. ScanSentences(t) = IF F[n].start <= n THEN Append(F[n].out, SubSeq(t, F[n].start, n))
                         ELSE F[n].out
  BY DEF ScanSentences
<1>6. F[n].start = last + 1 /\ F[n].out = Cut(t, d)
  BY <1>4 DEF Found
<1> HIDE DEF F
<1>7. ParseSentences(t) = Cut(t, SentenceEnds(t))
  <2> DEFINE e == SentenceEnds(t)
  <2>1. Len(e) \in Nat /\ DOMAIN e = 1 .. Len(e)
    BY Ends
  <2>2. ASSUME NEW k \in 1 .. Len(e)
        PROVE  /\ EndOf(t, k - 1) = IF k = 1 THEN 0 ELSE e[k - 1]
               /\ EndOf(t, k) = e[k]
    <3>1. k # 0 /\ (k - 1 = 0 <=> k = 1)
      BY <2>1
    <3> QED
      BY <3>1 DEF EndOf
  <2> HIDE DEF e
  <2>3. ParseSentences(t)
          = [k \in 1 .. Len(e) |-> SubSeq(t, EndOf(t, k - 1) + 1, EndOf(t, k))]
    BY <2>1 DEF ParseSentences, e
  <2> QED
    BY <2>2, <2>3 DEF Cut, e
<1> DEFINE S == {i \in 1 .. n : t[i] = Stop}
           Z == {i \in DOMAIN t : t[i] = Stop \/ i = Len(t)}
<1>8. S \in SUBSET (1 .. n) /\ d = Ordered(S) /\ SentenceEnds(t) = Ordered(Z)
  BY DEF Stops, SentenceEnds
<1>9. d \in Seq(Nat) /\ Len(d) = Cardinality(S) /\ \A k \in 1 .. Len(d) : d[k] \in S
  <2> HIDE DEF S, d
  <2>1. d \in Seq(S) /\ Len(d) = Cardinality(S) /\ \A k \in 1 .. Len(d) : d[k] \in S
    BY <1>1, <1>8, OrderedMembers
  <2>2. S \in SUBSET Nat
    BY <1>1, <1>8
  <2> QED
    BY <2>1, <2>2, SeqMonotonic
<1>10. last \in 0 .. n /\ (last = n => n = 0 \/ n \in S)
  <2>1. Len(d) \in Nat
    BY <1>9, LenProperties
  <2>2. CASE Len(d) = 0
    BY <1>1, <2>2 DEF LastOf
  <2>3. CASE Len(d) # 0
    <3>1. last \in S
      <4>1. Len(d) \in 1 .. Len(d)
        BY <2>1, <2>3
      <4> HIDE DEF S
      <4> QED
        BY <1>9, <2>3, <4>1 DEF LastOf
    <3> QED
      BY <1>1, <3>1
  <2> QED
    BY <2>2, <2>3
<1>11. n \in S => last = n
  <2>1. ASSUME n \in S PROVE last = n
    <3> HIDE DEF S
    <3>1. PICK k \in 1 .. Cardinality(S) : d[k] = n
      BY <1>1, <1>8, <2>1, OrderedOnto
    <3>2. Cardinality(S) \in Nat
      BY <1>1, <1>8, Interval
    <3>3. Len(d) \in 1 .. Cardinality(S) /\ Len(d) # 0
      BY <1>9, <3>1, <3>2
    <3>4. k = Len(d) \/ d[k] < d[Len(d)]
      <4>1. k = Len(d) \/ k < Len(d)
        BY <1>9, <3>1, <3>2
      <4> QED
        BY <1>1, <1>8, <3>3, <4>1, OrderedIncreases
    <3>5. last = d[Len(d)]
      BY <3>3 DEF LastOf
    <3> QED
      BY <1>1, <1>10, <3>1, <3>4, <3>5
  <2> QED
    BY <2>1
<1>12. CASE last = n
  <2>1. Z = S
    BY <1>1, <1>10, <1>12
  <2>2. ~(last + 1 <= n)
    BY <1>1, <1>12
  <2> QED
    BY <1>5, <1>6, <1>7, <1>8, <2>1, <2>2
<1>13. CASE last # n
  <2>1. n \notin S /\ last + 1 <= n /\ n \in 1 .. n
    BY <1>1, <1>10, <1>11, <1>13
  <2>2. Z = S \cup {n}
    BY <1>1, <2>1
  <2>3. S \in SUBSET (1 .. n - 1) /\ n - 1 \in Nat /\ n - 1 < n
    <3>1. \A i \in S : i \in 1 .. n - 1
      BY <1>1, <2>1
    <3> QED
      BY <1>1, <2>1, <3>1
  <2>4. Ordered(Z) = Append(d, n)
    <3> HIDE DEF S, Z
    <3> QED
      BY <1>1, <1>8, <2>2, <2>3, OrderedAppend
  <2>5. Cut(t, Append(d, n)) = Append(Cut(t, d), SubSeq(t, last + 1, n))
    <3> HIDE DEF d
    <3> QED
      BY <1>1, <1>9, CutAppend DEF d
  <2> HIDE DEF last
  <2> QED
    BY <1>5, <1>6, <1>7, <1>8, <2>1, <2>4, <2>5
<1> QED
  BY <1>12, <1>13

-----------------------------------------------------------------------------
(* parse_words                                                             *)

\* The words of t that end at the positions d.
Word(t, e) == SubSeq(t, WordStart(t, e), e)
Pieces(t, d) == [k \in 1 .. Len(d) |-> Word(t, d[k])]

LEMMA PiecesAppend ==
  ASSUME NEW t, NEW d \in Seq(Nat), NEW e \in Nat
  PROVE  Pieces(t, Append(d, e)) = Append(Pieces(t, d), Word(t, e))
<1> DEFINE n == Len(d)
           r == Append(d, e)
           V == {Word(t, i) : i \in Nat}
           p == Pieces(t, d)
           q == Pieces(t, r)
           x == Word(t, e)
<1>1. /\ n \in Nat /\ Len(r) = n + 1 /\ r[n + 1] = e
      /\ \A k \in 1 .. n : r[k] = d[k] /\ d[k] \in Nat
  BY AppendProperties, ElementOfSeq
<1> HIDE DEF r
<1>2. x \in V /\ \A k \in 1 .. n : Word(t, d[k]) \in V
  BY <1>1
<1>3. p \in [1 .. n -> V] /\ \A k \in 1 .. n : p[k] = Word(t, d[k])
  <2> HIDE DEF V
  <2> QED
    BY <1>2 DEF Pieces
<1>4. q \in [1 .. n + 1 -> V] /\ q[n + 1] = x /\ \A k \in 1 .. n : q[k] = Word(t, d[k])
  <2>1. \A k \in 1 .. n + 1 : k \in 1 .. n \/ k = n + 1
    BY <1>1
  <2>2. q = [k \in 1 .. n + 1 |-> Word(t, r[k])]
    BY <1>1 DEF Pieces
  <2> HIDE DEF V, q
  <2>3. n + 1 \in 1 .. n + 1 /\ \A k \in 1 .. n : k \in 1 .. n + 1
    BY <1>1
  <2> QED
    BY <1>1, <1>2, <2>1, <2>2, <2>3
<1> HIDE DEF V, p, q, x
<1>5. p \in Seq(V) /\ q \in Seq(V) /\ Len(p) = n /\ Len(q) = n + 1
  <2>1. n \in Nat /\ n + 1 \in Nat
    BY <1>1
  <2> HIDE DEF n
  <2>2. p \in Seq(V) /\ Len(p) = n
    BY <1>3, <2>1, SeqDef
  <2> DEFINE m == n + 1
  <2>3. m \in Nat /\ q \in [1 .. m -> V]
    BY <1>4, <2>1
  <2> HIDE DEF m
  <2>4. q \in Seq(V) /\ Len(q) = m
    BY <2>3, SeqDef
  <2> QED
    BY <2>2, <2>4 DEF m
<1>6. /\ Append(p, x) \in Seq(V) /\ Len(Append(p, x)) = n + 1
      /\ \A k \in 1 .. n : Append(p, x)[k] = p[k]
      /\ Append(p, x)[n + 1] = x
  BY <1>2, <1>5, AppendProperties
<1>7. \A k \in 1 .. n + 1 : q[k] = Append(p, x)[k]
  <2>1. \A k \in 1 .. n + 1 : k \in 1 .. n \/ k = n + 1
    BY <1>1
  <2> QED
    BY <1>3, <1>4, <1>6, <2>1
<1>8. q = Append(p, x)
  BY <1>5, <1>6, <1>7, SeqEqual
<1> QED
  BY <1>8 DEF p, q, r, x

\* A word starts where the run without white space that ends at p does.
LEMMA Starts ==
  ASSUME NEW t \in Text, NEW p \in 0 .. Len(t)
  PROVE  /\ p = 0 => WordStart(t, p) = 1
         /\ p # 0 => WordStart(t, p) = IF t[p] = Space THEN p + 1 ELSE WordStart(t, p - 1)
         /\ WordStart(t, p) \in 1 .. p + 1
         /\ WordStart(t, p) = p + 1 <=> p = 0 \/ t[p] = Space
<1> DEFINE Z(i) == {0} \cup {j \in 1 .. i : t[j] = Space}
<1>1. p \in Nat
  BY TextProperties
<1>2. ASSUME NEW i \in Nat PROVE /\ Max(Z(i)) \in Z(i) /\ \A j \in Z(i) : j <= Max(Z(i))
                                 /\ WordStart(t, i) = Max(Z(i)) + 1
  <2> DEFINE Z1 == {j + 1 : j \in Z(i)}
  <2>1. \A j \in Z(i) : j \in Nat /\ j <= i
    OBVIOUS
  <2>2. Z1 \in SUBSET (1 .. i + 1) /\ Z1 # {} /\ i + 1 \in Nat
    BY <2>1
  <2>3. WordStart(t, i) = Max(Z(i)) + 1
    BY DEF WordStart
  <2> HIDE DEF Z
  <2>4. PICK m \in Z1 : \A j \in Z1 : j <= m
    <3> HIDE DEF Z1
    <3> QED
      BY <2>2, Largest
  <2>5. \E j \in Z(i) : \A k \in Z(i) : j >= k
    <3>1. PICK j \in Z(i) : m = j + 1
      OBVIOUS
    <3>2. ASSUME NEW k \in Z(i) PROVE j >= k
      <4>1. k + 1 \in Z1
        OBVIOUS
      <4>2. k + 1 <= m
        BY <2>4, <4>1
      <4> QED
        BY <2>1, <3>1, <4>2
    <3> QED
      BY <3>2
  <2> DEFINE M == CHOOSE j \in Z(i) : \A k \in Z(i) : j >= k
  <2>6. M \in Z(i) /\ \A k \in Z(i) : M >= k
    BY <2>5
  <2>7. M = Max(Z(i))
    BY DEF Max
  <2> HIDE DEF M
  <2> QED
    BY <2>1, <2>3, <2>6, <2>7
<1>3. Max(Z(p)) \in Nat /\ Max(Z(p)) <= p /\ WordStart(t, p) = Max(Z(p)) + 1
  <2>1. \A j \in Z(p) : j \in Nat /\ j <= p
    BY <1>1
  <2> HIDE DEF Z
  <2> QED
    BY <1>1, <1>2, <2>1
<1>4. WordStart(t, p) \in 1 .. p + 1
  <2> HIDE DEF Z
  <2> QED
    BY <1>1, <1>3
<1>5. Max(Z(p)) = p <=> p = 0 \/ t[p] = Space
  <2>1. ASSUME Max(Z(p)) = p PROVE p = 0 \/ t[p] = Space
    <3>1. p \in Z(p)
      <4> HIDE DEF Z
      <4> QED
        BY <1>1, <1>2, <2>1
    <3> QED
      BY <3>1
  <2>2. ASSUME p = 0 \/ t[p] = Space PROVE Max(Z(p)) = p
    <3>1. p \in Z(p)
      BY <1>1, <2>2
    <3> HIDE DEF Z
    <3> QED
      BY <1>1, <1>2, <1>3, <3>1
  <2> QED
    BY <2>1, <2>2
<1>6. ASSUME p # 0, t[p] # Space PROVE WordStart(t, p) = WordStart(t, p - 1)
  <2>1. p - 1 \in Nat /\ \A j : j \in 1 .. p <=> j \in 1 .. p - 1 \/ j = p
    BY <1>1, <1>6
  <2>2. Z(p) = Z(p - 1)
    BY <1>6, <2>1
  <2> HIDE DEF Z
  <2> QED
    BY <1>1, <1>2, <2>1, <2>2
<1> HIDE DEF Z
<1>7. WordStart(t, p) = p + 1 <=> p = 0 \/ t[p] = Space
  BY <1>1, <1>3, <1>5
<1> QED
  BY <1>1, <1>4, <1>6, <1>7

\* The words that are complete when p characters have been read, and what is in the
\* buffer.
Closed(t, p) == {i \in 1 .. p - 1 : t[i] # Space /\ t[i + 1] = Space}
ReadWords(t, p) == [buf |-> Word(t, p), out |-> Pieces(t, Ordered(Closed(t, p)))]

\* The word in the buffer ends where the reading does.
Pending(t, p) == IF p = 0 \/ t[p] = Space THEN {} ELSE {p}

LEMMA FlushStep ==
  ASSUME NEW t \in Text, NEW p \in 0 .. Len(t)
  PROVE  Flushed(ReadWords(t, p)) = Pieces(t, Ordered(Closed(t, p) \cup Pending(t, p)))
<1> DEFINE S == Closed(t, p)
           d == Ordered(S)
           w == Word(t, p)
           r == ReadWords(t, p)
<1>1. p \in Nat /\ Len(t) \in Nat
  BY TextProperties
<1>2. r.buf = w /\ r.out = Pieces(t, d)
  BY DEF ReadWords
<1>3. Flushed(r) = IF w # <<>> THEN Append(Pieces(t, d), w) ELSE Pieces(t, d)
  BY <1>2 DEF Flushed
<1>4. WordStart(t, p) \in 1 .. p + 1 /\ (WordStart(t, p) = p + 1 <=> p = 0 \/ t[p] = Space)
  BY Starts
<1> HIDE DEF r
<1>5. CASE p = 0 \/ t[p] = Space
  <2>1. w = <<>>
    <3>1. WordStart(t, p) \in Int /\ p \in Int /\ p < WordStart(t, p)
      BY <1>1, <1>4, <1>5
    <3> QED
      BY <3>1, SubSeqEmpty DEF Word
  <2>2. S \cup Pending(t, p) = S
    BY <1>5 DEF Pending
  <2> QED
    BY <1>3, <2>1, <2>2 DEF r
<1>6. CASE ~(p = 0 \/ t[p] = Space)
  <2>1. w # <<>>
    <3> DEFINE a == WordStart(t, p) - 1
    <3>1. a \in 0 .. Len(t) /\ p \in 0 .. Len(t) /\ a <= p /\ a # p /\ a + 1 = WordStart(t, p)
      BY <1>1, <1>4, <1>6
    <3> HIDE DEF a
    <3>2. Len(SubSeq(t, a + 1, p)) = p - a
      BY <3>1, Part
    <3>3. Len(w) # 0
      BY <1>1, <3>1, <3>2 DEF Word
    <3> QED
      BY <3>3
  <2>2. S \cup Pending(t, p) = S \cup {p}
    BY <1>6 DEF Pending
  <2>3. p - 1 \in Nat /\ p - 1 < p /\ S \in SUBSET (1 .. p - 1) /\ S \in SUBSET Nat
    BY <1>1, <1>6 DEF Closed
  <2> HIDE DEF S
  <2>4. Ordered(S \cup {p}) = Append(d, p)
    BY <1>1, <2>3, OrderedAppend
  <2>5. d \in Seq(Nat)
    <3>1. d \in Seq(S)
      BY <2>3, OrderedMembers
    <3> HIDE DEF d
    <3> QED
      BY <2>3, <3>1, SeqMonotonic
  <2> HIDE DEF d, w
  <2>6. Pieces(t, Append(d, p)) = Append(Pieces(t, d), Word(t, p))
    BY <1>1, <2>5, PiecesAppend
  <2> QED
    BY <1>3, <2>1, <2>2, <2>4, <2>6 DEF r, w, S
<1> QED
  BY <1>5, <1>6

LEMMA ReadStep ==
  ASSUME NEW t \in Text
  PROVE  /\ ReadWords(t, 0) = [buf |-> <<>>, out |-> <<>>]
         /\ \A p \in 1 .. Len(t) : ReadWords(t, p) = WordStep(t, p, ReadWords(t, p - 1))
<1>0. Len(t) \in Nat
  BY TextProperties
<1>1. ReadWords(t, 0) = [buf |-> <<>>, out |-> <<>>]
  <2>1. Closed(t, 0) = {}
    BY DEF Closed
  <2>2. Pieces(t, <<>>) = <<>>
    BY DEF Pieces
  <2>3. 0 \in 0 .. Len(t)
    BY <1>0
  <2>4. WordStart(t, 0) = 1
    BY <2>3, Starts
  <2>5. SubSeq(t, 1, 0) = <<>>
    BY SubSeqEmpty
  <2>6. Word(t, 0) = <<>>
    BY <2>4, <2>5 DEF Word
  <2> QED
    BY <2>1, <2>2, <2>6, OrderedEmpty DEF ReadWords
<1>2. ASSUME NEW p \in 1 .. Len(t) PROVE ReadWords(t, p) = WordStep(t, p, ReadWords(t, p - 1))
  <2> DEFINE r == ReadWords(t, p - 1)
             S == Closed(t, p - 1)
  <2>1. /\ p \in Nat /\ p \in 0 .. Len(t) /\ p - 1 \in 0 .. Len(t) /\ p - 1 \in Nat /\ p # 0
        /\ p - 1 + 1 = p
    BY <1>0
  <2>2. Flushed(r) = Pieces(t, Ordered(S \cup Pending(t, p - 1)))
    BY <2>1, FlushStep
  <2>3. r.buf = Word(t, p - 1) /\ r.out = Pieces(t, Ordered(S))
    BY DEF ReadWords
  <2>4. \A i : i \in 1 .. p - 1 <=> i \in 1 .. (p - 1) - 1 \/ (i = p - 1 /\ p - 1 # 0)
    BY <2>1
  <2>5. WordStart(t, p) = IF t[p] = Space THEN p + 1 ELSE WordStart(t, p - 1)
    BY <2>1, Starts
  <2>6. WordStart(t, p - 1) \in 1 .. p
    BY <2>1, Starts
  <2>7. CASE t[p] = Space
    <3>1. Word(t, p) = <<>>
      <4>1. WordStart(t, p) = p + 1 /\ p + 1 \in Int /\ p \in Int /\ p < p + 1
        BY <2>1, <2>5, <2>7
      <4> QED
        BY <4>1, SubSeqEmpty DEF Word
    <3>2. Closed(t, p) = S \cup Pending(t, p - 1)
      BY <2>1, <2>4, <2>7 DEF Closed, Pending
    <3>3. ReadWords(t, p) = [buf |-> <<>>, out |-> Flushed(r)]
      BY <2>2, <3>1, <3>2 DEF ReadWords
    <3> QED
      BY <2>7, <3>3 DEF WordStep
  <2>8. CASE t[p] # Space
    <3>1. Closed(t, p) = S
      BY <2>1, <2>4, <2>8 DEF Closed
    <3>2. Word(t, p) = Append(Word(t, p - 1), t[p])
      <4> DEFINE a == WordStart(t, p - 1)
      <4>1. a \in 1 .. Len(t) /\ p \in a .. Len(t) /\ WordStart(t, p) = a
        BY <1>0, <2>1, <2>5, <2>6, <2>8
      <4> HIDE DEF a
      <4>2. SubSeq(t, a, p) = SubSeq(t, a, p - 1) \o <<t[p]>>
        BY <4>1, SubSeqRecursiveSecond DEF Text
      <4>3. SubSeq(t, a, p - 1) \in Seq(Atom)
        <5>1. a \in Int /\ p - 1 \in Int /\ \A i \in a .. p - 1 : i \in 1 .. Len(t)
          BY <1>0, <2>1, <4>1
        <5>2. \A i \in a .. p - 1 : t[i] \in Atom
          BY <5>1, TextProperties
        <5> QED
          BY <5>1, <5>2, SubSeqProperties
      <4>4. t[p] \in Atom
        BY TextProperties
      <4> DEFINE x == SubSeq(t, a, p - 1)
      <4>5. x \in Seq(Atom)
        BY <4>3
      <4> HIDE DEF x
      <4>6. x \o <<t[p]>> = Append(x, t[p])
        BY <4>4, <4>5, AppendIsConcat
      <4> QED
        BY <4>1, <4>2, <4>6 DEF Word, x, a
    <3>3. ReadWords(t, p) = [buf |-> Append(r.buf, t[p]), out |-> r.out]
      <4> HIDE DEF r
      <4> QED
        BY <2>3, <3>1, <3>2 DEF ReadWords
    <3> QED
      BY <2>8, <3>3 DEF WordStep
  <2> QED
    BY <2>7, <2>8
<1> QED
  BY <1>1, <1>2

\* The loop of parse_words finds the maximal runs without white space
\* (sentence_parser.c:75-126).
LEMMA ScanIsWords ==
  ASSUME NEW t \in Text PROVE ScanWords(t) = ParseWords(t)
<1> DEFINE n == Len(t)
           Eq(h) == h = [p \in 0 .. n |-> IF p = 0 THEN [buf |-> <<>>, out |-> <<>>]
                                          ELSE WordStep(t, p, h[p - 1])]
           F == CHOOSE h : Eq(h)
           g == [p \in 0 .. n |-> ReadWords(t, p)]
<1>1. n \in Nat /\ DOMAIN t = 1 .. n /\ n \in 0 .. n
  BY TextProperties
<1>2. Eq(g)
  <2>1. ASSUME NEW p \in 0 .. n
        PROVE  ReadWords(t, p) = IF p = 0 THEN [buf |-> <<>>, out |-> <<>>]
                                 ELSE WordStep(t, p, g[p - 1])
    <3>1. CASE p = 0
      BY <3>1, ReadStep
    <3>2. CASE p # 0
      <4>1. p \in 1 .. n /\ p - 1 \in 0 .. n
        BY <1>1, <3>2
      <4>2. g[p - 1] = ReadWords(t, p - 1)
        BY <4>1
      <4> HIDE DEF g
      <4>3. ReadWords(t, p) = WordStep(t, p, ReadWords(t, p - 1))
        BY <4>1, ReadStep
      <4> QED
        BY <3>2, <4>2, <4>3
    <3> QED
      BY <3>1, <3>2
  <2>2. g = [p \in 0 .. n |-> IF p = 0 THEN [buf |-> <<>>, out |-> <<>>]
                              ELSE WordStep(t, p, g[p - 1])]
    BY <2>1
  <2> QED
    BY <2>2
<1>3. Eq(F)
  <2> HIDE DEF Eq, g
  <2> QED
    BY <1>2
<1>4. F[n] = ReadWords(t, n)
  <2> DEFINE T == {p \in 0 .. n : F[p] = g[p]}
  <2> HIDE DEF F, g
  <2>1. 0 \in T
    BY <1>1, <1>2, <1>3
  <2>2. ASSUME NEW p \in 0 .. n - 1, p \in T PROVE p + 1 \in T
    <3>1. p + 1 \in 0 .. n /\ p + 1 # 0 /\ (p + 1) - 1 = p
      BY <1>1
    <3>2. F[p + 1] = WordStep(t, p + 1, F[p])
      BY <1>3, <3>1
    <3>3. g[p + 1] = WordStep(t, p + 1, g[p])
      BY <1>2, <3>1
    <3>4. F[p] = g[p]
      BY <2>2
    <3> QED
      BY <3>1, <3>2, <3>3, <3>4
  <2>3. \A p \in 0 .. n : p \in T
    <3> HIDE DEF T
    <3> QED
      BY <1>1, <2>1, <2>2, Induction
  <2>4. F[n] = g[n]
    BY <1>1, <2>3
  <2> QED
    BY <1>1, <2>4 DEF g
<1>5. ScanWords(t) = Flushed(F[n])
  BY DEF ScanWords
<1> HIDE DEF F
<1>6. ScanWords(t) = Pieces(t, Ordered(Closed(t, n) \cup Pending(t, n)))
  BY <1>1, <1>4, <1>5, FlushStep
<1> DEFINE Z == {i \in DOMAIN t : t[i] # Space /\ (i < Len(t) => t[i + 1] = Space)}
<1>7. Closed(t, n) \cup Pending(t, n) = Z
  <2>1. \A i : i \in 1 .. n <=> i \in 1 .. n - 1 \/ (i = n /\ n # 0)
    BY <1>1
  <2>2. \A i \in 1 .. n - 1 : i < n
    BY <1>1
  <2> QED
    BY <1>1, <2>1, <2>2 DEF Closed, Pending
<1>8. WordEnds(t) = Ordered(Z) /\ Z \in SUBSET (1 .. n)
  BY <1>1 DEF WordEnds
<1>9. ParseWords(t) = Pieces(t, WordEnds(t))
  <2> DEFINE e == WordEnds(t)
  <2>1. DOMAIN e = 1 .. Len(e)
    <3> HIDE DEF Z
    <3>1. e \in Seq(Z)
      BY <1>1, <1>8, OrderedMembers
    <3> HIDE DEF e
    <3> QED
      BY <3>1, LenProperties
  <2> HIDE DEF e
  <2>2. ParseWords(t) = [k \in DOMAIN e |-> SubSeq(t, WordStart(t, e[k]), e[k])]
    BY DEF ParseWords, e
  <2> QED
    BY <2>1, <2>2 DEF Pieces, Word, e
<1> HIDE DEF Z
<1> QED
  BY <1>6, <1>7, <1>8, <1>9

-----------------------------------------------------------------------------
(* The strcat loop                                                         *)

\* The loop over the session's words joins them (storage_server.c:495-501).
LEMMA CatIsJoin ==
  ASSUME NEW ws \in Seq(Text) PROVE CatWords(ws) = JoinWords(ws)
<1> DEFINE n == Len(ws)
           gap(i) == IF i < n THEN <<Space>> ELSE <<>>
           v(i) == IF i < n THEN ws[i] \o <<Space>> ELSE ws[i]
           w == [i \in DOMAIN ws |-> v(i)]
           Eq(h) == h = [i \in 0 .. n |-> IF i = 0 THEN <<>> ELSE (h[i - 1] \o ws[i]) \o gap(i)]
           F == CHOOSE h : Eq(h)
<1>1. n \in Nat /\ DOMAIN ws = 1 .. n /\ \A i \in 1 .. n : ws[i] \in Seq(Atom)
  BY LenProperties, ElementOfSeq DEF Text
<1>2. ASSUME NEW i \in 1 .. n PROVE gap(i) \in Seq(Atom) /\ v(i) \in Seq(Atom) /\ v(i) = ws[i] \o gap(i)
  <2>1. ws[i] \in Seq(Atom) /\ <<Space>> \in Seq(Atom) /\ <<>> \in Seq(Atom)
    BY <1>1 DEF Atom
  <2>2. ws[i] \o <<Space>> \in Seq(Atom) /\ ws[i] \o <<>> = ws[i]
    BY <2>1, ConcatProperties, ConcatEmptySeq
  <2> QED
    BY <2>1, <2>2
<1>3. w \in Seq(Seq(Atom)) /\ Len(w) = n /\ \A i \in 1 .. n : w[i] = v(i)
  <2> HIDE DEF v
  <2>1. w \in [1 .. n -> Seq(Atom)] /\ \A i \in 1 .. n : w[i] = v(i)
    BY <1>1, <1>2
  <2> HIDE DEF w
  <2> QED
    BY <1>1, <2>1, SeqDef
<1>4. JoinWords(ws) = FlattenSeq(w)
  BY DEF JoinWords
<1>5. CatWords(ws) = F[n]
  BY DEF CatWords
<1> HIDE DEF w
<1>6. PICK f : Concats(Atom, w, f)
  BY <1>3, ConcatsExist
<1>7. /\ f \in [0 .. n -> Seq(Atom)] /\ f[0] = <<>>
      /\ \A i \in 1 .. n : f[i] = f[i - 1] \o w[i]
  BY <1>3, <1>6 DEF Concats
<1>8. ASSUME NEW i \in 1 .. n, NEW a \in Seq(Atom)
      PROVE  (a \o ws[i]) \o gap(i) = a \o w[i]
  <2> DEFINE g == gap(i)
             x == ws[i]
  <2>1. g \in Seq(Atom) /\ x \in Seq(Atom) /\ w[i] = x \o g
    BY <1>1, <1>2, <1>3
  <2> HIDE DEF g, x
  <2>2. (a \o x) \o g = a \o (x \o g)
    <3>1. Cat(Cat(a, x), g) = Cat(a, Cat(x, g))
      BY <2>1, CatAssociative
    <3> QED
      BY <3>1, Zenon DEF Cat
  <2> QED
    BY <2>1, <2>2 DEF g, x
<1> HIDE DEF gap, v, n
<1>9. Eq(f)
  <2>1. ASSUME NEW i \in 0 .. n
        PROVE  f[i] = IF i = 0 THEN <<>> ELSE (f[i - 1] \o ws[i]) \o gap(i)
    <3>1. CASE i = 0
      BY <1>7, <3>1
    <3>2. CASE i # 0
      <4>1. i \in 1 .. n /\ i - 1 \in 0 .. n
        BY <1>1, <3>2
      <4>2. f[i - 1] \in Seq(Atom) /\ f[i] = f[i - 1] \o w[i]
        BY <1>7, <4>1
      <4> QED
        BY <1>8, <3>2, <4>1, <4>2
    <3> QED
      BY <3>1, <3>2
  <2>2. f = [i \in 0 .. n |-> f[i]]
    BY <1>7
  <2> QED
    BY <2>1, <2>2
<1>10. Eq(F)
  <2> HIDE DEF Eq
  <2> QED
    BY <1>9
<1> HIDE DEF F
<1>11. F[n] = f[n]
  <2> DEFINE T == {i \in 0 .. n : F[i] = f[i]}
  <2>1. 0 \in T
    BY <1>1, <1>7, <1>10
  <2>2. ASSUME NEW i \in 0 .. n - 1, i \in T PROVE i + 1 \in T
    <3>1. i + 1 \in 0 .. n /\ i + 1 # 0 /\ (i + 1) - 1 = i
      BY <1>1
    <3>2. F[i + 1] = (F[i] \o ws[i + 1]) \o gap(i + 1)
      BY <1>10, <3>1
    <3>3. f[i + 1] = (f[i] \o ws[i + 1]) \o gap(i + 1)
      BY <1>9, <3>1
    <3>4. F[i] = f[i]
      BY <2>2
    <3> QED
      BY <3>1, <3>2, <3>3, <3>4
  <2>3. \A i \in 0 .. n : i \in T
    <3> HIDE DEF T
    <3> QED
      BY <1>1, <2>1, <2>2, Induction
  <2> QED
    BY <1>1, <2>3
<1>12. FlattenSeq(w) = f[n]
  BY <1>3, <1>6, FlattenIsConcats
<1> QED
  BY <1>4, <1>5, <1>11, <1>12

-----------------------------------------------------------------------------
(* The commit                                                              *)

\* The four branches of the commit are the one splice of CommitText
\* (storage_server.c:503-571).
LEMMA ScanIsCommit ==
  ASSUME NEW t \in Text, NEW ws \in Seq(Text), NEW n \in 0 .. Len(ParseSentences(t))
  PROVE  ScanCommit(t, n, ws) = CommitText(t, n, ws)
<1> DEFINE s == ParseSentences(t)
           new == JoinWords(ws)
           parts == IF HasDelimiter(new) THEN ParseSentences(new) ELSE <<new>>
           before == SubSeq(s, 1, n)
           after == SubSeq(s, n + 2, Len(s))
           copied == SubSeq(s, 1, IF n < Len(s) THEN n ELSE Len(s))
<1>1. s \in Seq(Text) /\ Len(s) \in Nat /\ new \in Text
  BY Sentences, Ends, JoinTyped
<1>2. ScanSentences(t) = s /\ CatWords(ws) = new /\ ScanSentences(new) = ParseSentences(new)
  BY <1>1, ScanIsParse, CatIsJoin
<1>3. copied = before
  <2>1. (IF n < Len(s) THEN n ELSE Len(s)) = n
    BY <1>1
  <2> QED
    BY <2>1
<1>4. ScanCommit(t, n, ws) = FlattenSeq(
        IF s = <<>> THEN parts
        ELSE IF HasDelimiter(new) THEN (before \o parts) \o after
        ELSE IF n = Len(s) THEN Append(s, new)
        ELSE [s EXCEPT ![n + 1] = new])
  <2>1. ScanCommit(t, n, ws) = FlattenSeq(
          IF s = <<>> THEN IF HasDelimiter(new) THEN ParseSentences(new) ELSE <<new>>
          ELSE IF HasDelimiter(new) THEN (copied \o ParseSentences(new)) \o after
          ELSE IF n = Len(s) THEN Append(s, new)
          ELSE [s EXCEPT ![n + 1] = new])
    BY <1>2 DEF ScanCommit
  <2> HIDE DEF s, new, copied, before, after
  <2> QED
    BY <1>3, <2>1
<1>5. CommitText(t, n, ws)
        = IF s = <<>> THEN FlattenSeq(parts) ELSE FlattenSeq((before \o parts) \o after)
  BY DEF CommitText, RebuildFile
<1>6. before \in Seq(Text) /\ after \in Seq(Text) /\ <<new>> \in Seq(Text)
  <2> HIDE DEF s, new
  <2> QED
    BY <1>1, Slices DEF s
<1>7. /\ Len(before) = n /\ \A i \in 1 .. n : before[i] = s[i]
      /\ Len(after) = IF n + 2 <= Len(s) THEN Len(s) - n - 1 ELSE 0
      /\ \A i \in 1 .. Len(s) - n - 1 : after[i] = s[n + i + 1]
  <2> HIDE DEF s
  <2>1. n \in Nat /\ \A i \in 1 .. n : s[i] \in Text
    BY <1>1, ElementOfSeq DEF s
  <2>2. Len(before) = n /\ \A i \in 1 .. n : before[i] = s[i]
    <3>1. /\ Len(before) = IF 1 <= n THEN n - 1 + 1 ELSE 0
          /\ \A i \in 1 .. n - 1 + 1 : before[i] = s[1 + i - 1]
      BY <1>1, <2>1, SubSeqProperties
    <3>2. \A i \in 1 .. n : i \in 1 .. n - 1 + 1 /\ 1 + i - 1 = i
      BY <2>1
    <3> HIDE DEF before
    <3> QED
      BY <2>1, <3>1, <3>2
  <2> DEFINE m == n + 2
             l == Len(s)
  <2>3. m \in Int /\ l \in Int /\ \A i \in m .. l : s[i] \in Text
    <3>1. \A i \in m .. l : i \in 1 .. Len(s)
      BY <1>1, <2>1
    <3> QED
      BY <1>1, <2>1, <3>1, ElementOfSeq
  <2> HIDE DEF m, l
  <2>4. /\ Len(SubSeq(s, m, l)) = IF m <= l THEN l - m + 1 ELSE 0
        /\ \A i \in 1 .. l - m + 1 : SubSeq(s, m, l)[i] = s[m + i - 1]
    BY <2>3, SubSeqProperties
  <2>5. l - m + 1 = Len(s) - n - 1
    BY <1>1, <2>1 DEF m, l
  <2>6. \A i \in 1 .. Len(s) - n - 1 : m + i - 1 = n + i + 1
    BY <2>1 DEF m
  <2>7. after = SubSeq(s, m, l)
    BY DEF m, l
  <2> HIDE DEF after
  <2>8. \A i \in 1 .. Len(s) - n - 1 : after[i] = s[n + i + 1]
    BY <2>4, <2>5, <2>6, <2>7
  <2>9. Len(after) = IF n + 2 <= Len(s) THEN Len(s) - n - 1 ELSE 0
    BY <2>4, <2>5, <2>7 DEF m, l
  <2> QED
    BY <2>2, <2>8, <2>9
<1> DEFINE one == <<new>>
<1>8. one \in Seq(Text) /\ Len(one) = 1 /\ one[1] = new
  BY <1>6
<1> HIDE DEF one
<1> DEFINE whole == (before \o one) \o after
<1>9. n \in Nat /\ n <= Len(s)
  BY <1>1
<1> HIDE DEF s, new, before, after
<1>10. /\ whole \in Seq(Text) /\ Len(whole) = n + 1 + Len(after)
       /\ \A i \in 1 .. n : whole[i] = s[i]
       /\ whole[n + 1] = new
       /\ \A i \in n + 2 .. n + 1 + Len(after) : whole[i] = after[i - (n + 1)]
  <2>1. Len(before) = n
    BY <1>7
  <2>2. /\ whole \in Seq(Text) /\ Len(whole) = n + 1 + Len(after)
        /\ \A i \in 1 .. n : whole[i] = before[i]
        /\ whole[n + 1] = new
        /\ \A i \in n + 2 .. n + 1 + Len(after) : whole[i] = after[i - (n + 1)]
    <3> HIDE DEF whole
    <3>1. whole = Cat(Cat(before, <<new>>), after)
      BY Zenon DEF whole, one, Cat
    <3>2. new \in Text /\ before \in Seq(Text) /\ after \in Seq(Text)
      BY <1>1, <1>6 DEF new
    <3>3. whole \in Seq(Text) /\ Between(whole, before, new, after, n)
      BY <1>9, <2>1, <3>1, <3>2, InTheMiddle, Zenon
    <3> QED
      BY <3>3 DEF Between
  <2> HIDE DEF whole
  <2> QED
    BY <1>7, <2>2
<1> HIDE DEF whole
<1>11. ASSUME n = Len(s) PROVE Append(s, new) = whole
  <2> DEFINE a == Append(s, new)
  <2>1. /\ a \in Seq(Text) /\ Len(a) = n + 1
        /\ \A i \in 1 .. n : a[i] = s[i]
        /\ a[n + 1] = new
    BY <1>1, <1>11, AppendProperties DEF s, new
  <2>2. Len(after) = 0
    BY <1>7, <1>9, <1>11
  <2> HIDE DEF a
  <2>3. \A i \in 1 .. n + 1 : i \in 1 .. n \/ i = n + 1
    BY <1>9
  <2>4. Len(whole) = Len(a) /\ \A i \in 1 .. Len(a) : a[i] = whole[i]
    BY <1>9, <1>10, <2>1, <2>2, <2>3
  <2> QED
    BY <1>10, <2>1, <2>4, SeqEqual DEF a
<1>12. ASSUME n # Len(s) PROVE [s EXCEPT ![n + 1] = new] = whole
  <2> DEFINE a == [s EXCEPT ![n + 1] = new]
             j == n + 1
  <2>1. j \in 1 .. Len(s)
    BY <1>1, <1>9, <1>12 DEF s
  <2>2. /\ a \in Seq(Text) /\ Len(a) = Len(s)
        /\ \A i \in 1 .. Len(s) : a[i] = IF i = j THEN new ELSE s[i]
    <3>1. s \in Seq(Text) /\ new \in Text
      BY <1>1 DEF s, new
    <3> HIDE DEF j
    <3>2. /\ [s EXCEPT ![j] = new] \in Seq(Text) /\ Len([s EXCEPT ![j] = new]) = Len(s)
          /\ \A i \in 1 .. Len(s) : [s EXCEPT ![j] = new][i] = IF i = j THEN new ELSE s[i]
      BY <2>1, <3>1, ExceptSeq
    <3> QED
      BY <3>2 DEF j
  <2> HIDE DEF a
  <2>3. Len(s) \in Nat /\ n + 1 <= Len(s)
    BY <1>1, <1>9, <1>12 DEF s
  <2>4. Len(whole) = Len(s)
    <3>1. Len(after) = Len(s) - n - 1
      BY <1>7, <1>9, <2>3
    <3>2. Len(whole) = n + 1 + Len(after)
      BY <1>10
    <3> QED
      BY <1>9, <2>3, <3>1, <3>2
  <2>5. ASSUME NEW i \in 1 .. Len(s) PROVE a[i] = whole[i]
    <3>1. CASE i \in 1 .. n
      BY <1>9, <1>10, <2>2, <3>1
    <3>2. CASE i = n + 1
      BY <1>10, <2>2, <3>2
    <3>3. CASE i \in n + 2 .. Len(s)
      <4>1. i - (n + 1) \in 1 .. Len(s) - n - 1 /\ n + (i - (n + 1)) + 1 = i /\ i # j
        BY <1>9, <2>3, <3>3
      <4>2. after[i - (n + 1)] = s[i]
        BY <1>7, <4>1
      <4>3. whole[i] = after[i - (n + 1)]
        BY <1>10, <2>4, <3>3
      <4> QED
        BY <2>2, <4>1, <4>2, <4>3
    <3> QED
      BY <1>9, <2>3, <3>1, <3>2, <3>3
  <2>6. a = whole
    BY <1>10, <2>2, <2>4, <2>5, SeqEqual
  <2> QED
    BY <2>6 DEF a
<1>13. CASE s = <<>>
  BY <1>4, <1>5, <1>13
<1>14. CASE s # <<>> /\ HasDelimiter(new)
  BY <1>4, <1>5, <1>14
<1>15. CASE s # <<>> /\ ~HasDelimiter(new)
  <2>1. parts = one
    BY <1>15 DEF one
  <2>2. CommitText(t, n, ws) = FlattenSeq(whole)
    BY <1>5, <1>15, <2>1 DEF whole
  <2>3. ScanCommit(t, n, ws)
          = FlattenSeq(IF n = Len(s) THEN Append(s, new) ELSE [s EXCEPT ![n + 1] = new])
    BY <1>4, <1>15
  <2> QED
    BY <1>11, <1>12, <2>2, <2>3
<1> QED
  BY <1>13, <1>14, <1>15

-----------------------------------------------------------------------------
(* One document under WRITE sessions                                       *)

\* What every step keeps: texts are texts, and a session's sentence is at most one
\* past the last of the file, which nobody else changes.
ScanInv ==
  /\ text \in Text
  /\ words \in Seq(Text)
  /\ target \in Nat
  /\ active => target <= Len(ParseSentences(text))

LEMMA ScanInvHolds == Spec => []ScanInv
<1>1. Init => ScanInv
  <2> SUFFICES ASSUME Init PROVE ScanInv
    OBVIOUS
  <2>1. <<>> \in Text /\ <<>> \in Seq(Text)
    BY DEF Text
  <2> QED
    BY <2>1 DEF Init, ScanInv
<1>2. ScanInv /\ [Next]_vars => ScanInv'
  <2> SUFFICES ASSUME ScanInv, [Next]_vars PROVE ScanInv'
    OBVIOUS
  <2> USE DEF ScanInv
  <2>0. /\ ScanSentences(text) = ParseSentences(text) /\ ParseSentences(text) \in Seq(Text)
        /\ Len(ParseSentences(text)) \in Nat
    BY ScanIsParse, Sentences, Ends
  <2>1. ASSUME NEW n \in 0 .. MaxText, Start(n) PROVE ScanInv'
    <3> DEFINE s == ParseSentences(text)
    <3>1. n \in Nat /\ n <= Len(s)
      BY <2>0, <2>1 DEF Start
    <3>2. words' \in Seq(Text)
      <4>1. CASE n = Len(s)
        <5>1. words' = <<>>
          BY <2>0, <2>1, <4>1 DEF Start
        <5> QED
          BY <5>1
      <4>2. CASE n # Len(s)
        <5>1. n + 1 \in 1 .. Len(s)
          BY <2>0, <3>1, <4>2
        <5>2. s[n + 1] \in Text
          BY <2>0, <5>1, ElementOfSeq
        <5>3. words' = ScanWords(s[n + 1])
          BY <2>0, <2>1, <4>2 DEF Start
        <5> QED
          BY <5>2, <5>3, ScanIsWords, WordsTyped
      <4> QED
        BY <4>1, <4>2
    <3>3. text' = text /\ target' = n
      BY <2>1 DEF Start
    <3> QED
      BY <3>1, <3>2, <3>3
  <2>2. ASSUME NEW i \in 0 .. MaxWords, NEW w \in Inserts, Update(i, w) PROVE ScanInv'
    <3>1. i \in 0 .. Len(words) /\ w \in Text
      <4>1. Len(words) \in Nat
        BY LenProperties
      <4> QED
        BY <2>2, <4>1, InsertAssumption DEF Update
    <3>2. InsertAt(words, i + 1, w) \in Seq(Text)
      BY <3>1, InsertTyped
    <3> QED
      BY <2>2, <3>2 DEF Update
  <2>3. ASSUME Commit PROVE ScanInv'
    <3> DEFINE s == ParseSentences(text)
    <3>1. target \in 0 .. Len(s) /\ ~CommitOutOfBounds(text, target)
      BY <2>0, <2>3 DEF Commit, CommitOutOfBounds
    <3>2. text' = CommitText(text, target, words)
      BY <2>3, <3>1, ScanIsCommit DEF Commit
    <3>3. text' \in Text
      BY <3>1, <3>2, CommitTyped
    <3>4. words' \in Seq(Text) /\ target' = 0 /\ active' = FALSE
      BY <2>3 DEF Commit
    <3> QED
      BY <3>3, <3>4
  <2>4. ASSUME UNCHANGED vars PROVE ScanInv'
    BY <2>4 DEF vars
  <2> QED
    BY <2>1, <2>2, <2>3, <2>4 DEF Next
<1> QED
  BY <1>1, <1>2, PTL DEF Spec

\* Whatever is edited, the loops compute the closed forms, for the file and for what
\* is being typed (sentence_parser.c:19-126, storage_server.c:495-501).
THEOREM LoopsComputeClosedForms == Spec => []LoopsMatchClosedForms
<1>1. ScanInv => LoopsMatchClosedForms
  <2> SUFFICES ASSUME ScanInv PROVE LoopsMatchClosedForms
    OBVIOUS
  <2>1. text \in Text /\ words \in Seq(Text)
    BY DEF ScanInv
  <2>2. CatWords(words) = JoinWords(words) /\ JoinWords(words) \in Text
    BY <2>1, CatIsJoin, JoinTyped
  <2> QED
    BY <2>1, <2>2, ScanIsParse, ScanIsWords DEF LoopsMatchClosedForms
<1> QED
  BY <1>1, ScanInvHolds, PTL

\* Reading and writing back a file loses nothing, and its sentences are cut where the
\* delimiters are (sentence_parser.c:5, 19-67, 181-199).
THEOREM FilesParseLosslessly == Spec => []ParseIsLossless
<1>1. ScanInv => ParseIsLossless
  <2> SUFFICES ASSUME ScanInv PROVE ParseIsLossless
    OBVIOUS
  <2> DEFINE s == ParseSentences(text)
  <2>1. text \in Text
    BY DEF ScanInv
  <2>2. DOMAIN s = 1 .. Len(SentenceEnds(text)) /\ Len(s) = Len(SentenceEnds(text))
    BY <2>1, Sentences
  <2>3. RebuildFile(s) = text
    BY <2>1, ParsingLosesNothing
  <2>4. ASSUME NEW k \in DOMAIN s
        PROVE  /\ s[k] # <<>>
               /\ \A i \in DOMAIN s[k] : s[k][i] = Stop => i = Len(s[k])
               /\ k < Len(s) => s[k][Len(s[k])] = Stop
    BY <2>1, <2>2, SentenceShape
  <2> HIDE DEF s
  <2> QED
    BY <2>3, <2>4 DEF ParseIsLossless, s
<1> QED
  BY <1>1, ScanInvHolds, PTL

\* The commit of the code is the closed form that the storage server's model uses
\* (storage_server.c:488-574).
THEOREM CommitComputesClosedForm == Spec => []CommitMatchesClosedForm
<1>1. ScanInv => CommitMatchesClosedForm
  <2> SUFFICES ASSUME ScanInv, active
               PROVE  ScanCommit(text, target, words) = CommitText(text, target, words)
    BY DEF CommitMatchesClosedForm
  <2>1. /\ text \in Text /\ words \in Seq(Text) /\ Len(ParseSentences(text)) \in Nat
        /\ target \in 0 .. Len(ParseSentences(text))
    <3>1. text \in Text
      BY DEF ScanInv
    <3>2. Len(ParseSentences(text)) \in Nat
      BY <3>1, Sentences, Ends
    <3> QED
      BY <3>2 DEF ScanInv
  <2> QED
    BY <2>1, ScanIsCommit
<1> QED
  BY <1>1, ScanInvHolds, PTL

\* The commit of the code replaces one sentence by the words typed and touches no
\* other character, whichever branch it takes (storage_server.c:503-571).
THEOREM CommitIsAlwaysSplice == Spec => []CommitIsSplice
<1>1. ScanInv => CommitIsSplice
  <2> SUFFICES ASSUME ScanInv, active
               PROVE  ScanCommit(text, target, words) = Splice(text, target, words)
    BY DEF CommitIsSplice
  <2>1. /\ text \in Text /\ words \in Seq(Text) /\ Len(ParseSentences(text)) \in Nat
        /\ target \in 0 .. Len(ParseSentences(text))
    <3>1. text \in Text
      BY DEF ScanInv
    <3>2. Len(ParseSentences(text)) \in Nat
      BY <3>1, Sentences, Ends
    <3> QED
      BY <3>2 DEF ScanInv
  <2> QED
    BY <2>1, ScanIsCommit, CommitReplacesSentence
<1> QED
  BY <1>1, ScanInvHolds, PTL
=============================================================================
