-------------------------- MODULE DirectoryProofs --------------------------
(***************************************************************************)
(* What the name server guarantees about its tables, for every set of      *)
(* users, files and storage servers and every bound: they keep their types *)
(* and their bounds, and the cache agrees with the maps behind it, as long *)
(* as no server answers a CREATE with its list of files full.              *)
(*                                                                         *)
(* The operators come first: lru_invalidate and the registration leave the *)
(* other entries of the cache at other places, once each, and              *)
(* find_available_ss answers a place in the registry. Then one lemma per   *)
(* group of steps.                                                         *)
(***************************************************************************)
EXTENDS NameServerProofs, NaturalLemmas, SequenceTheorems

-----------------------------------------------------------------------------
(* Sequences and the least of a set.                                       *)

LEMMA MinIsLeast ==
  ASSUME NEW T \in SUBSET Nat, T # {}
  PROVE  Min(T) \in T /\ \A m \in T : Min(T) <= m
  BY Least DEF Min

LEMMA ToSeqTyped ==
  ASSUME NEW S, IsFiniteSet(S)
  PROVE  SetToSeq(S) \in Seq(S) /\ IsInjective(SetToSeq(S))
<1>1. Cardinality(S) \in Nat /\ ExistsBijection(1 .. Cardinality(S), S)
  BY FS_CardinalityType
<1>2. \E f \in [1 .. Cardinality(S) -> S] : IsInjective(f)
  BY <1>1 DEF ExistsBijection, Bijection, Injection, IsInjective
<1>3. SetToSeq(S) \in [1 .. Cardinality(S) -> S] /\ IsInjective(SetToSeq(S))
  BY <1>2, Zenon DEF SetToSeq
<1> QED
  BY <1>1, <1>3

\* The places of what is left when place i of n is taken out.
LEMMA ClosedUp ==
  ASSUME NEW n \in Nat, NEW i \in 1 .. n, NEW k \in 1 .. n - 1
  PROVE  /\ k < i => k \in 1 .. i - 1 /\ k <= i - 1
         /\ ~(k < i) => /\ k - (i - 1) \in 1 .. n - i /\ ~(k <= i - 1)
                        /\ (k - (i - 1)) + i = k + 1
  OBVIOUS

LEMMA RemoveAtEntries ==
  ASSUME NEW T, NEW s \in Seq(T), NEW i \in DOMAIN s
  PROVE  /\ RemoveAt(s, i) \in Seq(T)
         /\ Len(RemoveAt(s, i)) = Len(s) - 1
         /\ \A k \in 1 .. Len(s) - 1 : RemoveAt(s, i)[k] = s[IF k < i THEN k ELSE k + 1]
<1> DEFINE n == Len(s)
           a == SubSeq(s, 1, i - 1)
           b == SubSeq(s, i + 1, Len(s))
           w == a \o b
<1>1. i \in 1 .. n /\ n \in Nat
  OBVIOUS
<1>2. a \in Seq(T) /\ Len(a) = i - 1 /\ \A k \in 1 .. i - 1 : a[k] = s[k]
  BY <1>1
<1>3. b \in Seq(T) /\ Len(b) = n - i /\ \A k \in 1 .. n - i : b[k] = s[k + i]
  BY <1>1
<1>4. RemoveAt(s, i) = w
  BY DEF RemoveAt
<1> HIDE DEF a, b
<1>5. /\ w \in Seq(T) /\ Len(w) = Len(a) + Len(b)
      /\ \A k \in 1 .. Len(a) + Len(b) : w[k] = IF k <= Len(a) THEN a[k] ELSE b[k - Len(a)]
  BY <1>2, <1>3, ConcatProperties
<1> HIDE DEF n, w
<1>6. Len(a) + Len(b) = n - 1
  BY <1>1, <1>2, <1>3
<1>7. Len(w) = n - 1 /\ \A k \in 1 .. n - 1 : w[k] = IF k <= i - 1 THEN a[k] ELSE b[k - (i - 1)]
  BY <1>2, <1>5, <1>6
<1>8. ASSUME NEW k \in 1 .. n - 1 PROVE w[k] = s[IF k < i THEN k ELSE k + 1]
  <2>1. w[k] = IF k <= i - 1 THEN a[k] ELSE b[k - (i - 1)]
    BY <1>7
  <2>2. /\ k < i => k \in 1 .. i - 1 /\ k <= i - 1
        /\ ~(k < i) => /\ k - (i - 1) \in 1 .. n - i /\ ~(k <= i - 1)
                       /\ (k - (i - 1)) + i = k + 1
    BY <1>1, ClosedUp
  <2>3. CASE k < i
    BY <1>2, <2>1, <2>2, <2>3
  <2>4. CASE ~(k < i)
    <3>1. b[k - (i - 1)] = s[k + 1]
      BY <1>3, <2>2, <2>4
    <3> QED
      BY <2>1, <2>2, <2>4, <3>1
  <2> QED
    BY <2>3, <2>4
<1> QED
  BY <1>4, <1>5, <1>7, <1>8, Zenon DEF n

LEMMA RemoveFirstTyped ==
  ASSUME NEW T, NEW s \in Seq(T), NEW e
  PROVE  RemoveFirst(s, e) \in Seq(T) /\ Len(RemoveFirst(s, e)) <= Len(s)
<1> DEFINE I == {i \in 1 .. Len(s) : s[i] = e}
<1>1. CASE I = {}
  BY <1>1 DEF RemoveFirst
<1>2. CASE I # {}
  <2>1. Min(I) \in I
    <3>1. I \in SUBSET Nat
      OBVIOUS
    <3> HIDE DEF I
    <3> QED
      BY <1>2, <3>1, MinIsLeast
  <2>2. RemoveFirst(s, e) = RemoveAt(s, Min(I))
    BY <1>2 DEF RemoveFirst, SelectInSeq
  <2>3. Min(I) \in DOMAIN s /\ Len(s) \in Nat
    BY <2>1
  <2> DEFINE m == Min(I)
  <2> HIDE DEF I, m
  <2>4. RemoveAt(s, m) \in Seq(T) /\ Len(RemoveAt(s, m)) = Len(s) - 1
    BY <2>3, RemoveAtEntries DEF m
  <2>5. Len(RemoveAt(s, m)) <= Len(s)
    BY <2>3, <2>4
  <2> QED
    BY <2>2, <2>4, <2>5 DEF m
<1> QED
  BY <1>1, <1>2

-----------------------------------------------------------------------------
(* The parts of TypeOK.                                                    *)

RegistersTyped ==
  /\ clients \in Seq(User) /\ Len(clients) <= MaxClients
  /\ registry \in Seq(Server) /\ IsInjective(registry) /\ Len(registry) <= MaxServers
  /\ alive \in [Server -> BOOLEAN]
  /\ age \in [Server -> 0 .. Timeout + 1]
  /\ suspect \in Server \cup {NoServer}
  /\ lastUsed \in 0 .. Len(registry)

CacheEntry == [file : File, server : Server]
CacheTyped == cache \in Seq(CacheEntry) /\ Len(cache) <= CacheSize

MapsTyped ==
  /\ lists \in [Server -> Seq(File)] /\ \A s \in Server : Len(lists[s]) <= MaxFiles
  /\ fileMap \in [File -> Server \cup {NoServer}]
  /\ replica \in [File -> Server \cup {NoServer}]

ServersTyped ==
  /\ status \in [Server -> {"down", "starting", "serving"}]
  /\ stores \in [Server -> SUBSET File]
  /\ queue \in [Server -> Seq(Job)] /\ \A s \in Server : Len(queue[s]) <= MaxQueue

LEMMA TypeOKParts ==
  TypeOK <=> /\ AccessTypeOK /\ ns \in Ns
             /\ RegistersTyped /\ CacheTyped /\ MapsTyped /\ ServersTyped
  BY DEF TypeOK, RegistersTyped, CacheTyped, CacheEntry, MapsTyped, ServersTyped

LEMMA CacheSizeNat == CacheSize \in Nat /\ CacheSize > 0
  BY NameServerAssumption

-----------------------------------------------------------------------------
(* The cache.                                                              *)

LEMMA PlaceOfFile ==
  ASSUME CacheTyped, NEW f
  PROVE  LET i == SelectInSeq(cache, LAMBDA e : e.file = f)
         IN  \/ i = 0 /\ \A k \in DOMAIN cache : cache[k].file # f
             \/ i \in DOMAIN cache /\ cache[i].file = f
<1> DEFINE I == {i \in 1 .. Len(cache) : cache[i].file = f}
<1>0. DOMAIN cache = 1 .. Len(cache)
  BY DEF CacheTyped
<1>1. CASE I = {}
  <2>1. SelectInSeq(cache, LAMBDA e : e.file = f) = 0
    BY <1>1 DEF SelectInSeq
  <2> QED
    BY <1>0, <1>1, <2>1
<1>2. CASE I # {}
  <2>1. Min(I) \in I
    BY <1>2, MinIsLeast
  <2>2. SelectInSeq(cache, LAMBDA e : e.file = f) = Min(I)
    BY <1>2 DEF SelectInSeq
  <2> QED
    BY <1>0, <2>1, <2>2
<1> QED
  BY <1>1, <1>2

LEMMA WithoutIsRemoveAt ==
  ASSUME CacheTyped, NEW f
  PROVE  \/ Without(f) = cache /\ \A i \in DOMAIN cache : cache[i].file # f
         \/ \E i \in DOMAIN cache : cache[i].file = f /\ Without(f) = RemoveAt(cache, i)
<1> DEFINE i == SelectInSeq(cache, LAMBDA e : e.file = f)
<1>0. DOMAIN cache = 1 .. Len(cache)
  BY DEF CacheTyped
<1>1. Without(f) = IF \E k \in 1 .. Len(cache) : cache[k].file = f
                   THEN RemoveAt(cache, i) ELSE cache
  BY DEF Without, RemoveFirstMatch
<1> HIDE DEF i
<1>2. \/ i = 0 /\ \A k \in DOMAIN cache : cache[k].file # f
      \/ i \in DOMAIN cache /\ cache[i].file = f
  BY PlaceOfFile DEF i
<1> QED
  BY <1>0, <1>1, <1>2

\* The entries of Without(f) are those of the cache at other places, without one of f.
LEMMA WithoutEntries ==
  ASSUME CacheTyped, NEW f
  PROVE  /\ Without(f) \in Seq(CacheEntry) /\ Len(Without(f)) <= Len(cache)
         /\ \E p \in [DOMAIN Without(f) -> DOMAIN cache] :
              /\ IsInjective(p)
              /\ \A k \in DOMAIN Without(f) : Without(f)[k] = cache[p[k]]
              /\ \/ \A i \in DOMAIN cache : cache[i].file # f
                 \/ \E i \in DOMAIN cache : /\ cache[i].file = f
                                            /\ \A k \in DOMAIN Without(f) : p[k] # i
<1>0. cache \in Seq(CacheEntry) /\ DOMAIN cache = 1 .. Len(cache) /\ Len(cache) \in Nat
  BY DEF CacheTyped
<1>1. CASE Without(f) = cache /\ \A i \in DOMAIN cache : cache[i].file # f
  <2> DEFINE p == [k \in DOMAIN cache |-> k]
  <2>1. p \in [DOMAIN cache -> DOMAIN cache] /\ IsInjective(p)
    BY DEF IsInjective
  <2>2. Len(cache) <= Len(cache)
    BY <1>0
  <2> QED
    BY <1>0, <1>1, <2>1, <2>2
<1>2. ASSUME NEW i \in DOMAIN cache, cache[i].file = f, Without(f) = RemoveAt(cache, i)
      PROVE  /\ Without(f) \in Seq(CacheEntry) /\ Len(Without(f)) <= Len(cache)
             /\ \E p \in [DOMAIN Without(f) -> DOMAIN cache] :
                  /\ IsInjective(p)
                  /\ \A k \in DOMAIN Without(f) : Without(f)[k] = cache[p[k]]
                  /\ \A k \in DOMAIN Without(f) : p[k] # i
  <2>1. /\ Without(f) \in Seq(CacheEntry) /\ Len(Without(f)) = Len(cache) - 1
        /\ \A k \in 1 .. Len(cache) - 1 :
             Without(f)[k] = cache[IF k < i THEN k ELSE k + 1]
    BY <1>0, <1>2, RemoveAtEntries
  <2>2. DOMAIN Without(f) = 1 .. Len(cache) - 1
    BY <2>1
  <2> DEFINE p == [k \in 1 .. Len(cache) - 1 |-> IF k < i THEN k ELSE k + 1]
  <2>3. p \in [DOMAIN Without(f) -> DOMAIN cache]
    <3>1. ASSUME NEW k \in 1 .. Len(cache) - 1
          PROVE  (IF k < i THEN k ELSE k + 1) \in 1 .. Len(cache)
      BY <1>0, <3>1
    <3> QED
      BY <1>0, <2>2, <3>1
  <2>4. IsInjective(p)
    BY <1>0 DEF IsInjective
  <2>5. \A k \in DOMAIN Without(f) : Without(f)[k] = cache[p[k]] /\ p[k] # i
    BY <1>0, <2>1, <2>2
  <2>6. Len(Without(f)) <= Len(cache)
    BY <1>0, <2>1
  <2> QED
    BY <2>1, <2>3, <2>4, <2>5, <2>6
<1> QED
  BY <1>1, <1>2, WithoutIsRemoveAt

LEMMA CachedTyped ==
  ASSUME CacheTyped, NEW f
  PROVE  \/ Cached(f) = NoServer /\ \A i \in DOMAIN cache : cache[i].file # f
         \/ \E i \in DOMAIN cache : cache[i].file = f /\ Cached(f) = cache[i].server
<1> DEFINE i == SelectInSeq(cache, LAMBDA e : e.file = f)
<1>1. Cached(f) = IF i = 0 THEN NoServer ELSE cache[i].server
  BY DEF Cached
<1>0. DOMAIN cache = 1 .. Len(cache)
  BY DEF CacheTyped
<1> HIDE DEF i
<1>2. \/ i = 0 /\ \A k \in DOMAIN cache : cache[k].file # f
      \/ i \in DOMAIN cache /\ cache[i].file = f
  BY PlaceOfFile DEF i
<1> QED
  BY <1>0, <1>1, <1>2

LEMMA WithoutAllEntries ==
  ASSUME CacheTyped, NEW fs
  PROVE  /\ WithoutAll(fs) \in Seq(CacheEntry) /\ Len(WithoutAll(fs)) <= Len(cache)
         /\ \E p \in [DOMAIN WithoutAll(fs) -> DOMAIN cache] :
              /\ IsInjective(p)
              /\ \A k \in DOMAIN WithoutAll(fs) : /\ WithoutAll(fs)[k] = cache[p[k]]
                                                  /\ cache[p[k]].file \notin fs
<1>0. cache \in Seq(CacheEntry) /\ DOMAIN cache = 1 .. Len(cache) /\ Len(cache) \in Nat
  BY DEF CacheTyped
<1> DEFINE kept == {i \in DOMAIN cache : cache[i].file \notin fs}
           rank(i) == Cardinality({j \in kept : j <= i})
           n == Cardinality(kept)
           p == [k \in 1 .. n |-> CHOOSE i \in kept : rank(i) = k]
<1>1. kept \in SUBSET (1 .. Len(cache))
  BY <1>0
<1>2. n \in Nat /\ n <= Len(cache)
  <2>1. IsFiniteSet(1 .. Len(cache)) /\ Cardinality(1 .. Len(cache)) = Len(cache)
    BY <1>0, FS_Interval
  <2> HIDE DEF kept
  <2>2. IsFiniteSet(kept) /\ Cardinality(kept) <= Cardinality(1 .. Len(cache))
    BY <1>1, <2>1, FS_Subset
  <2> QED
    BY <2>1, <2>2, FS_CardinalityType
<1>3. ASSUME NEW k \in 1 .. n PROVE p[k] \in kept /\ rank(p[k]) = k
  <2>1. \E i \in kept : rank(i) = k
    <3> HIDE DEF kept
    <3> QED
      BY <1>0, <1>1, Rank
  <2> HIDE DEF rank, kept
  <2> QED
    BY <2>1
<1>4. WithoutAll(fs) = [k \in 1 .. n |-> cache[p[k]]]
  BY DEF WithoutAll
<1> HIDE DEF p, n, rank
<1>5. WithoutAll(fs) \in Seq(CacheEntry) /\ Len(WithoutAll(fs)) = n
  BY <1>0, <1>2, <1>3, <1>4
<1>6. DOMAIN WithoutAll(fs) = 1 .. n
  BY <1>4
<1>7. p \in [1 .. n -> DOMAIN cache]
  BY <1>3 DEF p
<1>8. IsInjective(p)
  BY <1>3, <1>7 DEF IsInjective
<1>9. \A k \in 1 .. n : WithoutAll(fs)[k] = cache[p[k]] /\ cache[p[k]].file \notin fs
  BY <1>3, <1>4
<1> QED
  BY <1>2, <1>5, <1>6, <1>7, <1>8, <1>9

LEMMA LruPutEntries ==
  ASSUME CacheTyped, NEW f \in File, NEW s \in Server
  PROVE  /\ LruPut(f, s) \in Seq(CacheEntry) /\ Len(LruPut(f, s)) <= CacheSize
         /\ LruPut(f, s)[1] = [file |-> f, server |-> s]
         /\ \A k \in DOMAIN LruPut(f, s) :
              k # 1 => k - 1 \in DOMAIN Without(f) /\ LruPut(f, s)[k] = Without(f)[k - 1]
<1> DEFINE w == Without(f)
           e == [file |-> f, server |-> s]
           c == <<e>> \o w
           m == IF Len(c) > CacheSize THEN CacheSize ELSE Len(c)
<1>1. w \in Seq(CacheEntry) /\ e \in CacheEntry
  BY WithoutEntries DEF CacheEntry
<1>2. LruPut(f, s) = SubSeq(c, 1, m)
  BY DEF LruPut
<1> HIDE DEF w, e
<1>3. c \in Seq(CacheEntry) /\ Len(c) = Len(w) + 1 /\ c[1] = e
  BY <1>1
<1>4. ASSUME NEW k \in 1 .. Len(c), k # 1 PROVE k - 1 \in DOMAIN w /\ c[k] = w[k - 1]
  BY <1>1, <1>3, <1>4
<1> HIDE DEF c
<1>5. m \in 1 .. Len(c) /\ m <= CacheSize
  BY <1>1, <1>3, CacheSizeNat
<1> HIDE DEF m
<1>6. /\ SubSeq(c, 1, m) \in Seq(CacheEntry) /\ Len(SubSeq(c, 1, m)) = m
      /\ \A k \in 1 .. m : SubSeq(c, 1, m)[k] = c[k]
  BY <1>3, <1>5
<1>7. DOMAIN SubSeq(c, 1, m) = 1 .. m /\ 1 \in 1 .. m /\ \A k \in 1 .. m : k \in 1 .. Len(c)
  BY <1>3, <1>5, <1>6
<1> QED
  BY <1>2, <1>3, <1>4, <1>5, <1>6, <1>7 DEF w, e

-----------------------------------------------------------------------------
(* What the operators of NameServer answer, and what they leave.           *)

LEMMA FindTyped ==
  ASSUME CacheTyped, MapsTyped, NEW f \in File
  PROVE  Cached(f) \in Server \cup {NoServer} /\ Find(f) \in Server \cup {NoServer}
<1>1. Cached(f) \in Server \cup {NoServer}
  <2>1. \A i \in DOMAIN cache : cache[i].server \in Server
    <3>1. \A i \in DOMAIN cache : cache[i] \in CacheEntry
      BY DEF CacheTyped
    <3> QED
      BY <3>1 DEF CacheEntry
  <2> QED
    BY <2>1, CachedTyped
<1>2. Mapped(f) \in Server \cup {NoServer}
  BY DEF Mapped, MapsTyped
<1> QED
  BY <1>1, <1>2 DEF Find

LEMMA SearchedTyped ==
  ASSUME CacheTyped, MapsTyped, NEW f \in File, Searched(f)
  PROVE  CacheTyped'
<1>1. Cached(f) \in Server \cup {NoServer} /\ Find(f) \in Server \cup {NoServer}
  BY FindTyped
<1>2. cache' = cache \/ \E s \in Server : cache' = LruPut(f, s)
  BY <1>1 DEF Searched
<1> QED
  BY <1>2, LruPutEntries DEF CacheTyped

LEMMA AvailableTyped ==
  ASSUME RegistersTyped
  PROVE  Available \in 0 .. Len(registry)
<1> DEFINE n == Len(registry)
           turn == [i \in 1 .. n |-> ((lastUsed + i - 1) % n) + 1]
           fits == {i \in 1 .. n : alive[registry[turn[i]]]}
<1>1. Available = IF fits = {} THEN 0 ELSE turn[Min(fits)]
  BY DEF Available
<1>2. n \in Nat /\ lastUsed \in Nat
  BY DEF RegistersTyped
<1>3. ASSUME NEW i \in 1 .. n PROVE turn[i] \in 1 .. n
  <2>1. lastUsed + i - 1 \in Nat /\ n > 0
    BY <1>2
  <2>2. ((lastUsed + i - 1) % n) \in 0 .. n - 1
    BY <1>2, <2>1
  <2> QED
    BY <1>2, <2>2
<1>4. CASE fits # {}
  <2>1. fits \in SUBSET Nat /\ fits \subseteq 1 .. n
    OBVIOUS
  <2> HIDE DEF fits
  <2>2. Min(fits) \in 1 .. n
    BY <1>4, <2>1, MinIsLeast
  <2> HIDE DEF turn
  <2> QED
    BY <1>1, <1>2, <1>3, <1>4, <2>2
<1>5. CASE fits = {}
  <2> HIDE DEF fits
  <2> QED
    BY <1>1, <1>2, <1>5
<1> QED
  BY <1>4, <1>5

LEMMA HashmapSetTyped ==
  ASSUME CacheTyped, MapsTyped, NEW f \in File, NEW s \in Server \cup {NoServer},
         HashmapSet(f, s)
  PROVE  CacheTyped' /\ fileMap' \in [File -> Server \cup {NoServer}]
<1>1. Len(Without(f)) <= Len(cache) /\ Without(f) \in Seq(CacheEntry)
  BY WithoutEntries
<1>2. cache' = Without(f) /\ fileMap' = [fileMap EXCEPT ![f] = s]
  BY DEF HashmapSet
<1>3. CacheTyped'
  BY <1>1, <1>2, CacheSizeNat DEF CacheTyped
<1> QED
  BY <1>2, <1>3 DEF MapsTyped

LEMMA AddTyped ==
  ASSUME CacheTyped, MapsTyped, NEW f \in File, NEW s \in Server \cup {NoServer},
         AddFileToSs(s, f), replica' \in [File -> Server \cup {NoServer}]
  PROVE  CacheTyped' /\ MapsTyped'
<1>1. CASE HashmapSet(f, s) /\ Len(lists[s]) < MaxFiles
           /\ lists' = [lists EXCEPT ![s] = Append(@, f)]
  <2>1. CacheTyped' /\ fileMap' \in [File -> Server \cup {NoServer}]
    BY <1>1, HashmapSetTyped
  <2>2. ASSUME NEW t \in Server PROVE lists'[t] \in Seq(File) /\ Len(lists'[t]) <= MaxFiles
    <3>1. lists[t] \in Seq(File) /\ Len(lists[t]) <= MaxFiles
      BY DEF MapsTyped
    <3>2. CASE t # s
      BY <1>1, <3>1, <3>2 DEF MapsTyped
    <3>3. CASE t = s
      <4>1. lists'[t] = Append(lists[t], f)
        BY <1>1, <3>3 DEF MapsTyped
      <4> QED
        BY <1>1, <3>1, <3>3, <4>1, NameServerAssumption
    <3> QED
      BY <3>2, <3>3
  <2>3. DOMAIN lists' = Server /\ lists' = [t \in Server |-> lists'[t]]
    BY <1>1 DEF MapsTyped
  <2> QED
    BY <2>1, <2>2, <2>3 DEF MapsTyped
<1>2. CASE UNCHANGED <<lists, fileMap, cache>>
  BY <1>2 DEF CacheTyped, MapsTyped
<1> QED
  BY <1>1, <1>2 DEF AddFileToSs

LEMMA EnqueueTyped ==
  ASSUME ServersTyped, NEW s, NEW op \in Forwarded, NEW f \in File,
         NEW asked \in BOOLEAN, Enqueue(s, op, f, asked), UNCHANGED <<status, stores>>
  PROVE  ServersTyped'
<1> DEFINE job == [op |-> op, file |-> f, asked |-> asked]
<1>1. job \in Job
  BY DEF Job
<1>2. Len(queue[s]) < MaxQueue /\ queue' = [queue EXCEPT ![s] = Append(@, job)]
  BY DEF Enqueue
<1> HIDE DEF job
<1>3. ASSUME NEW t \in Server PROVE queue'[t] \in Seq(Job) /\ Len(queue'[t]) <= MaxQueue
  <2>1. queue[t] \in Seq(Job) /\ Len(queue[t]) <= MaxQueue
    BY DEF ServersTyped
  <2>2. CASE t # s
    BY <1>2, <2>1, <2>2 DEF ServersTyped
  <2>3. CASE t = s
    <3>1. queue'[t] = Append(queue[t], job)
      BY <1>2, <2>3 DEF ServersTyped
    <3> QED
      BY <1>1, <1>2, <2>1, <2>3, <3>1, NameServerAssumption
  <2> QED
    BY <2>2, <2>3
<1>4. queue' = [t \in Server |-> queue'[t]]
  BY <1>2 DEF ServersTyped
<1> QED
  BY <1>3, <1>4 DEF ServersTyped

LEMMA ForwardTyped ==
  ASSUME ns \in Ns, ServersTyped, NEW s \in Server, NEW op \in Forwarded, NEW f \in File,
         NEW u \in User, Forward(op, f, u, s), UNCHANGED <<status, stores>>
  PROVE  ns' \in Ns /\ ServersTyped'
<1>1. CASE status[s] = "down"
  BY <1>1 DEF Forward, ServersTyped
<1>2. CASE status[s] # "down"
  <2>1. /\ Enqueue(s, op, f, TRUE)
        /\ ns' = [at |-> "wait", op |-> op, file |-> f, user |-> u, server |-> s,
                  ok |-> FALSE]
    BY <1>2 DEF Forward
  <2> QED
    BY <2>1, EnqueueTyped DEF Ns, NsStates
<1> QED
  BY <1>1, <1>2

LEMMA NsIdleTyped == NsIdle \in Ns
<1>1. (CHOOSE f \in File : TRUE) \in File /\ (CHOOSE u \in User : TRUE) \in User
  BY AccessAssumption
<1> QED
  BY <1>1 DEF NsIdle, Ns, NsStates

-----------------------------------------------------------------------------
(* Every step keeps the types.                                             *)

DirectoryTyped == ns \in Ns /\ RegistersTyped /\ CacheTyped /\ MapsTyped /\ ServersTyped

LEMMA RegistersStay ==
  ASSUME RegistersTyped, UNCHANGED <<clients, registers, suspect, lastUsed>>
  PROVE  RegistersTyped'
  BY DEF RegistersTyped, registers

LEMMA MapsStay ==
  ASSUME MapsTyped, UNCHANGED <<lists, fileMap, replica>> PROVE MapsTyped'
  BY DEF MapsTyped

LEMMA ServersStay ==
  ASSUME ServersTyped, UNCHANGED servers PROVE ServersTyped'
  BY DEF ServersTyped, servers

LEMMA CacheStays == ASSUME CacheTyped, UNCHANGED cache PROVE CacheTyped'
  BY DEF CacheTyped

\* A handler that looks a file up and may ask a server about it.
LEMMA LookupTyped ==
  ASSUME DirectoryTyped, NEW op \in Forwarded, NEW f \in File, NEW u \in User,
         Searched(f),
         \/ UNCHANGED <<ns, queue>>
         \/ Find(f) # NoServer /\ Forward(op, f, u, Find(f)),
         UNCHANGED <<clients, registers, suspect, lists, fileMap, replica, lastUsed,
                     status, stores>>
  PROVE  DirectoryTyped'
<1>1. RegistersTyped' /\ MapsTyped' /\ CacheTyped'
  BY RegistersStay, MapsStay, SearchedTyped DEF DirectoryTyped
<1>2. CASE UNCHANGED <<ns, queue>>
  BY <1>1, <1>2, ServersStay DEF DirectoryTyped, servers
<1>3. CASE Find(f) # NoServer /\ Forward(op, f, u, Find(f))
  <2>1. Find(f) \in Server
    BY <1>3, FindTyped DEF DirectoryTyped
  <2>2. ns' \in Ns /\ ServersTyped'
    BY <1>3, <2>1, ForwardTyped DEF DirectoryTyped
  <2> QED
    BY <1>1, <2>2 DEF DirectoryTyped
<1> QED
  BY <1>2, <1>3

LEMMA ViewTyped ==
  ASSUME DirectoryTyped, NEW op \in Views, NEW u \in User, NEW i,
         ViewFrom(u, op, i), ViewRest
  PROVE  DirectoryTyped'
<1>1. RegistersTyped' /\ MapsTyped' /\ UNCHANGED <<status, stores>>
  BY RegistersStay, MapsStay DEF ViewRest, DirectoryTyped
<1>2. CASE ns' = NsIdle /\ UNCHANGED <<cache, queue>>
  BY <1>1, <1>2, ServersStay, CacheStays, NsIdleTyped DEF DirectoryTyped, servers
<1>3. ASSUME NEW f \in File, ViewFile(u, op, f) PROVE DirectoryTyped'
  <2>1. op \in Forwarded
    BY DEF Forwarded
  <2>2. CASE /\ ns' = [NsIdle EXCEPT !.at = "view", !.op = op, !.file = f, !.user = u]
             /\ UNCHANGED queue
    <3>1. ns' \in Ns
      BY <2>1, <2>2, NsIdleTyped DEF Ns, NsStates
    <3>2. CacheTyped'
      BY <1>3, SearchedTyped DEF ViewFile, DirectoryTyped
    <3> QED
      BY <1>1, <2>2, <3>1, <3>2, ServersStay DEF DirectoryTyped, servers
  <2>3. CASE Find(f) # NoServer /\ Forward(op, f, u, Find(f))
    <3>1. Searched(f)
      BY <1>3 DEF ViewFile
    <3>2. UNCHANGED <<clients, registers, suspect, lists, fileMap, replica, lastUsed,
                      status, stores>>
      BY DEF ViewRest
    <3> QED
      BY <2>1, <2>3, <3>1, <3>2, LookupTyped
  <2> QED
    BY <1>3, <2>2, <2>3, Zenon DEF ViewFile
<1>4. \/ ns' = NsIdle /\ UNCHANGED <<cache, queue>>
      \/ \E f \in File : ViewFile(u, op, f)
  BY DEF ViewFrom, Listed
<1> QED
  BY <1>2, <1>3, <1>4

LEMMA AskTyped ==
  ASSUME DirectoryTyped,
         \/ \E u \in User, f \in File :
              CreateAsk(u, f) \/ DeleteAsk(u, f) \/ MoveAsk(u, f) \/ QueryAsk(u, f)
         \/ \E u \in User, op \in Views : ViewAsk(u, op)
         \/ FolderAsk \/ \E f \in File : Route(f)
         \/ NsShape /\ ViewGoesOn
  PROVE  DirectoryTyped'
<1>1. ASSUME NEW u \in User, NEW f \in File, CreateAsk(u, f) PROVE DirectoryTyped'
  <2>1. MapsTyped' /\ CacheTyped'
    BY <1>1, MapsStay, SearchedTyped DEF CreateAsk, DirectoryTyped
  <2>2. CASE UNCHANGED <<ns, queue, lastUsed>>
    <3>1. UNCHANGED servers /\ UNCHANGED <<clients, registers, suspect, lastUsed>>
      BY <1>1, <2>2 DEF CreateAsk, servers
    <3> QED
      BY <2>1, <2>2, <3>1, ServersStay, RegistersStay DEF DirectoryTyped
  <2>3. CASE Available # 0 /\ lastUsed' = Available
             /\ Forward("create", f, u, registry[Available])
    <3>1. Available \in 1 .. Len(registry) /\ registry \in Seq(Server)
      BY <2>3, AvailableTyped DEF DirectoryTyped, RegistersTyped
    <3>2. registry[Available] \in Server
      BY <3>1
    <3>3. UNCHANGED <<clients, registers, suspect, status, stores>>
      BY <1>1 DEF CreateAsk
    <3>4. RegistersTyped'
      BY <2>3, <3>1, <3>3 DEF RegistersTyped, registers, DirectoryTyped
    <3>5. ns' \in Ns /\ ServersTyped'
      BY <2>3, <3>2, <3>3, ForwardTyped DEF DirectoryTyped, Forwarded
    <3> QED
      BY <2>1, <3>4, <3>5 DEF DirectoryTyped
  <2> QED
    BY <1>1, <2>2, <2>3 DEF CreateAsk
<1>2. ASSUME NEW u \in User, NEW f \in File, DeleteAsk(u, f) PROVE DirectoryTyped'
  BY <1>2, LookupTyped DEF DeleteAsk, Forwarded
<1>3. ASSUME NEW u \in User, NEW f \in File, MoveAsk(u, f) PROVE DirectoryTyped'
  <2>1. fileMap[f] \in Server
    BY <1>3 DEF MoveAsk, MapsTyped, DirectoryTyped
  <2>2. ns' \in Ns /\ ServersTyped'
    BY <1>3, <2>1, ForwardTyped DEF MoveAsk, DirectoryTyped, Forwarded
  <2>3. RegistersTyped' /\ MapsTyped' /\ CacheTyped'
    BY <1>3, RegistersStay, MapsStay, CacheStays DEF MoveAsk, DirectoryTyped, directory
  <2> QED
    BY <2>2, <2>3 DEF DirectoryTyped
<1>4. ASSUME NEW u \in User, NEW f \in File, QueryAsk(u, f) PROVE DirectoryTyped'
  BY <1>4, LookupTyped DEF QueryAsk, Forwarded
<1>5. ASSUME FolderAsk PROVE DirectoryTyped'
  <2> DEFINE live == {i \in DOMAIN registry : alive[registry[i]]}
  <2>1. registry \in Seq(Server)
    BY DEF DirectoryTyped, RegistersTyped
  <2>2. live \in SUBSET Nat /\ live \subseteq DOMAIN registry /\ live # {}
    BY <1>5, <2>1 DEF FolderAsk
  <2>3. Forward("query", NsIdle.file, NsIdle.user, registry[Min(live)])
    BY <1>5 DEF FolderAsk
  <2> HIDE DEF live
  <2>4. registry[Min(live)] \in Server
    <3>1. PICK i : i = Min(live)
      OBVIOUS
    <3>2. i \in DOMAIN registry
      BY <2>2, <3>1, MinIsLeast
    <3> QED
      BY <2>1, <3>1, <3>2
  <2>5. ns' \in Ns /\ ServersTyped'
    BY <1>5, <2>3, <2>4, ForwardTyped, NsIdleShape DEF FolderAsk, DirectoryTyped, Forwarded
  <2>6. RegistersTyped' /\ MapsTyped' /\ CacheTyped'
    BY <1>5, RegistersStay, MapsStay, CacheStays DEF FolderAsk, DirectoryTyped, directory
  <2> QED
    BY <2>5, <2>6 DEF DirectoryTyped
<1>6. ASSUME NEW u \in User, NEW op \in Views, ViewAsk(u, op) PROVE DirectoryTyped'
  BY <1>6, ViewTyped DEF ViewAsk
<1>7. ASSUME NEW f \in File, Route(f) PROVE DirectoryTyped'
  <2>1. CacheTyped'
    BY <1>7, SearchedTyped DEF Route, DirectoryTyped
  <2> QED
    BY <1>7, <2>1, RegistersStay, MapsStay, ServersStay DEF Route, DirectoryTyped
<1>8. ASSUME NsShape, ViewGoesOn PROVE DirectoryTyped'
  <2>1. ns.op \in Views /\ ns.user \in User /\ ViewRest
    BY <1>8 DEF ViewGoesOn, NsShape
  <2>2. PICK i : ViewFrom(ns.user, ns.op, i)
    BY <1>8, Zenon DEF ViewGoesOn
  <2> QED
    BY <2>1, <2>2, ViewTyped
<1> QED
  BY <1>1, <1>2, <1>3, <1>4, <1>5, <1>6, <1>7, <1>8

LEMMA SharingKeepsTypes ==
  ASSUME DirectoryTyped,
         \/ \E u \in User, f \in File : Sharing(u, f)
         \/ \E u \in User : RegisterClient(u)
  PROVE  DirectoryTyped'
<1>1. ASSUME NEW u \in User, NEW f \in File, Sharing(u, f) PROVE DirectoryTyped'
  <2>1. /\ UNCHANGED ns \/ GoSave(u, f)
        /\ UNCHANGED <<clients, registers, suspect, directory, lastUsed, servers>>
    BY <1>1 DEF Sharing, RequestAccess, AddAccess, RemAccess, ApproveRequest, DenyRequest
  <2>2. ns' \in Ns
    BY <2>1, NsIdleTyped DEF GoSave, Ns, NsStates, DirectoryTyped
  <2> QED
    BY <2>1, <2>2, RegistersStay, MapsStay, CacheStays, ServersStay
       DEF DirectoryTyped, directory
<1>2. ASSUME NEW u \in User, RegisterClient(u) PROVE DirectoryTyped'
  <2>1. /\ UNCHANGED <<ns, registers, suspect, directory, lastUsed, servers>>
        /\ Len(clients) < MaxClients /\ clients' = Append(clients, u)
    BY <1>2 DEF RegisterClient
  <2>2. clients' \in Seq(User) /\ Len(clients') <= MaxClients
    BY <2>1, NameServerAssumption DEF DirectoryTyped, RegistersTyped
  <2>3. RegistersTyped'
    BY <2>1, <2>2 DEF DirectoryTyped, RegistersTyped, registers
  <2> QED
    BY <2>1, <2>3, MapsStay, CacheStays, ServersStay DEF DirectoryTyped, directory
<1> QED
  BY <1>1, <1>2

LEMMA RecordTyped ==
  ASSUME DirectoryTyped, CreateRecord \/ Replicate \/ DeleteRecord \/ PassOn
  PROVE  DirectoryTyped'
<1>0. ns.file \in File /\ ns.server \in Server \cup {NoServer}
  BY DEF DirectoryTyped, Ns
<1>1. CASE CreateRecord
  <2>1. /\ AddFileToSs(ns.server, ns.file) \/ UNCHANGED <<lists, fileMap, cache>>
        /\ ns' = NsIdle \/ \E at \in {"save", "replicate"} : ns' = [ns EXCEPT !.at = at]
        /\ UNCHANGED <<clients, registers, suspect, replica, lastUsed, servers>>
    BY <1>1 DEF CreateRecord, CreateGoesOn
  <2>2. CacheTyped' /\ MapsTyped'
    <3>1. replica' \in [File -> Server \cup {NoServer}]
      BY <2>1 DEF DirectoryTyped, MapsTyped
    <3>2. CASE AddFileToSs(ns.server, ns.file)
      BY <1>0, <3>1, <3>2, AddTyped DEF DirectoryTyped
    <3>3. CASE UNCHANGED <<lists, fileMap, cache>>
      BY <2>1, <3>3, CacheStays, MapsStay DEF DirectoryTyped
    <3> QED
      BY <2>1, <3>2, <3>3
  <2>3. ns' \in Ns
    BY <2>1, NsIdleTyped DEF DirectoryTyped, Ns, NsStates
  <2> QED
    BY <2>1, <2>2, <2>3, RegistersStay, ServersStay DEF DirectoryTyped
<1>2. CASE Replicate
  <2>1. ns' \in Ns /\ UNCHANGED <<clients, registers, suspect, status, stores>>
    BY <1>2, NsIdleTyped DEF Replicate
  <2>2. CASE UNCHANGED <<lastUsed, directory, queue>>
    BY <2>1, <2>2, RegistersStay, MapsStay, CacheStays, ServersStay
       DEF DirectoryTyped, directory, servers
  <2>3. CASE ~UNCHANGED <<lastUsed, directory, queue>>
    <3>1. Available # 0 /\ lastUsed' = Available
      BY <1>2, <2>3 DEF Replicate
    <3>2. Available \in 1 .. Len(registry) /\ registry \in Seq(Server)
      BY <3>1, AvailableTyped DEF DirectoryTyped, RegistersTyped
    <3>3. PICK r : r = registry[Available]
      OBVIOUS
    <3>4. r \in Server
      BY <3>2, <3>3
    <3>5. RegistersTyped'
      BY <2>1, <3>1, <3>2 DEF DirectoryTyped, RegistersTyped, registers
    <3>6. \/ UNCHANGED <<directory, queue>>
          \/ /\ replica' = [replica EXCEPT ![ns.file] = r]
             /\ \/ UNCHANGED <<lists, fileMap, cache, queue>>
                \/ AddFileToSs(r, ns.file) /\ Enqueue(r, "create", ns.file, FALSE)
      BY <1>2, <2>3, <3>3 DEF Replicate
    <3>7. CASE UNCHANGED <<directory, queue>>
      BY <2>1, <3>5, <3>7, MapsStay, CacheStays, ServersStay
         DEF DirectoryTyped, directory, servers
    <3>8. CASE /\ replica' = [replica EXCEPT ![ns.file] = r]
               /\ \/ UNCHANGED <<lists, fileMap, cache, queue>>
                  \/ AddFileToSs(r, ns.file) /\ Enqueue(r, "create", ns.file, FALSE)
      <4>1. replica' \in [File -> Server \cup {NoServer}]
        BY <1>0, <3>4, <3>8 DEF DirectoryTyped, MapsTyped
      <4>2. CASE UNCHANGED <<lists, fileMap, cache, queue>>
        BY <2>1, <3>5, <4>1, <4>2, CacheStays, ServersStay
           DEF DirectoryTyped, MapsTyped, servers
      <4>3. CASE AddFileToSs(r, ns.file) /\ Enqueue(r, "create", ns.file, FALSE)
        <5>1. CacheTyped' /\ MapsTyped'
          BY <1>0, <3>4, <4>1, <4>3, AddTyped DEF DirectoryTyped
        <5>2. ServersTyped'
          BY <1>0, <2>1, <4>3, EnqueueTyped DEF DirectoryTyped, Forwarded
        <5> QED
          BY <2>1, <3>5, <5>1, <5>2 DEF DirectoryTyped
      <4> QED
        BY <3>8, <4>2, <4>3
    <3> QED
      BY <3>6, <3>7, <3>8
  <2> QED
    BY <2>2, <2>3
<1>3. CASE DeleteRecord
  <2>1. /\ \/ /\ HashmapSet(ns.file, NoServer)
              /\ lists' = [lists EXCEPT ![ns.server] = RemoveFirst(@, ns.file)]
           \/ UNCHANGED <<lists, fileMap, cache>>
        /\ ns' = NsIdle \/ ns' = [ns EXCEPT !.at = "save"]
        /\ UNCHANGED <<clients, registers, suspect, replica, lastUsed, servers>>
    BY <1>3 DEF DeleteRecord
  <2>2. ns' \in Ns
    BY <2>1, NsIdleTyped DEF DirectoryTyped, Ns, NsStates
  <2>3. CASE UNCHANGED <<lists, fileMap, cache>>
    BY <2>1, <2>2, <2>3, RegistersStay, MapsStay, CacheStays, ServersStay
       DEF DirectoryTyped
  <2>4. CASE /\ HashmapSet(ns.file, NoServer)
             /\ lists' = [lists EXCEPT ![ns.server] = RemoveFirst(@, ns.file)]
    <3>1. CacheTyped' /\ fileMap' \in [File -> Server \cup {NoServer}]
      BY <1>0, <2>4, HashmapSetTyped DEF DirectoryTyped
    <3>2. ASSUME NEW t \in Server
          PROVE  lists'[t] \in Seq(File) /\ Len(lists'[t]) <= MaxFiles
      <4>1. lists[t] \in Seq(File) /\ Len(lists[t]) <= MaxFiles
        BY DEF DirectoryTyped, MapsTyped
      <4>2. lists'[t] = lists[t] \/ lists'[t] = RemoveFirst(lists[t], ns.file)
        BY <2>4 DEF DirectoryTyped, MapsTyped
      <4>3. /\ RemoveFirst(lists[t], ns.file) \in Seq(File)
            /\ Len(RemoveFirst(lists[t], ns.file)) <= Len(lists[t])
        BY <4>1, RemoveFirstTyped
      <4>4. /\ Len(lists[t]) \in Nat /\ MaxFiles \in Nat
            /\ Len(RemoveFirst(lists[t], ns.file)) \in Nat
        BY <4>1, <4>3, NameServerAssumption
      <4>5. Len(RemoveFirst(lists[t], ns.file)) <= MaxFiles
        BY <4>1, <4>3, <4>4
      <4> QED
        BY <4>1, <4>2, <4>3, <4>5
    <3>3. lists' = [t \in Server |-> lists'[t]]
      BY <2>4 DEF DirectoryTyped, MapsTyped
    <3>4. MapsTyped'
      BY <2>1, <3>1, <3>2, <3>3 DEF DirectoryTyped, MapsTyped
    <3> QED
      BY <2>1, <2>2, <3>1, <3>4, RegistersStay, ServersStay DEF DirectoryTyped
  <2> QED
    BY <2>1, <2>3, <2>4
<1>4. CASE PassOn
  BY <1>4, NsIdleTyped, RegistersStay, MapsStay, CacheStays, ServersStay
     DEF PassOn, DirectoryTyped, directory
<1> QED
  BY <1>1, <1>2, <1>3, <1>4

LEMMA SavingTyped ==
  ASSUME DirectoryTyped, SaveOpen \/ SaveData \/ SaveFails
  PROVE  DirectoryTyped'
<1>1. /\ ns' = NsIdle \/ \E at \in {"saving", "replicate"} : ns' = [ns EXCEPT !.at = at]
      /\ UNCHANGED <<clients, registers, suspect, directory, lastUsed, servers>>
  BY DEF SaveOpen, SaveData, SaveFails, AfterSave
<1>2. ns' \in Ns
  BY <1>1, NsIdleTyped DEF DirectoryTyped, Ns, NsStates
<1> QED
  BY <1>1, <1>2, RegistersStay, MapsStay, CacheStays, ServersStay
     DEF DirectoryTyped, directory

\* The files of a registration, at most MAX_FILES of them.
FilesTaken(s) == LET reported == SetToSeq(stores[s])
            IN SubSeq(reported, 1, Min({Len(reported), MaxFiles}))

LEMMA TakenTyped ==
  ASSUME ServersTyped, NEW s \in Server
  PROVE  FilesTaken(s) \in Seq(File) /\ Len(FilesTaken(s)) <= MaxFiles /\ ToSet(FilesTaken(s)) \subseteq File
<1>1. stores[s] \in SUBSET File /\ IsFiniteSet(stores[s])
  BY NameServerAssumption, FS_Subset DEF ServersTyped
<1>2. PICK q : q = SetToSeq(stores[s])
  OBVIOUS
<1>3. q \in Seq(File)
  BY <1>1, <1>2, ToSeqTyped
<1>4. PICK m : m = Min({Len(q), MaxFiles})
  OBVIOUS
<1>5. m \in Nat /\ m <= Len(q) /\ m <= MaxFiles
  <2>1. Len(q) \in Nat /\ MaxFiles \in Nat
    BY <1>3, NameServerAssumption
  <2>2. {Len(q), MaxFiles} \in SUBSET Nat /\ {Len(q), MaxFiles} # {}
    BY <2>1
  <2>3. m \in {Len(q), MaxFiles} /\ \A k \in {Len(q), MaxFiles} : m <= k
    BY <1>4, <2>2, MinIsLeast
  <2> QED
    BY <2>1, <2>3
<1>6. FilesTaken(s) = SubSeq(q, 1, m)
  BY <1>2, <1>4 DEF FilesTaken
<1>7. SubSeq(q, 1, m) \in Seq(File) /\ Len(SubSeq(q, 1, m)) = m
  BY <1>3, <1>5
<1>8. ToSet(FilesTaken(s)) \subseteq File
  BY <1>6, <1>7 DEF ToSet
<1> QED
  BY <1>5, <1>6, <1>7, <1>8

LEMMA AppendServer ==
  ASSUME registry \in Seq(Server), IsInjective(registry), NEW s \in Server,
         s \notin ToSet(registry)
  PROVE  Append(registry, s) \in Seq(Server) /\ IsInjective(Append(registry, s))
<1>1. /\ Append(registry, s) \in Seq(Server)
      /\ Len(Append(registry, s)) = Len(registry) + 1 /\ Len(registry) \in Nat
      /\ \A i \in 1 .. Len(registry) : Append(registry, s)[i] = registry[i]
      /\ Append(registry, s)[Len(registry) + 1] = s
  OBVIOUS
<1>2. \A i \in 1 .. Len(registry) : registry[i] # s
  BY DEF ToSet
<1>3. DOMAIN Append(registry, s) = 1 .. Len(registry) + 1
      /\ DOMAIN registry = 1 .. Len(registry)
  BY <1>1
<1>4. ASSUME NEW i \in 1 .. Len(registry) + 1, NEW j \in 1 .. Len(registry) + 1,
             Append(registry, s)[i] = Append(registry, s)[j]
      PROVE  i = j
  <2>1. i \in 1 .. Len(registry) \/ i = Len(registry) + 1
    BY <1>1
  <2>2. j \in 1 .. Len(registry) \/ j = Len(registry) + 1
    BY <1>1
  <2>3. CASE i \in 1 .. Len(registry) /\ j \in 1 .. Len(registry)
    BY <1>1, <1>3, <1>4, <2>3 DEF IsInjective
  <2>4. CASE i = Len(registry) + 1 \/ j = Len(registry) + 1
    BY <1>1, <1>2, <1>4, <2>1, <2>2, <2>4
  <2> QED
    BY <2>1, <2>2, <2>3, <2>4
<1>5. IsInjective(Append(registry, s))
  BY <1>3, <1>4 DEF IsInjective
<1> QED
  BY <1>1, <1>5

LEMMA RegisterTyped ==
  ASSUME DirectoryTyped, NEW s \in Server, RegisterServer(s)
  PROVE  DirectoryTyped'
<1> USE DEF DirectoryTyped
<1>1. UNCHANGED <<ns, clients, suspect, replica, lastUsed, stores>>
  BY DEF RegisterServer
<1>2. CASE /\ status' = [status EXCEPT ![s] = "down"]
           /\ queue' = [queue EXCEPT ![s] = <<>>]
           /\ UNCHANGED <<registers, lists, fileMap, cache>>
  <2>1. ServersTyped'
    BY <1>1, <1>2, NameServerAssumption DEF ServersTyped
  <2> QED
    BY <1>1, <1>2, <2>1, RegistersStay, MapsStay, CacheStays
<1>3. CASE /\ s \in ToSet(registry) \/ Len(registry) < MaxServers
           /\ status' = [status EXCEPT ![s] = "serving"]
           /\ registry' = IF s \in ToSet(registry) THEN registry ELSE Append(registry, s)
           /\ alive' = [alive EXCEPT ![s] = TRUE]
           /\ age' = [age EXCEPT ![s] = 0]
           /\ lists' = [lists EXCEPT ![s] = FilesTaken(s)]
           /\ fileMap' = [f \in File |-> IF f \in ToSet(FilesTaken(s)) THEN s ELSE fileMap[f]]
           /\ cache' = WithoutAll(ToSet(FilesTaken(s)))
           /\ UNCHANGED queue
  <2>1. ServersTyped'
    BY <1>1, <1>3 DEF ServersTyped
  <2>2. /\ FilesTaken(s) \in Seq(File) /\ Len(FilesTaken(s)) <= MaxFiles
        /\ ToSet(FilesTaken(s)) \subseteq File
    BY TakenTyped
  <2>3. MapsTyped'
    <3>1. \A t \in Server : lists'[t] \in Seq(File) /\ Len(lists'[t]) <= MaxFiles
      BY <1>3, <2>2 DEF MapsTyped
    <3>2. lists' = [t \in Server |-> lists'[t]]
      BY <1>3 DEF MapsTyped
    <3>3. fileMap' \in [File -> Server \cup {NoServer}]
      BY <1>3 DEF MapsTyped
    <3> QED
      BY <1>1, <3>1, <3>2, <3>3 DEF MapsTyped
  <2>4. CacheTyped'
    <3>1. PICK w : w = WithoutAll(ToSet(FilesTaken(s)))
      OBVIOUS
    <3>2. w \in Seq(CacheEntry) /\ Len(w) <= Len(cache)
      BY <3>1, WithoutAllEntries
    <3>3. w \in Seq(CacheEntry) /\ Len(w) <= CacheSize
      BY <3>2, CacheSizeNat DEF CacheTyped
    <3> QED
      BY <1>3, <3>1, <3>3 DEF CacheTyped
  <2>5. RegistersTyped'
    <3>1. registry' \in Seq(Server) /\ IsInjective(registry')
          /\ Len(registry) <= Len(registry') /\ Len(registry') <= MaxServers
      <4>1. CASE s \in ToSet(registry)
        BY <1>3, <4>1 DEF RegistersTyped
      <4>2. CASE s \notin ToSet(registry)
        <5>1. Append(registry, s) \in Seq(Server) /\ IsInjective(Append(registry, s))
          BY <4>2, AppendServer DEF RegistersTyped
        <5>2. Len(Append(registry, s)) = Len(registry) + 1 /\ Len(registry) \in Nat
          BY DEF RegistersTyped
        <5>3. Len(registry) < MaxServers /\ registry' = Append(registry, s)
          BY <1>3, <4>2
        <5> QED
          BY <5>1, <5>2, <5>3, NameServerAssumption
      <4> QED
        BY <4>1, <4>2
    <3>2. age' \in [Server -> 0 .. Timeout + 1] /\ alive' \in [Server -> BOOLEAN]
      <4>1. 0 \in 0 .. Timeout + 1
        BY NameServerAssumption
      <4> QED
        BY <1>3, <4>1 DEF RegistersTyped
    <3>3. lastUsed' \in 0 .. Len(registry')
      BY <1>1, <3>1 DEF RegistersTyped
    <3> QED
      BY <1>1, <3>1, <3>2, <3>3 DEF RegistersTyped
  <2> QED
    BY <1>1, <2>1, <2>3, <2>4, <2>5
<1>4. Len(registry) \in Nat
  BY DEF RegistersTyped
<1>5. Len(registry) >= MaxServers \/ Len(registry) < MaxServers
  BY <1>4, NameServerAssumption
<1> QED
  BY <1>2, <1>3, <1>5 DEF RegisterServer, FilesTaken

LEMMA ServeTyped ==
  ASSUME DirectoryTyped, NEW s \in Server, Serve(s)
  PROVE  DirectoryTyped'
<1> USE DEF DirectoryTyped
<1>1. UNCHANGED <<clients, registers, suspect, directory, lastUsed, status>>
  BY DEF Serve
<1>2. PICK job : job = Head(queue[s])
  OBVIOUS
<1>3. queue[s] \in Seq(Job) /\ queue[s] # <<>> /\ Len(queue[s]) <= MaxQueue
  BY DEF Serve, ServersTyped
<1>4. job \in Job
  BY <1>2, <1>3
<1>5. PICK done \in BOOLEAN :
        /\ stores' = [stores EXCEPT ![s] =
             CASE done /\ job.op = "create" -> @ \cup {job.file}
               [] done /\ job.op \in {"delete", "move"} -> @ \ {job.file}
               [] OTHER -> @]
        /\ ns' = IF job.asked THEN [ns EXCEPT !.at = "reply", !.ok = done] ELSE ns
  <2>1. PICK ok \in IF "iofault" \in Ops THEN BOOLEAN ELSE {TRUE} :
          LET done == ok /\ Succeeds(s, job) IN
          /\ stores' = [stores EXCEPT ![s] =
               CASE done /\ job.op = "create" -> @ \cup {job.file}
                 [] done /\ job.op \in {"delete", "move"} -> @ \ {job.file}
                 [] OTHER -> @]
          /\ ns' = IF job.asked THEN [ns EXCEPT !.at = "reply", !.ok = done] ELSE ns
    BY <1>2, Zenon DEF Serve
  <2>2. ok \in BOOLEAN
    OBVIOUS
  <2>3. (ok /\ Succeeds(s, job)) \in BOOLEAN
    BY <2>2
  <2> QED
    BY <2>1, <2>3, Zenon
<1>6. ns' \in Ns
  BY <1>5 DEF Ns, NsStates
<1>7. stores' \in [Server -> SUBSET File]
  <2>1. job.file \in File /\ stores[s] \in SUBSET File
    BY <1>4 DEF Job, ServersTyped
  <2>2. PICK after \in SUBSET File : stores' = [stores EXCEPT ![s] = after]
    BY <1>5, <2>1 DEF ServersTyped
  <2> QED
    BY <2>2 DEF ServersTyped
<1>8. queue' \in [Server -> Seq(Job)] /\ \A t \in Server : Len(queue'[t]) <= MaxQueue
  <2>1. queue' = [queue EXCEPT ![s] = Tail(@)]
    BY DEF Serve
  <2>2. Tail(queue[s]) \in Seq(Job) /\ Len(Tail(queue[s])) <= MaxQueue
    <3>1. Tail(queue[s]) \in Seq(Job) /\ Len(Tail(queue[s])) = Len(queue[s]) - 1
          /\ Len(queue[s]) \in Nat
      BY <1>3
    <3> QED
      BY <1>3, <3>1, NameServerAssumption
  <2> QED
    BY <2>1, <2>2 DEF ServersTyped
<1>9. ServersTyped'
  BY <1>1, <1>7, <1>8 DEF ServersTyped
<1> QED
  BY <1>1, <1>6, <1>9, RegistersStay, MapsStay, CacheStays DEF directory

LEMMA ServerStepTyped ==
  ASSUME DirectoryTyped, NsShape, NEW s \in Server,
         ServerStep(s) \/ ServerDies(s) \/ Suspect(s)
  PROVE  DirectoryTyped'
<1> USE DEF DirectoryTyped
<1>1. CASE Heartbeat(s)
  <2>1. RegistersTyped'
    BY <1>1, NameServerAssumption DEF Heartbeat, RegistersTyped
  <2> QED
    BY <1>1, <2>1, MapsStay, CacheStays, ServersStay DEF Heartbeat, directory
<1>2. CASE ServerStart(s)
  <2>1. ServersTyped'
    BY <1>2 DEF ServerStart, ServersTyped
  <2> QED
    BY <1>2, <2>1, RegistersStay, MapsStay, CacheStays DEF ServerStart, directory
<1>3. CASE ServerGivesUp(s)
  <2>1. ServersTyped'
    BY <1>3, NameServerAssumption DEF ServerGivesUp, ServersTyped
  <2> QED
    BY <1>3, <2>1, RegistersStay, MapsStay, CacheStays DEF ServerGivesUp, directory
<1>4. CASE ServerDies(s)
  <2>1. ServersTyped'
    BY <1>4, NameServerAssumption DEF ServerDies, ServersTyped
  <2>2. ns' \in {ns, Abandoned}
    BY <1>4 DEF ServerDies
  <2>3. ns' \in Ns
    BY <2>2, NsIdleTyped DEF Abandoned, Ns, NsStates
  <2> QED
    BY <1>4, <2>1, <2>3, RegistersStay, MapsStay, CacheStays DEF ServerDies, directory
<1>5. CASE Suspect(s)
  <2>1. RegistersTyped'
    BY <1>5 DEF Suspect, RegistersTyped, registers
  <2> QED
    BY <1>5, <2>1, MapsStay, CacheStays, ServersStay DEF Suspect, directory
<1> QED
  BY <1>1, <1>2, <1>3, <1>4, <1>5, ServeTyped, RegisterTyped DEF ServerStep, ServerCrash

LEMMA TimeTyped ==
  ASSUME DirectoryTyped, Tick \/ Condemn
  PROVE  DirectoryTyped'
<1> USE DEF DirectoryTyped
<1>1. CASE Tick
  <2>1. ASSUME NEW s \in Server
        PROVE  (IF s \in ToSet(registry) /\ age[s] <= Timeout THEN age[s] + 1 ELSE age[s])
                 \in 0 .. Timeout + 1
    BY NameServerAssumption DEF RegistersTyped
  <2>2. age' \in [Server -> 0 .. Timeout + 1]
    BY <1>1, <2>1 DEF Tick
  <2>3. RegistersTyped'
    BY <1>1, <2>2 DEF Tick, RegistersTyped
  <2> QED
    BY <1>1, <2>3, MapsStay, CacheStays, ServersStay DEF Tick, directory
<1>2. CASE Condemn
  <2>1. RegistersTyped'
    BY <1>2 DEF Condemn, RegistersTyped
  <2> QED
    BY <1>2, <2>1, MapsStay, CacheStays, ServersStay DEF Condemn, directory
<1> QED
  BY <1>1, <1>2

LEMMA EmptyTyped ==
  ASSUME EmptyRegistries
  PROVE  RegistersTyped' /\ MapsTyped' /\ CacheTyped'
<1>1. RegistersTyped'
  <2>1. 0 \in 0 .. Timeout + 1 /\ 0 <= MaxClients /\ 0 <= MaxServers
    BY NameServerAssumption
  <2>2. clients' = <<>> /\ registry' = <<>> /\ IsInjective(<<>>)
    BY DEF EmptyRegistries, IsInjective
  <2> QED
    BY <2>1, <2>2 DEF EmptyRegistries, RegistersTyped
<1>2. MapsTyped'
  BY NameServerAssumption DEF EmptyRegistries, MapsTyped, NoFiles
<1>3. CacheTyped'
  BY CacheSizeNat DEF EmptyRegistries, CacheTyped
<1> QED
  BY <1>1, <1>2, <1>3

LEMMA NsCrashTyped ==
  ASSUME DirectoryTyped, NsCrash
  PROVE  DirectoryTyped'
<1>1. RegistersTyped' /\ MapsTyped' /\ CacheTyped'
  BY EmptyTyped DEF NsCrash
<1>2. ns' \in Ns
  BY NsIdleTyped DEF NsCrash, Ns, NsStates
<1>3. ASSUME NEW s \in Server PROVE queue'[s] \in Seq(Job) /\ Len(queue'[s]) <= MaxQueue
  <2>1. queue'[s] = [i \in DOMAIN queue[s] |-> [queue[s][i] EXCEPT !.asked = FALSE]]
    BY DEF NsCrash
  <2>2. queue[s] \in Seq(Job) /\ Len(queue[s]) <= MaxQueue
    BY DEF DirectoryTyped, ServersTyped
  <2>3. ASSUME NEW i \in DOMAIN queue[s]
        PROVE  [queue[s][i] EXCEPT !.asked = FALSE] \in Job
    <3>1. PICK j : j = queue[s][i]
      OBVIOUS
    <3>2. j \in Job
      BY <2>2, <3>1
    <3>3. [j EXCEPT !.asked = FALSE] \in Job
      BY <3>2 DEF Job
    <3> QED
      BY <3>1, <3>3
  <2> DEFINE q == queue'[s]
  <2>d. DOMAIN queue[s] = 1 .. Len(queue[s])
    BY <2>2
  <2>4. q = [i \in 1 .. Len(queue[s]) |-> q[i]]
        /\ \A i \in 1 .. Len(queue[s]) : q[i] \in Job
    BY <2>1, <2>d, <2>3
  <2> HIDE DEF q
  <2>5. Len(queue[s]) \in Nat
    BY <2>2
  <2>6. q \in Seq(Job) /\ Len(q) = Len(queue[s])
    BY <2>4, <2>5
  <2> QED
    BY <2>2, <2>6 DEF q
<1>4. queue' = [s \in Server |-> queue'[s]] /\ UNCHANGED <<status, stores>>
  BY DEF NsCrash
<1>5. ServersTyped'
  BY <1>3, <1>4 DEF DirectoryTyped, ServersTyped
<1> QED
  BY <1>1, <1>2, <1>5 DEF DirectoryTyped

LEMMA DirectoryStep ==
  ASSUME DirectoryTyped, NsShape, Next
  PROVE  DirectoryTyped'
<1>1. CASE NsStart
  BY <1>1, NsIdleTyped, RegistersStay, MapsStay, CacheStays, ServersStay
     DEF NsStart, DirectoryTyped, directory
<1>2. \/ \/ \E u \in User, f \in File :
              CreateAsk(u, f) \/ DeleteAsk(u, f) \/ MoveAsk(u, f) \/ QueryAsk(u, f)
         \/ \E u \in User, op \in Views : ViewAsk(u, op)
         \/ FolderAsk \/ \E f \in File : Route(f)
         \/ ViewGoesOn
      \/ \/ \E u \in User, f \in File : Sharing(u, f)
         \/ \E u \in User : RegisterClient(u)
      \/ \E s \in Server : ServerStep(s) \/ Suspect(s)
      \/ CreateRecord \/ Replicate \/ DeleteRecord \/ PassOn
      \/ SaveOpen \/ SaveData \/ SaveFails
      \/ Tick \/ Condemn \/ NsCrash \/ NsStart
  BY Zenon DEF Next, Request, Sharing, Proceed
<1> QED
  BY <1>1, <1>2, AskTyped, SharingKeepsTypes, ServerStepTyped, RecordTyped, SavingTyped,
     TimeTyped, NsCrashTyped

LEMMA RequestsBounded ==
  ASSUME AclTyped, Len(requests) <= MaxRequests, NsShape, Next
  PROVE  Len(requests') <= MaxRequests
<1>1. CASE UNCHANGED requests
  BY <1>1
<1>2. ASSUME NEW u \in User, NEW f \in File, Sharing(u, f)
      PROVE  Len(requests') <= MaxRequests
  <2>1. \/ UNCHANGED requests
        \/ Len(requests) < MaxRequests /\ \E r : requests' = Append(requests, r)
        \/ \E i \in DOMAIN requests : requests' = [requests EXCEPT ![i].pending = FALSE]
    BY <1>2 DEF Sharing, RequestAccess, RequestAdd, AddAccess, RemAccess, ApproveRequest,
                DenyRequest, RequestAnswer
  <2>2. requests \in Seq(AccessRequest) /\ MaxRequests \in Nat
    BY AccessAssumption DEF AclTyped
  <2> QED
    BY <2>1, <2>2
<1>3. CASE NsCrash
  BY <1>3, AccessAssumption DEF NsCrash, EmptyRegistries
<1>4. ASSUME NEW s \in Server, Serving(s) PROVE UNCHANGED requests
  BY <1>4 DEF Serving, RegisterServer, ServerGivesUp, ServerDies, Serve, accessVars
<1>5. CASE Quiet \/ Asking \/ Replicate \/ PassOn
  BY <1>1, <1>5 DEF Quiet, Asking, Replicate, PassOn, accessVars
<1>6. CASE CreateRecord \/ DeleteRecord \/ SaveOpen \/ SaveData \/ SaveFails \/ NsStart
  BY <1>1, <1>6 DEF CreateRecord, DeleteRecord, SaveOpen, SaveData, SaveFails, NsStart
<1> QED
  BY <1>1, <1>2, <1>3, <1>4, <1>5, <1>6, NextSplit

LEMMA TypeInit == Init => TypeOK
<1> SUFFICES ASSUME Init PROVE TypeOK
  OBVIOUS
<1>1. AccessTypeOK
  BY AccessAssumption DEF Init, AccessInit, NoAcl, AccessTypeOK
<1>2. ns \in Ns
  BY NsIdleTyped DEF Init
<1>3. RegistersTyped
  <2>1. 0 \in 0 .. Timeout + 1 /\ 0 <= MaxClients /\ 0 <= MaxServers
    BY NameServerAssumption
  <2>2. clients = <<>> /\ registry = <<>> /\ IsInjective(<<>>)
    BY DEF Init, IsInjective
  <2> QED
    BY <2>1, <2>2 DEF Init, RegistersTyped
<1>4. MapsTyped /\ CacheTyped /\ ServersTyped
  BY CacheSizeNat, NameServerAssumption DEF Init, MapsTyped, NoFiles, CacheTyped, ServersTyped
<1> QED
  BY <1>1, <1>2, <1>3, <1>4, TypeOKParts

LEMMA TypeStep ==
  ASSUME TypeOK, AccessInv, [Next]_vars
  PROVE  TypeOK'
<1>1. CASE Next
  <2>1. DirectoryTyped /\ AccessTypeOK /\ AclTyped /\ NsShape
    BY TypeOKParts DEF DirectoryTyped, AccessInv
  <2>2. DirectoryTyped'
    BY <1>1, <2>1, DirectoryStep
  <2>3. AccessTypeOK'
    BY <1>1, <2>1, AclStep, RequestsBounded DEF AclTyped, AccessTypeOK
  <2>4. (/\ AccessTypeOK /\ ns \in Ns
         /\ RegistersTyped /\ CacheTyped /\ MapsTyped /\ ServersTyped)'
    BY <2>2, <2>3 DEF DirectoryTyped
  <2> QED
    BY <2>4 DEF TypeOK, RegistersTyped, CacheTyped, CacheEntry, MapsTyped, ServersTyped
<1>2. CASE UNCHANGED vars
  BY <1>2 DEF vars, accessVars, registers, directory, servers, TypeOK, AccessTypeOK
<1> QED
  BY <1>1, <1>2

\* Every variable of the name server keeps its type and every table its bound: the registry
\* names no server twice, the cache, the lists of files and the queues never outgrow
\* LRU_CACHE_SIZE, MAX_FILES and the backlog (find_available_ss, lru_put, add_file_to_ss,
\* handle_ss_registration).
THEOREM NameServerTyped == Spec => []TypeOK
<1>1. Spec => []AccessInv
  BY AnswersFindTheirHandler
<1> QED
  BY <1>1, TypeInit, TypeStep, PTL DEF Spec

-----------------------------------------------------------------------------
(* The cache agrees with the maps.                                         *)

\* An entry that stays keeps its place among the maps.
LEMMA EntriesStayAgree ==
  ASSUME CacheAgrees, NEW p \in [DOMAIN cache' -> DOMAIN cache], IsInjective(p),
         \A k \in DOMAIN cache' : /\ cache'[k] = cache[p[k]]
                                  /\ fileMap'[cache'[k].file] = fileMap[cache'[k].file]
                                  /\ replica'[cache'[k].file] = replica[cache'[k].file]
  PROVE  CacheAgrees'
<1>1. ASSUME NEW k \in DOMAIN cache'
      PROVE  /\ fileMap'[cache'[k].file] # NoServer
             /\ cache'[k].server \in {fileMap'[cache'[k].file], replica'[cache'[k].file]}
  BY DEF CacheAgrees
<1>2. ASSUME NEW k \in DOMAIN cache', NEW j \in DOMAIN cache',
             cache'[j].file = cache'[k].file
      PROVE  k = j
  <2>1. p[k] \in DOMAIN cache /\ p[j] \in DOMAIN cache
    OBVIOUS
  <2>2. p[k] = p[j]
    BY <1>2, <2>1 DEF CacheAgrees
  <2> QED
    BY <2>2 DEF IsInjective
<1> QED
  BY <1>1, <1>2 DEF CacheAgrees

LEMMA SameAgrees ==
  ASSUME CacheAgrees, UNCHANGED <<cache, fileMap, replica>>
  PROVE  CacheAgrees'
  BY DEF CacheAgrees

LEMMA WithoutDrops ==
  ASSUME CacheTyped, CacheAgrees, NEW f
  PROVE  \E p \in [DOMAIN Without(f) -> DOMAIN cache] :
           /\ IsInjective(p)
           /\ \A k \in DOMAIN Without(f) : /\ Without(f)[k] = cache[p[k]]
                                           /\ Without(f)[k].file # f
<1>1. PICK p \in [DOMAIN Without(f) -> DOMAIN cache] :
        /\ IsInjective(p)
        /\ \A k \in DOMAIN Without(f) : Without(f)[k] = cache[p[k]]
        /\ \/ \A i \in DOMAIN cache : cache[i].file # f
           \/ \E i \in DOMAIN cache : /\ cache[i].file = f
                                      /\ \A k \in DOMAIN Without(f) : p[k] # i
  BY WithoutEntries
<1>2. ASSUME NEW k \in DOMAIN Without(f) PROVE Without(f)[k].file # f
  <2>1. p[k] \in DOMAIN cache /\ Without(f)[k] = cache[p[k]]
    BY <1>1
  <2> QED
    BY <1>1, <2>1 DEF CacheAgrees
<1> QED
  BY <1>1, <1>2

\* hashmap_add and hashmap_remove, and what else concerns the file.
LEMMA HashmapSetAgrees ==
  ASSUME CacheTyped, MapsTyped, CacheAgrees, NEW f \in File, NEW s, HashmapSet(f, s),
         \A g \in File : g # f => replica'[g] = replica[g]
  PROVE  CacheAgrees' /\ \A k \in DOMAIN cache' : cache'[k].file # f
<1>1. PICK p \in [DOMAIN Without(f) -> DOMAIN cache] :
        /\ IsInjective(p)
        /\ \A k \in DOMAIN Without(f) : /\ Without(f)[k] = cache[p[k]]
                                        /\ Without(f)[k].file # f
  BY WithoutDrops
<1>2. cache' = Without(f) /\ fileMap' = [fileMap EXCEPT ![f] = s]
  BY DEF HashmapSet
<1>3. ASSUME NEW k \in DOMAIN cache'
      PROVE  /\ cache'[k].file \in File /\ cache'[k].file # f
             /\ fileMap'[cache'[k].file] = fileMap[cache'[k].file]
             /\ replica'[cache'[k].file] = replica[cache'[k].file]
  <2>1. cache[p[k]] \in CacheEntry /\ cache'[k] = cache[p[k]] /\ cache'[k].file # f
    BY <1>1, <1>2 DEF CacheTyped
  <2>2. cache'[k].file \in File
    BY <2>1 DEF CacheEntry
  <2> QED
    BY <1>2, <2>1, <2>2 DEF MapsTyped
<1>4. CacheAgrees'
  BY <1>1, <1>2, <1>3, EntriesStayAgree
<1> QED
  BY <1>3, <1>4

LEMMA LruPutAgrees ==
  ASSUME CacheTyped, CacheAgrees, NEW f \in File, NEW s \in Server,
         fileMap[f] # NoServer, s \in {fileMap[f], replica[f]},
         cache' = LruPut(f, s), UNCHANGED <<fileMap, replica>>
  PROVE  CacheAgrees'
<1>1. PICK p \in [DOMAIN Without(f) -> DOMAIN cache] :
        /\ IsInjective(p)
        /\ \A k \in DOMAIN Without(f) : /\ Without(f)[k] = cache[p[k]]
                                        /\ Without(f)[k].file # f
  BY WithoutDrops
<1>2. /\ cache' \in Seq(CacheEntry)
      /\ cache'[1] = [file |-> f, server |-> s]
      /\ \A k \in DOMAIN cache' :
           k # 1 => k - 1 \in DOMAIN Without(f) /\ cache'[k] = Without(f)[k - 1]
  BY LruPutEntries
<1>3. ASSUME NEW k \in DOMAIN cache', k # 1
      PROVE  /\ k - 1 \in DOMAIN Without(f) /\ p[k - 1] \in DOMAIN cache
             /\ cache'[k] = cache[p[k - 1]] /\ cache'[k].file # f
  BY <1>1, <1>2, <1>3
<1>4. ASSUME NEW k \in DOMAIN cache'
      PROVE  /\ fileMap[cache'[k].file] # NoServer
             /\ cache'[k].server \in {fileMap[cache'[k].file], replica[cache'[k].file]}
  <2>1. CASE k = 1
    BY <1>2, <2>1
  <2>2. CASE k # 1
    BY <1>3, <2>2 DEF CacheAgrees
  <2> QED
    BY <2>1, <2>2
<1>5. ASSUME NEW k \in DOMAIN cache', NEW j \in DOMAIN cache',
             cache'[j].file = cache'[k].file
      PROVE  k = j
  <2>1. CASE k = 1 \/ j = 1
    BY <1>2, <1>3, <1>5, <2>1
  <2>2. CASE k # 1 /\ j # 1
    <3>1. p[k - 1] = p[j - 1]
      BY <1>3, <1>5, <2>2 DEF CacheAgrees
    <3>2. k - 1 = j - 1
      BY <1>1, <1>3, <2>2, <3>1 DEF IsInjective
    <3>3. k \in Nat /\ j \in Nat
      BY <1>2
    <3> QED
      BY <3>2, <3>3
  <2> QED
    BY <2>1, <2>2
<1> QED
  BY <1>4, <1>5 DEF CacheAgrees

LEMMA SearchedAgrees ==
  ASSUME CacheTyped, MapsTyped, CacheAgrees, NEW f \in File, Searched(f),
         UNCHANGED <<fileMap, replica>>
  PROVE  CacheAgrees'
<1>1. Cached(f) \in Server \cup {NoServer} /\ Find(f) \in Server \cup {NoServer}
  BY FindTyped
<1>2. Cached(f) # NoServer =>
        fileMap[f] # NoServer /\ Cached(f) \in {fileMap[f], replica[f]}
  BY CachedTyped DEF CacheAgrees
<1>3. Mapped(f) # NoServer =>
        fileMap[f] # NoServer /\ Mapped(f) \in {fileMap[f], replica[f]}
  BY DEF Mapped
<1>4. Find(f) # NoServer =>
        fileMap[f] # NoServer /\ Find(f) \in {fileMap[f], replica[f]}
  BY <1>2, <1>3 DEF Find, IsAlive
<1>5. CASE Find(f) # NoServer
  BY <1>1, <1>4, <1>5, LruPutAgrees DEF Searched
<1>6. CASE Find(f) = NoServer /\ Cached(f) # NoServer
  BY <1>1, <1>2, <1>6, LruPutAgrees DEF Searched
<1>7. CASE Find(f) = NoServer /\ Cached(f) = NoServer
  BY <1>7, SameAgrees DEF Searched
<1> QED
  BY <1>5, <1>6, <1>7

\* Between the answer to a CREATE and the choice of its replica the file is not cached.
CreatedNotCached ==
  /\ ns.at = "replicate" => ns.op = "create"
  /\ ns.op = "create" /\ ns.at \in {"save", "saving", "replicate"} =>
       \A i \in DOMAIN cache : cache[i].file # ns.file

\* A server that answers a CREATE has room in its list of files.
RoomForCreated ==
  ns.at = "reply" /\ ns.op = "create" => Len(lists[ns.server]) < MaxFiles

CacheInv == CacheAgrees /\ CreatedNotCached

\* Where a handler does not come from a CREATE.
Elsewhere(n) ==
  n.at \notin {"save", "saving", "replicate"} \/ (n.op # "create" /\ n.at # "replicate")

LEMMA ElsewhereOk == ASSUME Elsewhere(ns)' PROVE CreatedNotCached'
  BY DEF Elsewhere, CreatedNotCached

LEMMA ForwardWaits ==
  ASSUME NEW op, NEW f, NEW u, NEW s, Forward(op, f, u, s)
  PROVE  UNCHANGED ns \/ ns'.at = "wait"
<1>1. \/ UNCHANGED ns
      \/ ns' = [at |-> "wait", op |-> op, file |-> f, user |-> u, server |-> s, ok |-> FALSE]
  BY Zenon DEF Forward
<1> QED
  BY <1>1

\* The steps by what they do to the cache and the maps.
LEMMA CacheMoves ==
  ASSUME DirectoryTyped, NsShape, Next
  PROVE  \/ /\ UNCHANGED <<cache, fileMap, replica>>
            /\ \/ Elsewhere(ns)'
               \/ UNCHANGED ns
               \/ ns.at \in {"save", "saving"} /\ ns' = [ns EXCEPT !.at = "saving"]
               \/ ns.at \in {"save", "saving"} /\ ns.op = "create"
                    /\ ns' = [ns EXCEPT !.at = "replicate"]
         \/ /\ \E f \in File : Searched(f)
            /\ UNCHANGED <<fileMap, replica>> /\ Elsewhere(ns)'
         \/ CreateRecord \/ Replicate \/ DeleteRecord
         \/ \E s \in Server : RegisterServer(s)
         \/ NsCrash
<1> USE DEF Elsewhere
<1>1. ASSUME NEW u \in User, NEW f \in File,
             CreateAsk(u, f) \/ DeleteAsk(u, f) \/ QueryAsk(u, f)
      PROVE  Searched(f) /\ UNCHANGED <<fileMap, replica>> /\ Elsewhere(ns)'
  <2>1. ns.at = "idle" /\ (UNCHANGED ns \/ \E op, s : Forward(op, f, u, s))
    BY <1>1 DEF CreateAsk, DeleteAsk, QueryAsk, Idle
  <2>2. Elsewhere(ns)'
    BY <2>1, ForwardWaits
  <2> QED
    BY <1>1, <2>2 DEF CreateAsk, DeleteAsk, QueryAsk
<1>2. ASSUME NEW u \in User, NEW op \in Views, NEW i, ViewFrom(u, op, i), ViewRest
      PROVE  /\ UNCHANGED <<fileMap, replica>> /\ Elsewhere(ns)'
             /\ UNCHANGED cache \/ \E f \in File : Searched(f)
  <2>1. \/ ns' = NsIdle /\ UNCHANGED cache
        \/ \E f \in File : ViewFile(u, op, f)
    BY <1>2 DEF ViewFrom, Listed
  <2>2. ASSUME NEW f \in File, ViewFile(u, op, f)
        PROVE  Searched(f) /\ Elsewhere(ns)'
    <3>1. Searched(f)
      BY <2>2 DEF ViewFile
    <3>2. CASE ns' = [NsIdle EXCEPT !.at = "view", !.op = op, !.file = f, !.user = u]
      BY <3>1, <3>2, NsIdleShape
    <3>3. CASE Forward(op, f, u, Find(f)) /\ status[Find(f)] # "down"
      BY <3>1, <3>3 DEF Forward
    <3> QED
      BY <2>2, <3>2, <3>3, Zenon DEF ViewFile
  <2>3. UNCHANGED <<fileMap, replica>>
    BY <1>2 DEF ViewRest
  <2>4. NsIdle.at = "idle"
    BY NsIdleShape
  <2> QED
    BY <2>1, <2>2, <2>3, <2>4
<1>3. ASSUME NEW u \in User, NEW op \in Views, ViewAsk(u, op)
      PROVE  /\ UNCHANGED <<fileMap, replica>> /\ Elsewhere(ns)'
             /\ UNCHANGED cache \/ \E f \in File : Searched(f)
  BY <1>2, <1>3 DEF ViewAsk
<1>4. ASSUME ViewGoesOn
      PROVE  /\ UNCHANGED <<fileMap, replica>> /\ Elsewhere(ns)'
             /\ UNCHANGED cache \/ \E f \in File : Searched(f)
  <2>1. ns.op \in Views /\ ns.user \in User /\ ViewRest
    BY <1>4 DEF ViewGoesOn, NsShape
  <2>2. PICK i : ViewFrom(ns.user, ns.op, i)
    BY <1>4, Zenon DEF ViewGoesOn
  <2> QED
    BY <1>2, <2>1, <2>2
<1>5. ASSUME NEW f \in File, Route(f)
      PROVE  Searched(f) /\ UNCHANGED <<fileMap, replica>> /\ Elsewhere(ns)'
  BY <1>5 DEF Route, Idle
<1>6. ASSUME FolderAsk \/ \E u \in User, f \in File : MoveAsk(u, f)
      PROVE  UNCHANGED <<cache, fileMap, replica>> /\ Elsewhere(ns)'
  <2>1. ns.at = "idle" /\ \E op, f, u, s : Forward(op, f, u, s)
    BY <1>6 DEF FolderAsk, MoveAsk, Idle
  <2>2. Elsewhere(ns)'
    BY <2>1, ForwardWaits
  <2> QED
    BY <1>6, <2>2 DEF FolderAsk, MoveAsk, directory
<1>7. ASSUME NEW u \in User, NEW f \in File, Sharing(u, f)
      PROVE  UNCHANGED <<cache, fileMap, replica>> /\ (Elsewhere(ns)' \/ UNCHANGED ns)
  <2>1. /\ UNCHANGED ns \/ GoSave(u, f)
        /\ UNCHANGED <<cache, fileMap, replica>>
    BY <1>7 DEF Sharing, RequestAccess, AddAccess, RemAccess, ApproveRequest, DenyRequest,
                directory
  <2>2. NsIdle.op = "access"
    BY DEF NsIdle
  <2>3. GoSave(u, f) => ns'.op = "access" /\ ns'.at = "save"
    BY <2>2, NsIdleShape DEF GoSave
  <2> QED
    BY <2>1, <2>3
<1>8. ASSUME PassOn \/ NsStart
      PROVE  UNCHANGED <<cache, fileMap, replica>> /\ Elsewhere(ns)'
  BY <1>8, NsIdleShape DEF PassOn, NsStart, directory
<1>9. ASSUME SaveOpen \/ SaveData \/ SaveFails
      PROVE  /\ UNCHANGED <<cache, fileMap, replica>>
             /\ \/ Elsewhere(ns)'
                \/ ns.at \in {"save", "saving"} /\ ns' = [ns EXCEPT !.at = "saving"]
                \/ ns.at \in {"save", "saving"} /\ ns.op = "create"
                     /\ ns' = [ns EXCEPT !.at = "replicate"]
  BY <1>9, NsIdleShape DEF SaveOpen, SaveData, SaveFails, AfterSave, directory
<1>10. ASSUME NEW s \in Server,
              \/ Heartbeat(s) \/ ServerStart(s) \/ ServerGivesUp(s) \/ Suspect(s)
              \/ Tick \/ Condemn
       PROVE  UNCHANGED <<ns, cache, fileMap, replica>>
  BY <1>10 DEF Heartbeat, ServerStart, ServerGivesUp, Suspect, Tick, Condemn, directory
<1>11. ASSUME NEW s \in Server, ServerDies(s) \/ Serve(s)
       PROVE  UNCHANGED <<cache, fileMap, replica>> /\ (Elsewhere(ns)' \/ UNCHANGED ns)
  <2>1. \/ ns' \in {ns, NsIdle} \/ ns' = [ns EXCEPT !.at = "view"]
        \/ \E done : ns' = [ns EXCEPT !.at = "reply", !.ok = done]
    BY <1>11 DEF ServerDies, Serve, Abandoned
  <2>2. Elsewhere(ns)' \/ UNCHANGED ns
    BY <2>1, NsIdleShape DEF NsShape
  <2> QED
    BY <1>11, <2>2 DEF ServerDies, Serve, directory
<1>12. ASSUME NEW u \in User, RegisterClient(u)
       PROVE  UNCHANGED <<ns, cache, fileMap, replica>>
  BY <1>12 DEF RegisterClient, directory
<1>13. \/ \/ \E u \in User, f \in File :
               CreateAsk(u, f) \/ DeleteAsk(u, f) \/ MoveAsk(u, f) \/ QueryAsk(u, f)
          \/ \E u \in User, op \in Views : ViewAsk(u, op)
          \/ FolderAsk \/ \E f \in File : Route(f)
          \/ ViewGoesOn
       \/ \E u \in User, f \in File : Sharing(u, f)
       \/ \E u \in User : RegisterClient(u)
       \/ \E s \in Server : \/ Heartbeat(s) \/ ServerStart(s) \/ ServerGivesUp(s)
                            \/ Suspect(s) \/ ServerDies(s) \/ Serve(s)
       \/ Tick \/ Condemn \/ PassOn \/ NsStart
       \/ SaveOpen \/ SaveData \/ SaveFails
       \/ CreateRecord \/ Replicate \/ DeleteRecord \/ NsCrash
       \/ \E s \in Server : RegisterServer(s)
  BY Zenon DEF Next, Request, Sharing, Proceed, ServerStep, ServerCrash
<1>14. Server # {}
  BY NameServerAssumption
<1> HIDE DEF Elsewhere
<1> QED
  BY <1>1, <1>3, <1>4, <1>5, <1>6, <1>7, <1>8, <1>9, <1>10, <1>11, <1>12, <1>13, <1>14

LEMMA CreateAgrees ==
  ASSUME DirectoryTyped, CacheInv, RoomForCreated, CreateRecord
  PROVE  CacheInv'
<1> USE DEF DirectoryTyped, CacheInv
<1>1. ns.file \in File /\ ns.at = "reply" /\ ns.op = "create" /\ UNCHANGED replica
  BY DEF CreateRecord, Ns
<1>2. CASE ns' = NsIdle /\ UNCHANGED <<lists, fileMap, cache>>
  <2>1. CacheAgrees'
    BY <1>1, <1>2, SameAgrees
  <2> QED
    BY <1>2, <2>1, NsIdleShape, ElsewhereOk DEF Elsewhere
<1>3. CASE /\ AddFileToSs(ns.server, ns.file)
           /\ \E at \in {"save", "replicate"} : ns' = [ns EXCEPT !.at = at]
  <2>1. HashmapSet(ns.file, ns.server)
    BY <1>1, <1>3 DEF AddFileToSs, RoomForCreated
  <2>2. CacheAgrees' /\ \A k \in DOMAIN cache' : cache'[k].file # ns.file
    BY <1>1, <2>1, HashmapSetAgrees
  <2>3. ns'.file = ns.file /\ ns'.op = ns.op
    BY <1>3 DEF Ns
  <2> QED
    BY <1>1, <2>2, <2>3 DEF CreatedNotCached
<1> QED
  BY <1>2, <1>3 DEF CreateRecord, CreateGoesOn

LEMMA ReplicateAgrees ==
  ASSUME DirectoryTyped, CacheInv, Replicate
  PROVE  CacheInv'
<1> USE DEF DirectoryTyped, CacheInv
<1>1. /\ ns.file \in File /\ ns' = NsIdle
      /\ \A i \in DOMAIN cache : cache[i].file # ns.file
  BY DEF Replicate, CreatedNotCached, Ns
<1>2. CreatedNotCached'
  BY <1>1, NsIdleShape, ElsewhereOk DEF Elsewhere
<1>3. \/ UNCHANGED directory
      \/ \E r : /\ replica' = [replica EXCEPT ![ns.file] = r]
                /\ UNCHANGED <<lists, fileMap, cache>> \/ HashmapSet(ns.file, r)
  BY DEF Replicate, AddFileToSs
<1>4. CASE UNCHANGED directory
  BY <1>2, <1>4, SameAgrees DEF directory
<1>5. ASSUME NEW r, replica' = [replica EXCEPT ![ns.file] = r]
      PROVE  \A g \in File : g # ns.file => replica'[g] = replica[g]
  BY <1>5 DEF MapsTyped
<1>6. ASSUME NEW r, replica' = [replica EXCEPT ![ns.file] = r], HashmapSet(ns.file, r)
      PROVE  CacheAgrees'
  BY <1>1, <1>5, <1>6, HashmapSetAgrees
<1>7. ASSUME NEW r, replica' = [replica EXCEPT ![ns.file] = r], UNCHANGED <<fileMap, cache>>
      PROVE  CacheAgrees'
  <2>1. ASSUME NEW i \in DOMAIN cache PROVE replica'[cache[i].file] = replica[cache[i].file]
    <3>1. cache[i] \in CacheEntry
      BY DEF CacheTyped
    <3> QED
      BY <1>1, <1>5, <1>7, <3>1 DEF CacheEntry
  <2> QED
    BY <1>7, <2>1 DEF CacheAgrees
<1> QED
  BY <1>2, <1>3, <1>4, <1>6, <1>7

LEMMA RegisterAgrees ==
  ASSUME DirectoryTyped, CacheInv, NEW s \in Server, RegisterServer(s)
  PROVE  CacheInv'
<1> USE DEF DirectoryTyped, CacheInv
<1>1. CreatedNotCached'
  BY ElsewhereOk DEF RegisterServer, Elsewhere
<1>2. CASE UNCHANGED <<lists, fileMap, cache>>
  BY <1>1, <1>2, SameAgrees DEF RegisterServer
<1>3. CASE /\ fileMap' = [f \in File |-> IF f \in ToSet(FilesTaken(s)) THEN s ELSE fileMap[f]]
           /\ cache' = WithoutAll(ToSet(FilesTaken(s)))
  <2>1. PICK p \in [DOMAIN cache' -> DOMAIN cache] :
          /\ IsInjective(p)
          /\ \A k \in DOMAIN cache' : /\ cache'[k] = cache[p[k]]
                                      /\ cache[p[k]].file \notin ToSet(FilesTaken(s))
    BY <1>3, WithoutAllEntries
  <2>2. ASSUME NEW k \in DOMAIN cache'
        PROVE  fileMap'[cache'[k].file] = fileMap[cache'[k].file]
    <3>1. cache[p[k]] \in CacheEntry /\ cache'[k] = cache[p[k]]
      BY <2>1 DEF CacheTyped
    <3> QED
      BY <1>3, <2>1, <3>1 DEF CacheEntry
  <2>3. UNCHANGED replica
    BY DEF RegisterServer
  <2>4. CacheAgrees'
    BY <2>1, <2>2, <2>3, EntriesStayAgree
  <2> QED
    BY <1>1, <2>4
<1> QED
  BY <1>2, <1>3 DEF RegisterServer, FilesTaken

LEMMA CacheStep ==
  ASSUME DirectoryTyped, NsShape, CacheInv, RoomForCreated, Next
  PROVE  CacheInv'
<1> USE DEF DirectoryTyped, CacheInv
<1>1. CASE /\ UNCHANGED <<cache, fileMap, replica>>
           /\ \/ Elsewhere(ns)'
              \/ UNCHANGED ns
              \/ ns.at \in {"save", "saving"} /\ ns' = [ns EXCEPT !.at = "saving"]
              \/ ns.at \in {"save", "saving"} /\ ns.op = "create"
                   /\ ns' = [ns EXCEPT !.at = "replicate"]
  <2>1. CacheAgrees'
    BY <1>1, SameAgrees
  <2>2. CreatedNotCached'
    BY <1>1, ElsewhereOk DEF CreatedNotCached, Ns
  <2> QED
    BY <2>1, <2>2
<1>2. CASE /\ \E f \in File : Searched(f)
           /\ UNCHANGED <<fileMap, replica>> /\ Elsewhere(ns)'
  BY <1>2, SearchedAgrees, ElsewhereOk
<1>3. CASE DeleteRecord
  <2>1. ns.file \in File /\ UNCHANGED replica
    BY <1>3 DEF DeleteRecord, Ns
  <2>2. CacheAgrees'
    BY <1>3, <2>1, HashmapSetAgrees, SameAgrees DEF DeleteRecord
  <2>3. Elsewhere(ns)'
    BY <1>3, NsIdleShape DEF DeleteRecord, Ns, Elsewhere
  <2> QED
    BY <2>2, <2>3, ElsewhereOk
<1>4. CASE NsCrash
  <2>1. cache' = <<>> /\ ns'.at = "down"
    BY <1>4, NsIdleShape DEF NsCrash, EmptyRegistries
  <2> QED
    BY <2>1 DEF CacheAgrees, CreatedNotCached
<1> QED
  BY <1>1, <1>2, <1>3, <1>4, CreateAgrees, ReplicateAgrees, RegisterAgrees, CacheMoves

\* While no server answers a CREATE that its list of files has no room for, a cached file is
\* in the map, once, with the server of the map or of the replication map (hashmap_add and
\* hashmap_remove call lru_invalidate; what is put into the replication map does not).
THEOREM CacheFollowsMaps == Spec /\ []RoomForCreated => []CacheAgrees
<1>1. Init => CacheInv
  BY NsIdleShape DEF Init, CacheInv, CacheAgrees, CreatedNotCached
<1>2. TypeOK /\ AccessInv /\ RoomForCreated /\ CacheInv /\ [Next]_vars => CacheInv'
  <2>1. ASSUME TypeOK, AccessInv, RoomForCreated, CacheInv, Next PROVE CacheInv'
    <3>1. DirectoryTyped /\ NsShape
      BY <2>1, TypeOKParts DEF DirectoryTyped, AccessInv
    <3> QED
      BY <2>1, <3>1, CacheStep
  <2>2. ASSUME CacheInv, UNCHANGED vars PROVE CacheInv'
    BY <2>2 DEF vars, directory, CacheInv, CacheAgrees, CreatedNotCached
  <2> QED
    BY <2>1, <2>2
<1>3. CacheInv => CacheAgrees
  BY DEF CacheInv
<1>4. Spec => []TypeOK /\ []AccessInv
  BY NameServerTyped, AnswersFindTheirHandler, PTL
<1> QED
  BY <1>1, <1>2, <1>3, <1>4, PTL DEF Spec
=============================================================================
