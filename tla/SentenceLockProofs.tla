------------------------- MODULE SentenceLockProofs -------------------------
(***************************************************************************)
(* The lock table keeps its promise for every set of clients and keys and  *)
(* every timeout.                                                          *)
(***************************************************************************)
EXTENDS SentenceLock, TLAPS

\* Each operation keeps the entries locks or absent.
LEMMA LockStepTyped == LockTypeOK /\ [LockNext]_lockVars => LockTypeOK'
<1> SUFFICES ASSUME LockTypeOK, [LockNext]_lockVars
             PROVE  LockTypeOK'
  OBVIOUS
<1> USE DEF LockTypeOK, Lock
<1>1. ASSUME NEW k \in Key, NEW c \in Client, Acquire(k, c), UNCHANGED now
      PROVE  LockTypeOK'
  BY <1>1 DEF Acquire
<1>2. ASSUME NEW k \in Key, NEW c \in Client, Release(k, c), UNCHANGED now
      PROVE  LockTypeOK'
  BY <1>2 DEF Release
<1>3. CASE CleanupExpired /\ UNCHANGED now
  BY <1>3 DEF CleanupExpired
<1>4. CASE LoseTable /\ UNCHANGED now
  BY <1>4 DEF LoseTable
<1>5. CASE Tick
  BY <1>5 DEF Tick
<1>6. CASE UNCHANGED lockVars
  BY <1>6 DEF lockVars
<1> QED
  BY <1>1, <1>2, <1>3, <1>4, <1>5, <1>6 DEF LockNext, Denied

\* Every entry of the lock table is a lock or absent, whatever operations ran
\* (sentence_lock.c:26-197).
THEOREM LockTyped == LockSpec => []LockTypeOK
<1>1. LockInit => LockTypeOK
  BY DEF LockInit, LockTypeOK
<1> QED
  BY <1>1, LockStepTyped, PTL DEF LockSpec

-----------------------------------------------------------------------------
\* A lock granted now is alive: holder shows its owner at once.
LEMMA GrantedIsHeld ==
  ASSUME LockTypeOK, NEW k \in Key, NEW c \in Client, Acquire(k, c), UNCHANGED now
  PROVE  holder' = [holder EXCEPT ![k] = c]
<1>1. table'[k] = [owner |-> c, since |-> now] /\ table'[k] # NoLock
  BY LockAssumption DEF Acquire, LockTypeOK, Lock
<1>2. (Held(k) /\ ~Expired(k))'
  BY <1>1, LockAssumption DEF Held, Expired, LockTypeOK
<1>3. \A j \in Key \ {k} : table'[j] = table[j]
  BY DEF Acquire, LockTypeOK
<1>4. \A j \in Key \ {k} : (Held(j) /\ ~Expired(j))' <=> (Held(j) /\ ~Expired(j))
  BY <1>3 DEF Held, Expired
<1>5. \A j \in Key : holder'[j] = IF j = k THEN c ELSE holder[j]
  BY <1>1, <1>2, <1>3, <1>4 DEF holder
<1> QED
  BY <1>5 DEF holder

\* An operation that leaves each entry alone or removes it, or lets time pass, can
\* only make sentences free.
LEMMA RemovingFrees ==
  ASSUME LockTypeOK,
         \A k \in Key : table'[k] \in {table[k], NoLock},
         now' \in Nat, now <= now'
  PROVE  \E K \in SUBSET Key : Lease!Free(K)
<1> DEFINE K == {k \in Key : ~(Held(k) /\ ~Expired(k))'}
<1>1. \A k \in Key \ K : table'[k] = table[k] /\ Held(k) /\ ~Expired(k)
  <2> SUFFICES ASSUME NEW k \in Key, k \notin K
               PROVE  table'[k] = table[k] /\ Held(k) /\ ~Expired(k)
    OBVIOUS
  <2>1. table'[k] = table[k] /\ table[k] # NoLock
    BY DEF Held
  <2>2. table[k].since \in Nat
    BY <2>1 DEF LockTypeOK, Lock
  <2> QED
    BY <2>1, <2>2, LockAssumption DEF Held, Expired, LockTypeOK
<1>2. holder' = [k \in Key |-> IF k \in K THEN NoLock ELSE holder[k]]
  BY <1>1 DEF holder
<1>3. K \in SUBSET Key
  OBVIOUS
<1> HIDE DEF K
<1> QED
  BY <1>2, <1>3 DEF Lease!Free

\* sentence_lock.h:5 for every instance: no two clients hold one sentence, and a
\* sentence changes hands only through nobody's (sentence_lock.c:34-197).
THEOREM LockImplementsLease == LockSpec => ImplementsLease
<1>1. LockInit => Lease!Init
  BY DEF LockInit, Lease!Init, holder, Held
<1>2. LockTypeOK /\ [LockNext]_lockVars => [Lease!Next]_holder
  <2> SUFFICES ASSUME LockTypeOK, [LockNext]_lockVars
               PROVE  [Lease!Next]_holder
    OBVIOUS
  <2>1. ASSUME NEW k \in Key, NEW c \in Client, Acquire(k, c), UNCHANGED now
        PROVE  Lease!Next
    <3>1. holder' = [holder EXCEPT ![k] = c]
      BY <2>1, GrantedIsHeld
    <3>2. holder[k] \in {NoLock, c}
      BY <2>1 DEF Acquire, Grantable, holder
    <3> QED
      BY <3>1, <3>2 DEF Lease!Next, Lease!Take
  <2>2. ASSUME NEW k \in Key, NEW c \in Client, Release(k, c), UNCHANGED now
        PROVE  Lease!Next
    <3>1. \A j \in Key : table'[j] \in {table[j], NoLock}
      BY <2>2 DEF Release, LockTypeOK
    <3> QED
      BY <2>2, <3>1, RemovingFrees DEF Lease!Next, LockTypeOK
  <2>3. CASE CleanupExpired /\ UNCHANGED now
    BY <2>3, RemovingFrees DEF CleanupExpired, Lease!Next, LockTypeOK
  <2>4. CASE LoseTable /\ UNCHANGED now
    BY <2>4, RemovingFrees DEF LoseTable, Lease!Next, LockTypeOK
  <2>5. CASE Tick
    BY <2>5, RemovingFrees DEF Tick, Lease!Next, LockTypeOK
  <2>6. CASE UNCHANGED lockVars
    BY <2>6 DEF lockVars, holder, Held, Expired
  <2> QED
    BY <2>1, <2>2, <2>3, <2>4, <2>5, <2>6 DEF LockNext, Denied, lockVars, holder, Held, Expired
<1> QED
  BY <1>1, <1>2, LockTyped, PTL DEF LockSpec, ImplementsLease, Lease!Spec
=============================================================================
