---------------------------- MODULE SentenceLock ----------------------------
(***************************************************************************)
(* storage_server/sentence_lock.c: the table of sentence locks of one      *)
(* storage server. A key is a file name with a sentence number. Every      *)
(* operation runs under the table's mutex, so each is one action. A lock   *)
(* carries the time it was taken; LockTimeout ticks later it has expired:  *)
(* it may be taken over, and the cleanup thread removes it.                *)
(***************************************************************************)
EXTENDS Naturals

CONSTANTS Client,       \* client names
          Key,          \* <<filename, sentence_num>>
          NoLock,       \* no entry in the table
          LockTimeout,  \* LOCK_TIMEOUT
          MaxTime       \* bound on the clock

Lock == [owner : Client, since : Nat]

ASSUME LockAssumption == /\ LockTimeout \in Nat \ {0}
                         /\ MaxTime \in Nat
                         /\ NoLock \notin Lock

VARIABLES table,        \* the entries, by key
          now           \* time(NULL)

lockVars == <<table, now>>

LockTypeOK == /\ table \in [Key -> Lock \cup {NoLock}]
              /\ now \in Nat

\* lock_table_init
LockInit == /\ table = [k \in Key |-> NoLock]
            /\ now = 0

Held(k) == table[k] # NoLock

\* now - entry->timestamp >= LOCK_TIMEOUT
Expired(k) == Held(k) /\ now >= table[k].since + LockTimeout

\* A lock_acquire that forgets to look at the owner.
GrantableToAnyone(k, c) == TRUE

\* The conditions under which lock_acquire answers ERR_SUCCESS.
Grantable(k, c) == \/ ~Held(k)
                   \/ Expired(k)
                   \/ Held(k) /\ table[k].owner = c

\* lock_acquire, ERR_SUCCESS: a new entry, the expired one reused, or a refresh.
Acquire(k, c) ==
  /\ Grantable(k, c)
  /\ table' = [table EXCEPT ![k] = [owner |-> c, since |-> now]]

\* lock_acquire, ERR_LOCKED
Denied(k, c) ==
  /\ ~Grantable(k, c)
  /\ UNCHANGED table

\* lock_release: only the owner's entry is removed, expired or not.
Release(k, c) ==
  table' = IF Held(k) /\ table[k].owner = c
           THEN [table EXCEPT ![k] = NoLock]
           ELSE table

\* A cleanup that never finds an entry old enough.
CleanupNothing == UNCHANGED table

\* A cleanup that does not look at the age of an entry.
CleanupEverything == table' = [k \in Key |-> NoLock]

\* lock_cleanup_expired
CleanupExpired ==
  table' = [k \in Key |-> IF Expired(k) THEN NoLock ELSE table[k]]

Tick == /\ now < MaxTime
        /\ now' = now + 1
        /\ UNCHANGED table

\* The process dies, and the table with it.
LoseTable == table' = [k \in Key |-> NoLock]

LockNext == \/ \E k \in Key, c \in Client :
                 /\ Acquire(k, c) \/ Denied(k, c) \/ Release(k, c)
                 /\ UNCHANGED now
            \/ CleanupExpired /\ UNCHANGED now
            \/ LoseTable /\ UNCHANGED now
            \/ Tick

LockSpec == LockInit /\ [][LockNext]_lockVars

-----------------------------------------------------------------------------
\* The client that holds a lock which has not run out, if there is one.
holder == [k \in Key |-> IF Held(k) /\ ~Expired(k) THEN table[k].owner ELSE NoLock]

Lease == INSTANCE SentenceLease WITH Nobody <- NoLock

\* The lock table keeps the promise of sentence_lock.h: no client is handed a
\* sentence while another client's lock on it is alive (sentence_lock.c:34-86).
ImplementsLease == Lease!Spec
=============================================================================
