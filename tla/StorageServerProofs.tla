------------------------ MODULE StorageServerProofs ------------------------
(***************************************************************************)
(* What the storage server guarantees, for every set of clients, files and *)
(* tags and every bound: about its locks, its session and its checkpoints, *)
(* where the operators on texts stay unexpanded; that every variable has   *)
(* its type; and what UNDO, a commit and a crash leave of the texts, from  *)
(* what SentenceParserProofs shows of the parser.                          *)
(***************************************************************************)
EXTENDS StorageHistory, SentenceLockProofs, SentenceParserProofs

CommitLabels == {"commit_write", "commit_rename", "commit_release", "commit_reread",
                 "commit_index", "commit_reply"}

\* The fields of the records, without what the texts in them are.
Shape ==
  /\ DOMAIN ct = {"at", "key", "client", "tag", "text", "told"}
  /\ DOMAIN session = {"active", "key", "client", "words"}
  /\ ct.told \in BOOLEAN
  /\ session.active \in BOOLEAN

\* Whoever takes or gives back a lock is a client, and the lock one of the table's.
KnownParties ==
  /\ ct.at \in {"start_lock", "start_read"} => ct.key \in Key /\ ct.client \in Client
  /\ session.active => session.key \in Key /\ session.client \in Client
  /\ ct.at \in CommitLabels => session.active

PartiesInv == LockTypeOK /\ Shape /\ KnownParties

LEMMA PartiesInit == Init => PartiesInv
<1> SUFFICES ASSUME Init PROVE PartiesInv
  OBVIOUS
<1>1. LockTypeOK
  BY DEF Init, LockInit, LockTypeOK
<1>2. Shape
  BY DEF Init, Shape, Idle, NoSession
<1>3. KnownParties
  BY DEF Init, KnownParties, Idle, NoSession, CommitLabels
<1> QED
  BY <1>1, <1>2, <1>3 DEF PartiesInv

\* The two outcomes of StartRead, with told as the constant it becomes.
LEMMA StartReadCases ==
  ASSUME StartRead
  PROVE  \/ /\ ct' = [ct EXCEPT !.at = "loop", !.told = TRUE]
            /\ StartAccepted
         \/ /\ ct' = [ct EXCEPT !.at = "loop", !.told = FALSE]
            /\ ~StartAccepted
<1>1. CASE StartAccepted
  <2>1. StartAccepted = TRUE
    BY <1>1 DEF StartAccepted
  <2> QED
    BY <1>1, <2>1, Zenon DEF StartRead
<1>2. CASE ~StartAccepted
  <2>1. StartAccepted = FALSE
    BY <1>2, Zenon DEF StartAccepted
  <2> QED
    BY <1>2, <2>1, Zenon DEF StartRead
<1> QED
  BY <1>1, <1>2

\* The two outcomes of CheckpointOpen.
LEMMA CheckpointOpenCases ==
  ASSUME CheckpointOpen
  PROVE  /\ ct.at = "ckpt_open" /\ UNCHANGED <<table, session>>
         /\ \/ ct' = [ct EXCEPT !.at = "ckpt_data", !.text = files[ct.key[1]]]
            \/ ct' = Idle("accept")
  BY DEF CheckpointOpen, memory, lockVars

\* The steps of the name server's thread, of the lock's own threads, of the disk and
\* of the client's thread outside a session leave locks and session alone, and the
\* client's thread in none of the places where it has either.
Elsewhere == {"accept", "rewrite_open", "rewrite_data", "ckpt_open", "ckpt_data"}

Apart == /\ UNCHANGED <<table, session>>
         /\ \/ UNCHANGED ct
            \/ /\ ct.at \in Elsewhere \cup {"down"}
               /\ ct'.at \in Elsewhere
               /\ ct'.told \in {ct.told, FALSE}
               /\ DOMAIN ct' = {"at", "key", "client", "tag", "text", "told"}

LEMMA ApartSteps ==
  ASSUME PartiesInv,
         \/ RewriteOpen \/ RewriteFails \/ RewriteData \/ CheckpointOpen \/ CheckpointData
         \/ \E f \in Doc : Undo(f)
         \/ \E f \in Doc, t \in Tag : Checkpoint(f, t) \/ Revert(f, t)
         \/ \E f \in Doc : Create(f) \/ Delete(f)
         \/ \E d \in Folder : CreateFolder(d)
         \/ \E f \in Doc, d \in Folder : Move(f, d)
         \/ Unindex \/ ClockTick \/ Boot
  PROVE  Apart
<1> USE DEF PartiesInv, Shape, Apart, Elsewhere, Goto, Idle, disk, memory, lockVars
<1>1. CASE RewriteOpen
  BY <1>1 DEF RewriteOpen
<1>2. CASE RewriteFails
  BY <1>2 DEF RewriteFails
<1>3. CASE RewriteData
  <2>1. /\ ct.at = "rewrite_data" /\ ct' = Idle("accept")
        /\ UNCHANGED <<table, session>>
    BY <1>3 DEF RewriteData
  <2> QED
    BY <2>1
<1>4. CASE CheckpointOpen
  <2>1. CASE ct' = [ct EXCEPT !.at = "ckpt_data", !.text = files[ct.key[1]]]
    BY <1>4, <2>1, CheckpointOpenCases
  <2>2. CASE ct' = Idle("accept")
    BY <1>4, <2>2, CheckpointOpenCases
  <2> QED
    BY <1>4, <2>1, <2>2, CheckpointOpenCases
<1>5. CASE CheckpointData
  BY <1>5 DEF CheckpointData
<1>6. ASSUME NEW f \in Doc, Undo(f) PROVE Apart
  BY <1>6 DEF Undo
<1>7. ASSUME NEW f \in Doc, NEW t \in Tag, Checkpoint(f, t) PROVE Apart
  BY <1>7 DEF Checkpoint
<1>8. ASSUME NEW f \in Doc, NEW t \in Tag, Revert(f, t) PROVE Apart
  BY <1>8 DEF Revert
<1>9. CASE \E f \in Doc : Create(f) \/ Delete(f)
  BY <1>9 DEF Create, Delete
<1>10. CASE \E d \in Folder : CreateFolder(d)
  BY <1>10 DEF CreateFolder
<1>11. CASE \E f \in Doc, d \in Folder : Move(f, d)
  BY <1>11 DEF Move
<1>12. CASE Unindex
  BY <1>12 DEF Unindex
<1>13. CASE ClockTick
  BY <1>13 DEF ClockTick, Tick
<1>14. CASE Boot
  BY <1>14 DEF Boot
<1> QED
  BY <1>1, <1>2, <1>3, <1>4, <1>5, <1>6, <1>7, <1>8, <1>9, <1>10, <1>11, <1>12,
     <1>13, <1>14

\* Every step of the server is one operation of the lock table, or none.
LEMMA ServerLockStep == PartiesInv /\ [Next]_vars => [LockNext]_lockVars
<1> SUFFICES ASSUME PartiesInv, [Next]_vars PROVE [LockNext]_lockVars
  OBVIOUS
<1> USE DEF PartiesInv, KnownParties, CommitLabels, lockVars
<1>1. CASE StartLock
  BY <1>1 DEF StartLock, LockNext
<1>2. CASE StartRead
  BY <1>2 DEF StartRead, LockNext
<1>3. CASE CommitWriteFails
  BY <1>3 DEF CommitWriteFails, LockNext
<1>4. CASE CommitRelease
  BY <1>4 DEF CommitRelease, LockNext
<1>5. CASE Disconnect
  BY <1>5 DEF Disconnect, LockNext
<1>6. CASE Cleanup
  BY <1>6 DEF Cleanup, LockNext
<1>7. CASE Crash \/ WriteCommit
  BY <1>7 DEF Crash, WriteCommit, Die, LockNext
<1>8. CASE IndexRace
  BY <1>8 DEF IndexRace, Die, LockNext
<1>9. CASE ClockTick
  BY <1>9 DEF ClockTick, LockNext
<1>10. CASE CommitWrite \/ CommitRename \/ CommitReread \/ CommitIndex \/ CommitReply
            \/ CommitRefused \/ UnexpectedOperation
  BY <1>10 DEF CommitWrite, CommitRename, CommitReread, CommitIndex, CommitReply,
               CommitRefused, UnexpectedOperation
<1>11. CASE \/ \E c \in Client, k \in Key : WriteStart(c, k)
            \/ \E j \in 0 .. MaxWords, w \in Insert : WriteUpdate(j, w)
  BY <1>11 DEF WriteStart, WriteUpdate
<1>12. CASE RewriteOpen \/ RewriteFails \/ RewriteData \/ CheckpointOpen \/ CheckpointData
  BY <1>12 DEF RewriteOpen, RewriteFails, RewriteData, CheckpointOpen, CheckpointData
<1>13. CASE \/ \E f \in Doc : Undo(f)
            \/ \E f \in Doc, t \in Tag : Checkpoint(f, t) \/ Revert(f, t)
  BY <1>13 DEF Undo, Checkpoint, Revert
<1>14. CASE \/ \E f \in Doc : Create(f) \/ Delete(f)
            \/ \E d \in Folder : CreateFolder(d)
            \/ \E f \in Doc, d \in Folder : Move(f, d)
            \/ Unindex
  BY <1>14 DEF Create, Delete, CreateFolder, Move, Unindex
<1>15. CASE Boot
  BY <1>15 DEF Boot
<1>16. CASE UNCHANGED vars
  BY <1>16 DEF vars
<1> QED
  BY <1>1, <1>2, <1>3, <1>4, <1>5, <1>6, <1>7, <1>8, <1>9, <1>10, <1>11, <1>12, <1>13,
     <1>14, <1>15, <1>16 DEF Next, ClientStep, ClientRequest, NsStep

\* The steps of a commit between WriteCommit and CommitReply, CommitRelease aside.
CommitMoves == /\ ct.at \in CommitLabels /\ ct'.at \in CommitLabels
               /\ ct'.at \in MayHoldLock <=> ct.at \in MayHoldLock
               /\ ct'.key = ct.key /\ ct'.client = ct.client /\ ct'.told = ct.told
               /\ DOMAIN ct' = DOMAIN ct
               /\ UNCHANGED <<table, session>>

LEMMA CommitSteps ==
  ASSUME PartiesInv, CommitWrite \/ CommitRename \/ CommitReread \/ CommitIndex
  PROVE  CommitMoves
<1> USE DEF PartiesInv, Shape, CommitMoves, CommitLabels, MayHoldLock, Goto, memory,
            lockVars
<1>1. CASE CommitWrite
  BY <1>1 DEF CommitWrite
<1>2. CASE CommitRename
  BY <1>2 DEF CommitRename
<1>3. CASE CommitReread
  <2>1. \/ ct' = [ct EXCEPT !.at = "commit_index", !.text = ReadFile(session.key[1])]
        \/ ct' = [ct EXCEPT !.at = "commit_reply"]
    BY <1>3 DEF CommitReread
  <2>2. ct.at = "commit_reread" /\ UNCHANGED <<table, session>>
    BY <1>3 DEF CommitReread
  <2>3. CASE ct' = [ct EXCEPT !.at = "commit_index", !.text = ReadFile(session.key[1])]
    BY <2>2, <2>3
  <2>4. CASE ct' = [ct EXCEPT !.at = "commit_reply"]
    BY <2>2, <2>4
  <2> QED
    BY <2>1, <2>3, <2>4
<1>4. CASE CommitIndex
  BY <1>4 DEF CommitIndex
<1> QED
  BY <1>1, <1>2, <1>3, <1>4

\* WriteCommit computes the new text, or the process ends.
CommitStarts(t) ==
  /\ ct.at = "loop" /\ Continues /\ session.active
  /\ ct' = [ct EXCEPT !.at = "commit_write", !.text = t]
  /\ UNCHANGED <<table, session>>

LEMMA WriteCommitCases ==
  ASSUME WriteCommit
  PROVE  Die \/ \E t : CommitStarts(t)
<1> PICK t \in Reread(session.key[1]) :
      \/ /\ ~CommitOutOfBounds(t, session.key[2])
         /\ ct' = [ct EXCEPT !.at = "commit_write",
                             !.text = CommitText(t, session.key[2], session.words)]
         /\ UNCHANGED <<disk, memory, nt, fd, lockVars>>
      \/ CommitOutOfBounds(t, session.key[2]) /\ Die
  BY DEF WriteCommit
<1> QED
  BY DEF WriteCommit, CommitStarts, memory, lockVars

\* IndexRace ends the process or finishes the index of both threads.
LEMMA IndexRaceCases ==
  ASSUME IndexRace
  PROVE  \/ Die
         \/ /\ ct.at = "commit_index" /\ ct' = [ct EXCEPT !.at = "commit_reply"]
            /\ UNCHANGED <<table, session>>
  BY DEF IndexRace, Goto, lockVars

\* A dead process has no session and no lock.
Dead == /\ ct'.at = "down" /\ ct'.told = FALSE
        /\ DOMAIN ct' = {"at", "key", "client", "tag", "text", "told"}
        /\ session' = NoSession
        /\ LoseTable

LEMMA DieIsDead == Die => Dead
  BY DEF Die, Dead, Idle

LEMMA PartiesStep == PartiesInv /\ [Next]_vars => PartiesInv'
<1> SUFFICES ASSUME PartiesInv, [Next]_vars PROVE PartiesInv'
  OBVIOUS
<1>1. LockTypeOK'
  BY ServerLockStep, LockStepTyped DEF PartiesInv
<1>2. Shape' /\ KnownParties'
  <2> USE DEF PartiesInv, Shape, KnownParties, CommitLabels
  <2>1. ASSUME Dead PROVE Shape' /\ KnownParties'
    BY <2>1 DEF Dead, NoSession
  <2>2. ASSUME Apart PROVE Shape' /\ KnownParties'
    BY <2>2 DEF Apart, Elsewhere
  <2>3. ASSUME CommitMoves PROVE Shape' /\ KnownParties'
    BY <2>3 DEF CommitMoves
  <2>4. ASSUME NEW c \in Client, NEW k \in Key, WriteStart(c, k)
        PROVE  Shape' /\ KnownParties'
    BY <2>4 DEF WriteStart, Idle, memory
  <2>5. CASE StartLock
    BY <2>5 DEF StartLock, Goto, memory
  <2>6. CASE StartRead
    <3>1. CASE StartAccepted
      <4>1. /\ ct.at = "start_read"
            /\ ct' = [ct EXCEPT !.at = "loop", !.told = TRUE]
            /\ session' = [active |-> TRUE, key |-> ct.key, client |-> ct.client,
                           words |-> WordsOf(ReadFile(ct.key[1]), ct.key[2])]
        BY <2>6, <3>1, StartReadCases DEF StartRead
      <4> QED
        BY <4>1
    <3>2. CASE ~StartAccepted
      BY <2>6, <3>2, StartReadCases DEF StartRead
    <3> QED
      BY <3>1, <3>2
  <2>7. ASSUME NEW j \in 0 .. MaxWords, NEW w \in Insert, WriteUpdate(j, w)
        PROVE  Shape' /\ KnownParties'
    BY <2>7 DEF WriteUpdate
  <2>8. ASSUME NEW t, CommitStarts(t) PROVE Shape' /\ KnownParties'
    BY <2>8 DEF CommitStarts
  <2>9. CASE CommitRefused \/ UnexpectedOperation
    <3>1. ct' = Idle("accept") /\ UNCHANGED session
      BY <2>9 DEF CommitRefused, UnexpectedOperation, memory
    <3> QED
      BY <3>1 DEF Idle
  <2>10. CASE CommitWriteFails \/ CommitReply
    <3>1. ct' = Idle("accept") /\ session' = NoSession
      BY <2>10 DEF CommitWriteFails, CommitReply, EndSession
    <3> QED
      BY <3>1 DEF Idle, NoSession
  <2>11. CASE CommitRelease
    BY <2>11 DEF CommitRelease, Goto, memory
  <2>12. CASE Disconnect
    <3>1. CASE ct' = Idle("accept") /\ session' = NoSession
      BY <3>1 DEF Idle, NoSession
    <3>2. CASE ct' = Idle("accept") /\ session' = session
      BY <3>2 DEF Idle
    <3> QED
      BY <2>12, <3>1, <3>2 DEF Disconnect, EndSession
  <2>13. CASE IndexRace
    BY <2>13, <2>1, IndexRaceCases, DieIsDead
  <2>14. CASE Cleanup
    BY <2>14 DEF Cleanup, memory
  <2>15. CASE UNCHANGED vars
    BY <2>15 DEF vars, memory
  <2>16. CASE Crash
    BY <2>16, <2>1, DieIsDead DEF Crash
  <2>17. CASE WriteCommit
    BY <2>17, <2>1, <2>8, DieIsDead, WriteCommitCases
  <2>18. CASE CommitWrite \/ CommitRename \/ CommitReread \/ CommitIndex
    BY <2>18, <2>3, CommitSteps
  <2> HIDE DEF PartiesInv, Shape, KnownParties, CommitLabels
  <2> QED
    BY <2>2, <2>4, <2>5, <2>6, <2>7, <2>9, <2>10, <2>11, <2>12, <2>13, <2>14, <2>15,
       <2>16, <2>17, <2>18, ApartSteps DEF Next, ClientStep, ClientRequest, NsStep
<1> QED
  BY <1>1, <1>2 DEF PartiesInv

LEMMA PartiesAlways == Spec => []PartiesInv
  BY PartiesInit, PartiesStep, PTL DEF Spec

\* The server uses its lock table only as sentence_lock.c allows
\* (storage_server.c:352-359, 366, 381, 586, 604, 1189).
THEOREM ServerLockTable == Spec => ServerObeysLockTable
<1>1. Init => LockInit
  BY DEF Init
<1> QED
  BY <1>1, ServerLockStep, PartiesAlways, PTL DEF Spec, ServerObeysLockTable, LockSpec

\* No two clients are ever handed one sentence by the server, and a sentence changes
\* hands only through nobody's: the promise of sentence_lock.h:5 for the whole server.
THEOREM ServerImplementsLease == Spec => ImplementsLease
  BY ServerLockTable, LockImplementsLease, PTL DEF ServerObeysLockTable

-----------------------------------------------------------------------------
(* With the shipped client, which sends nothing the session loop does not expect.
   While the connection has a session, the session is its; while a lock is held, the
   connection holds it and has not yet been refused. The last two conjuncts are what
   makes the properties inductive: where a session can be, and that a connection in
   the loop with no session left no lock behind.                                    *)

TheConnections ==
  /\ session.active = ct.told
  /\ session.active => session.key = ct.key /\ session.client = ct.client
  /\ \A k \in Key : Held(k) => /\ ct.at \in MayHoldLock
                               /\ ct.key = k
                               /\ table[k].owner = ct.client
  /\ ct.told => ct.at \in {"loop"} \cup CommitLabels
  /\ \A k \in Key : Held(k) => (ct.at = "loop" => ct.told)

ConnectionInv == "stray" \notin Ops => TheConnections

LEMMA ConnectionInit == Init => ConnectionInv
  BY DEF Init, LockInit, ConnectionInv, TheConnections, Idle, NoSession, Held

\* A lock given back by its owner is gone.
LEMMA GivenBack ==
  ASSUME LockTypeOK, TheConnections, Release(ct.key, ct.client)
  PROVE  \A k \in Key : ~Held(k)'
  BY DEF LockTypeOK, TheConnections, Release, Held

LEMMA ConnectionStep == PartiesInv /\ ConnectionInv /\ [Next]_vars => ConnectionInv'
<1> SUFFICES ASSUME PartiesInv, TheConnections, [Next]_vars, "stray" \notin Ops
             PROVE  TheConnections'
  BY DEF ConnectionInv
<1> USE DEF MayHoldLock, CommitLabels
<1>1. ASSUME Dead PROVE TheConnections'
  BY <1>1 DEF Dead, LoseTable, TheConnections, NoSession, Held
<1>2. ASSUME Apart PROVE TheConnections'
  <2>1. CASE UNCHANGED ct
    BY <1>2, <2>1 DEF Apart, TheConnections, Held
  <2>2. CASE ct.at \in Elsewhere \cup {"down"}
    BY <1>2, <2>2 DEF Apart, Elsewhere, TheConnections, Held, PartiesInv, Shape
  <2> QED
    BY <1>2, <2>1, <2>2 DEF Apart
<1>3. ASSUME CommitMoves PROVE TheConnections'
  BY <1>3 DEF CommitMoves, TheConnections, Held
<1>4. ASSUME NEW c \in Client, NEW k \in Key, WriteStart(c, k) PROVE TheConnections'
  BY <1>4 DEF WriteStart, Idle, TheConnections, Held, memory, lockVars, PartiesInv, Shape
<1>5. CASE StartLock
  <2>1. ct.at = "start_lock" /\ ct.key \in Key /\ UNCHANGED session
    BY <1>5 DEF StartLock, PartiesInv, KnownParties, memory
  <2>2. \A k \in Key : ~Held(k)
    BY <2>1 DEF TheConnections
  <2>3. CASE Acquire(ct.key, ct.client) /\ Goto("start_read")
    BY <2>1, <2>2, <2>3 DEF Acquire, Goto, TheConnections, Held, PartiesInv, LockTypeOK, Shape
  <2>4. CASE Denied(ct.key, ct.client) /\ Goto("loop")
    BY <2>1, <2>2, <2>4 DEF Denied, Goto, TheConnections, Held, PartiesInv, Shape
  <2> QED
    BY <1>5, <2>3, <2>4 DEF StartLock
<1>6. CASE StartRead
  <2>1. ct.at = "start_read"
    BY <1>6 DEF StartRead
  <2>2. CASE StartAccepted
    <3>1. /\ ct' = [ct EXCEPT !.at = "loop", !.told = TRUE]
          /\ session' = [active |-> TRUE, key |-> ct.key, client |-> ct.client,
                         words |-> WordsOf(ReadFile(ct.key[1]), ct.key[2])]
          /\ UNCHANGED table
      BY <1>6, <2>2, StartReadCases DEF StartRead
    <3> QED
      BY <2>1, <3>1 DEF TheConnections, Held, PartiesInv, Shape
  <2>3. CASE ~StartAccepted
    <3>1. /\ ct' = [ct EXCEPT !.at = "loop", !.told = FALSE]
          /\ UNCHANGED session
          /\ \A k \in Key : ~Held(k)'
      BY <1>6, <2>3, StartReadCases, GivenBack DEF StartRead, PartiesInv
    <3> QED
      BY <2>1, <3>1 DEF TheConnections, PartiesInv, Shape
  <2> QED
    BY <2>2, <2>3
<1>7. ASSUME NEW j \in 0 .. MaxWords, NEW w \in Insert, WriteUpdate(j, w)
      PROVE  TheConnections'
  BY <1>7 DEF WriteUpdate, TheConnections, Held, PartiesInv, Shape, lockVars
<1>8. ASSUME NEW t, CommitStarts(t) PROVE TheConnections'
  BY <1>8 DEF CommitStarts, TheConnections, Held, PartiesInv, Shape
<1>9. ~CommitRefused /\ ~UnexpectedOperation
  BY DEF CommitRefused, UnexpectedOperation, Continues, TheConnections
<1>10. CASE CommitWriteFails
  <2>1. ct' = Idle("accept") /\ session' = NoSession /\ \A k \in Key : ~Held(k)'
    BY <1>10, GivenBack
    DEF CommitWriteFails, EndSession, TheConnections, PartiesInv, KnownParties
  <2> QED
    BY <2>1 DEF Idle, NoSession, TheConnections
<1>11. CASE CommitRelease
  <2>1. /\ ct.at = "commit_release" /\ ct' = [ct EXCEPT !.at = "commit_reread"]
        /\ UNCHANGED session /\ \A k \in Key : ~Held(k)'
    BY <1>11, GivenBack
    DEF CommitRelease, Goto, TheConnections, PartiesInv, KnownParties, memory
  <2> QED
    BY <2>1 DEF TheConnections, PartiesInv, Shape
<1>12. CASE CommitReply
  <2>1. /\ ct' = Idle("accept") /\ session' = NoSession
        /\ ct.at = "commit_reply" /\ UNCHANGED table
    BY <1>12 DEF CommitReply, EndSession, lockVars
  <2> QED
    BY <2>1 DEF Idle, NoSession, TheConnections, Held
<1>13. CASE Disconnect
  <2>1. CASE session.active
    <3>1. ct' = Idle("accept") /\ session' = NoSession /\ \A k \in Key : ~Held(k)'
      BY <1>13, <2>1, GivenBack DEF Disconnect, EndSession, TheConnections, PartiesInv
    <3> QED
      BY <3>1 DEF Idle, NoSession, TheConnections
  <2>2. CASE ~session.active
    <3>1. /\ ct' = Idle("accept") /\ UNCHANGED <<session, table>>
          /\ ct.at = "loop" /\ ~ct.told
      BY <1>13, <2>2 DEF Disconnect, TheConnections
    <3> QED
      BY <2>2, <3>1 DEF Idle, TheConnections, Held, PartiesInv, Shape
  <2> QED
    BY <2>1, <2>2
<1>14. CASE IndexRace
  <2>1. CASE Die
    BY <2>1, <1>1, DieIsDead
  <2>2. CASE /\ ct.at = "commit_index" /\ ct' = [ct EXCEPT !.at = "commit_reply"]
             /\ UNCHANGED <<table, session>>
    BY <2>2 DEF TheConnections, Held, PartiesInv, Shape
  <2> QED
    BY <1>14, <2>1, <2>2, IndexRaceCases
<1>15. CASE Cleanup
  BY <1>15 DEF Cleanup, CleanupExpired, TheConnections, Held, memory
<1>16. CASE UNCHANGED vars
  BY <1>16 DEF vars, memory, lockVars, TheConnections, Held
<1>17. CASE Crash
  BY <1>17, <1>1, DieIsDead DEF Crash
<1>18. CASE WriteCommit
  BY <1>18, <1>1, <1>8, DieIsDead, WriteCommitCases
<1>19. CASE CommitWrite \/ CommitRename \/ CommitReread \/ CommitIndex
  BY <1>19, <1>3, CommitSteps
<1> QED
  BY <1>2, <1>4, <1>5, <1>6, <1>7, <1>9, <1>10, <1>11, <1>12, <1>13, <1>14, <1>15, <1>16,
     <1>17, <1>18, <1>19, ApartSteps DEF Next, ClientStep, ClientRequest, NsStep

LEMMA ConnectionAlways == Spec => []ConnectionInv
  BY ConnectionInit, ConnectionStep, PartiesAlways, PTL DEF Spec

\* With the shipped client no lock outlives the connection that took it, whichever of
\* the ways a connection ends (storage_server.c:352, 366, 381, 586, 604, 1189).
THEOREM LocksEndWithConnections == Spec => []NoLockOutlivesItsConnection
<1>1. ConnectionInv => NoLockOutlivesItsConnection
  BY DEF ConnectionInv, TheConnections, NoLockOutlivesItsConnection
<1> QED
  BY <1>1, ConnectionAlways, PTL

\* With the shipped client the one write_session is always that of the connection
\* being served (storage_server.c:332, 408-413, 1188-1193).
THEOREM SessionFollowsConnection == Spec => []SessionIsTheConnections
<1>1. ConnectionInv => SessionIsTheConnections
  BY DEF ConnectionInv, TheConnections, SessionIsTheConnections
<1> QED
  BY <1>1, ConnectionAlways, PTL

\* The steps that end a session, and those that touch a lock or a session otherwise.
LEMMA LockAndSessionEffects ==
  ASSUME PartiesInv, [Next]_vars
  PROVE  \/ session' = NoSession
         \/ ct.at \in {"start_lock", "start_read", "commit_release"}
         \/ /\ UNCHANGED session
            /\ UNCHANGED table \/ CleanupExpired
         \/ /\ \E ws : session' = [session EXCEPT !.words = ws]
            /\ UNCHANGED table
<1> DEFINE Goal == \/ session' = NoSession
                   \/ ct.at \in {"start_lock", "start_read", "commit_release"}
                   \/ /\ UNCHANGED session
                      /\ UNCHANGED table \/ CleanupExpired
                   \/ /\ \E ws : session' = [session EXCEPT !.words = ws]
                      /\ UNCHANGED table
<1> SUFFICES Goal
  OBVIOUS
<1>1. CASE StartLock \/ StartRead \/ CommitRelease
  BY <1>1 DEF StartLock, StartRead, CommitRelease
<1>2. CASE CommitWriteFails \/ CommitReply
  BY <1>2 DEF CommitWriteFails, CommitReply, EndSession
<1>3. CASE Disconnect
  BY <1>3 DEF Disconnect, EndSession
<1>4. CASE Crash \/ WriteCommit \/ IndexRace
  <2>1. Dead => Goal
    BY DEF Dead
  <2>2. \A t : CommitStarts(t) => Goal
    BY DEF CommitStarts
  <2> QED
    BY <1>4, <2>1, <2>2, DieIsDead, WriteCommitCases, IndexRaceCases DEF Crash
<1>5. CASE Cleanup
  BY <1>5 DEF Cleanup, memory
<1>6. ASSUME NEW j \in 0 .. MaxWords, NEW w \in Insert, WriteUpdate(j, w) PROVE Goal
  BY <1>6 DEF WriteUpdate, lockVars
<1>7. CASE \/ CommitRefused \/ UnexpectedOperation
           \/ \E c \in Client, k \in Key : WriteStart(c, k)
  BY <1>7 DEF CommitRefused, UnexpectedOperation, WriteStart, memory, lockVars
<1>8. CASE CommitWrite \/ CommitRename \/ CommitReread \/ CommitIndex
  BY <1>8, CommitSteps DEF CommitMoves
<1>9. Apart => Goal
  BY DEF Apart
<1>10. CASE UNCHANGED vars
  BY <1>10 DEF vars, memory, lockVars
<1> HIDE DEF Goal
<1> QED
  BY <1>1, <1>2, <1>3, <1>4, <1>5, <1>6, <1>7, <1>8, <1>9, <1>10, ApartSteps
  DEF Next, ClientStep, ClientRequest, NsStep

\* The lock of an open session lasts until LOCK_TIMEOUT, whatever the cleanup thread
\* and the name server's thread do meanwhile (sentence_lock.c:168,
\* storage_server.c:1282-1283).
THEOREM LiveLocksStay == Spec => SessionKeepsLiveLock
<1> DEFINE Stays == (/\ "stray" \notin Ops
                     /\ session.active /\ session'.active
                     /\ ct.at # "commit_release"
                     /\ Held(session.key) /\ ~Expired(session.key))
                    => Held(session.key)'
<1>1. PartiesInv /\ ConnectionInv /\ [Next]_vars => [Stays]_vars
  <2> SUFFICES ASSUME PartiesInv, ConnectionInv, [Next]_vars,
                      "stray" \notin Ops, session.active, session'.active,
                      ct.at # "commit_release",
                      Held(session.key), ~Expired(session.key)
               PROVE  Held(session.key)'
    OBVIOUS
  <2>1. session' # NoSession
    BY DEF NoSession
  <2>2. ct.at \notin {"start_lock", "start_read"}
    BY DEF ConnectionInv, TheConnections, CommitLabels
  <2>3. CASE UNCHANGED session /\ (UNCHANGED table \/ CleanupExpired)
    BY <2>3 DEF CleanupExpired, Held, PartiesInv, KnownParties
  <2>4. ASSUME NEW ws, session' = [session EXCEPT !.words = ws], UNCHANGED table
        PROVE  Held(session.key)'
    BY <2>4 DEF Held, PartiesInv, Shape
  <2> QED
    BY <2>1, <2>2, <2>3, <2>4, LockAndSessionEffects
<1> QED
  BY <1>1, PartiesAlways, ConnectionAlways, PTL DEF Spec, SessionKeepsLiveLock

-----------------------------------------------------------------------------
\* A checkpoint about to be opened for writing is a new one: the client thread alone
\* makes checkpoints, and it looked.
CheckpointInv ==
  /\ DOMAIN ckpts = Doc \X Tag
  /\ ct.at = "ckpt_open" => ckpts[<<ct.key[1], ct.tag>>] = NoFile

LEMMA CheckpointInit == Init => CheckpointInv
  BY DEF Init, CheckpointInv, Idle

\* Apart from checkpoint_create no step touches a checkpoint or leads to one.
LEMMA OthersLeaveCheckpoints ==
  ASSUME PartiesInv, [Next]_vars, ~CheckpointOpen, ~CheckpointData,
         \A f \in Doc, t \in Tag : ~Checkpoint(f, t)
  PROVE  UNCHANGED ckpts /\ (ct'.at # "ckpt_open" \/ UNCHANGED ct)
<1> DEFINE Goal == UNCHANGED ckpts /\ (ct'.at # "ckpt_open" \/ UNCHANGED ct)
<1> SUFFICES Goal
  OBVIOUS
<1> USE DEF Idle, Goto, disk
<1>1. CASE StartLock
  BY <1>1 DEF StartLock, PartiesInv, Shape
<1>2. CASE StartRead
  <2>1. UNCHANGED ckpts
    BY <1>2 DEF StartRead
  <2>2. ct'.at = "loop"
    BY <1>2, StartReadCases DEF PartiesInv, Shape
  <2> QED
    BY <2>1, <2>2
<1>3. CASE CommitWrite \/ CommitRename \/ CommitReread \/ CommitIndex
  BY <1>3, CommitSteps
  DEF CommitWrite, CommitRename, CommitReread, CommitIndex, CommitMoves, CommitLabels
<1>4. CASE CommitWriteFails \/ CommitRelease \/ CommitReply
  BY <1>4 DEF CommitWriteFails, CommitRelease, CommitReply, PartiesInv, Shape
<1>5. Die => Goal
  BY DEF Die
<1>6. CASE WriteCommit
  <2>1. ASSUME NEW t, CommitStarts(t) PROVE ct'.at # "ckpt_open"
    BY <2>1 DEF CommitStarts, PartiesInv, Shape
  <2>2. CASE ~Die
    BY <1>6, <2>1, <2>2, WriteCommitCases DEF WriteCommit
  <2> QED
    BY <1>5, <2>2
<1>7. CASE IndexRace
  <2>1. CASE ct.at = "commit_index" /\ ct' = [ct EXCEPT !.at = "commit_reply"]
    BY <1>5, <1>7, <2>1 DEF IndexRace, PartiesInv, Shape
  <2> QED
    BY <1>5, <1>7, <2>1, IndexRaceCases
<1>8. CASE CommitRefused \/ UnexpectedOperation \/ Disconnect
  BY <1>8 DEF CommitRefused, UnexpectedOperation, Disconnect
<1>9. ASSUME NEW c \in Client, NEW k \in Key, WriteStart(c, k) PROVE Goal
  BY <1>9 DEF WriteStart
<1>10. CASE \E j \in 0 .. MaxWords, w \in Insert : WriteUpdate(j, w)
  BY <1>10 DEF WriteUpdate
<1>11. CASE RewriteOpen \/ RewriteFails
  BY <1>11 DEF RewriteOpen, RewriteFails, PartiesInv, Shape
<1>12. CASE RewriteData
  <2>1. UNCHANGED ckpts /\ ct' = Idle("accept")
    BY <1>12 DEF RewriteData
  <2> QED
    BY <2>1
<1>13. ASSUME NEW f \in Doc, Undo(f) PROVE Goal
  BY <1>13 DEF Undo
<1>14. ASSUME NEW f \in Doc, NEW t \in Tag, Revert(f, t) PROVE Goal
  BY <1>14 DEF Revert
<1>15. CASE \/ \E f \in Doc : Create(f) \/ Delete(f)
            \/ \E d \in Folder : CreateFolder(d)
            \/ \E f \in Doc, d \in Folder : Move(f, d)
            \/ Unindex
  BY <1>15 DEF Create, Delete, CreateFolder, Move, Unindex
<1>16. CASE Cleanup \/ ClockTick
  BY <1>16 DEF Cleanup, ClockTick
<1>17. CASE Crash
  BY <1>5, <1>17 DEF Crash
<1>18. CASE Boot
  BY <1>18 DEF Boot
<1>19. CASE UNCHANGED vars
  BY <1>19 DEF vars
<1> HIDE DEF Goal
<1> QED
  BY <1>1, <1>2, <1>3, <1>4, <1>6, <1>7, <1>8, <1>9, <1>10, <1>11, <1>12, <1>13, <1>14,
     <1>15, <1>16, <1>17, <1>18, <1>19 DEF Next, ClientStep, ClientRequest, NsStep

LEMMA CheckpointStep == PartiesInv /\ CheckpointInv /\ [Next]_vars => CheckpointInv'
<1> SUFFICES ASSUME PartiesInv, CheckpointInv, [Next]_vars PROVE CheckpointInv'
  OBVIOUS
<1> USE DEF CheckpointInv
<1>1. CASE CheckpointOpen
  <2>1. DOMAIN ckpts' = DOMAIN ckpts
    BY <1>1 DEF CheckpointOpen
  <2>2. ct'.at # "ckpt_open"
    <3>1. CASE ct' = [ct EXCEPT !.at = "ckpt_data", !.text = files[ct.key[1]]]
      BY <3>1 DEF PartiesInv, Shape
    <3>2. CASE ct' = Idle("accept")
      BY <3>2 DEF Idle
    <3> QED
      BY <1>1, <3>1, <3>2, CheckpointOpenCases
  <2> QED
    BY <2>1, <2>2
<1>2. CASE CheckpointData
  BY <1>2 DEF CheckpointData, Idle
<1>3. ASSUME NEW f \in Doc, NEW t \in Tag, Checkpoint(f, t) PROVE CheckpointInv'
  BY <1>3 DEF Checkpoint, Idle, disk
<1> QED
  BY <1>1, <1>2, <1>3, OthersLeaveCheckpoints

LEMMA CheckpointAlways == Spec => []CheckpointInv
  BY CheckpointInit, CheckpointStep, PartiesAlways, PTL DEF Spec

\* A checkpoint keeps the text it was given, whatever happens to its file, to the
\* process or to the requests for other tags (checkpoint_manager.c:77-80).
THEOREM CheckpointsStay == Spec => CheckpointsNeverChange
<1> DEFINE Stay == \A e \in Doc \X Tag :
                     (ckpts[e] # NoFile /\ ckpts'[e] # ckpts[e]) =>
                       ct.at = "ckpt_data" /\ e = <<ct.key[1], ct.tag>>
<1>1. PartiesInv /\ CheckpointInv /\ [Next]_vars => [Stay]_vars
  <2> SUFFICES ASSUME PartiesInv, CheckpointInv, [Next]_vars PROVE Stay
    OBVIOUS
  <2>1. CASE CheckpointOpen
    BY <2>1 DEF CheckpointOpen, CheckpointInv
  <2>2. CASE CheckpointData
    BY <2>2 DEF CheckpointData, CheckpointInv
  <2>3. CASE \E f \in Doc, t \in Tag : Checkpoint(f, t)
    BY <2>3 DEF Checkpoint, disk
  <2> QED
    BY <2>1, <2>2, <2>3, OthersLeaveCheckpoints
<1> QED
  BY <1>1, PartiesAlways, CheckpointAlways, PTL DEF Spec, CheckpointsNeverChange

-----------------------------------------------------------------------------
(* Types                                                                   *)

CtSet == [at : AtLabels, key : Key, client : Client, tag : Tag, text : Text, told : BOOLEAN]
SessionSet == [active : BOOLEAN, key : Key, client : Client, words : Seq(Text)]
NtSet == [at : {"accept", "unindex"}, file : Doc]
FdSet == {NoFd} \cup {<<f>> : f \in Doc} \cup (Folder \X Doc)

\* The conjuncts of TypeOK that the lock table has no part in, but for ListsBounded.
DiskTyped ==
  /\ files \in [Name -> Dirent]
  /\ moved \in [Folder \X Name -> Dirent]
  /\ folders \subseteq Folder
  /\ ckpts \in [Doc \X Tag -> Dirent]
  /\ storageDir \in BOOLEAN /\ ckptDir \in BOOLEAN
MemoryTyped ==
  /\ undo \in [Doc -> Dirent]
  /\ index \subseteq Seq(Letter) \X Name
  /\ session \in SessionSet
ThreadsTyped == ct \in CtSet /\ nt \in NtSet /\ fd \in FdSet
DataTyped == DiskTyped /\ MemoryTyped /\ ThreadsTyped

\* No list of files in the index is longer than its array.
ListsBounded ==
  \A e \in index : Cardinality({f \in Name : <<e[1], f>> \in index}) <= MaxPerWord

LEMMA TypeParts == TypeOK <=> LockTypeOK /\ DataTyped /\ ListsBounded
  BY DEF TypeOK, ListsBounded, DataTyped, DiskTyped, MemoryTyped, ThreadsTyped, CtSet, SessionSet,
         NtSet, FdSet

LEMMA KeyTyped ==
  /\ Key # {}
  /\ \A k \in Key : k[1] \in Doc /\ k[1] \in Name /\ k[2] \in Nat /\ k = <<k[1], k[2]>>
  /\ \A f \in Doc : <<f, 0>> \in Key
<1>1. /\ Key = Doc \X (0 .. MaxSentence) /\ Doc # {} /\ Doc \subseteq Name
      /\ MaxSentence \in Nat
  BY ServerAssumption
<1>2. 0 \in 0 .. MaxSentence
  BY <1>1
<1>3. \A n \in 0 .. MaxSentence : n \in Nat
  BY <1>1
<1> DEFINE N == 0 .. MaxSentence
<1>4. Key = Doc \X N /\ 0 \in N
  BY <1>1, <1>2
<1> HIDE DEF N
<1>5. ASSUME NEW k \in Key PROVE k[1] \in Doc /\ k[2] \in N /\ k = <<k[1], k[2]>>
  BY <1>4
<1>6. \A f \in Doc : <<f, 0>> \in Key
  BY <1>4
<1>7. Key # {}
  BY <1>1, <1>6
<1> QED
  BY <1>1, <1>3, <1>5, <1>6, <1>7 DEF N

LEMMA IdleTyped ==
  /\ NoSession \in SessionSet
  /\ \A at \in AtLabels : Idle(at) \in CtSet
  /\ NsIdle \in NtSet
<1> DEFINE k == CHOOSE k \in Key : TRUE
           c == CHOOSE c \in Client : TRUE
           g == CHOOSE t \in Tag : TRUE
           d == CHOOSE f \in Doc : TRUE
<1>1. k \in Key /\ c \in Client /\ g \in Tag /\ d \in Doc
  BY KeyTyped, ServerAssumption
<1>2. <<>> \in Seq(Text) /\ <<>> \in Text
  BY DEF Text
<1>3. NoSession = [active |-> FALSE, key |-> k, client |-> c, words |-> <<>>]
  BY DEF NoSession
<1>4. NsIdle = [at |-> "accept", file |-> d]
  BY DEF NsIdle
<1> HIDE DEF k, c, g, d
<1>5. NoSession \in SessionSet /\ NoSession.key = k /\ NoSession.client = c
  BY <1>1, <1>2, <1>3 DEF SessionSet
<1>6. ASSUME NEW at \in AtLabels PROVE Idle(at) \in CtSet
  <2>1. Idle(at) = [at |-> at, key |-> k, client |-> c, tag |-> g, text |-> <<>>,
                    told |-> FALSE]
    BY <1>5 DEF Idle, g
  <2> QED
    BY <1>1, <1>2, <2>1 DEF CtSet
<1>7. NsIdle \in NtSet
  BY <1>1, <1>4 DEF NtSet
<1> QED
  BY <1>5, <1>6, <1>7

LEMMA ReadTyped ==
  ASSUME NEW f \in Name, files \in [Name -> Dirent], Exists(f)
  PROVE  files[f] \in Text /\ ReadFile(f) \in Text
<1> DEFINE t == files[f]
           n == IF Len(t) <= MaxContent THEN Len(t) ELSE MaxContent
<1>1. t \in Text
  BY DEF Exists, Dirent
<1>2. ReadFile(f) = SubSeq(t, 1, n)
  BY DEF ReadFile
<1> HIDE DEF t
<1>3. Len(t) \in Nat /\ MaxContent \in Nat
  BY <1>1, TextProperties, ServerAssumption
<1>4. n \in 0 .. Len(t) /\ 0 \in 0 .. Len(t) /\ 0 <= n /\ 0 + 1 = 1
  BY <1>3
<1> HIDE DEF n
<1>5. SubSeq(t, 0 + 1, n) \in Text
  BY <1>1, <1>4, Part
<1> QED
  BY <1>1, <1>2, <1>4, <1>5 DEF t

LEMMA IndexWordsTyped ==
  ASSUME NEW t \in Text PROVE IndexWords(t) \subseteq Seq(Letter)
<1> DEFINE solid(i) == i \in DOMAIN t /\ t[i] \in Letter
           runs == {r \in (DOMAIN t) \X (DOMAIN t) :
                      /\ r[1] <= r[2] /\ \A i \in r[1] .. r[2] : solid(i)
                      /\ ~solid(r[1] - 1) /\ ~solid(r[2] + 1)}
<1>1. IndexWords(t) = {SubSeq(t, r[1], r[2]) : r \in runs}
  BY DEF IndexWords
<1>2. ASSUME NEW r \in runs PROVE SubSeq(t, r[1], r[2]) \in Seq(Letter)
  <2> DEFINE a == r[1]
             b == r[2]
  <2>1. Len(t) \in Nat /\ DOMAIN t = 1 .. Len(t)
    BY TextProperties
  <2>2. a \in DOMAIN t /\ b \in DOMAIN t /\ \A i \in a .. b : t[i] \in Letter
    OBVIOUS
  <2> HIDE DEF a, b
  <2>3. a \in Int /\ b \in Int
    BY <2>1, <2>2
  <2>4. SubSeq(t, a, b) \in Seq(Letter)
    BY <2>2, <2>3, SubSeqProperties
  <2> QED
    BY <2>4 DEF a, b
<1> HIDE DEF runs
<1> QED
  BY <1>1, <1>2

LEMMA IndexedTyped ==
  ASSUME NEW f \in Name, NEW t \in Text, index \subseteq Seq(Letter) \X Name
  PROVE  Unindexed(f) \subseteq Seq(Letter) \X Name
         /\ Indexed(f, t) \subseteq Seq(Letter) \X Name
<1> DEFINE W == {v \in IndexWords(t) : Room(v, f)}
<1>1. W \subseteq Seq(Letter)
  BY IndexWordsTyped
<1>2. Indexed(f, t) = IF t = <<>> THEN index ELSE Unindexed(f) \cup {<<w, f>> : w \in W}
  BY DEF Indexed
<1> HIDE DEF W
<1>3. Unindexed(f) \subseteq Seq(Letter) \X Name
  BY DEF Unindexed
<1>4. {<<w, f>> : w \in W} \subseteq Seq(Letter) \X Name
  BY <1>1
<1> QED
  BY <1>2, <1>3, <1>4

\* An entry of the index that main makes: its file is one of those found, and contains
\* the word, of which fewer than MaxPerWord come earlier.
LEMMA ScannedMember ==
  ASSUME NEW order
  PROVE  LET found == {f \in Name : Exists(f) /\ order[f] <= MaxScan}
             earlier(w, f) == {g \in found : order[g] < order[f]
                                             /\ w \in IndexWords(ReadFile(g))}
         IN /\ \A e \in ScannedIndex(order) : \E f \in found : e = <<e[1], f>>
            /\ \A w, f : <<w, f>> \in ScannedIndex(order) <=>
                 /\ f \in found /\ w \in IndexWords(ReadFile(f))
                 /\ Cardinality(earlier(w, f)) < MaxPerWord
<1> DEFINE found == {f \in Name : Exists(f) /\ order[f] <= MaxScan}
           earlier(w, f) == {g \in found : order[g] < order[f]
                                           /\ w \in IndexWords(ReadFile(g))}
           W(f) == {w \in IndexWords(ReadFile(f)) : Cardinality(earlier(w, f)) < MaxPerWord}
<1>1. ScannedIndex(order) = UNION {W(f) \X {f} : f \in found}
  BY DEF ScannedIndex
<1> HIDE DEF found, earlier
<1>2. \A f, w : w \in W(f) <=> w \in IndexWords(ReadFile(f))
                                /\ Cardinality(earlier(w, f)) < MaxPerWord
  OBVIOUS
<1> HIDE DEF W
<1>3. \A e \in ScannedIndex(order) : \E f \in found : e = <<e[1], f>>
  BY <1>1
<1>4. \A w, f : <<w, f>> \in ScannedIndex(order) <=> f \in found /\ w \in W(f)
  BY <1>1
<1>5. \A w, f : <<w, f>> \in ScannedIndex(order) <=>
        /\ f \in found /\ w \in IndexWords(ReadFile(f))
        /\ Cardinality(earlier(w, f)) < MaxPerWord
  BY <1>2, <1>4
<1> QED
  BY <1>3, <1>5 DEF found, earlier

LEMMA DataInit == Init => DataTyped
<1> SUFFICES ASSUME Init PROVE DataTyped
  OBVIOUS
<1>1. DiskTyped
  BY DEF Init, DiskTyped, Dirent
<1>2. MemoryTyped
  BY IdleTyped DEF Init, MemoryTyped, Dirent
<1>3. ThreadsTyped
  BY IdleTyped DEF Init, ThreadsTyped, AtLabels, FdSet
<1> QED
  BY <1>1, <1>2, <1>3 DEF DataTyped

LEMMA DieTyped == DataTyped /\ Die => DataTyped'
<1> SUFFICES ASSUME DataTyped, Die PROVE DataTyped'
  OBVIOUS
<1>1. DiskTyped'
  BY DEF Die, DataTyped, DiskTyped, disk
<1>2. MemoryTyped'
  BY IdleTyped DEF Die, MemoryTyped, Dirent
<1>3. ThreadsTyped'
  BY IdleTyped DEF Die, ThreadsTyped, AtLabels, FdSet
<1> QED
  BY <1>1, <1>2, <1>3 DEF DataTyped

\* The session: it starts with words of the file, and grows by what is inserted.
LEMMA SessionTyped ==
  ASSUME DataTyped, PartiesInv
  PROVE  /\ StartLock => DataTyped'
         /\ StartRead => DataTyped'
         /\ \A c \in Client, k \in Key : WriteStart(c, k) => DataTyped'
         /\ \A i \in 0 .. MaxWords, w \in Insert : WriteUpdate(i, w) => DataTyped'
<1> USE DEF DataTyped, DiskTyped, MemoryTyped, ThreadsTyped
<1>1. ASSUME StartLock PROVE DataTyped'
  <2>1. UNCHANGED <<disk, memory, nt, fd>> /\ \E at \in {"start_read", "loop"} : Goto(at)
    BY <1>1 DEF StartLock
  <2>2. ct' \in CtSet
    BY <2>1 DEF Goto, CtSet, AtLabels
  <2> QED
    BY <2>1, <2>2 DEF disk, memory
<1>2. ASSUME StartRead PROVE DataTyped'
  <2> DEFINE f == ct.key[1]
             n == ct.key[2]
             ws == WordsOf(ReadFile(f), n)
  <2>1. UNCHANGED <<disk, index, nt, fd>>
    BY <1>2 DEF StartRead
  <2>2. ct.key \in Key /\ ct.client \in Client /\ f \in Doc /\ f \in Name /\ n \in Nat
    BY KeyTyped DEF CtSet
  <2>3. ct' \in CtSet
    BY <1>2, StartReadCases DEF CtSet, AtLabels
  <2>4. CASE StartAccepted
    <3>1. ReadFile(f) \in Text /\ n <= Len(ParseSentences(ReadFile(f)))
      BY <2>2, <2>4, ReadTyped DEF StartAccepted
    <3>2. ws \in Seq(Text)
      <4> DEFINE t == ReadFile(f)
                 s == ParseSentences(t)
      <4>1. t \in Text /\ s \in Seq(Text) /\ Len(s) \in Nat /\ n <= Len(s)
        BY <3>1, Sentences, Ends
      <4>2. ws = IF n = Len(s) THEN <<>> ELSE ParseWords(s[n + 1])
        BY DEF WordsOf
      <4> HIDE DEF t, s, f, n
      <4>3. CASE n = Len(s)
        BY <4>2, <4>3
      <4>4. CASE n # Len(s)
        <5>1. n + 1 \in 1 .. Len(s)
          BY <2>2, <4>1, <4>4
        <5>2. s[n + 1] \in Text
          BY <4>1, <5>1, ElementOfSeq
        <5> QED
          BY <4>2, <4>4, <5>2, WordsTyped
      <4> QED
        BY <4>3, <4>4
    <3>3. session' = [active |-> TRUE, key |-> ct.key, client |-> ct.client, words |-> ws]
          /\ undo' = [undo EXCEPT ![f] = ReadFile(f)]
      BY <1>2, <2>4 DEF StartRead
    <3>4. session' \in SessionSet
      <4> HIDE DEF ws
      <4> QED
        BY <2>2, <3>2, <3>3 DEF SessionSet
    <3>5. undo' \in [Doc -> Dirent]
      BY <2>2, <3>1, <3>3 DEF Dirent
    <3> QED
      BY <2>1, <2>3, <3>4, <3>5 DEF disk
  <2>5. CASE ~StartAccepted
    BY <1>2, <2>1, <2>3, <2>5 DEF StartRead, disk
  <2> QED
    BY <2>4, <2>5
<1>3. ASSUME NEW c \in Client, NEW k \in Key, WriteStart(c, k) PROVE DataTyped'
  <2> DEFINE at == IF Exists(k[1]) THEN "start_lock" ELSE "loop"
  <2>1. UNCHANGED <<disk, memory, nt, fd>>
        /\ ct' = [Idle("start_lock") EXCEPT !.at = at, !.key = k, !.client = c]
    BY <1>3 DEF WriteStart
  <2>2. Idle("start_lock") \in CtSet /\ at \in AtLabels
    BY IdleTyped DEF AtLabels
  <2> HIDE DEF at
  <2>3. ct' \in CtSet
    BY <2>1, <2>2 DEF CtSet
  <2> QED
    BY <2>1, <2>3 DEF disk, memory
<1>4. ASSUME NEW i \in 0 .. MaxWords, NEW w \in Insert, WriteUpdate(i, w) PROVE DataTyped'
  <2> DEFINE ws == session.words
             x == InsertAt(ws, i + 1, w)
  <2>1. /\ UNCHANGED <<disk, undo, index, ct, nt, fd>> /\ i <= Len(ws)
        /\ session' = [session EXCEPT !.words = x]
    BY <1>4 DEF WriteUpdate
  <2>2. ws \in Seq(Text) /\ w \in Text
    BY ServerAssumption DEF SessionSet
  <2> HIDE DEF ws
  <2>3. i \in 0 .. Len(ws)
    BY <2>1, <2>2, LenProperties
  <2>4. x \in Seq(Text)
    BY <2>2, <2>3, InsertTyped
  <2> HIDE DEF x
  <2>5. session' \in SessionSet
    BY <2>1, <2>4 DEF SessionSet
  <2> QED
    BY <2>1, <2>5 DEF disk
<1> QED
  BY <1>1, <1>2, <1>3, <1>4

\* The commit: the file read again and spliced, written, renamed and indexed.
LEMMA CommitsTyped ==
  ASSUME DataTyped, PartiesInv
  PROVE  /\ WriteCommit => DataTyped'
         /\ CommitWrite => DataTyped'
         /\ CommitRename => DataTyped'
         /\ CommitReread => DataTyped'
         /\ CommitIndex => DataTyped'
         /\ IndexRace => DataTyped'
<1> USE DEF DataTyped, DiskTyped, MemoryTyped, ThreadsTyped
<1> DEFINE f == session.key[1]
           n == session.key[2]
<1>0. session.key \in Key /\ f \in Doc /\ f \in Name /\ n \in Nat
  BY KeyTyped DEF SessionSet
<1>1. ASSUME WriteCommit PROVE DataTyped'
  <2>1. PICK t \in Reread(f) :
          \/ /\ ~CommitOutOfBounds(t, n)
             /\ ct' = [ct EXCEPT !.at = "commit_write",
                                 !.text = CommitText(t, n, session.words)]
             /\ UNCHANGED <<disk, memory, nt, fd, lockVars>>
          \/ CommitOutOfBounds(t, n) /\ Die
    BY <1>1 DEF WriteCommit
  <2>2. t \in Text
    BY <1>0, ReadTyped, ServerAssumption DEF Reread
  <2> DEFINE x == CommitText(t, n, session.words)
  <2>3. CASE ~CommitOutOfBounds(t, n) /\ ct' = [ct EXCEPT !.at = "commit_write", !.text = x]
             /\ UNCHANGED <<disk, memory, nt, fd, lockVars>>
    <3>1. session.words \in Seq(Text)
      BY DEF SessionSet
    <3>2. x \in Text
      BY <1>0, <2>2, <2>3, <3>1, CommitTyped
    <3> HIDE DEF x
    <3>3. ct' \in CtSet
      BY <2>3, <3>2 DEF CtSet, AtLabels
    <3> QED
      BY <2>3, <3>3 DEF disk, memory
  <2>4. CASE Die
    BY <2>4, DieTyped
  <2> QED
    BY <2>1, <2>3, <2>4
<1>2. ASSUME CommitWrite PROVE DataTyped'
  <2>1. /\ UNCHANGED <<moved, folders, ckpts, storageDir, ckptDir, memory, nt, fd>>
        /\ files' = [files EXCEPT ![TmpOf[f]] = ct.text]
        /\ Goto("commit_rename")
    BY <1>2 DEF CommitWrite
  <2>2. ct.text \in Dirent
    BY DEF CtSet, Dirent
  <2>3. files' \in [Name -> Dirent]
    BY <2>1, <2>2
  <2>4. ct' \in CtSet
    BY <2>1 DEF Goto, CtSet, AtLabels
  <2> QED
    BY <2>1, <2>3, <2>4 DEF memory
<1>3. ASSUME CommitRename PROVE DataTyped'
  <2> DEFINE tmp == TmpOf[f]
  <2>1. /\ UNCHANGED <<moved, folders, ckpts, storageDir, ckptDir, memory, nt, fd>>
        /\ files' = IF Exists(tmp) THEN [files EXCEPT ![f] = files[tmp], ![tmp] = NoFile]
                                   ELSE files
        /\ Goto("commit_release")
    BY <1>3 DEF CommitRename
  <2>2. tmp \in Name
    BY <1>0, ServerAssumption
  <2> HIDE DEF tmp
  <2>3. files' \in [Name -> Dirent]
    BY <2>1, <2>2 DEF Dirent
  <2>4. ct' \in CtSet
    BY <2>1 DEF Goto, CtSet, AtLabels
  <2> QED
    BY <2>1, <2>3, <2>4 DEF memory
<1>4. ASSUME CommitReread PROVE DataTyped'
  <2>1. /\ UNCHANGED <<disk, memory, nt, fd>>
        /\ IF Exists(f) THEN ct' = [ct EXCEPT !.at = "commit_index", !.text = ReadFile(f)]
                        ELSE ct' = [ct EXCEPT !.at = "commit_reply"]
    BY <1>4 DEF CommitReread
  <2>2. Exists(f) => ReadFile(f) \in Text
    BY <1>0, ReadTyped
  <2>3. ct' \in CtSet
    <3> DEFINE x == ReadFile(f)
    <3>1. CASE Exists(f)
      <4> HIDE DEF x
      <4> QED
        BY <2>1, <2>2, <3>1 DEF CtSet, AtLabels, x
    <3>2. CASE ~Exists(f)
      BY <2>1, <3>2 DEF CtSet, AtLabels
    <3> QED
      BY <3>1, <3>2
  <2> QED
    BY <2>1, <2>3 DEF disk, memory
<1>5. ct.text \in Text /\ Indexed(f, ct.text) \subseteq Seq(Letter) \X Name
  <2>1. ct.text \in Text
    BY DEF CtSet
  <2> QED
    BY <1>0, <2>1, IndexedTyped
<1>6. ASSUME CommitIndex PROVE DataTyped'
  <2>1. /\ UNCHANGED <<disk, undo, session, nt, fd>> /\ index' = Indexed(f, ct.text)
        /\ Goto("commit_reply")
    BY <1>6 DEF CommitIndex
  <2>2. ct' \in CtSet
    BY <2>1 DEF Goto, CtSet, AtLabels
  <2> QED
    BY <1>5, <2>1, <2>2 DEF disk
<1>7. ASSUME IndexRace PROVE DataTyped'
  <2> DEFINE touched == {e \in index \cup Indexed(f, ct.text) : e[2] \in {nt.file, f}}
  <2>1. CASE Die
    BY <2>1, DieTyped
  <2>2. CASE /\ \E kept \in SUBSET touched : index' = (index \ touched) \cup kept
             /\ nt' = NsIdle /\ Goto("commit_reply")
             /\ UNCHANGED <<disk, undo, session, fd, lockVars>>
    <3>1. index' \subseteq Seq(Letter) \X Name
      BY <1>5, <2>2
    <3>2. ct' \in CtSet /\ nt' \in NtSet
      BY <2>2, IdleTyped DEF Goto, CtSet, AtLabels
    <3> QED
      BY <2>2, <3>1, <3>2 DEF disk
  <2> QED
    BY <1>7, <2>1, <2>2 DEF IndexRace
<1> QED
  BY <1>1, <1>2, <1>3, <1>4, <1>6, <1>7

\* The connection ends, or the commit is over.
LEMMA EndsTyped ==
  ASSUME DataTyped,
         \/ CommitWriteFails \/ CommitRelease \/ CommitReply \/ CommitRefused
         \/ Disconnect \/ UnexpectedOperation \/ RewriteFails
  PROVE  DataTyped'
<1>1. UNCHANGED <<disk, undo, index, nt, fd>>
  BY DEF CommitWriteFails, CommitRelease, CommitReply, CommitRefused, Disconnect,
         UnexpectedOperation, RewriteFails, memory
<1>2. session' \in {session, NoSession}
  BY DEF CommitWriteFails, CommitRelease, CommitReply, CommitRefused, Disconnect,
         UnexpectedOperation, RewriteFails, EndSession, memory
<1>3. ct' = Idle("accept") \/ Goto("commit_reread")
  BY DEF CommitWriteFails, CommitRelease, CommitReply, CommitRefused, Disconnect,
         UnexpectedOperation, RewriteFails
<1>4. ct' \in CtSet
  <2>1. CASE ct' = Idle("accept")
    BY <2>1, IdleTyped DEF AtLabels
  <2>2. CASE Goto("commit_reread")
    BY <2>2 DEF Goto, CtSet, AtLabels, DataTyped, ThreadsTyped
  <2> QED
    BY <1>3, <2>1, <2>2
<1>5. session' \in SessionSet
  BY <1>2, IdleTyped DEF DataTyped, MemoryTyped
<1> QED
  BY <1>1, <1>4, <1>5 DEF DataTyped, DiskTyped, MemoryTyped, ThreadsTyped, disk

\* UNDO, REVERT and CHECKPOINT.
LEMMA RewritesTyped ==
  ASSUME DataTyped
  PROVE  /\ \A f \in Doc : Undo(f) => DataTyped'
         /\ \A f \in Doc, t \in Tag : Revert(f, t) \/ Checkpoint(f, t) => DataTyped'
         /\ RewriteOpen => DataTyped'
         /\ RewriteData => DataTyped'
         /\ CheckpointOpen => DataTyped'
         /\ CheckpointData => DataTyped'
<1> USE DEF DataTyped, DiskTyped, MemoryTyped, ThreadsTyped
<1> DEFINE g == ct.key[1]
<1>0. ct.key \in Key /\ g \in Doc /\ g \in Name /\ ct.tag \in Tag /\ ct.text \in Text
      /\ ct.text \in Dirent /\ <<>> \in Dirent
  BY KeyTyped DEF CtSet, Dirent, Text
<1>1. ASSUME NEW at \in {"rewrite_open", "ckpt_open"}, NEW f \in Doc, NEW x \in Text,
             NEW t \in Tag
      PROVE  /\ [Idle(at) EXCEPT !.key = <<f, 0>>, !.text = x] \in CtSet
             /\ [Idle(at) EXCEPT !.key = <<f, 0>>, !.tag = t] \in CtSet
  <2>1. Idle(at) \in CtSet /\ <<f, 0>> \in Key
    BY IdleTyped, KeyTyped DEF AtLabels
  <2> QED
    BY <2>1 DEF CtSet
<1>2. ASSUME NEW f \in Doc, Undo(f) PROVE DataTyped'
  <2>1. UNCHANGED <<disk, index, session, nt, fd>> /\ undo' = [undo EXCEPT ![f] = NoFile]
        /\ ct' = [Idle("rewrite_open") EXCEPT !.key = <<f, 0>>, !.text = undo[f]]
        /\ undo[f] \in Text
    BY <1>2 DEF Undo, Dirent
  <2>2. Tag # {}
    BY ServerAssumption
  <2>3. ct' \in CtSet
    BY <1>1, <2>1, <2>2
  <2>4. undo' \in [Doc -> Dirent]
    BY <2>1 DEF Dirent
  <2> QED
    BY <2>1, <2>3, <2>4 DEF disk
<1>3. ASSUME NEW f \in Doc, NEW t \in Tag, Revert(f, t) PROVE DataTyped'
  <2>1. UNCHANGED <<disk, memory, nt, fd>> /\ ckpts[<<f, t>>] # NoFile
        /\ ct' = [Idle("rewrite_open") EXCEPT !.key = <<f, 0>>, !.text = ckpts[<<f, t>>]]
    BY <1>3 DEF Revert
  <2>2. ckpts[<<f, t>>] \in Text
    BY <2>1 DEF Dirent
  <2>3. ct' \in CtSet
    BY <1>1, <2>1, <2>2
  <2> QED
    BY <2>1, <2>3 DEF disk, memory
<1>4. ASSUME NEW f \in Doc, NEW t \in Tag, Checkpoint(f, t) PROVE DataTyped'
  <2>1. UNCHANGED <<disk, memory, nt, fd>>
        /\ ct' = [Idle("ckpt_open") EXCEPT !.key = <<f, 0>>, !.tag = t]
    BY <1>4 DEF Checkpoint
  <2>2. <<>> \in Text
    BY DEF Text
  <2>3. ct' \in CtSet
    BY <1>1, <2>1, <2>2
  <2> QED
    BY <2>1, <2>3 DEF disk, memory
<1>5. ASSUME RewriteOpen PROVE DataTyped'
  <2>1. /\ UNCHANGED <<moved, folders, ckpts, storageDir, ckptDir, memory, nt>>
        /\ files' = [files EXCEPT ![g] = <<>>] /\ fd' = <<g>> /\ Goto("rewrite_data")
    BY <1>5 DEF RewriteOpen
  <2>2. files' \in [Name -> Dirent]
    BY <1>0, <2>1
  <2>3. ct' \in CtSet /\ fd' \in FdSet
    BY <1>0, <2>1 DEF Goto, CtSet, AtLabels, FdSet
  <2> QED
    BY <2>1, <2>2, <2>3 DEF memory
<1>6. ASSUME RewriteData PROVE DataTyped'
  <2>1. /\ UNCHANGED <<folders, ckpts, storageDir, ckptDir, memory, nt>>
        /\ files' = IF Len(fd) = 1 THEN [files EXCEPT ![fd[1]] = ct.text] ELSE files
        /\ moved' = IF Len(fd) = 2 THEN [moved EXCEPT ![fd] = ct.text] ELSE moved
        /\ fd' = NoFd /\ ct' = Idle("accept")
    BY <1>6 DEF RewriteData
  <2>2. files' \in [Name -> Dirent] /\ moved' \in [Folder \X Name -> Dirent]
    BY <1>0, <2>1
  <2>3. ct' \in CtSet /\ fd' \in FdSet
    BY <2>1, IdleTyped DEF AtLabels, FdSet
  <2> QED
    BY <2>1, <2>2, <2>3 DEF memory
<1>7. ASSUME CheckpointOpen PROVE DataTyped'
  <2>1. UNCHANGED <<files, moved, folders, storageDir, ckptDir, memory, nt, fd>>
    BY <1>7 DEF CheckpointOpen
  <2>2. CASE Exists(g)
    <3>1. /\ ct' = [ct EXCEPT !.at = "ckpt_data", !.text = files[g]]
          /\ ckpts' = [ckpts EXCEPT ![<<g, ct.tag>>] = <<>>]
      BY <1>7, <2>2 DEF CheckpointOpen
    <3>2. files[g] \in Text
      BY <1>0, <2>2 DEF Exists, Dirent
    <3>3. ct' \in CtSet
      BY <3>1, <3>2 DEF CtSet, AtLabels
    <3>4. ckpts' \in [Doc \X Tag -> Dirent]
      BY <1>0, <3>1
    <3> QED
      BY <2>1, <3>3, <3>4 DEF memory
  <2>3. CASE ~Exists(g)
    BY <1>7, <2>1, <2>3, IdleTyped DEF CheckpointOpen, memory, AtLabels
  <2> QED
    BY <2>2, <2>3
<1>8. ASSUME CheckpointData PROVE DataTyped'
  <2>1. /\ UNCHANGED <<files, moved, folders, storageDir, ckptDir, memory, nt, fd>>
        /\ ct' = Idle("accept")
        /\ ckpts' = [ckpts EXCEPT ![<<g, ct.tag>>] = ct.text]
    BY <1>8 DEF CheckpointData
  <2>2. ckpts' \in [Doc \X Tag -> Dirent]
    BY <1>0, <2>1
  <2> QED
    BY <2>1, <2>2, IdleTyped DEF memory, AtLabels
<1> QED
  BY <1>2, <1>3, <1>4, <1>5, <1>6, <1>7, <1>8

\* The name server's thread, the lock's threads and the start.
LEMMA OutsideTyped ==
  ASSUME DataTyped
  PROVE  /\ \A f \in Doc : Create(f) \/ Delete(f) => DataTyped'
         /\ \A d \in Folder : CreateFolder(d) => DataTyped'
         /\ \A f \in Doc, d \in Folder : Move(f, d) => DataTyped'
         /\ Unindex \/ Cleanup \/ ClockTick \/ Boot \/ Crash => DataTyped'
<1> USE DEF DataTyped, DiskTyped, MemoryTyped, ThreadsTyped
<1>0. <<>> \in Dirent /\ NoFile \in Dirent /\ \A f \in Doc : f \in Name
  BY ServerAssumption DEF Dirent, Text
<1>1. ASSUME NEW f \in Doc, Create(f) PROVE DataTyped'
  <2>1. /\ UNCHANGED <<moved, folders, ckpts, storageDir, ckptDir, memory, ct, nt, fd>>
        /\ files' = [files EXCEPT ![f] = <<>>]
    BY <1>1 DEF Create
  <2>2. files' \in [Name -> Dirent]
    BY <1>0, <2>1
  <2> QED
    BY <2>1, <2>2 DEF memory
<1>2. ASSUME NEW f \in Doc, Delete(f) PROVE DataTyped'
  <2>1. /\ UNCHANGED <<moved, folders, ckpts, storageDir, ckptDir, memory, ct>>
        /\ files' = [files EXCEPT ![f] = NoFile]
        /\ fd' = IF fd = <<f>> THEN NoFd ELSE fd
        /\ nt' = [at |-> "unindex", file |-> f]
    BY <1>2 DEF Delete
  <2>2. files' \in [Name -> Dirent]
    BY <1>0, <2>1
  <2>3. fd' \in FdSet /\ nt' \in NtSet
    BY <2>1 DEF FdSet, NtSet
  <2> QED
    BY <2>1, <2>2, <2>3 DEF memory
<1>3. ASSUME NEW d \in Folder, CreateFolder(d) PROVE DataTyped'
  BY <1>3 DEF CreateFolder, memory
<1>4. ASSUME NEW f \in Doc, NEW d \in Folder, Move(f, d) PROVE DataTyped'
  <2>1. /\ UNCHANGED <<folders, ckpts, storageDir, ckptDir, memory, ct, nt>>
        /\ files' = [files EXCEPT ![f] = NoFile]
        /\ moved' = [moved EXCEPT ![<<d, f>>] = files[f]]
        /\ fd' = IF fd = <<f>> THEN <<d, f>> ELSE fd
    BY <1>4 DEF Move
  <2>2. files' \in [Name -> Dirent] /\ moved' \in [Folder \X Name -> Dirent]
    BY <1>0, <2>1
  <2>3. fd' \in FdSet
    BY <2>1 DEF FdSet
  <2> QED
    BY <2>1, <2>2, <2>3 DEF memory
<1>5. ASSUME Unindex PROVE DataTyped'
  <2>1. UNCHANGED <<disk, undo, session, ct, fd>> /\ index' = Unindexed(nt.file)
        /\ nt' = NsIdle
    BY <1>5 DEF Unindex
  <2>2. index' \subseteq Seq(Letter) \X Name
    BY <2>1 DEF Unindexed
  <2> QED
    BY <2>1, <2>2, IdleTyped DEF disk
<1>6. ASSUME Cleanup \/ ClockTick PROVE DataTyped'
  BY <1>6 DEF Cleanup, ClockTick, disk, memory
<1>7. ASSUME Crash PROVE DataTyped'
  BY <1>7, DieTyped DEF Crash
<1>8. ASSUME Boot PROVE DataTyped'
  <2>1. /\ UNCHANGED <<files, moved, folders, ckpts, undo, session, nt, fd>>
        /\ storageDir' = TRUE /\ ckptDir' = (ckptDir \/ storageDir)
        /\ ct' = Idle("accept")
    BY <1>8 DEF Boot
  <2>2. PICK order \in Orders : index' = ScannedIndex(order)
    BY <1>8 DEF Boot
  <2>3. index' \subseteq Seq(Letter) \X Name
    <3>1. ASSUME NEW e \in index' PROVE e \in Seq(Letter) \X Name
      <4>1. PICK f \in Name : Exists(f) /\ e = <<e[1], f>>
        BY <2>2, <3>1, ScannedMember
      <4>2. e[1] \in IndexWords(ReadFile(f))
        <5> DEFINE w == e[1]
        <5> HIDE DEF w
        <5>1. <<w, f>> \in ScannedIndex(order)
          BY <2>2, <3>1, <4>1 DEF w
        <5> QED
          BY <5>1, ScannedMember DEF w
      <4>3. e[1] \in Seq(Letter)
        <5>1. ReadFile(f) \in Text
          BY <4>1, ReadTyped
        <5> QED
          BY <4>2, <5>1, IndexWordsTyped
      <4> DEFINE w == e[1]
      <4> HIDE DEF w
      <4>4. <<w, f>> \in Seq(Letter) \X Name
        BY <4>3 DEF w
      <4> QED
        BY <4>1, <4>4 DEF w
    <3> QED
      BY <3>1
  <2>4. storageDir' \in BOOLEAN /\ ckptDir' \in BOOLEAN
    BY <2>1
  <2> QED
    BY <2>1, <2>3, <2>4, IdleTyped DEF AtLabels
<1> QED
  BY <1>1, <1>2, <1>3, <1>4, <1>5, <1>6, <1>7, <1>8

LEMMA DataStep == DataTyped /\ PartiesInv /\ [Next]_vars => DataTyped'
<1> SUFFICES ASSUME DataTyped, PartiesInv, [Next]_vars PROVE DataTyped'
  OBVIOUS
<1>1. CASE ClientStep
  BY <1>1, SessionTyped, CommitsTyped, EndsTyped, RewritesTyped DEF ClientStep
<1>2. CASE ClientRequest
  BY <1>2, SessionTyped, CommitsTyped, EndsTyped, RewritesTyped DEF ClientRequest
<1>3. CASE NsStep
  BY <1>3, OutsideTyped, CommitsTyped DEF NsStep
<1>4. CASE UNCHANGED vars
  BY <1>4 DEF vars, disk, memory, DataTyped, DiskTyped, MemoryTyped, ThreadsTyped
<1> QED
  BY <1>1, <1>2, <1>3, <1>4, OutsideTyped DEF Next

LEMMA DataAlways == Spec => []DataTyped
  BY DataInit, DataStep, PartiesAlways, PTL DEF Spec

\* The files that an index lists under w.
Under(X, w) == {f \in Name : <<w, f>> \in X}
ListsFit == \A w \in Seq(Letter) : Cardinality(Under(index, w)) <= MaxPerWord

LEMMA NamesFinite ==
  ASSUME NEW S \in SUBSET Name
  PROVE  IsFiniteSet(S) /\ Cardinality(S) \in Nat
<1>1. IsFiniteSet(Name)
  BY ServerAssumption
<1>2. IsFiniteSet(S)
  BY <1>1, FS_Subset
<1> QED
  BY <1>2, FS_CardinalityType

\* All the steps that add to the index add what index_file does.
LEMMA IndexEffects ==
  ASSUME DataTyped, [Next]_vars
  PROVE  \/ \E f \in Name : \E t : index' \subseteq index \cup Indexed(f, t)
         \/ Boot
<1> DEFINE Goal == (\E f \in Name : \E t : index' \subseteq index \cup Indexed(f, t)) \/ Boot
<1> SUFFICES Goal
  OBVIOUS
<1>0. session.key[1] \in Name /\ nt.file \in Name
  BY KeyTyped, ServerAssumption DEF DataTyped, MemoryTyped, ThreadsTyped, SessionSet, NtSet
<1>1. CASE index' \subseteq index
  BY <1>0, <1>1
<1> HIDE DEF Goal
<1>2. CASE Die
  BY <1>1, <1>2 DEF Die
<1>3. CASE CommitIndex
  BY <1>0, <1>3 DEF CommitIndex, Goal
<1>4. CASE IndexRace
  <2> DEFINE touched == {e \in index \cup Indexed(session.key[1], ct.text) :
                           e[2] \in {nt.file, session.key[1]}}
  <2>1. CASE \E kept \in SUBSET touched : index' = (index \ touched) \cup kept
    <3>1. index' \subseteq index \cup Indexed(session.key[1], ct.text)
      BY <2>1
    <3> QED
      BY <1>0, <3>1 DEF Goal
  <2> QED
    BY <1>2, <1>4, <2>1 DEF IndexRace
<1>5. CASE Unindex
  BY <1>1, <1>5 DEF Unindex, Unindexed
<1>6. CASE Boot
  BY <1>6 DEF Goal
<1>7. CASE Crash
  BY <1>2, <1>7 DEF Crash
<1>8. CASE WriteCommit
  BY <1>1, <1>2, <1>8 DEF WriteCommit, memory
<1>9. CASE \/ StartLock \/ StartRead \/ CommitWrite \/ CommitWriteFails \/ CommitRename
           \/ CommitRelease \/ CommitReread \/ CommitReply \/ RewriteOpen \/ RewriteFails
           \/ RewriteData \/ CheckpointOpen \/ CheckpointData \/ CommitRefused
           \/ UnexpectedOperation \/ Disconnect \/ Cleanup \/ ClockTick \/ UNCHANGED vars
  <2>1. UNCHANGED index
    BY <1>9
    DEF StartLock, StartRead, CommitWrite, CommitWriteFails, CommitRename, CommitRelease,
        CommitReread, CommitReply, RewriteOpen, RewriteFails, RewriteData, CheckpointOpen,
        CheckpointData, CommitRefused, UnexpectedOperation, Disconnect, Cleanup, ClockTick,
        vars, memory
  <2> QED
    BY <1>1, <2>1
<1>10. CASE \/ \E c \in Client, k \in Key : WriteStart(c, k)
            \/ \E i \in 0 .. MaxWords, w \in Insert : WriteUpdate(i, w)
            \/ \E f \in Doc : Undo(f) \/ Create(f) \/ Delete(f)
            \/ \E f \in Doc, t \in Tag : Checkpoint(f, t) \/ Revert(f, t)
            \/ \E d \in Folder : CreateFolder(d)
            \/ \E f \in Doc, d \in Folder : Move(f, d)
  <2>1. UNCHANGED index
    BY <1>10
    DEF WriteStart, WriteUpdate, Undo, Create, Delete, Checkpoint, Revert, CreateFolder,
        Move, memory
  <2> QED
    BY <1>1, <2>1
<1> QED
  BY <1>2, <1>3, <1>4, <1>5, <1>6, <1>7, <1>8, <1>9, <1>10
  DEF Next, ClientStep, ClientRequest, NsStep

\* index_add_word adds one file to a list that has a place for it.
LEMMA AddedFits ==
  ASSUME ListsFit, NEW f \in Name, NEW t, NEW X,
         X \subseteq index \cup Indexed(f, t), NEW w \in Seq(Letter)
  PROVE  Cardinality(Under(X, w)) <= MaxPerWord
<1> DEFINE old == Under(index, w)
           others == {g \in Name \ {f} : <<w, g>> \in index}
           new == Under(X, w)
<1>1. old \subseteq Name /\ others \subseteq Name /\ new \subseteq Name
  BY DEF Under
<1>2. MaxPerWord \in Nat /\ Cardinality(old) <= MaxPerWord
  BY ServerAssumption DEF ListsFit
<1>3. CASE Room(w, f)
  <2>1. Cardinality(others) < MaxPerWord
    BY <1>3 DEF Room
  <2>2. new \subseteq others \cup {f}
    BY DEF Under, Indexed, Unindexed
  <2>3. f \notin others
    OBVIOUS
  <2> HIDE DEF others, new
  <2>4. IsFiniteSet(others) /\ Cardinality(others) \in Nat
    BY <1>1, NamesFinite
  <2>5. IsFiniteSet(others \cup {f}) /\ Cardinality(others \cup {f}) = Cardinality(others) + 1
    BY <2>3, <2>4, FS_AddElement
  <2>6. Cardinality(new) \in Nat /\ Cardinality(new) <= Cardinality(others \cup {f})
    BY <1>1, <2>2, <2>5, FS_Subset, NamesFinite
  <2> QED
    BY <1>2, <2>1, <2>4, <2>5, <2>6 DEF new
<1>4. CASE ~Room(w, f)
  <2>1. new \subseteq old
    <3>1. ASSUME NEW g \in Name, <<w, g>> \in Indexed(f, t) PROVE <<w, g>> \in index
      BY <1>4, <3>1 DEF Indexed, Unindexed
    <3> QED
      BY <3>1 DEF Under
  <2> HIDE DEF new, old
  <2>2. IsFiniteSet(old) /\ Cardinality(old) \in Nat /\ Cardinality(new) \in Nat
    BY <1>1, NamesFinite
  <2>3. Cardinality(new) <= Cardinality(old)
    BY <2>1, <2>2, FS_Subset
  <2> QED
    BY <1>2, <2>2, <2>3 DEF new
<1> QED
  BY <1>3, <1>4

\* The last file that main enters under a word found a place, and the others are earlier.
LEMMA ScannedFits ==
  ASSUME NEW order \in Orders, NEW w
  PROVE  Cardinality(Under(ScannedIndex(order), w)) <= MaxPerWord
<1> DEFINE there == {f \in Name : Exists(f)}
           n == Cardinality(there)
           found == {f \in Name : Exists(f) /\ order[f] <= MaxScan}
           earlier(f) == {g \in found : order[g] < order[f] /\ w \in IndexWords(ReadFile(g))}
           S == Under(ScannedIndex(order), w)
           places == {order[f] : f \in S}
<1>1. MaxPerWord \in Nat /\ n \in Nat
  BY NamesFinite, ServerAssumption
<1>2. ASSUME NEW f
      PROVE  f \in S <=> /\ f \in found /\ w \in IndexWords(ReadFile(f))
                        /\ Cardinality(earlier(f)) < MaxPerWord
  <2>1. f \in S <=> f \in Name /\ <<w, f>> \in ScannedIndex(order)
    BY DEF Under
  <2>2. <<w, f>> \in ScannedIndex(order) <=>
          /\ f \in found /\ w \in IndexWords(ReadFile(f))
          /\ Cardinality(earlier(f)) < MaxPerWord
    BY ScannedMember
  <2> QED
    BY <2>1, <2>2
<1>3. order \in [there -> 1 .. n] /\ \A f, g \in there : order[f] = order[g] => f = g
  BY DEF Orders
<1>4. S \subseteq Name /\ S \subseteq there /\ found \subseteq Name
  BY <1>2
<1>5. IsFiniteSet(S) /\ Cardinality(S) \in Nat
  BY <1>4, NamesFinite
<1>6. CASE S = {}
  BY <1>1, <1>6, FS_EmptySet
<1>7. CASE S # {}
  <2>1. places \in SUBSET (1 .. n) /\ places # {}
    <3> HIDE DEF S, n, there
    <3> QED
      BY <1>3, <1>4, <1>7
  <2>2. PICK m \in S : \A g \in S : order[g] <= order[m]
    <3>1. PICK p \in places : \A q \in places : q <= p
      BY <1>1, <2>1, Largest
    <3> HIDE DEF S
    <3> QED
      BY <3>1
  <2>3. S \ {m} \subseteq earlier(m)
    <3>1. ASSUME NEW g \in S \ {m} PROVE order[g] < order[m]
      <4>1. order[g] # order[m] /\ order[g] \in 1 .. n /\ order[m] \in 1 .. n
        BY <1>3, <1>4
      <4> QED
        BY <1>1, <2>2, <4>1
    <3> QED
      BY <1>2, <3>1
  <2>4. earlier(m) \subseteq Name /\ Cardinality(earlier(m)) < MaxPerWord
    BY <1>2
  <2> HIDE DEF S, earlier
  <2>5. IsFiniteSet(earlier(m)) /\ Cardinality(earlier(m)) \in Nat
    BY <2>4, NamesFinite
  <2>6. Cardinality(S \ {m}) <= Cardinality(earlier(m))
    BY <2>3, <2>5, FS_Subset
  <2>7. Cardinality(S \ {m}) = Cardinality(S) - 1
    BY <1>5, <2>2, FS_RemoveElement
  <2> QED
    BY <1>1, <1>5, <2>4, <2>5, <2>6, <2>7 DEF S
<1> QED
  BY <1>6, <1>7

LEMMA ListsAlways == Spec => []ListsFit
<1>1. Init => ListsFit
  <2> SUFFICES ASSUME Init, NEW w PROVE Cardinality(Under(index, w)) <= MaxPerWord
    BY DEF ListsFit
  <2>1. Under(index, w) = {}
    BY DEF Init, Under
  <2>2. Cardinality({}) = 0 /\ MaxPerWord \in Nat
    BY FS_EmptySet, ServerAssumption
  <2>3. Cardinality(Under(index, w)) = 0
    BY <2>1, <2>2
  <2> QED
    BY <2>2, <2>3
<1>2. DataTyped /\ ListsFit /\ [Next]_vars => ListsFit'
  <2> SUFFICES ASSUME DataTyped, ListsFit, [Next]_vars, NEW w \in Seq(Letter)
               PROVE  Cardinality(Under(index', w)) <= MaxPerWord
    BY DEF ListsFit, Under
  <2>1. CASE \E f \in Name : \E t : index' \subseteq index \cup Indexed(f, t)
    BY <2>1, AddedFits
  <2>2. CASE Boot
    <3>1. PICK order \in Orders : index' = ScannedIndex(order)
      BY <2>2 DEF Boot
    <3> QED
      BY <3>1, ScannedFits
  <2> QED
    BY <2>1, <2>2, IndexEffects
<1> QED
  BY <1>1, <1>2, DataAlways, PTL DEF Spec

\* Files, sessions and buffers hold texts and no request leaves the server with
\* anything else: in particular the commit's splice of whatever the second read left
\* in the buffer is a text (storage_server.c:476-622).
THEOREM ServerTyped == Spec => []TypeOK
<1>1. PartiesInv /\ DataTyped /\ ListsFit => TypeOK
  <2> SUFFICES ASSUME PartiesInv, DataTyped, ListsFit PROVE TypeOK
    OBVIOUS
  <2>1. ASSUME NEW e \in index
        PROVE  Cardinality({f \in Name : <<e[1], f>> \in index}) <= MaxPerWord
    <3>1. e[1] \in Seq(Letter)
      BY DEF DataTyped, MemoryTyped
    <3> QED
      BY <3>1 DEF ListsFit, Under
  <2> QED
    BY <2>1, TypeParts DEF PartiesInv, ListsBounded
<1> QED
  BY <1>1, PartiesAlways, DataAlways, ListsAlways, PTL

-----------------------------------------------------------------------------
(* A session and its file                                                  *)

InSession == {"loop", "commit_write", "commit_rename"}

\* What the name server's thread does to the files.
FilesStep ==
  \/ UNCHANGED files
  \/ \E g \in Doc : ~Exists(g) /\ files' = [files EXCEPT ![g] = <<>>]
  \/ \E g \in Doc : Ops \cap {"delete", "move"} # {} /\ files' = [files EXCEPT ![g] = NoFile]

SessionStarts ==
  /\ ct.at = "start_read" /\ ct'.at = "loop" /\ StartAccepted
  /\ session' = [active |-> TRUE, key |-> ct.key, client |-> ct.client,
                 words |-> WordsOf(ReadFile(ct.key[1]), ct.key[2])]
  /\ undo' = [undo EXCEPT ![ct.key[1]] = ReadFile(ct.key[1])]
  /\ UNCHANGED files
SessionGrows ==
  /\ ct.at = "loop"
  /\ \E ws : session' = [session EXCEPT !.words = ws]
  /\ UNCHANGED <<ct, undo, files>>
SessionCommits ==
  /\ ct.at = "loop"
  /\ \E t \in Reread(session.key[1]) :
       ct' = [ct EXCEPT !.at = "commit_write",
                        !.text = CommitText(t, session.key[2], session.words)]
  /\ UNCHANGED <<session, undo, files>>
SessionWrites ==
  /\ ct.at = "commit_write"
  /\ ct' = [ct EXCEPT !.at = "commit_rename"]
  /\ files' = [files EXCEPT ![TmpOf[session.key[1]]] = ct.text]
  /\ UNCHANGED <<session, undo>>
SessionWaits == UNCHANGED <<ct, session, undo>> /\ FilesStep

\* While the shipped client has a session, that is all that happens to it, to the
\* files and to the texts kept for UNDO.
LEMMA SessionSteps ==
  ASSUME "stray" \notin Ops, TheConnections, PartiesInv, [Next]_vars,
         session'.active, ct'.at \in InSession
  PROVE  \/ SessionStarts
         \/ session.active /\ (\/ SessionGrows \/ SessionCommits \/ SessionWrites
                               \/ SessionWaits)
<1> DEFINE Goal == \/ SessionStarts
                   \/ session.active /\ (\/ SessionGrows \/ SessionCommits \/ SessionWrites
                                         \/ SessionWaits)
<1> SUFFICES Goal
  OBVIOUS
<1>0. /\ session.active => ct.at \in {"loop"} \cup CommitLabels
      /\ DOMAIN ct = {"at", "key", "client", "tag", "text", "told"}
  BY DEF TheConnections, PartiesInv, Shape
<1> USE DEF InSession, CommitLabels
<1>1. Die => Goal
  BY DieIsDead DEF Dead
<1>2. CASE StartLock
  BY <1>0, <1>2 DEF StartLock, Goto, memory
<1>3. CASE StartRead
  <2>1. CASE StartAccepted
    BY <1>3, <2>1, StartReadCases DEF StartRead, SessionStarts, disk, PartiesInv, Shape
  <2>2. CASE ~StartAccepted
    BY <1>0, <1>3, <2>2 DEF StartRead
  <2> QED
    BY <2>1, <2>2
<1>4. CASE CommitWrite
  BY <1>4 DEF CommitWrite, SessionWrites, Goto, memory
<1>5. CASE CommitWriteFails \/ CommitReply \/ CommitRefused \/ UnexpectedOperation
           \/ Disconnect
  <2>1. ct' = Idle("accept")
    BY <1>5 DEF CommitWriteFails, CommitReply, CommitRefused, UnexpectedOperation,
                Disconnect
  <2> QED
    BY <2>1 DEF Idle
<1>6. CASE CommitRename \/ CommitRelease \/ CommitIndex
  BY <1>0, <1>6 DEF CommitRename, CommitRelease, CommitIndex, Goto
<1>7. CASE CommitReread
  <2>1. \/ ct' = [ct EXCEPT !.at = "commit_index", !.text = ReadFile(session.key[1])]
        \/ ct' = [ct EXCEPT !.at = "commit_reply"]
    BY <1>7 DEF CommitReread
  <2>2. ct'.at \in {"commit_index", "commit_reply"}
    BY <1>0, <2>1
  <2> QED
    BY <2>2
<1>8. ASSUME NEW c \in Client, NEW k \in Key, WriteStart(c, k) PROVE Goal
  BY <1>0, <1>8 DEF WriteStart, memory
<1>9. ASSUME NEW i \in 0 .. MaxWords, NEW w \in Insert, WriteUpdate(i, w) PROVE Goal
  BY <1>9 DEF WriteUpdate, SessionGrows, disk
<1>10. CASE WriteCommit
  <2>1. ct.at = "loop" /\ session.active
    BY <1>10 DEF WriteCommit
  <2>2. PICK t \in Reread(session.key[1]) :
          \/ /\ ~CommitOutOfBounds(t, session.key[2])
             /\ ct' = [ct EXCEPT !.at = "commit_write",
                                 !.text = CommitText(t, session.key[2], session.words)]
             /\ UNCHANGED <<disk, memory, nt, fd, lockVars>>
          \/ CommitOutOfBounds(t, session.key[2]) /\ Die
    BY <1>10 DEF WriteCommit
  <2> QED
    BY <1>1, <2>1, <2>2 DEF SessionCommits, disk, memory
<1>11. CASE Unindex \/ ClockTick \/ Cleanup \/ UNCHANGED vars
            \/ \E d \in Folder : CreateFolder(d)
  <2>1. UNCHANGED <<ct, session, undo, files>>
    BY <1>11 DEF Unindex, ClockTick, Cleanup, vars, CreateFolder, disk, memory
  <2> QED
    BY <2>1 DEF SessionWaits, FilesStep
<1>12. ASSUME NEW f \in Doc, Create(f) \/ Delete(f) PROVE Goal
  <2>1. UNCHANGED <<ct, session, undo>>
    BY <1>12 DEF Create, Delete, memory
  <2>2. FilesStep
    BY <1>12 DEF Create, Delete, FilesStep
  <2> QED
    BY <2>1, <2>2 DEF SessionWaits
<1>13. ASSUME NEW f \in Doc, NEW d \in Folder, Move(f, d) PROVE Goal
  <2>1. UNCHANGED <<ct, session, undo>>
    BY <1>13 DEF Move, memory
  <2>2. FilesStep
    BY <1>13 DEF Move, FilesStep
  <2> QED
    BY <2>1, <2>2 DEF SessionWaits
<1>14. CASE IndexRace
  BY <1>0, <1>1, <1>14, IndexRaceCases
<1>15. CASE Crash
  BY <1>1, <1>15 DEF Crash
<1>16. CASE \/ RewriteOpen \/ RewriteFails \/ RewriteData \/ CheckpointOpen \/ CheckpointData
            \/ \E f \in Doc : Undo(f)
            \/ \E f \in Doc, t \in Tag : Checkpoint(f, t) \/ Revert(f, t)
            \/ Boot
  <2>1. Apart
    BY <1>16, ApartSteps
  <2>2. ct.at \in Elsewhere \cup {"down"}
    BY <1>16 DEF RewriteOpen, RewriteFails, RewriteData, CheckpointOpen, CheckpointData,
                 Undo, Checkpoint, Revert, Boot, Elsewhere
  <2> QED
    BY <1>0, <2>1, <2>2 DEF Apart, Elsewhere
<1> HIDE DEF Goal
<1> QED
  BY <1>2, <1>3, <1>4, <1>5, <1>6, <1>7, <1>8, <1>9, <1>10, <1>11, <1>12, <1>13, <1>14,
     <1>15, <1>16 DEF Next, ClientStep, ClientRequest, NsStep

\* No file is longer than what read_file returns of it.
FilesFit == \A f \in Doc : Exists(f) => Len(files[f]) <= MaxContent

LEMMA ReadsWhole ==
  ASSUME DataTyped, FilesFit, NEW f \in Doc, Exists(f)
  PROVE  ReadFile(f) = files[f] /\ files[f] \in Text
<1>1. files[f] \in Text /\ Len(files[f]) <= MaxContent
  BY ServerAssumption DEF FilesFit, Exists, DataTyped, DiskTyped, Dirent
<1>2. ReadFile(f) = SubSeq(files[f], 1, Len(files[f]))
  BY <1>1 DEF ReadFile
<1> QED
  BY <1>1, <1>2, SubSeqFull DEF Text

LEMMA UndoHoldsStep ==
  ASSUME DataTyped, PartiesInv, ConnectionInv, FilesFit, UndoHoldsSessionText, [Next]_vars
  PROVE  UndoHoldsSessionText'
<1> SUFFICES ASSUME "stray" \notin Ops, session'.active, ct'.at \in InSession
             PROVE  LET f == session'.key[1] IN
                      /\ undo'[f] # NoFile
                      /\ files'[f] \in {undo'[f], <<>>, NoFile}
  BY DEF UndoHoldsSessionText, InSession
<1> DEFINE f == session.key[1]
<1>0. /\ session.key \in Key /\ f \in Doc /\ f \in Name /\ ct.key[1] \in Doc
      /\ files \in [Name -> Dirent] /\ undo \in [Doc -> Dirent]
      /\ session \in SessionSet /\ ct \in CtSet
  BY KeyTyped DEF DataTyped, DiskTyped, MemoryTyped, ThreadsTyped, SessionSet, CtSet
<1>1. \/ SessionStarts
      \/ session.active /\ (\/ SessionGrows \/ SessionCommits \/ SessionWrites \/ SessionWaits)
  BY SessionSteps DEF ConnectionInv
<1>2. CASE SessionStarts
  <2> DEFINE g == ct.key[1]
  <2>1. Exists(g)
    BY <1>2 DEF SessionStarts, StartAccepted
  <2>2. ReadFile(g) = files[g] /\ files[g] # NoFile
    BY <1>0, <2>1, ReadsWhole DEF Exists
  <2>3. session'.key[1] = g /\ undo'[g] = ReadFile(g) /\ files' = files
    BY <1>0, <1>2 DEF SessionStarts
  <2> QED
    BY <2>2, <2>3
<1>3. ASSUME session.active, ct.at \in InSession
      PROVE  undo[f] # NoFile /\ files[f] \in {undo[f], <<>>, NoFile}
  BY <1>3 DEF UndoHoldsSessionText, InSession
<1>4. CASE session.active /\ SessionGrows
  BY <1>0, <1>3, <1>4 DEF SessionGrows, SessionSet, InSession
<1>5. CASE session.active /\ SessionCommits
  BY <1>0, <1>3, <1>5 DEF SessionCommits, InSession
<1>6. CASE session.active /\ SessionWrites
  <2>1. TmpOf[f] # f
    BY <1>0, ServerAssumption
  <2> QED
    BY <1>0, <1>3, <1>6, <2>1 DEF SessionWrites, InSession
<1>7. CASE session.active /\ SessionWaits
  <2>1. files'[f] \in {files[f], <<>>, NoFile}
    BY <1>0, <1>7 DEF SessionWaits, FilesStep
  <2> QED
    BY <1>3, <1>7, <2>1 DEF SessionWaits
<1> QED
  BY <1>1, <1>2, <1>4, <1>5, <1>6, <1>7

\* As long as no file outgrows the buffer it is read into, UNDO holds the text that
\* the session started from until its commit is renamed, whatever the name server's
\* thread does (storage_server.c:418, 489, 1150-1209).
THEOREM UndoKeepsSessionText == Spec /\ []FilesFit => []UndoHoldsSessionText
<1>1. Init => UndoHoldsSessionText
  BY DEF Init, UndoHoldsSessionText, Idle, NoSession
<1>2. DataTyped /\ PartiesInv /\ ConnectionInv /\ FilesFit /\ UndoHoldsSessionText
        /\ [Next]_vars => UndoHoldsSessionText'
  BY UndoHoldsStep
<1> QED
  BY <1>1, <1>2, DataAlways, PartiesAlways, ConnectionAlways, PTL DEF Spec

-----------------------------------------------------------------------------
(* What the users remember                                                 *)

\* The history only watches.
LEMMA HistoryImplementsServer == HistorySpec => Spec
<1>1. HistoryInit => Init
  BY DEF HistoryInit
<1>2. [HistoryNext]_historyVars => [Next]_vars
  BY DEF HistoryNext, historyVars
<1> QED
  BY <1>1, <1>2, PTL DEF HistorySpec, Spec

\* Watch, case by case.
LEMMA WatchCases ==
  ASSUME Watch
  PROVE  LET f == session.key[1] IN
         \/ ct.at = "loop" /\ ct'.at = "commit_write" /\ Begins(f, ct'.text)
         \/ /\ ct.at = "commit_rename" /\ ct'.at = "commit_release"
            /\ before' = [before EXCEPT ![f] = files[f]] /\ UNCHANGED <<acked, pending>>
         \/ ct.at = "commit_reply" /\ ct'.at = "accept" /\ Answered(f, pending[f])
         \/ ct.at = "commit_write" /\ ct'.at = "accept" /\ Answered(f, acked[f])
         \/ ct.at = "rewrite_open" /\ ct'.at = "rewrite_data" /\ Begins(ct.key[1], ct.text)
         \/ /\ ct.at = "rewrite_data" /\ ct'.at = "accept"
            /\ IF Len(fd) = 1 THEN Answered(fd[1], ct.text) ELSE UNCHANGED history
         \/ /\ ct.at = "down" /\ ct'.at = "accept"
            /\ acked' = files /\ pending' = files /\ UNCHANGED before
         \/ nt.at = "accept" /\ ct'.at = ct.at /\ files' # files /\ NsAnswered
         \/ /\ ~(ct.at = "loop" /\ ct'.at = "commit_write")
            /\ ~(ct.at = "commit_rename" /\ ct'.at = "commit_release")
            /\ ~(ct.at = "commit_reply" /\ ct'.at = "accept")
            /\ ~(ct.at = "commit_write" /\ ct'.at = "accept")
            /\ ~(ct.at = "rewrite_open" /\ ct'.at = "rewrite_data")
            /\ ~(ct.at = "rewrite_data" /\ ct'.at = "accept")
            /\ ~(ct.at = "down" /\ ct'.at = "accept")
            /\ ~(nt.at = "accept" /\ ct'.at = ct.at /\ files' # files)
            /\ UNCHANGED history
<1> DEFINE g1 == ct.at = "loop" /\ ct'.at = "commit_write"
           g2 == ct.at = "commit_rename" /\ ct'.at = "commit_release"
           g3 == ct.at = "commit_reply" /\ ct'.at = "accept"
           g4 == ct.at = "commit_write" /\ ct'.at = "accept"
           g5 == ct.at = "rewrite_open" /\ ct'.at = "rewrite_data"
           g6 == ct.at = "rewrite_data" /\ ct'.at = "accept"
           g7 == ct.at = "down" /\ ct'.at = "accept"
           g8 == nt.at = "accept" /\ ct'.at = ct.at /\ files' # files
           f == session.key[1]
           a1 == Begins(f, ct'.text)
           a2 == before' = [before EXCEPT ![f] = files[f]] /\ UNCHANGED <<acked, pending>>
           a3 == Answered(f, pending[f])
           a4 == Answered(f, acked[f])
           a5 == Begins(ct.key[1], ct.text)
           a6 == IF Len(fd) = 1 THEN Answered(fd[1], ct.text) ELSE UNCHANGED history
           a7 == acked' = files /\ pending' = files /\ UNCHANGED before
           a8 == NsAnswered
           a9 == UNCHANGED history
<1>1. (CASE g1 -> a1 [] g2 -> a2 [] g3 -> a3 [] g4 -> a4 [] g5 -> a5 [] g6 -> a6
        [] g7 -> a7 [] g8 -> a8 [] OTHER -> a9)
  BY DEF Watch
<1> HIDE DEF g1, g2, g3, g4, g5, g6, g7, g8, a1, a2, a3, a4, a5, a6, a7, a8, a9
<1>2. \/ (g1 /\ a1) \/ (g2 /\ a2) \/ (g3 /\ a3) \/ (g4 /\ a4) \/ (g5 /\ a5)
      \/ (g6 /\ a6) \/ (g7 /\ a7) \/ (g8 /\ a8)
      \/ (~g1 /\ ~g2 /\ ~g3 /\ ~g4 /\ ~g5 /\ ~g6 /\ ~g7 /\ ~g8 /\ a9)
  BY <1>1
<1> QED
  BY <1>2 DEF g1, g2, g3, g4, g5, g6, g7, g8, a1, a2, a3, a4, a5, a6, a7, a8, a9

\* What the users remember is a text for every name.
HistoryTyped ==
  acked \in [Name -> Dirent] /\ pending \in [Name -> Dirent] /\ before \in [Name -> Dirent]

LEMMA HistoryTypedStep ==
  ASSUME DataTyped, DataTyped', HistoryTyped, [HistoryNext]_historyVars
  PROVE  HistoryTyped'
<1> USE DEF HistoryTyped
<1> DEFINE f == session.key[1]
           g == ct.key[1]
<1>0. /\ f \in Name /\ g \in Name /\ ct'.text \in Dirent /\ ct.text \in Dirent
      /\ files \in [Name -> Dirent] /\ files' \in [Name -> Dirent] /\ fd \in FdSet
      /\ \A h \in Doc : h \in Name
  BY KeyTyped, ServerAssumption
  DEF DataTyped, DiskTyped, MemoryTyped, ThreadsTyped, SessionSet, CtSet, Dirent
<1>1. ASSUME NEW h \in Name, NEW t \in Dirent, Begins(h, t) \/ Answered(h, t)
      PROVE  HistoryTyped'
  BY <1>1 DEF Begins, Answered
<1>2. ASSUME NsAnswered PROVE HistoryTyped'
  <2>1. /\ acked' = [h \in Name |-> IF files'[h] # files[h] THEN files'[h] ELSE acked[h]]
        /\ pending' = [h \in Name |-> IF files'[h] # files[h] /\ ~CommitDue(h)
                                      THEN files'[h] ELSE pending[h]]
        /\ UNCHANGED before
    BY <1>2 DEF NsAnswered
  <2> QED
    BY <1>0, <2>1
<1>3. ASSUME before' = [before EXCEPT ![f] = files[f]], UNCHANGED <<acked, pending>>
      PROVE  HistoryTyped'
  BY <1>0, <1>3
<1>4. ASSUME UNCHANGED history PROVE HistoryTyped'
  BY <1>4 DEF history
<1>5. Len(fd) = 1 => fd[1] \in Name
  <2>1. CASE fd = NoFd
    BY <2>1 DEF NoFd
  <2>2. CASE fd \in {<<h>> : h \in Doc}
    BY <1>0, <2>2
  <2>3. CASE fd \in Folder \X Doc
    BY <2>3
  <2> QED
    BY <1>0, <2>1, <2>2, <2>3 DEF FdSet
<1>6. ASSUME acked' = files, pending' = files, UNCHANGED before PROVE HistoryTyped'
  BY <1>0, <1>6
<1>7. pending[f] \in Dirent /\ acked[f] \in Dirent
  BY <1>0
<1>8. ASSUME Watch PROVE HistoryTyped'
  <2> HIDE DEF HistoryTyped, f, g
  <2> QED
    BY <1>0, <1>1, <1>2, <1>3, <1>4, <1>5, <1>6, <1>7, <1>8, WatchCases DEF f, g
<1>9. ASSUME UNCHANGED historyVars PROVE HistoryTyped'
  BY <1>4, <1>9 DEF historyVars
<1> QED
  BY <1>8, <1>9 DEF HistoryNext

LEMMA HistoryTypedAlways == HistorySpec => []HistoryTyped
<1>1. HistoryInit => HistoryTyped
  BY DEF HistoryInit, Init, HistoryTyped, Dirent
<1>2. DataTyped /\ DataTyped' /\ HistoryTyped /\ [HistoryNext]_historyVars => HistoryTyped'
  BY HistoryTypedStep
<1> QED
  BY <1>1, <1>2, HistoryImplementsServer, DataAlways, PTL DEF HistorySpec

-----------------------------------------------------------------------------
(* The files, step by step                                                 *)

\* The labels of the client thread outside a commit, and after the rename of one.
Quiet == {"accept", "start_lock", "start_read", "loop", "ckpt_open", "ckpt_data"}
Renamed == {"commit_release", "commit_reread", "commit_index", "commit_reply"}
RewriteLabels == {"rewrite_open", "rewrite_data"}

\* A step of the client thread from one of the labels A to one of B.
Moves(A, B) == ct.at \in A /\ ct'.at \in B

Stays == /\ UNCHANGED <<ct, session, undo>>
         /\ FilesStep
         /\ files' # files => nt.at = "accept" /\ ct.at # "down"
Quietly ==
  /\ Moves(Quiet, Quiet) /\ UNCHANGED <<files, undo>>
  /\ (ct.at = "loop" /\ session.active /\ Ops \cap {"stray", "cancel"} = {}) =>
       UNCHANGED ct /\ session'.active /\ session'.key = session.key
Computes ==
  /\ ct.at = "loop" /\ \E t : ct' = [ct EXCEPT !.at = "commit_write", !.text = t]
  /\ UNCHANGED <<session, files, undo>>
Finishes ==
  /\ \/ Moves(Renamed, Renamed \ {"commit_release"}) /\ UNCHANGED session
     \/ Moves({"commit_reply"}, {"accept"})
     \/ Moves({"commit_write"}, {"accept"}) /\ "iofault" \in Ops
  /\ UNCHANGED <<files, undo>>
Falls ==
  /\ \/ ct'.at = "down" /\ undo' = [g \in Doc |-> NoFile]
     \/ Moves({"down"}, {"accept"}) /\ UNCHANGED undo
  /\ UNCHANGED files
Rewrites ==
  /\ Moves({"accept"} \cup RewriteLabels, {"accept"} \cup RewriteLabels)
  /\ Ops \cap {"undo", "revert"} # {} \/ ct.at \in RewriteLabels
  /\ UNCHANGED undo \/ \E g \in Doc : undo' = [undo EXCEPT ![g] = NoFile]

\* These are the steps that the files, the texts for UNDO and the history can see.
LEMMA FileSteps ==
  ASSUME PartiesInv, ConnectionInv, [Next]_vars
  PROVE  \/ Stays \/ SessionStarts \/ Quietly \/ Computes \/ CommitWrite \/ CommitRename
         \/ Finishes \/ Falls \/ Rewrites
<1> DEFINE Goal == \/ Stays \/ SessionStarts \/ Quietly \/ Computes \/ CommitWrite
                   \/ CommitRename \/ Finishes \/ Falls \/ Rewrites
<1> SUFFICES Goal
  OBVIOUS
<1>0. DOMAIN ct = {"at", "key", "client", "tag", "text", "told"}
  BY DEF PartiesInv, Shape
<1>1. ASSUME Die PROVE Goal
  BY <1>1, DieIsDead DEF Dead, Falls, Die, disk
<1>2. CASE StartLock
  BY <1>0, <1>2 DEF StartLock, Goto, disk, memory, Quietly, Moves, Quiet
<1>3. CASE StartRead
  <2>1. ct.at = "start_read" /\ ct'.at = "loop" /\ UNCHANGED files
    BY <1>0, <1>3 DEF StartRead, disk
  <2>2. CASE StartAccepted
    BY <1>3, <2>1, <2>2 DEF StartRead, SessionStarts
  <2>3. CASE ~StartAccepted
    <3>1. UNCHANGED undo
      BY <1>3, <2>3 DEF StartRead
    <3> QED
      BY <2>1, <3>1 DEF Quietly, Moves, Quiet
  <2> QED
    BY <2>2, <2>3
<1>4. CASE CommitWriteFails
  BY <1>4 DEF CommitWriteFails, disk, Idle, Finishes, Moves
<1>5. CASE CommitRelease \/ CommitIndex
  BY <1>0, <1>5 DEF CommitRelease, CommitIndex, Goto, disk, memory, Finishes, Moves, Renamed
<1>6. CASE CommitReread
  <2>1. \/ ct' = [ct EXCEPT !.at = "commit_index", !.text = ReadFile(session.key[1])]
        \/ ct' = [ct EXCEPT !.at = "commit_reply"]
    BY <1>6 DEF CommitReread
  <2>2. ct'.at \in {"commit_index", "commit_reply"}
    BY <1>0, <2>1
  <2>3. ct.at = "commit_reread" /\ UNCHANGED <<files, session, undo>>
    BY <1>6 DEF CommitReread, disk, memory
  <2> QED
    BY <2>2, <2>3 DEF Finishes, Moves, Renamed
<1>7. CASE CommitReply
  BY <1>7 DEF CommitReply, disk, Idle, Finishes, Moves
<1>8. CASE CommitRefused \/ Disconnect \/ UnexpectedOperation
  <2>1. ct.at = "loop" /\ ct' = Idle("accept") /\ UNCHANGED <<files, undo>>
    BY <1>8 DEF CommitRefused, Disconnect, UnexpectedOperation, disk, memory
  <2>2. ~session.active \/ Ops \cap {"stray", "cancel"} # {}
    BY <1>8 DEF CommitRefused, Disconnect, UnexpectedOperation, ConnectionInv, TheConnections
  <2> QED
    BY <2>1, <2>2 DEF Idle, Quietly, Moves, Quiet
<1>9. ASSUME NEW c \in Client, NEW k \in Key, WriteStart(c, k) PROVE Goal
  <2>1. DOMAIN Idle("start_lock") = {"at", "key", "client", "tag", "text", "told"}
    BY DEF Idle
  <2>2. ct'.at \in Quiet
    BY <1>9, <2>1 DEF WriteStart, Quiet
  <2>3. ct.at = "accept" /\ UNCHANGED <<files, undo>>
    BY <1>9 DEF WriteStart, disk, memory
  <2> QED
    BY <2>2, <2>3 DEF Quietly, Moves, Quiet
<1>10. ASSUME NEW i \in 0 .. MaxWords, NEW w \in Insert, WriteUpdate(i, w) PROVE Goal
  <2>1. ct.at = "loop" /\ UNCHANGED <<ct, files, undo>>
    BY <1>10 DEF WriteUpdate, disk
  <2>2. session' = [session EXCEPT !.words = InsertAt(@, i + 1, w)]
    BY <1>10 DEF WriteUpdate
  <2>3. session'.active = session.active /\ session'.key = session.key
    BY <2>2 DEF PartiesInv, Shape
  <2> QED
    BY <2>1, <2>3 DEF Quietly, Moves, Quiet
<1>11. CASE WriteCommit
  <2>1. ct.at = "loop" /\ session.active
    BY <1>11 DEF WriteCommit
  <2>2. PICK t \in Reread(session.key[1]) :
          \/ /\ ~CommitOutOfBounds(t, session.key[2])
             /\ ct' = [ct EXCEPT !.at = "commit_write",
                                 !.text = CommitText(t, session.key[2], session.words)]
             /\ UNCHANGED <<disk, memory, nt, fd, lockVars>>
          \/ CommitOutOfBounds(t, session.key[2]) /\ Die
    BY <1>11 DEF WriteCommit
  <2> QED
    BY <1>1, <2>1, <2>2 DEF Computes, disk, memory
<1>12. CASE Unindex \/ ClockTick \/ Cleanup \/ UNCHANGED vars
            \/ \E d \in Folder : CreateFolder(d)
  <2>1. UNCHANGED <<ct, session, undo, files>>
    BY <1>12 DEF Unindex, ClockTick, Cleanup, vars, CreateFolder, disk, memory
  <2> QED
    BY <2>1 DEF Stays, FilesStep
<1>13. ASSUME NEW f \in Doc, Create(f) \/ Delete(f) PROVE Goal
  <2>1. UNCHANGED <<ct, session, undo>> /\ NsReady
    BY <1>13 DEF Create, Delete, memory
  <2>2. FilesStep
    BY <1>13 DEF Create, Delete, FilesStep
  <2> QED
    BY <2>1, <2>2 DEF Stays, NsReady, Up
<1>14. ASSUME NEW f \in Doc, NEW d \in Folder, Move(f, d) PROVE Goal
  <2>1. UNCHANGED <<ct, session, undo>> /\ NsReady
    BY <1>14 DEF Move, memory
  <2>2. FilesStep
    BY <1>14 DEF Move, FilesStep
  <2> QED
    BY <2>1, <2>2 DEF Stays, NsReady, Up
<1>15. CASE IndexRace
  <2>1. CASE Die
    BY <1>1, <2>1
  <2>2. CASE ct.at = "commit_index" /\ Goto("commit_reply")
             /\ UNCHANGED <<disk, undo, session, fd, lockVars>>
    BY <1>0, <2>2 DEF Goto, disk, Finishes, Moves, Renamed
  <2> QED
    BY <1>15, <2>1, <2>2 DEF IndexRace
<1>16. CASE Crash
  BY <1>1, <1>16 DEF Crash
<1>17. CASE Boot
  BY <1>17 DEF Boot, Idle, Falls, Moves
<1>18. CASE RewriteOpen \/ RewriteFails \/ RewriteData
  <2>1. ct.at \in RewriteLabels /\ UNCHANGED undo
    BY <1>18 DEF RewriteOpen, RewriteFails, RewriteData, RewriteLabels, memory
  <2>2. ct'.at \in {"accept"} \cup RewriteLabels
    BY <1>0, <1>18 DEF RewriteOpen, RewriteFails, RewriteData, RewriteLabels, Goto, Idle
  <2> QED
    BY <2>1, <2>2 DEF Rewrites, Moves
<1>19. ASSUME NEW f \in Doc, Undo(f) \/ \E t \in Tag : Revert(f, t) PROVE Goal
  <2>1. /\ ct.at = "accept" /\ Ops \cap {"undo", "revert"} # {}
        /\ UNCHANGED undo \/ undo' = [undo EXCEPT ![f] = NoFile]
    BY <1>19 DEF Undo, Revert, memory
  <2>2. ct'.at \in RewriteLabels
    <3>1. DOMAIN Idle("rewrite_open") = {"at", "key", "client", "tag", "text", "told"}
          /\ Idle("rewrite_open").at = "rewrite_open"
      BY DEF Idle
    <3> QED
      BY <1>19, <3>1 DEF Undo, Revert, RewriteLabels
  <2> QED
    BY <2>1, <2>2 DEF Rewrites, Moves
<1>20. ASSUME NEW f \in Doc, NEW t \in Tag, Checkpoint(f, t) PROVE Goal
  <2>1. ct.at = "accept" /\ ct'.at = "ckpt_open" /\ UNCHANGED <<files, undo>>
    BY <1>20 DEF Checkpoint, Idle, disk, memory
  <2> QED
    BY <2>1 DEF Quietly, Moves, Quiet
<1>21. CASE CheckpointOpen
  <2>1. ASSUME ct' = [ct EXCEPT !.at = "ckpt_data", !.text = files[ct.key[1]]]
        PROVE  ct'.at = "ckpt_data"
    BY <1>0, <2>1
  <2>2. ASSUME ct' = Idle("accept") PROVE ct'.at = "accept"
    BY <2>2 DEF Idle
  <2>3. ct.at = "ckpt_open" /\ ct'.at \in {"ckpt_data", "accept"}
    BY <1>21, <2>1, <2>2, CheckpointOpenCases
  <2>4. UNCHANGED <<files, undo>>
    BY <1>21 DEF CheckpointOpen, memory
  <2> QED
    BY <2>3, <2>4 DEF Quietly, Moves, Quiet
<1>22. CASE CheckpointData
  <2>1. ct.at = "ckpt_data" /\ ct' = Idle("accept") /\ UNCHANGED <<files, undo>>
    BY <1>22 DEF CheckpointData, memory
  <2> QED
    BY <2>1 DEF Idle, Quietly, Moves, Quiet
<1>23. CASE CommitWrite \/ CommitRename
  BY <1>23
<1> HIDE DEF Goal
<1> QED
  BY <1>2, <1>3, <1>4, <1>5, <1>6, <1>7, <1>8, <1>9, <1>10, <1>11, <1>12, <1>13, <1>14,
     <1>15, <1>16, <1>17, <1>18, <1>19, <1>20, <1>21, <1>22, <1>23
  DEF Next, ClientStep, ClientRequest, NsStep

-----------------------------------------------------------------------------
(* What survives                                                           *)

\* Without UNDO and REVERT a document is what the last answer said, except between
\* the rename of a commit and its answer, where it is what the answer will say.
DocsInv ==
  /\ ct.at \notin RewriteLabels
  /\ ct.at = "down" => \A g \in Doc : files[g] \in {acked[g], pending[g]}
  /\ ct.at # "down" =>
       \A g \in Doc : files[g] = IF ct.at \in Renamed /\ g = session.key[1]
                                 THEN pending[g] ELSE acked[g]
  /\ ct.at \in {"commit_write", "commit_rename"} => pending[session.key[1]] = ct.text
  /\ ct.at = "commit_rename" => files[TmpOf[session.key[1]]] = ct.text

\* The temporary files are none of the documents.
TmpApart == \A f \in Doc : TmpOf[f] \notin Doc

LEMMA DocsInvStep ==
  ASSUME Ops \cap {"undo", "revert"} = {}, TmpApart, DataTyped, DataTyped', HistoryTyped,
         PartiesInv, ConnectionInv, DocsInv, [HistoryNext]_historyVars
  PROVE  DocsInv'
<1> DEFINE f == session.key[1]
<1>0. /\ f \in Doc /\ f \in Name /\ TmpOf[f] \in Name /\ TmpOf[f] \notin Doc
      /\ \A g \in Doc : g \in Name
      /\ files \in [Name -> Dirent] /\ ct \in CtSet /\ ct' \in CtSet
      /\ ct.text \in Text /\ ct.text # NoFile
      /\ acked \in [Name -> Dirent] /\ pending \in [Name -> Dirent]
  BY KeyTyped, ServerAssumption
  DEF DataTyped, DiskTyped, MemoryTyped, ThreadsTyped, SessionSet, CtSet, HistoryTyped,
      TmpApart
<1>1. CASE UNCHANGED historyVars
  BY <1>1 DEF historyVars, vars, disk, memory, history, DocsInv
<1>2. CASE HistoryNext
  <2>1. Watch /\ [Next]_vars
    BY <1>2 DEF HistoryNext
  <2>2. CASE Stays
    <3>1. UNCHANGED <<ct, session>> /\ FilesStep
      BY <2>2 DEF Stays
    <3>2. CASE files' = files
      <4>1. UNCHANGED history
        BY <2>1, <3>1, <3>2, WatchCases
      <4> QED
        BY <3>1, <3>2, <4>1 DEF DocsInv, history
    <3>3. CASE files' # files
      <4>1. nt.at = "accept" /\ ct.at # "down"
        BY <2>2, <3>3 DEF Stays
      <4>2. NsAnswered
        BY <2>1, <3>1, <3>3, <4>1, WatchCases
      <4>3. \A g \in Doc : g \in Name => 
              /\ acked'[g] = IF files'[g] # files[g] THEN files'[g] ELSE acked[g]
              /\ pending'[g] = IF files'[g] # files[g] /\ ~CommitDue(g)
                               THEN files'[g] ELSE pending[g]
        BY <4>2 DEF NsAnswered
      <4>4. \A g \in Name \ Doc : files'[g] = files[g]
        BY <1>0, <3>1 DEF FilesStep
      <4>5. ct.at \in {"commit_write", "commit_rename"} => pending'[f] = pending[f]
        BY <1>0, <4>3 DEF CommitDue
      <4>6. \A g \in Doc : files'[g] = IF ct.at \in Renamed /\ g = f
                                       THEN pending'[g] ELSE acked'[g]
        BY <1>0, <4>1, <4>3 DEF DocsInv, CommitDue, Renamed
      <4> QED
        BY <1>0, <3>1, <4>1, <4>4, <4>5, <4>6 DEF DocsInv
    <3> QED
      BY <3>2, <3>3
  <2>3. CASE Quietly
    <3>1. UNCHANGED files /\ ct.at \in Quiet /\ ct'.at \in Quiet
      BY <2>3 DEF Quietly, Moves
    <3>2. UNCHANGED history
      BY <2>1, <3>1, WatchCases DEF Quiet
    <3> QED
      BY <3>1, <3>2 DEF DocsInv, Quiet, Renamed, RewriteLabels, history
  <2>4. CASE Computes
    <3>1. PICK t : ct' = [ct EXCEPT !.at = "commit_write", !.text = t]
      BY <2>4 DEF Computes
    <3>2. ct.at = "loop" /\ UNCHANGED <<session, files>>
      BY <2>4 DEF Computes
    <3>3. ct'.at = "commit_write" /\ ct'.text = t
      BY <1>0, <3>1 DEF CtSet
    <3>4. Begins(f, t)
      BY <2>1, <3>2, <3>3, WatchCases
    <3>5. pending'[f] = t /\ UNCHANGED acked
      BY <1>0, <3>4 DEF Begins
    <3> QED
      BY <3>2, <3>3, <3>5 DEF DocsInv, Renamed, RewriteLabels
  <2>5. CASE CommitWrite
    <3>1. /\ ct.at = "commit_write" /\ ct'.at = "commit_rename" /\ ct'.text = ct.text
          /\ files' = [files EXCEPT ![TmpOf[f]] = ct.text]
          /\ UNCHANGED session
      BY <1>0, <2>5 DEF CommitWrite, Goto, CtSet, memory
    <3>2. UNCHANGED history
      BY <2>1, <3>1, WatchCases
    <3>3. files'[TmpOf[f]] = ct.text /\ \A g \in Doc : files'[g] = files[g]
      BY <1>0, <3>1
    <3> QED
      BY <3>1, <3>2, <3>3 DEF DocsInv, Renamed, RewriteLabels, history
  <2>6. CASE CommitRename
    <3>1. /\ ct.at = "commit_rename" /\ ct'.at = "commit_release"
          /\ files' = IF Exists(TmpOf[f])
                      THEN [files EXCEPT ![f] = files[TmpOf[f]], ![TmpOf[f]] = NoFile]
                      ELSE files
          /\ UNCHANGED session
      BY <1>0, <2>6 DEF CommitRename, Goto, CtSet, memory
    <3>2. UNCHANGED <<acked, pending>>
      BY <2>1, <3>1, WatchCases
    <3>3. files[TmpOf[f]] = ct.text /\ Exists(TmpOf[f])
      BY <1>0, <3>1 DEF DocsInv, Exists
    <3>4. files'[f] = ct.text /\ \A g \in Doc \ {f} : files'[g] = files[g]
      BY <1>0, <3>1, <3>3
    <3> QED
      BY <3>1, <3>2, <3>4 DEF DocsInv, Renamed, RewriteLabels
  <2>7. CASE Finishes
    <3>1. UNCHANGED files
      BY <2>7 DEF Finishes
    <3>2. CASE Moves(Renamed, Renamed \ {"commit_release"}) /\ UNCHANGED session
      <4>1. UNCHANGED history
        BY <2>1, <3>1, <3>2, WatchCases DEF Moves, Renamed
      <4> QED
        BY <3>1, <3>2, <4>1 DEF DocsInv, Moves, Renamed, RewriteLabels, history
    <3>3. CASE Moves({"commit_reply"}, {"accept"})
      <4>1. ct.at = "commit_reply" /\ ct'.at = "accept"
        BY <3>3 DEF Moves
      <4>2. Answered(f, pending[f])
        BY <2>1, <4>1, WatchCases
      <4>3. acked'[f] = pending[f] /\ \A g \in Doc \ {f} : acked'[g] = acked[g]
        BY <1>0, <4>2 DEF Answered
      <4> QED
        BY <3>1, <4>1, <4>3 DEF DocsInv, Renamed, RewriteLabels
    <3>4. CASE Moves({"commit_write"}, {"accept"})
      <4>1. ct.at = "commit_write" /\ ct'.at = "accept"
        BY <3>4 DEF Moves
      <4>2. Answered(f, acked[f])
        BY <2>1, <4>1, WatchCases
      <4>3. acked' = acked
        BY <1>0, <4>2 DEF Answered
      <4> QED
        BY <3>1, <4>1, <4>3 DEF DocsInv, Renamed, RewriteLabels
    <3> QED
      BY <2>7, <3>2, <3>3, <3>4 DEF Finishes
  <2>8. CASE Falls
    <3>1. UNCHANGED files
      BY <2>8 DEF Falls
    <3>2. CASE ct'.at = "down"
      <4>1. UNCHANGED <<acked, pending>>
        <5>1. CASE ct.at = "down" /\ files' # files
          BY <3>1, <5>1
        <5> QED
          BY <2>1, <3>1, <3>2, WatchCases DEF history
      <4> QED
        BY <3>1, <3>2, <4>1 DEF DocsInv, RewriteLabels
    <3>3. CASE Moves({"down"}, {"accept"})
      <4>1. ct.at = "down" /\ ct'.at = "accept"
        BY <3>3 DEF Moves
      <4>2. acked' = files
        BY <2>1, <4>1, WatchCases
      <4> QED
        BY <3>1, <4>1, <4>2 DEF DocsInv, Renamed, RewriteLabels
    <3> QED
      BY <2>8, <3>2, <3>3 DEF Falls
  <2>9. ~Rewrites
    BY DEF Rewrites, DocsInv
  <2>10. CASE SessionStarts
    <3>1. UNCHANGED files /\ ct.at \in Quiet /\ ct'.at \in Quiet
      BY <2>10 DEF SessionStarts, Quiet
    <3>2. UNCHANGED history
      BY <2>1, <3>1, WatchCases DEF Quiet
    <3> QED
      BY <3>1, <3>2 DEF DocsInv, Quiet, Renamed, RewriteLabels, history
  <2> QED
    BY <2>1, <2>2, <2>3, <2>4, <2>5, <2>6, <2>7, <2>8, <2>9, <2>10, FileSteps
<1> QED
  BY <1>1, <1>2

\* Whatever happens to the process, to the disk of a commit and in the name server's
\* thread, a document is what the last acknowledged request made it or what a commit
\* cut short was making of it, as long as nobody uses UNDO or REVERT and nobody names
\* a document like the temporary file of another (storage_server.c:576-598).
THEOREM CommitsSurvive ==
  ASSUME Ops \cap {"undo", "revert"} = {}, TmpApart
  PROVE  HistorySpec => []DocumentsSurvive
<1>1. HistoryInit => DocsInv
  BY DEF HistoryInit, Init, Idle, DocsInv, RewriteLabels
<1>2. DataTyped /\ DataTyped' /\ HistoryTyped /\ PartiesInv
        /\ ConnectionInv /\ DocsInv /\ [HistoryNext]_historyVars => DocsInv'
  BY DocsInvStep
<1>3. DocsInv => DocumentsSurvive
  BY DEF DocsInv, DocumentsSurvive, Renamed
<1> QED
  BY <1>1, <1>2, <1>3, HistoryImplementsServer, HistoryTypedAlways, DataAlways,
     PartiesAlways, ConnectionAlways, PTL DEF HistorySpec

-----------------------------------------------------------------------------
(* What an edit changes                                                    *)

\* The file of a session, from WRITE_START until the rename of its commit, when the
\* name server takes no file away.
EditInv ==
  session.active /\ ct.at \in InSession =>
    LET f == session.key[1]
        n == session.key[2]
    IN /\ Exists(f) /\ undo[f] = files[f]
       /\ n <= Len(ParseSentences(files[f]))
       /\ ct.at # "loop" => ct.text = CommitText(files[f], n, session.words)
       /\ ct.at = "commit_rename" => files[TmpOf[f]] = ct.text

\* What is there is left alone.
LEMMA FilesStay ==
  ASSUME Ops \cap {"delete", "move"} = {}, DataTyped, FilesStep, NEW g \in Name, Exists(g)
  PROVE  files'[g] = files[g]
  BY DEF FilesStep, DataTyped, DiskTyped, Exists

LEMMA EditInvStep ==
  ASSUME Ops \cap {"stray", "delete", "move"} = {}, FilesFit, DataTyped, PartiesInv,
         ConnectionInv, EditInv, [Next]_vars
  PROVE  EditInv'
<1> DEFINE f == session.key[1]
           n == session.key[2]
<1> SUFFICES ASSUME session'.active, ct'.at \in InSession PROVE EditInv'
  BY DEF EditInv
<1>0. /\ session.key \in Key /\ f \in Doc /\ f \in Name /\ ct.key[1] \in Doc
      /\ TmpOf[f] \in Name /\ TmpOf[f] # f
      /\ files \in [Name -> Dirent] /\ undo \in [Doc -> Dirent]
      /\ session \in SessionSet /\ ct \in CtSet /\ ct.text \in Text /\ ct.text # NoFile
  BY KeyTyped, ServerAssumption
  DEF DataTyped, DiskTyped, MemoryTyped, ThreadsTyped, SessionSet, CtSet
<1>1. \/ SessionStarts
      \/ session.active /\ (\/ SessionGrows \/ SessionCommits \/ SessionWrites \/ SessionWaits)
  BY SessionSteps DEF ConnectionInv
<1>2. CASE SessionStarts
  <2> DEFINE g == ct.key[1]
  <2>1. Exists(g) /\ ct.key[2] <= Len(ParseSentences(ReadFile(g)))
    BY <1>2 DEF SessionStarts, StartAccepted
  <2>2. ReadFile(g) = files[g]
    BY <1>0, <2>1, ReadsWhole
  <2>3. /\ session'.key = ct.key /\ undo'[g] = ReadFile(g) /\ files' = files
        /\ ct'.at = "loop"
    BY <1>0, <1>2 DEF SessionStarts
  <2> QED
    BY <2>1, <2>2, <2>3 DEF EditInv, Exists
<1>3. ASSUME session.active, ct.at \in InSession
      PROVE  /\ Exists(f) /\ undo[f] = files[f]
             /\ n <= Len(ParseSentences(files[f]))
             /\ ct.at # "loop" => ct.text = CommitText(files[f], n, session.words)
             /\ ct.at = "commit_rename" => files[TmpOf[f]] = ct.text
  BY <1>3 DEF EditInv
<1>4. CASE session.active /\ SessionGrows
  <2>1. /\ ct.at = "loop" /\ UNCHANGED <<ct, undo, files>>
        /\ session'.key = session.key
    BY <1>0, <1>4 DEF SessionGrows, SessionSet
  <2> QED
    BY <1>3, <1>4, <2>1 DEF EditInv, Exists, InSession
<1>5. CASE session.active /\ SessionCommits
  <2>1. ct.at = "loop" /\ UNCHANGED <<session, undo, files>>
    BY <1>5 DEF SessionCommits
  <2>2. Exists(f) /\ ReadFile(f) = files[f]
    BY <1>0, <1>3, <1>5, <2>1, ReadsWhole DEF InSession
  <2>3. ct' = [ct EXCEPT !.at = "commit_write",
                         !.text = CommitText(files[f], n, session.words)]
    BY <1>5, <2>2 DEF SessionCommits, Reread
  <2>4. ct'.at = "commit_write" /\ ct'.text = CommitText(files[f], n, session.words)
    BY <1>0, <2>3 DEF CtSet
  <2> QED
    BY <1>3, <1>5, <2>1, <2>4 DEF EditInv, Exists, InSession
<1>6. CASE session.active /\ SessionWrites
  <2>1. /\ ct.at = "commit_write" /\ ct'.at = "commit_rename" /\ ct'.text = ct.text
        /\ UNCHANGED <<session, undo>>
        /\ files'[TmpOf[f]] = ct.text /\ files'[f] = files[f]
    BY <1>0, <1>6 DEF SessionWrites, CtSet
  <2> QED
    BY <1>3, <1>6, <2>1 DEF EditInv, Exists, InSession
<1>7. CASE session.active /\ SessionWaits
  <2>1. UNCHANGED <<ct, session, undo>> /\ FilesStep
    BY <1>7 DEF SessionWaits
  <2>2. files'[f] = files[f]
    BY <1>0, <1>3, <1>7, <2>1, FilesStay
  <2>3. ct.at = "commit_rename" => files'[TmpOf[f]] = files[TmpOf[f]]
    BY <1>0, <1>3, <1>7, <2>1, FilesStay DEF Exists, InSession
  <2> QED
    BY <1>3, <1>7, <2>1, <2>2, <2>3 DEF EditInv, Exists
<1> QED
  BY <1>1, <1>2, <1>4, <1>5, <1>6, <1>7

LEMMA EditInvAlways ==
  ASSUME Ops \cap {"stray", "delete", "move"} = {}
  PROVE  Spec /\ []FilesFit => []EditInv
<1>1. Init => EditInv
  BY DEF Init, EditInv, Idle, NoSession
<1>2. FilesFit /\ DataTyped /\ PartiesInv /\ ConnectionInv /\ EditInv /\ [Next]_vars
        => EditInv'
  BY EditInvStep
<1> QED
  BY <1>1, <1>2, DataAlways, PartiesAlways, ConnectionAlways, PTL DEF Spec

\* The rename of a commit puts the spliced text in the place of the old one.
LEMMA RenameSplices ==
  ASSUME DataTyped, PartiesInv, EditInv, CommitRename
  PROVE  LET f == session.key[1] IN
         /\ UNCHANGED <<session, undo>>
         /\ ct.at = "commit_rename" /\ ct'.at = "commit_release"
         /\ undo[f] = files[f]
         /\ files'[f] = Splice(files[f], session.key[2], session.words)
         /\ files'[f] # NoFile
<1> DEFINE f == session.key[1]
           n == session.key[2]
           t == files[f]
           ws == session.words
<1>0. /\ f \in Doc /\ f \in Name /\ TmpOf[f] \in Name /\ TmpOf[f] # f /\ n \in Nat
      /\ files \in [Name -> Dirent] /\ ct \in CtSet
      /\ ws \in Seq(Text) /\ ct.text \in Text /\ ct.text # NoFile
  BY KeyTyped, ServerAssumption
  DEF DataTyped, DiskTyped, MemoryTyped, ThreadsTyped, SessionSet, CtSet
<1>1. /\ ct.at = "commit_rename" /\ ct'.at = "commit_release" /\ UNCHANGED <<session, undo>>
      /\ files' = IF Exists(TmpOf[f])
                  THEN [files EXCEPT ![f] = files[TmpOf[f]], ![TmpOf[f]] = NoFile]
                  ELSE files
  BY <1>0 DEF CommitRename, Goto, CtSet, memory
<1>2. /\ t # NoFile /\ undo[f] = t /\ n <= Len(ParseSentences(t))
      /\ ct.text = CommitText(t, n, ws) /\ files[TmpOf[f]] = ct.text
  BY <1>1 DEF EditInv, Exists, InSession, PartiesInv, KnownParties, CommitLabels
<1>3. files'[f] = ct.text
  BY <1>0, <1>1, <1>2 DEF Exists
<1>4. t \in Text
  BY <1>0, <1>2 DEF Dirent
<1>5. CommitText(t, n, ws) = Splice(t, n, ws)
  <2> HIDE DEF t, n, ws
  <2>1. Len(ParseSentences(t)) \in Nat
    BY <1>4, Sentences, LenProperties
  <2>2. n \in 0 .. Len(ParseSentences(t))
    BY <1>0, <1>2, <2>1
  <2> QED
    BY <1>0, <1>4, <2>2, CommitReplacesSentence
<1> QED
  BY <1>0, <1>1, <1>2, <1>3, <1>5

\* Only the rename of a commit changes what was there before the last edit.
LEMMA BeforeChanges ==
  ASSUME Watch
  PROVE  \/ UNCHANGED before
         \/ /\ ct.at = "commit_rename" /\ ct'.at = "commit_release"
            /\ before' = [before EXCEPT ![session.key[1]] = files[session.key[1]]]
<1>1. CASE Len(fd) = 1
  BY <1>1, WatchCases DEF Begins, Answered, NsAnswered, history
<1>2. CASE Len(fd) # 1
  BY <1>2, WatchCases DEF Begins, Answered, NsAnswered, history
<1> QED
  BY <1>1, <1>2

\* The text that a commit has just put in place is the one before it, spliced.
EditedInv ==
  ct.at = "commit_release" =>
    LET f == session.key[1] IN
      /\ files[f] # NoFile
      /\ files[f] = Splice(before[f], session.key[2], session.words)

\* No other step gets a commit to where its lock is released.
LEMMA NotReleased ==
  ASSUME DataTyped, ct'.at = "commit_release"
  PROVE  ~(\/ SessionStarts \/ Quietly \/ Computes \/ CommitWrite \/ Finishes \/ Falls
           \/ Rewrites)
<1>1. ct \in CtSet
  BY DEF DataTyped, ThreadsTyped
<1>2. ~Computes
  BY <1>1 DEF Computes, CtSet
<1>3. ~CommitWrite
  BY <1>1 DEF CommitWrite, Goto, CtSet
<1>4. ~SessionStarts /\ ~Quietly /\ ~Finishes /\ ~Falls /\ ~Rewrites
  BY DEF SessionStarts, Quietly, Finishes, Falls, Rewrites, Moves, Quiet, Renamed,
         RewriteLabels
<1> QED
  BY <1>2, <1>3, <1>4

LEMMA EditedStep ==
  ASSUME Ops \cap {"stray", "delete", "move"} = {}, DataTyped, HistoryTyped, PartiesInv,
         ConnectionInv, EditInv, EditedInv, [HistoryNext]_historyVars
  PROVE  EditedInv'
<1> DEFINE f == session.key[1]
<1> SUFFICES ASSUME ct'.at = "commit_release" PROVE EditedInv'
  BY DEF EditedInv
<1>0. f \in Name /\ DOMAIN before = Name
  BY KeyTyped DEF DataTyped, MemoryTyped, SessionSet, HistoryTyped
<1>1. CASE UNCHANGED historyVars
  BY <1>1 DEF historyVars, vars, disk, memory, history, EditedInv
<1>2. CASE HistoryNext
  <2>1. Watch /\ [Next]_vars
    BY <1>2 DEF HistoryNext
  <2>2. CASE CommitRename
    <3>1. /\ ct.at = "commit_rename" /\ UNCHANGED session /\ files'[f] # NoFile
          /\ files'[f] = Splice(files[f], session.key[2], session.words)
      BY <2>2, RenameSplices
    <3>2. before' = [before EXCEPT ![f] = files[f]]
      BY <2>1, <3>1, WatchCases
    <3>3. before'[f] = files[f]
      BY <1>0, <3>2
    <3> QED
      BY <3>1, <3>3 DEF EditedInv
  <2>3. CASE Stays
    <3>1. UNCHANGED <<ct, session>> /\ FilesStep
      BY <2>3 DEF Stays
    <3>2. UNCHANGED before
      BY <2>1, <3>1, BeforeChanges
    <3>3. files'[f] = files[f]
      BY <1>0, <3>1, FilesStay DEF EditedInv, Exists
    <3> QED
      BY <3>1, <3>2, <3>3 DEF EditedInv
  <2> QED
    BY <2>1, <2>2, <2>3, FileSteps, NotReleased
<1> QED
  BY <1>1, <1>2

\* An edit leaves the rest of the file as it was: what a commit puts in place is the
\* text before it with the locked sentence replaced, for every text, sentence and
\* words (storage_server.c:489-598, README.md:28), as long as files fit the buffer they
\* are read into and nobody deletes, moves or misuses the session meanwhile.
THEOREM EditsKeepOtherSentences ==
  ASSUME Ops \cap {"stray", "delete", "move"} = {}
  PROVE  HistorySpec /\ []FilesFit => []EditKeepsOtherSentences
<1>1. HistoryInit => EditedInv
  BY DEF HistoryInit, Init, EditedInv, Idle
<1>2. DataTyped /\ HistoryTyped /\ PartiesInv /\ ConnectionInv /\ EditInv /\ EditedInv
        /\ [HistoryNext]_historyVars => EditedInv'
  BY EditedStep
<1>3. EditedInv => EditKeepsOtherSentences
  BY DEF EditedInv, EditKeepsOtherSentences
<1>4. Spec /\ []FilesFit => []EditInv
  BY EditInvAlways
<1> QED
  BY <1>1, <1>2, <1>3, <1>4, HistoryImplementsServer, HistoryTypedAlways, DataAlways,
     PartiesAlways, ConnectionAlways, PTL DEF HistorySpec

-----------------------------------------------------------------------------
(* What UNDO restores                                                      *)

\* A text kept for UNDO is the one before the last edit, unless the session that will
\* make that edit is still open.
UndoInv ==
  \A g \in Doc :
    (/\ undo[g] # NoFile /\ before[g] # NoFile
     /\ ~(session.active /\ ct.at \in InSession /\ session.key[1] = g))
      => undo[g] = before[g]

LEMMA UndoInvStep ==
  ASSUME Ops \cap {"stray", "delete", "move", "cancel", "iofault"} = {}, DataTyped,
         HistoryTyped, PartiesInv, ConnectionInv, EditInv, UndoInv,
         [HistoryNext]_historyVars
  PROVE  UndoInv'
<1> DEFINE f == session.key[1]
           Open == session.active /\ ct.at \in InSession
<1>0. /\ f \in Doc /\ \A g \in Doc : g \in Name
      /\ undo \in [Doc -> Dirent] /\ before \in [Name -> Dirent]
      /\ ct \in CtSet
  BY KeyTyped, ServerAssumption
     DEF DataTyped, MemoryTyped, ThreadsTyped, SessionSet, HistoryTyped
<1>1. CASE UNCHANGED historyVars
  BY <1>1 DEF historyVars, vars, disk, memory, history, UndoInv
<1>2. CASE HistoryNext
  <2>1. Watch /\ [Next]_vars
    BY <1>2 DEF HistoryNext
  <2>2. CASE Stays
    <3>1. UNCHANGED <<ct, session, undo>>
      BY <2>2 DEF Stays
    <3>2. UNCHANGED before
      BY <2>1, <3>1, BeforeChanges
    <3> QED
      BY <3>1, <3>2 DEF UndoInv
  <2>3. CASE SessionStarts
    <3>1. /\ ct.at = "start_read" /\ ct'.at = "loop"
          /\ session'.active /\ session'.key = ct.key
          /\ undo' = [undo EXCEPT ![ct.key[1]] = ReadFile(ct.key[1])]
      BY <2>3 DEF SessionStarts
    <3>2. UNCHANGED before
      BY <2>1, <3>1, BeforeChanges
    <3>3. \A g \in Doc \ {ct.key[1]} : undo'[g] = undo[g]
      BY <1>0, <3>1
    <3> QED
      BY <3>1, <3>2, <3>3 DEF UndoInv, InSession
  <2>4. CASE Quietly
    <3>1. UNCHANGED undo /\ ct.at \in Quiet /\ ct'.at \in Quiet
      BY <2>4 DEF Quietly, Moves
    <3>2. UNCHANGED before
      BY <2>1, <3>1, BeforeChanges DEF Quiet
    <3>3. Open => UNCHANGED ct /\ session'.active /\ session'.key = session.key
      BY <2>4, <3>1 DEF Quietly, Quiet, InSession
    <3> QED
      BY <3>1, <3>2, <3>3 DEF UndoInv
  <2>5. CASE Computes \/ CommitWrite
    <3>1. ASSUME Computes PROVE ct'.at = "commit_write"
      BY <1>0, <3>1 DEF Computes, CtSet
    <3>2. ASSUME CommitWrite PROVE ct'.at = "commit_rename"
      BY <1>0, <3>2 DEF CommitWrite, Goto, CtSet
    <3>3. UNCHANGED <<undo, session>>
      BY <2>5 DEF Computes, CommitWrite, memory
    <3>4. UNCHANGED before
      BY <2>1, <2>5, <3>1, <3>2, BeforeChanges
    <3> QED
      BY <2>5, <3>1, <3>2, <3>3, <3>4 DEF UndoInv, InSession
  <2>6. CASE CommitRename
    <3>1. /\ ct.at = "commit_rename" /\ UNCHANGED undo /\ undo[f] = files[f]
          /\ ct'.at = "commit_release"
      BY <2>6, RenameSplices
    <3>2. before' = [before EXCEPT ![f] = files[f]]
      BY <2>1, <3>1, WatchCases
    <3>3. before'[f] = undo[f] /\ \A g \in Doc \ {f} : before'[g] = before[g]
      BY <1>0, <3>1, <3>2
    <3> QED
      BY <3>1, <3>3 DEF UndoInv
  <2>7. CASE Finishes
    <3>1. UNCHANGED undo /\ ct.at \in Renamed /\ ct'.at # "commit_release"
      BY <2>7 DEF Finishes, Moves, Renamed
    <3>2. UNCHANGED before
      BY <2>1, <3>1, BeforeChanges
    <3> QED
      BY <3>1, <3>2 DEF UndoInv, InSession, Renamed
  <2>8. CASE Falls
    <3>1. CASE ct'.at = "down" /\ undo' = [g \in Doc |-> NoFile]
      BY <3>1 DEF UndoInv
    <3>2. CASE Moves({"down"}, {"accept"}) /\ UNCHANGED undo
      <4>1. ct.at = "down" /\ UNCHANGED undo
        BY <3>2 DEF Moves
      <4>2. UNCHANGED before
        BY <2>1, <4>1, BeforeChanges
      <4> QED
        BY <4>1, <4>2 DEF UndoInv, InSession
    <3> QED
      BY <2>8, <3>1, <3>2 DEF Falls
  <2>9. CASE Rewrites
    <3>1. ct.at \in {"accept"} \cup RewriteLabels
      BY <2>9 DEF Rewrites, Moves
    <3>2. UNCHANGED before
      BY <2>1, <3>1, BeforeChanges DEF RewriteLabels
    <3>3. \A g \in Doc : undo'[g] \in {undo[g], NoFile}
      BY <1>0, <2>9 DEF Rewrites
    <3> QED
      BY <3>1, <3>2, <3>3 DEF UndoInv, InSession, RewriteLabels
  <2> QED
    BY <2>1, <2>2, <2>3, <2>4, <2>5, <2>6, <2>7, <2>8, <2>9, FileSteps
<1> QED
  BY <1>1, <1>2

\* UNDO gives back the text before the most recent edit, if it has one to give
\* (undo_buffer.c:27-94, README.md:40), as long as files fit the buffer they are read
\* into, no session is cancelled or fails, and no file is taken from under one.
THEOREM UndoGivesLastEdit ==
  ASSUME Ops \cap {"stray", "delete", "move", "cancel", "iofault"} = {}
  PROVE  HistorySpec /\ []FilesFit => []UndoIsLastEdit
<1>1. HistoryInit => UndoInv
  BY DEF HistoryInit, Init, UndoInv
<1>2. DataTyped /\ HistoryTyped /\ PartiesInv /\ ConnectionInv /\ EditInv /\ UndoInv
        /\ [HistoryNext]_historyVars => UndoInv'
  BY UndoInvStep
<1>3. UndoInv => UndoIsLastEdit
  BY DEF UndoInv, UndoIsLastEdit, InSession
<1>4. Spec /\ []FilesFit => []EditInv
  BY EditInvAlways
<1> QED
  BY <1>1, <1>2, <1>3, <1>4, HistoryImplementsServer, HistoryTypedAlways, DataAlways,
     PartiesAlways, ConnectionAlways, PTL DEF HistorySpec

-----------------------------------------------------------------------------
(* The search index                                                        *)

\* The words that the index lists f under, and the words that f contains.
ListedIn(X, f) == {e[1] : e \in {x \in X : x[2] = f}}
Listed(f) == ListedIn(index, f)
Contained(f) == IF Exists(f) THEN IndexWords(files[f]) ELSE {}

\* The labels at which the file of the session is ahead of the index.
Catching == {"commit_release", "commit_reread", "commit_index"}

\* The session still fits the file it started from: either there was no word to edit,
\* or it has a word.
SessionFits ==
  LET f == session.key[1]
      n == session.key[2]
  IN /\ Exists(f) /\ n <= Len(ParseSentences(files[f]))
     /\ WordsOf(files[f], n) = <<>> \/ HasWord(session.words)
     /\ ct.at \in {"commit_write", "commit_rename"} =>
          ct.text = CommitText(files[f], n, session.words)
     /\ ct.at = "commit_rename" => files[TmpOf[f]] = ct.text

\* The file that the commit has renamed has no word listed when it is empty, for
\* index_file does not look at an empty file.
Catches ==
  LET f == session.key[1]
  IN /\ Exists(f)
     /\ files[f] = <<>> => Listed(f) = {}
     /\ ct.at = "commit_index" => ct.text = files[f]

\* No thread but the client thread changes a document, and that only by a commit.
SessionInv ==
  /\ nt.at = "accept" /\ ct.at \notin RewriteLabels
  /\ session.active /\ ct.at \notin Renamed => SessionFits

\* The index is exact, but for the document that a commit has just renamed.
ListsInv ==
  /\ ct.at # "down" =>
       \A g \in Doc : (ct.at \in Catching /\ g = session.key[1]) \/ Listed(g) = Contained(g)
  /\ ct.at \in Catching => Catches

\* The steps that the files, the index and the session can see, when no request
\* changes a document without WRITE.
Rests == /\ UNCHANGED <<files, index, session, nt>>
         /\ UNCHANGED ct \/ Moves(Quiet, Quiet)
Leaves == /\ UNCHANGED <<files, index, nt>> /\ session' = NoSession
          /\ Moves({"loop", "commit_write", "commit_reply"}, {"accept"})
Starts == StartRead /\ StartAccepted

LEMMA IndexSteps ==
  ASSUME Ops \cap {"undo", "revert", "delete", "move"} = {}, PartiesInv,
         nt.at = "accept", ct.at \notin RewriteLabels, [Next]_vars
  PROVE  \/ Rests \/ Leaves \/ Starts \/ WriteCommit \/ CommitWrite \/ CommitRename
         \/ CommitRelease \/ CommitReread \/ CommitIndex \/ Die \/ Boot
         \/ \E i \in 0 .. MaxWords, w \in Insert : WriteUpdate(i, w)
         \/ \E f \in Doc : Create(f)
<1> DEFINE Goal == \/ Rests \/ Leaves \/ Starts \/ WriteCommit \/ CommitWrite
                   \/ CommitRename \/ CommitRelease \/ CommitReread \/ CommitIndex
                   \/ Die \/ Boot
                   \/ \E i \in 0 .. MaxWords, w \in Insert : WriteUpdate(i, w)
                   \/ \E f \in Doc : Create(f)
<1> SUFFICES Goal
  OBVIOUS
<1>0. DOMAIN ct = {"at", "key", "client", "tag", "text", "told"}
  BY DEF PartiesInv, Shape
<1>1. CASE StartLock
  BY <1>0, <1>1 DEF StartLock, Goto, disk, memory, Rests, Moves, Quiet
<1>2. CASE StartRead
  <2>1. CASE StartAccepted
    BY <1>2, <2>1 DEF Starts
  <2>2. CASE ~StartAccepted
    <3>1. ct.at = "start_read" /\ ct'.at = "loop"
      BY <1>0, <1>2, StartReadCases DEF StartRead
    <3>2. UNCHANGED <<files, index, session, nt>>
      BY <1>2, <2>2 DEF StartRead, disk
    <3> QED
      BY <3>1, <3>2 DEF Rests, Moves, Quiet
  <2> QED
    BY <2>1, <2>2
<1>3. CASE CommitWriteFails \/ CommitReply
  BY <1>3 DEF CommitWriteFails, CommitReply, EndSession, Idle, disk, Leaves, Moves
<1>4. CASE RewriteOpen \/ RewriteFails \/ RewriteData
  BY <1>4 DEF RewriteOpen, RewriteFails, RewriteData, RewriteLabels
<1>5. CASE CheckpointOpen
  <2>1. \/ ct' = [ct EXCEPT !.at = "ckpt_data", !.text = files[ct.key[1]]]
        \/ ct' = Idle("accept")
    BY <1>5, CheckpointOpenCases
  <2>2. ct'.at \in {"ckpt_data", "accept"}
    <3>1. CASE ct' = [ct EXCEPT !.at = "ckpt_data", !.text = files[ct.key[1]]]
      BY <1>0, <3>1
    <3>2. CASE ct' = Idle("accept")
      BY <3>2 DEF Idle
    <3> QED
      BY <2>1, <3>1, <3>2
  <2>3. ct.at = "ckpt_open" /\ UNCHANGED <<files, index, session, nt>>
    BY <1>5 DEF CheckpointOpen, memory
  <2> QED
    BY <2>2, <2>3 DEF Rests, Moves, Quiet
<1>6. CASE CheckpointData
  BY <1>6 DEF CheckpointData, Idle, memory, Rests, Moves, Quiet
<1>7. ASSUME NEW c \in Client, NEW k \in Key, WriteStart(c, k) PROVE Goal
  <2>1. DOMAIN Idle("start_lock") = {"at", "key", "client", "tag", "text", "told"}
    BY DEF Idle
  <2>2. ct'.at \in Quiet
    BY <1>7, <2>1 DEF WriteStart, Quiet
  <2>3. ct.at = "accept" /\ UNCHANGED <<files, index, session, nt>>
    BY <1>7 DEF WriteStart, disk, memory
  <2> QED
    BY <2>2, <2>3 DEF Rests, Moves, Quiet
<1>8. CASE CommitRefused \/ UnexpectedOperation
  BY <1>8 DEF CommitRefused, UnexpectedOperation, disk, memory, Idle, Rests, Moves, Quiet
<1>9. CASE Disconnect
  <2>1. ct.at = "loop" /\ ct'.at = "accept" /\ UNCHANGED <<files, index, nt>>
    BY <1>9 DEF Disconnect, disk, Idle
  <2>2. session' = NoSession \/ UNCHANGED session
    BY <1>9 DEF Disconnect, EndSession
  <2> QED
    BY <2>1, <2>2 DEF Rests, Leaves, Moves, Quiet
<1>10. ASSUME NEW f \in Doc, Undo(f) PROVE Goal
  BY <1>10 DEF Undo
<1>11. ASSUME NEW f \in Doc, NEW t \in Tag, Checkpoint(f, t) \/ Revert(f, t) PROVE Goal
  <2>1. CASE Checkpoint(f, t)
    <3>1. ct' = [Idle("ckpt_open") EXCEPT !.key = <<f, 0>>, !.tag = t]
      BY <2>1 DEF Checkpoint
    <3>2. ct'.at = "ckpt_open"
      BY <3>1 DEF Idle
    <3> QED
      BY <2>1, <3>2 DEF Checkpoint, disk, memory, Rests, Moves, Quiet
  <2>2. CASE Revert(f, t)
    BY <2>2 DEF Revert
  <2> QED
    BY <1>11, <2>1, <2>2
<1>12. ASSUME NEW f \in Doc, Delete(f) PROVE Goal
  BY <1>12 DEF Delete
<1>13. CASE (\E d \in Folder : CreateFolder(d)) \/ Cleanup \/ ClockTick \/ UNCHANGED vars
  BY <1>13 DEF CreateFolder, Cleanup, ClockTick, vars, disk, memory, Rests
<1>14. ASSUME NEW f \in Doc, NEW d \in Folder, Move(f, d) PROVE Goal
  BY <1>14 DEF Move
<1>15. CASE Unindex \/ IndexRace
  BY <1>15 DEF Unindex, IndexRace
<1>16. CASE Crash
  BY <1>16 DEF Crash
<1> HIDE DEF Goal
<1>17. Starts \/ WriteCommit \/ CommitWrite \/ CommitRename \/ CommitRelease \/ CommitReread
         \/ CommitIndex \/ Boot \/ (\E f \in Doc : Create(f))
         \/ (\E i \in 0 .. MaxWords, w \in Insert : WriteUpdate(i, w)) => Goal
  BY DEF Goal
<1> QED
  BY <1>1, <1>2, <1>3, <1>4, <1>5, <1>6, <1>7, <1>8, <1>9, <1>10, <1>11, <1>12, <1>13,
     <1>14, <1>15, <1>16, <1>17 DEF Next, ClientStep, ClientRequest, NsStep

\* A text of white space has no word to index.
LEMMA BlankHasNoWords ==
  ASSUME NEW t \in Text, \A i \in 1 .. Len(t) : t[i] = Space
  PROVE  IndexWords(t) = {}
<1> DEFINE solid(i) == i \in DOMAIN t /\ t[i] \in Letter
           runs == {r \in (DOMAIN t) \X (DOMAIN t) :
                      /\ r[1] <= r[2] /\ \A i \in r[1] .. r[2] : solid(i)
                      /\ ~solid(r[1] - 1) /\ ~solid(r[2] + 1)}
<1>1. IndexWords(t) = {SubSeq(t, r[1], r[2]) : r \in runs}
  BY DEF IndexWords
<1>2. DOMAIN t = 1 .. Len(t) /\ Len(t) \in Nat
  BY TextProperties
<1>3. ASSUME NEW r \in runs PROVE FALSE
  <2> DEFINE a == r[1]
             b == r[2]
  <2>1. a \in 1 .. Len(t) /\ b \in 1 .. Len(t) /\ a <= b /\ \A i \in a .. b : solid(i)
    BY <1>2
  <2> HIDE DEF a, b
  <2>2. a \in a .. b
    BY <1>2, <2>1
  <2>3. t[a] \in Letter /\ t[a] = Space
    BY <2>1, <2>2
  <2> QED
    BY <2>3, AtomAssumption
<1> HIDE DEF runs
<1> QED
  BY <1>1, <1>3

LEMMA EmptyHasNoWords == <<>> \in Text /\ IndexWords(<<>>) = {}
<1> DEFINE t == <<>>
<1>1. t \in Text /\ Len(t) = 0
  BY DEF Text
<1> HIDE DEF t
<1>2. \A i \in 1 .. Len(t) : t[i] = Space
  BY <1>1
<1>3. IndexWords(t) = {}
  BY <1>1, <1>2, BlankHasNoWords
<1> QED
  BY <1>1, <1>3 DEF t

\* The words a session starts from: none, or a word that is not empty.
LEMMA WordsOfHasWord ==
  ASSUME NEW t \in Text, NEW n \in 0 .. Len(ParseSentences(t))
  PROVE  WordsOf(t, n) = <<>> \/ HasWord(WordsOf(t, n))
<1> DEFINE s == ParseSentences(t)
<1>1. s \in Seq(Text) /\ Len(s) \in Nat
  BY Sentences, Ends
<1>2. WordsOf(t, n) = IF n = Len(s) THEN <<>> ELSE ParseWords(s[n + 1])
  BY DEF WordsOf
<1> HIDE DEF s
<1>3. CASE n = Len(s)
  BY <1>2, <1>3
<1>4. CASE n # Len(s)
  <2> DEFINE ws == ParseWords(s[n + 1])
  <2>1. n \in 0 .. Len(s)
    BY DEF s
  <2>2. s[n + 1] \in Text
    <3>1. n + 1 \in 1 .. Len(s)
      BY <1>1, <1>4, <2>1
    <3> QED
      BY <1>1, <3>1, ElementOfSeq
  <2>3. ws \in Seq(Text) /\ \A k \in DOMAIN ws : ws[k] # <<>>
    BY <2>2, WordsTyped
  <2> HIDE DEF ws
  <2>4. ws = <<>> \/ 1 \in DOMAIN ws
    BY <2>3, EmptySeq, LenProperties
  <2> QED
    BY <1>2, <1>4, <2>3, <2>4 DEF HasWord, ws
<1> QED
  BY <1>3, <1>4

\* A commit that leaves an empty file had no word to remove from the index.
LEMMA EmptiedHadNoWords ==
  ASSUME NEW t \in Text, NEW words \in Seq(Text), NEW n \in 0 .. Len(ParseSentences(t)),
         CommitText(t, n, words) = <<>>, WordsOf(t, n) = <<>> \/ HasWord(words)
  PROVE  IndexWords(t) = {}
<1>1. Len(ParseSentences(t)) \in Nat
  BY Sentences, Ends
<1>2. \/ HasWord(words)
      \/ n < Len(ParseSentences(t)) => ParseWords(ParseSentences(t)[n + 1]) = <<>>
  <2>1. CASE WordsOf(t, n) = <<>>
    <3>1. n < Len(ParseSentences(t)) => n # Len(ParseSentences(t))
      BY <1>1
    <3> QED
      BY <2>1, <3>1 DEF WordsOf
  <2> QED
    BY <2>1
<1>3. \A i \in 1 .. Len(t) : t[i] = Space
  BY <1>2, EmptiedWasBlank
<1> QED
  BY <1>3, BlankHasNoWords

\* The files that there are, and those that the index still lists.
Filed == {f \in Name : Exists(f) \/ \E e \in index : e[2] = f}

\* There are no more files than the list of a word holds and than main finds.
FewFiles == /\ Cardinality(Filed) <= MaxPerWord
            /\ Cardinality({f \in Name : Exists(f)}) <= MaxScan

LEMMA FewOthers ==
  ASSUME FewFiles, NEW f \in Name, Exists(f), NEW S \in SUBSET Filed, f \notin S
  PROVE  Cardinality(S) < MaxPerWord
<1>1. IsFiniteSet(Filed) /\ Cardinality(Filed) \in Nat /\ MaxPerWord \in Nat
  <2>1. Filed \in SUBSET Name
    BY DEF Filed
  <2> QED
    BY <2>1, NamesFinite, ServerAssumption
<1>2. Cardinality(Filed \ {f}) = Cardinality(Filed) - 1 /\ IsFiniteSet(Filed \ {f})
  <2>1. f \in Filed
    BY DEF Filed
  <2> QED
    BY <1>1, <2>1, FS_RemoveElement
<1>3. Cardinality(S) \in Nat /\ Cardinality(S) <= Cardinality(Filed \ {f})
  <2>1. S \in SUBSET (Filed \ {f})
    OBVIOUS
  <2>2. IsFiniteSet(S) /\ Cardinality(S) <= Cardinality(Filed \ {f})
    BY <1>2, <2>1, FS_Subset
  <2> QED
    BY <2>2, FS_CardinalityType
<1> QED
  BY <1>1, <1>2, <1>3 DEF FewFiles

\* index_file lists its file under the words of the text, unless that is empty, and
\* leaves the other files alone.
LEMMA IndexedLists ==
  ASSUME FewFiles, NEW f \in Doc, Exists(f), NEW t, index \subseteq Seq(Letter) \X Name
  PROVE  /\ t # <<>> => ListedIn(Indexed(f, t), f) = IndexWords(t)
         /\ t = <<>> => Indexed(f, t) = index
         /\ \A g \in Doc \ {f} : ListedIn(Indexed(f, t), g) = Listed(g)
<1> DEFINE W == IndexWords(t)
<1>1. Indexed(f, t) = IF t = <<>> THEN index
                      ELSE {e \in index : e[2] # f} \cup {<<w, f>> : w \in W}
  <2>1. ASSUME NEW w PROVE Room(w, f)
    <3> DEFINE others == {g \in Name \ {f} : <<w, g>> \in index}
    <3>1. others \in SUBSET Filed /\ f \notin others /\ f \in Name
      BY ServerAssumption DEF Filed
    <3>2. Cardinality(others) < MaxPerWord
      BY <3>1, FewOthers
    <3> QED
      BY <3>2 DEF Room
  <2>2. {v \in IndexWords(t) : Room(v, f)} = IndexWords(t)
    BY <2>1
  <2> QED
    BY <2>2 DEF Indexed, Unindexed
<1> HIDE DEF W
<1> DEFINE X == {e \in index : e[2] # f} \cup {<<w, f>> : w \in W}
<1>2. ListedIn(X, f) = W
  <2>1. {x \in X : x[2] = f} = {<<w, f>> : w \in W}
    <3>1. ASSUME NEW x \in X, x[2] = f PROVE x \in {<<w, f>> : w \in W}
      BY <3>1
    <3>2. ASSUME NEW w \in W PROVE <<w, f>> \in X /\ <<w, f>>[2] = f
      OBVIOUS
    <3> HIDE DEF X
    <3> QED
      BY <3>1, <3>2
  <2> HIDE DEF X
  <2>2. {e[1] : e \in {<<w, f>> : w \in W}} = W
    <3>1. ASSUME NEW w \in W PROVE w \in {e[1] : e \in {<<u, f>> : u \in W}}
      <4>1. <<w, f>> \in {<<u, f>> : u \in W} /\ <<w, f>>[1] = w
        OBVIOUS
      <4> QED
        BY <4>1
    <3>2. ASSUME NEW e \in {<<w, f>> : w \in W} PROVE e[1] \in W
      OBVIOUS
    <3> QED
      BY <3>1, <3>2
  <2> QED
    BY <2>1, <2>2 DEF ListedIn
<1>3. ASSUME NEW g \in Doc \ {f} PROVE ListedIn(X, g) = Listed(g)
  <2>1. {x \in X : x[2] = g} = {x \in index : x[2] = g}
    OBVIOUS
  <2> HIDE DEF X
  <2> QED
    BY <2>1 DEF ListedIn, Listed
<1> HIDE DEF X
<1>4. CASE t = <<>>
  BY <1>1, <1>4 DEF Listed
<1>5. CASE t # <<>>
  <2>1. Indexed(f, t) = X
    BY <1>1, <1>5 DEF X
  <2> QED
    BY <1>2, <1>3, <1>5, <2>1 DEF W
<1> QED
  BY <1>4, <1>5

\* main indexes what is there.
LEMMA BootLists ==
  ASSUME FewFiles, Boot, DataTyped, FilesFit, NEW g \in Doc
  PROVE  ListedIn(index', g) = Contained(g)
<1> DEFINE there == {h \in Name : Exists(h)}
           W == IndexWords(ReadFile(g))
<1>1. PICK order \in Orders : index' = ScannedIndex(order)
  BY DEF Boot
<1>2. g \in Name
  BY ServerAssumption
<1>3. ASSUME NEW h \in there PROVE order[h] <= MaxScan
  <2>1. there \in SUBSET Name /\ IsFiniteSet(Name) /\ MaxScan \in Nat
    BY ServerAssumption
  <2>2. order[h] \in 1 .. Cardinality(there)
    BY <1>3 DEF Orders
  <2> HIDE DEF there
  <2>3. Cardinality(there) \in Nat
    BY <2>1, NamesFinite
  <2>4. Cardinality(there) <= MaxScan
    BY DEF FewFiles, there
  <2> QED
    BY <2>1, <2>2, <2>3, <2>4
<1>4. ASSUME NEW w PROVE <<w, g>> \in index' <=> Exists(g) /\ w \in W
  <2> DEFINE found == {f \in Name : Exists(f) /\ order[f] <= MaxScan}
             earlier == {f \in found : order[f] < order[g] /\ w \in IndexWords(ReadFile(f))}
  <2>1. <<w, g>> \in index' <=> /\ g \in found /\ w \in W
                               /\ Cardinality(earlier) < MaxPerWord
    BY <1>1, ScannedMember
  <2>2. g \in found <=> Exists(g)
    BY <1>2, <1>3
  <2>3. ASSUME Exists(g) PROVE Cardinality(earlier) < MaxPerWord
    <3>1. order[g] \in Int
      BY <1>2, <2>3 DEF Orders
    <3>2. earlier \in SUBSET Filed /\ g \notin earlier
      BY <3>1 DEF Filed
    <3> HIDE DEF earlier
    <3> QED
      BY <1>2, <2>3, <3>2, FewOthers
  <2> QED
    BY <2>1, <2>2, <2>3
<1>5. \A e \in index' : e = <<e[1], e[2]>>
  <2>1. \A e \in index' : \E f \in Name : e = <<e[1], f>>
    BY <1>1, ScannedMember
  <2> QED
    BY <2>1
<1>6. ListedIn(index', g) = IF Exists(g) THEN W ELSE {}
  <2> DEFINE entries == {x \in index' : x[2] = g}
  <2> HIDE DEF W
  <2>1. ASSUME NEW w PROVE <<w, g>> \in entries <=> Exists(g) /\ w \in W
    <3>1. <<w, g>>[2] = g
      OBVIOUS
    <3> QED
      BY <1>4, <3>1
  <2>2. \A e \in entries : e = <<e[1], g>>
    BY <1>5
  <2> HIDE DEF entries
  <2>3. ASSUME NEW e \in entries PROVE Exists(g) /\ e[1] \in W
    <3> DEFINE w == e[1]
    <3> HIDE DEF w
    <3>1. <<w, g>> \in entries
      BY <2>2 DEF w
    <3> QED
      BY <2>1, <3>1 DEF w
  <2>4. ASSUME NEW w \in W, Exists(g) PROVE w \in {e[1] : e \in entries}
    <3>1. <<w, g>> \in entries /\ <<w, g>>[1] = w
      BY <2>1, <2>4
    <3> QED
      BY <3>1
  <2>5. {e[1] : e \in entries} = IF Exists(g) THEN W ELSE {}
    BY <2>3, <2>4
  <2> QED
    BY <2>5 DEF ListedIn, entries
<1>7. Exists(g) => ReadFile(g) = files[g]
  BY ReadsWhole
<1> QED
  BY <1>6, <1>7 DEF Contained

LEMMA SessionInvStep ==
  ASSUME Ops \cap {"undo", "revert", "delete", "move"} = {}, TmpApart, FilesFit, DataTyped,
         PartiesInv, SessionInv, [Next]_vars
  PROVE  SessionInv'
<1> DEFINE f == session.key[1]
           n == session.key[2]
           ws == session.words
<1>0. /\ session.key \in Key /\ f \in Doc /\ f \in Name /\ n \in Nat /\ ws \in Seq(Text)
      /\ ct.key \in Key /\ ct.key[1] \in Doc /\ ct.key[2] \in Nat
      /\ TmpOf[f] \in Name /\ TmpOf[f] \notin Doc /\ \A g \in Doc : g \in Name
      /\ files \in [Name -> Dirent] /\ ct \in CtSet /\ ct.text \in Text
      /\ NoFile \notin Text /\ Insert \subseteq Text
      /\ session \in SessionSet /\ index \subseteq Seq(Letter) \X Name
  BY KeyTyped, ServerAssumption
  DEF DataTyped, DiskTyped, MemoryTyped, ThreadsTyped, SessionSet, CtSet, TmpApart
<1>1. nt.at = "accept" /\ ct.at \notin RewriteLabels
  BY DEF SessionInv
<1>2. ct.at \in CommitLabels => session.active
  BY DEF PartiesInv, KnownParties
<1>3. session.active /\ ct.at \notin Renamed =>
        Exists(f) /\ files[f] \in Text /\ ReadFile(f) = files[f] /\ SessionFits
  BY <1>0, ReadsWhole DEF SessionInv, SessionFits
<1>4. CASE Rests
  <2>1. CASE UNCHANGED ct
    BY <1>4, <2>1 DEF Rests, SessionInv, SessionFits, Exists
  <2>2. CASE Moves(Quiet, Quiet)
    BY <1>4, <2>2
    DEF Rests, Moves, Quiet, SessionInv, SessionFits, Exists, Renamed, RewriteLabels
  <2> QED
    BY <1>4, <2>1, <2>2 DEF Rests
<1>5. CASE Leaves
  BY <1>5 DEF Leaves, Moves, NoSession, SessionInv, RewriteLabels
<1>6. CASE Die
  BY <1>6 DEF Die, Idle, NoSession, NsIdle, SessionInv, RewriteLabels
<1>7. CASE Boot
  <2>1. /\ ct'.at = "accept" /\ UNCHANGED <<files, session, nt>> /\ ct.at = "down"
    BY <1>7 DEF Boot, Idle
  <2>2. session'.active => SessionFits'
    BY <1>3, <2>1 DEF SessionFits, Renamed, Exists
  <2> QED
    BY <1>1, <2>1, <2>2 DEF SessionInv, RewriteLabels
<1>8. ASSUME NEW h \in Doc, Create(h) PROVE SessionInv'
  <2>1. /\ files' = [files EXCEPT ![h] = <<>>] /\ ~Exists(h) /\ UNCHANGED <<session, ct, nt>>
    BY <1>8 DEF Create, memory
  <2>2. f # h => files'[f] = files[f] /\ files'[TmpOf[f]] = files[TmpOf[f]]
    BY <1>0, <2>1
  <2>3. session'.active /\ ct'.at \notin Renamed => SessionFits'
    BY <1>0, <1>3, <2>1, <2>2 DEF SessionFits, Exists
  <2> QED
    BY <1>1, <2>1, <2>3 DEF SessionInv
<1>9. CASE Starts
  <2> DEFINE h == ct.key[1]
             m == ct.key[2]
             new == WordsOf(ReadFile(h), m)
  <2>1. Exists(h) /\ m <= Len(ParseSentences(ReadFile(h))) /\ ct.at = "start_read"
    BY <1>9 DEF Starts, StartAccepted, StartRead
  <2>2. ReadFile(h) = files[h] /\ files[h] \in Text
    BY <1>0, <2>1, ReadsWhole
  <2>3. /\ session' = [active |-> TRUE, key |-> ct.key, client |-> ct.client, words |-> new]
        /\ UNCHANGED <<files, nt>>
    BY <1>9 DEF Starts, StartRead, disk
  <2>4. ct'.at = "loop"
    BY <1>0, <1>9, StartReadCases DEF Starts, CtSet
  <2>5. Len(ParseSentences(files[h])) \in Nat
    BY <2>2, Sentences, Ends
  <2>6. new = <<>> \/ HasWord(new)
    <3>1. m \in 0 .. Len(ParseSentences(files[h]))
      BY <1>0, <2>1, <2>2, <2>5
    <3> QED
      BY <2>2, <3>1, WordsOfHasWord
  <2>7. SessionFits'
    <3>1. session'.key = ct.key /\ session'.words = new
      BY <2>3
    <3> HIDE DEF new
    <3> QED
      BY <2>1, <2>2, <2>3, <2>4, <2>6, <3>1 DEF SessionFits, Exists, new
  <2> QED
    BY <1>1, <2>3, <2>4, <2>7 DEF SessionInv, RewriteLabels
<1>10. ASSUME NEW i \in 0 .. MaxWords, NEW w \in Insert, WriteUpdate(i, w)
       PROVE  SessionInv'
  <2>1. /\ ct.at = "loop" /\ session.active /\ i <= Len(ws)
        /\ session' = [session EXCEPT !.words = InsertAt(@, i + 1, w)]
        /\ UNCHANGED <<files, ct, nt>>
    BY <1>10 DEF WriteUpdate, disk
  <2>2. session'.key = session.key /\ session'.words = InsertAt(ws, i + 1, w)
    BY <1>0, <2>1 DEF SessionSet
  <2>3. i \in 0 .. Len(ws) /\ w \in Text
    BY <1>0, <2>1, LenProperties
  <2>4. HasWord(ws) => HasWord(session'.words)
    BY <1>0, <2>2, <2>3, InsertKeeps
  <2>5. SessionFits'
    BY <1>3, <2>1, <2>2, <2>4 DEF SessionFits, Exists, Renamed
  <2> QED
    BY <1>1, <2>1, <2>5 DEF SessionInv
<1>11. CASE WriteCommit
  <2>1. ct.at = "loop" /\ session.active
    BY <1>11 DEF WriteCommit
  <2>2. /\ Exists(f) /\ ReadFile(f) = files[f] /\ SessionFits
    BY <1>3, <2>1 DEF Renamed
  <2>3. \/ /\ ct' = [ct EXCEPT !.at = "commit_write", !.text = CommitText(files[f], n, ws)]
           /\ UNCHANGED <<disk, memory, nt>>
        \/ Die
    BY <1>11, <2>2 DEF WriteCommit, Reread
  <2>4. CASE /\ ct' = [ct EXCEPT !.at = "commit_write", !.text = CommitText(files[f], n, ws)]
             /\ UNCHANGED <<disk, memory, nt>>
    <3>1. ct'.at = "commit_write" /\ ct'.text = CommitText(files[f], n, ws)
      BY <1>0, <2>4 DEF CtSet
    <3>2. UNCHANGED <<files, session, nt>>
      BY <2>4 DEF disk, memory
    <3>3. SessionFits'
      BY <2>2, <3>1, <3>2 DEF SessionFits, Exists
    <3> QED
      BY <1>1, <2>1, <3>1, <3>2, <3>3 DEF SessionInv, RewriteLabels
  <2> QED
    BY <1>6, <2>3, <2>4
<1>12. CASE CommitWrite
  <2>1. /\ ct.at = "commit_write" /\ ct'.at = "commit_rename" /\ ct'.text = ct.text
        /\ files' = [files EXCEPT ![TmpOf[f]] = ct.text]
        /\ UNCHANGED <<session, nt>>
    BY <1>0, <1>12 DEF CommitWrite, Goto, CtSet, memory
  <2>2. files'[TmpOf[f]] = ct.text /\ files'[f] = files[f]
    BY <1>0, <2>1
  <2>3. SessionFits'
    BY <1>0, <1>2, <1>3, <2>1, <2>2 DEF SessionFits, Exists, Renamed, CommitLabels
  <2> QED
    BY <1>1, <2>1, <2>3 DEF SessionInv, RewriteLabels
<1>13. CASE CommitRename \/ CommitRelease \/ CommitReread \/ CommitIndex
  <2>1. ct'.at \in Renamed /\ UNCHANGED nt
    <3>1. CASE CommitReread
      BY <1>0, <3>1 DEF CommitReread, CtSet, Renamed
    <3>2. CASE CommitRename \/ CommitRelease \/ CommitIndex
      BY <1>0, <3>2 DEF CommitRename, CommitRelease, CommitIndex, Goto, CtSet, Renamed
    <3> QED
      BY <1>13, <3>1, <3>2
  <2> QED
    BY <1>1, <2>1 DEF SessionInv, Renamed, RewriteLabels
<1> QED
  BY <1>1, <1>4, <1>5, <1>6, <1>7, <1>8, <1>9, <1>10, <1>11, <1>12, <1>13, IndexSteps

LEMMA SessionInvAlways ==
  ASSUME Ops \cap {"undo", "revert", "delete", "move"} = {}, TmpApart
  PROVE  Spec /\ []FilesFit => []SessionInv
<1>1. Init => SessionInv
  BY DEF Init, Idle, NoSession, NsIdle, SessionInv, RewriteLabels
<1>2. FilesFit /\ DataTyped /\ PartiesInv /\ SessionInv /\ [Next]_vars => SessionInv'
  BY SessionInvStep
<1> QED
  BY <1>1, <1>2, DataAlways, PartiesAlways, PTL DEF Spec

LEMMA ListsInvStep ==
  ASSUME Ops \cap {"undo", "revert", "delete", "move"} = {}, TmpApart, FewFiles, FilesFit,
         DataTyped, PartiesInv, SessionInv, ListsInv, [Next]_vars
  PROVE  ListsInv'
<1> DEFINE f == session.key[1]
           n == session.key[2]
           ws == session.words
<1>0. /\ session.key \in Key /\ f \in Doc /\ f \in Name /\ n \in Nat /\ ws \in Seq(Text)
      /\ ct.key \in Key /\ ct.key[1] \in Doc /\ ct.key[2] \in Nat
      /\ TmpOf[f] \in Name /\ TmpOf[f] \notin Doc /\ \A g \in Doc : g \in Name
      /\ files \in [Name -> Dirent] /\ ct \in CtSet /\ ct.text \in Text
      /\ NoFile \notin Text /\ Insert \subseteq Text
      /\ session \in SessionSet /\ index \subseteq Seq(Letter) \X Name
  BY KeyTyped, ServerAssumption
  DEF DataTyped, DiskTyped, MemoryTyped, ThreadsTyped, SessionSet, CtSet, TmpApart
<1>1. nt.at = "accept" /\ ct.at \notin RewriteLabels
  BY DEF SessionInv
<1>2. ct.at \in CommitLabels => session.active
  BY DEF PartiesInv, KnownParties
<1>3. session.active /\ ct.at \notin Renamed =>
        Exists(f) /\ files[f] \in Text /\ ReadFile(f) = files[f] /\ SessionFits
  BY <1>0, ReadsWhole DEF SessionInv, SessionFits
<1>4. ASSUME NEW g \in Doc, ct.at # "down", ct.at \notin Catching \/ g # f
      PROVE  Listed(g) = Contained(g)
  BY <1>4 DEF ListsInv
<1>5. ct.at \in Catching => Catches
  BY DEF ListsInv
\* What changes neither the documents nor the index, and moves outside of Catching.
<1>6. ASSUME UNCHANGED <<files, index>>, ct.at # "down", ct.at \notin Catching,
             ct'.at \notin Catching
      PROVE  ListsInv'
  BY <1>4, <1>6 DEF ListsInv, Listed, Contained, Exists
<1>7. CASE Rests
  <2>1. CASE UNCHANGED ct
    BY <1>7, <2>1 DEF Rests, ListsInv, Catches, Listed, Contained, Exists
  <2>2. CASE Moves(Quiet, Quiet)
    BY <1>6, <1>7, <2>2 DEF Rests, Moves, Quiet, Catching
  <2> QED
    BY <1>7, <2>1, <2>2 DEF Rests
<1>8. CASE Leaves
  BY <1>6, <1>8 DEF Leaves, Moves, Catching
<1>9. CASE Die
  BY <1>9 DEF Die, Idle, ListsInv, Catching
<1>10. CASE Boot
  <2>1. ct'.at = "accept" /\ UNCHANGED <<files, session, nt>>
    BY <1>10 DEF Boot, Idle
  <2>2. \A g \in Doc : Listed(g)' = Contained(g)'
    BY <1>10, <2>1, BootLists DEF Listed, Contained, Exists
  <2> QED
    BY <2>1, <2>2 DEF ListsInv, Catching
<1>11. ASSUME NEW h \in Doc, Create(h) PROVE ListsInv'
  <2>1. /\ files' = [files EXCEPT ![h] = <<>>] /\ ~Exists(h)
        /\ UNCHANGED <<index, session, ct, nt>>
    BY <1>11 DEF Create, memory
  <2>2. IndexWords(<<>>) = {}
    BY EmptyHasNoWords
  <2>3. <<>> # NoFile
    BY <1>0, EmptyHasNoWords
  <2>4. ASSUME NEW g \in Doc, Listed(g) = Contained(g) PROVE Listed(g)' = Contained(g)'
    <3>1. CASE g = h
      BY <1>0, <2>1, <2>2, <2>3, <2>4, <3>1 DEF Listed, Contained, Exists
    <3>2. CASE g # h
      BY <1>0, <2>1, <2>4, <3>2 DEF Listed, Contained, Exists
    <3> QED
      BY <3>1, <3>2
  <2>5. f # h /\ TmpOf[f] # h => files'[f] = files[f] /\ files'[TmpOf[f]] = files[TmpOf[f]]
    BY <1>0, <2>1
  <2>6. ct'.at \in Catching => Catches'
    BY <1>0, <1>5, <2>1, <2>5 DEF Catches, Exists, Listed
  <2> QED
    BY <1>4, <2>1, <2>4, <2>6 DEF ListsInv
<1>12. CASE Starts
  <2>1. ct.at = "start_read" /\ UNCHANGED <<files, index>>
    BY <1>12 DEF Starts, StartRead, disk
  <2>2. ct'.at = "loop"
    BY <1>0, <1>12, StartReadCases DEF Starts, CtSet
  <2> QED
    BY <1>6, <2>1, <2>2 DEF Catching
<1>13. ASSUME NEW i \in 0 .. MaxWords, NEW w \in Insert, WriteUpdate(i, w)
       PROVE  ListsInv'
  BY <1>6, <1>13 DEF WriteUpdate, disk, Catching
<1>14. CASE WriteCommit
  <2>1. ct.at = "loop" /\ session.active
    BY <1>14 DEF WriteCommit
  <2>2. Exists(f)
    BY <1>3, <2>1 DEF Renamed
  <2>3. \/ /\ ct' = [ct EXCEPT !.at = "commit_write", !.text = CommitText(ReadFile(f), n, ws)]
           /\ UNCHANGED <<disk, memory>>
        \/ Die
    BY <1>14, <2>2 DEF WriteCommit, Reread
  <2>4. CASE /\ ct' = [ct EXCEPT !.at = "commit_write", !.text = CommitText(ReadFile(f), n, ws)]
             /\ UNCHANGED <<disk, memory>>
    <3>1. ct'.at = "commit_write"
      BY <1>0, <2>4 DEF CtSet
    <3>2. UNCHANGED <<files, index>>
      BY <2>4 DEF disk, memory
    <3> QED
      BY <1>6, <2>1, <3>1, <3>2 DEF Catching
  <2> QED
    BY <1>9, <2>3, <2>4
<1>15. CASE CommitWrite
  <2>1. /\ ct.at = "commit_write" /\ ct'.at = "commit_rename"
        /\ files' = [files EXCEPT ![TmpOf[f]] = ct.text]
        /\ UNCHANGED index
    BY <1>0, <1>15 DEF CommitWrite, Goto, CtSet, memory
  <2>2. \A g \in Doc : files'[g] = files[g]
    BY <1>0, <2>1
  <2> QED
    BY <1>4, <2>1, <2>2 DEF ListsInv, Catching, Listed, Contained, Exists
<1>16. CASE CommitRename
  <2>1. /\ ct.at = "commit_rename" /\ ct'.at = "commit_release" /\ UNCHANGED <<index, session, nt>>
        /\ files' = IF Exists(TmpOf[f])
                    THEN [files EXCEPT ![f] = files[TmpOf[f]], ![TmpOf[f]] = NoFile]
                    ELSE files
    BY <1>0, <1>16 DEF CommitRename, Goto, CtSet, memory
  <2>2. /\ files[f] \in Text /\ n <= Len(ParseSentences(files[f]))
        /\ WordsOf(files[f], n) = <<>> \/ HasWord(ws)
        /\ ct.text = CommitText(files[f], n, ws) /\ files[TmpOf[f]] = ct.text
    BY <1>2, <1>3, <2>1 DEF SessionFits, Renamed, CommitLabels
  <2>3. files'[f] = ct.text /\ \A g \in Doc \ {f} : files'[g] = files[g]
    BY <1>0, <2>1, <2>2 DEF Exists
  <2>4. ct.text = <<>> => IndexWords(files[f]) = {}
    <3>1. Len(ParseSentences(files[f])) \in Nat
      BY <2>2, Sentences, Ends
    <3>2. n \in 0 .. Len(ParseSentences(files[f]))
      BY <1>0, <2>2, <3>1
    <3> QED
      BY <1>0, <2>2, <3>2, EmptiedHadNoWords
  <2>5. Listed(f) = IndexWords(files[f])
    BY <1>2, <1>3, <1>4, <1>0, <2>1 DEF Catching, Contained, Renamed, CommitLabels
  <2>6. Catches'
    BY <1>0, <2>1, <2>3, <2>4, <2>5 DEF Catches, Exists, Listed
  <2>7. \A g \in Doc \ {f} : Listed(g)' = Contained(g)'
    BY <1>4, <2>1, <2>3 DEF Catching, Listed, Contained, Exists
  <2> QED
    BY <2>1, <2>6, <2>7 DEF ListsInv, Catching
<1>17. CASE CommitRelease
  <2>1. /\ ct.at = "commit_release" /\ ct'.at = "commit_reread"
        /\ UNCHANGED <<files, index, session, nt>>
    BY <1>0, <1>17 DEF CommitRelease, Goto, CtSet, disk, memory
  <2>2. Catches'
    BY <1>5, <2>1 DEF Catching, Catches, Exists, Listed
  <2>3. \A g \in Doc \ {f} : Listed(g)' = Contained(g)'
    BY <1>4, <2>1 DEF Catching, Listed, Contained, Exists
  <2> QED
    BY <2>1, <2>2, <2>3 DEF ListsInv, Catching
<1>18. CASE CommitReread
  <2>1. ct.at = "commit_reread" /\ UNCHANGED <<files, index, session, nt>>
    BY <1>18 DEF CommitReread, disk, memory
  <2>2. Exists(f) /\ ReadFile(f) = files[f]
    BY <1>0, <1>5, <2>1, ReadsWhole DEF Catching, Catches
  <2>3. ct' = [ct EXCEPT !.at = "commit_index", !.text = files[f]]
    BY <1>18, <2>2 DEF CommitReread
  <2>4. ct'.at = "commit_index" /\ ct'.text = files[f]
    BY <1>0, <2>3 DEF CtSet
  <2>5. Catches'
    BY <1>5, <2>1, <2>4 DEF Catching, Catches, Exists, Listed
  <2>6. \A g \in Doc \ {f} : Listed(g)' = Contained(g)'
    BY <1>4, <2>1 DEF Catching, Listed, Contained, Exists
  <2> QED
    BY <2>1, <2>4, <2>5, <2>6 DEF ListsInv, Catching
<1>19. CASE CommitIndex
  <2>1. /\ ct.at = "commit_index" /\ ct'.at = "commit_reply"
        /\ index' = Indexed(f, ct.text)
        /\ UNCHANGED <<files, session, nt>>
    BY <1>0, <1>19 DEF CommitIndex, Goto, CtSet, disk
  <2>2. Exists(f) /\ ct.text = files[f] /\ (files[f] = <<>> => Listed(f) = {})
    BY <1>5, <2>1 DEF Catching, Catches
  <2>3. Listed(f)' = Contained(f)'
    <3>1. CASE files[f] = <<>>
      <4>1. IndexWords(files[f]) = {}
        BY <3>1, EmptyHasNoWords
      <4>2. index' = index
        BY <1>0, <2>1, <2>2, <3>1, IndexedLists
      <4> QED
        BY <2>1, <2>2, <3>1, <4>1, <4>2 DEF Listed, Contained, Exists
    <3>2. CASE files[f] # <<>>
      <4>1. ListedIn(index', f) = IndexWords(files[f])
        BY <1>0, <2>1, <2>2, <3>2, IndexedLists
      <4> QED
        BY <2>1, <2>2, <4>1 DEF Listed, Contained, Exists
    <3> QED
      BY <3>1, <3>2
  <2>4. ASSUME NEW g \in Doc \ {f} PROVE Listed(g)' = Contained(g)'
    <3>1. ListedIn(index', g) = Listed(g)
      BY <1>0, <2>1, <2>2, IndexedLists
    <3> QED
      BY <1>4, <2>1, <3>1 DEF Catching, Listed, Contained, Exists
  <2> QED
    BY <2>1, <2>3, <2>4 DEF ListsInv, Catching
<1> QED
  BY <1>1, <1>7, <1>8, <1>9, <1>10, <1>11, <1>12, <1>13, <1>14, <1>15, <1>16, <1>17, <1>18,
     <1>19, IndexSteps

\* As long as documents change by WRITE and CREATE only, and there are no more files than a
\* word's list or the scan of main holds, SEARCH finds a document under exactly the
\* words it contains whenever no request is being served: a commit brings the index up to date
\* although index_file skips an empty text, a crash at any system call leaves nothing stale for
\* main to start from, and no client needs to behave (storage_server.c:598-611, 1402-1426;
\* inverted_index.c:51-110).
THEOREM IndexStaysExact ==
  ASSUME Ops \cap {"undo", "revert", "delete", "move"} = {}, TmpApart
  PROVE  Spec /\ []FilesFit /\ []FewFiles => []IndexIsExact
<1>1. Init => ListsInv
  BY DEF Init, Idle, ListsInv, Catching
<1>2. FilesFit /\ FewFiles /\ DataTyped /\ PartiesInv /\ SessionInv /\ ListsInv
        /\ [Next]_vars => ListsInv'
  BY ListsInvStep
<1>3. SessionInv /\ ListsInv => IndexIsExact
  BY DEF ListsInv, IndexIsExact, Catching, Listed, ListedIn, Contained
<1> QED
  BY <1>1, <1>2, <1>3, SessionInvAlways, DataAlways, PartiesAlways, PTL DEF Spec

-----------------------------------------------------------------------------
(* The documents of the users                                              *)

LEMMA Middle ==
  ASSUME NEW x \in Text, NEW y \in Text, NEW z \in Text
  PROVE  LET u == x \o y \o z
             k == Len(x) + Len(y)
         IN k \in Len(x) .. Len(u) /\ SubSeq(u, Len(x) + 1, k) = y
<1> DEFINE v == x \o y
           u == v \o z
           a == Len(x)
           b == Len(y)
           k == a + b
           m == SubSeq(u, a + 1, k)
<1>1. a \in Nat /\ b \in Nat /\ Len(z) \in Nat
  BY TextProperties
<1>2. /\ v \in Text /\ Len(v) = k
      /\ \A i \in 1 .. k : v[i] = IF i <= a THEN x[i] ELSE y[i - a]
  <2>1. x \in Seq(Atom) /\ y \in Seq(Atom)
    BY DEF Text
  <2> QED
    BY <2>1, ConcatProperties DEF Text
<1> HIDE DEF v
<1>3. /\ u \in Text /\ Len(u) = Len(v) + Len(z)
      /\ \A i \in 1 .. Len(v) + Len(z) : u[i] = IF i <= Len(v) THEN v[i] ELSE z[i - Len(v)]
  <2>1. v \in Seq(Atom) /\ z \in Seq(Atom)
    BY <1>2 DEF Text
  <2> QED
    BY <2>1, ConcatProperties DEF Text
<1>4. a \in 0 .. Len(u) /\ k \in 0 .. Len(u) /\ a <= k
  BY <1>1, <1>2, <1>3
<1> HIDE DEF u
<1>5. m \in Text /\ Len(m) = k - a /\ \A i \in 1 .. k - a : m[i] = u[a + i]
  <2> HIDE DEF a, k
  <2> QED
    BY <1>3, <1>4, Part
<1>6. k - a = b
  BY <1>1
<1> HIDE DEF m
<1>7. ASSUME NEW i \in 1 .. b PROVE m[i] = y[i]
  <2>1. a + i \in 1 .. k /\ ~(a + i <= a) /\ (a + i) - a = i
    BY <1>1
  <2>2. a + i \in 1 .. Len(v) + Len(z) /\ a + i <= Len(v)
    BY <1>1, <1>2, <2>1
  <2>3. m[i] = u[a + i]
    BY <1>5, <1>6
  <2>4. u[a + i] = v[a + i]
    BY <1>3, <2>2
  <2>5. v[a + i] = y[i]
    BY <1>2, <2>1
  <2> QED
    BY <2>3, <2>4, <2>5
<1>8. m = y
  <2>1. m \in Seq(Atom) /\ y \in Seq(Atom) /\ Len(m) = Len(y)
    BY <1>5, <1>6 DEF Text
  <2>2. \A i \in 1 .. Len(m) : m[i] = y[i]
    BY <1>5, <1>6, <1>7
  <2> QED
    BY <2>1, <2>2, SeqEqual
<1> QED
  BY <1>4, <1>8 DEF u, v, m

\* A commit does to a text what the abstract store allows.
LEMMA SpliceReplaces ==
  ASSUME NEW t \in Text, NEW words \in Seq(Text), NEW n \in 0 .. Len(SentenceEnds(t))
  PROVE  Store!Replaces(t, Splice(t, n, words), n)
<1> DEFINE next == IF n < Len(SentenceEnds(t)) THEN EndOf(t, n + 1) ELSE Len(t)
           a == EndOf(t, n)
           head == SubSeq(t, 1, a)
           mid == JoinWords(words)
           tail == SubSeq(t, next + 1, Len(t))
           u == head \o mid \o tail
           k == a + Len(mid)
<1>1. Len(SentenceEnds(t)) \in Nat /\ Len(t) \in Nat
  BY Ends, TextProperties
<1>2. a \in 0 .. Len(t) /\ next \in 0 .. Len(t)
  <2>1. n < Len(SentenceEnds(t)) => n + 1 \in 0 .. Len(SentenceEnds(t))
    BY <1>1
  <2> QED
    BY <1>1, <2>1, Ends
<1>3. mid \in Text
  BY JoinTyped
<1>4. head \in Text /\ tail \in Text /\ Len(head) = a
  <2> HIDE DEF a, next
  <2>1. 0 \in 0 .. Len(t) /\ Len(t) \in 0 .. Len(t) /\ 0 <= a /\ next <= Len(t)
        /\ 0 + 1 = 1 /\ a - 0 = a
    BY <1>1, <1>2
  <2>2. SubSeq(t, 0 + 1, a) \in Text /\ Len(SubSeq(t, 0 + 1, a)) = a - 0
    BY <1>2, <2>1, Part
  <2>3. tail \in Text
    BY <1>2, <2>1, Part
  <2> QED
    BY <2>1, <2>2, <2>3
<1> HIDE DEF head, mid, tail, next, a
<1>5. k \in a .. Len(u) /\ SubSeq(u, a + 1, k) = mid
  BY <1>3, <1>4, Middle
<1>6. u = head \o SubSeq(u, a + 1, k) \o tail
  BY <1>5
<1> HIDE DEF u, k
<1>7. Splice(t, n, words) = u
  BY DEF Splice, u, head, mid, tail, next, a
<1>8. \E j \in a .. Len(u) : u = head \o SubSeq(u, a + 1, j) \o tail
  BY <1>5, <1>6
<1>9. Store!Replaces(t, u, n)
  BY <1>8 DEF Store!Replaces, Store!EndOf, Store!SentenceEnds, Store!Ordered,
              Store!Cardinality, EndOf, SentenceEnds, Ordered, Cardinality,
              head, tail, next, a
<1> QED
  BY <1>7, <1>9

\* The rename of a commit edits one sentence of one document.
LEMMA RenameEdits ==
  ASSUME TmpApart, DataTyped, PartiesInv, SessionInv, CommitRename
  PROVE  Store!Edit(session.key[1])
<1> DEFINE f == session.key[1]
           n == session.key[2]
           t == files[f]
           ws == session.words
<1>0. /\ f \in Doc /\ f \in Name /\ n \in Nat /\ ws \in Seq(Text)
      /\ TmpOf[f] \in Name /\ TmpOf[f] \notin Doc /\ \A g \in Doc : g \in Name
      /\ files \in [Name -> Dirent] /\ ct \in CtSet /\ ct.text \in Text /\ NoFile \notin Text
  BY KeyTyped, ServerAssumption
  DEF DataTyped, DiskTyped, MemoryTyped, ThreadsTyped, SessionSet, CtSet, TmpApart
<1>1. /\ ct.at = "commit_rename"
      /\ files' = IF Exists(TmpOf[f])
                  THEN [files EXCEPT ![f] = files[TmpOf[f]], ![TmpOf[f]] = NoFile]
                  ELSE files
  BY <1>0 DEF CommitRename, Goto, CtSet, memory
<1>2. session.active /\ ct.at \notin Renamed
  BY <1>1 DEF PartiesInv, KnownParties, CommitLabels, Renamed
<1>3. /\ t # NoFile /\ n <= Len(ParseSentences(t))
      /\ ct.text = CommitText(t, n, ws) /\ files[TmpOf[f]] = ct.text
  BY <1>1, <1>2 DEF SessionInv, SessionFits, Exists
<1>4. t \in Text
  BY <1>0, <1>3 DEF Dirent
<1>5. files'[f] = ct.text /\ \A g \in Doc \ {f} : files'[g] = files[g]
  BY <1>0, <1>1, <1>3 DEF Exists
<1> HIDE DEF f, n, ws
<1>6. n \in 0 .. Len(ParseSentences(t)) /\ n \in 0 .. Len(SentenceEnds(t))
  <2>1. Len(ParseSentences(t)) = Len(SentenceEnds(t)) /\ Len(SentenceEnds(t)) \in Nat
    BY <1>4, Sentences, Ends
  <2> QED
    BY <1>0, <1>3, <2>1
<1>7. Store!Replaces(t, files'[f], n)
  BY <1>0, <1>3, <1>4, <1>5, <1>6, CommitReplacesSentence, SpliceReplaces
<1>8. documents[f] = t /\ documents'[f] = files'[f]
  BY <1>0 DEF documents
<1>9. documents' = [documents EXCEPT ![f] = documents'[f]]
  BY <1>0, <1>5 DEF documents
<1>10. \E m \in 0 .. Len(Store!SentenceEnds(t)) : Store!Replaces(t, files'[f], m)
  <2>1. Store!SentenceEnds(t) = SentenceEnds(t)
    BY DEF Store!SentenceEnds, Store!Ordered, Store!Cardinality, SentenceEnds, Ordered,
           Cardinality
  <2> QED
    BY <1>6, <1>7, <2>1
<1> HIDE DEF t
<1>11. Store!Edit(f)
  BY <1>3, <1>8, <1>9, <1>10 DEF Store!Edit
<1> QED
  BY <1>11 DEF f

LEMMA StoreStep ==
  ASSUME Ops \cap {"undo", "revert", "delete", "move"} = {}, TmpApart, DataTyped,
         PartiesInv, SessionInv, [Next]_vars
  PROVE  [Store!Next]_documents
<1>0. nt.at = "accept" /\ ct.at \notin RewriteLabels
  BY DEF SessionInv
<1>1. CASE UNCHANGED files
  BY <1>1 DEF documents
<1>2. CASE CommitRename
  <2>1. session.key[1] \in Doc
    BY KeyTyped DEF DataTyped, MemoryTyped, SessionSet
  <2> QED
    BY <1>2, <2>1, RenameEdits DEF Store!Next
<1>3. CASE CommitWrite
  <2>1. session.key \in Key /\ ct \in CtSet
    BY DEF DataTyped, MemoryTyped, ThreadsTyped, SessionSet
  <2>2. \A g \in Doc : g # TmpOf[session.key[1]]
    BY <2>1, KeyTyped DEF TmpApart
  <2>3. files' = [files EXCEPT ![TmpOf[session.key[1]]] = ct.text]
    BY <1>3 DEF CommitWrite
  <2>4. documents' = documents
    BY <2>2, <2>3, ServerAssumption DEF documents, DataTyped, DiskTyped
  <2> QED
    BY <2>4
<1>4. ASSUME NEW f \in Doc, Create(f) PROVE Store!Next
  <2>1. files' = [files EXCEPT ![f] = <<>>] /\ files[f] = NoFile
    BY <1>4 DEF Create, Exists
  <2>2. files \in [Name -> Dirent] /\ \A g \in Doc : g \in Name
    BY ServerAssumption DEF DataTyped, DiskTyped
  <2>3. documents[f] = NoFile /\ documents' = [documents EXCEPT ![f] = <<>>]
    BY <2>1, <2>2 DEF documents
  <2> QED
    BY <2>3 DEF Store!Next, Store!Create
<1>5. CASE Rests \/ Leaves \/ Starts \/ WriteCommit \/ CommitRelease \/ CommitReread
           \/ CommitIndex \/ Die \/ Boot
           \/ \E i \in 0 .. MaxWords, w \in Insert : WriteUpdate(i, w)
  <2>1. UNCHANGED files
    BY <1>5
    DEF Rests, Leaves, Starts, StartRead, WriteCommit, CommitRelease, CommitReread,
        CommitIndex, Die, Boot, WriteUpdate, disk
  <2> QED
    BY <1>1, <2>1
<1> QED
  BY <1>0, <1>2, <1>3, <1>4, <1>5, IndexSteps

\* As long as documents change by WRITE and CREATE only, the documents on the disk go from
\* one complete edit of one sentence to the next: what the users see is the abstract store,
\* over every crash, failing write, cancelled session and expired lock
\* (storage_server.c:488-598; README.md:28).
THEOREM ServerImplementsStore ==
  ASSUME Ops \cap {"undo", "revert", "delete", "move"} = {}, TmpApart
  PROVE  Spec /\ []FilesFit => ImplementsStore
<1>1. Init => Store!Init
  BY ServerAssumption DEF Init, Store!Init, documents
<1>2. DataTyped /\ PartiesInv /\ SessionInv /\ [Next]_vars => [Store!Next]_documents
  BY StoreStep
<1> QED
  BY <1>1, <1>2, SessionInvAlways, DataAlways, PartiesAlways, PTL
  DEF Spec, ImplementsStore, Store!Spec

=============================================================================
