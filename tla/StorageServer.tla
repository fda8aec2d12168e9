---------------------------- MODULE StorageServer ---------------------------
(***************************************************************************)
(* One storage server process (storage_server/storage_server.c with        *)
(* undo_buffer.c, checkpoint_manager.c, folder_manager.c and               *)
(* inverted_index.c) and the storage directory that outlives it.           *)
(*                                                                         *)
(* Two threads change its state. client_server_thread serves one client    *)
(* connection at a time: ct is its program counter and local variables.    *)
(* ns_inbound_thread serves one request of the name server at a time: nt.  *)
(* They share the directory, where each system call is one step, and the   *)
(* search index, which no lock protects. lock_cleanup_thread and the clock *)
(* touch the lock table only.                                              *)
(*                                                                         *)
(* Requests that read and reply (READ, STREAM, SEARCH, INFO, the lists and *)
(* the views) change nothing and have no action.                           *)
(***************************************************************************)
EXTENDS SentenceParser, SentenceLock

CONSTANTS
  Name,         \* file names of the storage root
  Doc,          \* the names that requests use
  TmpOf,        \* filename -> filename.tmp
  Folder,
  Tag,          \* checkpoint tags
  NoFile,       \* no such directory entry
  Insert,       \* what a client types after the word index
  Garbage,      \* what the uninitialised buffer of a failed read may hold
  MaxContent,   \* MAX_CONTENT_LEN - 1: read_file returns no more than this
  MaxPerWord,   \* MAX_FILES_PER_WORD
  MaxScan,      \* what scan_storage_files finds at most: 100 files
  MaxSentence,  \* bound on the sentence numbers asked for
  MaxWords,     \* bound on the words of a session
  MaxText,      \* bound on the length of a file
  Ops           \* the requests and faults of this instance, a subset of AllOps

AllOps == {"write", "cancel", "stray", "undo", "checkpoint", "revert",
           "create", "delete", "move", "crash", "iofault"}

ASSUME ServerAssumption ==
  /\ Doc \subseteq Name
  /\ Doc # {} /\ Tag # {} /\ Client # {}
  /\ TmpOf \in [Doc -> Name] /\ \A f \in Doc : TmpOf[f] # f
  /\ Key = Doc \X (0 .. MaxSentence)
  /\ NoFile \notin Text
  /\ Insert \subseteq Text /\ Garbage \subseteq Text
  /\ IsFiniteSet(Name) /\ MaxPerWord \in Nat /\ MaxScan \in Nat
  /\ MaxContent \in Nat /\ MaxSentence \in Nat /\ MaxWords \in Nat /\ MaxText \in Nat
  /\ Ops \subseteq AllOps

VARIABLES
  files,        \* the root of the storage directory
  moved,        \* the files in its folders, by <<folder, name>>
  folders,      \* the folders that exist
  ckpts,        \* .checkpoints/<file>/<tag>.checkpoint, by <<file, tag>>
  storageDir,   \* the storage directory exists
  ckptDir,      \* .checkpoints exists in it
  undo,         \* undo_table: the saved text, or NoFile when not valid
  index,        \* search_index: pairs <<word, file>>
  session,      \* write_session
  ct,           \* client_server_thread
  nt,           \* ns_inbound_thread
  fd            \* where the file lives that the client thread rewrites in place

disk == <<files, moved, folders, ckpts, storageDir, ckptDir>>
memory == <<undo, index, session>>
vars == <<disk, memory, ct, nt, fd, lockVars>>

-----------------------------------------------------------------------------
NoSession == [active |-> FALSE, key |-> CHOOSE k \in Key : TRUE,
              client |-> CHOOSE c \in Client : TRUE, words |-> <<>>]

\* Between two connections. told: the client was told that its WRITE_START succeeded.
Idle(at) == [at |-> at, key |-> NoSession.key, client |-> NoSession.client,
             tag |-> CHOOSE t \in Tag : TRUE, text |-> <<>>, told |-> FALSE]

NsIdle == [at |-> "accept", file |-> CHOOSE f \in Doc : TRUE]

NoFd == <<>>

Up == ct.at # "down"
Goto(at) == ct' = [ct EXCEPT !.at = at]

Exists(f) == files[f] # NoFile

\* read_file: at most MAX_CONTENT_LEN - 1 characters.
ReadFile(f) == SubSeq(files[f], 1, IF Len(files[f]) <= MaxContent
                                   THEN Len(files[f]) ELSE MaxContent)

\* The words index_file finds: the maximal runs of alphanumeric characters.
IndexWords(t) ==
  LET solid(i) == i \in DOMAIN t /\ t[i] \in Letter
      runs == {r \in (DOMAIN t) \X (DOMAIN t) :
                 /\ r[1] <= r[2] /\ \A i \in r[1] .. r[2] : solid(i)
                 /\ ~solid(r[1] - 1) /\ ~solid(r[2] + 1)}
  IN {SubSeq(t, r[1], r[2]) : r \in runs}

\* index_remove_file
Unindexed(f) == {e \in index : e[2] # f}

\* An index_file that adds the new words and keeps the old ones.
IndexedOnTop(f, t) == index \cup {<<w, f>> : w \in IndexWords(t)}

\* index_add_word has a place for f in the list of w.
Room(w, f) == Cardinality({g \in Name \ {f} : <<w, g>> \in index}) < MaxPerWord

\* An index_add_word that takes one file more than there are places.
IndexedPastLimit(f, t) ==
  IF t = <<>> THEN index
  ELSE Unindexed(f) \cup
         {<<w, f>> : w \in {v \in IndexWords(t) :
            Cardinality({g \in Name \ {f} : <<v, g>> \in index}) <= MaxPerWord}}

\* index_file, which does not look at an empty text.
Indexed(f, t) ==
  IF t = <<>> THEN index
  ELSE Unindexed(f) \cup {<<w, f>> : w \in {v \in IndexWords(t) : Room(v, f)}}

\* What main indexes of the files in the root, in the order readdir gives them.
ScannedIndex(order) ==
  LET found == {f \in Name : Exists(f) /\ order[f] <= MaxScan}
      words(f) == IndexWords(ReadFile(f))
      earlier(w, f) == {g \in found : order[g] < order[f] /\ w \in words(g)}
  IN UNION {{w \in words(f) : Cardinality(earlier(w, f)) < MaxPerWord} \X {f} : f \in found}

\* Any order of the files that exist.
Orders == LET there == {f \in Name : Exists(f)}
          IN {p \in [there -> 1 .. Cardinality(there)] :
                \A f, g \in there : p[f] = p[g] => f = g}

\* The process ends: by a signal, or by an undefined behaviour that traps.
Die == /\ LoseTable
       /\ undo' = [f \in Doc |-> NoFile]
       /\ index' = {}
       /\ session' = NoSession
       /\ ct' = Idle("down")
       /\ nt' = NsIdle
       /\ fd' = NoFd
       /\ UNCHANGED <<disk, now>>

-----------------------------------------------------------------------------
(* The WRITE session: handle_write_session and the loop around it.         *)

\* OP_WRITE_START, file_exists. When the answer is an error the connection stays
\* open until the client closes it.
WriteStart(c, k) ==
  /\ ct.at = "accept"
  /\ "write" \in Ops
  /\ ct' = [Idle("start_lock") EXCEPT !.at = IF Exists(k[1]) THEN "start_lock" ELSE "loop",
                                      !.key = k, !.client = c]
  /\ UNCHANGED <<disk, memory, nt, fd, lockVars>>

\* A START that goes on after lock_acquire answered ERR_LOCKED.
StartLockIgnoresDenial ==
  /\ ct.at = "start_lock"
  /\ table' = [table EXCEPT ![ct.key] = [owner |-> ct.client, since |-> now]]
  /\ Goto("start_read")
  /\ UNCHANGED <<disk, memory, nt, fd, now>>

\* lock_acquire
StartLock ==
  /\ ct.at = "start_lock"
  /\ \/ Acquire(ct.key, ct.client) /\ Goto("start_read")
     \/ Denied(ct.key, ct.client) /\ Goto("loop")
  /\ UNCHANGED <<disk, memory, nt, fd, now>>

StartAccepted == /\ Exists(ct.key[1])
                 /\ ct.key[2] <= Len(ParseSentences(ReadFile(ct.key[1])))

\* The words of the sentence to edit; none for the one after the last.
WordsOf(t, n) ==
  LET s == ParseSentences(t) IN IF n = Len(s) THEN <<>> ELSE ParseWords(s[n + 1])

\* A START that keeps the oldest text for UNDO.
StartReadSavesOnce ==
  /\ ct.at = "start_read"
  /\ ct' = [ct EXCEPT !.at = "loop", !.told = StartAccepted]
  /\ IF StartAccepted
     THEN /\ session' = [active |-> TRUE, key |-> ct.key, client |-> ct.client,
                         words |-> WordsOf(ReadFile(ct.key[1]), ct.key[2])]
          /\ undo' = [undo EXCEPT ![ct.key[1]] =
                        IF @ = NoFile THEN ReadFile(ct.key[1]) ELSE @]
          /\ UNCHANGED table
     ELSE /\ Release(ct.key, ct.client)
          /\ UNCHANGED <<session, undo>>
  /\ UNCHANGED <<disk, index, nt, fd, now>>

\* read_file, the range check of the sentence number, and then either lock_release
\* or the new session with undo_save.
StartRead ==
  /\ ct.at = "start_read"
  /\ ct' = [ct EXCEPT !.at = "loop", !.told = StartAccepted]
  /\ IF StartAccepted
     THEN /\ session' = [active |-> TRUE, key |-> ct.key, client |-> ct.client,
                         words |-> WordsOf(ReadFile(ct.key[1]), ct.key[2])]
          /\ undo' = [undo EXCEPT ![ct.key[1]] = ReadFile(ct.key[1])]
          /\ UNCHANGED table
     ELSE /\ Release(ct.key, ct.client)
          /\ UNCHANGED <<session, undo>>
  /\ UNCHANGED <<disk, index, nt, fd, now>>

\* The shipped client goes on only after a START that succeeded.
Continues == ct.told \/ "stray" \in Ops

\* Only the bounds: the file and the words typed stay within MaxText and MaxWords.
RoomFor(w) == /\ Len(session.words) < MaxWords
              /\ Exists(session.key[1]) =>
                   Len(files[session.key[1]]) + Len(JoinWords(session.words)) + Len(w) < MaxText

\* OP_WRITE_UPDATE: insert before word i, or after the last.
WriteUpdate(i, w) ==
  /\ ct.at = "loop" /\ Continues
  /\ session.active
  /\ i <= Len(session.words)
  /\ RoomFor(w)
  /\ session' = [session EXCEPT !.words = InsertAt(@, i + 1, w)]
  /\ UNCHANGED <<disk, undo, index, ct, nt, fd, lockVars>>

\* What the second read of the file leaves in file_content; its result is ignored.
Reread(f) == IF Exists(f) THEN {ReadFile(f)} ELSE Garbage

\* OP_WRITE_COMMIT with a session: read again, splice, in memory.
WriteCommit ==
  /\ ct.at = "loop" /\ Continues
  /\ session.active
  /\ \E t \in Reread(session.key[1]) :
       \/ /\ ~CommitOutOfBounds(t, session.key[2])
          /\ ct' = [ct EXCEPT !.at = "commit_write",
                              !.text = CommitText(t, session.key[2], session.words)]
          /\ UNCHANGED <<disk, memory, nt, fd, lockVars>>
       \/ CommitOutOfBounds(t, session.key[2]) /\ Die

\* OP_WRITE_COMMIT without a session: an error, and the loop ends.
CommitRefused ==
  /\ ct.at = "loop" /\ Continues
  /\ ~session.active
  /\ ct' = Idle("accept")
  /\ UNCHANGED <<disk, memory, nt, fd, lockVars>>

EndSession == session' = NoSession

\* A commit that writes the file itself instead of the temporary one.
CommitInPlace ==
  /\ ct.at = "commit_write"
  /\ Goto("commit_rename")
  /\ files' = [files EXCEPT ![session.key[1]] = <<>>,
                            ![TmpOf[session.key[1]]] = ct.text]
  /\ UNCHANGED <<moved, folders, ckpts, storageDir, ckptDir, memory, nt, fd, lockVars>>

\* The temporary file, written and closed.
CommitWrite ==
  /\ ct.at = "commit_write"
  /\ Goto("commit_rename")
  /\ files' = [files EXCEPT ![TmpOf[session.key[1]]] = ct.text]
  /\ UNCHANGED <<moved, folders, ckpts, storageDir, ckptDir, memory, nt, fd, lockVars>>

\* The temporary file cannot be opened.
CommitWriteFails ==
  /\ ct.at = "commit_write"
  /\ "iofault" \in Ops
  /\ Release(session.key, session.client)
  /\ EndSession
  /\ ct' = Idle("accept")
  /\ UNCHANGED <<disk, undo, index, nt, fd, now>>

\* rename(2), its result ignored.
CommitRename ==
  /\ ct.at = "commit_rename"
  /\ Goto("commit_release")
  /\ LET f == session.key[1] IN
       files' = IF Exists(TmpOf[f])
                THEN [files EXCEPT ![f] = files[TmpOf[f]], ![TmpOf[f]] = NoFile]
                ELSE files
  /\ UNCHANGED <<moved, folders, ckpts, storageDir, ckptDir, memory, nt, fd, lockVars>>

\* lock_release, its result ignored: the lock may have expired meanwhile.
CommitRelease ==
  /\ ct.at = "commit_release"
  /\ Release(session.key, session.client)
  /\ Goto("commit_reread")
  /\ UNCHANGED <<disk, memory, nt, fd, now>>

\* The file is read once more, for the index; a file that is gone is not indexed.
CommitReread ==
  /\ ct.at = "commit_reread"
  /\ LET f == session.key[1] IN
       IF Exists(f)
       THEN ct' = [ct EXCEPT !.at = "commit_index", !.text = ReadFile(f)]
       ELSE ct' = [ct EXCEPT !.at = "commit_reply"]
  /\ UNCHANGED <<disk, memory, nt, fd, lockVars>>

\* index_file
CommitIndex ==
  /\ ct.at = "commit_index"
  /\ index' = Indexed(session.key[1], ct.text)
  /\ Goto("commit_reply")
  /\ UNCHANGED <<disk, undo, session, nt, fd, lockVars>>

\* The session ends, the client is told, the connection is closed.
CommitReply ==
  /\ ct.at = "commit_reply"
  /\ EndSession
  /\ ct' = Idle("accept")
  /\ UNCHANGED <<disk, undo, index, nt, fd, lockVars>>

\* A disconnect that leaves the lock to the cleanup thread, as the client's
\* message "lock will timeout" has it.
DisconnectKeepsLock ==
  /\ ct.at = "loop"
  /\ ~ct.told \/ "cancel" \in Ops
  /\ session' = NoSession
  /\ ct' = Idle("accept")
  /\ UNCHANGED <<disk, undo, index, nt, fd, lockVars>>

\* A disconnect that gives the lock back and leaves write_session active.
DisconnectKeepsSession ==
  /\ ct.at = "loop"
  /\ ~ct.told \/ "cancel" \in Ops
  /\ IF session.active THEN Release(session.key, session.client) ELSE UNCHANGED table
  /\ ct' = Idle("accept")
  /\ UNCHANGED <<disk, memory, nt, fd, now>>

\* The client closes the connection: CANCEL, its own end, or a START that failed.
\* Any session still active is cleaned up.
Disconnect ==
  /\ ct.at = "loop"
  /\ ~ct.told \/ "cancel" \in Ops
  /\ IF session.active
     THEN Release(session.key, session.client) /\ EndSession
     ELSE UNCHANGED <<table, session>>
  /\ ct' = Idle("accept")
  /\ UNCHANGED <<disk, undo, index, nt, fd, now>>

\* Any other operation on the connection ends the loop, and nothing is cleaned up.
UnexpectedOperation ==
  /\ ct.at = "loop"
  /\ "stray" \in Ops
  /\ ct' = Idle("accept")
  /\ UNCHANGED <<disk, memory, nt, fd, lockVars>>

-----------------------------------------------------------------------------
(* UNDO, CHECKPOINT and REVERT.                                            *)

\* handle_undo_request: undo_available and undo_restore, which takes the text out.
Undo(f) ==
  /\ ct.at = "accept"
  /\ "undo" \in Ops
  /\ undo[f] # NoFile
  /\ ct' = [Idle("rewrite_open") EXCEPT !.key = <<f, 0>>, !.text = undo[f]]
  /\ undo' = [undo EXCEPT ![f] = NoFile]
  /\ UNCHANGED <<disk, index, session, nt, fd, lockVars>>

\* checkpoint_revert, with the checkpoint open for reading.
Revert(f, t) ==
  /\ ct.at = "accept"
  /\ "revert" \in Ops
  /\ ckpts[<<f, t>>] # NoFile
  /\ ct' = [Idle("rewrite_open") EXCEPT !.key = <<f, 0>>, !.text = ckpts[<<f, t>>]]
  /\ UNCHANGED <<disk, memory, nt, fd, lockVars>>

\* fopen(filepath, "w"): the file is created, or emptied.
RewriteOpen ==
  /\ ct.at = "rewrite_open"
  /\ Goto("rewrite_data")
  /\ files' = [files EXCEPT ![ct.key[1]] = <<>>]
  /\ fd' = <<ct.key[1]>>
  /\ UNCHANGED <<moved, folders, ckpts, storageDir, ckptDir, memory, nt, lockVars>>

\* The file cannot be opened: an error reply.
RewriteFails ==
  /\ ct.at = "rewrite_open"
  /\ "iofault" \in Ops
  /\ ct' = Idle("accept")
  /\ UNCHANGED <<disk, memory, nt, fd, lockVars>>

\* fwrite and fclose, to wherever the open file is by now.
RewriteData ==
  /\ ct.at = "rewrite_data"
  /\ files' = IF Len(fd) = 1 THEN [files EXCEPT ![fd[1]] = ct.text] ELSE files
  /\ moved' = IF Len(fd) = 2 THEN [moved EXCEPT ![fd] = ct.text] ELSE moved
  /\ fd' = NoFd
  /\ ct' = Idle("accept")
  /\ UNCHANGED <<folders, ckpts, storageDir, ckptDir, memory, nt, lockVars>>

\* A checkpoint that overwrites the one of the same tag.
CheckpointOverwrites(f, t) ==
  /\ ct.at = "accept"
  /\ "checkpoint" \in Ops
  /\ Exists(f) /\ ckptDir
  /\ ct' = [Idle("ckpt_open") EXCEPT !.key = <<f, 0>>, !.tag = t]
  /\ UNCHANGED <<disk, memory, nt, fd, lockVars>>

\* checkpoint_create: the file exists, its checkpoint directory exists or can be
\* made in .checkpoints, the tag is new.
Checkpoint(f, t) ==
  /\ ct.at = "accept"
  /\ "checkpoint" \in Ops
  /\ Exists(f) /\ ckptDir /\ ckpts[<<f, t>>] = NoFile
  /\ ct' = [Idle("ckpt_open") EXCEPT !.key = <<f, 0>>, !.tag = t]
  /\ UNCHANGED <<disk, memory, nt, fd, lockVars>>

\* Both files are opened, the new one empty; the source may be gone by now.
CheckpointOpen ==
  /\ ct.at = "ckpt_open"
  /\ IF Exists(ct.key[1])
     THEN /\ ct' = [ct EXCEPT !.at = "ckpt_data", !.text = files[ct.key[1]]]
          /\ ckpts' = [ckpts EXCEPT ![<<ct.key[1], ct.tag>>] = <<>>]
     ELSE /\ ct' = Idle("accept")
          /\ UNCHANGED ckpts
  /\ UNCHANGED <<files, moved, folders, storageDir, ckptDir, memory, nt, fd, lockVars>>

\* The copy, from the file that was opened.
CheckpointData ==
  /\ ct.at = "ckpt_data"
  /\ ckpts' = [ckpts EXCEPT ![<<ct.key[1], ct.tag>>] = ct.text]
  /\ ct' = Idle("accept")
  /\ UNCHANGED <<files, moved, folders, storageDir, ckptDir, memory, nt, fd, lockVars>>

-----------------------------------------------------------------------------
(* ns_inbound_thread                                                       *)

NsReady == Up /\ nt.at = "accept"

\* OP_CREATE and OP_REPLICATE: create_file. Indexing the empty text does nothing.
Create(f) ==
  /\ NsReady
  /\ "create" \in Ops
  /\ ~Exists(f)
  /\ files' = [files EXCEPT ![f] = <<>>]
  /\ UNCHANGED <<moved, folders, ckpts, storageDir, ckptDir, memory, ct, nt, fd, lockVars>>

\* OP_DELETE: unlink(2). A file that is open is written to after its name is gone.
Delete(f) ==
  /\ NsReady
  /\ "delete" \in Ops
  /\ Exists(f)
  /\ files' = [files EXCEPT ![f] = NoFile]
  /\ fd' = IF fd = <<f>> THEN NoFd ELSE fd
  /\ nt' = [at |-> "unindex", file |-> f]
  /\ UNCHANGED <<moved, folders, ckpts, storageDir, ckptDir, memory, ct, lockVars>>

\* index_remove_file
Unindex ==
  /\ nt.at = "unindex"
  /\ index' = Unindexed(nt.file)
  /\ nt' = NsIdle
  /\ UNCHANGED <<disk, undo, session, ct, fd, lockVars>>

\* Both threads are inside inverted_index.c, which has no lock: nodes may be used
\* after they are freed, and updates of the two files may be lost.
IndexRace ==
  /\ nt.at = "unindex" /\ ct.at = "commit_index"
  /\ \/ Die
     \/ LET touched == {e \in index \cup Indexed(session.key[1], ct.text) :
                          e[2] \in {nt.file, session.key[1]}}
        IN /\ \E kept \in SUBSET touched : index' = (index \ touched) \cup kept
           /\ nt' = NsIdle
           /\ Goto("commit_reply")
           /\ UNCHANGED <<disk, undo, session, fd, lockVars>>

\* OP_CREATEFOLDER: folder_create
CreateFolder(d) ==
  /\ NsReady
  /\ "move" \in Ops
  /\ d \notin folders
  /\ folders' = folders \cup {d}
  /\ UNCHANGED <<files, moved, ckpts, storageDir, ckptDir, memory, ct, nt, fd, lockVars>>

\* OP_MOVE: folder_move_file. The index is left alone.
Move(f, d) ==
  /\ NsReady
  /\ "move" \in Ops
  /\ d \in folders /\ Exists(f) /\ moved[<<d, f>>] = NoFile
  /\ files' = [files EXCEPT ![f] = NoFile]
  /\ moved' = [moved EXCEPT ![<<d, f>>] = files[f]]
  /\ fd' = IF fd = <<f>> THEN <<d, f>> ELSE fd
  /\ UNCHANGED <<folders, ckpts, storageDir, ckptDir, memory, ct, nt, lockVars>>

-----------------------------------------------------------------------------
(* The process                                                             *)

\* lock_cleanup_thread
Cleanup == /\ Up
           /\ CleanupExpired
           /\ UNCHANGED <<disk, memory, ct, nt, fd, now>>

Crash == Up /\ "crash" \in Ops /\ Die

\* main, up to the start of the threads: checkpoint_init, whose mkdir fails while
\* there is no storage directory, then ensure_storage_dir, then the index of the
\* files in the root.
Boot ==
  /\ ct.at = "down"
  /\ storageDir' = TRUE
  /\ ckptDir' = (ckptDir \/ storageDir)
  /\ \E order \in Orders : index' = ScannedIndex(order)
  /\ ct' = Idle("accept")
  /\ UNCHANGED <<files, moved, folders, ckpts, undo, session, nt, fd, lockVars>>

Init == /\ LockInit
        /\ files = [f \in Name |-> NoFile]
        /\ moved = [e \in Folder \X Name |-> NoFile]
        /\ folders = {}
        /\ ckpts = [e \in Doc \X Tag |-> NoFile]
        /\ storageDir \in BOOLEAN
        /\ ckptDir = FALSE
        /\ undo = [f \in Doc |-> NoFile]
        /\ index = {}
        /\ session = NoSession
        /\ ct = Idle("down")
        /\ nt = NsIdle
        /\ fd = NoFd

ClientStep ==
  \/ StartLock \/ StartRead
  \/ CommitWrite \/ CommitWriteFails \/ CommitRename \/ CommitRelease
  \/ CommitReread \/ CommitIndex \/ CommitReply
  \/ RewriteOpen \/ RewriteFails \/ RewriteData
  \/ CheckpointOpen \/ CheckpointData

ClientRequest ==
  \/ \E c \in Client, k \in Key : WriteStart(c, k)
  \/ \E i \in 0 .. MaxWords, w \in Insert : WriteUpdate(i, w)
  \/ WriteCommit \/ CommitRefused \/ Disconnect \/ UnexpectedOperation
  \/ \E f \in Doc : Undo(f)
  \/ \E f \in Doc, t \in Tag : Checkpoint(f, t) \/ Revert(f, t)

NsStep ==
  \/ \E f \in Doc : Create(f) \/ Delete(f)
  \/ \E d \in Folder : CreateFolder(d)
  \/ \E f \in Doc, d \in Folder : Move(f, d)
  \/ Unindex \/ IndexRace

ClockTick == Tick /\ UNCHANGED <<disk, memory, ct, nt, fd>>

Next == ClientStep \/ ClientRequest \/ NsStep \/ Cleanup \/ ClockTick \/ Crash \/ Boot

Spec == Init /\ [][Next]_vars

\* The threads keep running; clients need not.
FairSpec == Spec /\ WF_vars(ClientStep) /\ WF_vars(Cleanup) /\ WF_vars(Unindex)

-----------------------------------------------------------------------------
AtLabels == {"down", "accept", "start_lock", "start_read", "loop", "commit_write",
             "commit_rename", "commit_release", "commit_reread", "commit_index",
             "commit_reply", "rewrite_open", "rewrite_data", "ckpt_open", "ckpt_data"}

Dirent == Text \cup {NoFile}

TypeOK ==
  /\ LockTypeOK
  /\ files \in [Name -> Dirent]
  /\ moved \in [Folder \X Name -> Dirent]
  /\ folders \subseteq Folder
  /\ ckpts \in [Doc \X Tag -> Dirent]
  /\ storageDir \in BOOLEAN /\ ckptDir \in BOOLEAN
  /\ undo \in [Doc -> Dirent]
  /\ index \subseteq Seq(Letter) \X Name
  /\ \A e \in index : Cardinality({f \in Name : <<e[1], f>> \in index}) <= MaxPerWord
  /\ session \in [active : BOOLEAN, key : Key, client : Client, words : Seq(Text)]
  /\ ct \in [at : AtLabels, key : Key, client : Client, tag : Tag, text : Text,
             told : BOOLEAN]
  /\ nt \in [at : {"accept", "unindex"}, file : Doc]
  /\ fd \in {NoFd} \cup {<<f>> : f \in Doc} \cup (Folder \X Doc)

\* The labels of the client thread between lock_acquire and lock_release.
MayHoldLock == {"start_read", "loop", "commit_write", "commit_rename", "commit_release"}

\* The one lock there can be is the one of the connection being served: with the
\* shipped client no lock outlives its connection, whatever path ends it, and a
\* WRITE_START never meets a lock (storage_server.c:352, 366, 381, 586, 604, 1189).
NoLockOutlivesItsConnection ==
  "stray" \notin Ops =>
    \A k \in Key : Held(k) =>
      /\ ct.at \in MayHoldLock
      /\ ct.key = k
      /\ table[k].owner = ct.client

\* The global write_session is the one of the connection being served
\* (storage_server.c:332, 408-413, 1188-1193).
SessionIsTheConnections ==
  "stray" \notin Ops =>
    /\ session.active <=> ct.told
    /\ session.active => /\ session.key = ct.key
                         /\ session.client = ct.client

\* From WRITE_START until the rename of its commit, no UNDO, REVERT or other WRITE
\* has come between: the file still has the text saved for UNDO, unless the name
\* server deleted, moved or re-created it (storage_server.c:418, 489, 1150-1209).
UndoHoldsSessionText ==
  (/\ "stray" \notin Ops
   /\ session.active
   /\ ct.at \in {"loop", "commit_write", "commit_rename"}) =>
      LET f == session.key[1] IN
        /\ undo[f] # NoFile
        /\ files[f] \in {undo[f], <<>>, NoFile}

\* The lock of an open session lasts until LOCK_TIMEOUT, whatever the cleanup
\* thread does meanwhile (sentence_lock.c:168, storage_server.c:1282-1283).
SessionKeepsLiveLock ==
  [][(/\ "stray" \notin Ops
      /\ session.active /\ session'.active
      /\ ct.at # "commit_release"
      /\ Held(session.key) /\ ~Expired(session.key))
     => Held(session.key)']_vars

\* Once made, a checkpoint is never written again, nor removed with its file, moved or
\* lost: only the request that made it changes it (checkpoint_manager.c:77-80).
CheckpointsNeverChange ==
  [][\A e \in Doc \X Tag :
       (ckpts[e] # NoFile /\ ckpts'[e] # ckpts[e]) =>
         ct.at = "ckpt_data" /\ e = <<ct.key[1], ct.tag>>]_vars

\* The server uses its lock table as sentence_lock.c allows: a START that was denied
\* changes no lock (storage_server.c:352-359).
ServerObeysLockTable == LockSpec

\* Any lock, leaked by an unexpected operation or kept by a silent client, goes at
\* the latest some time after it expired (storage_server.c:1205-1208, 1277-1287).
LeakedLocksGo == \A k \in Key : Expired(k) ~> ~Expired(k)

\* Between requests the index lists a document under exactly the words it contains
\* (storage_server.c:606-611, 982: "Files containing '%s'").
IndexIsExact ==
  (ct.at = "accept" /\ nt.at = "accept") =>
    \A f \in Doc :
      {e[1] : e \in {x \in index : x[2] = f}} =
        IF Exists(f) THEN IndexWords(files[f]) ELSE {}

\* What users see of the storage directory.
documents == [f \in Doc |-> files[f]]

Store == INSTANCE DocumentStore WITH docs <- documents, NoDoc <- NoFile

\* With WRITE and CREATE alone, every change of a document that its users can see is an
\* edit of one sentence of the text it then has, at one instant, whatever is lost in a
\* crash (storage_server.c:488-598, README.md:28).
ImplementsStore == Store!Spec
=============================================================================
