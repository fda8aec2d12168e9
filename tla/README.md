# Verification of Docs++

TLA+ models of Docs++ (`src/`): its two servers, its client, and the three together, checked
with TLC, and theorems about them proved with TLAPS. File and line numbers below are those
of `src/`.

## 1. The system

| Component | Source | State | Operations |
|---|---|---|---|
| Sentence parser, commit | `storage_server/sentence_parser.c`, `storage_server.c:480-620` | none | split a text into sentences and words, splice an edited sentence back in |
| Sentence lock table | `storage_server/sentence_lock.c` | hash table of (file, sentence) -> owner, time; a mutex | acquire, release, cleanup of expired locks |
| WRITE session | `storage_server/storage_server.c:315-640` | one global `write_session`; the local variables of the client thread | START, UPDATE, COMMIT (ETIRW), disconnect (CANCEL) |
| Undo buffer | `storage_server/undo_buffer.c` | one saved text per file, in memory | save, available, restore |
| Checkpoints | `storage_server/checkpoint_manager.c` | `.checkpoints/<file>/<tag>.checkpoint` | create, revert, view, list |
| Folders | `storage_server/folder_manager.c` | subdirectories | create, move a file into one |
| Inverted index | `storage_server/inverted_index.c` | word -> files, in memory, no lock | index a file, remove a file, search |
| Storage server process | `storage_server/storage_server.c` (`main`, threads) | two listening ports; client, name server, cleanup, heartbeat threads | start, register, serve |
| Access control list | `nameserver/acl.c` | hash table file -> owner, readers, writers; `acl_data.db` | add and remove files and users, check, save, load |
| Access requests | `nameserver/access_requests.c` | array of 100 requests | add, approve, deny |
| File map, cache, replication | `nameserver/nameserver.c:60-510` | hash map file -> server, LRU cache, replication map, list of files per server | find, add, remove, round robin |
| Registry and failure detection | `nameserver/nameserver.c:519-690`, `:2067-2097`, `:2264-2297` | servers with `is_alive` and `last_heartbeat`; clients | register, heartbeat, mark dead |
| Request handlers | `nameserver/nameserver.c:692-2063` | the main loop, one connection at a time | CREATE, DELETE, READ, ADDACCESS, ... |
| Client | `client/client.c` | one connection at a time | the commands of the shell, Ctrl-C |
| Protocol, sockets, logger, build | `common/`, `Makefile` | none | fixed-size messages over TCP |

**Interactions.** A client asks the name server, which answers file requests with the
address of a storage server or forwards them to the storage server's name-server port and
waits for the reply. The client then connects to the storage server's client port, which
serves one connection from beginning to end before it accepts the next. The storage server
registers with the name server and sends it heartbeats every five seconds. No socket has a
timeout. Within a storage server the two serving threads share the storage directory and
the search index without a lock, and the client thread and the cleanup thread share the
lock table under its mutex. Within the name server the main loop and the failure detection
thread share `is_alive` and `last_heartbeat` without a lock.

**What is hard.**

- Storage server: a WRITE session spans many messages and can end in many ways, each with
  its own release of the lock and reset of the session; a lock may expire while its owner
  works; the name server deletes, moves or re-creates a document between two system calls
  of the client thread; the process dies between any two system calls; the document is read
  again between the check of a sentence number and its use; two loops with different index
  bases must agree on where the last sentence ends.
- Name server: what it knows of the servers, the cache, the map, the replication map, the
  lists of files, is changed by six handlers and read by one lookup; a heartbeat races the
  failure detection; it waits for servers that die, or that wait for it; requests for
  access outlive the files and owners they were made about; the file with the access
  rights is rewritten in place.
- Together: five kinds of process wait for each other without a timeout. A client port serves
  one connection from its beginning to its end, a WRITE session for as long as its user
  likes, and the name server itself is one of those who wait there. Users leave at any time,
  and what they asked for is still in some queue, or being answered.

**What makes each part correct.** A commit replaces its sentence and nothing else, at any
crash entirely or not at all. A sentence has one editor; its lock and session end with the
connection, a lock nobody gives back goes after the timeout. UNDO restores the text before
the last edit. A checkpoint never changes. The index lists what the documents contain.
Access to a file comes from its owner and survives a restart, and what was taken away does
not come back. The cache never contradicts the map. A dead server is noticed, a live one
is not lost, and a file is found while a live server has it. Whoever waits is in exactly
one queue, where its answer comes from, and nobody else is in any; so every command ends and
the name server comes back to its loop.

## 2. Modules

| Module | Models |
|---|---|
| `SentenceParser` | `parse_sentences`, `parse_words`, `rebuild_file` and the commit's splice, as closed forms on sequences of atoms: letters, the space, the delimiter |
| `SentenceScan` | the same functions loop by loop, with C's 0-based indices, and the texts that edits produce |
| `SentenceLease` | abstract: a sentence is held by one client or nobody, and passes from one client to another only through nobody |
| `SentenceLock` | the lock table, one action per function, with its clock; `holder` maps it to `SentenceLease` |
| `StorageServer` | the storage server process and its directory; extends `SentenceParser` and `SentenceLock` |
| `DocumentStore` | abstract: a document is created empty, then each change is one edit of one sentence of the text it has at that moment; `documents` maps the files to it |
| `StorageHistory` | `StorageServer` with what its users remember: the acknowledged text, the one under way, the one before the last edit |
| `AccessControl` | `acl.c`, its copy on disk, `access_requests.c` |
| `NameServer` | the name server and what it sees of the storage servers; extends `AccessControl` |
| `Docs` | the whole system: the shells of the users, the name server, the client ports; extends `NameServer` |
| `SentenceParserProofs`, `SentenceScanProofs` | theorems about texts: parsing, commit, the loops |
| `SentenceLockProofs`, `StorageServerProofs` | theorems about the lock table, and about the storage server, its index, its documents and its history |
| `NameServerProofs`, `DirectoryProofs`, `DocsProofs` | theorems about access rights, about the tables of the name server, about the whole system |
| `NaturalLemmas` | least and greatest elements of sets of numbers, and ranks in them |
| `MCSentenceScan`, `MCStorageServer`, `MCStorageHistory`, `MCNameServer`, `MCDocs` | constants for TLC |

### Storage server

`ct` is the client thread: `ct.at` is where it stands, `ct.key`, `ct.client`, `ct.tag`,
`ct.text` are its local variables, and `ct.told` records that its client was told that START
succeeded. `nt` is the thread that serves the name server. Each system call on the storage
directory is a step of its own, so `Create`, `Delete` and `Move` come between any two of
them, and so does `Crash`:

- `WriteStart`, `StartLock`, `StartRead`: `file_exists`, `lock_acquire`, then the read, the
  range check, and `undo_save`.
- `WriteUpdate`: a word typed before or after another one.
- `WriteCommit`, `CommitWrite`, `CommitRename`, `CommitRelease`, `CommitReread`,
  `CommitIndex`, `CommitReply`: the commit. `WriteCommit` reads the document again and
  ignores whether this worked; the buffer then holds whatever the stack held
  (`Garbage`), and an index past the sentences found in it may end the process.
- `Disconnect`, `CommitRefused`, `UnexpectedOperation`: how else a session ends.
- `Undo`, `Revert`, then `RewriteOpen`, `RewriteData`: `fopen("w")` empties the document
  before the new text is written to wherever the open file is by then (`fd`).
- `Checkpoint`, `CheckpointOpen`, `CheckpointData`.
- `Create`, `Delete`, `Unindex`, `CreateFolder`, `Move`: the thread of the name server.
  `IndexRace` is two threads inside `inverted_index.c` at once: any update may be lost, or
  the process dies.
- `Cleanup`, `Tick`, `Crash`, `Boot`.

Texts are sequences of atoms. The shell's client never sends `UPDATE` or `COMMIT` after a
refused START, nor any other operation on the connection of a session; the op `"stray"`
allows such clients, which the protocol does not exclude.

### Name server

`ns` is the main loop: idle, waiting for a storage server, with its answer, about to save,
between the two halves of `acl_save`, about to replicate, between two files of a VIEW -l, in
a SEARCH, or down. `suspect` is the server that the failure detection thread has found late
and not yet marked. A storage server here is its process (`status`), the files of its
directory (`stores`) and the requests that wait at its port (`queue`), which the kernel
accepts from `listen` on, before the server serves. Handlers that only read have no action;
VIEW -l (`ViewAsk`, `ViewGoesOn`) changes the cache and asks a server for each file it
lists, so it has. `CreateRecord` and `DeleteRecord` end in the save that `SaveOpen` and
`SaveData` make, two steps with crashes between.

`Ops` selects the requests and faults of an instance. Every action exists in the module;
its guard asks whether its op is in `Ops`.

### The whole system

`Docs` adds to `NameServer` what clients wait for:

- `shell[u]` is the shell of user `u`: off, at its prompt, asking the name server
  (`receive_message` after the request), routed (it has an address and has not connected),
  waiting for a storage server, or at the prompt of a WRITE session. Each command
  of `client.c` is a record `Cmd...`: what it asks the name server for, and what it then does
  at the storage server it is routed to.
- `inbox` is the set of requests at the port of the name server. `HandleConnection(u)` is the
  main loop that takes one (`select` finds any of them first); `guest` is the user whose
  request a handler serves while it waits, saves or replicates.
- `line[s]` is the queue of connections at the client port of `s`, in the order the kernel
  accepts them, and `thread[s]` the client thread, which takes one (`Accept`) and keeps it:
  `Send` for each message of READ and STREAM, `SaveWord`, `Commit` and `HangUp` for a WRITE
  session. What `StorageServer` does system call by system call is one step here, with the
  answers it may give.
- A handler of `NameServer` is the same action here, with `HandlerGoesOn`, which answers the
  guest when the handler is through. `SearchFrom` is the loop of `handle_search_request`: it
  puts the name server (`NsCaller`) into the line of one server after the other.
- `Interrupt` is Ctrl-C at any point: the request stays where it is, the connection is
  closed, UNREGISTER goes to the name server. `thread[s].peer` is what the socket of the
  server knows of that: the peer is there, gone, or has reset the connection, after which
  `send` raises SIGPIPE and the process ends (`SigPipe`), since nothing handles the signal.
- `Falls` is the end of a server: its connections close, and each shell or handler that waits
  for it sees this; a user in a WRITE session sees it with the next line.

`Serve` of `NameServer` and `ClientThread` of `Docs` are what the threads of `StorageServer`
look like from outside. The documents and their texts stay in `StorageServer`.

## 3. Runs

Passing:

| Run | Properties | Shows |
|---|---|---|
| `sentence_scan` | `LoopsMatchClosedForms`, `ParseIsLossless`, `CommitIsSplice`, `CommitMatchesClosedForm` | on every text that edits reach, the loops compute the closed forms the other modules use, parsing loses no character, a commit replaces one sentence |
| `session` | `TypeOK`, `NoLockOutlivesItsConnection`, `SessionIsTheConnections`, `UndoHoldsSessionText`, `SessionKeepsLiveLock`, `CheckpointsNeverChange` | two clients with every request and fault but `"stray"`: locks and sessions end with their connections, a live lock stays, the file under edit is the one saved for UNDO, checkpoints stay |
| `stray` | `IndexIsExact`, `ServerObeysLockTable`, `ImplementsLease`, `LeakedLocksGo` | with clients that send anything and crashes at any step: the server uses the lock table as its functions allow, the lock table implements the lease, leaked locks go, the index is exact |
| `edits` | `UndoIsLastEdit`, `EditKeepsOtherSentences`, `DocumentsSurvive`, `ImplementsStore` | when every session is committed, with a server that crashes at any step: an edit changes its sentence only, entirely or not at all, the undo buffer has the text before the last edit, and the files implement the abstract store. UNDO, REVERT and CANCEL are left to `rewrite_crash` and `undo_cancel` |
| `access` | `TypeOK`, `CacheAgrees`, `DiskGrantsNoMore`, `RightsComeFromOwner` | three users share, request, delete and re-create a file while the name server crashes at any step |
| `directory` | `CacheAgrees` | a file on two servers that crash and register again with what they have, replication, deletion, and a name server that crashes at any step and cannot always save |
| `commands` | `DocsTypeOK`, `WaitersAreQueued`, `DeadServersNoticed`, `LiveServersReturn`, `CommandsEnd`, `NameServerComesBack` | two users, the owner of a document with CREATE, STREAM and WRITE, the other with READ, SEARCH and VIEW -l, Ctrl-C at any time, a server that crashes and is started again: every command ends, the name server is never stuck, failure detection works against heartbeats, if users end their WRITE sessions |

Violations, each of a sentence of the repository:

| Run | Property | What the counterexample shows |
|---|---|---|
| `undo_cancel` | `UndoIsLastEdit` | START saves the undo text (`storage_server.c:418`), so a cancelled session replaces the text before the last edit; UNDO then does nothing. README.md:40 promises to "revert your most recent edit". |
| `rewrite_crash` | `DocumentsSurvive` | UNDO and REVERT empty the document first (`storage_server.c:655`) and the undo text is in memory: a crash loses the document. README.md:159: "All files and ACL data survive restarts". |
| `acl_restart` | `AclSurvivesRestart` | `acl_load`'s `sscanf` (`acl.c:432`) stops at an empty list of readers, so the writers after it are lost at every restart. |
| `failover` | `FailoverFindsCopy` | CREATE lets the map *and* the replication entry name the replica (`nameserver.c:824`): when it dies the other copy is not found. `nameserver.c:430`: "Failover: If primary SS is dead, try replica". |
| `search` | `NameServerComesBack` | SEARCH waits at the client port of a server (`nameserver.c:2025`), where a WRITE session is open: the name server serves nobody until its user ends it. Nobody crashes or leaves. README.md:127: "`select()` multiplexing for concurrent connections". |

### Bounds, and why they suffice

- `sentence_scan`: texts of at most 9 atoms over two letters, built by edits with four kinds
  of typed strings. This has three sentences, empty ones, delimiters at both ends, and a
  last sentence with and without delimiter; the loops carry no state across more than one
  sentence.
- `StorageServer`: one document and its temporary file (nothing in the code relates two
  documents but the index, whose entries are by file), sentence numbers 0 and 1 (and 2 in
  `edits`: the first sentence, the one after the last, and out of range), texts of 3 atoms
  (6 in `edits`, which has sentences before and after the edited one), sessions of one word
  (two in `edits`), one tag, one folder, two clients to contend for a lock. `LockTimeout =
  1`; `MaxTime = 1` lets a lock expire once, and 3 (`stray`) lets a leaked lock expire, be
  taken over and expire again. `MaxContent = 20` exceeds every text, so `read_file` is
  whole. The code's 50 files per word and 100 files scanned are `MaxPerWord` and `MaxScan`: with
  `MaxPerWord = 1` (`session`) the document and its temporary file, which a crash may leave
  behind, compete for the one place; with 2 everything fits, as `IndexIsExact` needs.
- `NameServer`: `access` has one file and one server, as rights do not depend on servers,
  and three users: an owner, a later owner after deletion and re-creation, and one who asked
  the first; `AclMaxUsers = 1` fills the lists, `MaxRequests = 2` the table, `MaxClients =
  1` the registry of clients. `directory` has one file and two servers, the number CREATE
  uses, up to symmetry: their order is that of the registry, and no step chooses one by
  name; `MaxFiles = 1` makes a list full with its first file. `CacheAgrees` can fail with four
  servers and a full list (section 4); the theorem covers every other case. With one file no
  cache entry is evicted for another and a VIEW -l has one file to ask about; two files with
  name server crashes and failing disks are beyond a run of minutes. `MaxQueue` is the number of
  requests that can wait. `Timeout = 0` makes a heartbeat late after one tick; only late or
  not matters.
- `Docs`: one server, two users and one document, since liveness is checked and larger
  instances take too long. That is one connection in service and two in line with the
  name server's, enough for everyone to wait for everyone, for a connection left behind before
  one that is waited for, and for a refused READ. `MaxWords = 1`: one message before STOP, so
  that a send can fail. A user whose old connections are still in some queue does not start
  a new shell (`Leftover`), which bounds the queues. `QuickRestart = FALSE`: a server is
  started again only after it has been marked dead; with TRUE `NameServerComesBack` does not
  hold, see section 5. The name server does not crash in `commands`; that is in `access`
  and `directory`.
- In passing runs `CHECK_DEADLOCK` stays on: the servers can always do something.

### Fairness

`stray`: the client thread goes on (it does not wait for a client between two system calls),
the cleanup thread runs, the thread of the name server finishes what it started. No
fairness for clients: they may fall silent in a session forever, and `LeakedLocksGo` holds
all the same. `FairProcesses` of `Docs`: weak fairness for what a process does whenever it
can: the rest of a handler, time, the rounds of the failure detection thread and its
decision, the two threads of a storage server, a shell with an address, which connects.
Strong fairness for the main loop taking the request of each user, and for heartbeats and
registrations, because the loop `select`s over all connections and goes through every one
that is ready, though it is busy with others in between. Users may type nothing, leave or
stay; nobody has to start or crash a server. `FairUsers` adds that users end their WRITE
sessions (strong fairness, as a session is interrupted by the words they type): nothing
in the code sees to that, and run `search` shows that without it the name server can be
held up.

## 4. Theorems

All are about `Spec`, `HistorySpec` or `DocsSpec` without bounds on the constants, from the
named `ASSUME`s of the modules: `AtomAssumption`, `InsertAssumption`, `LockAssumption`,
`ServerAssumption`, `AccessAssumption`, `NameServerAssumption`, `DocsAssumption`. They say that
sets are what their names say, that special values are not elements of the sets they complete,
that there is at least one file, user and server, that a temporary file has another name than
its document, that what is typed or left in a buffer is a text, that there are finitely
many file names (they have a fixed length), and that bounds are numbers. A theorem with a further hypothesis names it.

**Texts** (`SentenceParserProofs`, `SentenceScanProofs`). For every text over any alphabet:
- `ParsingLosesNothing`: `RebuildFile(ParseSentences(t)) = t`. `CommitReplacesSentence`:
  `CommitText(t, n, words) = Splice(t, n, words)` for every `n` a START accepts: whatever
  delimiters the words bring, a commit replaces one sentence and moves no other character.
- `LoopsComputeClosedForms`, `FilesParseLosslessly`, `CommitComputesClosedForm`,
  `CommitIsAlwaysSplice`: what run `sentence_scan` checks on small texts.

The closed forms cut a text at an ordered set of positions, its delimiters or the ends of its
words (`Ordered`), which has no recursion in it: a sentence is the `SubSeq` between two
neighbours. Two things carry the proofs. The first is how `Ordered` changes when the text
grows by a character, for which `NaturalLemmas` has ranks in a finite set of numbers. The second is
that `FlattenSeq` of such pieces is the text up to the last of them. Each is an induction on
a position, stated for the set of positions where it holds, since the
library's induction rules take an operator and cannot be instantiated. The loops are recursive
functions of the position, `scan[p]`, whose value is shown to be the sentences before the last
delimiter up to `p`, with where the next one starts.

**Lock table** (`SentenceLockProofs`). `LockTyped`; `LockImplementsLease`: every operation
maps to `Take` or `Free` of the lease. Key fact: a lock taken now is not expired
(`LockTimeout > 0`), and cleanup and the clock only free.

**Storage server** (`StorageServerProofs`).
- `ServerLockTable`, `ServerImplementsLease`: every step is a step of the lock
  table or leaves it, which needs that whoever takes or gives back a lock is a client with a
  key (`PartiesInv`). The lease of the whole server then follows from the lock table's.
- `LocksEndWithConnections`, `SessionFollowsConnection`, with a client that is not stray. The
  inductive invariant `ConnectionInv` adds to the two properties where a session can be and
  that a connection in the loop without a session left no lock behind: without these a
  `Disconnect` from a state with a lock and no session would falsify the first property.
- `LiveLocksStay`: an action property from the same invariant.
- `CheckpointsStay`: needs that `ckpt_open` is only reached for a tag that is new, and stays
  new, since only one connection is served.
- `ServerTyped`: the type invariant, from what parser, splice and insertion return of texts. Its
  last conjunct, that no word has more files than its array has places, is preserved
  because `index_file` removes its file before it adds it, also when two threads do this at once
  (`ListsFit`), and because the start looks at the files one after the other (`ScannedFits`).
- `UndoKeepsSessionText`: `UndoHoldsSessionText`, if `FilesFit`: no file is longer than what
  `read_file` returns of it. `SessionSteps` lists what can happen to a session and its file
  between START and rename: it begins, grows, computes, writes its temporary file, or waits
  while the name server's thread creates, deletes or moves.

- `IndexStaysExact`: `IndexIsExact`, if nothing undoes, reverts, deletes or moves, if
  `FilesFit`, and if there are no more files than the list of a word and the scan hold
  (`FewFiles`). Each condition is needed: UNDO, REVERT and MOVE do not index, a
  DELETE races with the index of a commit, a file that finds a list full stays out. The
  inductive invariant has two parts. `SessionInv`: before its rename a session still fits its
  file, and either its sentence had no words or the session has one. `ListsInv`: every
  document is listed under its words, except the one that a commit has renamed and not yet
  indexed. The delicate case is a commit that leaves the document empty, which `index_file`
  skips: the old entries would stay. `EmptiedWasBlank` (`SentenceParserProofs`) shows that such
  a commit replaced white space, so that there was nothing listed: a sentence without words
  is white space, a session that began with words still has one, as UPDATE
  only inserts, and what it writes is then not empty.
- `ServerImplementsStore`: the files of the documents implement `DocumentStore`, under the same
  conditions but `FewFiles`. Of all steps only `Create` and `CommitRename` are visible
  there; that the second is an `Edit` follows from `SessionInv`, as the file is still the
  one the session read, and from `CommitReplacesSentence`. Stray clients, expired locks,
  cancelled sessions, failing writes and crashes at any system call are allowed. Two users
  can thus not overwrite each other's sentences (README.md:28), though the lock of the first
  may have expired: here it is the one connection at a time that sees to it.

**What the users remember** (`StorageServerProofs`, about `HistorySpec`). `WatchCases` and
`FileSteps` say which steps the history and the files can see. Each theorem has conditions on
`Ops`, the requests and faults of an instance; without them it does not hold.
- `CommitsSurvive`: `DocumentsSurvive`, without UNDO and REVERT (run `rewrite_crash` shows what
  those do) and if no temporary name is a document's (`TmpApart`; a user may create `a.tmp`
  beside `a`, and a commit to `a` then replaces and removes it). Crashes at any step, failing disks, stray clients,
  deletions and moves are allowed, and so are files that do not fit. The inductive invariant
  `DocsInv` says that a document is the acknowledged text, except between rename and reply,
  where it is the pending one, and that the temporary file holds the pending text at the
  rename.
- `EditsKeepOtherSentences`: `EditKeepsOtherSentences`, if `FilesFit`, clients are not stray
  and nothing is deleted or moved. `EditInv`: from START to rename the file is the one that
  START read, so the sentence number checked then is still in range, and the text computed is
  `CommitText` of it; then `CommitReplacesSentence`.
- `UndoGivesLastEdit`: `UndoIsLastEdit`, if moreover no session is cancelled (run
  `undo_cancel`) or fails to write. `UndoInv` says that the saved text is the one before the last edit unless the
  session about to make the next edit is open; `EditInv` gives what the rename needs.

**Name server** (`NameServerProofs`).
- `AnswersFindTheirHandler` (`AccessInv`): at most one request in all the queues asks for an
  answer, and the main loop waits for it at that server; with the types of the
  access data. A crash of either side is where this could break: `NsCrash` leaves
  requests behind that nobody waits for any more, `ServerCrash` drops them and wakes the
  waiting handler.
- `AccessComesFromOwner`: while the name server runs, a user who gets access created the file,
  or got it by an ADDACCESS of its owner or by the approval of a request made to
  that owner. An approval changes one entry and one list; the request it answers names the
  owner it was made to.
- `DiskNeverGrantsMore`, if writing `acl_data.db` does not fail (`"savefault"` not in `Ops`).
  `DiskInv` extends the property from the idle loop to the states from which a handler gets
  back to it without a save: waiting, with an answer, about to replicate. That an answer
  comes only to a waiting handler is needed here. If writing fails it does not hold: no
  caller looks at the result of `acl_save`, and a REMACCESS that is not saved is undone by
  the next restart.

**Name server: map, cache, replication** (`DirectoryProofs`).
- `NameServerTyped`: the type invariant, by a lemma for each handler. It rests on `CacheTyped`:
  inserting into the cache, dropping an entry and dropping all entries of a server yield
  sequences of entries.
- `CacheFollowsMaps`: `CacheAgrees`, that a file is cached once, only while the map has it,
  and with a server that the map or the replication map names. The inductive invariant
  `CacheInv` adds to it, over the type invariant, `CreatedNotCached`: from the answer to a
  CREATE until its replica is chosen, the file is not cached, so that a new replication entry
  cannot contradict the cache.
  `lru_invalidate` removes only the first entry of a file, which is enough because no file has
  two; that this stays so under eviction and reordering is most of the work on sequences.
- The theorem assumes `RoomForCreated`: the server that answers a CREATE has room in its list of
  files. Without room `add_file_to_ss` does nothing, so the map and the cache keep the old
  server, and `add_replication_entry` changes the replication map all the same
  (`nameserver.c:809`): the cache may then name a live server that neither map names. For this
  a file must have been moved from a dead pair of servers to a third with a full list, with
  its replica on a fourth. The attempt at a proof without the assumption showed
  this; no run has four servers, so no run shows it.

**The whole system** (`DocsProofs`). `WaitersFindTheirAnswer`: `WaitersAreQueued` holds for any
users, servers, files, commands and numbers of words, with crashes, interrupts, SIGPIPE and
restarts, quick ones too. The inductive invariant `DocsInv` is

- per user (`UserOk`): the question is in one place, the inbox, the hands of a handler, the
  line or the thread of the server the shell waits for, and in the state that
  goes with the place; a user who does not wait is nowhere;
- `HandlerHasGuest`: a handler is under way exactly when it has a guest, without which the end
  of a handler would answer nobody, or the wrong one;
- `SearchWaits`: the name server stands in a line only for the search it is in, without which
  an answer to an earlier one could end a later one;
- the types of the shells, threads, lines and requests, and `NsShape` and `OneQuestion` of
  the name server, which say that an answer in its port's queue is for the handler that
  waits.

The proof has a lemma for each action, over lemmas on queues: what appending and taking away
the head does to the places of a user (`AppendedOwn`, `TailOwn`, ...). `UserFrame` carries all
users that a step does not touch.

`DocsTyped` adds the types of the name server's tables, which are kept by the handlers of
`NameServer` (lemmas of `DirectoryProofs`) and by what `Docs` has besides, the loops of SEARCH and
VIEW -l and the commits and deaths of servers. With them the other properties of the name
server hold in the whole system too, where a session or a SIGPIPE may come between any two of
its steps: `DocsAccessComesFromOwner`, `DocsCacheFollowsMaps` (with `RoomForCreated`),
`DocsDiskNeverGrantsMore` (without `"savefault"`).

**Model-checked only.** The liveness properties (`LeakedLocksGo`, `DeadServersNoticed`,
`LiveServersReturn`, `CommandsEnd`, `NameServerComesBack`): they are about fairness and
`ENABLED`, which the provers do not reach. Every invariant and action property of a passing
run is the property of a theorem.

## 5. Seen, and not checked by a run

No line of the repository says what should hold, or a property would restate one guard.

- DELETE removes one copy of a replicated file; the other comes back, without owner, when its
  server registers again. The entry in the replication map outlives the file.
- After a restart of the name server the registry is empty and heartbeats are answered
  `ERR_NOT_FOUND`; a storage server never registers a second time.
- A storage server listens before it registers and serves only after
  (`storage_server.c:1486-1489`). If it restarts before it was marked dead, the name server
  may already be waiting at its port, or at its client port in a SEARCH, for an answer that
  needs the registration first, while the server waits for the name server to take its
  registration: both wait for ever (`QuickRestart = TRUE`, TLC shows it).
- `handle_stream_request` expects a failed send when its client leaves
  (`storage_server.c:733`), but the process is killed by SIGPIPE. The same can happen to
  READ, which sends two messages.
- One thread serves the client port of a storage server, one connection at a time. Two WRITE
  sessions are never open at a server at once, so no lock is ever contended by the shipped
  client, and readers wait for the session to end; README.md:27 ("Concurrent Editing") and
  README.md:157 ("Concurrent Reads: Unlimited") promise more.
- The shell prints a successful CHECKPOINT as an error: the server answers `ERR_CREATED`
  (`storage_server.c:883`), the client tests for `ERR_SUCCESS` (`client.c:1343`). It counts
  the acknowledgement of STREAM as a word, and says of CANCEL that the "lock will timeout"
  (`client.c:825`), though it is released at once. CHECKPOINT and REVERT are routed with
  `OP_READ`, so the right to read is enough to revert.
- EXIT does not unregister; UNREGISTER looks for an address and the port 0, and so may mark
  another client of the same machine.
- EXEC runs the commands of the document in the main loop of the name server
  (`nameserver.c:1197`), which serves nobody until they end. A connection that sends part of
  a message has the same effect.
- Edits are not replicated: WRITE goes to one server, and the other copy keeps the text of its
  creation.
- MOVE leaves the map with the old name.
- A full list of files (1000) leaves a created file out of the map, but not out of the
  replication map (`nameserver.c:809`), with the effect on the cache described in section 4. At the
  start a storage server reports at most 100 files. A CREATE of a file whose servers are dead makes a second
  one, under the old owner.
- APPROVEREQUEST does not save the rights it gives. A pending request to a former owner can be
  answered by nobody and keeps its requester from asking again. The tables of requests and
  of clients (100 each) never shrink.
- UNDO, REVERT and MOVE do not update the search index, so SEARCH answers from the old text.
  A file that finds the list of a word full (50 files, `inverted_index.c:71`) is not found by that
  word, also not after another file has left the list; of more than 100 files a restart indexes
  the first 100 that `readdir` gives. A temporary file left by a crash is indexed at the start
  and stays listed when the next commit renames it.
  A document deleted during a session comes back with the commit, or with UNDO.
- On a new storage directory `.checkpoints` cannot be made, as it is made first
  (`storage_server.c:1405`); CHECKPOINT fails until the next start. A crash inside CHECKPOINT
  leaves an empty checkpoint whose tag is taken.
- A document longer than `MAX_CONTENT_LEN` is cut by its next commit, and UNDO restores what was
  left of it (`FilesFit` in section 4).
- A document named like the temporary file of another is lost with the next commit to that.

## 6. Not modelled

Socket code below messages: a message is sent and received whole, in order, or the
connection is closed; this is what TCP and the fixed message size give to peers that follow
the protocol. The logger, the reading of a command line (a line that is not a command
changes nothing), listings, INFO output, and the commands EXEC runs. `is_active` of a
client, which UNREGISTER clears and only LIST prints. Two shells with one user name at a
time. Collisions in hash tables and `malloc` failures. The limit of the replication map and
the truncation of a registration's list of files to the length of a message. Unused code:
`insert_word`, `lock_is_locked`, `undo_clear`, `checkpoint_cleanup`, `set_socket_timeout`.

## 7. Plan

Done, in this order: the parser, the lock table and its lease, the storage server, the
history, the proofs of the storage server, the name server and its proofs, the whole system
and its proof, the proofs about texts and from them those about the history, the types of the
whole system, the index, the abstract store. What could follow:

1. *Contents of replicas.* `Docs` with the text of each copy as an opaque version: which copy a
   reader gets after an edit, a failover, a deletion and a new creation.
2. *An abstract directory.* File -> owner, exists: what CREATE, DELETE and a lookup
   promise, and under which conditions (one server, no crash) `NameServer` implements it.
3. *Composition by refinement.* That `Accept`, `SaveWord`, `Commit` and `HangUp` of `Docs`
   are what `StorageServer` does, with a mapping from `ct` to `thread`.
4. *Search.* What SEARCH may answer after UNDO, REVERT and MOVE, and when it is right again.
5. *Proofs.* The refinements of 2 and 3. Weaker conditions for `IndexStaysExact`: which steps of
   a DELETE or an UNDO it tolerates, if its document is committed to afterwards.
