----------------------------- MODULE NameServer -----------------------------
(***************************************************************************)
(* The name server (nameserver/nameserver.c) and what it sees of the       *)
(* storage servers: which of them run, which files their directories have, *)
(* and the requests that wait at their port for the name server.           *)
(*                                                                         *)
(* The main loop serves one connection at a time and waits for the answer  *)
(* of a storage server without a timeout: ns is its program counter. The   *)
(* failure detection thread runs beside it: suspect is the server it is    *)
(* about to mark dead. It only ever clears is_alive, so a handler that     *)
(* reads several of these flags sees what it would see reading them all at *)
(* the time of the last read.                                              *)
(*                                                                         *)
(* Requests that change nothing here have no action of their own: LIST,    *)
(* VIEW without -l, VIEWREQUESTS, and every request that is refused.       *)
(***************************************************************************)
EXTENDS AccessControl, SequencesExt

CONSTANTS
  Server,
  NoServer,     \* -1
  CacheSize,    \* LRU_CACHE_SIZE
  MaxFiles,     \* MAX_FILES, per storage server
  MaxServers,   \* MAX_STORAGE_SERVERS
  MaxClients,   \* MAX_CONCURRENT_CLIENTS
  MaxQueue,     \* the backlog of a storage server's listening socket
  Timeout,      \* HEARTBEAT_TIMEOUT, in ticks
  Ops           \* the requests and faults of this instance, a subset of AllOps

AllOps == {"client", "create", "delete", "route", "move", "query", "access",
           "request", "crash", "restart", "nscrash", "nsstop", "savefault", "iofault"}

ASSUME NameServerAssumption ==
  /\ Server # {} /\ NoServer \notin Server /\ NoEntry \notin Entry /\ IsFiniteSet(File)
  /\ CacheSize \in Nat \ {0} /\ MaxFiles \in Nat /\ MaxServers \in Nat
  /\ MaxClients \in Nat /\ MaxQueue \in Nat /\ Timeout \in Nat
  /\ Ops \subseteq AllOps

VARIABLES
  ns,           \* the main loop
  clients,      \* the user names in clients[0 .. client_count - 1]
  registry,     \* storage_servers[0 .. ss_count - 1]
  alive,        \* is_alive
  age,          \* the time since last_heartbeat
  suspect,      \* failure_detection_thread
  lists,        \* storage_servers[].files
  fileMap,      \* file_map
  cache,        \* lru_cache, from head to tail
  replica,      \* replication_map[].replica_ss; the primary in it is never read
  lastUsed,     \* find_available_ss: last_used + 1
  status,       \* of the storage server processes: down, starting or serving
  stores,       \* the files in the root of their storage directories
  queue         \* what waits at their port for the name server, in order

registers == <<registry, alive, age>>
directory == <<lists, fileMap, cache, replica>>
servers == <<status, stores, queue>>
vars == <<accessVars, ns, clients, registers, suspect, directory, lastUsed, servers>>

\* VIEW -l and VIEW -al
Views == {"view", "viewall"}

Forwarded == {"create", "delete", "move", "query"} \cup Views

\* asked: the name server waits for the answer. It does not for OP_REPLICATE, which
\* does at the storage server what a create does.
Job == [op : Forwarded, file : File, asked : BOOLEAN]

\* "search" is for Docs, which has the client ports of the storage servers.
NsStates == {"idle", "down", "wait", "reply", "save", "saving", "replicate", "view",
             "search"}
Ns == [at : NsStates, op : Forwarded \cup {"access"}, file : File, user : User,
       server : Server \cup {NoServer}, ok : BOOLEAN]

TypeOK ==
  /\ AccessTypeOK
  /\ ns \in Ns
  /\ clients \in Seq(User) /\ Len(clients) <= MaxClients
  /\ registry \in Seq(Server) /\ IsInjective(registry) /\ Len(registry) <= MaxServers
  /\ alive \in [Server -> BOOLEAN]
  /\ age \in [Server -> 0 .. Timeout + 1]
  /\ suspect \in Server \cup {NoServer}
  /\ lists \in [Server -> Seq(File)] /\ \A s \in Server : Len(lists[s]) <= MaxFiles
  /\ fileMap \in [File -> Server \cup {NoServer}]
  /\ cache \in Seq([file : File, server : Server]) /\ Len(cache) <= CacheSize
  /\ replica \in [File -> Server \cup {NoServer}]
  /\ lastUsed \in 0 .. Len(registry)
  /\ status \in [Server -> {"down", "starting", "serving"}]
  /\ stores \in [Server -> SUBSET File]
  /\ queue \in [Server -> Seq(Job)] /\ \A s \in Server : Len(queue[s]) <= MaxQueue

-----------------------------------------------------------------------------
NsIdle == [at |-> "idle", op |-> "access", file |-> CHOOSE f \in File : TRUE,
           user |-> CHOOSE u \in User : TRUE, server |-> NoServer, ok |-> FALSE]

NoFiles == [f \in File |-> NoServer]

\* init_registries, but for the access control list
EmptyRegistries ==
  /\ clients' = <<>> /\ registry' = <<>>
  /\ alive' = [s \in Server |-> FALSE] /\ age' = [s \in Server |-> 0]
  /\ suspect' = NoServer
  /\ lists' = [s \in Server |-> <<>>] /\ fileMap' = NoFiles
  /\ cache' = <<>> /\ replica' = NoFiles /\ lastUsed' = 0
  /\ requests' = <<>>

Init ==
  /\ AccessInit
  /\ ns = NsIdle
  /\ clients = <<>> /\ registry = <<>>
  /\ alive = [s \in Server |-> FALSE] /\ age = [s \in Server |-> 0]
  /\ suspect = NoServer
  /\ lists = [s \in Server |-> <<>>] /\ fileMap = NoFiles
  /\ cache = <<>> /\ replica = NoFiles /\ lastUsed = 0
  /\ status = [s \in Server |-> "down"]
  /\ stores = [s \in Server |-> {}]
  /\ queue = [s \in Server |-> <<>>]

Idle(op) == ns.at = "idle" /\ op \in Ops

-----------------------------------------------------------------------------
(* Finding a file: the cache, then the map, then the replica.              *)

\* lru_invalidate
Without(f) == RemoveFirstMatch(cache, LAMBDA e : e.file = f)

\* lru_invalidate of each of these files; the other entries stay in their order.
WithoutAll(fs) ==
  LET kept == {i \in DOMAIN cache : cache[i].file \notin fs}
  IN [k \in 1 .. Cardinality(kept) |->
        cache[CHOOSE i \in kept : Cardinality({j \in kept : j <= i}) = k]]

\* A hashmap_add and hashmap_remove that leave the cache alone.
HashmapSetOnly(f, s) == fileMap' = [fileMap EXCEPT ![f] = s] /\ UNCHANGED cache

\* hashmap_add and hashmap_remove invalidate the cached entry of the file.
HashmapSet(f, s) == fileMap' = [fileMap EXCEPT ![f] = s] /\ cache' = Without(f)

\* lru_put: to the front; the last one goes when there are too many.
LruPut(f, s) == LET c == <<[file |-> f, server |-> s]>> \o Without(f)
                IN SubSeq(c, 1, IF Len(c) > CacheSize THEN CacheSize ELSE Len(c))

\* lru_get: the server cached for the file
Cached(f) == LET i == SelectInSeq(cache, LAMBDA e : e.file = f)
             IN IF i = 0 THEN NoServer ELSE cache[i].server

IsAlive(s) == s # NoServer /\ alive[s]

\* find_ss_for_file past the cache
Mapped(f) == IF fileMap[f] # NoServer /\ IsAlive(fileMap[f]) THEN fileMap[f]
             ELSE IF fileMap[f] # NoServer /\ IsAlive(replica[f]) THEN replica[f]
             ELSE NoServer

\* find_ss_for_file
Find(f) == IF IsAlive(Cached(f)) THEN Cached(f) ELSE Mapped(f)

\* What find_ss_for_file does to the cache: lru_get moves an entry to the front also
\* when its server is dead, and lru_put stores what was found.
Searched(f) == cache' = IF Find(f) # NoServer THEN LruPut(f, Find(f))
                        ELSE IF Cached(f) # NoServer THEN LruPut(f, Cached(f))
                        ELSE cache

\* find_available_ss: round robin over those alive; the place in the registry, or 0
Available ==
  LET n == Len(registry)
      turn == [i \in 1 .. n |-> ((lastUsed + i - 1) % n) + 1]
      fits == {i \in 1 .. n : alive[registry[turn[i]]]}
  IN IF fits = {} THEN 0 ELSE turn[Min(fits)]

\* add_file_to_ss. A full list takes no more files, and then the map does not change.
AddFileToSs(s, f) ==
  IF Len(lists[s]) < MaxFiles
  THEN /\ lists' = [lists EXCEPT ![s] = Append(@, f)]
       /\ HashmapSet(f, s)
  ELSE UNCHANGED <<lists, fileMap, cache>>

-----------------------------------------------------------------------------
(* Requests that a storage server must serve.                              *)

\* A connection is made when the server listens, which it does before it registers; it
\* waits while the backlog is full.
Enqueue(s, op, f, asked) ==
  /\ Len(queue[s]) < MaxQueue
  /\ queue' = [queue EXCEPT ![s] = Append(@, [op |-> op, file |-> f, asked |-> asked])]

\* Connect to the storage server, send the request and wait for the answer.
Forward(op, f, u, s) ==
  IF status[s] = "down" THEN UNCHANGED <<ns, queue>>
  ELSE /\ Enqueue(s, op, f, TRUE)
       /\ ns' = [at |-> "wait", op |-> op, file |-> f, user |-> u, server |-> s,
                 ok |-> FALSE]

\* handle_create_request, to the answer of the storage server
CreateAsk(u, f) ==
  /\ Idle("create")
  /\ Searched(f)
  /\ IF Find(f) # NoServer \/ Available = 0 THEN UNCHANGED <<ns, queue, lastUsed>>
     ELSE /\ lastUsed' = Available
          /\ Forward("create", f, u, registry[Available])
  /\ UNCHANGED <<accessVars, clients, registers, suspect, lists, fileMap, replica,
                 status, stores>>

\* handle_delete_request, to the answer of the storage server
DeleteAsk(u, f) ==
  /\ Idle("delete")
  /\ CanWrite(acl[f], u)
  /\ Searched(f)
  /\ IF Find(f) = NoServer THEN UNCHANGED <<ns, queue>>
     ELSE Forward("delete", f, u, Find(f))
  /\ UNCHANGED <<accessVars, clients, registers, suspect, lists, fileMap, replica,
                 lastUsed, status, stores>>

\* handle_move_request, which looks into the map only
MoveAsk(u, f) ==
  /\ Idle("move")
  /\ Owns(acl[f], u) /\ fileMap[f] # NoServer
  /\ Forward("move", f, u, fileMap[f])
  /\ UNCHANGED <<accessVars, clients, registers, suspect, directory, lastUsed, status,
                 stores>>

\* handle_exec_request and handle_info_request
QueryAsk(u, f) ==
  /\ Idle("query")
  /\ CanRead(acl[f], u)
  /\ Searched(f)
  /\ IF Find(f) = NoServer THEN UNCHANGED <<ns, queue>>
     ELSE Forward("query", f, u, Find(f))
  /\ UNCHANGED <<accessVars, clients, registers, suspect, lists, fileMap, replica,
                 lastUsed, status, stores>>

\* The files of a VIEW, in the order of the hash table of acl.c.
FileOrder == SetToSeq(File)
Listed(op, u) == {f \in File : acl[f] # NoEntry /\ (op = "viewall" \/ CanRead(acl[f], u))}

\* handle_view_request, for one file: it is looked up and asked about at its server, if
\* there is one.
ViewFile(u, op, f) ==
  /\ Searched(f)
  /\ IF Find(f) = NoServer \/ status[Find(f)] = "down"
     THEN /\ ns' = [NsIdle EXCEPT !.at = "view", !.op = op, !.file = f, !.user = u]
          /\ UNCHANGED queue
     ELSE Forward(op, f, u, Find(f))

\* Its loop, after the first i files.
ViewFrom(u, op, i) ==
  LET rest == {j \in DOMAIN FileOrder : j > i /\ FileOrder[j] \in Listed(op, u)} IN
  \/ rest = {} /\ ns' = NsIdle /\ UNCHANGED <<cache, queue>>
  \/ \E j \in rest : (\A k \in rest : j <= k) /\ ViewFile(u, op, FileOrder[j])

ViewRest == UNCHANGED <<accessVars, clients, registers, suspect, lists, fileMap, replica,
                        lastUsed, status, stores>>

\* handle_view_request with -l
ViewAsk(u, op) ==
  /\ Idle("query")
  /\ ViewFrom(u, op, 0)
  /\ ViewRest

\* The server answered, or there was none to ask, or it died.
ViewGoesOn ==
  /\ ns.at = "view" \/ (ns.at = "reply" /\ ns.op \in Views)
  /\ ViewFrom(ns.user, ns.op, CHOOSE i \in DOMAIN FileOrder : FileOrder[i] = ns.file)
  /\ ViewRest

\* handle_createfolder_request and handle_viewfolder_request: at the first server alive.
\* What becomes of the folder is in StorageServer.
FolderAsk ==
  LET live == {i \in DOMAIN registry : alive[registry[i]]} IN
  /\ Idle("query") /\ live # {}
  /\ Forward("query", NsIdle.file, NsIdle.user, registry[Min(live)])
  /\ UNCHANGED <<accessVars, clients, registers, suspect, directory, lastUsed, status,
                 stores>>

\* handle_read_request, and WRITE, UNDO and STREAM, and an EXEC that is refused: they look
\* for the file first and for the access right after.
Route(f) ==
  /\ Idle("route")
  /\ Searched(f)
  /\ UNCHANGED <<accessVars, ns, clients, registers, suspect, lists, fileMap, replica,
                 lastUsed, servers>>

\* Where the handler of a create goes on: past acl_save, or into it.
CreateGoesOn(at) == ns' = [ns EXCEPT !.at = at]

\* The answer to a create: add_file_to_ss, and acl_add_file unless there is an entry.
CreateRecord ==
  /\ ns.at = "reply" /\ ns.op = "create"
  /\ IF ns.ok
     THEN /\ AddFileToSs(ns.server, ns.file)
          /\ \/ AclAddFile(ns.file, ns.user) /\ CreateGoesOn("save")
             \/ acl[ns.file] # NoEntry /\ UNCHANGED acl /\ CreateGoesOn("replicate")
     ELSE ns' = NsIdle /\ UNCHANGED <<acl, lists, fileMap, cache>>
  /\ UNCHANGED <<aclDisk, requests, clients, registers, suspect, replica, lastUsed, servers>>

\* OP_REPLICATE is sent and not waited for; from here on the map has the replica.
Replicate ==
  /\ ns.at = "replicate"
  /\ ns' = NsIdle
  /\ IF Len(registry) <= 1 \/ Available = 0 THEN UNCHANGED <<lastUsed, directory, queue>>
     ELSE /\ lastUsed' = Available
          /\ LET r == registry[Available] IN
             IF r = ns.server THEN UNCHANGED <<directory, queue>>
             ELSE /\ replica' = [replica EXCEPT ![ns.file] = r]
                  /\ IF status[r] = "down" THEN UNCHANGED <<lists, fileMap, cache, queue>>
                     ELSE AddFileToSs(r, ns.file) /\ Enqueue(r, "create", ns.file, FALSE)
  /\ UNCHANGED <<accessVars, clients, registers, suspect, status, stores>>

\* The answer to a delete: it leaves the map, the access control list and the list of
\* the server that was asked. The entry in the replication map stays.
DeleteRecord ==
  /\ ns.at = "reply" /\ ns.op = "delete"
  /\ IF ns.ok
     THEN /\ HashmapSet(ns.file, NoServer)
          /\ lists' = [lists EXCEPT ![ns.server] = RemoveFirst(@, ns.file)]
          /\ \/ AclRemoveFile(ns.file) /\ ns' = [ns EXCEPT !.at = "save"]
             \/ acl[ns.file] = NoEntry /\ UNCHANGED acl /\ ns' = NsIdle
     ELSE ns' = NsIdle /\ UNCHANGED <<acl, lists, fileMap, cache>>
  /\ UNCHANGED <<aclDisk, requests, clients, registers, suspect, replica, lastUsed, servers>>

\* The answer to a move or a query is passed on to the client.
PassOn ==
  /\ ns.at = "reply" /\ ns.op \in {"move", "query"}
  /\ ns' = NsIdle
  /\ UNCHANGED <<accessVars, clients, registers, suspect, directory, lastUsed, servers>>

-----------------------------------------------------------------------------
(* acl_save, at the end of the handlers that change the list.              *)

AfterSave == IF ns.op = "create" THEN [ns EXCEPT !.at = "replicate"] ELSE NsIdle

SaveOpen ==
  /\ ns.at = "save"
  /\ AclSaveOpen
  /\ ns' = [ns EXCEPT !.at = "saving"]
  /\ UNCHANGED <<acl, requests, clients, registers, suspect, directory, lastUsed, servers>>

SaveData ==
  /\ ns.at = "saving"
  /\ AclSaveData
  /\ ns' = AfterSave
  /\ UNCHANGED <<acl, requests, clients, registers, suspect, directory, lastUsed, servers>>

\* fopen or a write fails; no caller looks at the result.
SaveFails ==
  /\ "savefault" \in Ops
  /\ \/ ns.at = "save" /\ UNCHANGED aclDisk
     \/ ns.at = "saving" /\ AclSavePart
  /\ ns' = AfterSave
  /\ UNCHANGED <<acl, requests, clients, registers, suspect, directory, lastUsed, servers>>

-----------------------------------------------------------------------------
(* Requests about access.                                                  *)

\* The handlers end with acl_save.
GoSave(u, f) == ns' = [NsIdle EXCEPT !.at = "save", !.user = u, !.file = f]

\* handle_addaccess_request: to a user who registered since the name server started
AddAccess(u, f, t) ==
  /\ Idle("access")
  /\ t \in ToSet(clients) /\ Owns(acl[f], u)
  /\ AclAddReader(f, t) \/ AclAddWriter(f, t)
  /\ GoSave(u, f)
  /\ UNCHANGED <<aclDisk, requests, clients, registers, suspect, directory, lastUsed, servers>>

\* A handle_remaccess_request that does not save what it changed.
RemAccessUnsaved(u, f, t) ==
  /\ Idle("access")
  /\ Owns(acl[f], u)
  /\ AclRemoveAccess(f, t)
  /\ UNCHANGED <<aclDisk, requests, ns, clients, registers, suspect, directory, lastUsed,
                 servers>>

\* handle_remaccess_request
RemAccess(u, f, t) ==
  /\ Idle("access")
  /\ Owns(acl[f], u)
  /\ AclRemoveAccess(f, t)
  /\ GoSave(u, f)
  /\ UNCHANGED <<aclDisk, requests, clients, registers, suspect, directory, lastUsed, servers>>

\* handle_requestaccess_request
RequestAccess(u, f) ==
  /\ Idle("request")
  /\ fileMap[f] # NoServer
  /\ acl[f] # NoEntry /\ ~CanRead(acl[f], u)
  /\ RequestAdd(f, u, acl[f].owner)
  /\ UNCHANGED <<acl, aclDisk, ns, clients, registers, suspect, directory, lastUsed, servers>>

\* handle_approverequest_request: read access, which is not saved. The request is
\* answered even when the list of readers is full.
ApproveRequest(u, f, t) ==
  /\ Idle("request")
  /\ Owns(acl[f], u)
  /\ RequestAnswer(f, t, u)
  /\ \/ AclAddReader(f, t)
     \/ ~Fits(acl[f].readers, t) /\ UNCHANGED acl
  /\ UNCHANGED <<aclDisk, ns, clients, registers, suspect, directory, lastUsed, servers>>

\* handle_denyrequest_request
DenyRequest(u, f, t) ==
  /\ Idle("request")
  /\ Owns(acl[f], u)
  /\ RequestAnswer(f, t, u)
  /\ UNCHANGED <<acl, aclDisk, ns, clients, registers, suspect, directory, lastUsed, servers>>

\* handle_client_registration: client_count only grows.
RegisterClient(u) ==
  /\ Idle("client")
  /\ Len(clients) < MaxClients
  /\ clients' = Append(clients, u)
  /\ UNCHANGED <<accessVars, ns, registers, suspect, directory, lastUsed, servers>>

-----------------------------------------------------------------------------
(* Registration, heartbeats and failure detection.                         *)

\* handle_ss_registration: the files it reports are now its own, and a file it does not
\* report keeps its place in the map.
RegisterServer(s) ==
  /\ ns.at = "idle"
  /\ status[s] = "starting"
  /\ IF s \notin ToSet(registry) /\ Len(registry) >= MaxServers
     THEN /\ status' = [status EXCEPT ![s] = "down"]
          /\ queue' = [queue EXCEPT ![s] = <<>>]
          /\ UNCHANGED <<registers, lists, fileMap, cache>>
     ELSE /\ status' = [status EXCEPT ![s] = "serving"]
          /\ registry' = IF s \in ToSet(registry) THEN registry ELSE Append(registry, s)
          /\ alive' = [alive EXCEPT ![s] = TRUE]
          /\ age' = [age EXCEPT ![s] = 0]
          /\ LET reported == SetToSeq(stores[s])
                 taken == SubSeq(reported, 1, Min({Len(reported), MaxFiles}))
             IN /\ lists' = [lists EXCEPT ![s] = taken]
                /\ fileMap' = [f \in File |-> IF f \in ToSet(taken) THEN s ELSE fileMap[f]]
                /\ cache' = WithoutAll(ToSet(taken))
          /\ UNCHANGED queue
  /\ UNCHANGED <<accessVars, ns, clients, suspect, replica, lastUsed, stores>>

\* A handle_heartbeat that takes the time and leaves the flag.
HeartbeatTimeOnly(s) ==
  /\ ns.at = "idle"
  /\ status[s] = "serving" /\ s \in ToSet(registry)
  /\ age' = [age EXCEPT ![s] = 0]
  /\ UNCHANGED <<accessVars, ns, clients, registry, alive, suspect, directory, lastUsed,
                 servers>>

\* handle_heartbeat
Heartbeat(s) ==
  /\ ns.at = "idle"
  /\ status[s] = "serving" /\ s \in ToSet(registry)
  /\ alive' = [alive EXCEPT ![s] = TRUE]
  /\ age' = [age EXCEPT ![s] = 0]
  /\ UNCHANGED <<accessVars, ns, clients, registry, suspect, directory, lastUsed, servers>>

\* Time passes. Heartbeats may be late: they wait while a handler waits.
Tick ==
  /\ \E s \in ToSet(registry) : age[s] <= Timeout
  /\ age' = [s \in Server |-> IF s \in ToSet(registry) /\ age[s] <= Timeout
                             THEN age[s] + 1 ELSE age[s]]
  /\ UNCHANGED <<accessVars, ns, clients, registry, alive, suspect, directory, lastUsed,
                 servers>>

\* failure_detection_thread finds a server alive and its heartbeat too old ...
Suspect(s) ==
  /\ suspect = NoServer
  /\ s \in ToSet(registry) /\ alive[s] /\ age[s] > Timeout
  /\ suspect' = s
  /\ UNCHANGED <<accessVars, ns, clients, registers, directory, lastUsed, servers>>

\* A failure_detection_thread that only warns.
CondemnWarns ==
  /\ suspect # NoServer
  /\ suspect' = NoServer
  /\ UNCHANGED <<accessVars, ns, clients, registers, directory, lastUsed, servers>>

\* ... and marks it dead, also when a heartbeat came in between.
Condemn ==
  /\ suspect # NoServer
  /\ alive' = [alive EXCEPT ![suspect] = FALSE]
  /\ suspect' = NoServer
  /\ UNCHANGED <<accessVars, ns, clients, registry, age, directory, lastUsed, servers>>

-----------------------------------------------------------------------------
(* The storage servers (storage_server/storage_server.c).                  *)

\* main, to the registration
ServerStart(s) ==
  /\ status[s] = "down"
  /\ "restart" \in Ops \/ s \notin ToSet(registry)
  /\ status' = [status EXCEPT ![s] = "starting"]
  /\ UNCHANGED <<accessVars, ns, clients, registers, suspect, directory, lastUsed, stores,
                 queue>>

\* register_with_nameserver fails when the name server is down, and main returns 1.
ServerGivesUp(s) ==
  /\ status[s] = "starting" /\ ns.at = "down"
  /\ status' = [status EXCEPT ![s] = "down"]
  /\ queue' = [queue EXCEPT ![s] = <<>>]
  /\ UNCHANGED <<accessVars, ns, clients, registers, suspect, directory, lastUsed, stores>>

\* A handler whose server is gone replies an error; a VIEW goes on.
Abandoned == IF ns.op \in Views THEN [ns EXCEPT !.at = "view"] ELSE NsIdle

\* The process ends. A handler that waits for this server sees the connection closed,
\* unless the answer was already sent.
ServerDies(s) ==
  /\ status[s] # "down"
  /\ status' = [status EXCEPT ![s] = "down"]
  /\ queue' = [queue EXCEPT ![s] = <<>>]
  /\ \/ ns.at = "wait" /\ ns.server = s /\ ns' = Abandoned
     \/ ns.at = "reply" /\ ns.server = s /\ ns' \in {ns, Abandoned}
     \/ ~(ns.at \in {"wait", "reply"} /\ ns.server = s) /\ UNCHANGED ns
  /\ UNCHANGED <<accessVars, clients, registers, suspect, directory, lastUsed, stores>>

ServerCrash(s) == "crash" \in Ops /\ ServerDies(s)

\* create_file, delete_file, folder_move_file: whether they succeed
Succeeds(s, job) == CASE job.op = "create" -> job.file \notin stores[s]
                      [] OTHER -> job.file \in stores[s]

\* ns_inbound_thread serves the next request of the name server.
Serve(s) ==
  /\ status[s] = "serving" /\ queue[s] # <<>>
  /\ LET job == Head(queue[s]) IN
     \E ok \in IF "iofault" \in Ops THEN BOOLEAN ELSE {TRUE} :
       LET done == ok /\ Succeeds(s, job) IN
       /\ stores' = [stores EXCEPT ![s] =
            CASE done /\ job.op = "create" -> @ \cup {job.file}
              [] done /\ job.op \in {"delete", "move"} -> @ \ {job.file}
              [] OTHER -> @]
       /\ ns' = IF job.asked THEN [ns EXCEPT !.at = "reply", !.ok = done] ELSE ns
  /\ queue' = [queue EXCEPT ![s] = Tail(@)]
  /\ UNCHANGED <<accessVars, clients, registers, suspect, directory, lastUsed, status>>

-----------------------------------------------------------------------------
(* A crash of the name server. acl keeps what the memory held until the    *)
(* restart, to compare with it.                                            *)

NsCrash ==
  /\ ns.at # "down"
  /\ "nscrash" \in Ops \/ Idle("nsstop")
  /\ ns' = [NsIdle EXCEPT !.at = "down"]
  /\ IF ns.at = "saving" THEN AclSavePart ELSE UNCHANGED aclDisk
  /\ EmptyRegistries
  /\ queue' = [s \in Server |-> [i \in DOMAIN queue[s] |->
                                   [queue[s][i] EXCEPT !.asked = FALSE]]]
  /\ UNCHANGED <<acl, status, stores>>

\* main: init_registries
NsStart ==
  /\ ns.at = "down"
  /\ ns' = NsIdle
  /\ AclLoad
  /\ UNCHANGED <<aclDisk, requests, clients, registers, suspect, directory, lastUsed, servers>>

-----------------------------------------------------------------------------
\* The rest of a handler, which the main loop runs to its end.
Proceed == \/ CreateRecord \/ Replicate \/ DeleteRecord \/ PassOn \/ ViewGoesOn
           \/ SaveOpen \/ SaveData \/ SaveFails

\* handle_connection
Request(u, f) ==
  \/ CreateAsk(u, f) \/ DeleteAsk(u, f) \/ MoveAsk(u, f) \/ QueryAsk(u, f)
  \/ RequestAccess(u, f)
  \/ \E t \in User : \/ AddAccess(u, f, t) \/ RemAccess(u, f, t)
                     \/ ApproveRequest(u, f, t) \/ DenyRequest(u, f, t)

ServerStep(s) == \/ RegisterServer(s) \/ Heartbeat(s) \/ ServerStart(s)
                 \/ ServerGivesUp(s) \/ ServerCrash(s) \/ Serve(s)

Next == \/ \E u \in User, f \in File : Request(u, f)
        \/ \E u \in User, op \in Views : ViewAsk(u, op)
        \/ FolderAsk \/ \E f \in File : Route(f)
        \/ \E u \in User : RegisterClient(u)
        \/ \E s \in Server : ServerStep(s) \/ Suspect(s)
        \/ Proceed \/ Tick \/ Condemn \/ NsCrash \/ NsStart

Spec == Init /\ [][Next]_vars

-----------------------------------------------------------------------------
(* What should hold.                                                       *)

\* A file is cached once, with the server of the map or of the replication map, and only
\* while the map has it (hashmap_add and hashmap_remove call lru_invalidate; the
\* replication map changes without). With four servers, of which one answers a CREATE with
\* its list of files full, the cache may keep a replica that is no longer one.
CacheAgrees ==
  \A i \in DOMAIN cache :
    LET f == cache[i].file IN
    /\ fileMap[f] # NoServer
    /\ cache[i].server \in {fileMap[f], replica[f]}
    /\ \A j \in DOMAIN cache : cache[j].file = f => i = j

\* What a restart would load gives no user more than the memory does, and no file another
\* owner, whenever no handler is under way (acl_save after every change that takes
\* access away).
DiskGrantsNoMore ==
  ns.at = "idle" =>
    \A f \in File, u \in User :
      /\ (CanRead(Loaded(aclDisk[f]), u) => CanRead(acl[f], u))
      /\ (CanWrite(Loaded(aclDisk[f]), u) => CanWrite(acl[f], u))
      /\ (Owns(Loaded(aclDisk[f]), u) => Owns(acl[f], u))

\* While the name server runs, a user gets access to a file by creating it, by an
\* ADDACCESS of its owner, or by an approval of a request that was made to that owner.
RightsComeFromOwner ==
  [][\A f \in File, u \in User :
       ns.at # "down" /\ CanRead(acl'[f], u) /\ ~CanRead(acl[f], u)
         =>
         \/ acl[f] = NoEntry /\ u = acl'[f].owner
         \/ ns'.at = "save" /\ Owns(acl[f], ns'.user)
         \/ \E i \in DOMAIN requests :
              /\ Asks(requests[i], f, u) /\ Owns(acl[f], requests[i].owner)
              /\ ~requests'[i].pending]_vars

\* A server that is gone is marked dead, and stays so (failure_detection_thread).
DeadServersNoticed ==
  \A s \in Server : (<>[](status[s] = "down")) => (<>[]~alive[s])

\* A file of which a live server is known to have a copy is found (find_ss_for_file,
\* "Failover: If primary SS is dead, try replica").
FailoverFindsCopy ==
  \A f \in File :
    fileMap[f] # NoServer /\ (\E s \in Server : alive[s] /\ f \in ToSet(lists[s]))
      => Find(f) # NoServer

\* A restart of the name server brings back the access that users had (acl_save,
\* acl_load).
AclSurvivesRestart ==
  [][ns.at = "down" /\ ns'.at = "idle" =>
       \A f \in File, u \in User : /\ (CanRead(acl[f], u) => CanRead(acl'[f], u))
                                   /\ (CanWrite(acl[f], u) => CanWrite(acl'[f], u))]_vars

=============================================================================
