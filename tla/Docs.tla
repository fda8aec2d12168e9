-------------------------------- MODULE Docs --------------------------------
(***************************************************************************)
(* The whole system: the name server, the client ports of the storage      *)
(* servers, and the shells of the users (client/client.c).                 *)
(*                                                                         *)
(* A shell has one connection at a time: to the name server, which takes   *)
(* one request at a time out of inbox, or to a storage server, whose       *)
(* client thread takes one connection at a time out of line and keeps it   *)
(* to its end, for a WRITE session until the user ends it. Nobody has a    *)
(* timeout. What is said on a connection matters here as far as somebody   *)
(* waits for it; the documents are in StorageServer.                       *)
(*                                                                         *)
(* The name server does not crash here: that is in NameServer.             *)
(***************************************************************************)
EXTENDS NameServer

CONSTANTS
  NoUser,
  NsCaller,      \* the name server, as a client of the storage servers
  Commands,      \* the commands that each user types, of AllCommands
  MaxWords,      \* the words of a document, for STREAM
  QuickRestart   \* whether a storage server may restart before it is marked dead

-----------------------------------------------------------------------------
(* The commands of the shell. ns is what a command asks the name server    *)
(* for; ss is what it then does with the storage server it is routed to:   *)
(* nothing, one question, READ (the text, then STOP), STREAM (any number   *)
(* of words, then STOP), or a WRITE session.                               *)

NsOnly(kind) == [ns |-> kind, ss |-> "none"]
Routed(right, talk) == [ns |-> right, ss |-> talk]

CmdCreate == NsOnly("create")
CmdDelete == NsOnly("delete")
CmdList == NsOnly("list")
CmdView == NsOnly("list")
CmdViewLong == NsOnly("view")
CmdInfo == NsOnly("query")
CmdExec == NsOnly("query")
CmdAddaccess == NsOnly("addaccess")
CmdRemaccess == NsOnly("remaccess")
CmdCreatefolder == NsOnly("folder")
CmdViewfolder == NsOnly("folder")
CmdMove == NsOnly("move")
CmdRequestaccess == NsOnly("requestaccess")
CmdViewrequests == NsOnly("list")
CmdApproverequest == NsOnly("approve")
CmdDenyrequest == NsOnly("deny")
CmdSearch == NsOnly("search")
CmdRead == Routed("read", "read")
CmdStream == Routed("read", "stream")
CmdWrite == Routed("write", "session")
CmdUndo == Routed("write", "one")
CmdCheckpoint == Routed("read", "one")
CmdViewcheckpoint == Routed("read", "one")
CmdRevert == Routed("read", "one")
CmdListcheckpoints == Routed("read", "one")

AllCommands ==
  {CmdCreate, CmdDelete, CmdList, CmdView, CmdViewLong, CmdInfo, CmdExec, CmdAddaccess,
   CmdRemaccess, CmdCreatefolder, CmdViewfolder, CmdMove, CmdRequestaccess,
   CmdViewrequests, CmdApproverequest, CmdDenyrequest, CmdSearch, CmdRead, CmdStream,
   CmdWrite, CmdUndo, CmdCheckpoint, CmdViewcheckpoint, CmdRevert, CmdListcheckpoints}

Register == NsOnly("register")
Unregister == NsOnly("unregister")

ASSUME DocsAssumption ==
  /\ NoUser \notin User /\ NsCaller \notin User
  /\ Commands \in [User -> SUBSET AllCommands]
  /\ MaxWords \in Nat /\ QuickRestart \in BOOLEAN

VARIABLES
  shell,    \* the shells of the users
  inbox,    \* the requests that wait for the main loop of the name server
  guest,    \* whose request its handler serves, between two steps
  line,     \* the connections that wait at the client port of each storage server
  thread    \* the client thread of each storage server

talk == <<shell, inbox, guest, line, thread>>
docsVars == <<vars, talk>>

Ask == [from : User, cmd : AllCommands \cup {Register, Unregister}, file : File]
Connection == [from : User \cup {NsCaller}, ss : {"one", "read", "stream", "session"},
               file : File]

\* A WRITE session whose server died has the server NoServer: the user does not see it
\* before the next line.
Shell == [at : {"off", "prompt", "ask", "routed", "wait", "session"},
          ss : {"none", "one", "read", "stream", "session"},
          file : File, server : Server \cup {NoServer}]

\* left: the messages it has still to send. peer: the other end is there, or gone, or gone
\* and something was sent to it since, so that the next send may raise SIGPIPE.
Thread == [at : {"idle", "send", "session", "word", "commit"}, from : User \cup {NoUser},
           file : File, left : 0 .. MaxWords + 1, peer : {"open", "gone", "reset"}]

DocsTypeOK ==
  /\ TypeOK
  /\ shell \in [User -> Shell]
  /\ inbox \subseteq Ask
  /\ guest \in User \cup {NoUser}
  /\ line \in [Server -> Seq(Connection)]
  /\ thread \in [Server -> Thread]

-----------------------------------------------------------------------------
AnyFile == NsIdle.file
ShellAt(at) == [at |-> at, ss |-> "none", file |-> AnyFile, server |-> NoServer]
Prompt == ShellAt("prompt")
Off == ShellAt("off")
ThreadIdle == [at |-> "idle", from |-> NoUser, file |-> AnyFile, left |-> 0, peer |-> "open"]

DocsInit ==
  /\ Init
  /\ shell = [u \in User |-> Off]
  /\ inbox = {} /\ guest = NoUser
  /\ line = [s \in Server |-> <<>>]
  /\ thread = [s \in Server |-> ThreadIdle]

-----------------------------------------------------------------------------
(* The shells: main, register_with_nameserver, the commands.               *)

AsksNs(u, cmd, f) ==
  /\ shell' = [shell EXCEPT ![u] = ShellAt("ask")]
  /\ inbox' = inbox \cup {[from |-> u, cmd |-> cmd, file |-> f]}
  /\ UNCHANGED <<vars, guest, line, thread>>

\* Connections of a shell of this user that is gone. A bound: the user does not start
\* another one before they are through.
Leftover(u) ==
  \/ guest = u
  \/ \E e \in inbox : e.from = u
  \/ \E s \in Server : \/ thread[s].from = u
                       \/ \E i \in DOMAIN line[s] : line[s][i].from = u

\* main: a shell starts and registers.
StartShell(u) ==
  /\ shell[u].at = "off" /\ ~Leftover(u)
  /\ AsksNs(u, Register, AnyFile)

\* A command is typed.
Types(u, cmd, f) ==
  /\ shell[u].at = "prompt"
  /\ AsksNs(u, cmd, f)

\* EXIT, QUIT or the end of the input: the name server is not told.
Exit(u) ==
  /\ shell[u].at = "prompt"
  /\ shell' = [shell EXCEPT ![u] = Off]
  /\ UNCHANGED <<vars, inbox, guest, line, thread>>

\* The threads whose connection to u is closed by u.
Hung(u) == [s \in Server |-> IF thread[s].from = u /\ thread[s].peer = "open"
                             THEN [thread[s] EXCEPT !.peer = "gone"] ELSE thread[s]]

\* signal_handler: Ctrl-C at any time. What the shell has asked for is done all the same.
Interrupt(u) ==
  /\ shell[u].at # "off"
  /\ shell' = [shell EXCEPT ![u] = Off]
  /\ inbox' = inbox \cup {[from |-> u, cmd |-> Unregister, file |-> AnyFile]}
  /\ thread' = Hung(u)
  /\ UNCHANGED <<vars, guest, line>>

\* With the address from the name server: connect and send the request.
Connect(u) ==
  /\ shell[u].at = "routed"
  /\ LET s == shell[u].server IN
     IF status[s] = "down"
     THEN shell' = [shell EXCEPT ![u] = Prompt] /\ UNCHANGED line
     ELSE /\ shell' = [shell EXCEPT ![u].at = "wait"]
          /\ line' = [line EXCEPT ![s] = Append(@, [from |-> u, ss |-> shell[u].ss,
                                                    file |-> shell[u].file])]
  /\ UNCHANGED <<vars, inbox, guest, thread>>

\* cmd_write, in the session: a word or ETIRW goes to the server, if it is still there.
SessionLine(u, what) ==
  /\ shell[u].at = "session"
  /\ LET s == shell[u].server IN
     IF s = NoServer
     THEN shell' = [shell EXCEPT ![u] = Prompt] /\ UNCHANGED thread
     ELSE /\ shell' = [shell EXCEPT ![u].at = "wait"]
          /\ thread' = [thread EXCEPT ![s].at = what]
  /\ UNCHANGED <<vars, inbox, guest, line>>

Word(u) == SessionLine(u, "word")
Etirw(u) == SessionLine(u, "commit")

\* CANCEL, or the end of the input: the connection is closed.
Cancel(u) ==
  /\ shell[u].at = "session"
  /\ shell' = [shell EXCEPT ![u] = Prompt]
  /\ thread' = Hung(u)
  /\ UNCHANGED <<vars, inbox, guest, line>>

EndSession(u) == Etirw(u) \/ Cancel(u)

-----------------------------------------------------------------------------
(* The main loop of the name server: a handler and its answer.             *)

\* The shells of those for whom the answer was the end of the command.
Answered(u) == [shell EXCEPT ![u] = IF @.at = "ask" THEN Prompt ELSE @]

\* A handler that is through has answered; another one goes on for its guest.
HandlerGoesOn(u) ==
  IF ns'.at = "idle" THEN guest' = NoUser /\ shell' = Answered(u)
                     ELSE guest' = u /\ UNCHANGED shell

\* Requests that are answered without a change. Those about access name a second user, or
\* a request, that need not be there.
Refused(kind, u, f) ==
  CASE kind = "delete" -> ~CanWrite(acl[f], u)
    [] kind = "query" -> ~CanRead(acl[f], u)
    [] kind = "move" -> ~Owns(acl[f], u) \/ fileMap[f] = NoServer
    [] kind = "folder" -> \A s \in ToSet(registry) : ~alive[s]
    [] kind \in {"list", "addaccess", "remaccess", "requestaccess", "approve", "deny"} -> TRUE
    [] OTHER -> FALSE

\* The handlers that NameServer has.
HandlerOf(kind, u, f) ==
  \/ kind = "create" /\ CreateAsk(u, f)
  \/ kind = "delete" /\ DeleteAsk(u, f)
  \/ kind = "query" /\ QueryAsk(u, f)
  \/ kind = "view" /\ \E op \in Views : ViewAsk(u, op)
  \/ kind = "move" /\ MoveAsk(u, f)
  \/ kind = "folder" /\ FolderAsk
  \/ kind = "addaccess" /\ \E t \in User : AddAccess(u, f, t)
  \/ kind = "remaccess" /\ \E t \in User : RemAccess(u, f, t)
  \/ kind = "requestaccess" /\ RequestAccess(u, f)
  \/ kind = "approve" /\ \E t \in User : ApproveRequest(u, f, t)
  \/ kind = "deny" /\ \E t \in User : DenyRequest(u, f, t)
  \/ Refused(kind, u, f) /\ UNCHANGED vars

\* handle_connection with such a request
Handle(e) ==
  /\ ns.at = "idle"
  /\ HandlerOf(e.cmd.ns, e.from, e.file)
  /\ HandlerGoesOn(e.from)
  /\ UNCHANGED <<line, thread>>

\* handle_client_registration; the shell of a user who is refused ends.
HandleRegister(e) ==
  /\ e.cmd = Register
  /\ \/ /\ RegisterClient(e.from)
        /\ shell' = Answered(e.from)
     \/ /\ Idle("client") /\ Len(clients) >= MaxClients
        /\ shell' = [shell EXCEPT ![e.from] = IF @.at = "ask" THEN Off ELSE @]
        /\ UNCHANGED vars
  /\ UNCHANGED <<guest, line, thread>>

\* mark_client_disconnected: is_active, which only LIST prints
HandleUnregister(e) ==
  /\ e.cmd = Unregister
  /\ ns.at = "idle"
  /\ UNCHANGED <<vars, shell, guest, line, thread>>

Allowed(right, f, u) == IF right = "write" THEN CanWrite(acl[f], u) ELSE CanRead(acl[f], u)

\* handle_read_request, handle_write_request, handle_undo_request, handle_stream_request
HandleRoute(e) ==
  /\ e.cmd.ns \in {"read", "write"}
  /\ Route(e.file)
  /\ LET s == Find(e.file)
         answer == IF s # NoServer /\ Allowed(e.cmd.ns, e.file, e.from)
                   THEN [at |-> "routed", ss |-> e.cmd.ss, file |-> e.file, server |-> s]
                   ELSE Prompt
     IN shell' = [shell EXCEPT ![e.from] = IF @.at = "ask" THEN answer ELSE @]
  /\ UNCHANGED <<guest, line, thread>>

\* handle_search_request asks, at their client ports and one after the other, the servers
\* that are alive and take the connection. It goes on after the first i of the registry.
SearchFrom(u, i) ==
  LET next == {j \in i + 1 .. Len(registry) :
                 alive[registry[j]] /\ status[registry[j]] # "down"}
      s == registry[Min(next)]
  IN /\ IF next = {} THEN ns' = NsIdle /\ UNCHANGED line
        ELSE /\ ns' = [NsIdle EXCEPT !.at = "search", !.server = s]
             /\ line' = [line EXCEPT ![s] = Append(@, [from |-> NsCaller, ss |-> "one",
                                                       file |-> AnyFile])]
     /\ HandlerGoesOn(u)
     /\ UNCHANGED <<accessVars, clients, registers, suspect, directory, lastUsed, servers,
                    thread>>

HandleSearch(e) ==
  /\ e.cmd.ns = "search"
  /\ Idle("query")
  /\ SearchFrom(e.from, 0)

\* A handle_search_request that tries again when the server closed the connection.
SearchTriesAgain ==
  /\ ns.at = "search" /\ status[ns.server] # "down"
  /\ \A i \in DOMAIN line[ns.server] : line[ns.server][i].from # NsCaller
  /\ SearchFrom(guest, CHOOSE i \in DOMAIN registry : registry[i] = ns.server)
  /\ UNCHANGED inbox

\* A handle_search_request that does not wait for the answer.
SearchDoesNotWait ==
  /\ ns.at = "search"
  /\ SearchFrom(guest, CHOOSE i \in DOMAIN registry : registry[i] = ns.server)
  /\ UNCHANGED inbox

\* The server answered or closed the connection.
SearchGoesOn ==
  /\ ns.at = "search"
  /\ \A i \in DOMAIN line[ns.server] : line[ns.server][i].from # NsCaller
  /\ SearchFrom(guest, CHOOSE i \in DOMAIN registry : registry[i] = ns.server)
  /\ UNCHANGED inbox

\* main, handle_connection: the request of some connection that is ready
HandleConnection(u) ==
  \E e \in inbox :
    /\ e.from = u
    /\ inbox' = inbox \ {e}
    /\ Handle(e) \/ HandleRegister(e) \/ HandleUnregister(e) \/ HandleRoute(e)
       \/ HandleSearch(e)

\* The rest of a handler that NameServer has.
HandlerProceeds ==
  /\ Proceed
  /\ HandlerGoesOn(guest)
  /\ UNCHANGED <<inbox, line, thread>>

MainLoop == SearchGoesOn \/ HandlerProceeds

\* What changes nothing for a client.
Alone(A) == A /\ UNCHANGED talk

-----------------------------------------------------------------------------
(* The client thread of a storage server (client_server_thread).           *)

ThreadSends(u, f, n, peer) ==
  [at |-> "send", from |-> u, file |-> f, left |-> n, peer |-> peer]

\* The first message on a connection to u: what becomes of the other end.
After(there) == IF there THEN "open" ELSE "reset"

\* accept, receive_message, and the handler up to its first message. A shell that is gone
\* has left its request behind.
Accept(s) ==
  /\ status[s] = "serving" /\ thread[s] = ThreadIdle /\ line[s] # <<>>
  /\ line' = [line EXCEPT ![s] = Tail(@)]
  /\ LET e == Head(line[s])
         u == e.from
         there == u \in User /\ shell[u].at = "wait"
         Says(at) == shell' = IF there THEN [shell EXCEPT ![u] = at] ELSE shell
         Goes(t) == thread' = [thread EXCEPT ![s] = t]
         found == e.file \in stores[s]
     IN
     \/ /\ e.ss = "one" \/ (e.ss = "stream" /\ ~found)
        /\ Says(Prompt) /\ UNCHANGED thread
     \/ /\ e.ss = "read" /\ ~found
        /\ Says(Prompt) /\ Goes(ThreadSends(u, e.file, 1, IF there THEN "gone" ELSE "reset"))
     \/ /\ e.ss = "read" /\ found
        /\ Goes(ThreadSends(u, e.file, 1, After(there))) /\ UNCHANGED shell
     \/ /\ e.ss = "stream" /\ found
        /\ \E n \in 0 .. MaxWords : Goes(ThreadSends(u, e.file, n + 1, After(there)))
        /\ UNCHANGED shell
     \/ /\ e.ss = "session" /\ found
        /\ Says([shell[u] EXCEPT !.at = "session"])
        /\ Goes([ThreadIdle EXCEPT !.at = "session", !.from = u, !.file = e.file,
                                   !.peer = After(there)])
     \/ /\ e.ss = "session"
        /\ Says(Prompt)
        /\ Goes([ThreadIdle EXCEPT !.at = "session", !.from = u, !.file = e.file,
                                   !.peer = IF there THEN "gone" ELSE "reset"])
  /\ UNCHANGED <<vars, inbox, guest>>

\* A handle_stream_request that goes on after STOP.
SendPastStop(s) ==
  /\ status[s] = "serving" /\ thread[s].at = "send"
  /\ thread' = [thread EXCEPT ![s].left = @ - 1, ![s].peer = After(@ = "open")]
  /\ UNCHANGED <<vars, shell, inbox, guest, line>>

\* The next message of READ or STREAM; the last one is STOP. What is sent to a shell that
\* is gone may fail, and STREAM then stops.
Send(s) ==
  /\ status[s] = "serving" /\ thread[s].at = "send"
  /\ LET t == thread[s] IN
     /\ \/ t.left = 1 /\ thread' = [thread EXCEPT ![s] = ThreadIdle]
        \/ t.left > 1 /\ thread' = [thread EXCEPT ![s].left = @ - 1,
                                                  ![s].peer = After(@ = "open")]
        \/ t.left > 1 /\ t.peer # "open" /\ thread' = [thread EXCEPT ![s] = ThreadIdle]
     /\ shell' = IF t.left = 1 /\ t.peer = "open"
                 THEN [shell EXCEPT ![t.from] = Prompt] ELSE shell
  /\ UNCHANGED <<vars, inbox, guest, line>>

\* OP_WRITE_UPDATE
SaveWord(s) ==
  /\ status[s] = "serving" /\ thread[s].at = "word"
  /\ LET t == thread[s] IN
     /\ thread' = [thread EXCEPT ![s].at = "session", ![s].peer = After(@ = "open")]
     /\ shell' = IF t.peer = "open" THEN [shell EXCEPT ![t.from].at = "session"] ELSE shell
  /\ UNCHANGED <<vars, inbox, guest, line>>

\* OP_WRITE_COMMIT, which renames over the document whether it is still there or not.
Commit(s) ==
  /\ status[s] = "serving" /\ thread[s].at = "commit"
  /\ LET t == thread[s] IN
     /\ \/ stores' = [stores EXCEPT ![s] = @ \cup {t.file}]
        \/ UNCHANGED stores
     /\ shell' = IF t.peer = "open" THEN [shell EXCEPT ![t.from] = Prompt] ELSE shell
  /\ thread' = [thread EXCEPT ![s] = ThreadIdle]
  /\ UNCHANGED <<accessVars, ns, clients, registers, suspect, directory, lastUsed, status,
                 queue, inbox, guest, line>>

\* A session loop that takes a closed connection for nothing: bytes < 0 instead of bytes <= 0.
HangUpOnErrorOnly(s) ==
  /\ status[s] = "serving" /\ thread[s].at = "session" /\ thread[s].peer = "reset"
  /\ thread' = [thread EXCEPT ![s] = ThreadIdle]
  /\ UNCHANGED <<vars, shell, inbox, guest, line>>

\* The connection of a session was closed: the lock and the session go.
HangUp(s) ==
  /\ status[s] = "serving" /\ thread[s].at = "session" /\ thread[s].peer # "open"
  /\ thread' = [thread EXCEPT ![s] = ThreadIdle]
  /\ UNCHANGED <<vars, shell, inbox, guest, line>>

\* The process of a storage server ends, and with it its connections. A shell that waits
\* sees this, and so does the name server; a user in a session does not yet.
Falls(s) ==
  /\ ServerDies(s)
  /\ line' = [line EXCEPT ![s] = <<>>]
  /\ thread' = [thread EXCEPT ![s] = ThreadIdle]
  /\ LET told == [u \in User |->
                    CASE shell[u].server = s /\ shell[u].at = "wait" -> Prompt
                      [] shell[u].server = s /\ shell[u].at = "session" ->
                           [shell[u] EXCEPT !.server = NoServer]
                      [] OTHER -> shell[u]]
     IN IF guest # NoUser /\ ns'.at = "idle"
        THEN guest' = NoUser /\ shell' = [told EXCEPT ![guest] = Answered(guest)[guest]]
        ELSE shell' = told /\ UNCHANGED guest
  /\ UNCHANGED inbox

Crash(s) == "crash" \in Ops /\ Falls(s)

\* send_message raises SIGPIPE on a connection that the other end has reset, and nothing
\* in the server handles it.
SigPipe(s) ==
  /\ status[s] = "serving" /\ thread[s].at = "send" /\ thread[s].peer = "reset"
  /\ Falls(s)

\* A server that was known is started again once it has been marked dead.
Restart(s) ==
  /\ QuickRestart \/ ~alive[s]
  /\ Alone(ServerStart(s))

-----------------------------------------------------------------------------
ServerCalls(s) == Alone(RegisterServer(s) \/ Heartbeat(s))
ServerServes(s) == Alone(Serve(s))
Time == Alone(Tick)
Detect(s) == Alone(Suspect(s))
MarkDead == Alone(Condemn)

ClientThread(s) == \/ Accept(s) \/ Send(s) \/ SaveWord(s) \/ Commit(s) \/ HangUp(s)

ShellStep(u) == \/ StartShell(u) \/ Exit(u) \/ Interrupt(u) \/ Connect(u)
                \/ Word(u) \/ Etirw(u) \/ Cancel(u)
                \/ \E cmd \in Commands[u], f \in File : Types(u, cmd, f)

DocsNext ==
  \/ \E u \in User : ShellStep(u) \/ HandleConnection(u)
  \/ \E s \in Server :
       \/ ClientThread(s) \/ Crash(s) \/ SigPipe(s) \/ Restart(s) \/ Detect(s)
       \/ ServerCalls(s) \/ ServerServes(s)
  \/ MainLoop \/ Time \/ MarkDead

DocsSpec == DocsInit /\ [][DocsNext]_docsVars

\* The processes run, as in NameServer; the main loop comes to every connection that is
\* ready, a client thread goes on, and a shell with an address connects. Users may type
\* nothing.
FairProcesses ==
  /\ DocsSpec
  /\ WF_docsVars(MainLoop) /\ WF_docsVars(Time) /\ WF_docsVars(MarkDead)
  /\ \A s \in Server : /\ WF_docsVars(ServerServes(s)) /\ WF_docsVars(ClientThread(s))
                       /\ WF_docsVars(Detect(s)) /\ SF_docsVars(ServerCalls(s))
  /\ \A u \in User : SF_docsVars(HandleConnection(u)) /\ WF_docsVars(Connect(u))

\* Users end their WRITE sessions.
FairUsers == FairProcesses /\ \A u \in User : SF_docsVars(EndSession(u))

-----------------------------------------------------------------------------
(* What should hold.                                                       *)

\* Where the question of u is: with the name server, in the line of a storage server, with
\* its client thread. What a shell that is gone left behind does not count.
Question(u) == {e \in inbox : e.from = u /\ e.cmd # Unregister}
Waiting(u, s) == {i \in DOMAIN line[s] : line[s][i].from = u}
Served(u, s) == thread[s].from = u /\ thread[s].peer = "open"

\* Whoever waits is in exactly one place, the one it waits at, so that an answer comes, or
\* the end of the connection; and whoever does not wait is in none, so that no answer
\* comes to the wrong command.
WaitersAreQueued ==
  /\ \A u \in User :
       LET at == shell[u].at
           here == shell[u].server
           asking == IF guest = u THEN Question(u) = {} ELSE \E e \in inbox : Question(u) = {e}
           waits(s) == IF Served(u, s) THEN Waiting(u, s) = {}
                       ELSE \E i \in DOMAIN line[s] : Waiting(u, s) = {i}
       IN /\ at = "ask" => asking
          /\ at \in {"prompt", "routed", "wait", "session"} => guest # u /\ Question(u) = {}
          /\ \A s \in Server :
               /\ at = "wait" /\ here = s => waits(s)
               /\ at = "wait" /\ Served(u, s) => thread[s].at # "session"
               /\ at = "session" /\ here = s => Served(u, s) /\ thread[s].at = "session"
               /\ Served(u, s) => at \in {"wait", "session"} /\ here = s
               /\ Waiting(u, s) # {} => at = "off" \/ (at = "wait" /\ here = s)
  /\ ns.at = "idle" <=> guest = NoUser
  /\ \A s \in Server : Waiting(NsCaller, s) # {} => ns.at = "search" /\ ns.server = s

\* A command comes to its end: the shell waits for the next one, or for a line of a WRITE
\* session (client.c, every receive_message).
CommandsEnd ==
  \A u \in User : []<>(shell[u].at \in {"off", "prompt", "session"})

\* The name server comes back to its loop.
NameServerComesBack == []<>(ns.at = "idle")

\* A storage server that stays up is alive again after each time it was marked dead.
LiveServersReturn ==
  \A s \in Server : <>[](status[s] = "serving" /\ s \in ToSet(registry)) => []<>alive[s]

=============================================================================
