---------------------------- MODULE DocsProofs ----------------------------
(***************************************************************************)
(* Nobody waits in vain: for every set of users, files and storage servers *)
(* and every bound, whoever waits has one question, at the place where it  *)
(* waits, and is answered or sees the connection closed when it goes. Then *)
(* the types, and what the name server guarantees, in the whole system.    *)
(***************************************************************************)
EXTENDS Docs, DirectoryProofs

Talks == {"one", "read", "stream", "session"}

ShellShape(x) ==
  /\ DOMAIN x = {"at", "ss", "file", "server"}
  /\ x.at \in {"off", "prompt", "ask", "routed", "wait", "session"} /\ x.file \in File
  /\ x.at = "routed" => x.ss \in Talks

\* A thread that sends to somebody who is there sends to a user.
ThreadShape(t) ==
  /\ DOMAIN t = {"at", "from", "file", "left", "peer"}
  /\ t.peer = "open" /\ t.at # "idle" => t.from \in User

ShellTyped == /\ shell = [u \in User |-> shell[u]]
              /\ \A u \in User : ShellShape(shell[u])
ThreadTyped == /\ thread = [s \in Server |-> thread[s]]
               /\ \A s \in Server : ThreadShape(thread[s])
LineTyped == line \in [Server -> Seq(Connection)]

TalkTyped ==
  /\ ShellTyped /\ ThreadTyped /\ LineTyped
  /\ inbox \subseteq Ask
  /\ guest \in User \cup {NoUser}

\* The parts of WaitersAreQueued.
UserOk(u) ==
  LET at == shell[u].at
      here == shell[u].server
      asking == IF guest = u THEN Question(u) = {} ELSE \E e \in inbox : Question(u) = {e}
      waits(s) == IF Served(u, s) THEN Waiting(u, s) = {}
                  ELSE \E i \in DOMAIN line[s] : Waiting(u, s) = {i}
  IN /\ at = "ask" => asking
     /\ at \in {"prompt", "routed", "wait", "session"} => guest # u /\ Question(u) = {}
     /\ \A s \in Server :
          /\ at = "wait" /\ here = s => waits(s)
          /\ at = "wait" /\ Served(u, s) => thread[s].at # "session"
          /\ at = "session" /\ here = s => Served(u, s) /\ thread[s].at = "session"
          /\ Served(u, s) => at \in {"wait", "session"} /\ here = s
          /\ Waiting(u, s) # {} => at = "off" \/ (at = "wait" /\ here = s)

HandlerHasGuest == ns.at = "idle" <=> guest = NoUser

SearchWaits == \A s \in Server : Waiting(NsCaller, s) # {} => ns.at = "search" /\ ns.server = s

LEMMA WaitersParts ==
  WaitersAreQueued <=> (\A u \in User : UserOk(u)) /\ HandlerHasGuest /\ SearchWaits
  BY Zenon DEF WaitersAreQueued, UserOk, HandlerHasGuest, SearchWaits

TalkInv == /\ TalkTyped
           /\ \A u \in User : UserOk(u)
           /\ HandlerHasGuest /\ SearchWaits

DocsInv == NsShape /\ OneQuestion /\ TalkInv

-----------------------------------------------------------------------------
(* The commands.                                                           *)

LEMMA CommandKinds ==
  ASSUME NEW c \in AllCommands
  PROVE  /\ c.ns # "unregister" /\ c # Unregister
         /\ c.ns \in {"read", "write"} => c.ss \in Talks
<1>1. \A k : NsOnly(k).ns = k /\ NsOnly(k).ss = "none"
  BY DEF NsOnly
<1>2. \A r, t : Routed(r, t).ns = r /\ Routed(r, t).ss = t
  BY DEF Routed
<1>3. Unregister.ns = "unregister"
  BY <1>1 DEF Unregister
<1>4. \/ \E k \in {"create", "delete", "list", "view", "query", "addaccess", "remaccess",
                   "folder", "move", "requestaccess", "approve", "deny", "search"} :
           c = NsOnly(k)
      \/ \E r \in {"read", "write"}, t \in Talks : c = Routed(r, t)
  BY DEF AllCommands, Talks, CmdCreate, CmdDelete, CmdList, CmdView, CmdViewLong, CmdInfo,
         CmdExec, CmdAddaccess, CmdRemaccess, CmdCreatefolder, CmdViewfolder, CmdMove,
         CmdRequestaccess, CmdViewrequests, CmdApproverequest, CmdDenyrequest, CmdSearch,
         CmdRead, CmdStream, CmdWrite, CmdUndo, CmdCheckpoint, CmdViewcheckpoint,
         CmdRevert, CmdListcheckpoints
<1> QED
  BY <1>1, <1>2, <1>3, <1>4

LEMMA RegisterKind == /\ Register.ns = "register" /\ Register # Unregister
                      /\ Unregister.ns = "unregister"
<1>1. Register.ns = "register" /\ Unregister.ns = "unregister"
  BY DEF Register, Unregister, NsOnly
<1> QED
  BY <1>1

-----------------------------------------------------------------------------
(* The lines.                                                              *)

Places(q, x) == {i \in DOMAIN q : q[i].from = x}

LEMMA AppendedOther ==
  ASSUME NEW q \in Seq(Connection), NEW c \in Connection, NEW x, c.from # x
  PROVE  Places(Append(q, c), x) = Places(q, x)
<1>1. /\ DOMAIN Append(q, c) = 1 .. Len(q) + 1 /\ DOMAIN q = 1 .. Len(q) /\ Len(q) \in Nat
      /\ Append(q, c)[Len(q) + 1] = c
      /\ \A i \in 1 .. Len(q) : Append(q, c)[i] = q[i]
  OBVIOUS
<1> QED
  BY <1>1 DEF Places

LEMMA AppendedOwn ==
  ASSUME NEW q \in Seq(Connection), NEW c \in Connection, Places(q, c.from) = {}
  PROVE  \E i \in DOMAIN Append(q, c) : Places(Append(q, c), c.from) = {i}
<1>1. /\ DOMAIN Append(q, c) = 1 .. Len(q) + 1 /\ DOMAIN q = 1 .. Len(q) /\ Len(q) \in Nat
      /\ Append(q, c)[Len(q) + 1] = c
      /\ \A i \in 1 .. Len(q) : Append(q, c)[i] = q[i]
  OBVIOUS
<1>2. Places(Append(q, c), c.from) = {Len(q) + 1}
  BY <1>1 DEF Places
<1>3. Len(q) + 1 \in DOMAIN Append(q, c)
  BY <1>1
<1> QED
  BY <1>2, <1>3

LEMMA TailPlaces ==
  ASSUME NEW q \in Seq(Connection), q # <<>>, NEW x
  PROVE  /\ \A i \in DOMAIN Tail(q) : i \in Places(Tail(q), x) <=> i + 1 \in Places(q, x)
         /\ DOMAIN Tail(q) = 1 .. Len(q) - 1 /\ DOMAIN q = 1 .. Len(q)
         /\ Len(q) \in Nat \ {0}
         /\ 1 \in Places(q, x) <=> Head(q).from = x
<1>1. /\ Len(q) \in Nat \ {0} /\ DOMAIN Tail(q) = 1 .. Len(q) - 1 /\ DOMAIN q = 1 .. Len(q)
      /\ \A i \in 1 .. Len(q) - 1 : Tail(q)[i] = q[i + 1]
      /\ Head(q) = q[1]
  OBVIOUS
<1> QED
  BY <1>1 DEF Places

\* Who is next leaves; the others move up.
LEMMA TailOwn ==
  ASSUME NEW q \in Seq(Connection), q # <<>>, NEW i, Places(q, Head(q).from) = {i}
  PROVE  Places(Tail(q), Head(q).from) = {}
<1> DEFINE x == Head(q).from
<1>1. i = 1
  BY TailPlaces
<1>2. \A j \in DOMAIN Tail(q) : j \notin Places(Tail(q), x)
  BY <1>1, TailPlaces
<1> QED
  BY <1>2 DEF Places

LEMMA TailNone ==
  ASSUME NEW q \in Seq(Connection), q # <<>>, NEW x, Places(q, x) = {}
  PROVE  Places(Tail(q), x) = {}
<1>1. \A j \in DOMAIN Tail(q) : j \notin Places(Tail(q), x)
  BY TailPlaces
<1> QED
  BY <1>1 DEF Places

LEMMA TailOther ==
  ASSUME NEW q \in Seq(Connection), q # <<>>, NEW x, Head(q).from # x,
         NEW i \in DOMAIN q, Places(q, x) = {i}
  PROVE  \E j \in DOMAIN Tail(q) : Places(Tail(q), x) = {j}
<1>1. i \in 1 .. Len(q) /\ i # 1
  BY TailPlaces
<1>2. i - 1 \in DOMAIN Tail(q)
  BY <1>1, TailPlaces
<1>3. \A j \in DOMAIN Tail(q) : j \in Places(Tail(q), x) <=> j = i - 1
  BY <1>1, TailPlaces
<1>4. Places(Tail(q), x) = {i - 1}
  BY <1>2, <1>3 DEF Places
<1> QED
  BY <1>2, <1>4

LEMMA WaitingIsPlaces ==
  \A u, s : /\ Waiting(u, s) = Places(line[s], u)
            /\ Waiting(u, s)' = Places(line'[s], u)
  BY DEF Waiting, Places

-----------------------------------------------------------------------------
(* The steps by what they change for one user, one shell, one thread.      *)

SameWaits(v) ==
  /\ shell'[v] = shell[v] /\ (guest' = v <=> guest = v) /\ Question(v)' = Question(v)
  /\ \A s \in Server :
       /\ Waiting(v, s) = {} => Waiting(v, s)' = {}
       /\ (\E i \in DOMAIN line[s] : Waiting(v, s) = {i})
            => \E i \in DOMAIN line'[s] : Waiting(v, s)' = {i}
       /\ Served(v, s)' <=> Served(v, s)
       /\ Served(v, s) => thread'[s].at = thread[s].at

LEMMA UserFrame ==
  ASSUME NEW v \in User, UserOk(v), SameWaits(v)
  PROVE  UserOk(v)'
<1>1. ASSUME \E e \in inbox : Question(v) = {e}
      PROVE  \E e \in inbox' : Question(v)' = {e}
  <2>1. PICK e \in inbox : Question(v) = {e}
    BY <1>1
  <2>2. Question(v)' = {e}
    BY <2>1 DEF SameWaits
  <2>3. e \in inbox'
    BY <2>2 DEF Question
  <2> QED
    BY <2>2, <2>3
<1> QED
  BY <1>1 DEF UserOk, SameWaits

\* A shell that does not wait for a storage server.
Away(at) == at \in {"off", "prompt", "ask", "routed"}

LEMMA AwayNow ==
  ASSUME NEW u \in User, UserOk(u), Away(shell[u].at), NEW s \in Server
  PROVE  ~Served(u, s) /\ (shell[u].at # "off" => Waiting(u, s) = {})
  BY DEF UserOk, Away

LEMMA AwayOk ==
  ASSUME NEW u \in User, Away(shell'[u].at),
         \A s \in Server : /\ ~Served(u, s)'
                           /\ shell'[u].at # "off" => Waiting(u, s)' = {},
         shell'[u].at \in {"prompt", "routed"} => guest' # u /\ Question(u)' = {},
         shell'[u].at = "ask" => IF guest' = u THEN Question(u)' = {}
                                 ELSE \E e \in inbox' : Question(u)' = {e}
  PROVE  UserOk(u)'
  BY DEF UserOk, Away

LEMMA ShellAtShape ==
  ASSUME NEW at \in {"off", "prompt", "ask", "wait", "session"}
  PROVE  ShellShape(ShellAt(at)) /\ ShellAt(at).at = at
  BY NsIdleShape DEF ShellShape, ShellAt, AnyFile

LEMMA SetShell ==
  ASSUME ShellTyped, NEW u \in User, NEW x, ShellShape(x), shell' = [shell EXCEPT ![u] = x]
  PROVE  /\ ShellTyped' /\ shell'[u] = x
         /\ \A v \in User : v # u => shell'[v] = shell[v]
  BY DEF ShellTyped

LEMMA SetThread ==
  ASSUME ThreadTyped, NEW s \in Server, NEW t, ThreadShape(t),
         thread' = [thread EXCEPT ![s] = t]
  PROVE  /\ ThreadTyped' /\ thread'[s] = t
         /\ \A r \in Server : r # s => thread'[r] = thread[r]
  BY DEF ThreadTyped

LEMMA SetLine ==
  ASSUME LineTyped, NEW s \in Server, NEW q \in Seq(Connection),
         line' = [line EXCEPT ![s] = q]
  PROVE  /\ LineTyped' /\ line'[s] = q
         /\ \A r \in Server : r # s => line'[r] = line[r]
  BY DEF LineTyped

\* A question more, and a question less.
LEMMA Added ==
  ASSUME NEW u, NEW c, NEW f, inbox' = inbox \cup {[from |-> u, cmd |-> c, file |-> f]}
  PROVE  /\ \A v : v # u => Question(v)' = Question(v)
         /\ c = Unregister => Question(u)' = Question(u)
         /\ c # Unregister /\ Question(u) = {}
              => \E e \in inbox' : Question(u)' = {e}
<1> DEFINE e == [from |-> u, cmd |-> c, file |-> f]
<1>1. e.from = u /\ e.cmd = c /\ inbox' = inbox \cup {e}
  OBVIOUS
<1> HIDE DEF e
<1>2. c # Unregister /\ Question(u) = {} => Question(u)' = {e} /\ e \in inbox'
  BY <1>1 DEF Question
<1> QED
  BY <1>1, <1>2 DEF Question

LEMMA Taken ==
  ASSUME NEW e \in inbox, inbox' = inbox \ {e}
  PROVE  /\ \A v : v # e.from => Question(v)' = Question(v)
         /\ e.cmd = Unregister => \A v : Question(v)' = Question(v)
         /\ e.cmd # Unregister => e \in Question(e.from)
         /\ e.cmd # Unregister /\ (\E q \in inbox : Question(e.from) = {q})
              => Question(e.from)' = {}
<1>1. e.cmd # Unregister => e \in Question(e.from)
  BY DEF Question
<1>2. ASSUME e.cmd # Unregister, NEW q \in inbox, Question(e.from) = {q}
      PROVE  Question(e.from)' = {}
  <2>1. q = e
    BY <1>1, <1>2
  <2> QED
    BY <1>2, <2>1 DEF Question
<1> QED
  BY <1>1, <1>2 DEF Question

\* What SameWaits asks, when no line loses or gets a user.
LineKept == \A v \in User, s \in Server : Waiting(v, s)' = Waiting(v, s)

LEMMA LineKeptWaits ==
  ASSUME LineKept, NEW v \in User, NEW s \in Server
  PROVE  /\ Waiting(v, s) = {} => Waiting(v, s)' = {}
         /\ (\E i \in DOMAIN line[s] : Waiting(v, s) = {i})
              => \E i \in DOMAIN line'[s] : Waiting(v, s)' = {i}
<1>1. ASSUME NEW i, Waiting(v, s)' = {i} PROVE i \in DOMAIN line'[s]
  BY <1>1 DEF Waiting
<1> QED
  BY <1>1 DEF LineKept

\* One shell goes to a state in which it does not wait for a storage server.
LEMMA TurnsAway ==
  ASSUME ShellTyped, \A v \in User : UserOk(v),
         NEW u \in User, NEW x, ShellShape(x), Away(x.at), shell' = [shell EXCEPT ![u] = x],
         \A s \in Server : ~Served(u, s)' /\ (x.at # "off" => Waiting(u, s)' = {}),
         x.at \in {"prompt", "routed"} => guest' # u /\ Question(u)' = {},
         x.at = "ask" => IF guest' = u THEN Question(u)' = {}
                         ELSE \E e \in inbox' : Question(u)' = {e},
         \A v \in User : v # u /\ shell'[v] = shell[v] => SameWaits(v)
  PROVE  ShellTyped' /\ \A v \in User : UserOk(v)'
<1>1. /\ ShellTyped' /\ shell'[u] = x
      /\ \A v \in User : v # u => shell'[v] = shell[v]
  BY SetShell
<1>2. UserOk(u)'
  BY <1>1, AwayOk
<1>3. \A v \in User : v # u => UserOk(v)'
  BY <1>1, UserFrame
<1> QED
  BY <1>1, <1>2, <1>3

LEMMA StartShellOk ==
  ASSUME DocsInv, NEW u \in User,
         StartShell(u) \/ \E c \in AllCommands, f \in File : Types(u, c, f)
  PROVE  TalkInv'
<1> USE DEF DocsInv, TalkInv, TalkTyped
<1>1. PICK c \in AllCommands \cup {Register}, f \in File : AsksNs(u, c, f) /\ c # Unregister
  BY NsIdleShape, CommandKinds, RegisterKind DEF StartShell, Types, AnyFile
<1>2. /\ guest # u /\ Question(u) = {}
      /\ \A s \in Server : ~Served(u, s) /\ Waiting(u, s) = {}
  <2>1. CASE StartShell(u)
    BY <2>1 DEF StartShell, Leftover, Question, Served, Waiting
  <2>2. CASE shell[u].at = "prompt"
    BY <2>2, AwayNow DEF UserOk, Away
  <2> QED
    BY <2>1, <2>2 DEF Types
<1>3. /\ shell' = [shell EXCEPT ![u] = ShellAt("ask")]
      /\ inbox' = inbox \cup {[from |-> u, cmd |-> c, file |-> f]}
      /\ UNCHANGED <<ns, guest, line, thread>>
  BY <1>1 DEF AsksNs, vars
<1>4. inbox' \subseteq Ask
  BY <1>3 DEF Ask
<1>5. /\ \A v : v # u => Question(v)' = Question(v)
      /\ \E e \in inbox' : Question(u)' = {e}
  BY <1>1, <1>2, <1>3, Added
<1>6. \A v, s : Waiting(v, s)' = Waiting(v, s) /\ (Served(v, s)' <=> Served(v, s))
  BY <1>3 DEF Waiting, Served
<1>7. \A v \in User : v # u /\ shell'[v] = shell[v] => SameWaits(v)
  BY <1>3, <1>5, <1>6, LineKeptWaits DEF SameWaits, LineKept
<1>8. ShellTyped' /\ \A v \in User : UserOk(v)'
  BY <1>2, <1>3, <1>5, <1>6, <1>7, TurnsAway, ShellAtShape DEF Away
<1>9. ThreadTyped' /\ LineTyped' /\ HandlerHasGuest' /\ SearchWaits'
  BY <1>3, <1>6 DEF ThreadTyped, LineTyped, HandlerHasGuest, SearchWaits
<1> QED
  BY <1>3, <1>4, <1>8, <1>9

\* The connections that a shell closes.
LEMMA HungOnes ==
  ASSUME ThreadTyped, NEW u \in User, thread' = Hung(u)
  PROVE  /\ ThreadTyped'
         /\ \A s \in Server : ~Served(u, s)'
         /\ \A v \in User, s \in Server : v # u => (Served(v, s)' <=> Served(v, s))
         /\ \A s \in Server : thread'[s].at = thread[s].at
<1>1. ASSUME NEW s \in Server
      PROVE  /\ ThreadShape(thread'[s]) /\ thread'[s].at = thread[s].at
             /\ thread'[s].from = thread[s].from
             /\ thread'[s].from = u => thread'[s].peer # "open"
             /\ thread'[s].from # u => thread'[s].peer = thread[s].peer
  <2>1. ThreadShape(thread[s])
    BY DEF ThreadTyped
  <2>2. CASE thread[s].from = u /\ thread[s].peer = "open"
    <3>1. thread'[s] = [thread[s] EXCEPT !.peer = "gone"]
      BY <2>2 DEF Hung
    <3> QED
      BY <2>1, <2>2, <3>1 DEF ThreadShape
  <2>3. CASE ~(thread[s].from = u /\ thread[s].peer = "open")
    <3>1. thread'[s] = thread[s]
      BY <2>3 DEF Hung
    <3> QED
      BY <2>1, <2>3, <3>1
  <2> QED
    BY <2>2, <2>3
<1>2. ThreadTyped'
  BY <1>1 DEF ThreadTyped, Hung
<1> QED
  BY <1>1, <1>2 DEF Served

LEMMA LeaveOk ==
  ASSUME DocsInv, NEW u \in User, Exit(u) \/ Interrupt(u) \/ Cancel(u)
  PROVE  TalkInv'
<1> USE DEF DocsInv, TalkInv, TalkTyped
<1>1. ShellShape(Off) /\ Off.at = "off" /\ ShellShape(Prompt) /\ Prompt.at = "prompt"
  BY ShellAtShape DEF Off, Prompt
<1>2. PICK x \in {Off, Prompt} :
        /\ shell' = [shell EXCEPT ![u] = x] /\ UNCHANGED <<ns, guest, line>>
        /\ x = Prompt => shell[u].at = "session"
  <2>1. CASE Exit(u) \/ Interrupt(u)
    BY <1>1, <2>1 DEF Exit, Interrupt, vars
  <2>2. CASE Cancel(u)
    BY <2>2 DEF Cancel, vars
  <2> QED
    BY <2>1, <2>2
<1>3. /\ ThreadTyped'
      /\ \A s \in Server : ~Served(u, s)'
      /\ \A v \in User, s \in Server : v # u => (Served(v, s)' <=> Served(v, s))
      /\ \A s \in Server : thread'[s].at = thread[s].at
  <2>1. CASE Exit(u)
    <3>1. UNCHANGED thread /\ Away(shell[u].at)
      BY <2>1 DEF Exit, Away
    <3>2. \A s \in Server : ~Served(u, s)
      BY <3>1, AwayNow
    <3> QED
      BY <3>1, <3>2 DEF ThreadTyped, Served
  <2>2. CASE Interrupt(u) \/ Cancel(u)
    BY <2>2, HungOnes DEF Interrupt, Cancel
  <2> QED
    BY <2>1, <2>2
<1>4. inbox' \subseteq Ask /\ \A v : Question(v)' = Question(v)
  <2>1. CASE UNCHANGED inbox
    BY <2>1 DEF Question
  <2>2. CASE Interrupt(u)
    <3>1. inbox' = inbox \cup {[from |-> u, cmd |-> Unregister, file |-> AnyFile]}
      BY <2>2 DEF Interrupt
    <3>2. AnyFile \in File
      BY NsIdleShape DEF AnyFile
    <3> QED
      BY <3>1, <3>2, Added DEF Ask
  <2> QED
    BY <2>1, <2>2 DEF Exit, Cancel
<1>5. \A v, s : Waiting(v, s)' = Waiting(v, s)
  BY <1>2 DEF Waiting
<1>6. \A v \in User : v # u /\ shell'[v] = shell[v] => SameWaits(v)
  BY <1>2, <1>3, <1>4, <1>5, LineKeptWaits DEF SameWaits, LineKept
<1>7. x = Prompt => guest # u /\ Question(u) = {} /\ \A s \in Server : Waiting(u, s) = {}
  BY <1>2 DEF UserOk
<1>8. ShellTyped' /\ \A v \in User : UserOk(v)'
  BY <1>2, <1>1, <1>3, <1>4, <1>5, <1>6, <1>7, TurnsAway DEF Away
<1>9. LineTyped' /\ HandlerHasGuest' /\ SearchWaits'
  BY <1>2, <1>5 DEF LineTyped, HandlerHasGuest, SearchWaits
<1> QED
  BY <1>2, <1>3, <1>4, <1>8, <1>9

\* Somebody joins a line.
LEMMA Joined ==
  ASSUME LineTyped, NEW s, NEW c \in Connection, line' = [line EXCEPT ![s] = Append(@, c)]
  PROVE  /\ LineTyped'
         /\ \A x, r : x # c.from /\ r \in Server => Waiting(x, r)' = Waiting(x, r)
         /\ \A x, r : r # s /\ r \in Server => Waiting(x, r)' = Waiting(x, r)
         /\ s \in Server /\ Waiting(c.from, s) = {}
              => \E i \in DOMAIN line'[s] : Waiting(c.from, s)' = {i}
<1>1. CASE s \notin Server
  <2>1. line' = line
    BY <1>1 DEF LineTyped
  <2> QED
    BY <1>1, <2>1 DEF LineTyped, Waiting
<1>2. CASE s \in Server
  <2>1. line[s] \in Seq(Connection)
    BY <1>2 DEF LineTyped
  <2>2. Append(line[s], c) \in Seq(Connection)
    BY <2>1
  <2>3. /\ LineTyped' /\ line'[s] = Append(line[s], c)
        /\ \A r \in Server : r # s => line'[r] = line[r]
    BY <1>2, <2>2, SetLine
  <2>4. \A x : x # c.from => Places(line'[s], x) = Places(line[s], x)
    BY <2>1, <2>3, AppendedOther
  <2>5. Places(line[s], c.from) = {}
          => \E i \in DOMAIN line'[s] : Places(line'[s], c.from) = {i}
    BY <2>1, <2>3, AppendedOwn
  <2> QED
    BY <2>3, <2>4, <2>5, WaitingIsPlaces
<1> QED
  BY <1>1, <1>2

LEMMA ConnectOk ==
  ASSUME DocsInv, NEW u \in User, Connect(u)
  PROVE  TalkInv'
<1> USE DEF DocsInv, TalkInv, TalkTyped
<1>s. PICK s : s = shell[u].server
  OBVIOUS
<1>1. /\ shell[u].at = "routed" /\ UserOk(u) /\ ShellShape(shell[u])
      /\ UNCHANGED <<ns, inbox, guest, thread>>
  BY DEF Connect, ShellTyped, vars
<1>2. guest # u /\ Question(u) = {} /\ \A r \in Server : ~Served(u, r) /\ Waiting(u, r) = {}
  BY <1>1 DEF UserOk
<1>3. \A v : Question(v)' = Question(v) /\ \A r : Served(v, r)' <=> Served(v, r)
  BY <1>1 DEF Question, Served
<1>4. inbox' \subseteq Ask /\ ThreadTyped' /\ HandlerHasGuest'
  BY <1>1 DEF ThreadTyped, HandlerHasGuest
<1>5. CASE status[s] = "down"
  <2>1. shell' = [shell EXCEPT ![u] = Prompt] /\ UNCHANGED line
    BY <1>5, <1>s DEF Connect
  <2>2. \A v, r : Waiting(v, r)' = Waiting(v, r)
    BY <2>1 DEF Waiting
  <2>3. \A v \in User : v # u /\ shell'[v] = shell[v] => SameWaits(v)
    BY <1>1, <1>3, <2>2, LineKeptWaits DEF SameWaits, LineKept
  <2>4. ShellTyped' /\ \A v \in User : UserOk(v)'
    BY <1>1, <1>2, <1>3, <2>1, <2>2, <2>3, TurnsAway, ShellAtShape DEF Away, Prompt
  <2>5. LineTyped' /\ SearchWaits'
    BY <1>1, <2>1, <2>2 DEF LineTyped, SearchWaits
  <2> QED
    BY <1>1, <1>4, <2>4, <2>5
<1>6. CASE status[s] # "down"
  <2>x. PICK x, c : /\ x = [shell[u] EXCEPT !.at = "wait"]
                    /\ c = [from |-> u, ss |-> shell[u].ss, file |-> shell[u].file]
    OBVIOUS
  <2>1. shell' = [shell EXCEPT ![u] = x] /\ line' = [line EXCEPT ![s] = Append(@, c)]
    BY <1>1, <1>6, <1>s, <2>x DEF Connect, ShellTyped
  <2>2. ShellShape(x) /\ x.at = "wait" /\ x.server = s
    BY <1>1, <1>s, <2>x DEF ShellShape
  <2>3. c \in Connection /\ c.from = u /\ u # NsCaller
    BY <1>1, <2>x, DocsAssumption DEF Connection, ShellShape, Talks
  <2>4. /\ ShellTyped' /\ shell'[u] = x /\ \A v \in User : v # u => shell'[v] = shell[v]
    BY <2>1, <2>2, SetShell
  <2>5. /\ LineTyped'
        /\ \A v, r : v # u /\ r \in Server => Waiting(v, r)' = Waiting(v, r)
        /\ \A v, r : r # s /\ r \in Server => Waiting(v, r)' = Waiting(v, r)
        /\ s \in Server => \E i \in DOMAIN line'[s] : Waiting(u, s)' = {i}
    <3>1. LineTyped
      OBVIOUS
    <3>2. /\ LineTyped'
          /\ \A v, r : v # c.from /\ r \in Server => Waiting(v, r)' = Waiting(v, r)
          /\ \A v, r : r # s /\ r \in Server => Waiting(v, r)' = Waiting(v, r)
          /\ s \in Server /\ Waiting(c.from, s) = {}
               => \E i \in DOMAIN line'[s] : Waiting(c.from, s)' = {i}
      BY ONLY <2>1, <2>3, <3>1, Joined
    <3> QED
      BY <1>2, <2>3, <3>2
  <2>6. SearchWaits'
    BY <1>1, <2>3, <2>5 DEF SearchWaits
  <2>7. UserOk(u)'
    BY <1>1, <1>2, <1>3, <2>2, <2>4, <2>5 DEF UserOk
  <2>8. ASSUME NEW v \in User, v # u PROVE UserOk(v)'
    <3>1. \A r \in Server : Waiting(v, r)' = Waiting(v, r)
      BY <2>5, <2>8
    <3>2. \A r \in Server : \A i : Waiting(v, r)' = {i} => i \in DOMAIN line'[r]
      BY DEF Waiting
    <3>3. SameWaits(v)
      BY <1>1, <1>3, <2>4, <2>8, <3>1, <3>2 DEF SameWaits
    <3> QED
      BY <3>3, UserFrame
  <2> QED
    BY <1>1, <1>4, <2>4, <2>5, <2>6, <2>7, <2>8
<1> QED
  BY <1>5, <1>6

LEMMA SessionLineOk ==
  ASSUME DocsInv, NEW u \in User, NEW what \in {"word", "commit"}, SessionLine(u, what)
  PROVE  TalkInv'
<1> USE DEF DocsInv, TalkInv, TalkTyped
<1>s. PICK s : s = shell[u].server
  OBVIOUS
<1>1. /\ shell[u].at = "session" /\ UserOk(u) /\ ShellShape(shell[u])
      /\ UNCHANGED <<ns, inbox, guest, line>>
  BY DEF SessionLine, ShellTyped, vars
<1>2. /\ guest # u /\ Question(u) = {}
      /\ \A r \in Server : /\ Waiting(u, r) = {}
                           /\ Served(u, r) <=> r = s
                           /\ r = s => thread[r].at = "session"
  BY <1>1, <1>s DEF UserOk
<1>3. /\ \A v : Question(v)' = Question(v) /\ \A r : Waiting(v, r)' = Waiting(v, r)
      /\ LineKept
  BY <1>1 DEF Question, Waiting, LineKept
<1>4. inbox' \subseteq Ask /\ LineTyped' /\ HandlerHasGuest' /\ SearchWaits'
  BY <1>1, <1>3 DEF LineTyped, HandlerHasGuest, SearchWaits
<1>5. CASE s = NoServer
  <2>1. shell' = [shell EXCEPT ![u] = Prompt] /\ UNCHANGED thread
    BY <1>5, <1>s DEF SessionLine
  <2>2. \A r \in Server : ~Served(u, r)
    BY <1>2, <1>5, NameServerAssumption
  <2>3. \A v, r : Served(v, r)' <=> Served(v, r)
    BY <2>1 DEF Served
  <2>4. \A v \in User : v # u /\ shell'[v] = shell[v] => SameWaits(v)
    BY <1>1, <1>3, <2>1, <2>3, LineKeptWaits DEF SameWaits
  <2>5. ShellTyped' /\ \A v \in User : UserOk(v)'
    BY <1>1, <1>2, <1>3, <2>1, <2>2, <2>3, <2>4, TurnsAway, ShellAtShape DEF Away, Prompt
  <2> QED
    BY <1>1, <1>4, <2>1, <2>5 DEF ThreadTyped
<1>6. CASE s # NoServer
  <2>x. PICK x : x = [shell[u] EXCEPT !.at = "wait"]
    OBVIOUS
  <2>1. shell' = [shell EXCEPT ![u] = x] /\ thread' = [thread EXCEPT ![s].at = what]
    BY <1>6, <1>s, <2>x DEF SessionLine, ShellTyped
  <2>2. ShellShape(x) /\ x.at = "wait" /\ x.server = s
    BY <1>1, <1>s, <2>x DEF ShellShape
  <2>3. /\ ShellTyped' /\ shell'[u] = x /\ \A v \in User : v # u => shell'[v] = shell[v]
    BY <2>1, <2>2, SetShell
  <2>4. /\ ThreadTyped' /\ \A r \in Server : r # s => thread'[r] = thread[r]
        /\ s \in Server => /\ thread'[s].at = what /\ thread'[s].from = thread[s].from
                           /\ thread'[s].peer = thread[s].peer
    <3>1. CASE s \notin Server
      <4>1. thread' = thread
        BY <2>1, <3>1 DEF ThreadTyped
      <4> QED
        BY <3>1, <4>1 DEF ThreadTyped
    <3>2. CASE s \in Server
      <4>1. ThreadShape(thread[s]) /\ thread[s].at = "session"
        BY <1>2, <3>2 DEF ThreadTyped
      <4>t. PICK t : t = [thread[s] EXCEPT !.at = what]
        OBVIOUS
      <4>2. /\ ThreadShape(t) /\ t.at = what /\ t.from = thread[s].from
            /\ t.peer = thread[s].peer
        BY <4>1, <4>t DEF ThreadShape
      <4>3. thread' = [thread EXCEPT ![s] = t]
        BY <2>1, <4>t
      <4> QED
        BY <3>2, <4>2, <4>3, SetThread
    <3> QED
      BY <3>1, <3>2
  <2>5. \A v, r : r \in Server => (Served(v, r)' <=> Served(v, r))
    BY <2>4 DEF Served
  <2>6. UserOk(u)'
    BY <1>1, <1>2, <1>3, <2>2, <2>3, <2>4, <2>5 DEF UserOk
  <2>7. ASSUME NEW v \in User, v # u PROVE UserOk(v)'
    <3>1. \A r \in Server : Served(v, r) => r # s
      BY <1>2, <2>7 DEF Served
    <3>2. SameWaits(v)
      BY <1>1, <1>3, <2>3, <2>4, <2>5, <2>7, <3>1, LineKeptWaits DEF SameWaits
    <3> QED
      BY <3>2, UserFrame
  <2> QED
    BY <1>1, <1>4, <2>3, <2>4, <2>6, <2>7
<1> QED
  BY <1>5, <1>6

-----------------------------------------------------------------------------
(* The main loop.                                                          *)

\* The handler of a question of u comes back to the loop, or waits.
LEMMA GoesOnOk ==
  ASSUME TalkInv, NEW u \in User, HandlerGoesOn(u), guest \in {NoUser, u},
         UNCHANGED thread, LineTyped', LineKept, inbox' \subseteq inbox,
         \A v \in User : v # u => Question(v)' = Question(v),
         shell[u].at \in {"ask", "off"}, shell[u].at = "ask" => Question(u)' = {}
  PROVE  TalkTyped' /\ (\A v \in User : UserOk(v)') /\ HandlerHasGuest'
<1> USE DEF TalkInv, TalkTyped
<1>1. \A s \in Server : ~Served(u, s) /\ (shell[u].at # "off" => Waiting(u, s) = {})
  BY AwayNow DEF Away
<1>2. PICK x : x = IF ns'.at = "idle" /\ shell[u].at = "ask" THEN Prompt ELSE shell[u]
  OBVIOUS
<1>3. shell' = [shell EXCEPT ![u] = x]
  BY <1>2 DEF HandlerGoesOn, Answered, ShellTyped
<1>4. ShellShape(x) /\ x.at \in {"ask", "off", "prompt"}
  BY <1>2, ShellAtShape DEF Prompt, ShellTyped
<1>5. /\ x.at = "prompt" => shell[u].at = "ask" /\ guest' = NoUser
      /\ x.at = "ask" => shell[u].at = "ask" /\ guest' = u
  BY <1>2, <1>4, ShellAtShape DEF Prompt, HandlerGoesOn
<1>6. \A v, s : Served(v, s)' <=> Served(v, s)
  BY DEF Served
<1>7. \A v \in User : v # u => (guest' = v <=> guest = v)
  BY DocsAssumption DEF HandlerGoesOn
<1>8. \A v \in User : v # u /\ shell'[v] = shell[v] => SameWaits(v)
  BY <1>6, <1>7, LineKeptWaits DEF SameWaits
<1>9. \A s \in Server : ~Served(u, s)' /\ (x.at # "off" => Waiting(u, s)' = {})
  <2>1. x.at # "off" => shell[u].at # "off"
    BY <1>4, <1>5
  <2> QED
    BY <1>1, <1>6, <2>1 DEF LineKept
<1>10. ShellTyped' /\ \A v \in User : UserOk(v)'
  BY <1>3, <1>4, <1>5, <1>8, <1>9, TurnsAway, DocsAssumption DEF Away
<1>11. ThreadTyped' /\ inbox' \subseteq Ask /\ guest' \in User \cup {NoUser}
  BY DEF ThreadTyped, HandlerGoesOn
<1>12. HandlerHasGuest'
  BY DocsAssumption DEF HandlerHasGuest, HandlerGoesOn
<1> QED
  BY <1>10, <1>11, <1>12

\* A request that is taken out of the inbox is that of a shell that waits for its answer,
\* or is gone.
LEMMA Asker ==
  ASSUME TalkInv, NEW e \in inbox, inbox' = inbox \ {e}, guest = NoUser
  PROVE  /\ e.from \in User /\ e.file \in File
         /\ e.cmd \in AllCommands \cup {Register, Unregister}
         /\ inbox' \subseteq inbox
         /\ e.cmd # Unregister =>
              /\ shell[e.from].at \in {"ask", "off"}
              /\ shell[e.from].at = "ask" => Question(e.from)' = {}
              /\ \A v \in User : v # e.from => Question(v)' = Question(v)
<1> USE DEF TalkInv, TalkTyped
<1>1. e.from \in User /\ e.file \in File /\ e.cmd \in AllCommands \cup {Register, Unregister}
  BY DEF Ask
<1>2. ASSUME e.cmd # Unregister
      PROVE  /\ shell[e.from].at \in {"ask", "off"}
             /\ shell[e.from].at = "ask" => Question(e.from)' = {}
             /\ \A v \in User : v # e.from => Question(v)' = Question(v)
  <2>1. Question(e.from) # {} /\ UserOk(e.from) /\ ShellShape(shell[e.from])
    BY <1>1, <1>2, Taken DEF ShellTyped
  <2>2. shell[e.from].at \in {"ask", "off"}
    BY <2>1 DEF UserOk, ShellShape
  <2>3. shell[e.from].at = "ask" => \E q \in inbox : Question(e.from) = {q}
    BY <1>1, <2>1, DocsAssumption DEF UserOk
  <2> QED
    BY <1>2, <2>2, <2>3, Taken
<1> QED
  BY <1>1, <1>2

LEMMA LineStays ==
  ASSUME LineTyped, UNCHANGED line
  PROVE  LineTyped' /\ LineKept /\ \A s : Waiting(NsCaller, s)' = Waiting(NsCaller, s)
  BY DEF LineTyped, LineKept, Waiting

LEMMA NsSteps ==
  ASSUME NsShape, OneQuestion, Next \/ UNCHANGED vars
  PROVE  NsShape' /\ OneQuestion'
<1>1. CASE Next
  BY <1>1, ShapeStep, QuestionStep
<1>2. CASE UNCHANGED vars
  BY <1>2 DEF vars, servers, NsShape, OneQuestion
<1> QED
  BY <1>1, <1>2

LEMMA HandlersAreSteps ==
  ASSUME NEW kind, NEW u \in User, NEW f \in File, HandlerOf(kind, u, f)
  PROVE  kind # "unregister" /\ (Next \/ UNCHANGED vars)
<1>1. kind # "unregister"
  BY DEF HandlerOf, Refused
<1>2. Request(u, f) => Next
  BY DEF Next
<1>3. FolderAsk => Next
  BY DEF Next
<1>4. (\E op \in Views : ViewAsk(u, op)) => Next
  BY DEF Next
<1>5. Request(u, f) \/ FolderAsk \/ (\E op \in Views : ViewAsk(u, op)) \/ UNCHANGED vars
  BY Zenon DEF HandlerOf, Request
<1> QED
  BY <1>1, <1>2, <1>3, <1>4, <1>5

LEMMA HandleOk ==
  ASSUME DocsInv, NEW e \in inbox, inbox' = inbox \ {e}, Handle(e)
  PROVE  DocsInv'
<1> USE DEF DocsInv
<1>1. /\ ns.at = "idle" /\ guest = NoUser /\ HandlerOf(e.cmd.ns, e.from, e.file)
      /\ HandlerGoesOn(e.from) /\ UNCHANGED <<line, thread>>
  BY DEF Handle, TalkInv, HandlerHasGuest
<1>2. e.from \in User /\ e.file \in File /\ inbox' \subseteq inbox
  BY <1>1, Asker
<1>3. e.cmd # Unregister /\ (Next \/ UNCHANGED vars)
  BY <1>1, <1>2, HandlersAreSteps, RegisterKind
<1>4. LineTyped' /\ LineKept /\ \A s : Waiting(NsCaller, s)' = Waiting(NsCaller, s)
  BY <1>1, LineStays DEF TalkInv, TalkTyped
<1>5. TalkTyped' /\ (\A v \in User : UserOk(v)') /\ HandlerHasGuest'
  BY <1>1, <1>2, <1>3, <1>4, Asker, GoesOnOk
<1>6. SearchWaits'
  BY <1>1, <1>4 DEF TalkInv, SearchWaits
<1> QED
  BY <1>3, <1>5, <1>6, NsSteps DEF TalkInv

\* The handlers that neither wait nor ask a storage server.
LEMMA AnsweredOk ==
  ASSUME DocsInv, NEW e \in inbox, inbox' = inbox \ {e},
         Next \/ UNCHANGED vars, UNCHANGED <<ns, guest, line, thread>>, ns.at = "idle",
         e.cmd # Unregister,
         NEW x, ShellShape(x), x.at \in {"off", "prompt", "routed"},
         shell' = IF shell[e.from].at = "ask" THEN [shell EXCEPT ![e.from] = x] ELSE shell
  PROVE  DocsInv'
<1> USE DEF DocsInv
<1>1. guest = NoUser /\ TalkTyped
  BY DEF TalkInv, HandlerHasGuest
<1>2. /\ e.from \in User /\ inbox' \subseteq inbox
      /\ shell[e.from].at \in {"ask", "off"}
      /\ shell[e.from].at = "ask" => Question(e.from)' = {}
      /\ \A v \in User : v # e.from => Question(v)' = Question(v)
  BY <1>1, Asker
<1>3. LineTyped' /\ LineKept /\ \A s : Waiting(NsCaller, s)' = Waiting(NsCaller, s)
  BY <1>1, LineStays DEF TalkTyped
<1>u. PICK u \in User : u = e.from
  BY <1>2
<1>y. PICK y : y = IF shell[u].at = "ask" THEN x ELSE shell[u]
  OBVIOUS
<1>4. /\ shell' = [shell EXCEPT ![u] = y] /\ ShellShape(y)
      /\ y.at # "off" => shell[u].at = "ask" /\ y.at \in {"prompt", "routed"}
  <2>1. shell = [v \in User |-> shell[v]] /\ ShellShape(shell[u])
    BY <1>1 DEF TalkTyped, ShellTyped
  <2>2. CASE shell[u].at = "ask"
    <3>1. shell' = [shell EXCEPT ![u] = y] /\ y = x
      BY <1>u, <1>y, <2>2
    <3> QED
      BY <2>2, <3>1
  <2>3. CASE shell[u].at = "off"
    <3>1. shell' = shell /\ y = shell[u]
      BY <1>u, <1>y, <2>3
    <3>2. shell = [shell EXCEPT ![u] = shell[u]]
      BY <2>1
    <3> QED
      BY <2>1, <2>3, <3>1, <3>2
  <2> QED
    BY <1>2, <1>u, <2>2, <2>3
<1>5. \A s \in Server : ~Served(u, s) /\ (shell[u].at # "off" => Waiting(u, s) = {})
  BY <1>2, <1>u, AwayNow DEF Away, TalkInv
<1>6. \A v, s : Served(v, s)' <=> Served(v, s)
  BY DEF Served
<1>7. \A v \in User : v # u /\ shell'[v] = shell[v] => SameWaits(v)
  BY <1>2, <1>3, <1>6, <1>u, LineKeptWaits DEF SameWaits
<1>8. \A s \in Server : ~Served(u, s)' /\ (y.at # "off" => Waiting(u, s)' = {})
  BY <1>2, <1>3, <1>4, <1>5, <1>6, <1>u DEF LineKept
<1>9. y.at # "off" => guest' # u /\ Question(u)' = {}
  BY <1>1, <1>2, <1>4, <1>u, DocsAssumption
<1>10. ShellTyped' /\ \A v \in User : UserOk(v)'
  BY <1>1, <1>4, <1>7, <1>8, <1>9, TurnsAway DEF Away, TalkInv, TalkTyped
<1>11. TalkTyped' /\ HandlerHasGuest' /\ SearchWaits'
  BY <1>1, <1>2, <1>3, <1>10
     DEF TalkTyped, ThreadTyped, HandlerHasGuest, SearchWaits, TalkInv
<1> QED
  BY <1>10, <1>11, NsSteps DEF TalkInv

\* A shell whose request was answered, as the handlers say it.
LEMMA AnsweredShell ==
  ASSUME ShellTyped, NEW u \in User, NEW x,
         shell' = [shell EXCEPT ![u] = IF @.at = "ask" THEN x ELSE @]
  PROVE  shell' = IF shell[u].at = "ask" THEN [shell EXCEPT ![u] = x] ELSE shell
<1>1. shell = [v \in User |-> shell[v]]
  BY DEF ShellTyped
<1>2. CASE shell[u].at # "ask"
  <2>1. shell' = [shell EXCEPT ![u] = shell[u]]
    BY <1>2
  <2> QED
    BY <1>1, <1>2, <2>1
<1>3. CASE shell[u].at = "ask"
  BY <1>3
<1> QED
  BY <1>2, <1>3

LEMMA RegisterOk ==
  ASSUME DocsInv, NEW e \in inbox, inbox' = inbox \ {e}, HandleRegister(e)
  PROVE  DocsInv'
<1>1. /\ e.cmd # Unregister /\ UNCHANGED <<ns, guest, line, thread>> /\ ns.at = "idle"
      /\ ShellTyped /\ e.from \in User
  BY RegisterKind DEF HandleRegister, RegisterClient, Idle, DocsInv, TalkInv, TalkTyped, vars,
                      Ask
<1>2. Next \/ UNCHANGED vars
  BY <1>1 DEF HandleRegister, Next
<1>3. \E x \in {Off, Prompt} :
        shell' = [shell EXCEPT ![e.from] = IF @.at = "ask" THEN x ELSE @]
  BY DEF HandleRegister, Answered
<1>4. PICK x \in {Off, Prompt} :
        shell' = IF shell[e.from].at = "ask" THEN [shell EXCEPT ![e.from] = x] ELSE shell
  BY <1>1, <1>3, AnsweredShell
<1>5. ShellShape(x) /\ x.at \in {"off", "prompt", "routed"}
  BY ShellAtShape DEF Off, Prompt
<1> QED
  BY <1>1, <1>2, <1>4, <1>5, AnsweredOk

LEMMA UnregisterOk ==
  ASSUME DocsInv, NEW e \in inbox, inbox' = inbox \ {e}, HandleUnregister(e)
  PROVE  DocsInv'
<1> USE DEF DocsInv, TalkInv, TalkTyped
<1>1. e.cmd = Unregister /\ UNCHANGED <<vars, ns, shell, guest, line, thread>>
  BY DEF HandleUnregister, vars
<1>2. \A v : Question(v)' = Question(v)
  BY <1>1, Taken
<1>3. LineTyped' /\ LineKept /\ \A s : Waiting(NsCaller, s)' = Waiting(NsCaller, s)
  BY <1>1, LineStays
<1>4. \A v, s : Served(v, s)' <=> Served(v, s)
  BY <1>1 DEF Served
<1>5. \A v \in User : SameWaits(v)
  BY <1>1, <1>2, <1>3, <1>4, LineKeptWaits DEF SameWaits
<1>6. \A v \in User : UserOk(v)'
  BY <1>5, UserFrame
<1>7. TalkTyped' /\ HandlerHasGuest' /\ SearchWaits'
  BY <1>1, <1>3 DEF ShellTyped, ThreadTyped, HandlerHasGuest, SearchWaits
<1> QED
  BY <1>1, <1>6, <1>7, NsSteps

LEMMA RouteOk ==
  ASSUME DocsInv, NEW e \in inbox, inbox' = inbox \ {e}, HandleRoute(e)
  PROVE  DocsInv'
<1>1. /\ UNCHANGED <<ns, guest, line, thread>> /\ ns.at = "idle"
      /\ ShellTyped /\ e.from \in User /\ e.file \in File
      /\ e.cmd \in AllCommands \cup {Register, Unregister}
  BY DEF HandleRoute, Route, Idle, DocsInv, TalkInv, TalkTyped, Ask
<1>2. e.cmd # Unregister /\ e.cmd.ss \in Talks
  BY <1>1, CommandKinds, RegisterKind DEF HandleRoute
<1>3. Next
  BY <1>1 DEF HandleRoute, Next
<1>x. PICK x : x = IF Find(e.file) # NoServer /\ Allowed(e.cmd.ns, e.file, e.from)
                   THEN [at |-> "routed", ss |-> e.cmd.ss, file |-> e.file,
                         server |-> Find(e.file)]
                   ELSE Prompt
  OBVIOUS
<1>4. shell' = [shell EXCEPT ![e.from] = IF @.at = "ask" THEN x ELSE @]
  BY <1>x DEF HandleRoute
<1>5. shell' = IF shell[e.from].at = "ask" THEN [shell EXCEPT ![e.from] = x] ELSE shell
  BY <1>1, <1>4, AnsweredShell
<1>6. ShellShape(x) /\ x.at \in {"off", "prompt", "routed"}
  BY <1>1, <1>2, <1>x, ShellAtShape DEF Prompt, ShellShape
<1> QED
  BY <1>1, <1>2, <1>3, <1>5, <1>6, AnsweredOk

\* handle_search_request goes on: it asks another server, or is through.
LEMMA SearchFromOk ==
  ASSUME DocsInv, NEW u \in User, NEW i, SearchFrom(u, i), ns.at \in {"idle", "search"},
         guest \in {NoUser, u}, inbox' \subseteq inbox,
         \A v \in User : v # u => Question(v)' = Question(v),
         shell[u].at \in {"ask", "off"}, shell[u].at = "ask" => Question(u)' = {},
         \A s \in Server : Waiting(NsCaller, s) = {}
  PROVE  DocsInv'
<1> USE DEF DocsInv
<1>1. /\ HandlerGoesOn(u) /\ UNCHANGED <<queue, thread>>
      /\ \/ ns' = NsIdle /\ UNCHANGED line
         \/ \E s : /\ ns' = [NsIdle EXCEPT !.at = "search", !.server = s]
                   /\ line' = [line EXCEPT ![s] = Append(@, [from |-> NsCaller, ss |-> "one",
                                                             file |-> AnyFile])]
  BY DEF SearchFrom, servers
<1>2. NsShape'
  BY <1>1, NsIdleShape DEF NsShape, NsStates
<1>3. OneQuestion'
  BY <1>1, AwayNoneAsked, NoneAskedIsOne DEF NoneAsked, OneQuestion
<1>4. LineTyped' /\ LineKept /\ SearchWaits'
  <2>1. CASE ns' = NsIdle /\ UNCHANGED line
    <3>1. LineTyped' /\ LineKept /\ \A s : Waiting(NsCaller, s)' = Waiting(NsCaller, s)
      BY <2>1, LineStays DEF TalkInv, TalkTyped
    <3> QED
      BY <3>1 DEF SearchWaits
  <2>2. ASSUME NEW s, ns' = [NsIdle EXCEPT !.at = "search", !.server = s],
               line' = [line EXCEPT ![s] = Append(@, [from |-> NsCaller, ss |-> "one",
                                                      file |-> AnyFile])]
        PROVE  LineTyped' /\ LineKept /\ SearchWaits'
    <3>c. PICK c : c = [from |-> NsCaller, ss |-> "one", file |-> AnyFile]
      OBVIOUS
    <3>1. c \in Connection /\ c.from = NsCaller
      BY <3>c, NsIdleShape DEF Connection, AnyFile
    <3>2. line' = [line EXCEPT ![s] = Append(@, c)]
      BY <2>2, <3>c
    <3>3. LineTyped
      BY DEF TalkInv, TalkTyped
    <3>4. /\ LineTyped'
          /\ \A x, r : x # c.from /\ r \in Server => Waiting(x, r)' = Waiting(x, r)
          /\ \A x, r : r # s /\ r \in Server => Waiting(x, r)' = Waiting(x, r)
          /\ s \in Server /\ Waiting(c.from, s) = {}
               => \E j \in DOMAIN line'[s] : Waiting(c.from, s)' = {j}
      BY ONLY <3>1, <3>2, <3>3, Joined
    <3>5. ns'.at = "search" /\ ns'.server = s
      BY <2>2, NsIdleShape
    <3>6. LineKept
      BY <3>1, <3>4, DocsAssumption DEF LineKept
    <3>7. SearchWaits'
      BY <3>4, <3>5 DEF SearchWaits
    <3> QED
      BY <3>4, <3>6, <3>7
  <2> QED
    BY <1>1, <2>1, <2>2
<1>5. TalkTyped' /\ (\A v \in User : UserOk(v)') /\ HandlerHasGuest'
  BY <1>1, <1>4, GoesOnOk
<1> QED
  BY <1>2, <1>3, <1>4, <1>5 DEF TalkInv

LEMMA SearchOk ==
  ASSUME DocsInv, NEW e \in inbox, inbox' = inbox \ {e}, HandleSearch(e)
  PROVE  DocsInv'
<1>1. ns.at = "idle" /\ guest = NoUser
  BY DEF HandleSearch, Idle, DocsInv, TalkInv, HandlerHasGuest
<1>2. e.cmd # Unregister
  BY RegisterKind DEF HandleSearch
<1>u. PICK u : u = e.from
  OBVIOUS
<1>3. /\ u \in User /\ inbox' \subseteq inbox /\ shell[u].at \in {"ask", "off"}
      /\ shell[u].at = "ask" => Question(u)' = {}
      /\ \A v \in User : v # u => Question(v)' = Question(v)
  BY <1>1, <1>2, <1>u, Asker DEF DocsInv
<1>4. \A s \in Server : Waiting(NsCaller, s) = {}
  BY <1>1 DEF DocsInv, TalkInv, SearchWaits
<1>5. SearchFrom(u, 0)
  BY <1>u DEF HandleSearch
<1> QED
  BY <1>1, <1>3, <1>4, <1>5, SearchFromOk

\* The guest of a handler that waits has no other question.
LEMMA GuestAsks ==
  ASSUME TalkInv, ns.at # "idle", inbox' = inbox
  PROVE  /\ guest \in User /\ shell[guest].at \in {"ask", "off"}
         /\ \A v : Question(v)' = Question(v)
         /\ shell[guest].at = "ask" => Question(guest) = {}
<1>1. guest \in User /\ UserOk(guest) /\ ShellShape(shell[guest])
  BY DEF TalkInv, TalkTyped, ShellTyped, HandlerHasGuest
<1> QED
  BY <1>1 DEF UserOk, ShellShape, Question

LEMMA SearchGoesOnOk ==
  ASSUME DocsInv, SearchGoesOn
  PROVE  DocsInv'
<1>1. ns.at = "search" /\ inbox' = inbox
  BY DEF SearchGoesOn
<1>u. PICK u : u = guest
  OBVIOUS
<1>2. /\ u \in User /\ shell[u].at \in {"ask", "off"}
      /\ \A v : Question(v)' = Question(v)
      /\ shell[u].at = "ask" => Question(u) = {}
  BY <1>1, <1>u, GuestAsks DEF DocsInv
<1>3. \A s \in Server : Waiting(NsCaller, s) = {}
  BY DEF SearchGoesOn, Waiting, DocsInv, TalkInv, SearchWaits
<1>4. PICK i : SearchFrom(u, i)
  BY <1>u DEF SearchGoesOn
<1>5. shell[u].at = "ask" => Question(u)' = {}
  BY <1>2
<1> QED
  BY <1>1, <1>2, <1>3, <1>4, <1>5, <1>u, SearchFromOk

LEMMA ProceedsOk ==
  ASSUME DocsInv, HandlerProceeds
  PROVE  DocsInv'
<1>1. /\ ns.at \notin {"idle", "search"} /\ Next
      /\ HandlerGoesOn(guest) /\ UNCHANGED <<inbox, line, thread>>
  BY DEF HandlerProceeds, Proceed, CreateRecord, Replicate, DeleteRecord, PassOn,
         ViewGoesOn, SaveOpen, SaveData, SaveFails, Next
<1>u. PICK u : u = guest
  OBVIOUS
<1>2. /\ u \in User /\ shell[u].at \in {"ask", "off"}
      /\ \A v : Question(v)' = Question(v)
      /\ shell[u].at = "ask" => Question(u) = {}
  BY <1>1, <1>u, GuestAsks DEF DocsInv
<1>3. LineTyped' /\ LineKept /\ \A s : Waiting(NsCaller, s)' = Waiting(NsCaller, s)
  BY <1>1, LineStays DEF DocsInv, TalkInv, TalkTyped
<1>4. SearchWaits'
  BY <1>1, <1>3 DEF DocsInv, TalkInv, SearchWaits
<1>5. TalkTyped' /\ (\A v \in User : UserOk(v)') /\ HandlerHasGuest'
  <2>1. HandlerGoesOn(u) /\ (shell[u].at = "ask" => Question(u)' = {})
    BY <1>1, <1>2, <1>u
  <2> QED
    BY <1>1, <1>2, <1>3, <1>u, <2>1, GoesOnOk DEF DocsInv
<1> QED
  BY <1>1, <1>4, <1>5, NsSteps DEF DocsInv, TalkInv

LEMMA NameServerOk ==
  ASSUME DocsInv, MainLoop \/ \E u \in User : HandleConnection(u)
  PROVE  DocsInv'
<1>1. CASE MainLoop
  BY <1>1, SearchGoesOnOk, ProceedsOk DEF MainLoop
<1>2. ASSUME NEW u \in User, HandleConnection(u)
      PROVE  DocsInv'
  <2>1. PICK e \in inbox :
          /\ inbox' = inbox \ {e}
          /\ Handle(e) \/ HandleRegister(e) \/ HandleUnregister(e) \/ HandleRoute(e)
             \/ HandleSearch(e)
    BY <1>2 DEF HandleConnection
  <2> QED
    BY <2>1, HandleOk, RegisterOk, UnregisterOk, RouteOk, SearchOk
<1> QED
  BY <1>1, <1>2

-----------------------------------------------------------------------------
(* The client threads.                                                     *)

LEMMA ThreadIdleShape == /\ ThreadShape(ThreadIdle) /\ ThreadIdle.from = NoUser
                         /\ ThreadIdle.peer = "open" /\ ThreadIdle.at = "idle"
  BY DEF ThreadShape, ThreadIdle

ServedBy(v, t) == t.from = v /\ t.peer = "open"

\* A step of a thread that the shells do not notice.
LEMMA Unnoticed ==
  ASSUME TalkInv, NEW s \in Server, NEW t, ThreadShape(t), thread' = [thread EXCEPT ![s] = t],
         UNCHANGED <<ns, shell, inbox, guest, line>>,
         \A v \in User : /\ Served(v, s) <=> ServedBy(v, t)
                         /\ Served(v, s) => t.at = thread[s].at
  PROVE  TalkInv'
<1> USE DEF TalkInv, TalkTyped
<1>1. /\ ThreadTyped' /\ thread'[s] = t
      /\ \A r \in Server : r # s => thread'[r] = thread[r]
  BY SetThread
<1>2. LineTyped' /\ LineKept /\ \A r : Waiting(NsCaller, r)' = Waiting(NsCaller, r)
  BY LineStays
<1>3. ASSUME NEW v \in User PROVE UserOk(v)'
  <2>1. \A r \in Server : /\ Served(v, r)' <=> Served(v, r)
                          /\ Served(v, r) => thread'[r].at = thread[r].at
    BY <1>1, <1>3 DEF Served, ServedBy
  <2>2. Question(v)' = Question(v)
    BY DEF Question
  <2> QED
    BY <1>2, <2>1, <2>2, LineKeptWaits, UserFrame DEF SameWaits
<1> QED
  BY <1>1, <1>2, <1>3 DEF ShellTyped, HandlerHasGuest, SearchWaits

\* Whoever is served waits here and nowhere else.
LEMMA ServedOnes ==
  ASSUME TalkInv, NEW s \in Server, NEW u \in User, Served(u, s)
  PROVE  /\ shell[u].at \in {"wait", "session"} /\ shell[u].server = s
         /\ shell[u].at = "session" <=> thread[s].at = "session"
         /\ guest # u /\ Question(u) = {}
         /\ \A r \in Server : Waiting(u, r) = {} /\ (r # s => ~Served(u, r))
<1>1. UserOk(u) /\ ShellShape(shell[u])
  BY DEF TalkInv, TalkTyped, ShellTyped
<1>2. shell[u].at \in {"wait", "session"} /\ shell[u].server = s
  BY <1>1 DEF UserOk
<1> QED
  BY <1>1, <1>2 DEF UserOk

\* The last message of READ, STREAM or a commit.
LEMMA LastMessage ==
  ASSUME TalkInv, NEW s \in Server, NEW u \in User, Served(u, s),
         thread' = [thread EXCEPT ![s] = ThreadIdle], shell' = [shell EXCEPT ![u] = Prompt],
         UNCHANGED <<ns, inbox, guest, line>>
  PROVE  TalkInv'
<1> USE DEF TalkInv, TalkTyped
<1>1. /\ ThreadTyped' /\ thread'[s] = ThreadIdle
      /\ \A r \in Server : r # s => thread'[r] = thread[r]
  BY SetThread, ThreadIdleShape
<1>2. LineTyped' /\ LineKept /\ \A r : Waiting(NsCaller, r)' = Waiting(NsCaller, r)
  BY LineStays
<1>3. \A v : Question(v)' = Question(v)
  BY DEF Question
<1>4. guest # u /\ Question(u) = {}
      /\ \A r \in Server : Waiting(u, r) = {} /\ (r # s => ~Served(u, r))
  BY ServedOnes
<1>5. \A r \in Server : ~Served(u, r)' /\ Waiting(u, r)' = {}
  BY <1>1, <1>2, <1>4, ThreadIdleShape, DocsAssumption DEF Served, LineKept
<1>6. ASSUME NEW v \in User, v # u, shell'[v] = shell[v] PROVE SameWaits(v)
  <2>1. \A r \in Server : /\ Served(v, r)' <=> Served(v, r)
                          /\ Served(v, r) => thread'[r].at = thread[r].at
    BY <1>1, <1>6, ThreadIdleShape, DocsAssumption DEF Served
  <2> QED
    BY <1>2, <1>3, <1>6, <2>1, LineKeptWaits DEF SameWaits
<1>7. ShellTyped' /\ \A v \in User : UserOk(v)'
  BY <1>3, <1>4, <1>5, <1>6, TurnsAway, ShellAtShape DEF Away, Prompt
<1> QED
  BY <1>1, <1>2, <1>7 DEF HandlerHasGuest, SearchWaits

LEMMA SendOk ==
  ASSUME DocsInv, NEW s \in Server, Send(s)
  PROVE  DocsInv'
<1>1. UNCHANGED <<vars, ns, inbox, guest, line>> /\ thread[s].at = "send"
  BY DEF Send, vars
<1>t. PICK t : t = thread[s]
  OBVIOUS
<1>2. ThreadShape(t) /\ thread = [r \in Server |-> thread[r]] /\ TalkInv
  BY <1>t DEF DocsInv, TalkInv, TalkTyped, ThreadTyped
<1>3. TalkInv'
  <2>1. CASE t.left = 1 /\ t.peer = "open"
    <3>1. PICK u \in User : u = t.from
      BY <1>1, <1>2, <1>t, <2>1 DEF ThreadShape
    <3>2. thread' = [thread EXCEPT ![s] = ThreadIdle] /\ shell' = [shell EXCEPT ![u] = Prompt]
      BY <1>t, <2>1, <3>1 DEF Send
    <3>3. Served(u, s)
      BY <1>t, <2>1, <3>1 DEF Served
    <3> QED
      BY <1>1, <1>2, <3>2, <3>3, LastMessage
  <2>2. CASE t.peer # "open" /\ thread' = [thread EXCEPT ![s] = ThreadIdle]
    <3>1. UNCHANGED shell
      BY <1>t, <2>2 DEF Send
    <3>2. \A v \in User : ~Served(v, s) /\ ~ServedBy(v, ThreadIdle)
      BY <1>t, <2>2, ThreadIdleShape, DocsAssumption DEF Served, ServedBy
    <3> QED
      BY <1>1, <1>2, <2>2, <3>1, <3>2, ThreadIdleShape, Unnoticed
  <2>3. CASE t.left # 1 /\ thread' = [thread EXCEPT ![s].left = @ - 1,
                                                    ![s].peer = After(@ = "open")]
    <3>x. PICK x : x = [t EXCEPT !.left = @ - 1, !.peer = After(@ = "open")]
      OBVIOUS
    <3>1. /\ ThreadShape(x) /\ x.at = t.at /\ x.from = t.from
          /\ x.peer = "open" <=> t.peer = "open"
      BY <1>1, <1>2, <1>t, <3>x DEF ThreadShape, After
    <3>2. thread' = [thread EXCEPT ![s] = x] /\ UNCHANGED shell
      BY <1>2, <1>t, <2>3, <3>x DEF Send
    <3>3. \A v \in User : /\ Served(v, s) <=> ServedBy(v, x)
                          /\ Served(v, s) => x.at = thread[s].at
      BY <1>t, <3>1 DEF Served, ServedBy
    <3> QED
      BY <1>1, <1>2, <3>1, <3>2, <3>3, Unnoticed
  <2> QED
    BY <1>t, <2>1, <2>2, <2>3 DEF Send
<1> QED
  BY <1>1, <1>3, NsSteps DEF DocsInv

LEMMA HangUpOk ==
  ASSUME DocsInv, NEW s \in Server, HangUp(s)
  PROVE  DocsInv'
<1>1. /\ UNCHANGED <<vars, ns, shell, inbox, guest, line>> /\ thread[s].peer # "open"
      /\ thread' = [thread EXCEPT ![s] = ThreadIdle]
  BY DEF HangUp, vars
<1>2. \A v \in User : ~Served(v, s) /\ ~ServedBy(v, ThreadIdle)
  BY <1>1, ThreadIdleShape, DocsAssumption DEF Served, ServedBy
<1>3. TalkInv'
  BY <1>1, <1>2, ThreadIdleShape, Unnoticed DEF DocsInv
<1> QED
  BY <1>1, <1>3, NsSteps DEF DocsInv

LEMMA CommitOk ==
  ASSUME DocsInv, NEW s \in Server, Commit(s)
  PROVE  DocsInv'
<1>1. /\ UNCHANGED <<ns, queue, inbox, guest, line>> /\ thread[s].at = "commit"
      /\ thread' = [thread EXCEPT ![s] = ThreadIdle]
  BY DEF Commit
<1>2. NsShape' /\ OneQuestion'
  BY <1>1 DEF DocsInv, NsShape, OneQuestion
<1>3. CASE thread[s].peer = "open"
  <2>1. PICK u \in User : u = thread[s].from
    BY <1>1, <1>3 DEF DocsInv, TalkInv, TalkTyped, ThreadTyped, ThreadShape
  <2>2. Served(u, s) /\ shell' = [shell EXCEPT ![u] = Prompt]
    BY <1>3, <2>1 DEF Served, Commit
  <2> QED
    BY <1>1, <1>2, <2>2, LastMessage DEF DocsInv
<1>4. CASE thread[s].peer # "open"
  <2>1. UNCHANGED shell
    BY <1>4 DEF Commit
  <2>2. \A v \in User : ~Served(v, s) /\ ~ServedBy(v, ThreadIdle)
    BY <1>4, ThreadIdleShape, DocsAssumption DEF Served, ServedBy
  <2> QED
    BY <1>1, <1>2, <2>1, <2>2, ThreadIdleShape, Unnoticed DEF DocsInv
<1> QED
  BY <1>3, <1>4

LEMMA SaveWordOk ==
  ASSUME DocsInv, NEW s \in Server, SaveWord(s)
  PROVE  DocsInv'
<1>1. UNCHANGED <<vars, ns, inbox, guest, line>> /\ thread[s].at = "word" /\ TalkInv
  BY DEF SaveWord, vars, DocsInv
<1>t. PICK t : t = thread[s]
  OBVIOUS
<1>x. PICK x : x = [t EXCEPT !.at = "session", !.peer = After(@ = "open")]
  OBVIOUS
<1>2. /\ ThreadShape(x) /\ x.at = "session" /\ x.from = t.from
      /\ x.peer = "open" <=> t.peer = "open"
      /\ t.peer = "open" => t.from \in User
  BY <1>1, <1>t, <1>x DEF TalkInv, TalkTyped, ThreadTyped, ThreadShape, After
<1>3. thread' = [thread EXCEPT ![s] = x]
  BY <1>1, <1>t, <1>x DEF SaveWord, TalkInv, TalkTyped, ThreadTyped
<1>4. CASE t.peer # "open"
  <2>1. UNCHANGED shell
    BY <1>4, <1>t DEF SaveWord
  <2>2. \A v \in User : ~Served(v, s) /\ ~ServedBy(v, x)
    BY <1>2, <1>4, <1>t DEF Served, ServedBy
  <2>3. TalkInv'
    BY <1>1, <1>2, <1>3, <2>1, <2>2, Unnoticed
  <2> QED
    BY <1>1, <2>3, NsSteps DEF DocsInv
<1>5. CASE t.peer = "open"
  <2>1. PICK u \in User : u = t.from
    BY <1>2, <1>5
  <2>2. Served(u, s)
    BY <1>5, <1>t, <2>1 DEF Served
  <2>3. /\ shell[u].at \in {"wait", "session"} /\ shell[u].server = s
        /\ guest # u /\ Question(u) = {} /\ ShellShape(shell[u])
        /\ \A r \in Server : Waiting(u, r) = {} /\ (r # s => ~Served(u, r))
    BY <1>1, <2>2, ServedOnes DEF TalkInv, TalkTyped, ShellTyped
  <2>y. PICK y : y = [shell[u] EXCEPT !.at = "session"]
    OBVIOUS
  <2>4. shell' = [shell EXCEPT ![u] = y]
    BY <1>1, <1>5, <1>t, <2>1, <2>y DEF SaveWord, TalkInv, TalkTyped, ShellTyped
  <2>5. ShellShape(y) /\ y.at = "session" /\ y.server = s
    BY <2>3, <2>y DEF ShellShape
  <2>6. /\ ShellTyped' /\ shell'[u] = y /\ \A v \in User : v # u => shell'[v] = shell[v]
    BY <1>1, <2>4, <2>5, SetShell DEF TalkInv, TalkTyped
  <2>7. /\ ThreadTyped' /\ thread'[s] = x
        /\ \A r \in Server : r # s => thread'[r] = thread[r]
    BY <1>1, <1>2, <1>3, SetThread DEF TalkInv, TalkTyped
  <2>8. LineTyped' /\ LineKept /\ \A r : Waiting(NsCaller, r)' = Waiting(NsCaller, r)
    BY <1>1, LineStays DEF TalkInv, TalkTyped
  <2>9. \A v : Question(v)' = Question(v)
    BY <1>1 DEF Question
  <2>10. \A v, r : r \in Server => (Served(v, r)' <=> Served(v, r))
    BY <1>2, <1>t, <2>7 DEF Served
  <2>11. UserOk(u)'
    <3>1. \A r \in Server : Waiting(u, r)' = {} /\ (Served(u, r)' <=> r = s)
      BY <2>2, <2>3, <2>8, <2>10 DEF LineKept
    <3> QED
      BY <1>1, <1>2, <2>3, <2>5, <2>6, <2>7, <2>9, <3>1 DEF UserOk
  <2>12. ASSUME NEW v \in User, v # u PROVE UserOk(v)'
    <3>1. \A r \in Server : Served(v, r) => r # s
      BY <1>t, <2>1, <2>12 DEF Served
    <3>2. SameWaits(v)
      BY <1>1, <2>6, <2>7, <2>8, <2>9, <2>10, <2>12, <3>1, LineKeptWaits DEF SameWaits
    <3> QED
      BY <1>1, <3>2, UserFrame DEF TalkInv
  <2>13. /\ HandlerHasGuest' /\ SearchWaits'
         /\ inbox' \subseteq Ask /\ guest' \in User \cup {NoUser}
    BY <1>1, <2>8 DEF HandlerHasGuest, SearchWaits, TalkInv, TalkTyped
  <2>14. TalkInv'
    BY <2>6, <2>7, <2>8, <2>11, <2>12, <2>13 DEF TalkInv, TalkTyped
  <2> QED
    BY <1>1, <2>14, NsSteps DEF DocsInv
<1> QED
  BY <1>4, <1>5

\* A thread takes the first connection of its line.
Takes(s, u, t) ==
  /\ thread[s] = ThreadIdle /\ line[s] # <<>> /\ u = Head(line[s]).from
  /\ line' = [line EXCEPT ![s] = Tail(@)]
  /\ ThreadShape(t) /\ thread' = [thread EXCEPT ![s] = t]
  /\ t = ThreadIdle \/ t.from = u
  /\ UNCHANGED <<ns, inbox, guest>>

There(u) == u \in User /\ shell[u].at = "wait"

LEMMA TakesRest ==
  ASSUME TalkInv, NEW s \in Server, NEW u, NEW t, Takes(s, u, t)
  PROVE  /\ LineTyped' /\ ThreadTyped' /\ HandlerHasGuest' /\ SearchWaits'
         /\ inbox' \subseteq Ask /\ guest' \in User \cup {NoUser}
         /\ \A v : Question(v)' = Question(v)
         /\ \A r \in Server : r # s => \A v : /\ Waiting(v, r)' = Waiting(v, r)
                                              /\ Served(v, r)' <=> Served(v, r)
         /\ \A v : Served(v, s)' <=> ServedBy(v, t)
         /\ thread'[s] = t
         /\ \A v \in User : v # u /\ shell'[v] = shell[v] => SameWaits(v)
<1> USE DEF TalkInv, TalkTyped
<1>q. PICK q : q = line[s]
  OBVIOUS
<1>1. q \in Seq(Connection) /\ q # <<>> /\ u = Head(q).from /\ Tail(q) \in Seq(Connection)
  BY <1>q DEF LineTyped, Takes
<1>2. LineTyped' /\ line'[s] = Tail(q) /\ \A r \in Server : r # s => line'[r] = line[r]
  <2>1. LineTyped /\ line' = [line EXCEPT ![s] = Tail(q)]
    BY <1>q DEF Takes
  <2> QED
    BY <1>1, <2>1, SetLine
<1>3. /\ ThreadTyped' /\ thread'[s] = t
      /\ \A r \in Server : r # s => thread'[r] = thread[r]
  BY SetThread DEF Takes
<1>4. UNCHANGED <<ns, inbox, guest>> /\ \A v : Question(v)' = Question(v)
  BY DEF Takes, Question
<1>5. \A v : Served(v, s)' <=> ServedBy(v, t)
  BY <1>3 DEF Served, ServedBy
<1>6. \A r \in Server : r # s => \A v : /\ Waiting(v, r)' = Waiting(v, r)
                                        /\ Served(v, r)' <=> Served(v, r)
  BY <1>2, <1>3 DEF Waiting, Served
<1>7. \A v : Waiting(v, s) = {} => Waiting(v, s)' = {}
  BY <1>1, <1>2, <1>q, TailNone, WaitingIsPlaces
<1>8. ASSUME NEW v, v # u, \E i \in DOMAIN line[s] : Waiting(v, s) = {i}
      PROVE  \E j \in DOMAIN line'[s] : Waiting(v, s)' = {j}
  <2>1. PICK i \in DOMAIN q : Places(q, v) = {i}
    BY <1>8, <1>q, WaitingIsPlaces
  <2>2. PICK j \in DOMAIN Tail(q) : Places(Tail(q), v) = {j}
    BY <1>1, <1>8, <2>1, TailOther
  <2> QED
    BY <1>2, <2>2, WaitingIsPlaces
<1>9. ASSUME NEW v \in User, v # u, shell'[v] = shell[v] PROVE SameWaits(v)
  <2>1. ~Served(v, s) /\ ~Served(v, s)'
    BY <1>5, <1>9, ThreadIdleShape, DocsAssumption DEF Served, ServedBy, Takes
  <2>2. \A r \in Server : /\ Waiting(v, r) = {} => Waiting(v, r)' = {}
                          /\ (\E i \in DOMAIN line[r] : Waiting(v, r) = {i})
                               => \E i \in DOMAIN line'[r] : Waiting(v, r)' = {i}
    BY <1>2, <1>6, <1>7, <1>8, <1>9
  <2> QED
    BY <1>3, <1>4, <1>6, <1>9, <2>1, <2>2 DEF SameWaits
<1>10. HandlerHasGuest' /\ SearchWaits'
  BY <1>4, <1>6, <1>7 DEF HandlerHasGuest, SearchWaits
<1> QED
  BY <1>2, <1>3, <1>4, <1>5, <1>6, <1>9, <1>10

\* The shell whose connection it is, if it is there.
LEMMA TakesOwn ==
  ASSUME TalkInv, NEW s \in Server, NEW u \in User, NEW t, Takes(s, u, t)
  PROVE  /\ \A r \in Server : r # s => ~Served(u, r)'
         /\ ~There(u) => shell[u].at = "off"
         /\ There(u) => /\ shell[u].server = s /\ guest # u /\ Question(u) = {}
                        /\ \A r \in Server : Waiting(u, r)' = {}
<1> USE DEF TalkInv, TalkTyped
<1>q. PICK q : q = line[s]
  OBVIOUS
<1>1. q \in Seq(Connection) /\ q # <<>> /\ u = Head(q).from /\ line'[s] = Tail(q)
  BY <1>q DEF LineTyped, Takes
<1>2. UserOk(u) /\ ShellShape(shell[u]) /\ ~Served(u, s)
  BY ThreadIdleShape, DocsAssumption DEF ShellTyped, Served, Takes
<1>3. Waiting(u, s) # {}
  BY <1>1, <1>q, TailPlaces, WaitingIsPlaces
<1>4. shell[u].at = "off" \/ (shell[u].at = "wait" /\ shell[u].server = s)
  BY <1>2, <1>3 DEF UserOk
<1>5. \A r \in Server : r # s => /\ ~Served(u, r)'
                                 /\ There(u) => Waiting(u, r)' = {}
  <2>1. \A r \in Server : r # s => ~Served(u, r) /\ (There(u) => Waiting(u, r) = {})
    BY <1>2, <1>4 DEF UserOk, There
  <2> QED
    BY <2>1, TakesRest
<1>6. There(u) => Waiting(u, s)' = {} /\ guest # u /\ Question(u) = {}
  <2>1. ASSUME There(u) PROVE \E i : Waiting(u, s) = {i}
    BY <1>2, <1>4, <2>1 DEF UserOk, There
  <2>2. ASSUME NEW i, Waiting(u, s) = {i} PROVE Waiting(u, s)' = {}
    BY <1>1, <1>q, <2>2, TailOwn, WaitingIsPlaces
  <2> QED
    BY <1>2, <2>1, <2>2 DEF UserOk, There
<1> QED
  BY <1>4, <1>5, <1>6 DEF There

\* The answer ends the command, or there is nobody to hear it.
LEMMA TakesEnd ==
  ASSUME TalkInv, NEW s \in Server, NEW u, NEW t, Takes(s, u, t),
         \A v \in User : ~ServedBy(v, t),
         shell' = IF There(u) THEN [shell EXCEPT ![u] = Prompt] ELSE shell
  PROVE  TalkInv'
<1>1. \A v : Question(v)' = Question(v)
  BY TakesRest
<1>2. \A v \in User : v # u /\ shell'[v] = shell[v] => SameWaits(v)
  BY TakesRest
<1>3. guest' = guest
  BY DEF Takes
<1>4. ASSUME u \in User
      PROVE  \A r \in Server : ~Served(u, r)'
  <2>1. ~Served(u, s)'
    BY <1>4, TakesRest
  <2> QED
    BY <1>4, <2>1, TakesOwn
<1>5. ShellTyped' /\ \A v \in User : UserOk(v)'
  <2>1. CASE There(u)
    <3>1. /\ u \in User /\ guest # u /\ Question(u) = {}
          /\ \A r \in Server : Waiting(u, r)' = {}
      BY <2>1, TakesOwn DEF There
    <3>2. shell' = [shell EXCEPT ![u] = Prompt]
      BY <2>1
    <3>3. ShellShape(Prompt) /\ Prompt.at = "prompt"
      BY ShellAtShape DEF Prompt
    <3>4. ShellTyped /\ \A v \in User : UserOk(v)
      BY DEF TalkInv, TalkTyped
    <3> QED
      BY <1>1, <1>2, <1>3, <1>4, <3>1, <3>2, <3>3, <3>4, TurnsAway DEF Away
  <2>2. CASE ~There(u)
    <3>1. shell' = shell
      BY <2>2
    <3>2. ASSUME NEW v \in User, v # u PROVE UserOk(v)'
      BY <1>2, <3>1, <3>2, UserFrame DEF TalkInv
    <3>3. ASSUME u \in User PROVE UserOk(u)'
      <4>1. shell'[u].at = "off"
        BY <2>2, <3>1, <3>3, TakesOwn
      <4> QED
        BY <1>4, <3>3, <4>1, AwayOk DEF Away
    <3> QED
      BY <3>1, <3>2, <3>3 DEF TalkInv, TalkTyped, ShellTyped
  <2> QED
    BY <2>1, <2>2
<1> QED
  BY <1>5, TakesRest DEF TalkInv, TalkTyped

\* The answer begins: a text, or a session.
LEMMA TakesOn ==
  ASSUME TalkInv, NEW s \in Server, NEW u, NEW t, Takes(s, u, t), There(u), ServedBy(u, t),
         NEW y, ShellShape(y), y.server = shell[u].server, y.at \in {"wait", "session"},
         y.at = "session" <=> t.at = "session", shell' = [shell EXCEPT ![u] = y]
  PROVE  TalkInv'
<1>0. ShellTyped /\ u \in User
  BY DEF TalkInv, TalkTyped, There
<1>1. /\ \A v : Question(v)' = Question(v)
      /\ \A v : Served(v, s)' <=> ServedBy(v, t)
      /\ thread'[s] = t
      /\ \A v \in User : v # u /\ shell'[v] = shell[v] => SameWaits(v)
  BY TakesRest
<1>2. /\ ShellTyped' /\ shell'[u] = y /\ \A v \in User : v # u => shell'[v] = shell[v]
  BY <1>0, SetShell
<1>3. /\ shell[u].server = s /\ guest # u /\ Question(u) = {}
      /\ \A r \in Server : Waiting(u, r)' = {} /\ (r # s => ~Served(u, r)')
  BY <1>0, TakesOwn
<1>4. guest' = guest
  BY DEF Takes
<1>5. UserOk(u)'
  BY <1>1, <1>2, <1>3, <1>4 DEF UserOk
<1>6. ASSUME NEW v \in User, v # u PROVE UserOk(v)'
  BY <1>1, <1>2, <1>6, UserFrame DEF TalkInv
<1> QED
  BY <1>2, <1>5, <1>6, TakesRest DEF TalkInv, TalkTyped

LEMMA SendsShape ==
  ASSUME NEW u, NEW f, NEW n, NEW peer, peer = "open" => u \in User
  PROVE  /\ ThreadShape(ThreadSends(u, f, n, peer)) /\ ThreadSends(u, f, n, peer).from = u
         /\ ThreadSends(u, f, n, peer).peer = peer /\ ThreadSends(u, f, n, peer).at = "send"
  BY DEF ThreadShape, ThreadSends

Session(u, f, peer) ==
  [ThreadIdle EXCEPT !.at = "session", !.from = u, !.file = f, !.peer = peer]

LEMMA SessionShape ==
  ASSUME NEW u, NEW f, NEW peer, peer = "open" => u \in User
  PROVE  /\ ThreadShape(Session(u, f, peer)) /\ Session(u, f, peer).from = u
         /\ Session(u, f, peer).peer = peer /\ Session(u, f, peer).at = "session"
  BY DEF ThreadShape, Session, ThreadIdle

LEMMA AcceptOk ==
  ASSUME DocsInv, NEW s \in Server, Accept(s)
  PROVE  DocsInv'
<1>e. PICK e, u, y : /\ e = Head(line[s]) /\ u = e.from
                     /\ y = [shell[u] EXCEPT !.at = "session"]
  OBVIOUS
<1>1. /\ thread[s] = ThreadIdle /\ line[s] # <<>> /\ u = Head(line[s]).from
      /\ line' = [line EXCEPT ![s] = Tail(@)] /\ UNCHANGED <<vars, ns, inbox, guest>>
  BY <1>e DEF Accept, vars
<1> DEFINE Goes(t) == thread' = [thread EXCEPT ![s] = t]
           Says(x) == shell' = IF There(u) THEN [shell EXCEPT ![u] = x] ELSE shell
<1>2. \/ Says(Prompt) /\ UNCHANGED thread
      \/ Says(Prompt) /\ Goes(ThreadSends(u, e.file, 1, IF There(u) THEN "gone" ELSE "reset"))
      \/ \E n : Goes(ThreadSends(u, e.file, n, After(There(u)))) /\ UNCHANGED shell
      \/ Says(y) /\ Goes(Session(u, e.file, After(There(u))))
      \/ Says(Prompt) /\ Goes(Session(u, e.file, IF There(u) THEN "gone" ELSE "reset"))
  BY <1>e DEF Accept, There, Session
<1> HIDE DEF Goes, Says
<1>3. \A t : ThreadShape(t) /\ Goes(t) /\ (t = ThreadIdle \/ t.from = u) => Takes(s, u, t)
  BY <1>1 DEF Takes, Goes
<1>4. TalkInv /\ After(There(u)) = IF There(u) THEN "open" ELSE "reset"
  BY DEF DocsInv, After
<1>5. ASSUME NEW t, ThreadShape(t), Goes(t), t = ThreadIdle \/ (t.from = u /\ t.peer # "open"),
             Says(Prompt) \/ (~There(u) /\ UNCHANGED shell)
      PROVE  TalkInv'
  <2>1. shell' = IF There(u) THEN [shell EXCEPT ![u] = Prompt] ELSE shell
    BY <1>5 DEF Says
  <2>2. \A v \in User : ~ServedBy(v, t)
    BY <1>5, ThreadIdleShape, DocsAssumption DEF ServedBy
  <2> QED
    BY <1>3, <1>4, <1>5, <2>1, <2>2, TakesEnd
<1>6. ASSUME NEW t, ThreadShape(t), Goes(t), t.from = u, There(u), t.peer = "open",
             NEW z, shell' = [shell EXCEPT ![u] = z], ShellShape(z),
             z.server = shell[u].server, z.at \in {"wait", "session"},
             z.at = "session" <=> t.at = "session"
      PROVE  TalkInv'
  <2>1. Takes(s, u, t) /\ ServedBy(u, t)
    BY <1>3, <1>6 DEF ServedBy
  <2> QED
    BY <1>4, <1>6, <2>1, TakesOn
<1>7. TalkInv'
  <2>1. CASE Says(Prompt) /\ UNCHANGED thread
    <3>1. Goes(ThreadIdle)
      BY <1>1, <1>4, <2>1 DEF Goes, TalkInv, TalkTyped, ThreadTyped
    <3> QED
      BY <1>5, <2>1, <3>1, ThreadIdleShape
  <2>2. ASSUME NEW peer \in {"gone", "reset"}, Says(Prompt),
               \/ Goes(ThreadSends(u, e.file, 1, peer)) \/ Goes(Session(u, e.file, peer))
        PROVE  TalkInv'
    BY <1>5, <2>2, SendsShape, SessionShape
  <2>3. ASSUME NEW n, Goes(ThreadSends(u, e.file, n, After(There(u)))), UNCHANGED shell
        PROVE  TalkInv'
    <3>1. CASE There(u)
      <4>1. /\ u \in User /\ shell[u].at = "wait" /\ ShellShape(shell[u])
            /\ shell = [v \in User |-> shell[v]]
        BY <1>4, <3>1 DEF There, TalkInv, TalkTyped, ShellTyped
      <4>z. PICK z : z = shell[u]
        OBVIOUS
      <4>2. shell' = [shell EXCEPT ![u] = z]
        BY <2>3, <4>1, <4>z
      <4>3. Goes(ThreadSends(u, e.file, n, "open"))
        BY <1>4, <2>3, <3>1
      <4> QED
        BY <1>6, <3>1, <4>1, <4>2, <4>3, <4>z, SendsShape
    <3>2. CASE ~There(u)
      <4>1. Goes(ThreadSends(u, e.file, n, "reset"))
        BY <1>4, <2>3, <3>2
      <4> QED
        BY <1>5, <2>3, <3>2, <4>1, SendsShape
    <3> QED
      BY <3>1, <3>2
  <2>4. CASE Says(y) /\ Goes(Session(u, e.file, After(There(u))))
    <3>1. CASE There(u)
      <4>1. u \in User /\ shell[u].at = "wait" /\ ShellShape(shell[u])
        BY <1>4, <3>1 DEF There, TalkInv, TalkTyped, ShellTyped
      <4>2. shell' = [shell EXCEPT ![u] = y]
        BY <2>4, <3>1 DEF Says
      <4>3. ShellShape(y) /\ y.at = "session" /\ y.server = shell[u].server
        BY <1>e, <4>1 DEF ShellShape
      <4>t. PICK t : t = Session(u, e.file, "open")
        OBVIOUS
      <4>4. Goes(t)
        BY <1>4, <2>4, <3>1, <4>t
      <4>5. ThreadShape(t) /\ t.from = u /\ t.peer = "open" /\ t.at = "session"
        BY <4>1, <4>t, SessionShape
      <4> QED
        BY <1>6, <3>1, <4>2, <4>3, <4>4, <4>5
    <3>2. CASE ~There(u)
      <4>1. Goes(Session(u, e.file, "reset")) /\ UNCHANGED shell
        BY <1>4, <2>4, <3>2 DEF Says
      <4> QED
        BY <1>5, <3>2, <4>1, SessionShape
    <3> QED
      BY <3>1, <3>2
  <2> QED
    BY <1>2, <2>1, <2>2, <2>3, <2>4
<1> QED
  BY <1>1, <1>7, NsSteps DEF DocsInv

-----------------------------------------------------------------------------
(* A storage server falls.                                                 *)

\* What the fall of s makes of the shell of v, unless v is the guest.
Told(v, s) == CASE shell[v].server = s /\ shell[v].at = "wait" -> Prompt
                [] shell[v].server = s /\ shell[v].at = "session" ->
                     [shell[v] EXCEPT !.server = NoServer]
                [] OTHER -> shell[v]

LEMMA FallsNs ==
  ASSUME DocsInv, NEW s \in Server, Falls(s)
  PROVE  /\ NsShape' /\ OneQuestion'
         /\ ns.at \in {"idle", "search"} => ns' = ns
         /\ ns.at # "idle" /\ ns'.at = "idle" => ns.at \in {"wait", "reply"}
<1>1. ServerDies(s)
  BY DEF Falls
<1>2. OneQuestion'
  BY <1>1, ServingKeepsOne DEF Serving, DocsInv
<1>3. NsShape'
  <2>1. ns' = ns \/ (ns.op \in Views /\ ns' = [ns EXCEPT !.at = "view"]) \/ ns' = NsIdle
    BY <1>1 DEF ServerDies, Abandoned
  <2> QED
    BY <2>1, NsIdleShape DEF NsShape, NsStates, DocsInv
<1> QED
  BY <1>1, <1>2, <1>3 DEF ServerDies

LEMMA FallsPlaces ==
  ASSUME DocsInv, NEW s \in Server, Falls(s)
  PROVE  /\ LineTyped' /\ ThreadTyped' /\ inbox' = inbox
         /\ \A v : Question(v)' = Question(v)
         /\ \A v : Waiting(v, s)' = {}
         /\ \A r \in Server : r # s => \A v : /\ Waiting(v, r)' = Waiting(v, r)
                                              /\ Served(v, r)' <=> Served(v, r)
                                              /\ thread'[r].at = thread[r].at
         /\ \A v \in User : ~Served(v, s)'
<1> USE DEF DocsInv, TalkInv, TalkTyped
<1>1. /\ LineTyped' /\ line'[s] = <<>> /\ \A r \in Server : r # s => line'[r] = line[r]
  <2>1. LineTyped /\ line' = [line EXCEPT ![s] = <<>>] /\ <<>> \in Seq(Connection)
    BY DEF Falls
  <2> QED
    BY <2>1, SetLine
<1>2. /\ ThreadTyped' /\ thread'[s] = ThreadIdle
      /\ \A r \in Server : r # s => thread'[r] = thread[r]
  BY ThreadIdleShape, SetThread DEF Falls
<1>3. inbox' = inbox /\ \A v : Question(v)' = Question(v)
  BY DEF Falls, Question
<1> QED
  BY <1>1, <1>2, <1>3, ThreadIdleShape, DocsAssumption DEF Waiting, Served

LEMMA FallsShells ==
  ASSUME DocsInv, NEW s \in Server, Falls(s)
  PROVE  /\ ShellTyped' /\ HandlerHasGuest'
         /\ guest' \in {guest, NoUser}
         /\ \A v \in User :
              \/ shell'[v] = Told(v, s) /\ (guest' = v <=> guest = v)
              \/ /\ shell'[v] = Prompt /\ guest' = NoUser
                 /\ guest = v /\ shell[v].at = "ask"
              \/ shell[v].at = "off" /\ shell'[v].at = "off"
<1> USE DEF DocsInv, TalkInv, TalkTyped
<1>t. PICK told : told = [v \in User |-> Told(v, s)]
  OBVIOUS
<1>1. IF guest # NoUser /\ ns'.at = "idle"
      THEN guest' = NoUser /\ shell' = [told EXCEPT ![guest] = Answered(guest)[guest]]
      ELSE shell' = told /\ UNCHANGED guest
  BY <1>t DEF Falls, Told
<1>2. ASSUME NEW v \in User PROVE ShellShape(Told(v, s))
  <2>1. ShellShape(shell[v]) /\ ShellShape(Prompt)
    BY ShellAtShape DEF ShellTyped, Prompt
  <2> QED
    BY <2>1 DEF Told, ShellShape
<1>3. CASE guest # NoUser /\ ns'.at = "idle"
  <2>g. PICK g : g = guest
    OBVIOUS
  <2>1. g \in User /\ UserOk(g) /\ ShellShape(shell[g]) /\ guest' = NoUser
    BY <1>1, <1>3, <2>g DEF ShellTyped
  <2>2. shell[g].at \in {"ask", "off"}
    BY <2>1, <2>g DEF UserOk, ShellShape
  <2>a. PICK a : a = Answered(guest)[guest]
    OBVIOUS
  <2>3. a = IF shell[g].at = "ask" THEN Prompt ELSE shell[g]
    BY <2>1, <2>a, <2>g DEF Answered, ShellTyped
  <2>4. shell' = [told EXCEPT ![g] = a]
    BY <1>1, <1>3, <2>a, <2>g
  <2>5. shell' = [v \in User |-> IF v = g THEN a ELSE Told(v, s)]
    BY <1>t, <2>1, <2>4
  <2>6. Told(g, s) = shell[g]
    BY <2>2 DEF Told
  <2>7. ShellShape(a)
    BY <2>1, <2>3, ShellAtShape DEF Prompt
  <2>8. ShellTyped'
    BY <1>2, <2>5, <2>7 DEF ShellTyped
  <2>9. HandlerHasGuest'
    BY <1>3, <2>1 DEF HandlerHasGuest
  <2>10. ASSUME NEW v \in User
         PROVE  \/ shell'[v] = Told(v, s) /\ (guest' = v <=> guest = v)
                \/ /\ shell'[v] = Prompt /\ guest' = NoUser
                   /\ guest = v /\ shell[v].at = "ask"
                \/ shell[v].at = "off" /\ shell'[v].at = "off"
    BY <2>1, <2>2, <2>3, <2>5, <2>6, <2>g, DocsAssumption
  <2> QED
    BY <2>1, <2>8, <2>9, <2>10
<1>4. CASE ~(guest # NoUser /\ ns'.at = "idle")
  <2>1. shell' = [v \in User |-> Told(v, s)] /\ guest' = guest
    BY <1>1, <1>4, <1>t
  <2>2. ShellTyped'
    BY <1>2, <2>1 DEF ShellTyped
  <2>3. HandlerHasGuest'
    BY <1>4, <2>1, FallsNs DEF HandlerHasGuest
  <2> QED
    BY <2>1, <2>2, <2>3
<1> QED
  BY <1>3, <1>4

LEMMA FallsUser ==
  ASSUME DocsInv, NEW s \in Server, Falls(s), NEW v \in User
  PROVE  UserOk(v)'
<1> USE DEF DocsInv, TalkInv, TalkTyped
<1>1. UserOk(v) /\ ShellShape(shell[v])
  BY DEF ShellTyped
<1>2. /\ inbox' = inbox /\ Question(v)' = Question(v) /\ Waiting(v, s)' = {} /\ ~Served(v, s)'
      /\ \A r \in Server : r # s => /\ Waiting(v, r)' = Waiting(v, r)
                                    /\ Served(v, r)' <=> Served(v, r)
                                    /\ thread'[r].at = thread[r].at
  BY FallsPlaces
<1>3. CASE shell[v].at = "off" /\ shell'[v].at = "off"
  <2>1. \A r \in Server : ~Served(v, r)'
    BY <1>1, <1>2, <1>3 DEF UserOk
  <2> QED
    BY <1>3, <2>1, AwayOk DEF Away
<1>4. CASE shell'[v] = Prompt /\ guest' = NoUser /\ guest = v /\ shell[v].at = "ask"
  <2>1. Question(v) = {} /\ \A r \in Server : ~Served(v, r) /\ Waiting(v, r) = {}
    BY <1>1, <1>4 DEF UserOk
  <2>2. Prompt.at = "prompt"
    BY ShellAtShape DEF Prompt
  <2> QED
    BY <1>2, <1>4, <2>1, <2>2, AwayOk, DocsAssumption DEF Away
<1>5. CASE shell'[v] = Told(v, s) /\ (guest' = v <=> guest = v) /\ shell[v].at # "off"
  <2>1. CASE shell[v].server = s /\ shell[v].at = "wait"
    <3>1. shell'[v] = Prompt /\ Prompt.at = "prompt"
      BY <1>5, <2>1, ShellAtShape DEF Told, Prompt
    <3>2. /\ guest # v /\ Question(v) = {}
          /\ \A r \in Server : r # s => ~Served(v, r) /\ Waiting(v, r) = {}
      BY <1>1, <2>1 DEF UserOk
    <3> QED
      BY <1>2, <1>5, <3>1, <3>2, AwayOk DEF Away
  <2>2. CASE shell[v].server = s /\ shell[v].at = "session"
    <3>1. shell'[v].at = "session" /\ shell'[v].server = NoServer
      BY <1>1, <1>5, <2>2 DEF Told, ShellShape
    <3>2. /\ guest # v /\ Question(v) = {}
          /\ \A r \in Server : Waiting(v, r) = {} /\ (r # s => ~Served(v, r))
      BY <1>1, <2>2 DEF UserOk
    <3>3. \A r \in Server : Waiting(v, r)' = {} /\ ~Served(v, r)'
      BY <1>2, <3>2
    <3> QED
      BY <1>2, <1>5, <3>1, <3>2, <3>3, NameServerAssumption DEF UserOk
  <2>3. CASE ~(shell[v].server = s /\ shell[v].at \in {"wait", "session"})
    <3>1. shell'[v] = shell[v]
      BY <1>5, <2>3 DEF Told
    <3>2. ~Served(v, s) /\ Waiting(v, s) = {}
      BY <1>1, <1>5, <2>3 DEF UserOk, ShellShape
    <3>3. \A r \in Server : \A i : Waiting(v, r)' = {i} => i \in DOMAIN line'[r]
      BY DEF Waiting
    <3>4. SameWaits(v)
      BY <1>2, <1>5, <3>1, <3>2, <3>3 DEF SameWaits
    <3> QED
      BY <1>1, <3>4, UserFrame
  <2> QED
    BY <2>1, <2>2, <2>3
<1>6. CASE shell'[v] = Told(v, s) /\ shell[v].at = "off"
  BY <1>3, <1>6 DEF Told
<1> QED
  BY <1>3, <1>4, <1>5, <1>6, FallsShells

LEMMA FallsOk ==
  ASSUME DocsInv, NEW s \in Server, Falls(s)
  PROVE  DocsInv'
<1>1. NsShape' /\ OneQuestion' /\ (ns.at \in {"idle", "search"} => ns' = ns)
  BY FallsNs
<1>2. /\ LineTyped' /\ ThreadTyped' /\ inbox' = inbox
      /\ \A r \in Server : Waiting(NsCaller, r)' # {} => Waiting(NsCaller, r) # {}
  BY FallsPlaces
<1>3. ShellTyped' /\ HandlerHasGuest' /\ guest' \in {guest, NoUser}
  BY FallsShells
<1>4. \A v \in User : UserOk(v)'
  BY FallsUser
<1>5. SearchWaits'
  BY <1>1, <1>2 DEF SearchWaits, DocsInv, TalkInv
<1> QED
  BY <1>1, <1>2, <1>3, <1>4, <1>5 DEF DocsInv, TalkInv, TalkTyped

-----------------------------------------------------------------------------
(* The whole system.                                                       *)

LEMMA AloneOk ==
  ASSUME DocsInv, UNCHANGED talk, Next,
         ns'.at = "idle" <=> ns.at = "idle", ns.at = "search" => ns' = ns
  PROVE  DocsInv'
<1> USE DEF DocsInv, TalkInv, TalkTyped
<1>1. UNCHANGED <<shell, inbox, guest, line, thread>>
  BY DEF talk
<1>2. LineTyped' /\ LineKept /\ \A r : Waiting(NsCaller, r)' = Waiting(NsCaller, r)
  BY <1>1, LineStays
<1>3. ASSUME NEW v \in User PROVE UserOk(v)'
  <2>1. Question(v)' = Question(v) /\ \A r : Served(v, r)' <=> Served(v, r)
    BY <1>1 DEF Question, Served
  <2>2. SameWaits(v)
    BY <1>1, <1>2, <2>1, LineKeptWaits DEF SameWaits
  <2> QED
    BY <2>2, UserFrame
<1>4. ShellTyped' /\ ThreadTyped' /\ HandlerHasGuest' /\ SearchWaits'
  BY <1>1, <1>2 DEF ShellTyped, ThreadTyped, HandlerHasGuest, SearchWaits
<1> QED
  BY <1>1, <1>2, <1>3, <1>4, NsSteps

LEMMA AloneSteps ==
  ASSUME DocsInv,
         \/ Time \/ MarkDead
         \/ \E s \in Server : Restart(s) \/ Detect(s) \/ ServerCalls(s) \/ ServerServes(s)
  PROVE  DocsInv'
<1>1. ASSUME NEW s \in Server, ServerServes(s)
      PROVE  DocsInv'
  <2>1. Serve(s) /\ UNCHANGED talk /\ Next
    BY <1>1 DEF ServerServes, Alone, Next, ServerStep
  <2>2. \/ ns' = ns
        \/ ns.at = "wait" /\ \E ok : ns' = [ns EXCEPT !.at = "reply", !.ok = ok]
    <3>1. queue[s] \in Seq(Job) /\ queue[s] # <<>>
      BY <2>1 DEF DocsInv, OneQuestion, Serve
    <3>2. 1 \in DOMAIN queue[s] /\ Head(queue[s]) = queue[s][1]
      BY <3>1
    <3>3. Head(queue[s]).asked => ns.at = "wait"
      BY <3>2 DEF DocsInv, OneQuestion
    <3> QED
      BY <2>1, <3>3 DEF Serve
  <2>3. (ns'.at = "idle" <=> ns.at = "idle") /\ (ns.at = "search" => ns' = ns)
    BY <2>2 DEF DocsInv, NsShape
  <2> QED
    BY <2>1, <2>3, AloneOk
<1>2. ASSUME NEW s \in Server, Restart(s) \/ Detect(s) \/ ServerCalls(s)
      PROVE  DocsInv'
  <2>1. UNCHANGED <<talk, ns>> /\ Next
    BY <1>2 DEF Restart, Detect, ServerCalls, Alone, ServerStart, Suspect, RegisterServer,
                Heartbeat, Next, ServerStep
  <2> QED
    BY <2>1, AloneOk
<1>3. CASE Time \/ MarkDead
  <2>1. UNCHANGED <<talk, ns>> /\ Next
    BY <1>3 DEF Time, MarkDead, Alone, Tick, Condemn, Next
  <2> QED
    BY <2>1, AloneOk
<1> QED
  BY <1>1, <1>2, <1>3

LEMMA ShellStepOk ==
  ASSUME DocsInv, NEW u \in User, ShellStep(u)
  PROVE  DocsInv'
<1>1. Commands[u] \subseteq AllCommands
  BY DocsAssumption
<1>2. UNCHANGED vars
  BY DEF ShellStep, StartShell, Types, AsksNs, Exit, Interrupt, Connect, Word, Etirw,
         SessionLine, Cancel
<1>3. TalkInv'
  BY <1>1, StartShellOk, LeaveOk, ConnectOk, SessionLineOk DEF ShellStep, Word, Etirw
<1> QED
  BY <1>2, <1>3, NsSteps DEF DocsInv

LEMMA DocsInvInit == DocsInit => DocsInv
<1> SUFFICES ASSUME DocsInit PROVE DocsInv
  OBVIOUS
<1>1. NsShape /\ OneQuestion
  BY AccessInvInit DEF DocsInit, AccessInv
<1>2. ShellTyped /\ \A u \in User : shell[u].at = "off"
  BY ShellAtShape DEF DocsInit, ShellTyped, Off
<1>3. ThreadTyped /\ \A s \in Server : thread[s] = ThreadIdle
  BY ThreadIdleShape DEF DocsInit, ThreadTyped
<1>4. LineTyped /\ \A s \in Server : \A v : Waiting(v, s) = {}
  BY DEF DocsInit, LineTyped, Waiting
<1>5. \A u \in User, s \in Server : ~Served(u, s)
  BY <1>3, ThreadIdleShape, DocsAssumption DEF Served
<1>6. \A u \in User : UserOk(u)
  BY <1>2, <1>4, <1>5 DEF UserOk
<1>7. HandlerHasGuest /\ SearchWaits
  BY <1>4, NsIdleShape DEF DocsInit, Init, HandlerHasGuest, SearchWaits
<1> QED
  BY <1>1, <1>2, <1>3, <1>4, <1>6, <1>7 DEF DocsInv, TalkInv, TalkTyped, DocsInit

LEMMA DocsInvStep == DocsInv /\ [DocsNext]_docsVars => DocsInv'
<1>1. ASSUME DocsInv, DocsNext PROVE DocsInv'
  <2>1. ASSUME NEW u \in User, ShellStep(u) PROVE DocsInv'
    BY <1>1, <2>1, ShellStepOk
  <2>2. CASE MainLoop \/ \E u \in User : HandleConnection(u)
    BY <1>1, <2>2, NameServerOk
  <2>3. ASSUME NEW s \in Server, ClientThread(s) PROVE DocsInv'
    BY <1>1, <2>3, AcceptOk, SendOk, SaveWordOk, CommitOk, HangUpOk DEF ClientThread
  <2>4. ASSUME NEW s \in Server, Crash(s) \/ SigPipe(s) PROVE DocsInv'
    BY <1>1, <2>4, FallsOk DEF Crash, SigPipe
  <2>5. CASE \/ Time \/ MarkDead
             \/ \E s \in Server : Restart(s) \/ Detect(s) \/ ServerCalls(s) \/ ServerServes(s)
    BY <1>1, <2>5, AloneSteps
  <2> QED
    BY <1>1, <2>1, <2>2, <2>3, <2>4, <2>5 DEF DocsNext
<1>2. ASSUME DocsInv, UNCHANGED docsVars PROVE DocsInv'
  <2>1. UNCHANGED <<ns, queue, shell, inbox, guest, line, thread>>
    BY <1>2 DEF docsVars, vars, servers, talk
  <2>2. LineTyped' /\ LineKept /\ \A r : Waiting(NsCaller, r)' = Waiting(NsCaller, r)
    BY <1>2, <2>1, LineStays DEF DocsInv, TalkInv, TalkTyped
  <2>3. ASSUME NEW v \in User PROVE UserOk(v)'
    <3>1. Question(v)' = Question(v) /\ \A r : Served(v, r)' <=> Served(v, r)
      BY <2>1 DEF Question, Served
    <3>2. SameWaits(v)
      BY <2>1, <2>2, <3>1, LineKeptWaits DEF SameWaits
    <3> QED
      BY <1>2, <3>2, UserFrame DEF DocsInv, TalkInv
  <2> QED
    BY <1>2, <2>1, <2>2, <2>3
       DEF DocsInv, TalkInv, TalkTyped, NsShape, OneQuestion, ShellTyped, ThreadTyped,
           HandlerHasGuest, SearchWaits
<1> QED
  BY <1>1, <1>2

\* Whoever waits is in one place, the one it waits at, and whoever does not wait is in none:
\* no command of a shell loses its answer, or gets that of another command, whatever
\* crashes, Ctrl-C and broken connections there are (client.c, handle_connection,
\* client_server_thread).
THEOREM WaitersFindTheirAnswer == DocsSpec => []WaitersAreQueued
<1>1. DocsSpec => []DocsInv
  BY DocsInvInit, DocsInvStep, PTL DEF DocsSpec
<1>2. DocsInv => WaitersAreQueued
  BY WaitersParts DEF DocsInv, TalkInv
<1> QED
  BY <1>1, <1>2, PTL
-----------------------------------------------------------------------------
(* The name server in the whole system. NameServerProofs and               *)
(* DirectoryProofs are about its own steps; here it searches too, a client *)
(* thread brings files back, and a storage server may die of a SIGPIPE.    *)

\* Shells that are routed have somewhere to go; the name server, as a client of the
\* storage servers, has short questions only.
RoutedShell == {x \in Shell : x.at = "routed" => x.server \in Server /\ x.ss # "none"}
Call == {c \in Connection : c.from = NsCaller => c.ss = "one"}

TalkTypes == /\ shell \in [User -> RoutedShell]
             /\ line \in [Server -> Seq(Call)]
             /\ thread \in [Server -> Thread]

\* The server that a SEARCH waits for is in the registry, where it goes on from there.
SearchKnown == ns.at = "search" => ns.server \in ToSet(registry)

DocsTypes == DirectoryTyped /\ TalkTypes /\ SearchKnown

\* A step that is not one of SEARCH.
NotSearching == ns'.at = "search" => UNCHANGED <<ns, registry>>

\* SEARCH goes on, or ends.
Searching ==
  /\ ns.at \in {"idle", "search"}
  /\ \/ ns' = NsIdle
     \/ \E s \in ToSet(registry) : ns' = [NsIdle EXCEPT !.at = "search", !.server = s]
  /\ UNCHANGED <<accessVars, clients, registers, suspect, directory, lastUsed, servers>>

\* A commit may bring a document back.
Committing ==
  /\ stores' \in [Server -> SUBSET File]
  /\ UNCHANGED <<accessVars, ns, clients, registers, suspect, directory, lastUsed, status,
                 queue>>

LEMMA SearchFromMoves ==
  ASSUME DirectoryTyped, NEW u, NEW i \in Nat, ns.at \in {"idle", "search"}, SearchFrom(u, i)
  PROVE  Searching
<1> DEFINE next == {j \in i + 1 .. Len(registry) :
                      alive[registry[j]] /\ status[registry[j]] # "down"}
<1>1. \/ next = {} /\ ns' = NsIdle
      \/ next # {} /\ ns' = [NsIdle EXCEPT !.at = "search", !.server = registry[Min(next)]]
  BY DEF SearchFrom
<1>2. UNCHANGED <<accessVars, clients, registers, suspect, directory, lastUsed, servers>>
  BY DEF SearchFrom
<1>3. registry \in Seq(Server)
  BY DEF DirectoryTyped, RegistersTyped
<1>4. next \in SUBSET Nat /\ next \subseteq DOMAIN registry
  BY <1>3
<1> HIDE DEF next
<1>5. next # {} => registry[Min(next)] \in ToSet(registry)
  <2>1. next # {} => Min(next) \in DOMAIN registry
    BY <1>4, MinIsLeast
  <2> QED
    BY <2>1 DEF ToSet
<1> QED
  BY <1>1, <1>2, <1>5, Zenon DEF Searching

\* Where in the registry the server is that was asked last.
LEMMA PlaceTyped ==
  ASSUME DirectoryTyped, NEW s \in ToSet(registry)
  PROVE  (CHOOSE i \in DOMAIN registry : registry[i] = s) \in Nat
<1>1. \E i \in DOMAIN registry : registry[i] = s
  BY DEF ToSet
<1>2. DOMAIN registry \subseteq Nat
  BY DEF DirectoryTyped, RegistersTyped
<1> QED
  BY <1>1, <1>2

LEMMA AskingMoves ==
  ASSUME Asking PROVE NotSearching
<1>1. ns'.at # "search"
  <2>1. CASE UNCHANGED ns
    BY <2>1 DEF Asking
  <2>2. ASSUME NEW s, NEW op, NEW f, NEW u, Sends(s, op, f, u) PROVE ns'.at # "search"
    BY <2>2 DEF Sends
  <2>3. CASE Pauses
    BY <2>3, NsIdleShape DEF Pauses
  <2> QED
    BY <2>1, <2>2, <2>3, Zenon DEF Asking
<1> QED
  BY <1>1 DEF NotSearching

\* A handler that NameServer has.
LEMMA HandlerMoves ==
  ASSUME NEW kind, NEW u \in User, NEW f \in File, HandlerOf(kind, u, f), ns.at = "idle"
  PROVE  (Next \/ UNCHANGED vars) /\ NotSearching
<1>1. Next \/ UNCHANGED vars
  BY HandlersAreSteps
<1>2. ASSUME UNCHANGED vars PROVE NotSearching
  BY <1>2 DEF vars, registers, NotSearching
<1>3. ASSUME Sharing(u, f) PROVE NotSearching
  <2>1. UNCHANGED ns \/ GoSave(u, f)
    BY <1>3 DEF Sharing, RequestAccess, AddAccess, RemAccess, ApproveRequest, DenyRequest
  <2> QED
    BY <2>1, NsIdleShape DEF GoSave, NotSearching
<1>4. ASSUME \/ CreateAsk(u, f) \/ DeleteAsk(u, f) \/ MoveAsk(u, f) \/ QueryAsk(u, f)
             \/ \E op \in Views : ViewAsk(u, op)
             \/ FolderAsk
      PROVE  NotSearching
  BY <1>4, AskingSteps, AskingMoves
<1>5. \/ UNCHANGED vars \/ Sharing(u, f)
      \/ CreateAsk(u, f) \/ DeleteAsk(u, f) \/ MoveAsk(u, f) \/ QueryAsk(u, f)
      \/ (\E op \in Views : ViewAsk(u, op))
      \/ FolderAsk
  BY Zenon DEF HandlerOf, Sharing
<1> QED
  BY <1>1, <1>2, <1>3, <1>4, <1>5

LEMMA ProceedMoves ==
  ASSUME NsShape, Proceed
  PROVE  Next /\ NotSearching
<1>1. Next
  BY DEF Next
<1>2. ASSUME ViewGoesOn PROVE NotSearching
  BY <1>2, AskingSteps, AskingMoves
<1>3. ASSUME \/ CreateRecord \/ DeleteRecord \/ Replicate \/ PassOn
             \/ SaveOpen \/ SaveData \/ SaveFails
      PROVE  NotSearching
  <2>1. \/ ns' = NsIdle
        \/ \E at \in {"save", "saving", "replicate"} : ns' = [ns EXCEPT !.at = at]
    BY <1>3 DEF CreateRecord, CreateGoesOn, DeleteRecord, Replicate, PassOn, SaveOpen,
                SaveData, SaveFails, AfterSave
  <2> QED
    BY <2>1, NsIdleShape DEF NsShape, NotSearching
<1> QED
  BY <1>1, <1>2, <1>3 DEF Proceed

LEMMA ServerMoves ==
  ASSUME DocsInv, NEW s \in Server,
         \/ Restart(s) \/ Detect(s) \/ ServerCalls(s) \/ ServerServes(s)
         \/ Time \/ MarkDead
  PROVE  Next /\ NotSearching
<1>1. CASE ServerServes(s)
  <2>1. Serve(s)
    BY <1>1 DEF ServerServes, Alone
  <2>2. UNCHANGED registry /\ (UNCHANGED ns \/ \E ok : ns' = [ns EXCEPT !.at = "reply", !.ok = ok])
    BY <2>1 DEF Serve, registers
  <2>3. NotSearching
    BY <2>2 DEF NotSearching, DocsInv, NsShape
  <2> QED
    BY <2>1, <2>3 DEF Next, ServerStep
<1>2. CASE Restart(s) \/ Detect(s)
  BY <1>2 DEF Restart, Detect, Alone, ServerStart, Suspect, Next, ServerStep, NotSearching,
              registers
<1>3. CASE ServerCalls(s)
  BY <1>3 DEF ServerCalls, Alone, RegisterServer, Heartbeat, Next, ServerStep, NotSearching
<1>4. CASE Time \/ MarkDead
  BY <1>4 DEF Time, MarkDead, Alone, Tick, Condemn, Next, NotSearching
<1> QED
  BY <1>1, <1>2, <1>3, <1>4

LEMMA ConnectionMoves ==
  ASSUME DocsInv, DocsTypes, NEW u \in User, HandleConnection(u)
  PROVE  ((Next \/ UNCHANGED vars) /\ NotSearching) \/ Searching
<1>1. PICK e \in inbox : \/ Handle(e) \/ HandleRegister(e) \/ HandleUnregister(e)
                         \/ HandleRoute(e) \/ HandleSearch(e)
  BY DEF HandleConnection
<1>2. e.from \in User /\ e.file \in File
  BY DEF DocsInv, TalkInv, TalkTyped, Ask
<1>3. CASE Handle(e)
  BY <1>2, <1>3, HandlerMoves DEF Handle
<1>4. CASE HandleRegister(e)
  <2>1. CASE RegisterClient(e.from)
    BY <1>2, <2>1 DEF RegisterClient, Idle, NotSearching, Next
  <2>2. CASE UNCHANGED vars
    BY <2>2 DEF vars, registers, NotSearching
  <2> QED
    BY <1>4, <2>1, <2>2 DEF HandleRegister
<1>5. CASE HandleUnregister(e)
  BY <1>5 DEF HandleUnregister, vars, registers, NotSearching
<1>6. CASE HandleRoute(e)
  BY <1>2, <1>6 DEF HandleRoute, Route, Idle, NotSearching, Next
<1>7. CASE HandleSearch(e)
  <2>1. ns.at = "idle" /\ SearchFrom(e.from, 0) /\ DirectoryTyped
    BY <1>7 DEF HandleSearch, Idle, DocsTypes
  <2> QED
    BY <2>1, SearchFromMoves
<1> QED
  BY <1>1, <1>3, <1>4, <1>5, <1>6, <1>7

\* The steps of the whole system by what they do to the name server.
LEMMA DocsMoves ==
  ASSUME DocsInv, DocsTypes, DocsNext
  PROVE  \/ /\ Next \/ UNCHANGED vars \/ \E s \in Server : ServerDies(s)
            /\ NotSearching
         \/ Searching \/ Committing
<1>1. ASSUME NEW u \in User, ShellStep(u) PROVE UNCHANGED vars /\ NotSearching
  <2>1. UNCHANGED vars
    BY <1>1 DEF ShellStep, StartShell, Types, AsksNs, Exit, Interrupt, Connect, Word, Etirw,
                SessionLine, Cancel
  <2> QED
    BY <2>1 DEF vars, registers, NotSearching
<1>2. CASE SearchGoesOn
  <2>1. PICK i : /\ i = CHOOSE j \in DOMAIN registry : registry[j] = ns.server
                 /\ ns.at = "search" /\ SearchFrom(guest, i)
    BY <1>2 DEF SearchGoesOn
  <2>2. i \in Nat /\ DirectoryTyped
    BY <2>1, PlaceTyped DEF DocsTypes, SearchKnown
  <2> QED
    BY <2>1, <2>2, SearchFromMoves
<1>3. CASE HandlerProceeds
  BY <1>3, ProceedMoves DEF HandlerProceeds, DocsInv
<1>4. ASSUME NEW s \in Server, Accept(s) \/ Send(s) \/ SaveWord(s) \/ HangUp(s)
      PROVE  UNCHANGED vars /\ NotSearching
  <2>1. UNCHANGED vars
    BY <1>4 DEF Accept, Send, SaveWord, HangUp
  <2> QED
    BY <2>1 DEF vars, registers, NotSearching
<1>5. ASSUME NEW s \in Server, Commit(s) PROVE Committing
  <2>1. thread[s].file \in File /\ stores \in [Server -> SUBSET File]
    BY DEF DocsTypes, TalkTypes, Thread, DirectoryTyped, ServersTyped
  <2>2. stores' = [stores EXCEPT ![s] = @ \cup {thread[s].file}] \/ UNCHANGED stores
    BY <1>5 DEF Commit
  <2>3. stores' \in [Server -> SUBSET File]
    BY <2>1, <2>2
  <2> QED
    BY <1>5, <2>3 DEF Commit, Committing
<1>6. ASSUME NEW s \in Server, Crash(s) \/ SigPipe(s)
      PROVE  ServerDies(s) /\ NotSearching
  <2>1. ServerDies(s)
    BY <1>6 DEF Crash, SigPipe, Falls
  <2>2. ns' \in {ns, NsIdle} \/ ns' = [ns EXCEPT !.at = "view"]
    BY <2>1 DEF ServerDies, Abandoned
  <2> QED
    BY <2>1, <2>2, NsIdleShape DEF ServerDies, registers, NotSearching, DocsInv, NsShape
<1>7. Server # {}
  BY NameServerAssumption
<1> QED
  BY <1>1, <1>2, <1>3, <1>4, <1>5, <1>6, <1>7, ServerMoves, ConnectionMoves, Zenon
     DEF DocsNext, MainLoop, ClientThread

LEMMA NameServerStaysTyped ==
  ASSUME DocsInv, DocsTypes, DocsNext
  PROVE  DirectoryTyped' /\ SearchKnown'
<1> USE DEF DocsTypes
<1>1. CASE UNCHANGED vars
  BY <1>1, RegistersStay, MapsStay, CacheStays, ServersStay
     DEF vars, registers, directory, DirectoryTyped, SearchKnown
<1>2. ASSUME Next \/ \E s \in Server : ServerDies(s) PROVE DirectoryTyped'
  BY <1>2, DirectoryStep, ServerStepTyped DEF DocsInv
<1>3. ASSUME NotSearching PROVE SearchKnown'
  BY <1>3 DEF NotSearching, SearchKnown
<1>4. CASE Searching
  <2>1. \/ ns' = NsIdle
        \/ \E s \in ToSet(registry) : ns' = [NsIdle EXCEPT !.at = "search", !.server = s]
    BY <1>4 DEF Searching
  <2>2. ToSet(registry) \subseteq Server
    BY DEF DirectoryTyped, RegistersTyped, ToSet
  <2>3. ns' \in Ns
    BY <2>1, <2>2, NsIdleTyped DEF Ns, NsStates
  <2>4. UNCHANGED registry
    BY <1>4 DEF Searching, registers
  <2>5. SearchKnown'
    BY <2>1, <2>4, NsIdleShape DEF SearchKnown
  <2>6. UNCHANGED <<clients, registers, suspect, directory, lastUsed, servers>>
    BY <1>4 DEF Searching
  <2>7. RegistersTyped' /\ MapsTyped' /\ CacheTyped' /\ ServersTyped'
    BY <2>6, RegistersStay, MapsStay, CacheStays, ServersStay DEF DirectoryTyped, directory
  <2> QED
    BY <2>3, <2>5, <2>7 DEF DirectoryTyped
<1>5. CASE Committing
  <2>1. ServersTyped'
    BY <1>5 DEF Committing, ServersTyped, DirectoryTyped
  <2> QED
    BY <1>5, <2>1, RegistersStay, MapsStay, CacheStays
       DEF Committing, DirectoryTyped, SearchKnown, directory, registers
<1> QED
  BY <1>1, <1>2, <1>3, <1>4, <1>5, DocsMoves

-----------------------------------------------------------------------------
(* The types of the shells, the lines and the threads.                     *)

LEMMA AnyFileTyped == AnyFile \in File
  BY NsIdleShape DEF AnyFile

LEMMA ShellsTyped == \A at \in {"off", "prompt", "ask"} : ShellAt(at) \in RoutedShell
  BY AnyFileTyped DEF ShellAt, RoutedShell, Shell

LEMMA ThreadIdleTyped == ThreadIdle \in Thread
<1>1. 0 \in 0 .. MaxWords + 1
  BY DocsAssumption
<1> QED
  BY <1>1, AnyFileTyped DEF ThreadIdle, Thread

LEMMA HungTyped ==
  ASSUME TalkTypes, NEW u PROVE Hung(u) \in [Server -> Thread]
<1>1. ASSUME NEW s \in Server PROVE [thread[s] EXCEPT !.peer = "gone"] \in Thread
  BY DEF TalkTypes, Thread
<1> QED
  BY <1>1 DEF Hung, TalkTypes

LEMMA AnsweredTyped ==
  ASSUME TalkTypes, NEW u PROVE Answered(u) \in [User -> RoutedShell]
  BY ShellsTyped DEF Answered, TalkTypes, Prompt

LEMMA CallAdded ==
  ASSUME TalkTypes, NEW s, NEW c \in Call, line' = [line EXCEPT ![s] = Append(@, c)]
  PROVE  line' \in [Server -> Seq(Call)]
<1>1. ASSUME NEW r \in Server PROVE Append(line[r], c) \in Seq(Call)
  <2>1. line[r] \in Seq(Call)
    BY DEF TalkTypes
  <2> QED
    BY <2>1
<1> QED
  BY <1>1 DEF TalkTypes

LEMMA ShellStepTyped ==
  ASSUME DocsTypes, NEW u \in User, ShellStep(u)
  PROVE  TalkTypes'
<1> USE DEF DocsTypes, TalkTypes
<1>1. Off \in RoutedShell /\ Prompt \in RoutedShell /\ ShellAt("ask") \in RoutedShell
  BY ShellsTyped DEF Off, Prompt
<1>2. ASSUME NEW x \in RoutedShell, shell' = [shell EXCEPT ![u] = x]
      PROVE  shell' \in [User -> RoutedShell]
  BY <1>2
<1>3. CASE /\ \E x \in {Off, Prompt, ShellAt("ask")} : shell' = [shell EXCEPT ![u] = x]
           /\ UNCHANGED thread \/ thread' = Hung(u)
           /\ UNCHANGED line
  BY <1>1, <1>2, <1>3, HungTyped
<1>4. CASE Connect(u)
  <2>1. shell[u] \in RoutedShell /\ shell[u].at = "routed"
    BY <1>4 DEF Connect
  <2> DEFINE c == [from |-> u, ss |-> shell[u].ss, file |-> shell[u].file]
             s == shell[u].server
  <2>2. c \in Call
    BY <2>1, DocsAssumption DEF RoutedShell, Shell, Call, Connection
  <2>3. [shell[u] EXCEPT !.at = "wait"] \in RoutedShell
    BY <2>1 DEF RoutedShell, Shell
  <2>4. \/ shell' = [shell EXCEPT ![u] = Prompt] /\ UNCHANGED line
        \/ /\ shell' = [shell EXCEPT ![u] = [shell[u] EXCEPT !.at = "wait"]]
           /\ line' = [line EXCEPT ![s] = Append(@, c)]
    BY <1>4 DEF Connect
  <2> HIDE DEF c, s
  <2>5. shell' \in [User -> RoutedShell]
    BY <1>1, <2>3, <2>4
  <2>6. line' \in [Server -> Seq(Call)]
    BY <2>2, <2>4, CallAdded
  <2> QED
    BY <1>4, <2>5, <2>6 DEF Connect
<1>5. ASSUME NEW what \in {"word", "commit"}, SessionLine(u, what) PROVE TalkTypes'
  <2>1. shell[u] \in RoutedShell /\ shell[u].at = "session"
    BY <1>5 DEF SessionLine
  <2>2. [shell[u] EXCEPT !.at = "wait"] \in RoutedShell
    BY <2>1 DEF RoutedShell, Shell
  <2>3. \/ shell' = [shell EXCEPT ![u] = Prompt] /\ UNCHANGED thread
        \/ /\ shell' = [shell EXCEPT ![u] = [shell[u] EXCEPT !.at = "wait"]]
           /\ thread' = [thread EXCEPT ![shell[u].server].at = what]
    BY <1>5 DEF SessionLine
  <2>4. shell' \in [User -> RoutedShell]
    BY <1>1, <2>2, <2>3
  <2>5. thread' \in [Server -> Thread]
    <3>1. ASSUME NEW s \in Server PROVE [thread[s] EXCEPT !.at = what] \in Thread
      <4>1. thread[s] \in Thread
        OBVIOUS
      <4> QED
        BY <4>1 DEF Thread
    <3>2. ASSUME NEW r, thread' = [thread EXCEPT ![r].at = what]
          PROVE  thread' \in [Server -> Thread]
      BY <3>1, <3>2
    <3> QED
      BY <2>3, <3>2
  <2> QED
    BY <1>5, <2>4, <2>5 DEF SessionLine
<1>6. \/ Connect(u) \/ (\E what \in {"word", "commit"} : SessionLine(u, what))
      \/ /\ \E x \in {Off, Prompt, ShellAt("ask")} : shell' = [shell EXCEPT ![u] = x]
         /\ UNCHANGED thread \/ thread' = Hung(u)
         /\ UNCHANGED line
  BY DEF ShellStep, StartShell, Types, AsksNs, Exit, Interrupt, Word, Etirw, Cancel
<1> QED
  BY <1>3, <1>4, <1>5, <1>6

\* The shells and the lines that a handler leaves, and a SEARCH that goes on.
LEMMA GoesOnTyped ==
  ASSUME TalkTypes, NEW u, HandlerGoesOn(u) PROVE shell' \in [User -> RoutedShell]
<1>1. shell' = Answered(u) \/ UNCHANGED shell
  BY DEF HandlerGoesOn
<1> QED
  BY <1>1, AnsweredTyped DEF TalkTypes

LEMMA SearchFromTyped ==
  ASSUME TalkTypes, NEW u, NEW i, SearchFrom(u, i)
  PROVE  TalkTypes'
<1> DEFINE c == [from |-> NsCaller, ss |-> "one", file |-> AnyFile]
<1>1. c \in Call
  BY AnyFileTyped DEF Call, Connection
<1>2. UNCHANGED line \/ \E s : line' = [line EXCEPT ![s] = Append(@, c)]
  BY DEF SearchFrom
<1> HIDE DEF c
<1>3. line' \in [Server -> Seq(Call)]
  BY <1>1, <1>2, CallAdded DEF TalkTypes
<1>4. shell' \in [User -> RoutedShell]
  BY GoesOnTyped DEF SearchFrom
<1> QED
  BY <1>3, <1>4 DEF SearchFrom, TalkTypes

LEMMA MainLoopTyped ==
  ASSUME DocsInv, DocsTypes, MainLoop \/ \E u \in User : HandleConnection(u)
  PROVE  TalkTypes'
<1> USE DEF DocsTypes
<1>1. ASSUME NEW u, HandlerGoesOn(u), UNCHANGED <<line, thread>> PROVE TalkTypes'
  BY <1>1, GoesOnTyped DEF TalkTypes
<1>2. CASE MainLoop
  <2>1. CASE SearchGoesOn
    BY <2>1, SearchFromTyped DEF SearchGoesOn
  <2>2. CASE HandlerProceeds
    BY <1>1, <2>2 DEF HandlerProceeds
  <2> QED
    BY <1>2, <2>1, <2>2 DEF MainLoop
<1>3. ASSUME NEW e \in inbox, HandleRegister(e) PROVE TalkTypes'
  <2>1. \/ shell' = Answered(e.from)
        \/ shell' = [shell EXCEPT ![e.from] = IF @.at = "ask" THEN Off ELSE @]
    BY <1>3 DEF HandleRegister
  <2>2. Off \in RoutedShell
    BY ShellsTyped DEF Off
  <2>3. shell' \in [User -> RoutedShell]
    BY <2>1, <2>2, AnsweredTyped DEF TalkTypes
  <2> QED
    BY <1>3, <2>3 DEF HandleRegister, TalkTypes
<1>4. ASSUME NEW e \in inbox, HandleRoute(e) PROVE TalkTypes'
  <2>1. /\ e.file \in File /\ e.cmd.ns \in {"read", "write"}
        /\ e.cmd \in AllCommands \cup {Register, Unregister}
    BY <1>4 DEF HandleRoute, DocsInv, TalkInv, TalkTyped, Ask
  <2>2. e.cmd.ss \in Talks
    BY <2>1, CommandKinds, RegisterKind
  <2>3. Find(e.file) \in Server \cup {NoServer}
    BY <2>1, FindTyped DEF DirectoryTyped
  <2> DEFINE routed == [at |-> "routed", ss |-> e.cmd.ss, file |-> e.file,
                        server |-> Find(e.file)]
  <2>4. Find(e.file) # NoServer => routed \in RoutedShell
    BY <2>1, <2>2, <2>3 DEF Talks, RoutedShell, Shell
  <2>5. PICK x : /\ x = Prompt \/ (Find(e.file) # NoServer /\ x = routed)
                 /\ shell' = [shell EXCEPT ![e.from] = IF @.at = "ask" THEN x ELSE @]
    <3>1. PICK x : x = IF Find(e.file) # NoServer /\ Allowed(e.cmd.ns, e.file, e.from)
                       THEN routed ELSE Prompt
      OBVIOUS
    <3>2. shell' = [shell EXCEPT ![e.from] = IF @.at = "ask" THEN x ELSE @]
      BY <1>4, <3>1 DEF HandleRoute
    <3> QED
      BY <3>1, <3>2
  <2> HIDE DEF routed
  <2>6. x \in RoutedShell
    BY <2>4, <2>5, ShellsTyped DEF Prompt
  <2>7. shell' \in [User -> RoutedShell]
    BY <2>5, <2>6 DEF TalkTypes
  <2> QED
    BY <1>4, <2>7 DEF HandleRoute, TalkTypes
<1>5. ASSUME NEW e \in inbox, Handle(e) \/ HandleUnregister(e) \/ HandleSearch(e)
      PROVE  TalkTypes'
  <2>1. CASE Handle(e)
    BY <1>1, <2>1 DEF Handle
  <2>2. CASE HandleUnregister(e)
    BY <2>2 DEF HandleUnregister, TalkTypes
  <2>3. CASE HandleSearch(e)
    BY <2>3, SearchFromTyped DEF HandleSearch
  <2> QED
    BY <1>5, <2>1, <2>2, <2>3
<1> QED
  BY <1>2, <1>3, <1>4, <1>5 DEF HandleConnection

\* What a thread does with the shell that it serves.
LEMMA TellsTyped ==
  ASSUME TalkTypes, NEW u, NEW x,
         shell' = [shell EXCEPT ![u] = x], x \in RoutedShell \/ u \notin User
  PROVE  shell' \in [User -> RoutedShell]
  BY DEF TalkTypes

LEMMA GoesTyped ==
  ASSUME TalkTypes, NEW s, NEW t \in Thread, thread' = [thread EXCEPT ![s] = t]
  PROVE  thread' \in [Server -> Thread]
  BY DEF TalkTypes

LEMMA AcceptTyped ==
  ASSUME DocsTypes, NEW s \in Server, Accept(s)
  PROVE  TalkTypes'
<1> USE DEF DocsTypes
<1>e. PICK e, u : e = Head(line[s]) /\ u = e.from
  OBVIOUS
<1>1. line[s] \in Seq(Call) /\ line[s] # <<>> /\ line' = [line EXCEPT ![s] = Tail(@)]
  BY DEF Accept, TalkTypes
<1>2. e \in Call /\ Tail(line[s]) \in Seq(Call)
  BY <1>e, <1>1
<1>3. line' \in [Server -> Seq(Call)]
  BY <1>1, <1>2 DEF TalkTypes
<1>4. e.file \in File /\ (e.ss # "one" => u \in User) /\ u \in User \cup {NsCaller}
  BY <1>e, <1>2 DEF Call, Connection
<1> DEFINE y == [shell[u] EXCEPT !.at = "session"]
           Goes(t) == thread' = [thread EXCEPT ![s] = t]
           Says(x) == shell' = IF There(u) THEN [shell EXCEPT ![u] = x] ELSE shell
<1>5. \/ Says(Prompt) /\ UNCHANGED thread
      \/ e.ss # "one" /\ Says(Prompt)
           /\ \E peer \in {"gone", "reset"} : Goes(ThreadSends(u, e.file, 1, peer))
      \/ e.ss # "one" /\ UNCHANGED shell
           /\ \E n \in 1 .. MaxWords + 1 : Goes(ThreadSends(u, e.file, n, After(There(u))))
      \/ e.ss # "one" /\ (Says(y) \/ Says(Prompt))
           /\ \E peer \in {"open", "gone", "reset"} : Goes(Session(u, e.file, peer))
  <2> DEFINE found == e.file \in stores[s]
  <2>1. \/ (e.ss = "one" \/ (e.ss = "stream" /\ ~found)) /\ Says(Prompt) /\ UNCHANGED thread
        \/ /\ e.ss = "read" /\ Says(Prompt)
           /\ Goes(ThreadSends(u, e.file, 1, IF There(u) THEN "gone" ELSE "reset"))
        \/ /\ e.ss = "read" /\ UNCHANGED shell
           /\ Goes(ThreadSends(u, e.file, 1, After(There(u))))
        \/ /\ e.ss = "stream" /\ UNCHANGED shell
           /\ \E n \in 0 .. MaxWords : Goes(ThreadSends(u, e.file, n + 1, After(There(u))))
        \/ e.ss = "session" /\ Says(y) /\ Goes(Session(u, e.file, After(There(u))))
        \/ /\ e.ss = "session" /\ Says(Prompt)
           /\ Goes(Session(u, e.file, IF There(u) THEN "gone" ELSE "reset"))
    BY <1>e, Zenon DEF Accept, There, Session
  <2>2. 1 \in 1 .. MaxWords + 1 /\ \A n \in 0 .. MaxWords : n + 1 \in 1 .. MaxWords + 1
    BY DocsAssumption
  <2>3. After(There(u)) \in {"open", "gone", "reset"}
    BY DEF After
  <2> HIDE DEF Goes, Says, y, found
  <2> QED
    BY <2>1, <2>2, <2>3
<1>6. ASSUME NEW n \in 1 .. MaxWords + 1, NEW peer \in {"open", "gone", "reset"}, u \in User
      PROVE  ThreadSends(u, e.file, n, peer) \in Thread
  BY <1>4, <1>6, DocsAssumption DEF ThreadSends, Thread
<1>7. ASSUME NEW peer \in {"open", "gone", "reset"}, u \in User
      PROVE  Session(u, e.file, peer) \in Thread
  BY <1>4, <1>7, ThreadIdleTyped DEF Session, Thread
<1>8. UNCHANGED shell \/ Says(Prompt) \/ Says(y) => shell' \in [User -> RoutedShell]
  <2>1. There(u) => y \in RoutedShell
    BY DEF There, TalkTypes, RoutedShell, Shell
  <2>2. Prompt \in RoutedShell
    BY ShellsTyped DEF Prompt
  <2> HIDE DEF y
  <2> QED
    BY <2>1, <2>2, TellsTyped DEF TalkTypes
<1>9. shell' \in [User -> RoutedShell]
  <2> HIDE DEF Says, y, Goes
  <2> QED
    BY <1>5, <1>8
<1>10. thread' \in [Server -> Thread]
  <2>1. 1 \in 1 .. MaxWords + 1 /\ After(There(u)) \in {"open", "gone", "reset"}
    BY DocsAssumption DEF After
  <2>2. UNCHANGED thread \/ \E t \in Thread : Goes(t)
    <3> HIDE DEF Says, y, Goes
    <3> QED
      BY <1>4, <1>5, <1>6, <1>7, <2>1
  <2> QED
    BY <2>2, GoesTyped DEF TalkTypes
<1> QED
  BY <1>3, <1>9, <1>10 DEF TalkTypes

LEMMA SendTyped ==
  ASSUME DocsTypes, NEW s \in Server, Send(s)
  PROVE  TalkTypes'
<1> USE DEF DocsTypes
<1>t. PICK t : t = thread[s]
  OBVIOUS
<1>1. t \in Thread
  BY <1>t DEF TalkTypes
<1>2. \/ thread' = [thread EXCEPT ![s] = ThreadIdle]
      \/ t.left > 1 /\ thread' = [thread EXCEPT ![s].left = @ - 1, ![s].peer = After(@ = "open")]
  BY <1>t DEF Send
<1>3. thread' \in [Server -> Thread]
  <2>1. CASE thread' = [thread EXCEPT ![s] = ThreadIdle]
    BY <2>1, ThreadIdleTyped, GoesTyped
  <2>2. CASE /\ t.left > 1
             /\ thread' = [thread EXCEPT ![s].left = @ - 1, ![s].peer = After(@ = "open")]
    <3>1. After(t.peer = "open") \in {"open", "gone", "reset"}
      BY DEF After
    <3>2. t.left - 1 \in 0 .. MaxWords + 1
      BY <1>1, <2>2, DocsAssumption DEF Thread
    <3>3. [t EXCEPT !.left = @ - 1, !.peer = After(@ = "open")] \in Thread
      BY <1>1, <3>1, <3>2 DEF Thread
    <3>4. thread' = [thread EXCEPT ![s] = [t EXCEPT !.left = @ - 1, !.peer = After(@ = "open")]]
      BY <1>t, <1>1, <2>2 DEF TalkTypes
    <3> QED
      BY <3>3, <3>4, GoesTyped
  <2> QED
    BY <1>2, <2>1, <2>2
<1>4. shell' = [shell EXCEPT ![t.from] = Prompt] \/ UNCHANGED shell
  BY <1>t DEF Send
<1>5. shell' \in [User -> RoutedShell]
  BY <1>4, ShellsTyped DEF Prompt, TalkTypes
<1> QED
  BY <1>3, <1>5 DEF Send, TalkTypes

LEMMA ThreadStepTyped ==
  ASSUME DocsTypes, NEW s \in Server, ClientThread(s)
  PROVE  TalkTypes'
<1> USE DEF DocsTypes
<1>1. CASE SaveWord(s)
  <2>t. PICK t : t = thread[s]
    OBVIOUS
  <2>1. t \in Thread /\ After(t.peer = "open") \in {"open", "gone", "reset"}
    BY <2>t DEF TalkTypes, After
  <2>2. [t EXCEPT !.at = "session", !.peer = After(@ = "open")] \in Thread
    BY <2>1 DEF Thread
  <2>3. thread' = [thread EXCEPT ![s] = [t EXCEPT !.at = "session", !.peer = After(@ = "open")]]
    BY <1>1, <2>t, <2>1 DEF SaveWord, TalkTypes
  <2>4. thread' \in [Server -> Thread]
    BY <2>2, <2>3, GoesTyped
  <2>5. shell' = [shell EXCEPT ![t.from].at = "session"] \/ UNCHANGED shell
    BY <1>1, <2>t DEF SaveWord
  <2>6. ASSUME NEW u \in User PROVE [shell[u] EXCEPT !.at = "session"] \in RoutedShell
    <3>1. shell[u] \in RoutedShell
      BY DEF TalkTypes
    <3> QED
      BY <3>1 DEF RoutedShell, Shell
  <2>7. shell' \in [User -> RoutedShell]
    BY <2>5, <2>6 DEF TalkTypes
  <2> QED
    BY <1>1, <2>4, <2>7 DEF SaveWord, TalkTypes
<1>2. CASE Commit(s) \/ HangUp(s)
  <2>1. thread' = [thread EXCEPT ![s] = ThreadIdle]
    BY <1>2 DEF Commit, HangUp
  <2>2. thread' \in [Server -> Thread]
    BY <2>1, ThreadIdleTyped, GoesTyped
  <2>3. (\E u : shell' = [shell EXCEPT ![u] = Prompt]) \/ UNCHANGED shell
    BY <1>2 DEF Commit, HangUp
  <2>4. shell' \in [User -> RoutedShell]
    BY <2>3, ShellsTyped DEF Prompt, TalkTypes
  <2> QED
    BY <1>2, <2>2, <2>4 DEF Commit, HangUp, TalkTypes
<1> QED
  BY <1>1, <1>2, AcceptTyped, SendTyped DEF ClientThread

LEMMA FallsTyped ==
  ASSUME DocsTypes, NEW s \in Server, Falls(s)
  PROVE  TalkTypes'
<1> USE DEF DocsTypes
<1>1. line' \in [Server -> Seq(Call)] /\ thread' \in [Server -> Thread]
  <2>1. line' = [line EXCEPT ![s] = <<>>] /\ thread' = [thread EXCEPT ![s] = ThreadIdle]
    BY DEF Falls
  <2>2. <<>> \in Seq(Call)
    OBVIOUS
  <2> QED
    BY <2>1, <2>2, ThreadIdleTyped, GoesTyped DEF TalkTypes
<1>2. ASSUME NEW u \in User PROVE Told(u, s) \in RoutedShell
  <2>1. shell[u] \in RoutedShell /\ Prompt \in RoutedShell
    BY ShellsTyped DEF TalkTypes, Prompt
  <2>2. shell[u].at = "session" => [shell[u] EXCEPT !.server = NoServer] \in RoutedShell
    BY <2>1 DEF RoutedShell, Shell
  <2> QED
    BY <2>1, <2>2 DEF Told
<1>3. [u \in User |-> Told(u, s)] \in [User -> RoutedShell]
  BY <1>2
<1>4. ASSUME NEW u \in User PROVE Answered(u)[u] \in RoutedShell
  BY AnsweredTyped
<1>5. \/ shell' = [u \in User |-> Told(u, s)]
      \/ shell' = [[u \in User |-> Told(u, s)] EXCEPT ![guest] = Answered(guest)[guest]]
  BY Zenon DEF Falls, Told
<1>6. shell' \in [User -> RoutedShell]
  <2> DEFINE told == [u \in User |-> Told(u, s)]
  <2>1. told \in [User -> RoutedShell]
    BY <1>3
  <2>2. ASSUME shell' = [told EXCEPT ![guest] = Answered(guest)[guest]]
        PROVE  shell' \in [User -> RoutedShell]
    <3> HIDE DEF told
    <3> QED
      BY <1>4, <2>1, <2>2
  <2> QED
    BY <1>5, <2>1, <2>2
<1> QED
  BY <1>1, <1>6 DEF TalkTypes

LEMMA TalkStep ==
  ASSUME DocsInv, DocsTypes, DocsNext
  PROVE  TalkTypes'
<1>1. ASSUME UNCHANGED talk PROVE TalkTypes'
  BY <1>1 DEF talk, TalkTypes, DocsTypes
<1>2. \A s \in Server : Restart(s) \/ Detect(s) \/ ServerCalls(s) \/ ServerServes(s)
                          => UNCHANGED talk
  BY DEF Restart, Detect, ServerCalls, ServerServes, Alone
<1>3. Time \/ MarkDead => UNCHANGED talk
  BY DEF Time, MarkDead, Alone
<1>4. \A s \in Server : Crash(s) \/ SigPipe(s) => Falls(s)
  BY DEF Crash, SigPipe
<1> QED
  BY <1>1, <1>2, <1>3, <1>4, ShellStepTyped, MainLoopTyped, ThreadStepTyped, FallsTyped, Zenon
     DEF DocsNext

-----------------------------------------------------------------------------
(* What the name server guarantees, it guarantees in the whole system.     *)

\* The access control list, its copy on disk and the table of requests.
AccessTables == AclTyped /\ Len(requests) <= MaxRequests

LEMMA DocsTypesInit == DocsInit => DocsTypes /\ AccessTables
<1> SUFFICES ASSUME DocsInit PROVE DocsTypes /\ AccessTables
  OBVIOUS
<1>1. TypeOK /\ AccessInv
  BY TypeInit, AccessInvInit DEF DocsInit
<1>2. DirectoryTyped /\ AccessTables
  BY <1>1, TypeOKParts DEF DirectoryTyped, AccessTypeOK, AccessInv, AccessTables
<1>3. ns.at = "idle"
  BY NsIdleShape DEF DocsInit, Init
<1>4. TalkTypes
  BY ShellsTyped, ThreadIdleTyped DEF DocsInit, TalkTypes, Off
<1> QED
  BY <1>2, <1>3, <1>4 DEF DocsTypes, SearchKnown

LEMMA DocsTypesStep ==
  DocsInv /\ DocsTypes /\ AccessTables /\ [DocsNext]_docsVars => DocsTypes' /\ AccessTables'
<1> SUFFICES ASSUME DocsInv, DocsTypes, AccessTables, [DocsNext]_docsVars
             PROVE  DocsTypes' /\ AccessTables'
  OBVIOUS
<1>1. CASE DocsNext
  <2>1. DocsTypes'
    BY <1>1, NameServerStaysTyped, TalkStep DEF DocsTypes
  <2>2. CASE UNCHANGED accessVars
    BY <2>1, <2>2 DEF accessVars, AccessTables, AclTyped
  <2>3. CASE Next
    BY <2>1, <2>3, AclStep, RequestsBounded DEF AccessTables, DocsInv
  <2>4. Next \/ UNCHANGED accessVars
    BY <1>1, DocsMoves DEF vars, ServerDies, Searching, Committing
  <2> QED
    BY <2>2, <2>3, <2>4
<1>2. CASE UNCHANGED docsVars
  <2>1. UNCHANGED <<vars, talk>>
    BY <1>2 DEF docsVars
  <2>2. DirectoryTyped' /\ SearchKnown'
    BY <2>1, RegistersStay, MapsStay, CacheStays, ServersStay
       DEF vars, registers, directory, DirectoryTyped, SearchKnown, DocsTypes
  <2>3. TalkTypes'
    BY <2>1 DEF talk, TalkTypes, DocsTypes
  <2> QED
    BY <2>1, <2>2, <2>3 DEF DocsTypes, vars, accessVars, AccessTables, AclTyped
<1> QED
  BY <1>1, <1>2

LEMMA DocsInvariant == DocsSpec => []DocsInv /\ []DocsTypes /\ []AccessTables
<1>1. DocsSpec => []DocsInv
  BY DocsInvInit, DocsInvStep, PTL DEF DocsSpec
<1> QED
  BY <1>1, DocsTypesInit, DocsTypesStep, PTL DEF DocsSpec

\* Every variable of the whole system keeps its type: a shell that is routed has a storage
\* server to connect to, a client thread serves a user and never the name server, and has
\* no more messages to send than its document has words, and one for the end (cmd_read,
\* client_server_thread, handle_search_request).
THEOREM DocsTyped == DocsSpec => []DocsTypeOK
<1>1. DocsInv /\ DocsTypes /\ AccessTables => DocsTypeOK
  <2> SUFFICES ASSUME DocsInv, DocsTypes, AccessTables PROVE DocsTypeOK
    OBVIOUS
  <2>1. TypeOK
    BY TypeOKParts DEF DocsTypes, DirectoryTyped, AccessTables, AclTyped, AccessTypeOK
  <2>2. shell \in [User -> Shell] /\ thread \in [Server -> Thread]
    BY DEF DocsTypes, TalkTypes, RoutedShell
  <2>3. inbox \subseteq Ask /\ guest \in User \cup {NoUser}
        /\ line \in [Server -> Seq(Connection)]
    BY DEF DocsInv, TalkInv, TalkTyped, LineTyped
  <2> QED
    BY <2>1, <2>2, <2>3 DEF DocsTypeOK
<1> QED
  BY <1>1, DocsInvariant, PTL

\* In the whole system too, whoever gets access to a file created it, or got it from its
\* owner: no crash of a storage server, broken connection or WRITE session of another shell
\* comes between the check of the owner and the change (handle_addaccess_request,
\* handle_approverequest_request, acl.c).
THEOREM DocsAccessComesFromOwner == DocsSpec => RightsComeFromOwner
<1>1. DocsInv /\ DocsTypes /\ AccessTables /\ [DocsNext]_docsVars => [FromOwner]_vars
  <2> SUFFICES ASSUME DocsInv, DocsTypes, AccessTables, DocsNext, ~UNCHANGED vars
               PROVE  FromOwner
    BY DEF docsVars
  <2>1. AccessInv
    BY DEF AccessInv, DocsInv, AccessTables
  <2>2. UNCHANGED acl => FromOwner
    BY DEF FromOwner
  <2>3. Next \/ UNCHANGED acl
    BY DocsMoves DEF ServerDies, Searching, Committing, accessVars
  <2> QED
    BY <2>1, <2>2, <2>3, FromOwnerStep
<1>2. DocsSpec => [][FromOwner]_vars
  BY <1>1, DocsInvariant, PTL DEF DocsSpec
<1> QED
  BY <1>2 DEF RightsComeFromOwner, FromOwner

\* In the whole system too, while no server answers a CREATE that its list of files has no
\* room for, the cache agrees with the maps: a commit that brings a document back and a
\* storage server that dies of a SIGPIPE leave both alone (find_ss_for_file, lru_put).
THEOREM DocsCacheFollowsMaps == DocsSpec /\ []RoomForCreated => []CacheAgrees
<1>1. DocsInit => CacheInv
  BY NsIdleShape DEF DocsInit, Init, CacheInv, CacheAgrees, CreatedNotCached
<1>2. DocsInv /\ DocsTypes /\ RoomForCreated /\ CacheInv /\ [DocsNext]_docsVars => CacheInv'
  <2>1. ASSUME CacheInv, UNCHANGED <<cache, fileMap, replica>>, UNCHANGED ns \/ Elsewhere(ns)'
        PROVE  CacheInv'
    <3>1. CacheAgrees'
      BY <2>1 DEF CacheInv, CacheAgrees
    <3>2. CreatedNotCached'
      BY <2>1, ElsewhereOk DEF CacheInv, CreatedNotCached
    <3> QED
      BY <3>1, <3>2 DEF CacheInv
  <2>2. ASSUME DocsInv, DocsTypes, RoomForCreated, CacheInv, DocsNext PROVE CacheInv'
    <3>1. CASE Next
      BY <2>2, <3>1, CacheStep DEF DocsTypes, DocsInv
    <3>2. CASE UNCHANGED vars
      BY <2>1, <2>2, <3>2 DEF vars, directory
    <3>3. ASSUME NEW s \in Server, ServerDies(s) PROVE CacheInv'
      <4>1. ns' \in {ns, NsIdle} \/ ns' = [ns EXCEPT !.at = "view"]
        BY <3>3 DEF ServerDies, Abandoned
      <4>2. UNCHANGED ns \/ Elsewhere(ns)'
        BY <2>2, <4>1, NsIdleShape DEF Elsewhere, DocsInv, NsShape
      <4> QED
        BY <2>1, <2>2, <3>3, <4>2 DEF ServerDies, directory
    <3>4. CASE Searching
      <4>1. Elsewhere(ns)'
        BY <3>4, NsIdleShape DEF Searching, Elsewhere
      <4> QED
        BY <2>1, <2>2, <3>4, <4>1 DEF Searching, directory
    <3>5. CASE Committing
      BY <2>1, <2>2, <3>5 DEF Committing, directory
    <3> QED
      BY <2>2, <3>1, <3>2, <3>3, <3>4, <3>5, DocsMoves
  <2>3. ASSUME CacheInv, UNCHANGED docsVars PROVE CacheInv'
    BY <2>1, <2>3 DEF docsVars, vars, directory
  <2> QED
    BY <2>2, <2>3
<1>3. CacheInv => CacheAgrees
  BY DEF CacheInv
<1> QED
  BY <1>1, <1>2, <1>3, DocsInvariant, PTL DEF DocsSpec

\* DiskInv, and that a SEARCH, which is not a step of NameServer, saves nothing.
DocsDiskInv == DiskInv /\ (ns.at = "search" => DiskBelow)

LEMMA SearchSavesNothing ==
  ASSUME NsShape, ns.at = "search", UNCHANGED ns, Next
  PROVE  UNCHANGED <<acl, aclDisk>>
<1>1. Quiet \/ Asking \/ Replicate \/ PassOn => UNCHANGED <<acl, aclDisk>>
  BY DEF Quiet, Asking, Replicate, PassOn, accessVars
<1>2. \A u \in User, f \in File : ~Sharing(u, f)
  BY DEF Sharing, RequestAccess, AddAccess, RemAccess, ApproveRequest, DenyRequest, Idle
<1>3. \A s \in Server : Serving(s) => UNCHANGED <<acl, aclDisk>>
  BY DEF Serving, RegisterServer, ServerGivesUp, ServerDies, Serve, accessVars
<1>4. ~(CreateRecord \/ DeleteRecord \/ SaveOpen \/ SaveData \/ SaveFails \/ NsStart)
  BY DEF CreateRecord, DeleteRecord, SaveOpen, SaveData, SaveFails, NsStart
<1>5. ~NsCrash
  BY NsIdleShape DEF NsCrash
<1> QED
  BY <1>1, <1>2, <1>3, <1>4, <1>5, NextSplit

\* In the whole system too, while the disk takes what is written, what a restart of the name
\* server would load gives nobody more than the memory does (acl_save, and the handlers that
\* end with it).
THEOREM DocsDiskNeverGrantsMore ==
  ASSUME "savefault" \notin Ops
  PROVE  DocsSpec => []DiskGrantsNoMore
<1>1. DocsInit => DocsDiskInv
  BY DEF DocsInit, Init, AccessInit, NoAcl, DocsDiskInv, DiskInv, DiskBelow, Loaded, CanRead,
         CanWrite, Owns
<1>2. DocsInv /\ DocsTypes /\ AccessTables /\ DocsDiskInv /\ [DocsNext]_docsVars => DocsDiskInv'
  <2>1. ASSUME UNCHANGED <<acl, aclDisk>>, DiskBelow PROVE DocsDiskInv'
    BY <2>1 DEF DocsDiskInv, DiskInv, DiskBelow
  <2>2. ASSUME UNCHANGED <<acl, aclDisk, ns>>, DocsDiskInv PROVE DocsDiskInv'
    BY <2>2 DEF DocsDiskInv, DiskInv, DiskBelow
  <2>3. ASSUME DocsInv, DocsTypes, AccessTables, DocsDiskInv, DocsNext PROVE DocsDiskInv'
    <3>1. CASE Next /\ NotSearching
      <4>1. DiskInv'
        BY <2>3, <3>1, DiskStep DEF AccessInv, DocsInv, AccessTables, DocsDiskInv
      <4>2. CASE ns'.at = "search"
        <5>1. UNCHANGED ns
          BY <3>1, <4>2 DEF NotSearching
        <5>2. ns.at = "search" /\ NsShape
          BY <2>3, <4>2, <5>1 DEF DocsInv
        <5>3. UNCHANGED <<acl, aclDisk>>
          BY <3>1, <5>1, <5>2, SearchSavesNothing
        <5> QED
          BY <2>2, <2>3, <5>1, <5>3
      <4> QED
        BY <4>1, <4>2 DEF DocsDiskInv
    <3>2. CASE UNCHANGED vars \/ Committing
      BY <2>2, <2>3, <3>2 DEF vars, Committing, accessVars
    <3>3. ASSUME NEW s \in Server, ServerDies(s) PROVE DocsDiskInv'
      <4>1. UNCHANGED ns \/ ns.at \in {"wait", "reply"}
        BY <3>3 DEF ServerDies
      <4>2. UNCHANGED <<acl, aclDisk>>
        BY <3>3 DEF ServerDies, accessVars
      <4>3. ns.at \in {"wait", "reply"} => DiskBelow
        BY <2>3 DEF DocsDiskInv, DiskInv
      <4> QED
        BY <2>1, <2>2, <2>3, <4>1, <4>2, <4>3
    <3>4. CASE Searching
      BY <2>1, <2>3, <3>4 DEF Searching, accessVars, DocsDiskInv, DiskInv
    <3> QED
      BY <2>3, <3>1, <3>2, <3>3, <3>4, DocsMoves
  <2>4. ASSUME DocsDiskInv, UNCHANGED docsVars PROVE DocsDiskInv'
    BY <2>2, <2>4 DEF docsVars, vars, accessVars
  <2> QED
    BY <2>3, <2>4
<1>3. DocsDiskInv => DiskGrantsNoMore
  BY DEF DocsDiskInv, DiskInv, DiskBelow, DiskGrantsNoMore
<1> QED
  BY <1>1, <1>2, <1>3, DocsInvariant, PTL DEF DocsSpec
=============================================================================
