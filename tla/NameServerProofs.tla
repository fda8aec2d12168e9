------------------------- MODULE NameServerProofs -------------------------
(***************************************************************************)
(* What the name server guarantees about access, for every set of users,   *)
(* files and storage servers and every bound: whoever gets access gets it  *)
(* from the owner, and, while the disk does not fail, what a restart loads *)
(* gives nobody more than the memory does. The second needs to know that   *)
(* an answer of a storage server finds the handler that waits for it.      *)
(***************************************************************************)
EXTENDS NameServer, TLAPS

AclTyped ==
  /\ acl \in [File -> Entry \cup {NoEntry}]
  /\ aclDisk \in [File -> Entry \cup {NoEntry}]
  /\ requests \in Seq(AccessRequest)

\* The fields of ns, with the types of those that acl depends on.
NsShape ==
  /\ DOMAIN ns = {"at", "op", "file", "user", "server", "ok"}
  /\ ns.at \in NsStates /\ ns.file \in File /\ ns.user \in User
  /\ ns.at = "view" => ns.op \in Views

\* A request that waits for its answer is in the queue of the server that the name server
\* waits for, and there is one at most.
OneQuestion ==
  /\ queue \in [Server -> Seq(Job)]
  /\ \A s \in Server : \A i \in DOMAIN queue[s] :
       queue[s][i].asked =>
         /\ ns.at = "wait" /\ ns.server = s
         /\ \A j \in DOMAIN queue[s] : queue[s][j].asked => i = j

AccessInv == AclTyped /\ NsShape /\ OneQuestion

-----------------------------------------------------------------------------
(* The steps by what they do to acl, ns and queue.                         *)

\* Nothing.
Quiet == UNCHANGED <<accessVars, ns, queue>>

\* A handler sends a request to a storage server ...
Sends(s, op, f, u) ==
  /\ ns' = [at |-> "wait", op |-> op, file |-> f, user |-> u, server |-> s, ok |-> FALSE]
  /\ queue' = [queue EXCEPT ![s] = Append(@, [op |-> op, file |-> f, asked |-> TRUE])]

\* ... or a VIEW has nobody to ask about this file, or is through ...
Pauses ==
  \/ ns' = NsIdle
  \/ \E op \in Views, f \in File, u \in User :
       ns' = [NsIdle EXCEPT !.at = "view", !.op = op, !.file = f, !.user = u]

\* ... or the handler fails before that.
Asking ==
  /\ ns.at \in {"idle", "view", "reply"} /\ UNCHANGED accessVars
  /\ \/ UNCHANGED <<ns, queue>>
     \/ UNCHANGED queue /\ Pauses
     \/ \E s : \E op \in Forwarded, f \in File, u \in User : Sends(s, op, f, u)

LEMMA NsIdleShape ==
  /\ DOMAIN NsIdle = {"at", "op", "file", "user", "server", "ok"}
  /\ NsIdle.at = "idle" /\ NsIdle.file \in File /\ NsIdle.user \in User
<1>1. (CHOOSE f \in File : TRUE) \in File /\ (CHOOSE u \in User : TRUE) \in User
  BY AccessAssumption
<1> QED
  BY <1>1 DEF NsIdle

LEMMA ForwardAsks ==
  ASSUME NEW op \in Forwarded, NEW f \in File, NEW u \in User, NEW s,
         ns.at \in {"idle", "view", "reply"}, UNCHANGED accessVars, Forward(op, f, u, s)
  PROVE  Asking
<1>1. CASE status[s] = "down"
  BY <1>1 DEF Forward, Asking
<1>2. CASE status[s] # "down"
  <2>1. Sends(s, op, f, u)
    BY <1>2, Zenon DEF Forward, Enqueue, Sends
  <2> QED
    BY <2>1, Zenon DEF Asking
<1> QED
  BY <1>1, <1>2

LEMMA ViewingAsks ==
  ASSUME NEW op \in Views, NEW u \in User, NEW i,
         ns.at \in {"idle", "view", "reply"}, ViewFrom(u, op, i), ViewRest
  PROVE  Asking
<1>1. UNCHANGED accessVars
  BY DEF ViewRest
<1>2. CASE ns' = NsIdle /\ UNCHANGED queue
  BY <1>1, <1>2 DEF Asking, Pauses
<1>3. ASSUME NEW f \in File, ViewFile(u, op, f) PROVE Asking
  <2>1. op \in Forwarded
    BY DEF Forwarded
  <2>2. CASE Forward(op, f, u, Find(f))
    BY <1>1, <2>1, <2>2, ForwardAsks
  <2>3. CASE /\ ns' = [NsIdle EXCEPT !.at = "view", !.op = op, !.file = f, !.user = u]
             /\ UNCHANGED queue
    <3>1. Pauses
      BY <2>3, Zenon DEF Pauses
    <3> QED
      BY <1>1, <2>3, <3>1, Zenon DEF Asking
  <2> QED
    BY <1>3, <2>2, <2>3, Zenon DEF ViewFile
<1>4. \/ ns' = NsIdle /\ UNCHANGED queue
      \/ \E f \in File : ViewFile(u, op, f)
  BY DEF ViewFrom, Listed
<1> QED
  BY <1>2, <1>3, <1>4

LEMMA AskingSteps ==
  ASSUME \/ \E u \in User, f \in File :
              CreateAsk(u, f) \/ DeleteAsk(u, f) \/ MoveAsk(u, f) \/ QueryAsk(u, f)
         \/ \E u \in User, op \in Views : ViewAsk(u, op)
         \/ FolderAsk
         \/ NsShape /\ ViewGoesOn
  PROVE  Asking
<1>1. ASSUME NEW u \in User, NEW f \in File, CreateAsk(u, f) PROVE Asking
  <2>1. ns.at = "idle" /\ UNCHANGED accessVars
    BY <1>1 DEF CreateAsk, Idle
  <2>2. CASE Find(f) # NoServer \/ Available = 0
    BY <1>1, <2>1, <2>2 DEF CreateAsk, Asking
  <2>3. CASE ~(Find(f) # NoServer \/ Available = 0)
    <3>1. Forward("create", f, u, registry[Available])
      BY <1>1, <2>3 DEF CreateAsk
    <3> QED
      BY <2>1, <3>1, ForwardAsks DEF Forwarded
  <2> QED
    BY <2>2, <2>3
<1>2. ASSUME NEW u \in User, NEW f \in File, DeleteAsk(u, f) PROVE Asking
  <2>1. ns.at = "idle" /\ UNCHANGED accessVars
    BY <1>2 DEF DeleteAsk, Idle
  <2>2. CASE Find(f) = NoServer
    BY <1>2, <2>1, <2>2 DEF DeleteAsk, Asking
  <2>3. CASE Find(f) # NoServer
    BY <1>2, <2>1, <2>3, ForwardAsks DEF DeleteAsk, Forwarded
  <2> QED
    BY <2>2, <2>3
<1>3. ASSUME NEW u \in User, NEW f \in File, MoveAsk(u, f) PROVE Asking
  BY <1>3, ForwardAsks DEF MoveAsk, Idle, Forwarded
<1>4. ASSUME NEW u \in User, NEW f \in File, QueryAsk(u, f) PROVE Asking
  <2>1. ns.at = "idle" /\ UNCHANGED accessVars
    BY <1>4 DEF QueryAsk, Idle
  <2>2. CASE Find(f) = NoServer
    BY <1>4, <2>1, <2>2 DEF QueryAsk, Asking
  <2>3. CASE Find(f) # NoServer
    BY <1>4, <2>1, <2>3, ForwardAsks DEF QueryAsk, Forwarded
  <2> QED
    BY <2>2, <2>3
<1>5. ASSUME FolderAsk PROVE Asking
  BY <1>5, ForwardAsks, NsIdleShape DEF FolderAsk, Idle, Forwarded
<1>6. ASSUME NEW u \in User, NEW op \in Views, ViewAsk(u, op) PROVE Asking
  BY <1>6, ViewingAsks DEF ViewAsk, Idle
<1>7. ASSUME NsShape, ViewGoesOn PROVE Asking
  <2>1. ns.op \in Views /\ ns.user \in User
    BY <1>7 DEF ViewGoesOn, NsShape
  <2>2. ns.at \in {"idle", "view", "reply"} /\ ViewRest
    BY <1>7 DEF ViewGoesOn
  <2>3. PICK i : ViewFrom(ns.user, ns.op, i)
    BY <1>7, Zenon DEF ViewGoesOn
  <2> QED
    BY <2>1, <2>2, <2>3, ViewingAsks
<1> QED
  BY <1>1, <1>2, <1>3, <1>4, <1>5, <1>6, <1>7

LEMMA QuietSteps ==
  ASSUME \/ \E f \in File : Route(f)
         \/ \E u \in User : RegisterClient(u)
         \/ \E s \in Server : Heartbeat(s) \/ ServerStart(s) \/ Suspect(s)
         \/ Tick \/ Condemn
  PROVE  Quiet
<1>1. ASSUME NEW f \in File, Route(f) PROVE Quiet
  BY <1>1 DEF Route, Quiet, servers
<1>2. ASSUME NEW u \in User, RegisterClient(u) PROVE Quiet
  BY <1>2 DEF RegisterClient, Quiet, servers
<1>3. ASSUME NEW s \in Server, Heartbeat(s) \/ ServerStart(s) \/ Suspect(s) PROVE Quiet
  BY <1>3 DEF Heartbeat, ServerStart, Suspect, Quiet, servers
<1>4. ASSUME Tick \/ Condemn PROVE Quiet
  BY <1>4 DEF Tick, Condemn, Quiet, servers
<1> QED
  BY <1>1, <1>2, <1>3, <1>4

\* A user changes the access control list or the table of requests.
Sharing(u, f) ==
  \/ RequestAccess(u, f)
  \/ \E t \in User : \/ AddAccess(u, f, t) \/ RemAccess(u, f, t)
                     \/ ApproveRequest(u, f, t) \/ DenyRequest(u, f, t)

\* What storage servers do to queue or ns.
Serving(s) == RegisterServer(s) \/ ServerGivesUp(s) \/ ServerDies(s) \/ Serve(s)

LEMMA NextSplit ==
  ASSUME NsShape, Next
  PROVE  \/ Quiet \/ Asking
         \/ \E u \in User, f \in File : Sharing(u, f)
         \/ \E s \in Server : Serving(s)
         \/ CreateRecord \/ Replicate \/ DeleteRecord \/ PassOn
         \/ SaveOpen \/ SaveData \/ SaveFails
         \/ NsCrash \/ NsStart
  BY AskingSteps, QuietSteps, Zenon
     DEF Next, Request, ServerStep, Proceed, Sharing, Serving, ServerCrash

-----------------------------------------------------------------------------
(* ns has a file and a user at any time.                                   *)

LEMMA ShapeStep ==
  ASSUME NsShape, Next
  PROVE  NsShape'
<1> USE DEF NsShape
<1>1. CASE Quiet
  BY <1>1 DEF Quiet
<1>2. CASE Asking
  <2>1. CASE UNCHANGED ns
    BY <2>1
  <2>2. ASSUME NEW s, NEW op \in Forwarded, NEW f \in File, NEW u \in User,
               Sends(s, op, f, u)
        PROVE  NsShape'
    BY <2>2 DEF Sends, NsStates
  <2>3. CASE Pauses
    BY <2>3, NsIdleShape DEF Pauses, NsStates
  <2> QED
    BY <1>2, <2>1, <2>2, <2>3, Zenon DEF Asking
<1>3. ASSUME NEW u \in User, NEW f \in File, Sharing(u, f) PROVE NsShape'
  <2>1. UNCHANGED ns \/ GoSave(u, f)
    BY <1>3 DEF Sharing, RequestAccess, AddAccess, RemAccess, ApproveRequest, DenyRequest
  <2> QED
    BY <2>1, NsIdleShape DEF GoSave, NsStates
<1>4. ASSUME NEW s \in Server, Serving(s) PROVE NsShape'
  <2>1. \/ ns' \in {ns, NsIdle}
        \/ ns' = [ns EXCEPT !.at = "view"] /\ ns.op \in Views
        \/ \E done : ns' = [ns EXCEPT !.at = "reply", !.ok = done]
    BY <1>4 DEF Serving, RegisterServer, ServerGivesUp, ServerDies, Serve, Abandoned
  <2> QED
    BY <2>1, NsIdleShape DEF NsStates
<1>5. CASE CreateRecord
  <2>1. ns' = NsIdle \/ \E at \in {"save", "replicate"} : ns' = [ns EXCEPT !.at = at]
    BY <1>5 DEF CreateRecord, CreateGoesOn
  <2> QED
    BY <2>1, NsIdleShape DEF NsStates
<1>6. CASE Replicate \/ PassOn
  BY <1>6, NsIdleShape DEF Replicate, PassOn, NsStates
<1>7. CASE DeleteRecord
  <2>1. ns' = NsIdle \/ ns' = [ns EXCEPT !.at = "save"]
    BY <1>7 DEF DeleteRecord
  <2> QED
    BY <2>1, NsIdleShape DEF NsStates
<1>8. CASE SaveOpen \/ SaveData \/ SaveFails
  <2>1. ns' = NsIdle \/ \E at \in {"saving", "replicate"} : ns' = [ns EXCEPT !.at = at]
    BY <1>8 DEF SaveOpen, SaveData, SaveFails, AfterSave
  <2> QED
    BY <2>1, NsIdleShape DEF NsStates
<1>9. CASE NsCrash \/ NsStart
  <2>1. ns' = NsIdle \/ ns' = [NsIdle EXCEPT !.at = "down"]
    BY <1>9 DEF NsCrash, NsStart
  <2> QED
    BY <2>1, NsIdleShape DEF NsStates
<1> QED
  BY <1>1, <1>2, <1>3, <1>4, <1>5, <1>6, <1>7, <1>8, <1>9, NextSplit

-----------------------------------------------------------------------------
(* The access control list, its copy on disk and the requests are typed.   *)

LEMMA LoadedGivesNoMore ==
  ASSUME NEW e \in Entry \cup {NoEntry}
  PROVE  /\ Loaded(e) \in Entry \cup {NoEntry}
         /\ \A u : /\ CanRead(Loaded(e), u) => CanRead(e, u)
                   /\ CanWrite(Loaded(e), u) => CanWrite(e, u)
                   /\ Owns(Loaded(e), u) => Owns(e, u)
<1>1. CASE e = NoEntry
  BY <1>1 DEF Loaded
<1>2. CASE e # NoEntry
  <2>1. e \in Entry /\ NoEntry \notin Entry
    BY <1>2, NameServerAssumption
  <2>2. CASE e.readers # {}
    BY <2>2 DEF Loaded
  <2>3. CASE e.readers = {}
    <3>1. Loaded(e) = [owner |-> e.owner, readers |-> {}, writers |-> {}]
      BY <1>2, <2>3 DEF Loaded
    <3>2. Loaded(e) \in Entry
      BY <2>1, <3>1 DEF Entry
    <3> QED
      BY <1>2, <3>1, <3>2 DEF CanRead, CanWrite, Owns
  <2> QED
    BY <2>2, <2>3
<1> QED
  BY <1>1, <1>2

LEMMA SharingTyped ==
  ASSUME AclTyped, NEW u \in User, NEW f \in File, Sharing(u, f)
  PROVE  AclTyped'
<1> USE DEF AclTyped
<1>1. CASE RequestAccess(u, f)
  <2>1. acl[f] \in Entry
    BY <1>1 DEF RequestAccess
  <2>2. [file |-> f, requester |-> u, owner |-> acl[f].owner, pending |-> TRUE]
          \in AccessRequest
    BY <2>1 DEF Entry, AccessRequest
  <2> QED
    BY <1>1, <2>2 DEF RequestAccess, RequestAdd
<1>2. ASSUME NEW t \in User, RequestAnswer(f, t, u) PROVE requests' \in Seq(AccessRequest)
  <2>1. PICK i \in DOMAIN requests : requests' = [requests EXCEPT ![i].pending = FALSE]
    BY <1>2 DEF RequestAnswer
  <2>2. requests[i] \in AccessRequest
    OBVIOUS
  <2>3. [requests[i] EXCEPT !.pending = FALSE] \in AccessRequest
    BY <2>2 DEF AccessRequest
  <2> QED
    BY <2>1, <2>3
<1>3. ASSUME NEW t \in User, Owns(acl[f], u), AclAddReader(f, t) \/ AclAddWriter(f, t)
      PROVE  acl' \in [File -> Entry \cup {NoEntry}]
  <2>1. acl[f] \in Entry
    BY <1>3 DEF Owns
  <2>2. /\ [acl[f] EXCEPT !.readers = @ \cup {t}] \in Entry
        /\ [acl[f] EXCEPT !.writers = @ \cup {t}] \in Entry
    BY <2>1 DEF Entry
  <2> QED
    BY <1>3, <2>2 DEF AclAddReader, AclAddWriter
<1>4. ASSUME NEW t \in User, AddAccess(u, f, t) PROVE AclTyped'
  BY <1>3, <1>4 DEF AddAccess
<1>5. ASSUME NEW t \in User, RemAccess(u, f, t) PROVE AclTyped'
  <2>1. acl[f] \in Entry
    BY <1>5 DEF RemAccess, Owns
  <2>2. [acl[f] EXCEPT !.readers = @ \ {t}, !.writers = @ \ {t}] \in Entry
    BY <2>1 DEF Entry
  <2>3. acl' = [acl EXCEPT ![f] = [acl[f] EXCEPT !.readers = @ \ {t}, !.writers = @ \ {t}]]
    BY <1>5 DEF RemAccess, AclRemoveAccess
  <2> QED
    BY <1>5, <2>2, <2>3 DEF RemAccess
<1>6. ASSUME NEW t \in User, ApproveRequest(u, f, t) PROVE AclTyped'
  BY <1>2, <1>3, <1>6 DEF ApproveRequest
<1>7. ASSUME NEW t \in User, DenyRequest(u, f, t) PROVE AclTyped'
  BY <1>2, <1>7 DEF DenyRequest
<1> QED
  BY <1>1, <1>4, <1>5, <1>6, <1>7 DEF Sharing

LEMMA AclStep ==
  ASSUME AclTyped, NsShape, Next
  PROVE  AclTyped'
<1>1. CASE UNCHANGED accessVars
  BY <1>1 DEF AclTyped, accessVars
<1>2. CASE CreateRecord
  <2>1. ns.file \in File /\ ns.user \in User
    BY DEF NsShape
  <2>2. [owner |-> ns.user, readers |-> {}, writers |-> {}] \in Entry
    BY <2>1 DEF Entry
  <2>3. UNCHANGED acl \/ AclAddFile(ns.file, ns.user)
    BY <1>2 DEF CreateRecord
  <2> QED
    BY <1>2, <2>2, <2>3 DEF CreateRecord, AclAddFile, AclTyped
<1>3. CASE DeleteRecord
  <2>1. UNCHANGED acl \/ AclRemoveFile(ns.file)
    BY <1>3 DEF DeleteRecord
  <2> QED
    BY <1>3, <2>1 DEF DeleteRecord, AclRemoveFile, AclTyped
<1>4. CASE SaveOpen \/ SaveData \/ SaveFails
  BY <1>4 DEF SaveOpen, SaveData, SaveFails, AclSaveOpen, AclSaveData, AclSavePart,
              NoAcl, AclTyped
<1>5. CASE NsCrash
  <2>1. UNCHANGED aclDisk \/ AclSavePart
    BY <1>5 DEF NsCrash
  <2> QED
    BY <1>5, <2>1 DEF NsCrash, EmptyRegistries, AclSavePart, AclTyped
<1>6. CASE NsStart
  BY <1>6, LoadedGivesNoMore DEF NsStart, AclLoad, AclTyped
<1>7. ASSUME NEW s \in Server, Serving(s) PROVE UNCHANGED accessVars
  BY <1>7 DEF Serving, RegisterServer, ServerGivesUp, ServerDies, Serve
<1>8. CASE Quiet \/ Asking \/ Replicate \/ PassOn
  BY <1>1, <1>8 DEF Quiet, Asking, Replicate, PassOn
<1> QED
  BY <1>1, <1>2, <1>3, <1>4, <1>5, <1>6, <1>7, <1>8, SharingTyped, NextSplit

-----------------------------------------------------------------------------
(* One question at a time.                                                 *)

NoneAsked == \A s \in Server : \A i \in DOMAIN queue[s] : ~queue[s][i].asked

LEMMA AwayNoneAsked ==
  ASSUME OneQuestion, ns.at # "wait"
  PROVE  NoneAsked
  BY DEF OneQuestion, NoneAsked

LEMMA NoneAskedIsOne ==
  ASSUME queue' \in [Server -> Seq(Job)], NoneAsked'
  PROVE  OneQuestion'
  BY DEF OneQuestion, NoneAsked

\* A request in the queue that nobody waits for changes nothing.
LEMMA EnqueuedUnasked ==
  ASSUME NoneAsked, queue \in [Server -> Seq(Job)],
         NEW s \in Server, NEW f \in File, NEW op \in Forwarded,
         Enqueue(s, op, f, FALSE)
  PROVE  queue' \in [Server -> Seq(Job)] /\ NoneAsked'
<1> DEFINE job == [op |-> op, file |-> f, asked |-> FALSE]
<1>1. job \in Job /\ ~job.asked
  BY DEF Job
<1>2. queue' = [queue EXCEPT ![s] = Append(@, job)]
  BY DEF Enqueue
<1> HIDE DEF job
<1>3. queue' \in [Server -> Seq(Job)]
  BY <1>1, <1>2
<1>4. ASSUME NEW t \in Server, NEW i \in DOMAIN queue'[t] PROVE ~queue'[t][i].asked
  <2>1. CASE t # s
    BY <1>2, <2>1, <1>4 DEF NoneAsked
  <2>2. CASE t = s
    <3>1. queue'[t] = Append(queue[t], job) /\ queue[t] \in Seq(Job)
      BY <1>2, <2>2
    <3>2. i \in 1 .. Len(queue[t]) + 1
      BY <3>1, <1>4, <1>1
    <3>3. CASE i = Len(queue[t]) + 1
      BY <3>1, <3>3, <1>1
    <3>4. CASE i # Len(queue[t]) + 1
      <4>1. i \in DOMAIN queue[t] /\ queue'[t][i] = queue[t][i]
        BY <3>1, <3>2, <3>4, <1>1
      <4> QED
        BY <4>1 DEF NoneAsked
    <3> QED
      BY <3>3, <3>4
  <2> QED
    BY <2>1, <2>2
<1> QED
  BY <1>3, <1>4 DEF NoneAsked

LEMMA SendsOne ==
  ASSUME NoneAsked, queue \in [Server -> Seq(Job)],
         NEW s, NEW op \in Forwarded, NEW f \in File, NEW u \in User, Sends(s, op, f, u)
  PROVE  OneQuestion'
<1> DEFINE job == [op |-> op, file |-> f, asked |-> TRUE]
<1>1. job \in Job
  BY DEF Job
<1>2. queue' = [queue EXCEPT ![s] = Append(@, job)] /\ ns'.at = "wait" /\ ns'.server = s
  BY DEF Sends
<1> HIDE DEF job
<1>3. queue' \in [Server -> Seq(Job)]
  <2>1. CASE s \in Server
    <3>1. Append(queue[s], job) \in Seq(Job)
      BY <1>1, <2>1
    <3> QED
      BY <1>2, <3>1
  <2>2. CASE s \notin Server
    BY <1>2, <2>2
  <2> QED
    BY <2>1, <2>2
<1>4. ASSUME NEW t \in Server, NEW i \in DOMAIN queue'[t], queue'[t][i].asked
      PROVE  t = s /\ i = Len(queue[t]) + 1
  <2>1. CASE t # s
    BY <1>2, <2>1, <1>4 DEF NoneAsked
  <2>2. CASE t = s
    <3>1. queue'[t] = Append(queue[t], job) /\ queue[t] \in Seq(Job)
      BY <1>2, <2>2
    <3>2. i \in 1 .. Len(queue[t]) + 1
      BY <3>1, <1>4, <1>1
    <3>3. CASE i # Len(queue[t]) + 1
      <4>1. i \in DOMAIN queue[t] /\ queue'[t][i] = queue[t][i]
        BY <3>1, <3>2, <3>3, <1>1
      <4> QED
        BY <4>1, <1>4 DEF NoneAsked
    <3> QED
      BY <2>2, <3>3
  <2> QED
    BY <2>1, <2>2
<1> QED
  BY <1>2, <1>3, <1>4 DEF OneQuestion

LEMMA ServingKeepsOne ==
  ASSUME OneQuestion, NEW s \in Server, Serving(s)
  PROVE  OneQuestion'
<1>1. queue \in [Server -> Seq(Job)]
  BY DEF OneQuestion
<1>2. ASSUME queue' = [queue EXCEPT ![s] = <<>>]
      PROVE  queue' \in [Server -> Seq(Job)] /\ (NoneAsked => NoneAsked')
  BY <1>1, <1>2 DEF NoneAsked
<1>3. CASE RegisterServer(s) \/ ServerGivesUp(s)
  <2>1. ns.at # "wait" /\ (UNCHANGED queue \/ queue' = [queue EXCEPT ![s] = <<>>])
    BY <1>3 DEF RegisterServer, ServerGivesUp
  <2>2. NoneAsked
    BY <2>1, AwayNoneAsked
  <2> QED
    BY <1>1, <1>2, <2>1, <2>2, NoneAskedIsOne DEF NoneAsked
<1>4. CASE ServerDies(s)
  <2>1. queue' = [queue EXCEPT ![s] = <<>>]
    BY <1>4 DEF ServerDies
  <2>2. CASE ns.server = s
    <3>1. NoneAsked'
      BY <1>1, <2>1, <2>2 DEF OneQuestion, NoneAsked
    <3> QED
      BY <1>2, <2>1, <3>1, NoneAskedIsOne
  <2>3. CASE ns.server # s
    <3>1. UNCHANGED ns
      BY <1>4, <2>3 DEF ServerDies
    <3> QED
      BY <1>1, <2>1, <3>1 DEF OneQuestion
  <2> QED
    BY <2>2, <2>3
<1>5. CASE Serve(s)
  <2> DEFINE q == queue[s]
  <2>1. q \in Seq(Job) /\ q # <<>> /\ queue' = [queue EXCEPT ![s] = Tail(@)]
    BY <1>1, <1>5 DEF Serve
  <2>2. queue' \in [Server -> Seq(Job)]
    BY <1>1, <2>1
  <2>3. /\ queue'[s] = Tail(q)
        /\ \A i \in DOMAIN Tail(q) : i + 1 \in DOMAIN q /\ Tail(q)[i] = q[i + 1]
        /\ \A i \in DOMAIN Tail(q) : i \in Nat
        /\ 1 \in DOMAIN q /\ Head(q) = q[1]
    BY <1>1, <2>1
  <2>4. CASE Head(q).asked
    <3>1. NoneAsked'
      <4> SUFFICES ASSUME NEW t \in Server, NEW i \in DOMAIN queue'[t],
                          queue'[t][i].asked
                   PROVE  FALSE
        BY DEF NoneAsked
      <4>1. ns.server = s /\ \A j \in DOMAIN q : q[j].asked => 1 = j
        BY <2>3, <2>4 DEF OneQuestion
      <4>2. CASE t = s
        <5>1. q[i + 1].asked /\ i + 1 \in DOMAIN q
          BY <2>3, <4>2
        <5>2. i \in Nat /\ i # 0
          BY <2>1, <2>3, <4>2
        <5> QED
          BY <4>1, <5>1, <5>2
      <4>3. CASE t # s
        BY <1>1, <2>1, <4>1, <4>3 DEF OneQuestion
      <4> QED
        BY <4>2, <4>3
    <3> QED
      BY <2>2, <3>1, NoneAskedIsOne
  <2>5. CASE ~Head(q).asked
    <3>1. UNCHANGED ns
      BY <1>5, <2>5 DEF Serve
    <3>2. ASSUME NEW i \in DOMAIN queue'[s], queue'[s][i].asked
          PROVE  /\ ns.at = "wait" /\ ns.server = s
                 /\ \A j \in DOMAIN queue'[s] : queue'[s][j].asked => i = j
      <4>1. q[i + 1].asked /\ i + 1 \in DOMAIN q
        BY <2>3, <3>2
      <4>2. /\ ns.at = "wait" /\ ns.server = s
            /\ \A j \in DOMAIN q : q[j].asked => i + 1 = j
        BY <4>1 DEF OneQuestion
      <4>3. ASSUME NEW j \in DOMAIN queue'[s], queue'[s][j].asked PROVE i = j
        <5>1. i + 1 = j + 1
          BY <2>3, <4>2, <4>3
        <5> QED
          BY <2>3, <5>1, <3>2, <4>3
      <4> QED
        BY <4>2, <4>3
    <3> QED
      BY <1>1, <2>1, <2>2, <3>1, <3>2 DEF OneQuestion
  <2> QED
    BY <2>4, <2>5
<1> QED
  BY <1>3, <1>4, <1>5 DEF Serving

LEMMA QuestionStep ==
  ASSUME NsShape, OneQuestion, Next
  PROVE  OneQuestion'
<1>1. queue \in [Server -> Seq(Job)]
  BY DEF OneQuestion
<1>2. ASSUME ns.at # "wait", UNCHANGED queue PROVE OneQuestion'
  BY <1>1, <1>2, AwayNoneAsked, NoneAskedIsOne DEF NoneAsked
<1>3. CASE Quiet
  BY <1>3 DEF Quiet, OneQuestion
<1>4. CASE Asking
  <2>1. NoneAsked
    BY <1>4, AwayNoneAsked DEF Asking
  <2>2. CASE UNCHANGED queue
    BY <1>2, <1>4, <2>2 DEF Asking
  <2> QED
    BY <1>1, <1>4, <2>1, <2>2, SendsOne, Zenon DEF Asking
<1>5. ASSUME NEW u \in User, NEW f \in File, Sharing(u, f) PROVE OneQuestion'
  <2>1. ns.at # "wait" /\ UNCHANGED queue
    BY <1>5 DEF Sharing, RequestAccess, AddAccess, RemAccess, ApproveRequest,
                DenyRequest, Idle, servers
  <2> QED
    BY <1>2, <2>1
<1>6. CASE Replicate
  <2>1. NoneAsked /\ ns.file \in File
    BY <1>6, AwayNoneAsked DEF Replicate, NsShape
  <2>2. UNCHANGED queue \/ Enqueue(registry[Available], "create", ns.file, FALSE)
    BY <1>6 DEF Replicate
  <2>3. CASE UNCHANGED queue
    BY <1>1, <2>1, <2>3, NoneAskedIsOne DEF NoneAsked
  <2>4. CASE Enqueue(registry[Available], "create", ns.file, FALSE)
    <3>1. CASE registry[Available] \in Server
      BY <1>1, <2>1, <2>4, <3>1, EnqueuedUnasked, NoneAskedIsOne DEF Forwarded
    <3>2. CASE registry[Available] \notin Server
      <4>1. queue' = queue
        BY <1>1, <2>4, <3>2 DEF Enqueue
      <4> QED
        BY <1>1, <2>1, <4>1, NoneAskedIsOne DEF NoneAsked
    <3> QED
      BY <3>1, <3>2
  <2> QED
    BY <2>2, <2>3, <2>4
<1>7. CASE CreateRecord \/ DeleteRecord \/ PassOn \/ SaveOpen \/ SaveData \/ SaveFails
           \/ NsStart
  <2>1. ns.at # "wait" /\ UNCHANGED queue
    BY <1>7 DEF CreateRecord, DeleteRecord, PassOn, SaveOpen, SaveData, SaveFails,
                NsStart, servers
  <2> QED
    BY <1>2, <2>1
<1>8. CASE NsCrash
  <2>1. queue' = [s \in Server |-> [i \in DOMAIN queue[s] |->
                                     [queue[s][i] EXCEPT !.asked = FALSE]]]
    BY <1>8 DEF NsCrash
  <2>2. ASSUME NEW s \in Server, NEW i \in DOMAIN queue[s]
        PROVE  /\ [queue[s][i] EXCEPT !.asked = FALSE] \in Job
               /\ ~[queue[s][i] EXCEPT !.asked = FALSE].asked
    <3>1. queue[s][i] \in Job
      BY <1>1, <2>2
    <3> QED
      BY <3>1 DEF Job
  <2>3. ASSUME NEW s \in Server PROVE queue'[s] \in Seq(Job)
    BY <1>1, <2>1, <2>2
  <2> QED
    BY <2>1, <2>2, <2>3, NoneAskedIsOne DEF NoneAsked
<1> QED
  BY <1>3, <1>4, <1>5, <1>6, <1>7, <1>8, ServingKeepsOne, NextSplit

-----------------------------------------------------------------------------
(* The theorems.                                                           *)

LEMMA AccessInvInit == Init => AccessInv
<1> SUFFICES ASSUME Init PROVE AccessInv
  OBVIOUS
<1>1. AclTyped
  BY DEF Init, AccessInit, NoAcl, AclTyped
<1>2. NsShape
  BY NsIdleShape DEF Init, NsShape, NsStates
<1>3. OneQuestion
  BY DEF Init, OneQuestion
<1> QED
  BY <1>1, <1>2, <1>3 DEF AccessInv

LEMMA AccessInvStep == AccessInv /\ [Next]_vars => AccessInv'
<1>1. CASE UNCHANGED vars
  BY <1>1 DEF vars, servers, accessVars, AccessInv, AclTyped, NsShape, OneQuestion
<1>2. ASSUME AccessInv, Next PROVE AccessInv'
  BY <1>2, AclStep, ShapeStep, QuestionStep DEF AccessInv
<1> QED
  BY <1>1, <1>2

\* A storage server answers the handler that waits for it: whatever is queued and asked
\* for is what ns waits for (receive_message in the handlers, ns_inbound_thread).
THEOREM AnswersFindTheirHandler == Spec => []AccessInv
<1> QED
  BY AccessInvInit, AccessInvStep, PTL DEF Spec

\* What RightsComeFromOwner says of a step.
FromOwner ==
  \A f \in File, u \in User :
    ns.at # "down" /\ CanRead(acl'[f], u) /\ ~CanRead(acl[f], u)
      =>
      \/ acl[f] = NoEntry /\ u = acl'[f].owner
      \/ ns'.at = "save" /\ Owns(acl[f], ns'.user)
      \/ \E i \in DOMAIN requests :
           /\ Asks(requests[i], f, u) /\ Owns(acl[f], requests[i].owner)
           /\ ~requests'[i].pending

LEMMA ApprovedByOwner ==
  ASSUME AccessInv, NEW v \in User, NEW g \in File, NEW t \in User,
         ApproveRequest(v, g, t)
  PROVE  FromOwner
<1> SUFFICES ASSUME NEW f \in File, NEW u \in User,
                    CanRead(acl'[f], u), ~CanRead(acl[f], u)
             PROVE  \E i \in DOMAIN requests :
                      /\ Asks(requests[i], f, u) /\ Owns(acl[f], requests[i].owner)
                      /\ ~requests'[i].pending
  BY DEF FromOwner
<1>1. acl \in [File -> Entry \cup {NoEntry}] /\ requests \in Seq(AccessRequest)
  BY DEF AccessInv, AclTyped
<1>2. acl' # acl /\ AclAddReader(g, t) /\ Owns(acl[g], v)
  BY DEF ApproveRequest
<1>3. f = g
  BY <1>1, <1>2 DEF AclAddReader
<1>4. u = t
  <2>1. acl[g] \in Entry /\ NoEntry \notin Entry
    BY <1>1, <1>2, NameServerAssumption DEF Owns
  <2>2. acl'[g] = [acl[g] EXCEPT !.readers = @ \cup {t}]
    BY <1>1, <1>2 DEF AclAddReader
  <2>3. /\ acl'[g].owner = acl[g].owner /\ acl'[g].writers = acl[g].writers
        /\ acl'[g].readers = acl[g].readers \cup {t}
    BY <2>1, <2>2 DEF Entry
  <2> QED
    BY <1>3, <2>1, <2>3 DEF CanRead
<1>5. PICK i \in DOMAIN requests :
        /\ Asks(requests[i], g, t) /\ requests[i].owner = v
        /\ requests' = [requests EXCEPT ![i].pending = FALSE]
  BY DEF ApproveRequest, RequestAnswer
<1>6. ~requests'[i].pending
  <2>1. requests[i] \in AccessRequest
    BY <1>1
  <2>2. requests'[i] = [requests[i] EXCEPT !.pending = FALSE]
    BY <1>1, <1>5
  <2> QED
    BY <2>1, <2>2 DEF AccessRequest
<1> QED
  BY <1>2, <1>3, <1>4, <1>5, <1>6

LEMMA FromOwnerStep ==
  ASSUME AccessInv, Next
  PROVE  FromOwner
<1>1. acl \in [File -> Entry \cup {NoEntry}] /\ NsShape
  BY DEF AccessInv, AclTyped
<1>2. CASE UNCHANGED acl
  BY <1>2 DEF FromOwner
<1>3. ASSUME NEW v \in User, NEW g \in File, Sharing(v, g) PROVE FromOwner
  <2>1. ASSUME NEW t \in User, AddAccess(v, g, t) \/ RemAccess(v, g, t) PROVE FromOwner
    <3>1. Owns(acl[g], v) /\ GoSave(v, g)
      BY <2>1 DEF AddAccess, RemAccess
    <3>2. ns'.at = "save" /\ ns'.user = v
      BY <3>1, NsIdleShape DEF GoSave
    <3>3. \A f \in File : f # g => acl'[f] = acl[f]
      BY <1>1, <2>1 DEF AddAccess, RemAccess, AclAddReader, AclAddWriter, AclRemoveAccess
    <3> QED
      BY <3>1, <3>2, <3>3 DEF FromOwner
  <2>2. CASE RequestAccess(v, g) \/ \E t \in User : DenyRequest(v, g, t)
    BY <1>2, <2>2 DEF RequestAccess, DenyRequest
  <2> QED
    BY <1>3, <2>1, <2>2, ApprovedByOwner DEF Sharing
<1>4. CASE CreateRecord
  <2>1. CASE AclAddFile(ns.file, ns.user)
    <3>1. \A f \in File : \/ acl'[f] = acl[f]
                          \/ /\ acl[f] = NoEntry
                             /\ acl'[f] = [owner |-> ns.user, readers |-> {}, writers |-> {}]
      BY <1>1, <2>1 DEF AclAddFile
    <3> QED
      BY <3>1 DEF FromOwner, CanRead
  <2> QED
    BY <1>2, <1>4, <2>1 DEF CreateRecord
<1>5. CASE DeleteRecord
  <2>1. CASE AclRemoveFile(ns.file)
    <3>1. \A f \in File : acl'[f] = acl[f] \/ acl'[f] = NoEntry
      BY <1>1, <2>1 DEF AclRemoveFile
    <3> QED
      BY <3>1 DEF FromOwner, CanRead
  <2> QED
    BY <1>2, <1>5, <2>1 DEF DeleteRecord
<1>6. CASE NsStart
  BY <1>6 DEF NsStart, FromOwner
<1>7. CASE Quiet \/ Asking \/ Replicate \/ PassOn \/ SaveOpen \/ SaveData \/ SaveFails
           \/ NsCrash
  BY <1>2, <1>7 DEF Quiet, Asking, Replicate, PassOn, SaveOpen, SaveData, SaveFails,
                    NsCrash, accessVars
<1>8. ASSUME NEW s \in Server, Serving(s) PROVE FromOwner
  BY <1>2, <1>8 DEF Serving, RegisterServer, ServerGivesUp, ServerDies, Serve, accessVars
<1> QED
  BY <1>1, <1>3, <1>4, <1>5, <1>6, <1>7, <1>8, NextSplit

\* While the name server runs, whoever gets access to a file created it, or got it from
\* its owner by ADDACCESS or by the approval of a request made to that owner.
THEOREM AccessComesFromOwner == Spec => RightsComeFromOwner
<1>1. AccessInv /\ [Next]_vars => [FromOwner]_vars
  BY FromOwnerStep
<1>2. Spec => [][FromOwner]_vars
  BY <1>1, AnswersFindTheirHandler, PTL DEF Spec
<1> QED
  BY <1>2 DEF RightsComeFromOwner, FromOwner

-----------------------------------------------------------------------------
(* The copy on disk.                                                       *)

DiskBelow ==
  \A f \in File, u \in User :
    /\ (CanRead(Loaded(aclDisk[f]), u) => CanRead(acl[f], u))
    /\ (CanWrite(Loaded(aclDisk[f]), u) => CanWrite(acl[f], u))
    /\ (Owns(Loaded(aclDisk[f]), u) => Owns(acl[f], u))

\* DiskGrantsNoMore is about the idle loop. A handler gets back to it from a wait or an
\* answer without a save when it changed nothing, so the disk is below the memory there
\* too; from "save" on it need not be until the save has ended.
DiskInv == ns.at \in {"idle", "wait", "reply", "view", "replicate"} => DiskBelow

LEMMA SavedIsBelow ==
  ASSUME AclTyped, AclSaveData, UNCHANGED acl
  PROVE  DiskBelow'
<1>1. ASSUME NEW f \in File, NEW u \in User
      PROVE  /\ CanRead(Loaded(acl[f]), u) => CanRead(acl[f], u)
             /\ CanWrite(Loaded(acl[f]), u) => CanWrite(acl[f], u)
             /\ Owns(Loaded(acl[f]), u) => Owns(acl[f], u)
  <2>1. acl[f] \in Entry \cup {NoEntry}
    BY DEF AclTyped
  <2> QED
    BY <2>1, LoadedGivesNoMore
<1>2. aclDisk' = acl /\ acl' = acl
  BY DEF AclSaveData
<1> QED
  BY <1>1, <1>2 DEF DiskBelow

LEMMA ApprovalKeepsBelow ==
  ASSUME AclTyped, DiskBelow, UNCHANGED aclDisk,
         NEW v \in User, NEW g \in File, NEW t \in User,
         Owns(acl[g], v), AclAddReader(g, t)
  PROVE  DiskBelow'
<1>1. acl[g] \in Entry /\ NoEntry \notin Entry
  BY NameServerAssumption DEF AclTyped, Owns
<1>2. /\ acl'[g] = [acl[g] EXCEPT !.readers = @ \cup {t}]
      /\ \A f \in File : f # g => acl'[f] = acl[f]
  BY DEF AclAddReader, AclTyped
<1>3. /\ acl'[g].owner = acl[g].owner /\ acl'[g].writers = acl[g].writers
      /\ acl'[g].readers = acl[g].readers \cup {t}
      /\ acl'[g] # NoEntry
  BY <1>1, <1>2 DEF Entry
<1>4. \A u \in User : /\ CanRead(acl[g], u) => CanRead(acl'[g], u)
                      /\ CanWrite(acl[g], u) => CanWrite(acl'[g], u)
                      /\ Owns(acl[g], u) => Owns(acl'[g], u)
  BY <1>3 DEF CanRead, CanWrite, Owns
<1> QED
  BY <1>2, <1>4 DEF DiskBelow

LEMMA DiskStep ==
  ASSUME "savefault" \notin Ops, AccessInv, DiskInv, Next
  PROVE  DiskInv'
<1> DEFINE Settled == ns.at \in {"idle", "wait", "reply", "view", "replicate"}
<1>1. AclTyped /\ NsShape
  BY DEF AccessInv
<1>2. ASSUME Settled, UNCHANGED <<acl, aclDisk>> PROVE DiskInv'
  BY <1>2 DEF DiskInv, DiskBelow
<1>3. CASE Quiet
  BY <1>3 DEF Quiet, accessVars, DiskInv, DiskBelow
<1>4. CASE Asking \/ Replicate \/ PassOn
  BY <1>2, <1>4 DEF Asking, Replicate, PassOn, accessVars
<1>5. ASSUME NEW u \in User, NEW f \in File, Sharing(u, f) PROVE DiskInv'
  <2>1. Settled /\ UNCHANGED aclDisk
    BY <1>5 DEF Sharing, RequestAccess, AddAccess, RemAccess, ApproveRequest,
                DenyRequest, Idle
  <2>2. CASE UNCHANGED acl
    BY <1>2, <2>1, <2>2
  <2>3. CASE GoSave(u, f)
    BY <2>3, NsIdleShape DEF GoSave, DiskInv
  <2>4. ASSUME NEW t \in User, Owns(acl[f], u), AclAddReader(f, t) PROVE DiskInv'
    BY <1>1, <2>1, <2>4, ApprovalKeepsBelow DEF DiskInv
  <2> QED
    BY <1>5, <2>2, <2>3, <2>4
       DEF Sharing, RequestAccess, AddAccess, RemAccess, ApproveRequest, DenyRequest
<1>6. ASSUME NEW s \in Server, Serving(s) PROVE DiskInv'
  <2>1. UNCHANGED <<acl, aclDisk>>
    BY <1>6 DEF Serving, RegisterServer, ServerGivesUp, ServerDies, Serve, accessVars
  <2>2. CASE UNCHANGED ns
    BY <2>1, <2>2 DEF DiskInv, DiskBelow
  <2>3. CASE ~UNCHANGED ns
    <3>1. CASE ServerDies(s)
      BY <1>2, <2>1, <2>3, <3>1 DEF ServerDies
    <3>2. CASE Serve(s)
      <4>1. Head(queue[s]).asked /\ queue[s] # <<>>
        BY <2>3, <3>2 DEF Serve
      <4>2. queue[s] \in Seq(Job)
        BY DEF AccessInv, OneQuestion
      <4>3. 1 \in DOMAIN queue[s] /\ Head(queue[s]) = queue[s][1]
        BY <4>1, <4>2
      <4>4. ns.at = "wait"
        BY <4>1, <4>3 DEF AccessInv, OneQuestion
      <4> QED
        BY <1>2, <2>1, <4>4
    <3> QED
      BY <1>6, <2>3, <3>1, <3>2 DEF Serving, RegisterServer, ServerGivesUp
  <2> QED
    BY <2>2, <2>3
<1>7. CASE CreateRecord \/ DeleteRecord
  <2>1. Settled /\ UNCHANGED aclDisk
    BY <1>7 DEF CreateRecord, DeleteRecord
  <2>2. UNCHANGED acl \/ ns' = [ns EXCEPT !.at = "save"]
    BY <1>7 DEF CreateRecord, CreateGoesOn, DeleteRecord
  <2>3. CASE ns' = [ns EXCEPT !.at = "save"]
    BY <1>1, <2>3 DEF NsShape, DiskInv
  <2> QED
    BY <1>2, <2>1, <2>2, <2>3
<1>8. CASE SaveOpen
  BY <1>1, <1>8 DEF SaveOpen, NsShape, DiskInv
<1>9. CASE SaveData
  BY <1>1, <1>9, SavedIsBelow DEF SaveData, DiskInv
<1>10. CASE SaveFails
  BY <1>10 DEF SaveFails
<1>11. CASE NsCrash
  BY <1>11, NsIdleShape DEF NsCrash, DiskInv
<1>12. CASE NsStart
  BY <1>12 DEF NsStart, AclLoad, DiskInv, DiskBelow
<1> QED
  BY <1>1, <1>3, <1>4, <1>5, <1>6, <1>7, <1>8, <1>9, <1>10, <1>11, <1>12, NextSplit

\* While the disk takes what is written, a restart of the name server gives nobody
\* access that the running one had taken away, wherever it was stopped.
THEOREM DiskNeverGrantsMore ==
  ASSUME "savefault" \notin Ops
  PROVE  Spec => []DiskGrantsNoMore
<1>1. Init => DiskInv
  BY DEF Init, AccessInit, NoAcl, DiskInv, DiskBelow, Loaded, CanRead, CanWrite, Owns
<1>2. AccessInv /\ DiskInv /\ [Next]_vars => DiskInv'
  <2>1. CASE UNCHANGED vars
    BY <2>1 DEF vars, accessVars, DiskInv, DiskBelow
  <2> QED
    BY <2>1, DiskStep
<1>3. DiskInv => DiskGrantsNoMore
  BY DEF DiskInv, DiskBelow, DiskGrantsNoMore
<1> QED
  BY <1>1, <1>2, <1>3, AnswersFindTheirHandler, PTL DEF Spec
=============================================================================
