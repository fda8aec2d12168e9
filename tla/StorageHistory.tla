--------------------------- MODULE StorageHistory ---------------------------
(***************************************************************************)
(* A storage server with what its users remember: the text of each         *)
(* document as the last acknowledged request left it, the text a request   *)
(* in progress is about to give it, and the text before the last edit. The *)
(* history only watches the server; it survives a crash.                   *)
(***************************************************************************)
EXTENDS StorageServer

VARIABLES acked,    \* the text after the last request that was answered
          pending,  \* the text a commit, an UNDO or a REVERT under way will leave
          before    \* the text just before the last committed edit

history == <<acked, pending, before>>
historyVars == <<vars, history>>

HistoryInit == Init /\ acked = files /\ pending = files /\ before = files

\* A request is about to give f the text t ...
Begins(f, t) == pending' = [pending EXCEPT ![f] = t] /\ UNCHANGED <<acked, before>>
\* ... and is answered.
Answered(f, t) == /\ acked' = [acked EXCEPT ![f] = t]
                  /\ pending' = [pending EXCEPT ![f] = t]
                  /\ UNCHANGED before

\* A commit on f has been computed and has not reached the file yet.
CommitDue(f) == ct.at \in {"commit_write", "commit_rename"} /\ session.key[1] = f

\* The name server's thread created, deleted or moved files and answered.
NsAnswered ==
  /\ acked' = [f \in Name |-> IF files'[f] # files[f] THEN files'[f] ELSE acked[f]]
  /\ pending' = [f \in Name |-> IF files'[f] # files[f] /\ ~CommitDue(f)
                                THEN files'[f] ELSE pending[f]]
  /\ UNCHANGED before

\* What the users learn from a step of the server.
Watch ==
  LET from(l) == ct.at = l
      to(l) == ct'.at = l
      f == session.key[1]
  IN CASE from("loop") /\ to("commit_write") -> Begins(f, ct'.text)
       [] from("commit_rename") /\ to("commit_release") ->
            /\ before' = [before EXCEPT ![f] = files[f]]
            /\ UNCHANGED <<acked, pending>>
       [] from("commit_reply") /\ to("accept") -> Answered(f, pending[f])
       [] from("commit_write") /\ to("accept") -> Answered(f, acked[f])
       [] from("rewrite_open") /\ to("rewrite_data") -> Begins(ct.key[1], ct.text)
       [] from("rewrite_data") /\ to("accept") ->
            IF Len(fd) = 1 THEN Answered(fd[1], ct.text) ELSE UNCHANGED history
       [] from("down") /\ to("accept") ->
            acked' = files /\ pending' = files /\ UNCHANGED before
       [] nt.at = "accept" /\ to(ct.at) /\ files' # files -> NsAnswered
       [] OTHER -> UNCHANGED history

HistoryNext == Next /\ Watch

HistorySpec == HistoryInit /\ [][HistoryNext]_historyVars

-----------------------------------------------------------------------------
\* Whatever happens to the process, and between requests, a document is what the
\* last acknowledged request made it, or what a request cut short was making of it;
\* never a part of either (storage_server.c:576-598, "Write atomically using temp
\* file"; README.md:159, "All files and ACL data survive restarts").
DocumentsSurvive ==
  ct.at \in {"down", "accept"} => \A f \in Doc : files[f] \in {acked[f], pending[f]}

\* Once a document has been edited, what UNDO would restore is the text before the
\* most recent edit (README.md:40, "Instantly revert your most recent edit to a file").
UndoIsLastEdit ==
  ct.at = "accept" =>
    \A f \in Doc : (undo[f] # NoFile /\ before[f] # NoFile) => undo[f] = before[f]

\* An edit leaves the rest of the file as it was: the commit changes only the
\* sentence its client locked (README.md:28, "safely edit the exact same document at
\* the same time without overwriting each other's changes").
EditKeepsOtherSentences ==
  ct.at = "commit_release" =>
    LET f == session.key[1] IN
      files[f] = Splice(before[f], session.key[2], session.words)
=============================================================================
