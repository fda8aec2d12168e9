---------------------------- MODULE AccessControl ----------------------------
(***************************************************************************)
(* The access control list of the name server (nameserver/acl.c), its copy *)
(* on disk (acl_data.db), and the access requests (access_requests.c).     *)
(*                                                                         *)
(* This module has their state and their operations; NameServer has the    *)
(* handlers that call them. acl_save is three steps, so that a crash may   *)
(* come between any two of them.                                           *)
(***************************************************************************)
EXTENDS Naturals, Sequences, FiniteSets

CONSTANTS
  File,
  User,
  NoEntry,      \* the file has no access control entry
  AclMaxUsers,  \* ACL_MAX_USERS, per list
  MaxRequests   \* the size of RequestTable

ASSUME AccessAssumption ==
  File # {} /\ User # {} /\ AclMaxUsers \in Nat /\ MaxRequests \in Nat

VARIABLES
  acl,          \* acl_table
  aclDisk,      \* acl_data.db
  requests      \* global_request_table

accessVars == <<acl, aclDisk, requests>>

\* AclEntry. The order of the names in a list is of no consequence.
Entry == [owner : User, readers : SUBSET User, writers : SUBSET User]
NoAcl == [f \in File |-> NoEntry]

AccessRequest == [file : File, requester : User, owner : User, pending : BOOLEAN]

AccessTypeOK ==
  /\ acl \in [File -> Entry \cup {NoEntry}]
  /\ aclDisk \in [File -> Entry \cup {NoEntry}]
  /\ requests \in Seq(AccessRequest)
  /\ Len(requests) <= MaxRequests

AccessInit == acl = NoAcl /\ aclDisk = NoAcl /\ requests = <<>>

-----------------------------------------------------------------------------
(* acl.c                                                                   *)

\* acl_check_owner, acl_check_write, acl_check_read: on an entry or NoEntry
Owns(e, u) == e # NoEntry /\ u = e.owner
CanWrite(e, u) == e # NoEntry /\ u \in {e.owner} \cup e.writers
CanRead(e, u) == e # NoEntry /\ u \in {e.owner} \cup e.readers \cup e.writers

\* acl_add_file
AclAddFile(f, u) ==
  /\ acl[f] = NoEntry
  /\ acl' = [acl EXCEPT ![f] = [owner |-> u, readers |-> {}, writers |-> {}]]

\* add_to_list answers -1 when the list is full and the name is not in it.
Fits(list, u) == u \in list \/ Cardinality(list) < AclMaxUsers

\* acl_add_access. Write access goes to the list of writers alone.
AclAddReader(f, u) ==
  /\ Fits(acl[f].readers, u)
  /\ acl' = [acl EXCEPT ![f].readers = @ \cup {u}]

AclAddWriter(f, u) ==
  /\ Fits(acl[f].writers, u)
  /\ acl' = [acl EXCEPT ![f].writers = @ \cup {u}]

\* acl_remove_access
AclRemoveAccess(f, u) ==
  /\ u \in acl[f].readers \cup acl[f].writers
  /\ acl' = [acl EXCEPT ![f].readers = @ \ {u}, ![f].writers = @ \ {u}]

\* acl_remove_file
AclRemoveFile(f) ==
  /\ acl[f] # NoEntry
  /\ acl' = [acl EXCEPT ![f] = NoEntry]

\* acl_save: fopen with "w" empties the file ...
AclSaveOpen == aclDisk' = NoAcl

\* ... and the entries are written from memory and flushed.
AclSaveData == aclDisk' = acl

\* A crash or a full disk while they are written leaves some of them.
AclSavePart == \E kept \in SUBSET File :
                 aclDisk' = [f \in File |-> IF f \in kept THEN acl[f] ELSE NoEntry]

\* What sscanf makes of a line: the conversion of an empty list of readers fails, and
\* the list of writers after it is not looked at.
Loaded(e) ==
  IF e = NoEntry \/ e.readers # {} THEN e
  ELSE [owner |-> e.owner, readers |-> {}, writers |-> {}]

\* acl_load into an empty table
AclLoad == acl' = [f \in File |-> Loaded(aclDisk[f])]

-----------------------------------------------------------------------------
(* access_requests.c. An answered request keeps its place in the table.    *)

Asks(r, f, u) == r.pending /\ r.file = f /\ r.requester = u

\* A request_add that does not look for the end of the table.
RequestAddAnyway(f, u, owner) ==
  /\ \A i \in DOMAIN requests : ~Asks(requests[i], f, u)
  /\ requests' = Append(requests, [file |-> f, requester |-> u, owner |-> owner,
                                   pending |-> TRUE])

\* request_add
RequestAdd(f, u, owner) ==
  /\ Len(requests) < MaxRequests
  /\ \A i \in DOMAIN requests : ~Asks(requests[i], f, u)
  /\ requests' = Append(requests, [file |-> f, requester |-> u, owner |-> owner,
                                   pending |-> TRUE])

\* A request_approve that does not compare the owner.
AnswerWhoeverOwned(f, u, owner) ==
  LET fits == {i \in DOMAIN requests : Asks(requests[i], f, u)}
  IN \E i \in fits : /\ \A j \in fits : i <= j
                     /\ requests' = [requests EXCEPT ![i].pending = FALSE]

\* request_approve and request_deny: the first one that fits is no longer pending.
RequestAnswer(f, u, owner) ==
  LET fits == {i \in DOMAIN requests : Asks(requests[i], f, u) /\ requests[i].owner = owner}
  IN \E i \in fits : /\ \A j \in fits : i <= j
                     /\ requests' = [requests EXCEPT ![i].pending = FALSE]

==============================================================================
