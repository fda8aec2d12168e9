---------------------------- MODULE SentenceLease ---------------------------
(***************************************************************************)
(* What storage_server/sentence_lock.h promises: "Prevents two clients     *)
(* from modifying the same sentence simultaneously". A sentence is held by *)
(* one client or by nobody, and passes from one client to another only     *)
(* through a moment at which nobody holds it.                              *)
(***************************************************************************)
CONSTANTS Client, Key, Nobody

VARIABLE holder

Init == holder = [k \in Key |-> Nobody]

\* A client takes a sentence nobody holds, or renews its own hold.
Take(k, c) == /\ holder[k] \in {Nobody, c}
              /\ holder' = [holder EXCEPT ![k] = c]

\* Sentences become free: given back, run out, or lost with the server.
Free(K) == holder' = [k \in Key |-> IF k \in K THEN Nobody ELSE holder[k]]

Next == \/ \E k \in Key, c \in Client : Take(k, c)
        \/ \E K \in SUBSET Key : Free(K)

Spec == Init /\ [][Next]_holder
=============================================================================
