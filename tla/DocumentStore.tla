---------------------------- MODULE DocumentStore ---------------------------
(***************************************************************************)
(* What README.md:28 promises of documents that users create and edit:     *)
(* "safely edit the exact same document at the same time without           *)
(* overwriting each other's changes". A document starts empty. From then   *)
(* on each change puts what one user typed in the place of one sentence of *)
(* the text the document has at that moment, at once and entirely, and it  *)
(* never goes away.                                                        *)
(***************************************************************************)
EXTENDS SentenceParser

CONSTANTS Doc, NoDoc

VARIABLE docs

Init == docs = [f \in Doc |-> NoDoc]

Create(f) == /\ docs[f] = NoDoc
             /\ docs' = [docs EXCEPT ![f] = <<>>]

\* u is t with some text in the place of sentence n, or after the last sentence.
Replaces(t, u, n) ==
  LET next == IF n < Len(SentenceEnds(t)) THEN EndOf(t, n + 1) ELSE Len(t)
  IN \E k \in EndOf(t, n) .. Len(u) :
       u = SubSeq(t, 1, EndOf(t, n)) \o SubSeq(u, EndOf(t, n) + 1, k)
             \o SubSeq(t, next + 1, Len(t))

Edit(f) == /\ docs[f] # NoDoc
           /\ \E n \in 0 .. Len(SentenceEnds(docs[f])) : Replaces(docs[f], docs'[f], n)
           /\ docs' = [docs EXCEPT ![f] = docs'[f]]

Next == \E f \in Doc : Create(f) \/ Edit(f)

Spec == Init /\ [][Next]_docs
=============================================================================
