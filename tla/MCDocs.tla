------------------------------- MODULE MCDocs -------------------------------
(* Instances of Docs for TLC. *)
EXTENDS Docs

CONSTANTS alice, bob

\* alice owns the document, so that bob's READ is refused; he searches and lists.
Typed == alice :> {CmdCreate, CmdStream, CmdWrite} @@ bob :> {CmdRead, CmdSearch, CmdViewLong}
=============================================================================
