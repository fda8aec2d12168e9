---------------------------- MODULE MCNameServer ----------------------------
(* Instances of NameServer for TLC: the configurations give its constants  *)
(* model values.                                                           *)
EXTENDS NameServer

\* The storage servers differ by what happens to them only: their order is that of
\* the registry, and no CHOOSE picks one.
ServerSymmetry == Permutations(Server)
=============================================================================
