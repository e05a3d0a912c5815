--------------------------- MODULE MCServerEvents ---------------------------
(***************************************************************************)
(* Instances of ServerEvents for TLC.                                      *)
(***************************************************************************)
EXTENDS ServerEvents

Symmetry == Permutations(DocId) \cup Permutations(Value)
=============================================================================
