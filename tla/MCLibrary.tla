----------------------------- MODULE MCLibrary -----------------------------
(***************************************************************************)
(* Model checking of Library.  Identities and contents are only compared   *)
(* for equality, so runs of safety properties may permute them.            *)
(***************************************************************************)
EXTENDS Library, TLC

Symmetric == Permutations(Identity) \cup Permutations(Hash)
=============================================================================
