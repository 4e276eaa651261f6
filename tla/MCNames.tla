------------------------------ MODULE MCNames ------------------------------
(* Module Names with one name in two spellings; contents are only compared. *)
EXTENDS Names, TLC

MCStem == {"x", "X"}
MCLower == [s \in MCStem |-> "x"]

Symmetric == Permutations(Hash)
=============================================================================
