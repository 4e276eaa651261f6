------------------------------ MODULE MCNodes ------------------------------
(* Module Nodes with more requests than slots. *)
EXTENDS Nodes, TLC
=============================================================================
