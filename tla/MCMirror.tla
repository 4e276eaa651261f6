------------------------------ MODULE MCMirror ------------------------------
(* Module Mirror on small galleries; kinds of items need not be told apart. *)
EXTENDS Mirror, TLC
=============================================================================
