----------------------------- MODULE MCSessions -----------------------------
(* Module Sessions with two identities; tokens, requests and PINs are       *)
(* interchangeable.                                                         *)
EXTENDS Sessions, TLC

Symmetry == Permutations(Token) \cup Permutations(Conn) \cup Permutations(PIN)
=============================================================================
