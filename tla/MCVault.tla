------------------------------ MODULE MCVault ------------------------------
(* Module Vault on two contents, of which a thumbnail can be made of the    *)
(* first (a video has none), and requests that are interchangeable.         *)
EXTENDS Vault, TLC

CONSTANTS h1, h2

MCHash == {h1, h2}
MCImage == {h1}
Symmetry == Permutations(Job)
=============================================================================
