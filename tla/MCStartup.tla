----------------------------- MODULE MCStartup -----------------------------
(* Module Startup on small libraries. *)
EXTENDS Startup, TLC
=============================================================================
