------------------------------- MODULE MCFeed -------------------------------
(* Module Feed with a photo, an album or two, and a log of a few entries. *)
EXTENDS Feed
=============================================================================
