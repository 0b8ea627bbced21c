----------------------------- MODULE MCRefPool -----------------------------
(***************************************************************************)
(* A small instance of Ref's worker pool for TLC; see the configuration.   *)
(***************************************************************************)
EXTENDS RefPool
=============================================================================
