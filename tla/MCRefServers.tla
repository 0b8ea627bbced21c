---------------------------- MODULE MCRefServers ----------------------------
(* Three slots, two distances, four lines; times read before they are set. *)
EXTENDS RefServers

MCGarbage == {-1, 2}
=============================================================================
