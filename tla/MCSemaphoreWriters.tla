-------------------------- MODULE MCSemaphoreWriters --------------------------
(* Three threads, as in config.h, two rounds each, and files that are      *)
(* empty or hold a number that this run draws too, as the shipped ones do. *)
EXTENDS SemaphoreWriters

EmptyOrNot == {<<>>, <<2>>}
=============================================================================
