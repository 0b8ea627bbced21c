------------------------------ MODULE ServerTable ------------------------------
(***************************************************************************)
(* The table get_nearest_server fills and get_best_server works on, in     *)
(* both speed tests: what their models share.                              *)
(***************************************************************************)
EXTENDS Integers

CONSTANT
  NEAREST_SERVERS_NUM  \* slots of the table (Application: 10, Ref: 5)

ASSUME TableAssumption == NEAREST_SERVERS_NUM \in Nat \ {0}

Index == 0 .. NEAREST_SERVERS_NUM - 1
=============================================================================
