--------------------------- MODULE MCSpeedtestPool ---------------------------
(***************************************************************************)
(* Small instances of the worker pool for TLC: every constant is given in  *)
(* the configuration.                                                      *)
(***************************************************************************)
EXTENDS SpeedtestPool
=============================================================================
