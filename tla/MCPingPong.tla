------------------------------ MODULE MCPingPong ------------------------------
(* The program's limit, and every last line up to two past it.             *)
EXTENDS PingPong
Lines == 0 .. 17
=============================================================================
