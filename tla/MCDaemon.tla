------------------------------- MODULE MCDaemon -------------------------------
(* Two entries, two users, one of them without an account.                 *)
EXTENDS Daemon
MCOpenMaxs == {-1, 4, 6}
=============================================================================
