------------------------------ MODULE TicketLog ------------------------------
(***************************************************************************)
(* What the threads of 04-IPC-Synchronization/01 do together: tickets are  *)
(* drawn from one counter, and every ticket is written to one of the       *)
(* files in the step that draws it.  Each file is then in ticket order.    *)
(***************************************************************************)
EXTENDS Naturals, Sequences

CONSTANT Files

VARIABLES
  glob,  \* the last ticket drawn
  file   \* per file: the tickets written to it

vars == <<glob, file>>

Init ==
  /\ glob = 0
  /\ file = [f \in Files |-> <<>>]

Next ==
  \E f \in Files :
    /\ glob' = glob + 1
    /\ file' = [file EXCEPT ![f] = Append(@, glob + 1)]

Spec == Init /\ [][Next]_vars
=============================================================================
