------------------------------ MODULE RefServers ------------------------------
(***************************************************************************)
(* Mini-Project/Ref from the start of main() to the measurement: two       *)
(* files are fetched, the table of servers is read from one of them        *)
(* (NearestServers) and the best of the table is chosen (BestServer).      *)
(* Both functions are those of Application, line for line, but for the     *)
(* fclose that Ref's get_nearest_server lacks; they are composed here.     *)
(***************************************************************************)
EXTENDS NearestServers, BestServer

VARIABLES
  step,  \* where main() is
  list   \* the file of servers in /tmp

vars == <<nearestVars, bestVars, step, list>>

-----------------------------------------------------------------------------
Steps == {"config", "list", "nearest", "best", "measure", "stopped"}

(* A file can be there from an earlier run, or be cut off by a failure.    *)
Files == {"absent", "old", "new", "broken"}

Init ==
  /\ NearestInit /\ BestInit
  /\ step = "config"
  /\ list \in {"absent", "old"}

(* Mutant: the failure of recv is not a failure of the fetch.              *)
BrokenIsGood(old) ==
  {[ok |-> FALSE, file |-> old], [ok |-> TRUE, file |-> "broken"],
   [ok |-> TRUE, file |-> "new"]}

(* Every failure returns 0: before the file is opened, or when recv fails  *)
(* behind it.  (What is lost when select times out is a matter of the      *)
(* file's lines, which are arbitrary anyway.)                              *)
get_http_file(old) ==
  {[ok |-> FALSE, file |-> old], [ok |-> FALSE, file |-> "broken"],
   [ok |-> TRUE, file |-> "new"]}

(* What a fetch can leave behind, and where main() goes: a name that does  *)
(* not resolve is passed over, a failed fetch ends the program.            *)
Fetched(old, next) ==
  {[file |-> old, step |-> next]} \union
  {[file |-> r.file, step |-> IF r.ok THEN next ELSE "stopped"] :
     r \in get_http_file(old)}

(* The client's own file only gives it a position, 0, 0 without it.        *)
FetchConfig ==
  /\ step = "config"
  /\ \E r \in Fetched("old", "list") : step' = r.step
  /\ UNCHANGED <<nearestVars, bestVars, list>>

FetchList ==
  /\ step = "list"
  /\ \E r \in Fetched(list, "nearest") : list' = r.file /\ step' = r.step
  /\ UNCHANGED <<nearestVars, bestVars>>

get_nearest_server ==
  /\ step = "nearest"
  /\ \/ list # "absent" /\ ReadLine /\ UNCHANGED step
     \/ Return /\ step' = IF result' = 0 THEN "stopped" ELSE "best"
  /\ UNCHANGED <<bestVars, list>>

(* Mutant: every slot of the table is taken for a server.                  *)
AllSlots == NEAREST_SERVERS_NUM

(* The servers in the table, which are at its head.                        *)
Found == Cardinality({k \in Index : ~Free(nearest[k])})

CallBest ==
  /\ step = "best"
  /\ get_best_server(Found)
  /\ UNCHANGED <<nearestVars, step, list>>

RunBest ==
  /\ step = "best"
  /\ Round
  /\ step' = IF stage' = "done" THEN "measure" ELSE step
  /\ UNCHANGED <<nearestVars, list>>

Next ==
  FetchConfig \/ FetchList \/ get_nearest_server \/ CallBest \/ RunBest

Spec == Init /\ [][Next]_vars

-----------------------------------------------------------------------------
(* Type invariant of the composition.                                      *)
TypeOK ==
  /\ NearestTypeOK /\ BestTypeOK
  /\ step \in Steps /\ list \in Files

(* The measurement is made with a server of the list, and not on a list    *)
(* whose fetch broke off in this run; the exception is a list none of      *)
(* whose lines has a url, since get_nearest_server counts lines, not       *)
(* servers.                                                                *)
MeasuresAListedServer ==
  step = "measure" =>
    /\ list \in {"old", "new"}
    /\ seen # <<>> => \E m \in DOMAIN seen : nearest[best] = seen[m]

(* Of the servers with the lowest latency the nearest is chosen, if the    *)
(* first of the table was measured: the table is in order of distance, and *)
(* the last loop keeps the first of equals.                                *)
NearestOfFastest ==
  step = "measure" /\ latency[0] # -1 =>
    \A k \in Index :
      latency[k] = latency[best] /\ ~Free(nearest[k]) /\ ~Free(nearest[best]) =>
        nearest[best].distance <= nearest[k].distance
=============================================================================
