---------------------------- MODULE NearestServers ----------------------------
(***************************************************************************)
(* get_nearest_server of Mini-Project/Application: reads the server list   *)
(* line by line and keeps the nearest servers in a table ordered by        *)
(* distance.  A slot with an empty url is free.  What sscanf cannot read   *)
(* from a line keeps its value from an earlier one, and the result is      *)
(* inserted all the same: a line with nothing quoted inserts the server    *)
(* before it again, one cut off behind its url has the distance of that    *)
(* server.                                                                 *)
(***************************************************************************)
EXTENDS ServerTable, Sequences, FiniteSets

CONSTANTS
  Distances,            \* the distances from the client to a server
  Origin,               \* its distance to 0, 0, which an empty text reads as
  MaxLines              \* bound: lines of the file

ASSUME NearestAssumption ==
  /\ Distances \subseteq Nat
  /\ Origin \in Distances
  /\ MaxLines \in Nat

VARIABLES
  pos,      \* lines read so far
  parsed,   \* the server in the local buffers url, lat, lon, name, country
  nearest,  \* nearest_servers
  count,    \* the number of lines that start with "<server"
  result,   \* what the function returned, -1 before that
  seen      \* history: the servers inserted, in the order of their lines

nearestVars == <<pos, parsed, nearest, count, result, seen>>

-----------------------------------------------------------------------------
(* A server is known by the line its url was read from; 0 is no url.       *)
Server == [url : Nat, distance : Distances]
NoServer == [url |-> 0, distance |-> Origin]
Free(e) == e.url = 0

NearestInit ==
  /\ pos = 0
  /\ parsed = NoServer
  /\ nearest = [k \in Index |-> NoServer]
  /\ count = 0
  /\ result = -1
  /\ seen = <<>>

(* Mutant: a strict comparison leaves the first of equals in front.        *)
TakesStrictly(s, k) == Free(nearest[k]) \/ s.distance < nearest[k].distance

(* Whether the inner loop takes slot k for server s.                       *)
Takes(s, k) == Free(nearest[k]) \/ s.distance <= nearest[k].distance

(* The slot the loop stops at: the first it takes, none if it takes none.  *)
Place(s) == {k \in Index : /\ Takes(s, k)
                           /\ \A l \in Index : l < k => ~Takes(s, l)}

(* Mutant: the entries behind the slot are overwritten, not moved.         *)
Overwrite(s, k) == [nearest EXCEPT ![k] = s]

(* A free slot is filled; at a taken one the rest moves back by one and    *)
(* the last entry drops out.                                               *)
Insert(s, k) ==
  [l \in Index |->
     IF l < k THEN nearest[l]
     ELSE IF l = k THEN s
     ELSE IF Free(nearest[k]) THEN nearest[l] ELSE nearest[l - 1]]

(* The buffers after a line from which sscanf reads all, the url, nothing. *)
Parse(kind, d) ==
  CASE kind = "whole" -> [url |-> pos + 1, distance |-> d]
    [] kind = "cut"   -> [parsed EXCEPT !.url = pos + 1]
    [] kind = "bare"  -> parsed

(* A line that starts with "<server".                                      *)
ReadServer(s) ==
  /\ result = -1 /\ pos < MaxLines
  /\ pos' = pos + 1
  /\ parsed' = s
  /\ count' = count + 1
  /\ seen' = IF Free(s) THEN seen ELSE Append(seen, s)
  /\ \/ \E k \in Place(s) : nearest' = Insert(s, k)
     \/ Place(s) = {} /\ UNCHANGED nearest
  /\ UNCHANGED result

(* Any other line.                                                         *)
ReadOther ==
  /\ result = -1 /\ pos < MaxLines
  /\ pos' = pos + 1
  /\ UNCHANGED <<parsed, nearest, count, result, seen>>

(* The end of the file; one that cannot be opened is like an empty one.    *)
Return ==
  /\ result = -1
  /\ result' = IF count > 0 THEN 1 ELSE 0
  /\ UNCHANGED <<pos, parsed, nearest, count, seen>>

ReadLine ==
  \/ \E kind \in {"whole", "cut", "bare"}, d \in Distances :
       ReadServer(Parse(kind, d))
  \/ ReadOther

NearestNext == ReadLine \/ Return

NearestSpec == NearestInit /\ [][NearestNext]_nearestVars

-----------------------------------------------------------------------------
(* Type invariant.                                                         *)
NearestTypeOK ==
  /\ pos \in Nat
  /\ parsed \in Server
  /\ nearest \in [Index -> Server]
  /\ count \in 0 .. pos
  /\ result \in -1 .. 1
  /\ seen \in Seq(Server)

(* The table is in order of distance, its free slots at the end: the inner *)
(* loop relies on it, and get_best_server takes the slots in this order.   *)
Sorted ==
  \A k, l \in Index : k < l /\ ~Free(nearest[l]) =>
    /\ ~Free(nearest[k])
    /\ nearest[k].distance <= nearest[l].distance

(* A server that was read and is not in the table has been crowded out: no *)
(* slot is free, and nobody in the table is farther away than it is.       *)
NoneNearerDropped ==
  \A m \in DOMAIN seen :
    \/ \E k \in Index : nearest[k] = seen[m]
    \/ \A k \in Index : /\ ~Free(nearest[k])
                        /\ nearest[k].distance <= seen[m].distance

(* The table read off its definition: slot k holds the server that exactly *)
(* k servers precede, the nearer first, and of equals the later read.      *)
Precedes(m, n) ==
  \/ seen[m].distance < seen[n].distance
  \/ seen[m].distance = seen[n].distance /\ m > n
Rank(n) == Cardinality({m \in DOMAIN seen : Precedes(m, n)})
HoldsTheNearest ==
  \A n \in DOMAIN seen :
    Rank(n) < NEAREST_SERVERS_NUM => nearest[Rank(n)] = seen[n]
=============================================================================
