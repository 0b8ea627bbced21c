------------------------------ MODULE BestServer ------------------------------
(***************************************************************************)
(* get_best_server of Mini-Project/Application: fetches latency.txt from   *)
(* each of the nearest servers in turn and chooses the one that answered   *)
(* first.  The answers go through one file, /tmp/latency.txt, and one      *)
(* local buffer, line.  fgets on an empty file leaves line as it is; when  *)
(* a name does not resolve, the times of the server before are in tv1 and  *)
(* tv2; a fetch that fails early leaves the file as it is.                 *)
(***************************************************************************)
EXTENDS ServerTable

CONSTANTS
  Times,                \* the times a fetch can take
  Garbage               \* what tv2 - tv1 can be before both are set

ASSUME BestAssumption ==
  /\ Times \subseteq Nat
  /\ Garbage \subseteq Int

VARIABLES
  stage,    \* where the function is in its round
  i,        \* the loop variable
  filled,   \* the table's servers; the slots behind them have no url
  file,     \* /tmp/latency.txt
  line,     \* the local buffer
  elapsed,  \* tv2 - tv1
  latency,  \* nearest_servers[i].latency
  resolved, \* the slots whose servinfo is set
  best,     \* best_index
  low,      \* the local variable latency
  leftover, \* history: the file a former run left behind
  answered  \* history: the servers that sent the right content

bestVars == <<stage, i, filled, file, line, elapsed, latency, resolved, best, low,
          leftover, answered>>

-----------------------------------------------------------------------------
Stages == {"idle", "resolve", "fetch", "read", "select", "done"}

(* What the file starts with: "test=test", something else, or nothing.     *)
Contents == {"good", "bad", "empty"}

BestInit ==
  /\ stage = "idle" /\ i = 0 /\ filled = 0
  /\ file \in Contents \union {"absent"}
  /\ leftover = file
  /\ line = "empty"
  /\ elapsed \in Garbage
  /\ latency = [k \in Index |-> 0]
  /\ resolved = {} /\ answered = {}
  /\ best = -1 /\ low = 0

(* The call, with n servers at the head of the table.                      *)
get_best_server(n) ==
  /\ stage = "idle"
  /\ stage' = "resolve" /\ filled' = n
  /\ UNCHANGED <<i, file, line, elapsed, latency, resolved, best, low,
                 leftover, answered>>

(* get_ipv4_addr: an empty name never resolves.                            *)
get_ipv4_addr ==
  /\ stage = "resolve"
  /\ \/ i < filled /\ stage' = "fetch" /\ resolved' = resolved \union {i}
     \/ stage' = "read" /\ UNCHANGED resolved
  /\ UNCHANGED <<i, filled, file, line, elapsed, latency, best, low,
                 leftover, answered>>

(* get_http_file or get_https_file, whose result is not looked at: it may  *)
(* fail before or after it truncates the file.                             *)
get_file ==
  /\ stage = "fetch"
  /\ stage' = "read"
  /\ \E t \in Times : elapsed' = t
  /\ \/ UNCHANGED <<file, answered>>
     \/ \E c \in Contents :
          /\ file' = c
          /\ answered' = IF c = "good" THEN answered \union {i} ELSE answered
  /\ UNCHANGED <<i, filled, line, latency, resolved, best, low, leftover>>

(* Mutant: any content will do.                                            *)
MeasureAny(text) == IF file = "absent" THEN -1 ELSE elapsed

(* Mutant: without a file the latency is left as it was.                   *)
MeasureOrKeep(text) ==
  IF file = "absent" THEN latency[i] ELSE IF text = "good" THEN elapsed ELSE -1

(* The latency entered for server i, with text in line.                    *)
Measure(text) == IF file # "absent" /\ text = "good" THEN elapsed ELSE -1

(* The file after it was read.                                             *)
unlink == "absent"

(* After the last server the loop variable starts again.                   *)
NextServer ==
  IF i + 1 < NEAREST_SERVERS_NUM
  THEN i' = i + 1 /\ stage' = "resolve"
  ELSE i' = 0 /\ stage' = "select"

ReadFile ==
  /\ stage = "read"
  /\ LET text == IF file \in {"absent", "empty"} THEN line ELSE file IN
     /\ line' = text
     /\ latency' = [latency EXCEPT ![i] = Measure(text)]
  /\ file' = unlink
  /\ NextServer
  /\ UNCHANGED <<filled, elapsed, resolved, best, low, leftover, answered>>

(* Mutant: a server that did not answer, at -1, beats those that did.      *)
BeatsAll == latency[i] < low

(* Mutant: the last of equals is chosen.                                   *)
BeatsEqual == latency[i] <= low /\ latency[i] # -1

(* Whether server i, not the first, is better than the best so far.        *)
Beats == latency[i] < low /\ latency[i] # -1

Select ==
  /\ stage = "select"
  /\ IF i = 0 \/ Beats
     THEN best' = i /\ low' = latency[i]
     ELSE UNCHANGED <<best, low>>
  /\ IF i + 1 < NEAREST_SERVERS_NUM
     THEN i' = i + 1 /\ UNCHANGED stage
     ELSE UNCHANGED i /\ stage' = "done"
  /\ UNCHANGED <<filled, file, line, elapsed, latency, resolved, leftover,
                 answered>>

Round == get_ipv4_addr \/ get_file \/ ReadFile \/ Select

BestNext == Round \/ \E n \in 0 .. NEAREST_SERVERS_NUM : get_best_server(n)

BestSpec == BestInit /\ [][BestNext]_bestVars

-----------------------------------------------------------------------------
(* Type invariant.                                                         *)
BestTypeOK ==
  /\ stage \in Stages /\ i \in Index
  /\ filled \in 0 .. NEAREST_SERVERS_NUM
  /\ {file, leftover} \subseteq Contents \union {"absent"}
  /\ line \in Contents
  /\ elapsed \in Int
  /\ latency \in [Index -> Int]
  /\ resolved \subseteq Index /\ answered \subseteq resolved
  /\ best \in -1 .. NEAREST_SERVERS_NUM - 1 /\ low \in Int

(* The servers whose latency has been entered.                             *)
Tried == IF stage \in {"select", "done"} THEN Index ELSE 0 .. i - 1

(* A server has a latency only if it or a server before it sent the right  *)
(* content, or a former run left a file with it: an empty answer inherits  *)
(* the line of the server before.                                          *)
CountedAfterAnAnswer ==
  \A k \in Tried : latency[k] # -1 =>
    leftover = "good" \/ \E j \in answered : j <= k

(* No server is measured by the file of the one before it.                 *)
NoStaleFile == stage = "resolve" /\ i > 0 => file = "absent"

(* If the first server has a latency, nobody in the table has a lower one  *)
(* than the server chosen, nor the same one in a slot before it.           *)
FastestOfCounted ==
  stage = "done" /\ latency[0] # -1 =>
    /\ latency[best] # -1
    /\ \A k \in Index : latency[k] # -1 =>
         \/ latency[best] < latency[k]
         \/ latency[best] = latency[k] /\ best <= k

(* The measurements connect to the server chosen: it has an address unless *)
(* it is the first, which is also what is chosen if it cannot be measured. *)
ChosenHasAddress == stage = "done" /\ best # 0 => best \in resolved

(* What the comment on the last loop promises: if some server sent the     *)
(* right content, one with the lowest latency of those is chosen.          *)
SelectsLowLatency ==
  stage = "done" /\ answered # {} =>
    /\ latency[best] # -1
    /\ \A k \in answered : latency[best] <= latency[k]
=============================================================================
