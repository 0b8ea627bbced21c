---------------------------- MODULE PingPongProofs ----------------------------
(***************************************************************************)
(* Parent and child take strict turns, and a file that starts below the    *)
(* limit at an even number stops at it, for every odd limit.               *)
(***************************************************************************)
EXTENDS PingPong, Integers, TLAPS

(***************************************************************************)
(* The inductive invariant.  There is one turn, and it is in one place: at *)
(* the process that reads, writes and tells; in a signal on its way; or in *)
(* the flag of a process that has not looked at it since.  (The flag of a  *)
(* process that is about to clear it is no turn: a turn that came by then  *)
(* is lost.)                                                               *)
(***************************************************************************)
(* Where the turn is used, and where it is handed over.                    *)
Before == {"read first", "write first", "read", "limit", "write"}
Telling == {"kill first", "kill"}

(* The flag counts until it has been looked at.                            *)
Flagged(p) == received_sig[p] /\ pc[p] \in {"pause", "paused", "test"}

HasTurn(p) == pc[p] \in Before \union Telling \/ pending[p] \/ Flagged(p)

OneTurn ==
  /\ \A p, q \in Processes : HasTurn(p) /\ HasTurn(q) => p = q
  /\ \A p \in Processes :
       /\ pc[p] \in Before \union Telling => ~pending[p]
       /\ ~(pending[p] /\ Flagged(p))

(* Before the fork and until the parent has written, nobody was told.      *)
Start ==
  /\ pc["child"] \notin {"fork", "read first", "write first", "kill first"}
  /\ pc["parent"] \notin {"unborn", "limit"}
  /\ pc["child"] = "unborn" => pc["parent"] \in {"fork", "done"}
  /\ pc["parent"] = "fork" => pc["child"] = "unborn"
  /\ \A p \in Processes :
       pc[p] \in {"fork", "unborn", "read first", "write first", "kill first"} =>
         ~received_sig[p] /\ ~pending[p]
  /\ pc["parent"] = "fork" => last = first

(* Whose turn it is shows in the parity of the lines, and the number about *)
(* to be written is the next one.                                          *)
Parity ==
  \A p \in Processes :
    /\ HasTurn(p) /\ pc[p] \notin Telling => Turn = p
    /\ pc[p] \in Telling => Turn # p
    /\ pc[p] \in {"write first", "write"} => counter[p] = last + 1
    /\ pc[p] = "limit" => counter[p] = last

(* The child that has ended took the turn with it.                         *)
Ended == At("child", "done") => last = LIMIT /\ \A p \in Processes : ~HasTurn(p)

PingInv == TypeOK /\ first <= last /\ last <= MaxLine /\ OneTurn /\ Start /\ Parity /\ Ended

(* The child never writes past the limit, and the parent never at it.      *)
LimitInv ==
  /\ At("child", "write") => last # LIMIT
  /\ StopsAtLimit

USE DEF At, Goto

-----------------------------------------------------------------------------
(* There are two processes, each the other's peer.                         *)
LEMMA Peers ==
  /\ Peer("parent") = "child" /\ Peer("child") = "parent"
  /\ \A p \in Processes : Peer(p) \in Processes /\ Peer(p) # p
  /\ \A p, q \in Processes : q # p => q = Peer(p)
<1>1. \A p \in Processes : \E q \in Processes : q # p
  BY DEF Processes
<1>2. \A p \in Processes : Peer(p) \in Processes /\ Peer(p) # p
  BY <1>1 DEF Peer
<1> QED BY <1>2 DEF Processes

(* The turn goes to the other with every line.                             *)
LEMMA TurnFlips ==
  ASSUME TypeOK, first <= last
  PROVE  /\ Turn \in Processes
         /\ last' = last + 1 /\ first' = first => Turn' \in Processes \ {Turn}
         /\ UNCHANGED <<last, first>> => Turn' = Turn
<1>1. last \in Int /\ first \in Int
  BY PingPongAssumption DEF PingPongAssumption, TypeOK
<1>2. ((last - first) % 2 = 0) <=> ((last + 1 - first) % 2 # 0)
  BY <1>1
<1>3. Turn \in Processes
  BY DEF Turn, Processes
<1>4. ASSUME last' = last + 1, first' = first
      PROVE  Turn' \in Processes \ {Turn}
  <2>1. Turn' = IF (last + 1 - first) % 2 = 0 THEN "parent" ELSE "child"
    <3>1. last' - first' = last + 1 - first
      BY <1>1, <1>4
    <3> QED BY <3>1 DEF Turn
  <2> QED BY <1>2, <2>1 DEF Turn, Processes
<1>5. UNCHANGED <<last, first>> => Turn' = Turn
  BY DEF Turn
<1> QED BY <1>3, <1>4, <1>5

(* Before the fork nobody has the turn.                                    *)
LEMMA PingInit == Init => PingInv
<1> SUFFICES ASSUME Init PROVE PingInv
  OBVIOUS
<1>1. last \in 0 .. MaxLine /\ last \in Nat /\ MaxLine \in Nat /\ first = last
  BY PingPongAssumption DEF PingPongAssumption, Init
<1>2. TypeOK
  BY <1>1 DEF Init, TypeOK, Steps, Processes
<1>3. \A p \in Processes : ~HasTurn(p)
  BY DEF Init, HasTurn, Flagged, Before, Telling, Processes
<1>4. OneTurn /\ Parity /\ Ended
  BY <1>3 DEF Init, OneTurn, Parity, Ended, HasTurn, Before, Telling, Processes
<1>5. Start
  BY DEF Init, Start, Processes
<1> QED BY <1>1, <1>2, <1>4, <1>5 DEF PingInv

(* The lines are numbers, and so is the one after the last.                *)
LEMMA LineBounds ==
  ASSUME TypeOK, first <= last, last <= MaxLine
  PROVE  /\ last \in Nat /\ MaxLine \in Nat /\ first \in Nat
         /\ last \in 0 .. MaxLine + 1 /\ last + 1 \in 0 .. MaxLine + 1
         /\ first <= last /\ first <= last + 1 /\ last + 1 \in Nat
<1>1. last \in Nat /\ first \in InitialLines
  BY DEF TypeOK
<1>2. MaxLine \in Nat
  BY PingPongAssumption DEF PingPongAssumption
<1>3. first \in 0 .. MaxLine
  BY <1>1, PingPongAssumption DEF PingPongAssumption
<1>4. first \in Nat
  BY <1>2, <1>3
<1> QED BY <1>1, <1>2, <1>4

(* The steps that leave the lines and the counters alone: they move pc,    *)
(* the flags and the pending signals within their types.                   *)
LEMMA TypesOfOthers ==
  ASSUME PingInv, NEW p \in Processes,
         pause(p) \/ TestFlag(p) \/ kill(p) \/ ClearFlag(p) \/ signal_handler(p)
  PROVE  TypeOK' /\ first' = first /\ first' <= last' /\ last' <= MaxLine
<1>1. TypeOK /\ first <= last /\ last <= MaxLine
  BY DEF PingInv
<1>2. UNCHANGED <<counter, last, first>>
  BY DEF pause, TestFlag, kill, ClearFlag, signal_handler
<1>3. \E s \in Steps : pc' = [pc EXCEPT ![p] = s]
  <2>1. CASE pause(p)
    BY <2>1 DEF pause, Steps
  <2>2. CASE TestFlag(p)
    BY <2>2 DEF TestFlag, Steps
  <2>3. CASE kill(p)
    BY <2>3 DEF kill, Steps
  <2>4. CASE ClearFlag(p)
    BY <2>4 DEF ClearFlag, Steps
  <2>5. CASE signal_handler(p)
    <3>1. pc[p] \in Steps /\ "test" \in Steps
      BY <1>1 DEF TypeOK, Steps
    <3> QED BY <2>5, <3>1 DEF signal_handler
  <2> QED BY <2>1, <2>2, <2>3, <2>4, <2>5
<1>4. pc' \in [Processes -> Steps]
  BY <1>1, <1>3 DEF TypeOK
<1>5. \/ UNCHANGED received_sig
      \/ \E b \in BOOLEAN : received_sig' = [received_sig EXCEPT ![p] = b]
  BY DEF pause, TestFlag, kill, ClearFlag, signal_handler
<1>6. received_sig' \in [Processes -> BOOLEAN]
  BY <1>1, <1>5 DEF TypeOK
<1>7. \/ UNCHANGED pending
      \/ \E r \in Processes, b \in BOOLEAN : pending' = [pending EXCEPT ![r] = b]
  <2>1. CASE kill(p)
    <3>1. Peer(p) \in Processes /\ (~(pc[Peer(p)] = "done")) \in BOOLEAN
      BY Peers
    <3> QED BY <2>1, <3>1 DEF kill
  <2>2. CASE signal_handler(p)
    BY <2>2 DEF signal_handler
  <2>3. CASE pause(p) \/ TestFlag(p) \/ ClearFlag(p)
    BY <2>3 DEF pause, TestFlag, ClearFlag
  <2> QED BY <2>1, <2>2, <2>3
<1>8. pending' \in [Processes -> BOOLEAN]
  BY <1>1, <1>7 DEF TypeOK
<1>9. told' \in [Processes -> Nat]
  <2>1. UNCHANGED told \/ told' = [told EXCEPT ![p] = last]
    BY DEF pause, TestFlag, kill, ClearFlag, signal_handler
  <2> QED BY <1>1, <2>1 DEF TypeOK
<1>10. TypeOK'
  BY <1>1, <1>2, <1>4, <1>6, <1>8, <1>9 DEF TypeOK
<1> QED BY <1>1, <1>2, <1>10

(* Types, and the bounds on the lines.                                     *)
LEMMA PingTypes ==
  ASSUME PingInv, [Next]_vars
  PROVE  TypeOK' /\ first' = first /\ first' <= last' /\ last' <= MaxLine
<1>a. /\ last \in Nat /\ MaxLine \in Nat /\ first \in Nat
      /\ last \in 0 .. MaxLine + 1 /\ last + 1 \in 0 .. MaxLine + 1
      /\ first <= last /\ first <= last + 1 /\ last + 1 \in Nat
  BY LineBounds DEF PingInv
<1> USE DEF PingInv, TypeOK, Steps
<1>1. CASE fork
  BY <1>1 DEF fork, Processes
<1>2. CASE TestLimit
  <2>1. "child" \in Processes /\ counter["child"] = last
    BY <1>2 DEF TestLimit, Parity, Processes
  <2>2. counter' \in {counter, [counter EXCEPT !["child"] = last + 1]}
    BY <1>2, <2>1 DEF TestLimit
  <2>3. counter' \in [Processes -> 0 .. MaxLine + 1]
    BY <1>a, <2>2
  <2> QED BY <1>2, <2>3 DEF TestLimit
<1>3. ASSUME NEW p \in Processes, file_handle_write(p)
      PROVE  TypeOK' /\ first' = first /\ first' <= last' /\ last' <= MaxLine
  <2>1. counter[p] = last + 1
    BY <1>3 DEF file_handle_write, Parity
  <2>2. last' = last + 1 /\ last + 1 <= MaxLine
    BY <1>3, <2>1 DEF file_handle_write
  <2>3. UNCHANGED <<received_sig, pending, counter, first, told>>
        /\ pc' \in [Processes -> Steps]
    BY <1>3 DEF file_handle_write
  <2>4. TypeOK'
    BY <1>a, <2>2, <2>3
  <2>5. first' <= last' /\ last' <= MaxLine
    BY <1>a, <2>2, <2>3
  <2> QED BY <2>3, <2>4, <2>5
<1>4. ASSUME NEW p \in Processes, get_last_line_number(p)
      PROVE  TypeOK' /\ first' = first /\ first' <= last' /\ last' <= MaxLine
  <2>1. counter' \in [Processes -> 0 .. MaxLine + 1]
    BY <1>4, <1>a DEF get_last_line_number
  <2> QED BY <1>4, <2>1 DEF get_last_line_number
<1>5. ASSUME NEW p \in Processes,
             pause(p) \/ TestFlag(p) \/ kill(p) \/ ClearFlag(p) \/ signal_handler(p)
      PROVE  TypeOK' /\ first' = first /\ first' <= last' /\ last' <= MaxLine
  BY <1>5, TypesOfOthers
<1>6. CASE UNCHANGED vars
  BY <1>6 DEF vars
<1> QED BY <1>1, <1>2, <1>3, <1>4, <1>5, <1>6 DEF Next, Step

(***************************************************************************)
(* In each of the following steps a process p makes a turn, for itself or  *)
(* its peer q, only out of one that p had.  The first turn comes with the  *)
(* fork, and is the parent's.                                              *)
(***************************************************************************)
LEMMA ForkStep ==
  ASSUME PingInv, fork
  PROVE  OneTurn' /\ Start' /\ Parity' /\ Ended'
<1> USE DEF PingInv, TypeOK
<1>1. /\ pc["parent"] = "fork" /\ pc["child"] = "unborn" /\ last = first
      /\ \A p \in Processes : ~received_sig[p] /\ ~pending[p]
  BY DEF fork, Start, Processes
<1>2. /\ UNCHANGED <<received_sig, pending, counter, last, first>>
      /\ \/ pc'["parent"] = "read first" /\ pc'["child"] = "pause"
         \/ pc'["parent"] = "done" /\ pc'["child"] = "unborn"
  BY <1>1 DEF fork, Processes
<1>3. Turn' = "parent"
  <2>1. (last - first) % 2 = 0
    BY <1>1, PingPongAssumption DEF PingPongAssumption
  <2> QED BY <1>2, <2>1 DEF Turn
<1>4. Start'
  BY <1>1, <1>2 DEF Start, Processes
<1>5. OneTurn'
  BY <1>1, <1>2 DEF OneTurn, HasTurn, Flagged, Before, Telling, Processes
<1>6. Parity'
  BY <1>1, <1>2, <1>3 DEF Parity, HasTurn, Flagged, Before, Telling, Processes
<1>7. Ended'
  BY <1>2 DEF Ended
<1> QED BY <1>4, <1>5, <1>6, <1>7

(* The child that leaves its loop takes the turn with it.                   *)
LEMMA LimitStep ==
  ASSUME PingInv, TestLimit
  PROVE  OneTurn' /\ Start' /\ Parity' /\ Ended'
<1> USE DEF PingInv, TypeOK
<1> DEFINE p == "child"  q == "parent"
<1>1. /\ p \in Processes /\ q \in Processes /\ Processes = {p, q}
      /\ pc[p] = "limit" /\ HasTurn(p) /\ ~HasTurn(q) /\ ~pending[p]
      /\ Turn = p /\ counter[p] = last
  BY DEF TestLimit, Processes, OneTurn, HasTurn, Parity, Before, Telling
<1>2. /\ UNCHANGED <<received_sig, pending, last, first>>
      /\ pc'[q] = pc[q] /\ counter'[q] = counter[q]
      /\ \/ pc'[p] = "done" /\ last = LIMIT
         \/ pc'[p] = "write" /\ counter'[p] = last + 1
  BY <1>1 DEF TestLimit
<1>3. ~HasTurn(q)' /\ (pc'[p] = "done" => ~HasTurn(p)')
  BY <1>1, <1>2 DEF HasTurn, Flagged, Before, Telling
<1>4. Turn' = Turn
  BY <1>2, TurnFlips
<1>a. /\ pc'[p] \in {"done", "write"} /\ pc[p] \notin {"pause", "paused", "test"}
      /\ pc'[p] \notin Telling
      /\ Flagged(q)' = Flagged(q) /\ ~Flagged(p)' /\ ~pending'[p]
  BY <1>1, <1>2 DEF Flagged, Telling
<1>5. OneTurn'
  <2>1. \A r, s \in Processes : HasTurn(r)' /\ HasTurn(s)' => r = s
    BY <1>1, <1>3
  <2>2. pc'[q] \notin Before \union Telling
    BY <1>3 DEF HasTurn
  <2>3. ~(pending'[q] /\ Flagged(q)')
    BY <1>3 DEF HasTurn
  <2> QED BY <1>1, <1>a, <2>1, <2>2, <2>3 DEF OneTurn
<1>6. Start'
  BY <1>1, <1>2 DEF Start
<1>7. Parity'
  <2>1. pc'[q] \notin Before \union Telling
    BY <1>3 DEF HasTurn
  <2>2. /\ HasTurn(q)' /\ pc'[q] \notin Telling => Turn' = q
        /\ pc'[q] \in Telling => Turn' # q
        /\ pc'[q] \in {"write first", "write"} => counter'[q] = last' + 1
        /\ pc'[q] = "limit" => counter'[q] = last'
    BY <1>3, <2>1 DEF Before, Telling
  <2>3. /\ HasTurn(p)' /\ pc'[p] \notin Telling => Turn' = p
        /\ pc'[p] \in Telling => Turn' # p
        /\ pc'[p] \in {"write first", "write"} => counter'[p] = last' + 1
        /\ pc'[p] = "limit" => counter'[p] = last'
    BY <1>1, <1>2, <1>4, <1>a, <1>3
  <2> QED BY <1>1, <2>2, <2>3 DEF Parity
<1>8. Ended'
  BY <1>1, <1>2, <1>3 DEF Ended
<1> QED BY <1>5, <1>6, <1>7, <1>8


(* A step that only looks, or sleeps: p keeps its turn or its lack of one. *)
LEMMA QuietStep ==
  ASSUME PingInv, NEW p \in Processes,
         pause(p) \/ TestFlag(p) \/ get_last_line_number(p) \/ ClearFlag(p)
  PROVE  OneTurn' /\ Start' /\ Parity' /\ Ended'
<1> USE DEF PingInv, TypeOK
<1> DEFINE q == Peer(p)
<1>1. q \in Processes /\ q # p /\ \A r \in Processes : r = p \/ r = q
  BY Peers
<1>2. /\ UNCHANGED <<pending, last, first>>
      /\ pc' = [pc EXCEPT ![p] = pc'[p]]
      /\ received_sig'[q] = received_sig[q] /\ counter'[q] = counter[q]
      /\ pc[p] \in {"pause", "test", "read first", "read", "clear"}
  BY <1>1 DEF pause, TestFlag, get_last_line_number, ClearFlag
<1>3. /\ pc[p] = "pause" => pc'[p] = "paused"
      /\ pc[p] = "test" => pc'[p] = IF received_sig[p] THEN "read" ELSE "pause"
      /\ pc[p] \in {"read first", "read"} =>
           \/ pc'[p] = "limit" /\ p = "child" /\ counter'[p] = last
           \/ /\ pc'[p] \in {"write first", "write"} /\ p = "parent"
              /\ counter'[p] = last + 1
              /\ pc'[p] = "write first" => pc[p] = "read first"
      /\ pc[p] = "clear" => pc'[p] = "pause" /\ ~received_sig'[p]
      /\ pc[p] # "clear" => UNCHANGED received_sig
  BY DEF pause, TestFlag, get_last_line_number, ClearFlag, Processes
<1>4. /\ HasTurn(p)' => HasTurn(p)
      /\ HasTurn(q)' <=> HasTurn(q)
      /\ pc'[p] \in Before \union Telling => pc'[p] \in Before /\ ~pending[p]
      /\ ~(pending[p] /\ Flagged(p)')
  BY <1>1, <1>2, <1>3 DEF HasTurn, Flagged, Before, Telling, OneTurn
<1>5. OneTurn'
  <2>1. pc'[q] = pc[q] /\ (Flagged(q)' <=> Flagged(q))
    BY <1>1, <1>2 DEF Flagged
  <2>2. \A a, b \in Processes : HasTurn(a)' /\ HasTurn(b)' => a = b
    <3>1. \A a \in Processes : HasTurn(a)' => HasTurn(a)
      BY <1>1, <1>4
    <3> QED BY <3>1 DEF OneTurn
  <2>3. (pc'[p] \in Before \union Telling => ~pending[p]) /\ ~(pending[p] /\ Flagged(p)')
    BY <1>4
  <2>4. (pc'[q] \in Before \union Telling => ~pending[q]) /\ ~(pending[q] /\ Flagged(q)')
    BY <1>1, <2>1 DEF OneTurn
  <2> QED BY <1>1, <1>2, <2>2, <2>3, <2>4 DEF OneTurn
<1>6. Start'
  BY <1>1, <1>2, <1>3 DEF Start, Processes
<1>7. Parity'
  <2>1. Turn' = Turn
    BY <1>2, TurnFlips
  <2>2. pc[p] \in Telling => pc'[p] = pc[p]
    BY <1>2 DEF Telling
  <2> DEFINE Right(r) ==
                /\ HasTurn(r) /\ pc[r] \notin Telling => Turn = r
                /\ pc[r] \in Telling => Turn # r
                /\ pc[r] \in {"write first", "write"} => counter[r] = last + 1
                /\ pc[r] = "limit" => counter[r] = last
  <2>3. Right(p) /\ Right(q)
    BY <1>1 DEF Parity
  <2>4. Right(q)'
    BY <1>1, <1>2, <1>4, <2>1, <2>3
  <2>5. /\ pc'[p] \notin Telling /\ (HasTurn(p)' => Turn' = p)
    <3>1. pc[p] \notin Telling /\ pc'[p] \notin Telling
      BY <1>2, <1>3 DEF Telling
    <3> QED BY <1>4, <2>1, <2>3, <3>1
  <2>6. /\ pc'[p] \in {"write first", "write"} => counter'[p] = last' + 1
        /\ pc'[p] = "limit" => counter'[p] = last'
    BY <1>2, <1>3
  <2> QED BY <1>1, <2>4, <2>5, <2>6 DEF Parity
<1>8. Ended'
  BY <1>1, <1>2, <1>3, <1>4 DEF Ended, Processes
<1> QED BY <1>5, <1>6, <1>7, <1>8

(* A line is written by the process whose turn it is.                      *)
LEMMA WriteStep ==
  ASSUME PingInv, NEW p \in Processes, file_handle_write(p)
  PROVE  OneTurn' /\ Start' /\ Parity' /\ Ended'
<1> USE DEF PingInv, TypeOK
<1> DEFINE q == Peer(p)
<1>1. q \in Processes /\ q # p /\ \A r \in Processes : r = p \/ r = q
  BY Peers
<1>2. /\ UNCHANGED <<received_sig, pending, counter, first>>
      /\ pc' = [pc EXCEPT ![p] = pc'[p]]
      /\ \/ pc[p] = "write first" /\ pc'[p] = "kill first"
         \/ pc[p] = "write" /\ pc'[p] = "kill"
      /\ HasTurn(p) /\ ~HasTurn(q) /\ ~pending[p]
  BY <1>1 DEF file_handle_write, OneTurn, HasTurn, Before, Telling
<1>3. last' = last + 1 /\ Turn = p /\ Turn' # p
  <2>1. last' = last + 1 /\ Turn = p
    BY <1>2 DEF file_handle_write, Parity, Before, Telling
  <2> QED BY <1>2, <2>1, TurnFlips
<1>4. HasTurn(p)' /\ ~HasTurn(q)' /\ ~Flagged(p)'
  BY <1>1, <1>2 DEF HasTurn, Flagged, Before, Telling
<1>5. OneTurn'
  <2>1. ~(pending[q] /\ Flagged(q)') /\ pc'[q] \notin Before \union Telling
    BY <1>1, <1>2, <1>4 DEF HasTurn
  <2> QED BY <1>1, <1>2, <1>4, <2>1 DEF OneTurn
<1>6. Start'
  BY <1>1, <1>2 DEF Start, Processes
<1>7. Parity'
  BY <1>1, <1>2, <1>3, <1>4 DEF Parity, HasTurn, Before, Telling
<1>8. Ended'
  BY <1>1, <1>2 DEF Ended, Processes
<1> QED BY <1>5, <1>6, <1>7, <1>8

(* kill() hands the turn over, to a process that has none and has not      *)
(* ended: a child that ends takes the turn with it.                        *)
LEMMA KillStep ==
  ASSUME PingInv, NEW p \in Processes, kill(p)
  PROVE  OneTurn' /\ Start' /\ Parity' /\ Ended'
<1> USE DEF PingInv, TypeOK
<1> DEFINE q == Peer(p)
<1>1. q \in Processes /\ q # p /\ \A r \in Processes : r = p \/ r = q
  BY Peers
<1>2. /\ UNCHANGED <<received_sig, counter, last, first>>
      /\ pc' = [pc EXCEPT ![p] = pc'[p]]
      /\ \/ pc[p] = "kill first" /\ pc'[p] = "test" /\ p = "parent"
         \/ pc[p] = "kill" /\ pc'[p] = "clear"
      /\ pending' = [pending EXCEPT ![q] = pc[q] # "done"]
      /\ HasTurn(p) /\ ~HasTurn(q) /\ ~pending[p]
  BY <1>1 DEF kill, OneTurn, HasTurn, Before, Telling, Start, Processes
<1>3. Turn' = Turn /\ Turn = q
  <2>1. Turn # p /\ Turn' = Turn /\ Turn \in Processes
    BY <1>2, TurnFlips DEF Parity, Telling
  <2> QED BY <1>1, <2>1
<1>4. ~HasTurn(p)'
  BY <1>1, <1>2 DEF HasTurn, Flagged, Before, Telling, Start
<1>5. ~Flagged(q)' /\ pc'[q] \notin Before \union Telling
  BY <1>1, <1>2 DEF HasTurn, Flagged
<1>6. OneTurn'
  BY <1>1, <1>4, <1>5 DEF OneTurn, HasTurn
<1>7. Start'
  <2>1. pc[q] \notin {"fork", "unborn", "read first", "write first", "kill first"}
    BY <1>1, <1>2 DEF Start, HasTurn, Before, Telling, Processes
  <2> QED BY <1>1, <1>2, <2>1 DEF Start, Processes
<1>8. Parity'
  BY <1>1, <1>2, <1>3, <1>4, <1>5 DEF Parity, HasTurn, Before, Telling
<1>9. Ended'
  BY <1>1, <1>2 DEF Ended, Processes
<1> QED BY <1>6, <1>7, <1>8, <1>9

(* The handler makes of a pending signal a flag, which is a turn if it is  *)
(* still to be looked at.                                                  *)
LEMMA SignalStep ==
  ASSUME PingInv, NEW p \in Processes, signal_handler(p)
  PROVE  OneTurn' /\ Start' /\ Parity' /\ Ended'
<1> USE DEF PingInv, TypeOK
<1> DEFINE q == Peer(p)
<1>1. q \in Processes /\ q # p /\ \A r \in Processes : r = p \/ r = q
  BY Peers
<1>2. /\ UNCHANGED <<counter, last, first>>
      /\ pc' = [pc EXCEPT ![p] = IF pc[p] = "paused" THEN "test" ELSE pc[p]]
      /\ pending' = [pending EXCEPT ![p] = FALSE]
      /\ received_sig' = [received_sig EXCEPT ![p] = TRUE]
      /\ HasTurn(p) /\ ~HasTurn(q) /\ pc[p] \notin Before \union Telling
      /\ pc[p] \notin {"fork", "unborn", "done"}
  BY <1>1 DEF signal_handler, OneTurn, HasTurn, Start
<1>3. /\ ~HasTurn(q)' /\ ~pending'[p]
      /\ pc'[p] \notin Before \union Telling /\ pc'[p] \notin {"fork", "unborn", "done"}
  BY <1>1, <1>2 DEF HasTurn, Flagged, Before, Telling
<1>4. OneTurn'
  BY <1>1, <1>3 DEF OneTurn, HasTurn
<1>5. Start'
  BY <1>1, <1>2, <1>3 DEF Start, Before, Telling, Processes
<1>6. Parity'
  <2>1. Turn' = Turn /\ Turn = p
    BY <1>2, TurnFlips DEF Parity
  <2> QED BY <1>1, <1>2, <1>3, <2>1 DEF Parity, HasTurn, Before, Telling
<1>7. Ended'
  BY <1>1, <1>2, <1>3 DEF Ended, Processes
<1> QED BY <1>4, <1>5, <1>6, <1>7

LEMMA PingStep == PingInv /\ [Next]_vars => PingInv'
<1> SUFFICES ASSUME PingInv, [Next]_vars PROVE OneTurn' /\ Start' /\ Parity' /\ Ended'
  BY PingTypes DEF PingInv
<1>1. CASE UNCHANGED vars
  <2>1. Turn' = Turn
    BY <1>1, TurnFlips DEF vars, PingInv
  <2> QED
    BY <1>1, <2>1 DEF vars, PingInv, OneTurn, Start, Parity, Ended, HasTurn, Flagged
<1> QED
  BY <1>1, ForkStep, LimitStep, QuietStep, WriteStep, KillStep, SignalStep
     DEF Next, Step

LEMMA PingCorrect == Spec => []PingInv
<1> QED BY PingInit, PingStep, PTL DEF Spec

-----------------------------------------------------------------------------
(* Type correctness, and the bound of an instance is one: no process,      *)
(* whatever it read before, writes a line with a larger number.            *)
THEOREM PingPongTypes == Spec => [](TypeOK /\ last <= MaxLine)
<1>1. PingInv => TypeOK /\ last <= MaxLine
  BY DEF PingInv
<1> QED BY <1>1, PingCorrect, PTL

(* Parent and child write in turns, each line the next number.             *)
THEOREM TurnsAreTaken == Spec => TakesTurns
<1>1. PingInv /\ [Next]_vars => [NextLine]_vars
  <2> SUFFICES ASSUME PingInv, Next, last' # last PROVE NextLine
    BY DEF NextLine, vars
  <2>1. PICK p \in Processes : file_handle_write(p)
    BY DEF Next, Step, fork, TestLimit, pause, TestFlag, get_last_line_number,
           kill, ClearFlag, signal_handler
  <2>2. last' = last + 1 /\ Turn = p
    BY <2>1 DEF file_handle_write, PingInv, Parity, HasTurn, Before, Telling
  <2>3. pc'[p] # pc[p]
    BY <2>1 DEF file_handle_write, PingInv, TypeOK
  <2> QED BY <2>2, <2>3 DEF NextLine
<1> QED BY <1>1, PingCorrect, PTL DEF Spec, TakesTurns

(* The child leaves its loop at the limit only, and nobody writes then.    *)
THEOREM ChildLeavesAtLimit == Spec => []ChildEndsAtLimit
<1>1. PingInv => ChildEndsAtLimit
  BY DEF PingInv, Ended, ChildEndsAtLimit
<1> QED BY <1>1, PingCorrect, PTL

(* With an odd limit, as the program's 15 is, a file that starts below it  *)
(* at an even number never grows past it: the child sees the odd numbers,  *)
(* among them the limit, and the parent only writes after even ones.       *)
THEOREM FileStopsAtLimit ==
  ASSUME LIMIT % 2 = 1
  PROVE  Spec => []StopsAtLimit
<1>1. Init => LimitInv
  BY PingPongAssumption DEF PingPongAssumption, Init, LimitInv, StopsAtLimit, Even, Processes
<1>2. PingInv /\ LimitInv /\ [Next]_vars => LimitInv'
  <2> SUFFICES ASSUME PingInv, LimitInv, [Next]_vars PROVE LimitInv'
    OBVIOUS
  <2> USE DEF LimitInv, StopsAtLimit, Even
  <2>1. CASE TestLimit
    <3>1. counter["child"] = last
      BY <2>1 DEF TestLimit, PingInv, Parity, Processes
    <3> QED BY <2>1, <3>1 DEF TestLimit, PingInv, TypeOK, Processes
  <2>2. ASSUME NEW p \in Processes, file_handle_write(p) PROVE LimitInv'
    <3>1. /\ last' = last + 1 /\ Turn = p /\ UNCHANGED first
          /\ pc'["child"] # "write"
      <4>1. last' = last + 1 /\ Turn = p
        BY <2>2 DEF file_handle_write, PingInv, Parity, HasTurn, Before, Telling
      <4>2. pc[Peer(p)] # "write"
        BY <2>2, Peers DEF file_handle_write, PingInv, OneTurn, HasTurn, Before, Telling
      <4>3. pc'["child"] # "write"
        BY <2>2, <4>2, Peers DEF file_handle_write, PingInv, TypeOK, Processes
      <4> QED BY <2>2, <4>1, <4>3 DEF file_handle_write
    <3>2. last # LIMIT \/ ~Even
      <4>1. CASE p = "child"
        BY <2>2, <4>1 DEF file_handle_write, PingInv, Start
      <4>2. CASE p = "parent"
        BY <3>1, <4>2, PingPongAssumption DEF PingPongAssumption, Turn, PingInv, TypeOK
      <4> QED BY <4>1, <4>2 DEF Processes
    <3> QED BY <3>1, <3>2, PingPongAssumption DEF PingPongAssumption, PingInv, TypeOK
  <2>3. CASE UNCHANGED <<last, first>> /\ (pc'["child"] = "write" => pc["child"] = "write")
    BY <2>3
  <2>4. ASSUME NEW p \in Processes,
               \/ fork \/ UNCHANGED vars \/ pause(p) \/ TestFlag(p)
               \/ get_last_line_number(p) \/ kill(p) \/ ClearFlag(p) \/ signal_handler(p)
        PROVE  UNCHANGED <<last, first>> /\ (pc'["child"] = "write" => pc["child"] = "write")
    BY <2>4 DEF fork, vars, pause, TestFlag, get_last_line_number, kill, ClearFlag,
                signal_handler, PingInv, TypeOK, Processes
  <2> QED BY <2>1, <2>2, <2>3, <2>4 DEF Next, Step, Processes
<1>3. LimitInv => StopsAtLimit
  BY DEF LimitInv
<1> QED BY <1>1, <1>2, <1>3, PingCorrect, PTL DEF Spec
=============================================================================
