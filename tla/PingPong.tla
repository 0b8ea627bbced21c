------------------------------- MODULE PingPong -------------------------------
(***************************************************************************)
(* 04-IPC-Synchronization/02-Multi-Processes-Signal.  A parent and the     *)
(* child it forks append numbered lines to one file in turns: each reads   *)
(* the last number, appends the next one, signals the other with SIGUSR1   *)
(* and pauses until it is signalled.  A signal sets the flag received_sig  *)
(* of the process it is delivered to; it wakes that process only when it   *)
(* is inside pause(), and a second one pending with it is the same one.    *)
(***************************************************************************)
EXTENDS Naturals

CONSTANTS
  LIMIT,         \* the last number at which the child leaves its loop (15)
  InitialLines,  \* the last numbers the file may start with
  MaxLine        \* bound: no line with a larger number is written

ASSUME PingPongAssumption ==
  LIMIT \in Nat /\ MaxLine \in Nat /\ InitialLines \subseteq 0 .. MaxLine

VARIABLES
  pc,            \* per process: the statement it executes next
  received_sig,  \* per process: its flag
  pending,       \* per process: SIGUSR1 is pending for it
  counter,       \* per process: its local counter
  last,          \* the number in the last line of output.txt, 0 if none
  first,         \* what last was at the start
  told           \* history, per process: last when a signal reached it

vars == <<pc, received_sig, pending, counter, last, first, told>>

-----------------------------------------------------------------------------
Processes == {"parent", "child"}
Peer(p) == CHOOSE q \in Processes : q # p

Steps == {"unborn", "fork", "read first", "write first", "kill first",
          "pause", "paused", "test", "read", "limit", "write", "kill",
          "clear", "done"}

Init ==
  /\ pc = [p \in Processes |-> IF p = "parent" THEN "fork" ELSE "unborn"]
  /\ received_sig = [p \in Processes |-> FALSE]
  /\ pending = [p \in Processes |-> FALSE]
  /\ counter = [p \in Processes |-> 0]
  /\ last \in InitialLines
  /\ first = last
  /\ told = [p \in Processes |-> 0]

At(p, step) == pc[p] = step
Goto(p, step) == pc' = [pc EXCEPT ![p] = step]

(* main(): a failed fork ends the program.  Otherwise the child goes to    *)
(* its pause and the parent, after sleep(1), to its first line; nothing    *)
(* makes the child reach its pause within that second.                     *)
fork ==
  /\ At("parent", "fork")
  /\ pc' \in {[p \in Processes |-> IF p = "parent" THEN "read first" ELSE "pause"],
              [pc EXCEPT !["parent"] = "done"]}
  /\ UNCHANGED <<received_sig, pending, counter, last, first, told>>

(* pause() is entered with whatever has been delivered before.             *)
pause(p) ==
  /\ At(p, "pause")
  /\ Goto(p, "paused")
  /\ UNCHANGED <<received_sig, pending, counter, last, first, told>>

(* The handler runs between any two statements, and ends a pause().        *)
signal_handler(p) ==
  /\ pending[p]
  /\ ~At(p, "done")
  /\ pending' = [pending EXCEPT ![p] = FALSE]
  /\ received_sig' = [received_sig EXCEPT ![p] = TRUE]
  /\ Goto(p, IF At(p, "paused") THEN "test" ELSE pc[p])
  /\ told' = [told EXCEPT ![p] = last]
  /\ UNCHANGED <<counter, last, first>>

(* if (received_sig == 1), in either loop.                                 *)
TestFlag(p) ==
  /\ At(p, "test")
  /\ Goto(p, IF received_sig[p] THEN "read" ELSE "pause")
  /\ UNCHANGED <<received_sig, pending, counter, last, first, told>>

(* Mutant: the other process is told before the line is written.           *)
ReadAndKill(p) ==
  /\ pc[p] \in {"read first", "read"}
  /\ counter' = [counter EXCEPT ![p] = IF p = "parent" THEN last + 1 ELSE last]
  /\ pending' = [pending EXCEPT ![Peer(p)] = TRUE]
  /\ Goto(p, IF p = "child" THEN "limit"
             ELSE IF At(p, "read") THEN "write" ELSE "write first")
  /\ UNCHANGED <<received_sig, last, first, told>>

(* get_last_line_number; the parent adds one at once, the child after its  *)
(* test.                                                                   *)
get_last_line_number(p) ==
  /\ pc[p] \in {"read first", "read"}
  /\ counter' = [counter EXCEPT ![p] = IF p = "parent" THEN last + 1 ELSE last]
  /\ Goto(p, IF p = "child" THEN "limit"
             ELSE IF At(p, "read") THEN "write" ELSE "write first")
  /\ UNCHANGED <<received_sig, pending, last, first, told>>

(* Mutant: the child counts before it tests.                               *)
CountThenTest ==
  /\ At("child", "limit")
  /\ counter' = [counter EXCEPT !["child"] = @ + 1]
  /\ Goto("child", IF counter'["child"] = LIMIT THEN "done" ELSE "write")
  /\ UNCHANGED <<received_sig, pending, last, first, told>>

(* Mutant: the test is missing.                                            *)
NoLimit ==
  /\ At("child", "limit")
  /\ counter' = [counter EXCEPT !["child"] = @ + 1]
  /\ Goto("child", "write")
  /\ UNCHANGED <<received_sig, pending, last, first, told>>

(* "Block code for break while loop": equality, so a number past the limit *)
(* never ends the loop.                                                    *)
TestLimit ==
  /\ At("child", "limit")
  /\ IF counter["child"] = LIMIT
     THEN Goto("child", "done") /\ UNCHANGED counter
     ELSE /\ Goto("child", "write")
          /\ counter' = [counter EXCEPT !["child"] = @ + 1]
  /\ UNCHANGED <<received_sig, pending, last, first, told>>

file_handle_write(p) ==
  /\ pc[p] \in {"write first", "write"}
  /\ counter[p] <= MaxLine
  /\ last' = counter[p]
  /\ Goto(p, IF At(p, "write") THEN "kill" ELSE "kill first")
  /\ UNCHANGED <<received_sig, pending, counter, first, told>>

(* Mutant: the child does not answer.                                      *)
ParentKillsOnly(p) ==
  /\ pc[p] \in {"kill first", "kill"}
  /\ pending' = [pending EXCEPT !["child"] = @ \/ (p = "parent" /\ ~At("child", "done"))]
  /\ Goto(p, IF At(p, "kill") THEN "clear" ELSE "test")
  /\ UNCHANGED <<received_sig, counter, last, first, told>>

(* kill() of a process that has ended has no effect.                       *)
kill(p) ==
  /\ pc[p] \in {"kill first", "kill"}
  /\ pending' = [pending EXCEPT ![Peer(p)] = ~At(Peer(p), "done")]
  /\ Goto(p, IF At(p, "kill") THEN "clear" ELSE "test")
  /\ UNCHANGED <<received_sig, counter, last, first, told>>

(* received_sig = 0, after the signal that may have been answered already. *)
ClearFlag(p) ==
  /\ At(p, "clear")
  /\ received_sig' = [received_sig EXCEPT ![p] = FALSE]
  /\ Goto(p, "pause")
  /\ UNCHANGED <<pending, counter, last, first, told>>

Step(p) ==
  \/ pause(p) \/ TestFlag(p) \/ get_last_line_number(p)
  \/ file_handle_write(p) \/ kill(p) \/ ClearFlag(p)

Next ==
  \/ fork \/ TestLimit
  \/ \E p \in Processes : Step(p) \/ signal_handler(p)

Spec == Init /\ [][Next]_vars

(* Both processes are scheduled and pending signals are delivered.         *)
FairSpec ==
  /\ Spec
  /\ WF_vars(fork \/ TestLimit)
  /\ \A p \in Processes : WF_vars(Step(p)) /\ WF_vars(signal_handler(p))

-----------------------------------------------------------------------------
(* Type invariant.                                                         *)
TypeOK ==
  /\ pc \in [Processes -> Steps]
  /\ received_sig \in [Processes -> BOOLEAN]
  /\ pending \in [Processes -> BOOLEAN]
  /\ counter \in [Processes -> 0 .. MaxLine + 1]
  /\ last \in Nat /\ first \in InitialLines
  /\ told \in [Processes -> Nat]

(* The two take turns: each line carries the next number, and the parent   *)
(* writes the first one and every other from there.  The turn is handed    *)
(* over by a signal that may come before the flag of the last turn has     *)
(* been cleared or before pause() is reached.                              *)
Turn == IF (last - first) % 2 = 0 THEN "parent" ELSE "child"
NextLine ==
  last' # last =>
    /\ last' = last + 1
    /\ pc'[Turn] # pc[Turn]
TakesTurns == [][NextLine]_vars

(* The child leaves its loop only at the limit, and the file then stays as *)
(* it is.                                                                  *)
ChildEndsAtLimit == At("child", "done") => last = LIMIT

(* A file that starts at an even number below the limit never grows past   *)
(* it: the child is the one to see the odd numbers.  (From an odd number   *)
(* the child steps over the limit and the file grows without end.)         *)
Even == first % 2 = 0 /\ first < LIMIT
StopsAtLimit == Even => last <= LIMIT

(* From such a file the child gets to the limit, unless a wakeup is lost:  *)
(* both processes are in pause(), and the one whose turn it is has been    *)
(* told of the last line already - before it paused, or before it cleared  *)
(* its flag.  A turn is never dropped because no signal was sent.          *)
WakeupLost ==
  /\ \A p \in Processes : At(p, "paused") /\ ~pending[p]
  /\ told[Turn] = last
ChildEndsUnlessLost ==
  Even => <>(At("child", "done") \/ At("parent", "done") \/ WakeupLost)
=============================================================================
