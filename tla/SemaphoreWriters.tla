--------------------------- MODULE SemaphoreWriters ---------------------------
(***************************************************************************)
(* 04-IPC-Synchronization/01-Multi-Threading-Mutex-Semaphore.  Every       *)
(* thread repeats: choose one of two files, take that file's semaphore,    *)
(* draw a number from the shared counter under a mutex, append it to the   *)
(* file, give the semaphore back.  main() creates the threads and joins    *)
(* them in order.  The files are opened for appending: what an earlier run *)
(* wrote, or the repository came with, stays in front.                     *)
(***************************************************************************)
EXTENDS Naturals, Sequences, FiniteSets

CONSTANTS
  NUM_THREADS,  \* threads main() creates (config.h: 3)
  LOOPS,        \* threads_attr[i].loops (main.c: 5)
  Earlier       \* what there can be in a file before the program starts

ASSUME WritersAssumption ==
  /\ NUM_THREADS \in Nat \ {0} /\ LOOPS \in Nat \ {0}
  /\ Earlier \subseteq Seq(Nat)

VARIABLES
  main,        \* where main() stands
  index,       \* its loop variable
  pc,          \* per thread: the statement it executes next
  i,           \* per thread: rounds completed
  rand,        \* per thread: the file of this round
  sem,         \* sem1 and sem2: their values
  glob_mutex,  \* the mutex is held
  glob,        \* the shared counter
  temp,        \* per thread: what it read for glob++
  send_msg,    \* per thread: the number in its formatted line
  file,        \* output1.txt and output2.txt: the numbers in them
  old          \* history: the numbers in them at the start

mainVars == <<main, index>>
dataVars == <<sem, glob_mutex, glob, temp, send_msg, file>>
vars == <<mainVars, pc, i, rand, dataVars, old>>

-----------------------------------------------------------------------------
Threads == 0 .. NUM_THREADS - 1
Files == {1, 2}

(* The statements between sem_wait and sem_post.                           *)
Section == {"lock", "incr", "format", "write", "post"}
Steps == Section \union {"unborn", "failed", "pick", "wait", "done"}

Init ==
  /\ main = "create" /\ index = 0
  /\ pc = [t \in Threads |-> "unborn"]
  /\ i = [t \in Threads |-> 0]
  /\ rand = [t \in Threads |-> 1]
  /\ sem = [f \in Files |-> 1]
  /\ glob_mutex = FALSE
  /\ glob = 0
  /\ temp = [t \in Threads |-> 0]
  /\ send_msg = [t \in Threads |-> 0]
  /\ old \in [Files -> Earlier]
  /\ file = old

-----------------------------------------------------------------------------
(* main(): a for loop ends after the last thread.                          *)
NextThread(after) ==
  IF index + 1 < NUM_THREADS
  THEN index' = index + 1 /\ UNCHANGED main
  ELSE index' = 0 /\ main' = after

(* pthread_create reports a failure by a positive number, which            *)
(* SYSCALL_ERROR does not take for an error: main() goes on.               *)
Create ==
  /\ main = "create"
  /\ \E step \in {"pick", "failed"} : pc' = [pc EXCEPT ![index] = step]
  /\ NextThread("join")
  /\ UNCHANGED <<i, rand, dataVars, old>>

(* Joining a handle that was never filled is undefined: the call comes     *)
(* back, or nothing is claimed from there on.                              *)
Join ==
  /\ main = "join"
  /\ \/ pc[index] \in {"done", "failed"} /\ NextThread("done")
     \/ pc[index] = "failed" /\ main' = "undefined" /\ UNCHANGED index
  /\ UNCHANGED <<pc, i, rand, dataVars, old>>

-----------------------------------------------------------------------------
(* thread_handler.                                                         *)
At(t, step) == pc[t] = step

Goto(t, step) == pc' = [pc EXCEPT ![t] = step]

Frame == UNCHANGED <<mainVars, old>>

random_int(t) ==
  /\ At(t, "pick")
  /\ \E f \in Files : rand' = [rand EXCEPT ![t] = f]
  /\ Goto(t, "wait")
  /\ UNCHANGED <<i, dataVars>> /\ Frame

(* Mutant: the semaphore lets everyone in.                                 *)
WaitForNothing(t) ==
  /\ At(t, "wait")
  /\ Goto(t, "lock")
  /\ UNCHANGED <<i, rand, dataVars>> /\ Frame

sem_wait(t) ==
  /\ At(t, "wait")
  /\ sem[rand[t]] > 0
  /\ sem' = [sem EXCEPT ![rand[t]] = @ - 1]
  /\ Goto(t, "lock")
  /\ UNCHANGED <<i, rand, glob_mutex, glob, temp, send_msg, file>> /\ Frame

(* Mutant: glob++ without the mutex.                                       *)
ReadUnlocked(t) ==
  /\ At(t, "lock")
  /\ glob_mutex' = TRUE
  /\ temp' = [temp EXCEPT ![t] = glob]
  /\ Goto(t, "incr")
  /\ UNCHANGED <<i, rand, sem, glob, send_msg, file>> /\ Frame

(* pthread_mutex_lock, and the read of glob++.                             *)
Lock(t) ==
  /\ At(t, "lock")
  /\ ~glob_mutex
  /\ glob_mutex' = TRUE
  /\ temp' = [temp EXCEPT ![t] = glob]
  /\ Goto(t, "incr")
  /\ UNCHANGED <<i, rand, sem, glob, send_msg, file>> /\ Frame

(* Mutant: the mutex is given back before the number is formatted.         *)
IncrementUnlock(t) ==
  /\ At(t, "incr")
  /\ glob' = temp[t] + 1
  /\ glob_mutex' = FALSE
  /\ Goto(t, "format")
  /\ UNCHANGED <<i, rand, sem, temp, send_msg, file>> /\ Frame

(* The write of glob++.                                                    *)
Increment(t) ==
  /\ At(t, "incr")
  /\ glob' = temp[t] + 1
  /\ Goto(t, "format")
  /\ UNCHANGED <<i, rand, sem, glob_mutex, temp, send_msg, file>> /\ Frame

(* sprintf reads glob a second time, then pthread_mutex_unlock.            *)
Format(t) ==
  /\ At(t, "format")
  /\ send_msg' = [send_msg EXCEPT ![t] = glob]
  /\ glob_mutex' = FALSE
  /\ Goto(t, "write")
  /\ UNCHANGED <<i, rand, sem, glob, temp, file>> /\ Frame

(* The line goes behind what is in the file, whoever put it there.         *)
file_handle_write(t) ==
  /\ At(t, "write")
  /\ file' = [file EXCEPT ![rand[t]] = Append(@, send_msg[t])]
  /\ Goto(t, "post")
  /\ UNCHANGED <<i, rand, sem, glob_mutex, glob, temp, send_msg>> /\ Frame

(* Mutant: case 1 posts the other file's semaphore.                        *)
PostOther(t) ==
  /\ At(t, "post")
  /\ sem' = [sem EXCEPT ![2] = @ + 1]
  /\ i' = [i EXCEPT ![t] = @ + 1]
  /\ Goto(t, IF i[t] + 1 < LOOPS THEN "pick" ELSE "done")
  /\ UNCHANGED <<rand, glob_mutex, glob, temp, send_msg, file>> /\ Frame

(* sem_post, and the for loop's test.                                      *)
sem_post(t) ==
  /\ At(t, "post")
  /\ sem' = [sem EXCEPT ![rand[t]] = @ + 1]
  /\ i' = [i EXCEPT ![t] = @ + 1]
  /\ Goto(t, IF i[t] + 1 < LOOPS THEN "pick" ELSE "done")
  /\ UNCHANGED <<rand, glob_mutex, glob, temp, send_msg, file>> /\ Frame

thread_handler(t) ==
  \/ random_int(t) \/ sem_wait(t) \/ Lock(t) \/ Increment(t) \/ Format(t)
  \/ file_handle_write(t) \/ sem_post(t)

(* The process has returned from main(), or nothing is known about it.     *)
Stopped == main \in {"done", "undefined"} /\ UNCHANGED vars

Next == Create \/ Join \/ (\E t \in Threads : thread_handler(t)) \/ Stopped

Spec == Init /\ [][Next]_vars

(* Every thread is scheduled; a thread waiting for a semaphore that is     *)
(* posted again and again gets it in the end: the rounds are finite.       *)
FairSpec ==
  /\ Spec
  /\ WF_vars(Create \/ Join)
  /\ \A t \in Threads : WF_vars(thread_handler(t))

-----------------------------------------------------------------------------
(* Type invariant.                                                         *)
TypeOK ==
  /\ main \in {"create", "join", "done", "undefined"} /\ index \in Threads
  /\ pc \in [Threads -> Steps]
  /\ i \in [Threads -> Nat]
  /\ rand \in [Threads -> Files]
  /\ sem \in [Files -> {0, 1}]
  /\ glob_mutex \in BOOLEAN
  /\ glob \in Nat
  /\ temp \in [Threads -> Nat]
  /\ send_msg \in [Threads -> Nat]
  /\ file \in [Files -> Seq(Nat)] /\ old \in [Files -> Seq(Nat)]

(* What this run has appended to each file.                                *)
appended ==
  [f \in Files |-> SubSeq(file[f], Len(old[f]) + 1, Len(file[f]))]

(* What this run appends to an output file is in increasing order, as the  *)
(* recorded output1.txt and output2.txt are, and stands behind all that    *)
(* was there: a number is drawn and appended under the file's semaphore,   *)
(* so no later number overtakes it on the way to the file.                 *)
Ascending(s) == \A m, n \in DOMAIN s : m < n => s[m] < s[n]
OldStays(f) ==
  Len(old[f]) <= Len(file[f]) /\ SubSeq(file[f], 1, Len(old[f])) = old[f]
FilesAscend == \A f \in Files : Ascending(appended[f]) /\ OldStays(f)

(* Between them the threads append every number once: when main() comes to *)
(* its end, 1 up to the number of rounds of the threads that were created. *)
Written == UNION {{appended[f][n] : n \in DOMAIN appended[f]} : f \in Files}
Created == {t \in Threads : pc[t] # "failed"}
EveryNumberOnce ==
  main = "done" =>
    /\ Written = 1 .. LOOPS * Cardinality(Created)
    /\ Len(appended[1]) + Len(appended[2]) = LOOPS * Cardinality(Created)

(* The program comes to its end: nobody waits for ever for a semaphore.    *)
Ends == <>(main \in {"done", "undefined"})

(* The program implements TicketLog: the moment glob is incremented, the   *)
(* number counts as written to the file whose semaphore the thread holds.  *)
(* The log is of this run: it starts with the counter.                     *)
Drawn(f) == {t \in Threads : pc[t] \in {"format", "write"} /\ rand[t] = f}
LogFile ==
  [f \in Files |->
     IF Drawn(f) = {} THEN appended[f]
     ELSE Append(appended[f], temp[CHOOSE t \in Drawn(f) : TRUE] + 1)]
Log == INSTANCE TicketLog WITH file <- LogFile
LogsTickets == Log!Spec
=============================================================================
