--------------------------- MODULE SpeedtestPool ---------------------------
(***************************************************************************)
(* The measuring half of Mini-Project/Application: main() arms a one-shot  *)
(* timer, starts a reporter thread and keeps THREAD_NUMBER slots filled    *)
(* with worker threads until SIGALRM sets thread_all_stop; it then joins   *)
(* one thread per slot and the reporter, clears the flag and does the same *)
(* again for the upload.  Workers move blocks over TCP (the HTTPS build:   *)
(* TLS for the download only), add them to a shared counter under a mutex  *)
(* and hand their slot back by clearing its running mark.                  *)
(***************************************************************************)
EXTENDS Naturals, FiniteSets

CONSTANTS
  THREAD_NUMBER,    \* slots of the pool (main.h: 3)
  USE_HTTPS,        \* the Makefile's build flag
  UL_BUFFER_TIMES,  \* blocks an upload worker sends (speedtest_upload.h: 10240)
  MaxBlocks,        \* bound: blocks a peer delivers to one download worker
  MaxThreads,       \* bound: worker threads the system creates in one run
  MaxFd             \* bound: sockets the process can have open

ASSUME PoolAssumption ==
  /\ THREAD_NUMBER \in Nat \ {0}
  /\ USE_HTTPS \in BOOLEAN
  /\ UL_BUFFER_TIMES \in Nat \ {0}
  /\ MaxBlocks \in Nat
  /\ MaxThreads \in Nat
  /\ MaxFd \in Nat

VARIABLES
  phase,            \* which of the two measurements main() is in
  main,             \* where main() stands in it
  index,            \* its loop variable i over the slots
  thread_all_stop,  \* the global flag the signal handler sets
  timer,            \* ITIMER_REAL: TRUE while an alarm is pending
  running,          \* thread[i].running, as a truth value
  target,           \* thread[i].request_url: the resource copied into the slot
  tid,              \* thread[i].tid
  worker,           \* per thread: the statement it executes next
  slot,             \* per thread: its thread_index
  kind,             \* per thread: download_thread or upload_thread
  asked,            \* per thread: the path and the host its request names
  fd,               \* per thread: its socket
  blocks,           \* per thread: blocks moved so far
  size,             \* per thread: the amount it is about to add
  loaded,           \* per thread: the counter value it read for +=
  mutex,            \* total_dl_size_mutex and total_ul_size_mutex: the holder
  total_size,       \* total_dl_size and total_ul_size, in blocks
  reporter,         \* the calculate_*_speed_thread of each measurement
  start_set,        \* start_dl_time / start_ul_time has been assigned
  reported          \* the amount behind the figure last printed

mainVars == <<phase, main, index, timer, start_set>>
slotVars == <<running, target, tid>>
workVars == <<worker, slot, kind, asked, fd, blocks, size, loaded>>
sumVars == <<mutex, total_size>>
repVars == <<reporter, reported>>
vars == <<mainVars, thread_all_stop, slotVars, workVars, sumVars, repVars>>

-----------------------------------------------------------------------------
Kinds == {"download", "upload"}
Slots == 0 .. THREAD_NUMBER - 1
Threads == 1 .. MaxThreads

(* Thread ids are positive, so 0 serves as "no thread" everywhere: a       *)
(* handle never written, and a mutex nobody holds.                         *)
NoThread == 0

MainSteps == {"arm", "spawn", "clock", "sweep", "test", "join",
              "joinReporter", "reset", "exit", "undefined"}

LiveSteps == {"connect", "handshake", "request", "recv", "send", "lock",
              "store", "check", "drain", "close", "release"}

WorkerSteps == LiveSteps \union {"unborn", "done", "joined"}

(* thread[i].domain_name: the one server every slot is given.              *)
Server == "server"

Names == Kinds \union {"none", Server}

Requests == [path : Names, host : Names]

NoRequest == [path |-> "none", host |-> "none"]

(* A thread that can still touch shared state.                             *)
Live(t) == worker[t] \in LiveSteps

(* The sockets that count against the descriptor limit: those in use and   *)
(* those nobody will ever close.                                           *)
OpenFds == {t \in Threads : fd[t] # "none"}

Init ==
  /\ phase = "download" /\ main = "arm" /\ index = 0
  /\ thread_all_stop = FALSE /\ timer = FALSE
  /\ running = [s \in Slots |-> FALSE]
  /\ target = [s \in Slots |-> "none"]
  /\ tid = [s \in Slots |-> NoThread]
  /\ worker = [t \in Threads |-> "unborn"]
  /\ slot = [t \in Threads |-> 0]
  /\ kind = [t \in Threads |-> "download"]
  /\ asked = [t \in Threads |-> NoRequest]
  /\ fd = [t \in Threads |-> "none"]
  /\ blocks = [t \in Threads |-> 0]
  /\ size = [t \in Threads |-> 0]
  /\ loaded = [t \in Threads |-> 0]
  /\ mutex = [k \in Kinds |-> NoThread]
  /\ total_size = [k \in Kinds |-> 0]
  /\ reporter = [k \in Kinds |-> "none"]
  /\ start_set = [k \in Kinds |-> FALSE]
  /\ reported = [k \in Kinds |-> 0]

-----------------------------------------------------------------------------
(* SIGALRM: the handler runs on whatever thread the kernel picks.          *)

stop_all_thread ==
  /\ timer
  /\ timer' = FALSE
  /\ thread_all_stop' = TRUE
  /\ UNCHANGED <<phase, main, index, start_set, slotVars, workVars, sumVars,
                 repVars>>

-----------------------------------------------------------------------------
(* main() and the dispatcher loops it calls.                               *)

(* Mutant: the one-shot timer is armed for the download only.              *)
ArmedOnce ==
  /\ main = "arm"
  /\ timer' = (phase = "download")
  /\ main' = "spawn"
  /\ UNCHANGED <<phase, index, start_set, thread_all_stop, slotVars, workVars,
                 sumVars, repVars>>

set_interval_timer ==
  /\ main = "arm"
  /\ timer' = TRUE
  /\ main' = "spawn"
  /\ UNCHANGED <<phase, index, start_set, thread_all_stop, slotVars, workVars,
                 sumVars, repVars>>

(* The result of this pthread_create is ignored as well: without a thread  *)
(* for the reporter the measurement goes on and prints nothing.            *)
SpawnReporter ==
  /\ main = "spawn"
  /\ reporter' \in {reporter, [reporter EXCEPT ![phase] = "sample"]}
  /\ main' = "clock"
  /\ UNCHANGED <<phase, index, timer, start_set, thread_all_stop, slotVars,
                 workVars, sumVars, reported>>

(* start_dl_time = get_uptime(), after the reporter has been started.      *)
StartClock ==
  /\ main = "clock"
  /\ start_set' = [start_set EXCEPT ![phase] = TRUE]
  /\ main' = "sweep" /\ index' = 0
  /\ UNCHANGED <<phase, timer, thread_all_stop, slotVars, workVars, sumVars,
                 repVars>>

(* One round of the for loop ends the sweep after the last slot.           *)
NextSlot ==
  IF index + 1 < THREAD_NUMBER
  THEN index' = index + 1 /\ main' = "sweep"
  ELSE index' = 0 /\ main' = "test"

(* The loop body: the request is copied into the slot on every sweep; a    *)
(* slot that is not marked running gets a new thread, whose handle         *)
(* overwrites the previous one.  The result of pthread_create is ignored:  *)
(* when the system is out of threads the slot is marked all the same and   *)
(* its handle, indeterminate by the standard, is the old one or no thread. *)
Dispatch ==
  /\ main = "sweep"
  /\ target' = [target EXCEPT ![index] = phase]
  /\ NextSlot
  /\ \/ /\ running[index]
        /\ UNCHANGED <<running, tid, workVars>>
     \/ /\ ~running[index]
        /\ running' = [running EXCEPT ![index] = TRUE]
        /\ \/ \E t \in Threads :
                /\ worker[t] = "unborn"
                /\ \A u \in Threads : worker[u] = "unborn" => t <= u
                /\ tid' = [tid EXCEPT ![index] = t]
                /\ worker' = [worker EXCEPT ![t] = "connect"]
                /\ slot' = [slot EXCEPT ![t] = index]
                /\ kind' = [kind EXCEPT ![t] = phase]
                /\ UNCHANGED <<asked, fd, blocks, size, loaded>>
           \/ /\ \A t \in Threads : worker[t] # "unborn"
              /\ tid' \in {tid, [tid EXCEPT ![index] = NoThread]}
              /\ UNCHANGED workVars
  /\ UNCHANGED <<phase, timer, start_set, thread_all_stop, sumVars, repVars>>

TestStop ==
  /\ main = "test"
  /\ main' = IF thread_all_stop THEN "join" ELSE "sweep"
  /\ UNCHANGED <<phase, index, timer, start_set, thread_all_stop, slotVars,
                 workVars, sumVars, repVars>>

(* Mutant: the loop variable is not advanced.                              *)
JoinAgain == UNCHANGED <<index, main>>

NextJoin ==
  IF index + 1 < THREAD_NUMBER
  THEN index' = index + 1 /\ UNCHANGED main
  ELSE index' = 0 /\ main' = "joinReporter"

JoinFrame ==
  UNCHANGED <<phase, timer, start_set, thread_all_stop, slotVars, slot, kind,
              asked, fd, blocks, size, loaded, sumVars, repVars>>

(* A handle pthread_join must not be given: never filled, or joined before. *)
Unjoinable(h) == h \in Threads => worker[h] = "joined"

(* Mutant: the workers are not waited for (as in Mini-Project/Ref/main.c). *)
JoinNobody ==
  /\ main = "join"
  /\ main' = "joinReporter"
  /\ UNCHANGED <<index, worker>>
  /\ JoinFrame

(* pthread_join waits for the thread in the slot's handle.  Given a handle *)
(* it must not be given, the call either comes back at once (its result is *)
(* ignored) or nothing is claimed about the program from there on.         *)
Join ==
  /\ main = "join"
  /\ \/ /\ tid[index] \in Threads
        /\ worker[tid[index]] = "done"
        /\ worker' = [worker EXCEPT ![tid[index]] = "joined"]
        /\ NextJoin
     \/ /\ Unjoinable(tid[index])
        /\ UNCHANGED worker
        /\ \/ NextJoin
           \/ main' = "undefined" /\ UNCHANGED index
  /\ JoinFrame

(* Both measurements keep their reporter in one handle.  A reporter that   *)
(* was never created leaves it unfilled, or filled with the download's,    *)
(* which has been joined: a handle pthread_join must not be given.         *)
JoinReporter ==
  /\ main = "joinReporter"
  /\ reporter[phase] \in {"done", "none"}
  /\ \/ main' = IF phase = "download" THEN "reset" ELSE "exit"
     \/ reporter[phase] = "none" /\ main' = "undefined"
  /\ UNCHANGED <<phase, index, timer, start_set, thread_all_stop, slotVars,
                 workVars, sumVars, repVars>>

(* sleep(2); thread_all_stop = 0, and on to the upload.                    *)
Reset ==
  /\ main = "reset"
  /\ thread_all_stop' = FALSE
  /\ phase' = "upload" /\ main' = "arm"
  /\ UNCHANGED <<index, timer, start_set, slotVars, workVars, sumVars, repVars>>

-----------------------------------------------------------------------------
(* The worker threads.                                                     *)

At(t, step) == worker[t] = step

Goto(t, step) == worker' = [worker EXCEPT ![t] = step]

(* What a worker's step never touches.                                     *)
WorkerFrame == UNCHANGED <<mainVars, thread_all_stop, target, tid, slot, kind,
                           repVars>>

(* init_connection: no socket at the descriptor limit; a socket whose      *)
(* connect() fails is never closed, the caller only sees -1.               *)
init_connection(t) ==
  /\ At(t, "connect")
  /\ \/ /\ Cardinality(OpenFds) >= MaxFd
        /\ Goto(t, "release")
        /\ UNCHANGED fd
     \/ /\ Cardinality(OpenFds) < MaxFd
        /\ fd' = [fd EXCEPT ![t] = "lost"]
        /\ Goto(t, "release")
     \/ /\ Cardinality(OpenFds) < MaxFd
        /\ fd' = [fd EXCEPT ![t] = "open"]
        /\ Goto(t, IF USE_HTTPS /\ kind[t] = "download"
                   THEN "handshake" ELSE "request")
  /\ UNCHANGED <<running, asked, blocks, size, loaded, sumVars>>
  /\ WorkerFrame

(* Mutant: the early return marks the slot free but keeps the socket.      *)
AbandonSocketOnly(t) ==
  /\ Goto(t, "done")
  /\ running' = [running EXCEPT ![slot[t]] = FALSE]
  /\ UNCHANGED <<fd, blocks, size, loaded, sumVars>>

(* Early return of https_download_thread: neither the socket nor the slot  *)
(* is given back.                                                          *)
Abandon(t) ==
  /\ Goto(t, "done")
  /\ UNCHANGED <<running, fd, blocks, size, loaded, sumVars>>

SSL_connect(t) ==
  /\ At(t, "handshake")
  /\ \/ Abandon(t)
     \/ /\ Goto(t, "request")
        /\ UNCHANGED <<running, fd, blocks, size, loaded, sumVars>>
  /\ UNCHANGED asked
  /\ WorkerFrame

(* The request line names the second of the two strings, Host: the first.  *)
build_http_get(domain_name, request_url) ==
  [path |-> request_url, host |-> domain_name]

build_http_post(domain_name, request_url) ==
  [path |-> request_url, host |-> domain_name]

(* The request is built from what the slot holds now.  upload_thread gives *)
(* build_http_post the two strings in the wrong order: it posts to the     *)
(* path /<server>, with its file's name as the Host.                       *)
RequestOf(t) ==
  IF kind[t] = "download" THEN build_http_get(Server, target[slot[t]])
  ELSE build_http_post(target[slot[t]], Server)

(* Building the request, and sending it.  A failed send ends a plain       *)
(* download, abandons a TLS download and is ignored by an upload, which    *)
(* goes on to add a size of zero.                                          *)
make_request(t) ==
  /\ At(t, "request")
  /\ asked' = [asked EXCEPT ![t] = RequestOf(t)]
  /\ \/ /\ Goto(t, IF kind[t] = "download" THEN "recv" ELSE "lock")
        /\ UNCHANGED <<running, fd, blocks, size, loaded, sumVars>>
     \/ /\ kind[t] = "download" /\ ~USE_HTTPS
        /\ Goto(t, "close")
        /\ UNCHANGED <<running, fd, blocks, size, loaded, sumVars>>
     \/ /\ kind[t] = "download" /\ USE_HTTPS
        /\ Abandon(t)
  /\ WorkerFrame

(* A download worker's select and recv (or SSL_read).  A peer that stays   *)
(* silent makes select time out and the loop go round without looking at   *)
(* thread_all_stop: no step of the model.  A block that arrives between    *)
(* the two calls is read but not counted.                                  *)
RecvData(t) ==
  /\ At(t, "recv")
  /\ blocks[t] < MaxBlocks
  /\ blocks' = [blocks EXCEPT ![t] = @ + 1]
  /\ \/ size' = [size EXCEPT ![t] = 1] /\ Goto(t, "lock")
     \/ UNCHANGED <<size, worker>>
  /\ UNCHANGED <<running, asked, fd, loaded, sumVars>>
  /\ WorkerFrame

RecvEnd(t) ==
  /\ At(t, "recv")
  /\ Goto(t, "close")
  /\ UNCHANGED <<running, asked, fd, blocks, size, loaded, sumVars>>
  /\ WorkerFrame

(* An upload worker's send: a short or failed one ends the worker.         *)
Send(t) ==
  /\ At(t, "send")
  /\ \/ /\ blocks' = [blocks EXCEPT ![t] = @ + 1]
        /\ size' = [size EXCEPT ![t] = 1]
        /\ Goto(t, "lock")
     \/ /\ Goto(t, "close")
        /\ UNCHANGED <<blocks, size>>
  /\ UNCHANGED <<running, asked, fd, loaded, sumVars>>
  /\ WorkerFrame

(* Mutant: += without the mutex.                                           *)
AddUnlocked(t) ==
  /\ At(t, "lock")
  /\ mutex' = [mutex EXCEPT ![kind[t]] = t]
  /\ loaded' = [loaded EXCEPT ![t] = total_size[kind[t]]]
  /\ Goto(t, "store")
  /\ UNCHANGED <<running, asked, fd, blocks, size, total_size>>
  /\ WorkerFrame

(* pthread_mutex_lock, and the read half of total_size += size.            *)
Lock(t) ==
  /\ At(t, "lock")
  /\ mutex[kind[t]] = NoThread
  /\ mutex' = [mutex EXCEPT ![kind[t]] = t]
  /\ loaded' = [loaded EXCEPT ![t] = total_size[kind[t]]]
  /\ Goto(t, "store")
  /\ UNCHANGED <<running, asked, fd, blocks, size, total_size>>
  /\ WorkerFrame

(* The write half, and pthread_mutex_unlock; the value read is done with.  *)
(* After its empty first addition an upload worker starts to send;         *)
(* otherwise the flag is next.                                             *)
Store(t) ==
  /\ At(t, "store")
  /\ total_size' = [total_size EXCEPT ![kind[t]] = loaded[t] + size[t]]
  /\ mutex' = [mutex EXCEPT ![kind[t]] = NoThread]
  /\ loaded' = [loaded EXCEPT ![t] = 0]
  /\ Goto(t, IF size[t] = 0 THEN "send" ELSE "check")
  /\ UNCHANGED <<running, asked, fd, blocks, size>>
  /\ WorkerFrame

(* Mutant: the flag is not looked at while data keeps moving.              *)
KeepGoing(t) ==
  /\ At(t, "check")
  /\ Goto(t, IF kind[t] = "download" THEN "recv"
             ELSE IF blocks[t] < UL_BUFFER_TIMES THEN "send" ELSE "drain")
  /\ UNCHANGED <<running, asked, fd, blocks, size, loaded, sumVars>>
  /\ WorkerFrame

CheckStop(t) ==
  /\ At(t, "check")
  /\ Goto(t, IF thread_all_stop THEN "close"
             ELSE IF kind[t] = "download" THEN "recv"
             ELSE IF blocks[t] < UL_BUFFER_TIMES THEN "send" ELSE "drain")
  /\ UNCHANGED <<running, asked, fd, blocks, size, loaded, sumVars>>
  /\ WorkerFrame

(* After its last block an upload worker reads until the peer closes; this *)
(* loop never looks at thread_all_stop.                                    *)
DrainEnd(t) ==
  /\ At(t, "drain")
  /\ Goto(t, "close")
  /\ UNCHANGED <<running, asked, fd, blocks, size, loaded, sumVars>>
  /\ WorkerFrame

(* Mutant: the slot is marked free before the socket is closed.            *)
FreeThenClose(t) ==
  /\ At(t, "close")
  /\ fd' = [fd EXCEPT ![t] = "none"]
  /\ running' = [running EXCEPT ![slot[t]] = FALSE]
  /\ Goto(t, "release")
  /\ UNCHANGED <<asked, blocks, size, loaded, sumVars>>
  /\ WorkerFrame

Close(t) ==
  /\ At(t, "close")
  /\ fd' = [fd EXCEPT ![t] = "none"]
  /\ Goto(t, "release")
  /\ UNCHANGED <<running, asked, blocks, size, loaded, sumVars>>
  /\ WorkerFrame

(* thread[i].running = 0; return.  The locals die with the thread.         *)
Release(t) ==
  /\ At(t, "release")
  /\ running' = [running EXCEPT ![slot[t]] = FALSE]
  /\ blocks' = [blocks EXCEPT ![t] = 0]
  /\ size' = [size EXCEPT ![t] = 0]
  /\ loaded' = [loaded EXCEPT ![t] = 0]
  /\ asked' = [asked EXCEPT ![t] = NoRequest]
  /\ Goto(t, "done")
  /\ UNCHANGED <<fd, sumVars>>
  /\ WorkerFrame

-----------------------------------------------------------------------------
(* calculate_dl_speed_thread and calculate_ul_speed_thread: print, sleep   *)
(* half a second, and after the stop print once more.  The counter is read *)
(* without its mutex.                                                      *)

ReporterFrame == UNCHANGED <<mainVars, thread_all_stop, slotVars, workVars,
                             sumVars>>

Sample(k) ==
  /\ reporter[k] = "sample"
  /\ reported' = [reported EXCEPT ![k] = total_size[k]]
  /\ reporter' = [reporter EXCEPT ![k] = "asleep"]
  /\ ReporterFrame

Wake(k) ==
  /\ reporter[k] = "asleep"
  /\ IF thread_all_stop
     THEN /\ reported' = [reported EXCEPT ![k] = total_size[k]]
          /\ reporter' = [reporter EXCEPT ![k] = "done"]
     ELSE /\ reporter' = [reporter EXCEPT ![k] = "sample"]
          /\ UNCHANGED reported
  /\ ReporterFrame

-----------------------------------------------------------------------------
MainStep ==
  \/ set_interval_timer \/ SpawnReporter \/ StartClock \/ Dispatch
  \/ TestStop \/ Join \/ JoinReporter \/ Reset

(* What a worker does by itself: every call below has a timeout or does    *)
(* not block.                                                              *)
WorkerStep(t) ==
  \/ init_connection(t) \/ SSL_connect(t) \/ make_request(t) \/ Send(t)
  \/ Lock(t) \/ Store(t) \/ CheckStop(t) \/ Close(t) \/ Release(t)

(* What needs the peer to say something.                                   *)
PeerStep(t) == RecvData(t) \/ RecvEnd(t) \/ DrainEnd(t)

(* The process has returned from main(), or nothing is known about it.     *)
Stopped == main \in {"exit", "undefined"} /\ UNCHANGED vars

Next ==
  \/ stop_all_thread
  \/ MainStep
  \/ \E t \in Threads : WorkerStep(t) \/ PeerStep(t)
  \/ \E k \in Kinds : Sample(k) \/ Wake(k)
  \/ Stopped

Spec == Init /\ [][Next]_vars

(* Every thread is scheduled and the pending alarm is delivered.  Nothing  *)
(* is assumed of the peers.                                                *)
Fairness ==
  /\ WF_vars(stop_all_thread)
  /\ WF_vars(MainStep)
  /\ \A t \in Threads : WF_vars(WorkerStep(t))
  /\ \A k \in Kinds : WF_vars(Sample(k) \/ Wake(k))

FairSpec == Spec /\ Fairness

-----------------------------------------------------------------------------
MainTypeOK ==
  /\ phase \in Kinds /\ main \in MainSteps /\ index \in Slots
  /\ thread_all_stop \in BOOLEAN /\ timer \in BOOLEAN
  /\ start_set \in [Kinds -> BOOLEAN]

SlotTypeOK ==
  /\ running \in [Slots -> BOOLEAN]
  /\ target \in [Slots -> Kinds \union {"none"}]
  /\ tid \in [Slots -> Threads \union {NoThread}]

WorkerTypeOK ==
  /\ worker \in [Threads -> WorkerSteps]
  /\ slot \in [Threads -> Slots]
  /\ kind \in [Threads -> Kinds]
  /\ asked \in [Threads -> Requests]
  /\ fd \in [Threads -> {"none", "open", "lost"}]

CountTypeOK ==
  /\ blocks \in [Threads -> Nat]
  /\ size \in [Threads -> {0, 1}]
  /\ loaded \in [Threads -> Nat]
  /\ mutex \in [Kinds -> Threads \union {NoThread}]
  /\ total_size \in [Kinds -> Nat]
  /\ reporter \in [Kinds -> {"none", "sample", "asleep", "done"}]
  /\ reported \in [Kinds -> Nat]

(* Type invariant: every variable stays within the values the code can     *)
(* give it, the loop variable within the slots.                            *)
TypeOK == MainTypeOK /\ SlotTypeOK /\ WorkerTypeOK /\ CountTypeOK

(* Two threads that are still running never work in the same slot: the     *)
(* dispatcher reads thread[i].running without a lock, and a worker clears  *)
(* it as the last thing it does.                                           *)
OneWorkerPerSlot ==
  \A t, u \in Threads : Live(t) /\ Live(u) /\ slot[t] = slot[u] => t = u

(* No addition is lost: what a worker read before += is still the value of *)
(* the counter when it writes the sum back, over both measurements.        *)
NoLostUpdate ==
  \A t \in Threads : At(t, "store") => loaded[t] = total_size[kind[t]]

(* thread_all_stop goes back to zero only after every worker, and the      *)
(* reporter if one could be created, has seen it: a thread that missed the *)
(* flag would run on through the next measurement.                         *)
ClearedWhenQuiet ==
  thread_all_stop /\ ~thread_all_stop' =>
    /\ \A t \in Threads : ~Live(t)
    /\ reporter[phase] \in {"done", "none"}
StopClearedOnlyWhenQuiet == [][ClearedWhenQuiet]_vars

(* The reporter starts before its start time is taken and divides by the   *)
(* uptime instead; whatever it prints until then is a speed of zero.       *)
EarlySpeedIsZero ==
  \A k \in Kinds : ~start_set[k] => total_size[k] = 0 /\ reported[k] = 0

(* The last figure printed misses at most two blocks per slot: one of the  *)
(* worker that had not seen the stop, one of the thread that the sweep     *)
(* under way put in its place.                                             *)
ReportMissesLittle ==
  \A k \in Kinds : reporter[k] = "done" =>
    total_size[k] <= reported[k] + 2 * THREAD_NUMBER

(* pthread_join is only misused for the reporter that could not be created *)
(* or at a slot that is marked running with nobody working in it, after a  *)
(* failed pthread_create or an abandoned slot: never by joining a thread   *)
(* twice while every creation succeeds and no slot is abandoned.           *)
SlotLeaked(s) == running[s] /\ \A t \in Threads : Live(t) => slot[t] # s
UndefinedJoinOnlyAfterLeak ==
  main = "undefined" =>
    reporter[phase] = "none" \/ \E s \in Slots : SlotLeaked(s)

(* A thread that ended with its socket still open is an abandoned one, and *)
(* took its slot with it: one leak per slot at most, never one per retry.  *)
OpenSocketKeepsItsSlot ==
  \A t \in Threads : worker[t] \in {"done", "joined"} /\ fd[t] = "open" =>
    running[slot[t]] /\ tid[slot[t]] = t

(* A worker's request holds the name of its own measurement's file and     *)
(* never of the other's, though it reads it from the slot the dispatcher   *)
(* keeps rewriting.  Only a download asks its server for that file: an     *)
(* upload, with the strings of build_http_post the wrong way round, always *)
(* posts to a path named after the server and gives its file as the host.  *)
RequestMatchesPhase ==
  \A t \in Threads : Live(t) /\ asked[t] # NoRequest =>
    IF kind[t] = "download"
    THEN asked[t] = [path |-> "download", host |-> Server]
    ELSE asked[t] = [path |-> Server, host |-> "upload"]

(* The program ends, unless main() waits for ever for a thread whose peer  *)
(* neither sends nor closes.  (A wrong pthread_join ends the claim too.)   *)
EndsUnlessPeerSilent ==
  \/ <>(main \in {"exit", "undefined"})
  \/ <>[](main = "join" /\ tid[index] \in Threads
          /\ worker[tid[index]] \in {"recv", "drain"})

(* The pool implements the two measurements: every block is credited to    *)
(* the measurement in progress, exactly once, and none after its end.      *)
M == INSTANCE Measurement WITH phase <- IF main = "exit" THEN "over" ELSE phase
Measures == M!Spec
=============================================================================
