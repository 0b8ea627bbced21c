------------------------------ MODULE RefPool ------------------------------
(***************************************************************************)
(* The measuring half of Mini-Project/Ref/main.c, the program the          *)
(* Application was rewritten from.  It has the same slots, workers and     *)
(* reporters, so its state is SpeedtestPool's, and a step that is the same *)
(* in both programs is that module's.  It differs in what it leaves out:   *)
(* nobody joins a worker or a reporter, so threads of the download run on  *)
(* into the upload; one mutex guards both counters; and the timer's        *)
(* interval is never assigned before setitimer() reads it.                 *)
(***************************************************************************)
EXTENDS SpeedtestPool

VARIABLE it_interval  \* what timerVal.it_interval happens to hold

refVars == <<vars, it_interval>>

(* What the uninitialised field can mean to setitimer(): no repetition, a  *)
(* repeated alarm, or a time it refuses with EINVAL.                       *)
Intervals == {"zero", "repeat", "invalid"}

RefInit == Init /\ it_interval \in Intervals

-----------------------------------------------------------------------------
(* SIGALRM.  With a repeating timer the next alarm is pending at once.     *)
RefAlarm ==
  /\ timer
  /\ thread_all_stop' = TRUE
  /\ timer' = (it_interval = "repeat")
  /\ UNCHANGED <<phase, main, index, start_set, slotVars, workVars, sumVars,
                 repVars>>

(* Mutant: the upload's setitimer() is forgotten.                          *)
ArmDownloadOnly ==
  /\ main = "arm"
  /\ timer' = (timer \/ (phase = "download" /\ it_interval # "invalid"))
  /\ main' = "spawn"
  /\ UNCHANGED <<phase, index, start_set, thread_all_stop, slotVars, workVars,
                 sumVars, repVars>>

(* setitimer(ITIMER_REAL, &timerVal, NULL), before each measurement; that  *)
(* it can fail is not looked at.                                           *)
setitimer ==
  /\ main = "arm"
  /\ timer' = (it_interval # "invalid")
  /\ main' = "spawn"
  /\ UNCHANGED <<phase, index, start_set, thread_all_stop, slotVars, workVars,
                 sumVars, repVars>>

(* The loops of speedtest_download and speedtest_upload end with the flag, *)
(* and main() goes on without a join: to the upload, or out of main().     *)
RefTestStop ==
  /\ main = "test"
  /\ main' = CASE ~thread_all_stop -> "sweep"
               [] thread_all_stop /\ phase = "download" -> "reset"
               [] thread_all_stop /\ phase = "upload" -> "exit"
  /\ UNCHANGED <<phase, index, timer, start_set, thread_all_stop, slotVars,
                 workVars, sumVars, repVars>>

(* A slot that is not marked running is marked and gets a new thread, if   *)
(* there is one to be had: the result of pthread_create is ignored, and so *)
(* is, in all of the program, the handle.                                  *)
Create(start_routine) ==
  \/ running[index] /\ UNCHANGED <<running, tid, workVars>>
  \/ /\ ~running[index]
     /\ running' = [running EXCEPT ![index] = TRUE]
     /\ \/ \E t \in Threads :
             /\ worker[t] = "unborn"
             /\ \A u \in Threads : worker[u] = "unborn" => t <= u
             /\ tid' = [tid EXCEPT ![index] = t]
             /\ worker' = [worker EXCEPT ![t] = "connect"]
             /\ slot' = [slot EXCEPT ![t] = index]
             /\ kind' = [kind EXCEPT ![t] = start_routine]
             /\ UNCHANGED <<asked, fd, blocks, size, loaded>>
        \/ /\ \A t \in Threads : worker[t] # "unborn"
           /\ UNCHANGED <<tid, workVars>>

(* Mutant: the upload's loop creates download threads.                     *)
CreateDownload == Create("download")

CreateIfFree == Create(phase)

(* Mutant: the name of the file is copied only when a slot is first used.  *)
CopyOnce ==
  /\ main = "sweep"
  /\ target' = IF target[index] = "none"
               THEN [target EXCEPT ![index] = phase] ELSE target
  /\ CreateIfFree
  /\ NextSlot
  /\ UNCHANGED <<phase, timer, start_set, thread_all_stop, sumVars, repVars>>

(* The loop body: the name is copied into the slot whoever works in it.    *)
FillSlot ==
  /\ main = "sweep"
  /\ target' = [target EXCEPT ![index] = phase]
  /\ CreateIfFree
  /\ NextSlot
  /\ UNCHANGED <<phase, timer, start_set, thread_all_stop, sumVars, repVars>>

(* The clock is started by the function that then fills the slots.         *)
speedtest_download == phase = "download" /\ (StartClock \/ FillSlot \/ RefTestStop)

speedtest_upload == phase = "upload" /\ (StartClock \/ FillSlot \/ RefTestStop)

-----------------------------------------------------------------------------
(* The worker threads.                                                     *)

(* Mutant: a socket that could not connect is dropped, not closed.         *)
ConnectOrLeak(t) ==
  /\ At(t, "connect")
  /\ \/ Goto(t, "release") /\ UNCHANGED fd
     \/ /\ fd' = [fd EXCEPT ![t] = "open"]
        /\ Goto(t, "request") \/ Goto(t, "release")
  /\ UNCHANGED <<running, asked, blocks, size, loaded, sumVars>>
  /\ WorkerFrame

(* socket() and connect(), each of which may fail.  Without a socket there *)
(* is nothing to close (fd is -1); one that could not connect is closed at *)
(* the label err.                                                          *)
Connect(t) ==
  /\ At(t, "connect")
  /\ \/ Goto(t, "release") /\ UNCHANGED fd
     \/ /\ fd' = [fd EXCEPT ![t] = "open"]
        /\ Goto(t, "request") \/ Goto(t, "close")
  /\ UNCHANGED <<running, asked, blocks, size, loaded, sumVars>>
  /\ WorkerFrame

(* Both workers print their request themselves, and get path and host the  *)
(* right way round; it names what the slot holds now.  An upload counts    *)
(* its header with the data; a request that could not be sent ends either  *)
(* worker.                                                                 *)
SendRequest(t) ==
  /\ At(t, "request")
  /\ asked' = [asked EXCEPT ![t] = [path |-> target[slot[t]], host |-> Server]]
  /\ \/ /\ kind[t] = "download" /\ Goto(t, "recv") /\ UNCHANGED size
     \/ /\ kind[t] = "upload" /\ Goto(t, "lock")
        /\ size' = [size EXCEPT ![t] = 1]
     \/ Goto(t, "close") /\ UNCHANGED size
  /\ UNCHANGED <<running, fd, blocks, loaded, sumVars>>
  /\ WorkerFrame

(* The one mutex of the program is kept in one place of the pool's pair.   *)
pthread_mutex == "download"

(* Mutant: the addition is done without pthread_mutex_lock.                *)
LockNothing(t) ==
  /\ At(t, "lock")
  /\ mutex' = [mutex EXCEPT ![pthread_mutex] = t]
  /\ loaded' = [loaded EXCEPT ![t] = total_size[kind[t]]]
  /\ Goto(t, "store")
  /\ UNCHANGED <<running, asked, fd, blocks, size, total_size>>
  /\ WorkerFrame

LockBoth(t) ==
  /\ At(t, "lock")
  /\ mutex[pthread_mutex] = NoThread
  /\ mutex' = [mutex EXCEPT ![pthread_mutex] = t]
  /\ loaded' = [loaded EXCEPT ![t] = total_size[kind[t]]]
  /\ Goto(t, "store")
  /\ UNCHANGED <<running, asked, fd, blocks, size, total_size>>
  /\ WorkerFrame

(* The counter is the worker's own.  After its header an upload starts to  *)
(* send; otherwise the flag is looked at.                                  *)
StoreOwn(t) ==
  /\ At(t, "store")
  /\ total_size' = [total_size EXCEPT ![kind[t]] = loaded[t] + size[t]]
  /\ mutex' = [mutex EXCEPT ![pthread_mutex] = NoThread]
  /\ loaded' = [loaded EXCEPT ![t] = 0]
  /\ Goto(t, IF kind[t] = "upload" /\ blocks[t] = 0 THEN "send" ELSE "check")
  /\ UNCHANGED <<running, asked, fd, blocks, size>>
  /\ WorkerFrame

(* Mutant: the slot is marked free before the socket is closed.            *)
EndFreesFirst(t) == FreeThenClose(t) \/ Release(t)

(* What both kinds of worker end with: close(fd), running = 0.             *)
End(t) == Close(t) \/ Release(t)

download_thread(t) ==
  /\ kind[t] = "download"
  /\ \/ Connect(t) \/ SendRequest(t) \/ RecvData(t) \/ RecvEnd(t)
     \/ LockBoth(t) \/ StoreOwn(t) \/ CheckStop(t) \/ End(t)

upload_thread(t) ==
  /\ kind[t] = "upload"
  /\ \/ Connect(t) \/ SendRequest(t) \/ Send(t) \/ DrainEnd(t)
     \/ LockBoth(t) \/ StoreOwn(t) \/ CheckStop(t) \/ End(t)

-----------------------------------------------------------------------------
(* The reporters.  The figures they print are left out here, and with them *)
(* the laps that only print: what stays is whether a reporter has seen the *)
(* stop.  One that sleeps from before the flag is set until after it is    *)
(* cleared goes on through the upload, next to the upload's own.           *)
SeeStop(k) ==
  /\ reporter[k] = "sample" /\ thread_all_stop
  /\ reporter' = [reporter EXCEPT ![k] = "done"]
  /\ UNCHANGED reported
  /\ ReporterFrame

calculate_dl_speed_thread == SeeStop("download")

calculate_ul_speed_thread == SeeStop("upload")

RefMain ==
  \/ setitimer \/ SpawnReporter \/ speedtest_download \/ speedtest_upload
  \/ Reset

(* The return from main() ends every thread of the process.                *)
RefStep ==
  /\ main # "exit"
  /\ \/ RefAlarm
     \/ RefMain
     \/ \E t \in Threads : download_thread(t) \/ upload_thread(t)
     \/ calculate_dl_speed_thread \/ calculate_ul_speed_thread
  /\ UNCHANGED it_interval

Exited == main = "exit" /\ UNCHANGED refVars

RefNext == RefStep \/ Exited

RefSpec == RefInit /\ [][RefNext]_refVars

(* Only main() and the alarm need to be scheduled: main() waits for nobody. *)
RefFairSpec ==
  /\ RefSpec
  /\ WF_refVars(RefAlarm /\ main # "exit" /\ UNCHANGED it_interval)
  /\ WF_refVars(RefMain /\ UNCHANGED it_interval)

-----------------------------------------------------------------------------
(* Threads of the download that are still at work in the upload.           *)
LeftOver == {t \in Threads : Live(t) /\ kind[t] # phase}

(* Type invariant, and what the lack of joins leaves true of main(): it    *)
(* never stands at one, and a handle is never used.                        *)
RefTypeOK ==
  /\ TypeOK
  /\ it_interval \in Intervals
  /\ main \notin {"join", "joinReporter", "undefined"}

(* However long the workers of the download outlive it, the process never  *)
(* has more sockets open than slots: a left-over thread still holds its    *)
(* slot, and every way out of a worker closes what it opened.              *)
SocketsBounded == Cardinality(OpenFds) <= THREAD_NUMBER

(* A request for the wrong file is only ever made by a thread left over    *)
(* from the download, whose slot the upload's dispatcher has rewritten     *)
(* under it; an upload never posts to the file of the download.            *)
StrayRequestsAreLeftOver ==
  \A t \in Threads : Live(t) /\ asked[t].path \notin {"none", kind[t]} =>
    phase = "upload" /\ t \in LeftOver

(* The program ends on its own once the kernel has accepted the timer,     *)
(* whatever peers and threads do, because it waits for none of them.       *)
EndsIfArmed == it_interval # "invalid" => <>(main = "exit")

(* The two measurements, overlapping: while the upload is measured the     *)
(* download's counter grows only by threads left over from it.             *)
O == INSTANCE OverlappingMeasurement
       WITH Workers <- Threads,
            phase <- IF main = "exit" THEN "over" ELSE phase,
            tail <- IF main = "exit" THEN {} ELSE LeftOver
Overlaps == O!Spec
=============================================================================
