--------------------------- MODULE RefPoolProofs ---------------------------
(***************************************************************************)
(* What holds of Ref's worker pool, in which nobody is joined, for every   *)
(* number of slots, threads and blocks.                                    *)
(***************************************************************************)
EXTENDS RefPool, SpeedtestPoolProofs, FiniteSetTheorems

USE DEF Kinds, Live, LiveSteps, At

-----------------------------------------------------------------------------
(* The steps of the two threads, one by one.                               *)
LEMMA ThreadSteps ==
  ASSUME NEW t \in Threads, download_thread(t) \/ upload_thread(t)
  PROVE  \/ Connect(t) \/ SendRequest(t) \/ LockBoth(t) \/ StoreOwn(t)
         \/ WorkerStep(t) \/ PeerStep(t)
BY DEF download_thread, upload_thread, End, WorkerStep, PeerStep

(* Of main()'s steps, FillSlot is a Dispatch of the pool.                  *)
LEMMA FillIsDispatch == FillSlot => Dispatch
BY DEF FillSlot, CreateIfFree, Create, Dispatch

LEMMA MainSplit ==
  ASSUME RefMain
  PROVE  \/ setitimer \/ RefTestStop \/ FillSlot
         \/ SpawnReporter \/ StartClock \/ Reset
BY DEF RefMain, speedtest_download, speedtest_upload

-----------------------------------------------------------------------------
(* Type correctness.                                                       *)
LEMMA RefTypeMain ==
  ASSUME RefTypeOK, RefMain, UNCHANGED it_interval
  PROVE  RefTypeOK'
<1> USE DEF RefTypeOK, slotVars, workVars, sumVars, repVars
<1>1. CASE FillSlot
  <2>1. main' \in {"sweep", "test"}
    BY <1>1 DEF FillSlot, NextSlot
  <2>2. MainStep
    BY <1>1, FillIsDispatch DEF MainStep
  <2> QED BY <2>1, <2>2, TypeMain
<1>2. CASE SpawnReporter \/ StartClock \/ Reset
  <2>1. MainStep /\ main' \in {"clock", "sweep", "arm"}
    BY <1>2 DEF MainStep, SpawnReporter, StartClock, Reset
  <2> QED BY <2>1, TypeMain
<1>3. CASE setitimer \/ RefTestStop
  <2>1. /\ main' \in {"spawn", "sweep", "reset", "exit"} /\ timer' \in BOOLEAN
        /\ UNCHANGED <<phase, index, start_set, thread_all_stop, slotVars,
                       workVars, sumVars, repVars>>
    BY <1>3 DEF setitimer, RefTestStop, TypeOK, MainTypeOK
  <2>2. MainTypeOK'
    BY <2>1 DEF TypeOK, MainTypeOK, MainSteps
  <2>3. SlotTypeOK' /\ WorkerTypeOK' /\ CountTypeOK'
    BY <2>1 DEF TypeOK, SlotTypeOK, WorkerTypeOK, CountTypeOK
  <2> QED BY <2>1, <2>2, <2>3 DEF TypeOK
<1> QED BY <1>1, <1>2, <1>3, MainSplit

LEMMA RefTypeThread ==
  ASSUME RefTypeOK, NEW t \in Threads, UNCHANGED it_interval,
         download_thread(t) \/ upload_thread(t)
  PROVE  RefTypeOK'
<1> USE DEF RefTypeOK, TypeOK, WorkerFrame, Goto, mainVars, slotVars, sumVars,
            repVars, pthread_mutex
<1>1. CASE WorkerStep(t) \/ PeerStep(t)
  <2>1. UNCHANGED main
    BY <1>1, WorkerMoves
  <2> QED BY <1>1, <2>1, TypeWorker
<1>2. CASE Connect(t) \/ SendRequest(t) \/ LockBoth(t) \/ StoreOwn(t)
  <2>1. MainTypeOK' /\ main' = main
    BY <1>2 DEF Connect, SendRequest, LockBoth, StoreOwn, MainTypeOK
  <2>2. SlotTypeOK'
    BY <1>2 DEF Connect, SendRequest, LockBoth, StoreOwn, SlotTypeOK
  <2>3. WorkerTypeOK'
    <3> USE DEF WorkerTypeOK, SlotTypeOK, WorkerSteps
    <3>1. [path |-> target[slot[t]], host |-> Server] \in Requests
      BY DEF Requests, Names
    <3>2. CASE Connect(t) \/ LockBoth(t) \/ StoreOwn(t)
      BY <3>2 DEF Connect, LockBoth, StoreOwn
    <3>3. CASE SendRequest(t)
      BY <3>1, <3>3 DEF SendRequest
    <3> QED BY <1>2, <3>2, <3>3
  <2>4. CountTypeOK'
    <3> USE DEF CountTypeOK, WorkerTypeOK
    <3>1. CASE Connect(t) \/ SendRequest(t) \/ LockBoth(t)
      BY <3>1 DEF Connect, SendRequest, LockBoth
    <3>2. CASE StoreOwn(t)
      <4>1. loaded[t] \in Nat /\ size[t] \in {0, 1}
        OBVIOUS
      <4>2. loaded[t] + size[t] \in Nat
        BY <4>1
      <4>3. total_size' \in [Kinds -> Nat]
        BY <3>2, <4>2 DEF StoreOwn
      <4> QED BY <3>2, <4>3 DEF StoreOwn
    <3> QED BY <1>2, <3>1, <3>2
  <2> QED BY <2>1, <2>2, <2>3, <2>4
<1> QED BY <1>1, <1>2, ThreadSteps

LEMMA RefTypeOthers ==
  ASSUME RefTypeOK,
         \/ RefAlarm /\ UNCHANGED it_interval
         \/ (\E k \in Kinds : SeeStop(k)) /\ UNCHANGED it_interval
         \/ UNCHANGED refVars
  PROVE  RefTypeOK'
<1> USE DEF RefTypeOK, TypeOK, mainVars, slotVars, workVars, sumVars, repVars,
            vars, refVars
<1>1. MainTypeOK' /\ main' = main /\ it_interval' = it_interval
  BY DEF MainTypeOK, RefAlarm, SeeStop, ReporterFrame
<1>2. SlotTypeOK' /\ WorkerTypeOK'
  BY DEF SlotTypeOK, WorkerTypeOK, RefAlarm, SeeStop, ReporterFrame
<1>3. CountTypeOK'
  BY DEF CountTypeOK, RefAlarm, SeeStop, ReporterFrame
<1> QED BY <1>1, <1>2, <1>3

(* A step of the program is one of these three kinds.                      *)
LEMMA RefSplit ==
  ASSUME [RefNext]_refVars
  PROVE  \/ main # "exit" /\ RefMain /\ UNCHANGED it_interval
         \/ /\ main # "exit" /\ UNCHANGED it_interval
            /\ \E t \in Threads : download_thread(t) \/ upload_thread(t)
         \/ RefAlarm /\ UNCHANGED it_interval
         \/ (\E k \in Kinds : SeeStop(k)) /\ UNCHANGED it_interval
         \/ UNCHANGED refVars
BY DEF RefNext, RefStep, Exited, calculate_dl_speed_thread,
       calculate_ul_speed_thread

(* Every variable keeps its type, and main() never joins.                  *)
THEOREM RefTypeCorrect == RefSpec => []RefTypeOK
<1>1. RefInit => RefTypeOK
  BY TypeInit DEF RefInit, RefTypeOK, Init
<1>2. RefTypeOK /\ [RefNext]_refVars => RefTypeOK'
  BY RefSplit, RefTypeMain, RefTypeThread, RefTypeOthers
<1> QED BY <1>1, <1>2, PTL DEF RefSpec

-----------------------------------------------------------------------------
(* The inductive invariant.  Without joins a thread at work still owns its *)
(* slot; it may be left over from the download, and its slot then names    *)
(* either its own file or the upload's.  A thread that is not at work has  *)
(* neither a socket nor a request.                                         *)
Owned ==
  \A t \in Threads : Live(t) =>
    /\ running[slot[t]] /\ tid[slot[t]] = t
    /\ kind[t] = phase \/ phase = "upload"
    /\ target[slot[t]] \in {kind[t], phase}

Idle ==
  \A t \in Threads :
    /\ fd[t] = "open" => Live(t) /\ ~At(t, "connect") /\ ~At(t, "release")
    /\ fd[t] \in {"none", "open"}
    /\ ~Live(t) => asked[t].path = "none"
    /\ asked[t].path \in {"none", kind[t], phase}

Guarded ==
  \A t \in Threads : At(t, "store") =>
    mutex[pthread_mutex] = t /\ loaded[t] = total_size[kind[t]]

RefPhase ==
  /\ main = "reset" => phase = "download"
  /\ main = "exit" => phase = "upload"

RefInv == Owned /\ Idle /\ Guarded /\ RefPhase

LEMMA RefInvInit == RefInit => RefInv
BY Zero DEF RefInit, Init, RefInv, Owned, Idle, Guarded, RefPhase, NoRequest

(* main(): starting the upload only makes every thread a left-over one.    *)
LEMMA RefInvMain ==
  ASSUME RefTypeOK, RefInv, RefMain
  PROVE  RefInv'
<1> USE DEF RefInv, slotVars, workVars, sumVars, repVars
<1>t. TypeOK
  BY DEF RefTypeOK
<1>1. CASE setitimer \/ RefTestStop \/ SpawnReporter \/ StartClock
  <2>1. UNCHANGED <<phase, slotVars, workVars, sumVars>>
    BY <1>1 DEF setitimer, RefTestStop, SpawnReporter, StartClock
  <2>2. RefPhase'
    BY <1>1, <1>t DEF RefPhase, setitimer, RefTestStop, SpawnReporter, StartClock,
                      TypeOK, MainTypeOK
  <2>3. Owned' /\ Idle' /\ Guarded'
    BY <2>1 DEF Owned, Idle, Guarded
  <2> QED BY <2>2, <2>3
<1>2. CASE Reset
  <2>1. /\ phase = "download" /\ phase' = "upload" /\ main' = "arm"
        /\ UNCHANGED <<slotVars, workVars, sumVars>>
    BY <1>2 DEF Reset, RefPhase
  <2>2. Owned'
    BY <2>1 DEF Owned
  <2>3. Idle'
    <3>1. \A t \in Threads : Live(t) => kind[t] = "download"
      BY <2>1 DEF Owned
    <3> QED BY <2>1, <3>1 DEF Idle
  <2> QED BY <2>1, <2>2, <2>3 DEF Guarded, RefPhase
<1>3. CASE FillSlot
  <2>1. /\ index \in Slots /\ main' \in {"sweep", "test"}
        /\ UNCHANGED <<phase, sumVars, asked, fd, loaded>>
        /\ target' = [target EXCEPT ![index] = phase]
    BY <1>3, <1>t DEF FillSlot, NextSlot, CreateIfFree, Create, TypeOK, MainTypeOK
  <2>2. RefPhase'
    BY <2>1 DEF RefPhase
  <2>3. CASE UNCHANGED workVars
    <3>1. \A s \in Slots : running[s] => running'[s] /\ tid'[s] = tid[s]
      <4>1. CASE running[index]
        BY <1>3, <4>1, <1>t DEF FillSlot, CreateIfFree, Create
      <4>2. CASE ~running[index]
        <5>1. running' = [running EXCEPT ![index] = TRUE]
          BY <1>3, <4>2 DEF FillSlot, CreateIfFree, Create
        <5>2. \A s \in Slots : s # index => tid'[s] = tid[s]
          BY <1>3, <4>2, <1>t DEF FillSlot, CreateIfFree, Create, TypeOK, SlotTypeOK
        <5> QED BY <4>2, <5>1, <5>2, <1>t DEF TypeOK, SlotTypeOK
      <4> QED BY <4>1, <4>2
    <3>2. Owned'
      BY <2>1, <2>3, <3>1, <1>t DEF Owned, TypeOK, SlotTypeOK, WorkerTypeOK
    <3> QED BY <2>1, <2>2, <2>3, <3>2 DEF Idle, Guarded
  <2>4. ASSUME NEW u \in Threads,
               ~running[index], worker[u] = "unborn",
               running' = [running EXCEPT ![index] = TRUE],
               tid' = [tid EXCEPT ![index] = u],
               worker' = [worker EXCEPT ![u] = "connect"],
               slot' = [slot EXCEPT ![u] = index],
               kind' = [kind EXCEPT ![u] = phase]
        PROVE  RefInv'
    <3> USE <2>4
    <3>1. Owned'
      BY <2>1, <1>t DEF Owned, TypeOK, SlotTypeOK, WorkerTypeOK
    <3>2. Idle'
      BY <2>1, <1>t DEF Idle, TypeOK, WorkerTypeOK
    <3>3. Guarded'
      BY <2>1, <1>t DEF Guarded, TypeOK, WorkerTypeOK
    <3> QED BY <2>2, <3>1, <3>2, <3>3
  <2> QED BY <1>3, <2>3, <2>4 DEF FillSlot, CreateIfFree, Create
<1> QED BY <1>1, <1>2, <1>3, MainSplit

(* A thread's step moves that thread only.                                 *)
LEMMA ThreadMoves ==
  ASSUME RefTypeOK, NEW t \in Threads, download_thread(t) \/ upload_thread(t)
  PROVE  /\ Live(t) /\ worker' = [worker EXCEPT ![t] = worker'[t]]
         /\ UNCHANGED <<phase, main, target, tid, slot, kind>>
         /\ \/ UNCHANGED running /\ Live(t)'
            \/ /\ Release(t) /\ At(t, "release") /\ ~Live(t)'
               /\ running' = [running EXCEPT ![slot[t]] = FALSE]
<1> USE DEF RefTypeOK, TypeOK, WorkerTypeOK, WorkerFrame, mainVars, repVars, Goto
<1>1. CASE Connect(t) \/ SendRequest(t) \/ LockBoth(t) \/ StoreOwn(t)
  BY <1>1 DEF Connect, SendRequest, LockBoth, StoreOwn
<1>2. CASE RecvData(t) \/ RecvEnd(t) \/ Send(t) \/ DrainEnd(t) \/ CheckStop(t)
           \/ Close(t)
  BY <1>2 DEF RecvData, RecvEnd, Send, DrainEnd, CheckStop, Close
<1>3. CASE Release(t)
  BY <1>3 DEF Release
<1> QED BY <1>1, <1>2, <1>3 DEF download_thread, upload_thread, End

(* Only the mutex's holder writes a counter.                               *)
LEMMA GuardedStep ==
  ASSUME RefTypeOK, RefInv, NEW t \in Threads,
         download_thread(t) \/ upload_thread(t)
  PROVE  /\ Guarded'
         /\ \/ UNCHANGED total_size
            \/ /\ StoreOwn(t)
               /\ total_size' = [total_size EXCEPT ![kind[t]] = @ + size[t]]
<1> USE DEF RefTypeOK, TypeOK, WorkerTypeOK, CountTypeOK, Goto, pthread_mutex
<1>1. /\ worker' = [worker EXCEPT ![t] = worker'[t]] /\ UNCHANGED kind
      /\ Guarded
  BY ThreadMoves DEF RefInv
<1>2. CASE LockBoth(t)
  BY <1>1, <1>2, Zero DEF LockBoth, Guarded
<1>3. CASE StoreOwn(t)
  <2>1. total_size' = [total_size EXCEPT ![kind[t]] = @ + size[t]]
    BY <1>1, <1>3 DEF StoreOwn, Guarded
  <2>2. \A u \in Threads : At(u, "store") => u = t
    BY <1>1, <1>3 DEF StoreOwn, Guarded
  <2>3. \A u \in Threads : ~At(u, "store")'
    BY <1>1, <1>3, <2>2 DEF StoreOwn
  <2> QED BY <1>3, <2>1, <2>3 DEF Guarded
<1>4. CASE Release(t)
  BY <1>1, <1>4 DEF Release, Guarded, sumVars
<1>5. CASE Connect(t) \/ SendRequest(t) \/ RecvData(t) \/ RecvEnd(t) \/ Send(t)
           \/ DrainEnd(t) \/ CheckStop(t) \/ Close(t)
  <2>1. UNCHANGED <<loaded, sumVars>> /\ worker'[t] # "store"
    BY <1>5 DEF Connect, SendRequest, RecvData, RecvEnd, Send, DrainEnd,
                CheckStop, Close
  <2> QED BY <1>1, <2>1 DEF Guarded, sumVars
<1> QED BY <1>2, <1>3, <1>4, <1>5 DEF download_thread, upload_thread, End

(* A thread gives up its socket and its request before its slot.           *)
LEMMA IdleStep ==
  ASSUME RefTypeOK, RefInv, NEW t \in Threads,
         download_thread(t) \/ upload_thread(t)
  PROVE  Idle'
<1> USE DEF RefTypeOK, TypeOK, WorkerTypeOK, Goto
<1>1. /\ Live(t) /\ worker' = [worker EXCEPT ![t] = worker'[t]]
      /\ UNCHANGED <<phase, kind>> /\ Idle
      /\ target[slot[t]] \in {kind[t], phase}
  BY ThreadMoves DEF RefInv, Owned
<1>2. CASE Connect(t)
  BY <1>1, <1>2 DEF Connect, Idle
<1>3. CASE SendRequest(t)
  BY <1>1, <1>3 DEF SendRequest, Idle
<1>4. CASE Close(t) \/ Release(t)
  BY <1>1, <1>4 DEF Close, Release, Idle, NoRequest
<1>5. CASE LockBoth(t) \/ StoreOwn(t) \/ RecvData(t) \/ RecvEnd(t) \/ Send(t)
           \/ DrainEnd(t) \/ CheckStop(t)
  <2>1. /\ UNCHANGED <<fd, asked>> /\ Live(t)'
        /\ worker[t] # "connect" /\ worker[t] # "release"
        /\ worker'[t] # "connect" /\ worker'[t] # "release"
    BY <1>5 DEF LockBoth, StoreOwn, RecvData, RecvEnd, Send, DrainEnd, CheckStop
  <2> QED BY <1>1, <2>1 DEF Idle
<1> QED BY <1>2, <1>3, <1>4, <1>5 DEF download_thread, upload_thread, End

LEMMA RefInvThread ==
  ASSUME RefTypeOK, RefInv, NEW t \in Threads,
         download_thread(t) \/ upload_thread(t)
  PROVE  RefInv'
<1>1. /\ Live(t) /\ worker' = [worker EXCEPT ![t] = worker'[t]]
      /\ UNCHANGED <<phase, main, target, tid, slot, kind>>
      /\ \/ UNCHANGED running
         \/ /\ worker'[t] \notin LiveSteps
            /\ running' = [running EXCEPT ![slot[t]] = FALSE]
  BY ThreadMoves
<1>2. Owned'
  BY <1>1 DEF RefInv, Owned, RefTypeOK, TypeOK, WorkerTypeOK, SlotTypeOK
<1>3. RefPhase'
  BY <1>1 DEF RefInv, RefPhase
<1> QED BY <1>2, <1>3, GuardedStep, IdleStep DEF RefInv

LEMMA RefInvStep == RefTypeOK /\ RefInv /\ [RefNext]_refVars => RefInv'
<1> SUFFICES ASSUME RefTypeOK, RefInv, [RefNext]_refVars PROVE RefInv'
  OBVIOUS
<1>1. CASE \/ RefAlarm /\ UNCHANGED it_interval
           \/ (\E k \in Kinds : SeeStop(k)) /\ UNCHANGED it_interval
           \/ UNCHANGED refVars
  <2>1. UNCHANGED <<phase, main, slotVars, workVars, sumVars>>
    BY <1>1 DEF RefAlarm, SeeStop, ReporterFrame, refVars, vars, mainVars
  <2> QED
    BY <2>1 DEF RefInv, Owned, Idle, Guarded, RefPhase, slotVars, workVars,
                sumVars
<1> QED BY <1>1, RefSplit, RefInvMain, RefInvThread

LEMMA RefCorrect == RefSpec => [](RefTypeOK /\ RefInv)
<1>1. RefInit => RefInv
  BY RefInvInit
<1>2. RefTypeOK /\ RefInv /\ [RefNext]_refVars => RefInv'
  BY RefInvStep
<1> QED BY <1>1, <1>2, RefTypeCorrect, PTL DEF RefSpec

-----------------------------------------------------------------------------
(* Two threads at work never share a slot, left over or not.               *)
THEOREM RefSlotsAreExclusive == RefSpec => []OneWorkerPerSlot
<1>1. RefTypeOK /\ RefInv => OneWorkerPerSlot
  BY DEF RefInv, Owned, OneWorkerPerSlot
<1> QED BY <1>1, RefCorrect, PTL

(* One mutex for both counters loses no addition either.                   *)
THEOREM RefAdditionsAreKept == RefSpec => []NoLostUpdate
<1>1. RefTypeOK /\ RefInv => NoLostUpdate
  BY DEF RefInv, Guarded, NoLostUpdate
<1> QED BY <1>1, RefCorrect, PTL

(* Only left-over threads ask for the wrong file.                          *)
THEOREM StraysAreLeftOver == RefSpec => []StrayRequestsAreLeftOver
<1>1. RefTypeOK /\ RefInv => StrayRequestsAreLeftOver
  <2> SUFFICES ASSUME RefTypeOK, RefInv, NEW t \in Threads, Live(t),
                      asked[t].path \notin {"none", kind[t]}
               PROVE  phase = "upload" /\ t \in LeftOver
    BY DEF StrayRequestsAreLeftOver
  <2>1. asked[t].path = phase /\ kind[t] # phase
    BY DEF RefInv, Idle
  <2> QED BY <2>1 DEF RefInv, Owned, LeftOver
<1> QED BY <1>1, RefCorrect, PTL

-----------------------------------------------------------------------------
(* Threads at work are at most as many as the slots they own.              *)
LEMMA OnePerSlot ==
  ASSUME RefTypeOK, RefInv, NEW T \in SUBSET Threads, \A t \in T : Live(t)
  PROVE  Cardinality(T) <= Cardinality(Slots)
<1> DEFINE f == [t \in T |-> slot[t]]
<1>1. IsFiniteSet(Slots)
  BY FS_Interval, PoolAssumption DEF Slots, PoolAssumption
<1>2. f \in [T -> Slots]
  BY DEF RefTypeOK, TypeOK, WorkerTypeOK
<1>3. \A t, u \in T : f[t] = f[u] => t = u
  BY DEF RefInv, Owned
<1>4. f \in Injection(T, Slots)
  BY <1>2, <1>3 DEF Injection, IsInjective
<1> QED BY <1>1, <1>4, FS_Injection

LEMMA SlotsCounted == Cardinality(Slots) = THREAD_NUMBER
BY FS_Interval, PoolAssumption DEF Slots, PoolAssumption

(* There are never more sockets open than slots.                           *)
THEOREM SocketsAreBounded == RefSpec => []SocketsBounded
<1>1. RefTypeOK /\ RefInv => SocketsBounded
  <2> SUFFICES ASSUME RefTypeOK, RefInv PROVE SocketsBounded
    OBVIOUS
  <2>1. OpenFds \in SUBSET Threads /\ \A t \in OpenFds : Live(t)
    BY DEF OpenFds, RefInv, Idle
  <2> QED BY <2>1, OnePerSlot, SlotsCounted DEF SocketsBounded
<1> QED BY <1>1, RefCorrect, PTL

-----------------------------------------------------------------------------
(* The program implements the overlapping measurements.                    *)
LEMMA TailAfterThread ==
  ASSUME RefTypeOK, RefInv, NEW t \in Threads,
         download_thread(t) \/ upload_thread(t)
  PROVE  \/ LeftOver' = LeftOver
         \/ /\ Release(t) /\ t \in LeftOver /\ phase = "upload"
            /\ LeftOver' = LeftOver \ {t}
<1>1. /\ Live(t) /\ worker' = [worker EXCEPT ![t] = worker'[t]]
      /\ UNCHANGED <<phase, kind>>
      /\ Live(t)' \/ (Release(t) /\ ~Live(t)')
  BY ThreadMoves
<1>w. worker \in [Threads -> WorkerSteps]
  BY DEF RefTypeOK, TypeOK, WorkerTypeOK
<1>2. \A u \in Threads : u # t => (Live(u)' <=> Live(u))
  BY <1>1, <1>w
<1>3. CASE Live(t)'
  BY <1>1, <1>2, <1>3 DEF LeftOver
<1>4. CASE ~Live(t)' /\ kind[t] = phase
  BY <1>1, <1>2, <1>4 DEF LeftOver
<1>5. CASE ~Live(t)' /\ kind[t] # phase
  <2>1. phase = "upload" /\ t \in LeftOver
    BY <1>1, <1>5 DEF RefInv, Owned, LeftOver
  <2>2. LeftOver' = LeftOver \ {t}
    BY <1>1, <1>2, <1>5 DEF LeftOver
  <2> QED BY <1>1, <1>5, <2>1, <2>2
<1> QED BY <1>3, <1>4, <1>5

LEMMA OverlapStep ==
  RefTypeOK /\ RefInv /\ [RefNext]_refVars => [O!Next]_(O!vars)
<1> SUFFICES ASSUME RefTypeOK, RefInv, [RefNext]_refVars
             PROVE  [O!Next]_(O!vars)
  OBVIOUS
<1> USE DEF O!Next, O!Count, O!StartUpload, O!Retire, O!Finish, O!vars, O!Kinds
<1>t. /\ phase \in Kinds /\ worker \in [Threads -> WorkerSteps]
      /\ kind \in [Threads -> Kinds] /\ size \in [Threads -> {0, 1}]
      /\ total_size \in [Kinds -> Nat]
  BY DEF RefTypeOK, TypeOK, MainTypeOK, WorkerTypeOK, CountTypeOK
<1>1. ASSUME NEW t \in Threads, main # "exit",
             download_thread(t) \/ upload_thread(t)
      PROVE  [O!Next]_(O!vars)
  <2>1. UNCHANGED <<phase, main>>
    BY <1>1, ThreadMoves
  <2>2. CASE UNCHANGED total_size
    BY <1>1, <2>1, <2>2, TailAfterThread
  <2>3. CASE /\ StoreOwn(t)
             /\ total_size' = [total_size EXCEPT ![kind[t]] = @ + size[t]]
    <3>1. LeftOver' = LeftOver
      BY <1>1, <2>3, TailAfterThread DEF StoreOwn, Release
    <3>2. kind[t] # phase => phase = "upload" /\ t \in LeftOver
      BY <1>1, <2>3 DEF RefInv, Owned, LeftOver, StoreOwn
    <3>3. CASE size[t] = 0
      <4>1. total_size' = total_size
        BY <1>t, <2>3, <3>3
      <4> QED BY <2>1, <3>1, <4>1
    <3>4. CASE size[t] = 1
      <4>1. total_size' = [total_size EXCEPT ![kind[t]] = @ + 1]
        BY <2>3, <3>4
      <4>2. kind[t] \in Kinds
        BY <1>t
      <4>3. kind[t] = phase
            \/ (phase = "upload" /\ kind[t] = "download" /\ LeftOver # {})
        BY <1>t, <3>2
      <4> QED BY <1>1, <2>1, <3>1, <4>1, <4>2, <4>3
    <3> QED BY <1>t, <3>3, <3>4
  <2> QED BY <1>1, <2>2, <2>3, GuardedStep
<1>2. CASE Reset
  <2>1. /\ phase = "download" /\ main = "reset" /\ phase' = "upload"
        /\ main' = "arm" /\ UNCHANGED <<workVars, total_size>>
    BY <1>2 DEF Reset, RefInv, RefPhase, sumVars
  <2>2. LeftOver' \in SUBSET Threads /\ \A t \in LeftOver' : Live(t)
    BY <2>1 DEF LeftOver, workVars
  <2> DEFINE own == [t \in LeftOver' |-> slot[t]]
  <2>3. own \in [LeftOver' -> Slots]
    BY <2>2 DEF RefTypeOK, TypeOK, WorkerTypeOK
  <2>4. \A t, u \in LeftOver' : own[t] = own[u] => t = u
    BY <2>2 DEF RefInv, Owned
  <2> HIDE DEF own
  <2>5. (IF main = "exit" THEN {} ELSE LeftOver)' = LeftOver'
    BY <2>1
  <2>6. /\ (IF main = "exit" THEN "over" ELSE phase) = "download"
        /\ (IF main = "exit" THEN "over" ELSE phase)' = "upload"
    BY <2>1
  <2>7. O!StartUpload
    BY <2>1, <2>2, <2>3, <2>4, <2>5, <2>6
  <2> QED BY <2>7
<1>3. CASE RefTestStop /\ main' = "exit"
  <2>1. phase = "upload" /\ UNCHANGED <<phase, total_size>> /\ main # "exit"
    BY <1>3, <1>t DEF RefTestStop, sumVars
  <2> QED BY <1>3, <2>1
<1>4. ASSUME main # "exit", main' # "exit",
             UNCHANGED <<phase, total_size>>, LeftOver' = LeftOver
      PROVE  [O!Next]_(O!vars)
  BY <1>4
<1>5. CASE setitimer \/ SpawnReporter \/ StartClock
           \/ (RefTestStop /\ main' # "exit")
  <2>1. /\ main # "exit" /\ main' # "exit"
        /\ UNCHANGED <<phase, total_size, workVars>>
    BY <1>5 DEF setitimer, SpawnReporter, StartClock, RefTestStop, sumVars
  <2>2. LeftOver' = LeftOver
    BY <2>1 DEF LeftOver, workVars
  <2> QED BY <1>4, <2>1, <2>2
<1>6. CASE FillSlot
  <2>1. /\ main # "exit" /\ main' # "exit" /\ UNCHANGED <<phase, total_size>>
    BY <1>6 DEF FillSlot, NextSlot, sumVars
  <2>2. CASE UNCHANGED workVars
    <3>1. LeftOver' = LeftOver
      BY <2>1, <2>2 DEF LeftOver, workVars
    <3> QED BY <1>4, <2>1, <3>1
  <2>3. ASSUME NEW u \in Threads, worker[u] = "unborn",
               worker' = [worker EXCEPT ![u] = "connect"],
               kind' = [kind EXCEPT ![u] = phase]
        PROVE  LeftOver' = LeftOver
    BY <1>t, <2>1, <2>3 DEF LeftOver
  <2> QED BY <1>4, <1>6, <2>1, <2>2, <2>3 DEF FillSlot, CreateIfFree, Create, workVars
<1>7. CASE \/ RefAlarm \/ (\E k \in Kinds : SeeStop(k)) \/ UNCHANGED refVars
  <2>1. UNCHANGED <<phase, main, total_size, worker, kind>>
    BY <1>7 DEF RefAlarm, SeeStop, ReporterFrame, refVars, vars, mainVars,
                workVars, sumVars
  <2>2. LeftOver' = LeftOver
    BY <2>1 DEF LeftOver
  <2> QED BY <2>1, <2>2
<1> QED BY <1>1, <1>2, <1>3, <1>5, <1>6, <1>7, RefSplit, MainSplit

(* The refinement, as the temporal property the run checks.                *)
THEOREM RefOverlaps == RefSpec => Overlaps
<1>1. RefInit => O!Init
  BY DEF RefInit, Init, O!Init, O!Kinds, LeftOver
<1>2. RefTypeOK /\ RefInv /\ [RefNext]_refVars => [O!Next]_(O!vars)
  BY OverlapStep
<1> QED BY <1>1, <1>2, RefCorrect, PTL DEF RefSpec, Overlaps, O!Spec
=============================================================================
