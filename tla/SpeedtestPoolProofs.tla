------------------------ MODULE SpeedtestPoolProofs ------------------------
(***************************************************************************)
(* What holds of the worker pool for every number of slots, threads,       *)
(* blocks and descriptors, in both builds.                                 *)
(***************************************************************************)
EXTENDS SpeedtestPool, FiniteSetTheorems, TLAPS

USE DEF Kinds, Live, LiveSteps, At

-----------------------------------------------------------------------------
(* There is a slot 0, and 0 is nobody's thread id.                         *)
LEMMA Zero == 0 \in Slots /\ NoThread \notin Threads
BY PoolAssumption DEF PoolAssumption, Slots, NoThread, Threads

LEMMA SlotRange ==
  ASSUME NEW s \in Slots
  PROVE  s \in Nat /\ s < THREAD_NUMBER
BY PoolAssumption DEF PoolAssumption, Slots

(* The loops of main() stay within the slots.                              *)
LEMMA LoopBounds ==
  ASSUME index \in Slots
  PROVE  /\ NextSlot => index' \in Slots /\ main' \in {"sweep", "test"}
         /\ NextJoin => /\ index' \in Slots
                        /\ main' \in {main, "joinReporter"}
BY PoolAssumption DEF PoolAssumption, Slots, NextSlot, NextJoin

(* Whatever a slot holds, both builders make a request of it; what a       *)
(* download or an upload of the measurement in progress asks for is named  *)
(* in RequestMatchesPhase.                                                 *)
OwnRequest(k) ==
  IF k = "download" THEN [path |-> "download", host |-> Server]
  ELSE [path |-> Server, host |-> "upload"]

LEMMA RequestsTyped ==
  /\ NoRequest \in Requests
  /\ \A t \in Threads : target[slot[t]] \in Kinds \union {"none"} =>
       RequestOf(t) \in Requests
  /\ \A t \in Threads : kind[t] \in Kinds /\ target[slot[t]] = kind[t] =>
       RequestOf(t) = OwnRequest(kind[t])
BY DEF NoRequest, Requests, Names, RequestOf, build_http_get, build_http_post,
       OwnRequest, Server

(* Every variable keeps its type.                                          *)
LEMMA TypeInit == Init => TypeOK
<1> SUFFICES ASSUME Init PROVE TypeOK
  OBVIOUS
<1>1. MainTypeOK
  BY Zero DEF Init, MainTypeOK, MainSteps
<1>2. SlotTypeOK
  BY DEF Init, SlotTypeOK
<1>3. WorkerTypeOK
  BY Zero, RequestsTyped DEF Init, WorkerTypeOK, WorkerSteps
<1>4. CountTypeOK
  BY DEF Init, CountTypeOK
<1> QED
  BY <1>1, <1>2, <1>3, <1>4 DEF TypeOK

(* main(): its own variables, then the slots and the threads it creates or *)
(* joins.  It never writes a counter.                                      *)
LEMMA TypeMain ==
  ASSUME TypeOK, MainStep
  PROVE  TypeOK'
<1> USE DEF MainStep, slotVars, workVars, sumVars, repVars, mainVars
<1>1. MainTypeOK'
  <2> USE DEF MainTypeOK, MainSteps
  <2>1. CASE set_interval_timer \/ SpawnReporter \/ TestStop
    BY <2>1 DEF TypeOK, set_interval_timer, SpawnReporter, TestStop
  <2>5. CASE StartClock
    BY <2>5, Zero DEF TypeOK, StartClock
  <2>2. CASE Dispatch
    <3>1. index' \in Slots /\ main' \in {"sweep", "test"}
      BY <2>2, LoopBounds DEF TypeOK, Dispatch
    <3> QED BY <2>2, <3>1 DEF TypeOK, Dispatch
  <2>3. CASE Join
    <3>1. index' \in Slots /\ main' \in MainSteps
      BY <2>3, LoopBounds DEF TypeOK, Join
    <3> QED BY <2>3, <3>1 DEF TypeOK, Join, JoinFrame
  <2>4. CASE JoinReporter \/ Reset
    BY <2>4 DEF TypeOK, JoinReporter, Reset
  <2> QED BY <2>1, <2>2, <2>3, <2>4, <2>5
<1>2. CASE Dispatch
  <2>1. SlotTypeOK'
    <3>1. SlotTypeOK /\ index \in Slots /\ phase \in Kinds
      BY DEF TypeOK, MainTypeOK
    <3>2. /\ target' = [target EXCEPT ![index] = phase]
          /\ UNCHANGED running \/ running' = [running EXCEPT ![index] = TRUE]
      BY <1>2 DEF Dispatch
    <3>3. \/ UNCHANGED tid
          \/ \E t \in Threads \union {NoThread} : tid' = [tid EXCEPT ![index] = t]
      BY <1>2 DEF Dispatch
    <3> QED BY ONLY <3>1, <3>2, <3>3 DEF SlotTypeOK
  <2>3. WorkerTypeOK'
    <3>1. WorkerTypeOK /\ index \in Slots /\ phase \in Kinds
      BY DEF TypeOK, MainTypeOK
    <3>2. CASE UNCHANGED workVars
      BY <3>1, <3>2 DEF WorkerTypeOK
    <3>3. ASSUME NEW t \in Threads,
                 worker' = [worker EXCEPT ![t] = "connect"],
                 slot' = [slot EXCEPT ![t] = index],
                 kind' = [kind EXCEPT ![t] = phase],
                 UNCHANGED <<asked, fd>>
          PROVE  WorkerTypeOK'
      BY ONLY <3>1, <3>3 DEF WorkerTypeOK, WorkerSteps, LiveSteps
    <3> QED BY <1>2, <3>2, <3>3 DEF Dispatch
  <2>2. CountTypeOK'
    BY <1>2 DEF TypeOK, CountTypeOK, Dispatch
  <2> QED BY <1>1, <2>1, <2>2, <2>3 DEF TypeOK
<1>3. CASE Join
  <2>1. SlotTypeOK' /\ CountTypeOK'
    BY <1>3 DEF TypeOK, SlotTypeOK, CountTypeOK, Join, JoinFrame
  <2>2. WorkerTypeOK'
    BY <1>3 DEF TypeOK, WorkerTypeOK, Join, JoinFrame, WorkerSteps
  <2> QED BY <1>1, <2>1, <2>2 DEF TypeOK
<1>4. CASE ~Dispatch /\ ~Join
  <2>1. SlotTypeOK' /\ WorkerTypeOK' /\ CountTypeOK'
    BY <1>4 DEF TypeOK, SlotTypeOK, WorkerTypeOK, CountTypeOK, MainTypeOK,
                set_interval_timer, SpawnReporter, StartClock, TestStop,
                JoinReporter, Reset
  <2> QED BY <1>1, <2>1 DEF TypeOK
<1> QED BY <1>2, <1>3, <1>4

(* The alarm, the reporters and the end of the run.                        *)
LEMMA TypeOthers ==
  ASSUME TypeOK,
         \/ stop_all_thread \/ Stopped
         \/ \E k \in Kinds : Sample(k) \/ Wake(k)
  PROVE  TypeOK'
<1> USE DEF TypeOK, slotVars, workVars, sumVars, repVars, mainVars
<1>a. /\ UNCHANGED <<phase, main, index, start_set, slotVars, workVars>>
      /\ thread_all_stop' \in {thread_all_stop, TRUE} /\ timer' \in {timer, FALSE}
  BY DEF stop_all_thread, Stopped, vars, Sample, Wake, ReporterFrame
<1>1. MainTypeOK' /\ SlotTypeOK' /\ WorkerTypeOK'
  BY <1>a DEF MainTypeOK, SlotTypeOK, WorkerTypeOK
<1>2. CountTypeOK'
  <2>1. CASE stop_all_thread \/ Stopped
    BY <2>1 DEF CountTypeOK, stop_all_thread, Stopped, vars
  <2>2. ASSUME NEW k \in Kinds, Sample(k) \/ Wake(k)
        PROVE  CountTypeOK'
    <3>1. UNCHANGED <<blocks, size, loaded, mutex, total_size>>
      BY <2>2 DEF Sample, Wake, ReporterFrame
    <3>2. UNCHANGED reported \/ reported' = [reported EXCEPT ![k] = total_size[k]]
      BY <2>2 DEF Sample, Wake
    <3>3. \E s \in {"sample", "asleep", "done"} : reporter' = [reporter EXCEPT ![k] = s]
      BY <2>2 DEF Sample, Wake
    <3>4. CountTypeOK
      OBVIOUS
    <3>5. reported' \in [Kinds -> Nat]
      BY <2>2, <3>2, <3>4 DEF CountTypeOK
    <3> QED BY <3>1, <3>3, <3>4, <3>5 DEF CountTypeOK
  <2> QED BY <2>1, <2>2
<1> QED BY <1>1, <1>2

(* A worker never writes main()'s variables; of the slots it only clears   *)
(* the running mark.                                                       *)
LEMMA TypeWorker ==
  ASSUME TypeOK, NEW t \in Threads, WorkerStep(t) \/ PeerStep(t)
  PROVE  TypeOK'
<1> USE DEF WorkerStep, PeerStep, WorkerFrame, Goto, Abandon, sumVars, repVars,
            mainVars
<1>1. MainTypeOK'
  BY DEF TypeOK, MainTypeOK, init_connection, SSL_connect, make_request, Send,
         Lock, Store, CheckStop, Close, Release, RecvData, RecvEnd, DrainEnd
<1>2. SlotTypeOK'
  BY DEF TypeOK, SlotTypeOK, init_connection, SSL_connect, make_request, Send,
         Lock, Store, CheckStop, Close, Release, RecvData, RecvEnd, DrainEnd
<1>3. WorkerTypeOK'
  <2> USE DEF TypeOK, WorkerTypeOK, SlotTypeOK, WorkerSteps
  <2>1. CASE init_connection(t) \/ SSL_connect(t)
    BY <2>1 DEF init_connection, SSL_connect
  <2>4. CASE make_request(t)
    <3>1. RequestOf(t) \in Requests
      BY RequestsTyped
    <3> QED BY <2>4, <3>1 DEF make_request
  <2>2. CASE Send(t) \/ Lock(t) \/ Store(t) \/ CheckStop(t)
    BY <2>2 DEF Send, Lock, Store, CheckStop
  <2>3. CASE Close(t) \/ Release(t) \/ PeerStep(t)
    BY <2>3, RequestsTyped DEF Close, Release, RecvData, RecvEnd, DrainEnd
  <2> QED BY <2>1, <2>2, <2>3, <2>4
<1>4. CountTypeOK'
  <2> USE DEF TypeOK, CountTypeOK, WorkerTypeOK
  <2>1. CASE init_connection(t) \/ SSL_connect(t) \/ make_request(t)
    BY <2>1 DEF init_connection, SSL_connect, make_request
  <2>2. CASE CheckStop(t) \/ Close(t) \/ RecvEnd(t) \/ DrainEnd(t)
    BY <2>2 DEF CheckStop, Close, RecvEnd, DrainEnd
  <2>3. CASE Send(t) \/ RecvData(t)
    <3>1. blocks[t] + 1 \in Nat
      OBVIOUS
    <3> QED BY <2>3, <3>1 DEF Send, RecvData
  <2>4. CASE Lock(t)
    BY <2>4 DEF Lock
  <2>5. CASE Store(t)
    <3>1. loaded[t] + size[t] \in Nat
      <4>1. loaded[t] \in Nat /\ size[t] \in {0, 1}
        OBVIOUS
      <4> QED BY <4>1
    <3>2. total_size' \in [Kinds -> Nat]
      BY <2>5, <3>1 DEF Store
    <3> QED BY <2>5, <3>2 DEF Store
  <2>6. CASE Release(t)
    BY <2>6 DEF Release
  <2> QED BY <2>1, <2>2, <2>3, <2>4, <2>5, <2>6
<1> QED BY <1>1, <1>2, <1>3, <1>4 DEF TypeOK

(* Type correctness of the pool.                                           *)
THEOREM TypeCorrect == Spec => []TypeOK
<1>1. TypeOK /\ [Next]_vars => TypeOK'
  <2> SUFFICES ASSUME TypeOK, [Next]_vars PROVE TypeOK'
    OBVIOUS
  <2>1. CASE UNCHANGED vars
    BY <2>1 DEF TypeOK, MainTypeOK, SlotTypeOK, WorkerTypeOK, CountTypeOK,
                vars, mainVars, slotVars, workVars, sumVars, repVars
  <2>2. CASE Next
    BY <2>2, TypeMain, TypeOthers, TypeWorker DEF Next
  <2> QED BY <2>1, <2>2
<1> QED BY TypeInit, <1>1, PTL DEF Spec

-----------------------------------------------------------------------------
(* The inductive invariant.  A thread that still runs owns its slot, works *)
(* for the measurement main() is in, and finds its file name there; main() *)
(* has left no such thread behind in the slots it has joined, nor in the   *)
(* steps between two measurements; and only the holder of a counter's      *)
(* mutex is about to write it.                                             *)
Quiet == {"arm", "spawn", "clock", "joinReporter", "reset", "exit"}

SlotHeld ==
  \A t \in Threads : Live(t) =>
    /\ running[slot[t]] /\ tid[slot[t]] = t
    /\ kind[t] = phase /\ target[slot[t]] = phase

JoinedOnes ==
  \A t \in Threads : Live(t) =>
    /\ main \notin Quiet
    /\ main = "join" => slot[t] >= index

MainPhase ==
  /\ main = "test" => index = 0
  /\ main = "reset" => phase = "download"
  /\ main = "exit" => phase = "upload"
  /\ main \in {"reset", "exit"} => reporter[phase] \in {"done", "none"}

Exclusion ==
  \A t \in Threads : At(t, "store") =>
    /\ mutex[kind[t]] = t
    /\ loaded[t] = total_size[kind[t]]

Asked ==
  \A t \in Threads :
    /\ asked[t] # NoRequest => asked[t] = OwnRequest(kind[t])
    /\ worker[t] = "unborn" => asked[t] = NoRequest /\ fd[t] = "none"

OpenHeld ==
  \A t \in Threads :
    /\ fd[t] = "open" => running[slot[t]] /\ tid[slot[t]] = t
    /\ worker[t] \in {"connect", "release"} => fd[t] # "open"

ClockSet ==
  /\ start_set[phase] \/ main \in {"arm", "spawn", "clock"}
  /\ \A t \in Threads : Live(t) => start_set[kind[t]]
  /\ EarlySpeedIsZero

PoolInv == /\ SlotHeld /\ JoinedOnes /\ MainPhase /\ Exclusion /\ Asked
           /\ OpenHeld /\ ClockSet

LEMMA PoolInit == Init => PoolInv
BY Zero DEF Init, PoolInv, SlotHeld, JoinedOnes, MainPhase, Exclusion, Asked,
            OpenHeld, ClockSet, EarlySpeedIsZero, Quiet

(* The steps of main() that start or end nothing.                          *)
LEMMA PoolQuietMain ==
  ASSUME TypeOK, PoolInv,
         \/ set_interval_timer \/ SpawnReporter \/ StartClock \/ TestStop
         \/ JoinReporter \/ Reset
  PROVE  PoolInv'
<1> USE DEF TypeOK, slotVars, workVars, sumVars, repVars, mainVars, PoolInv
<1>1. SlotHeld'
  BY DEF SlotHeld, JoinedOnes, Quiet, set_interval_timer, SpawnReporter,
         StartClock, TestStop, JoinReporter, Reset
<1>5. JoinedOnes'
  <2>1. \A t \in Threads : slot[t] \in Nat
    BY SlotRange DEF WorkerTypeOK
  <2> QED
    BY <2>1 DEF JoinedOnes, MainPhase, Quiet, set_interval_timer,
                SpawnReporter, StartClock, TestStop, JoinReporter, Reset
<1>2. MainPhase'
  BY DEF MainPhase, CountTypeOK, MainTypeOK, set_interval_timer, SpawnReporter,
         StartClock, TestStop, JoinReporter, Reset
<1>3. Exclusion' /\ Asked' /\ OpenHeld'
  BY DEF Exclusion, Asked, OpenHeld, set_interval_timer, SpawnReporter,
         StartClock, TestStop, JoinReporter, Reset
<1>4. ClockSet'
  BY DEF ClockSet, EarlySpeedIsZero, JoinedOnes, Quiet, MainTypeOK, WorkerTypeOK,
         set_interval_timer, SpawnReporter, StartClock, TestStop, JoinReporter,
         Reset
<1> QED BY <1>1, <1>2, <1>3, <1>4, <1>5

(* The sweep: a new thread takes a slot nobody works in.                   *)
LEMMA PoolDispatch ==
  ASSUME TypeOK, PoolInv, Dispatch
  PROVE  PoolInv'
<1> USE DEF TypeOK, slotVars, workVars, sumVars, repVars, mainVars, PoolInv
<1>1. /\ main = "sweep" /\ main' \in {"sweep", "test"} /\ index \in Slots
      /\ main' = "test" => index' = 0
      /\ UNCHANGED <<phase, start_set, sumVars, repVars, asked, fd, loaded>>
      /\ target' = [target EXCEPT ![index] = phase]
  BY DEF Dispatch, NextSlot, MainTypeOK
<1>2. MainPhase'
  BY <1>1 DEF MainPhase
<1>3. CASE UNCHANGED workVars
  <2>1. \A s \in Slots : running[s] => running'[s] /\ tid'[s] = tid[s]
    BY <1>3 DEF Dispatch, SlotTypeOK, MainTypeOK
  <2>2. SlotHeld' /\ JoinedOnes'
    BY <1>1, <1>3, <2>1 DEF SlotHeld, JoinedOnes, Quiet, SlotTypeOK, WorkerTypeOK
  <2>3. Exclusion' /\ Asked' /\ ClockSet'
    BY <1>1, <1>3 DEF Exclusion, Asked, ClockSet, EarlySpeedIsZero
  <2>4. OpenHeld'
    BY <1>1, <1>3, <2>1 DEF OpenHeld, WorkerTypeOK
  <2> QED BY <1>2, <2>2, <2>3, <2>4
<1>4. ASSUME NEW u \in Threads,
             ~running[index], worker[u] = "unborn",
             running' = [running EXCEPT ![index] = TRUE],
             tid' = [tid EXCEPT ![index] = u],
             worker' = [worker EXCEPT ![u] = "connect"],
             slot' = [slot EXCEPT ![u] = index],
             kind' = [kind EXCEPT ![u] = phase]
      PROVE  PoolInv'
  <2> USE <1>4
  <2>1. SlotHeld'
    BY <1>1 DEF SlotHeld, SlotTypeOK, WorkerTypeOK
  <2>2. JoinedOnes'
    BY <1>1 DEF JoinedOnes, Quiet
  <2>3. Exclusion'
    BY <1>1 DEF Exclusion, WorkerTypeOK
  <2>4. Asked'
    BY <1>1 DEF Asked, WorkerTypeOK
  <2>5. OpenHeld'
    BY <1>1 DEF OpenHeld, Asked, WorkerTypeOK, SlotTypeOK
  <2>6. ClockSet'
    BY <1>1 DEF ClockSet, EarlySpeedIsZero, WorkerTypeOK
  <2> QED BY <1>2, <2>1, <2>2, <2>3, <2>4, <2>5, <2>6
<1> QED BY <1>3, <1>4 DEF Dispatch

(* pthread_join: the thread that is joined has ended, and no other works   *)
(* in its slot.                                                            *)
LEMMA PoolJoin ==
  ASSUME TypeOK, PoolInv, Join
  PROVE  PoolInv'
<1> USE DEF TypeOK, slotVars, sumVars, repVars, PoolInv
<1>1. /\ main = "join" /\ index \in Slots
      /\ UNCHANGED <<phase, start_set, thread_all_stop, slotVars, slot, kind,
                     asked, fd, loaded, sumVars, repVars>>
      /\ \A t \in Threads : worker'[t] = worker[t]
                            \/ (worker[t] = "done" /\ worker'[t] = "joined")
      /\ NextJoin \/ (main' = "undefined" /\ index' = index)
  <2>1. \A t \in Threads : worker'[t] = worker[t]
                           \/ (worker[t] = "done" /\ worker'[t] = "joined")
    BY DEF Join, WorkerTypeOK
  <2>2. NextJoin \/ (main' = "undefined" /\ index' = index)
    BY DEF Join
  <2> QED BY <2>1, <2>2 DEF Join, JoinFrame, MainTypeOK
<1>2. SlotHeld' /\ Exclusion' /\ Asked' /\ OpenHeld'
  BY <1>1 DEF SlotHeld, Exclusion, Asked, OpenHeld
<1>3. ClockSet'
  BY <1>1 DEF ClockSet, EarlySpeedIsZero, NextJoin
<1>4. MainPhase'
  BY <1>1 DEF MainPhase, NextJoin
<1>5. JoinedOnes'
  <2>1. \A t \in Threads : Live(t) => slot[t] # index
    BY <1>1 DEF Join, SlotHeld, Unjoinable
  <2>2. \A t \in Threads : Live(t) => slot[t] >= index + 1
    BY <1>1, <2>1, SlotRange DEF JoinedOnes, WorkerTypeOK
  <2>3. CASE NextJoin
    <3>1. index + 1 < THREAD_NUMBER
          \/ (index + 1 = THREAD_NUMBER /\ \A t \in Threads : ~Live(t))
      BY <1>1, <2>2, SlotRange, PoolAssumption DEF WorkerTypeOK, PoolAssumption
    <3> QED BY <1>1, <2>2, <2>3, <3>1 DEF NextJoin, JoinedOnes, Quiet
  <2>4. CASE main' = "undefined"
    BY <1>1, <2>4 DEF JoinedOnes, Quiet
  <2> QED BY <1>1, <2>3, <2>4
<1> QED BY <1>2, <1>3, <1>4, <1>5

(* A worker's step moves that worker only; it gives its slot back in the   *)
(* step that ends it, and only when its socket is closed.                  *)
LEMMA WorkerMoves ==
  ASSUME TypeOK, NEW t \in Threads, WorkerStep(t) \/ PeerStep(t)
  PROVE  /\ Live(t) /\ worker' = [worker EXCEPT ![t] = worker'[t]]
         /\ worker'[t] \notin {"unborn", "joined"}
         /\ UNCHANGED <<phase, main, index, start_set, thread_all_stop, target,
                        tid, slot, kind, reporter, reported>>
         /\ \/ UNCHANGED running
            \/ /\ At(t, "release") /\ ~Live(t)'
               /\ running' = [running EXCEPT ![slot[t]] = FALSE]
<1> USE DEF TypeOK, WorkerTypeOK, WorkerFrame, mainVars, repVars
<1>1. CASE init_connection(t) \/ SSL_connect(t)
  BY <1>1 DEF init_connection, SSL_connect, Abandon, Goto
<1>2. CASE make_request(t)
  BY <1>2 DEF make_request, Abandon, Goto
<1>3. CASE Send(t) \/ Lock(t) \/ Store(t)
  BY <1>3 DEF Send, Lock, Store, Goto
<1>4. CASE CheckStop(t) \/ Close(t)
  BY <1>4 DEF CheckStop, Close, Goto
<1>5. CASE Release(t)
  BY <1>5 DEF Release, Goto
<1>6. CASE PeerStep(t)
  BY <1>6 DEF PeerStep, RecvData, RecvEnd, DrainEnd, Goto
<1> QED BY <1>1, <1>2, <1>3, <1>4, <1>5, <1>6 DEF WorkerStep

(* Only Store, by the mutex's holder, changes a counter.                   *)
LEMMA ExclusionStep ==
  ASSUME TypeOK, PoolInv, NEW t \in Threads, WorkerStep(t) \/ PeerStep(t)
  PROVE  Exclusion'
<1> USE DEF TypeOK, WorkerTypeOK, PoolInv, Exclusion
<1>1. /\ worker' = [worker EXCEPT ![t] = worker'[t]] /\ UNCHANGED kind
  BY WorkerMoves
<1>2. CASE Lock(t)
  BY <1>1, <1>2, Zero DEF Lock, Goto, CountTypeOK
<1>3. CASE Store(t)
  BY <1>1, <1>3, Zero DEF Store, Goto, CountTypeOK
<1>4. CASE Release(t)
  BY <1>1, <1>4 DEF Release, Goto, sumVars, CountTypeOK
<1>5. CASE ~Lock(t) /\ ~Store(t) /\ ~Release(t)
  <2>1. UNCHANGED <<loaded, sumVars>> /\ worker'[t] # "store"
    BY <1>5 DEF WorkerStep, PeerStep, init_connection, SSL_connect, Abandon,
                make_request, Send, CheckStop, Close, RecvData, RecvEnd,
                DrainEnd, Goto
  <2> QED BY <1>1, <2>1 DEF sumVars
<1> QED BY <1>2, <1>3, <1>4, <1>5

(* The file a worker's request names is the one its slot holds for this    *)
(* measurement.                                                            *)
LEMMA AskedStep ==
  ASSUME TypeOK, PoolInv, NEW t \in Threads, WorkerStep(t) \/ PeerStep(t)
  PROVE  Asked'
<1> USE DEF TypeOK, WorkerTypeOK, PoolInv, Asked
<1>1. /\ Live(t) /\ worker' = [worker EXCEPT ![t] = worker'[t]]
      /\ worker'[t] # "unborn" /\ UNCHANGED kind
  BY WorkerMoves
<1>2. /\ \A u \in Threads \ {t} : asked'[u] = asked[u] /\ fd'[u] = fd[u]
      /\ asked'[t] \in {asked[t], NoRequest, RequestOf(t)}
  <2>1. CASE make_request(t) \/ Release(t) \/ Close(t) \/ init_connection(t)
    BY <2>1 DEF make_request, Abandon, Release, Close, init_connection
  <2>2. CASE SSL_connect(t) \/ Send(t) \/ Lock(t) \/ Store(t) \/ CheckStop(t)
    BY <2>2 DEF SSL_connect, Abandon, Send, Lock, Store, CheckStop
  <2>3. CASE PeerStep(t)
    BY <2>3 DEF PeerStep, RecvData, RecvEnd, DrainEnd
  <2> QED BY <2>1, <2>2, <2>3 DEF WorkerStep
<1>3. RequestOf(t) = OwnRequest(kind[t])
  BY <1>1, RequestsTyped DEF SlotHeld
<1> QED BY <1>1, <1>2, <1>3

(* A socket stays open past its thread's end only together with the slot.  *)
LEMMA OpenHeldStep ==
  ASSUME TypeOK, PoolInv, NEW t \in Threads, WorkerStep(t) \/ PeerStep(t)
  PROVE  OpenHeld'
<1> USE DEF TypeOK, WorkerTypeOK, SlotTypeOK, PoolInv, OpenHeld
<1>1. /\ Live(t) /\ worker' = [worker EXCEPT ![t] = worker'[t]]
      /\ UNCHANGED <<slot, tid>>
      /\ \/ UNCHANGED running
         \/ /\ At(t, "release") /\ worker'[t] \notin LiveSteps
            /\ running' = [running EXCEPT ![slot[t]] = FALSE]
  BY WorkerMoves
<1>2. /\ running[slot[t]] /\ tid[slot[t]] = t
  BY <1>1 DEF SlotHeld
<1>3. /\ \A u \in Threads \ {t} : fd'[u] = fd[u]
      /\ fd'[t] = "open" => ~At(t, "release")
      /\ worker'[t] \in {"connect", "release"} => fd'[t] # "open"
  <2>1. CASE init_connection(t)
    BY <2>1 DEF init_connection, Goto
  <2>2. CASE Close(t) \/ Release(t)
    BY <2>2 DEF Close, Release, Goto
  <2>3. CASE SSL_connect(t) \/ make_request(t)
    BY <2>3 DEF SSL_connect, make_request, Abandon, Goto
  <2>4. CASE Send(t) \/ Lock(t) \/ Store(t) \/ CheckStop(t)
    BY <2>4 DEF Send, Lock, Store, CheckStop, Goto
  <2>5. CASE PeerStep(t)
    BY <2>5 DEF PeerStep, RecvData, RecvEnd, DrainEnd, Goto
  <2> QED BY <2>1, <2>2, <2>3, <2>4, <2>5 DEF WorkerStep
<1>4. \A u \in Threads : fd'[u] = "open" => running'[slot[u]] /\ tid[slot[u]] = u
  BY <1>1, <1>2, <1>3
<1> QED BY <1>1, <1>3, <1>4

(* A counter grows only by a worker whose measurement's clock is set.      *)
LEMMA ClockSetStep ==
  ASSUME TypeOK, PoolInv, NEW t \in Threads, WorkerStep(t) \/ PeerStep(t)
  PROVE  ClockSet'
<1> USE DEF TypeOK, WorkerTypeOK, CountTypeOK, PoolInv, ClockSet
<1>1. /\ Live(t) /\ worker' = [worker EXCEPT ![t] = worker'[t]]
      /\ UNCHANGED <<phase, main, start_set, kind, reported>>
  BY WorkerMoves
<1>2. \A k \in Kinds : k # kind[t] => total_size'[k] = total_size[k]
  <2>1. CASE Store(t)
    BY <2>1 DEF Store
  <2>2. CASE ~Store(t)
    BY <2>2 DEF WorkerStep, PeerStep, init_connection, SSL_connect, Abandon,
                make_request, Send, Lock, CheckStop, Close, Release, RecvData,
                RecvEnd, DrainEnd, sumVars
  <2> QED BY <2>1, <2>2
<1>3. start_set[kind[t]]
  BY <1>1
<1> QED BY <1>1, <1>2, <1>3 DEF EarlySpeedIsZero

LEMMA PoolWorker ==
  ASSUME TypeOK, PoolInv, NEW t \in Threads, WorkerStep(t) \/ PeerStep(t)
  PROVE  PoolInv'
<1> USE DEF TypeOK, WorkerTypeOK, SlotTypeOK, PoolInv
<1>1. /\ Live(t) /\ worker' = [worker EXCEPT ![t] = worker'[t]]
      /\ UNCHANGED <<phase, main, index, target, tid, slot, kind, reporter>>
      /\ \/ UNCHANGED running
         \/ /\ At(t, "release") /\ worker'[t] \notin LiveSteps
            /\ running' = [running EXCEPT ![slot[t]] = FALSE]
  BY WorkerMoves
<1>2. SlotHeld'
  BY <1>1 DEF SlotHeld
<1>3. JoinedOnes' /\ MainPhase'
  BY <1>1 DEF JoinedOnes, MainPhase
<1> QED
  BY <1>2, <1>3, ExclusionStep, AskedStep, OpenHeldStep, ClockSetStep

(* The alarm and the reporters leave workers, slots and counters alone.    *)
LEMMA PoolOthers ==
  ASSUME TypeOK, PoolInv,
         \/ stop_all_thread \/ Stopped \/ UNCHANGED vars
         \/ \E k \in Kinds : Sample(k) \/ Wake(k)
  PROVE  PoolInv'
<1> USE DEF TypeOK, CountTypeOK, slotVars, workVars, sumVars, mainVars, PoolInv
<1>1. UNCHANGED <<phase, main, index, start_set, slotVars, workVars, sumVars>>
  BY DEF stop_all_thread, Stopped, vars, Sample, Wake, ReporterFrame
<1>2. SlotHeld' /\ JoinedOnes' /\ Exclusion' /\ Asked' /\ OpenHeld'
  BY <1>1 DEF SlotHeld, JoinedOnes, Exclusion, Asked, OpenHeld
<1>3. \A k \in Kinds : /\ reported'[k] \in {reported[k], total_size[k]}
                       /\ reporter[k] \in {"done", "none"} => reporter'[k] = reporter[k]
  BY DEF stop_all_thread, Stopped, vars, Sample, Wake, repVars
<1>4. MainPhase' /\ ClockSet'
  BY <1>1, <1>3 DEF MainPhase, ClockSet, EarlySpeedIsZero, MainTypeOK
<1> QED BY <1>2, <1>4

(* The invariant is inductive, and with the types it holds of every run.   *)
LEMMA PoolStep == TypeOK /\ PoolInv /\ [Next]_vars => PoolInv'
BY PoolQuietMain, PoolDispatch, PoolJoin, PoolWorker, PoolOthers
   DEF Next, MainStep

LEMMA PoolCorrect == Spec => []PoolInv
<1>1. Init => PoolInv
  BY PoolInit
<1>2. TypeOK /\ PoolInv /\ [Next]_vars => PoolInv'
  BY PoolStep
<1> QED BY <1>1, <1>2, TypeCorrect, PTL DEF Spec

-----------------------------------------------------------------------------
(* Two threads that are still running never work in the same slot.         *)
THEOREM SlotsAreExclusive == Spec => []OneWorkerPerSlot
<1>1. TypeOK /\ PoolInv => OneWorkerPerSlot
  BY DEF PoolInv, SlotHeld, OneWorkerPerSlot
<1> QED BY <1>1, TypeCorrect, PoolCorrect, PTL

(* No addition to a counter is lost.                                       *)
THEOREM AdditionsAreKept == Spec => []NoLostUpdate
<1>1. PoolInv => NoLostUpdate
  BY DEF PoolInv, Exclusion, NoLostUpdate
<1> QED BY <1>1, PoolCorrect, PTL

(* A reporter that runs before its clock is set prints a speed of zero.    *)
THEOREM EarlySpeeds == Spec => []EarlySpeedIsZero
<1>1. PoolInv => EarlySpeedIsZero
  BY DEF PoolInv, ClockSet
<1> QED BY <1>1, PoolCorrect, PTL

(* A worker's request holds the name of its own measurement's file: in the *)
(* request line of a download, as the Host of an upload, which posts to a  *)
(* path named after the server.                                            *)
THEOREM RequestsMatch == Spec => []RequestMatchesPhase
<1>1. PoolInv => RequestMatchesPhase
  BY DEF PoolInv, Asked, RequestMatchesPhase, OwnRequest
<1> QED BY <1>1, PoolCorrect, PTL

(* A thread that ended with its socket open took its slot with it.         *)
THEOREM LeaksAreBounded == Spec => []OpenSocketKeepsItsSlot
<1>1. PoolInv => OpenSocketKeepsItsSlot
  BY DEF PoolInv, OpenHeld, OpenSocketKeepsItsSlot
<1> QED BY <1>1, PoolCorrect, PTL

(* The stop flag is cleared only when every worker and the reporter of the *)
(* measurement have ended, or no reporter was ever created.                *)
THEOREM StopIsSeen == Spec => StopClearedOnlyWhenQuiet
<1>1. TypeOK /\ PoolInv /\ [Next]_vars => [ClearedWhenQuiet]_vars
  <2> SUFFICES ASSUME TypeOK, PoolInv, Next, thread_all_stop, ~thread_all_stop'
               PROVE  /\ \A t \in Threads : ~Live(t)
                      /\ reporter[phase] \in {"done", "none"}
    BY DEF ClearedWhenQuiet
  <2>1. Reset
    <3>1. ASSUME NEW t \in Threads, WorkerStep(t) \/ PeerStep(t) PROVE FALSE
      BY <3>1, WorkerMoves
    <3>2. ~stop_all_thread /\ ~Stopped
      BY DEF stop_all_thread, Stopped, vars
    <3>3. ASSUME NEW k \in Kinds, Sample(k) \/ Wake(k) PROVE FALSE
      BY <3>3 DEF Sample, Wake, ReporterFrame
    <3>4. MainStep
      BY <3>1, <3>2, <3>3 DEF Next
    <3> QED
      BY <3>4 DEF MainStep, set_interval_timer, SpawnReporter, StartClock,
                  Dispatch, TestStop, Join, JoinFrame, JoinReporter
  <2> QED BY <2>1 DEF Reset, PoolInv, JoinedOnes, MainPhase, Quiet
<1> QED BY <1>1, TypeCorrect, PoolCorrect, PTL DEF Spec, StopClearedOnlyWhenQuiet

-----------------------------------------------------------------------------
(* The handles that pthread_join is given.  After a sweep every slot holds *)
(* the handle of a thread nobody has joined, or is leaked, and each join   *)
(* uses up the handle of its own slot only.                                *)
Joinable(s) == tid[s] \in Threads /\ worker[tid[s]] \notin {"unborn", "joined"}

Settled(s) == SlotLeaked(s) \/ Joinable(s)

OwnHandle ==
  \A s \in Slots : tid[s] \in Threads => slot[tid[s]] = s /\ worker[tid[s]] # "unborn"

HandleInv ==
  /\ OwnHandle
  /\ main = "sweep" => \A s \in Slots : s < index => Settled(s)
  /\ main = "test" => \A s \in Slots : Settled(s)
  /\ main = "join" => \A s \in Slots : s >= index => Settled(s)
  /\ main = "undefined" =>
       reporter[phase] = "none" \/ \E s \in Slots : SlotLeaked(s)

(* The steps of main() that leave slots and threads alone.                 *)
LEMMA HandleQuietMain ==
  ASSUME TypeOK, PoolInv, HandleInv,
         \/ set_interval_timer \/ SpawnReporter \/ StartClock \/ TestStop
         \/ JoinReporter \/ Reset
  PROVE  HandleInv'
<1> USE DEF slotVars, workVars
<1>1. UNCHANGED <<running, tid, worker, slot>>
  BY DEF set_interval_timer, SpawnReporter, StartClock, TestStop, JoinReporter, Reset
<1>2. /\ \A s \in Slots : Settled(s)' <=> Settled(s)
      /\ OwnHandle'
  BY <1>1 DEF Settled, SlotLeaked, Joinable, Live, HandleInv, OwnHandle
<1>3. CASE TestStop
  BY <1>2, <1>3, SlotRange DEF TestStop, HandleInv
<1>4. CASE StartClock
  BY <1>2, <1>4, SlotRange DEF StartClock, HandleInv
<1>5. CASE set_interval_timer \/ SpawnReporter \/ Reset
  BY <1>2, <1>5 DEF set_interval_timer, SpawnReporter, Reset, HandleInv
<1>6. CASE JoinReporter
  BY <1>2, <1>6 DEF JoinReporter, HandleInv, repVars
<1> QED BY <1>3, <1>4, <1>5, <1>6

(* The sweep settles the slot it is at and unsettles no other.             *)
LEMMA HandleDispatch ==
  ASSUME TypeOK, PoolInv, HandleInv, Dispatch
  PROVE  HandleInv'
<1> USE DEF TypeOK, SlotTypeOK, WorkerTypeOK, MainTypeOK, workVars
<1>1. /\ main = "sweep" /\ index \in Slots
      /\ \/ index + 1 < THREAD_NUMBER /\ index' = index + 1 /\ main' = "sweep"
         \/ index + 1 >= THREAD_NUMBER /\ main' = "test"
  BY SlotRange, PoolAssumption DEF Dispatch, NextSlot
<1>2. /\ OwnHandle'
      /\ \A s \in Slots : (s = index \/ Settled(s)) => Settled(s)'
  <2>1. CASE running[index]
    <3>1. UNCHANGED <<running, tid, worker, slot>>
      BY <2>1 DEF Dispatch
    <3>2. Settled(index)
      BY <1>1, <2>1, Zero DEF Settled, SlotLeaked, Joinable, PoolInv, SlotHeld, LiveSteps, Live
    <3> QED BY <3>1, <3>2 DEF Settled, SlotLeaked, Joinable, Live, HandleInv, OwnHandle
  <2>2. ASSUME NEW u \in Threads, ~running[index], worker[u] = "unborn",
               running' = [running EXCEPT ![index] = TRUE],
               tid' = [tid EXCEPT ![index] = u],
               worker' = [worker EXCEPT ![u] = "connect"],
               slot' = [slot EXCEPT ![u] = index]
        PROVE  OwnHandle' /\ \A s \in Slots : (s = index \/ Settled(s)) => Settled(s)'
    <3>1. OwnHandle'
      BY <1>1, <2>2 DEF HandleInv, OwnHandle
    <3>2. \A s \in Slots : s = index => Joinable(s)'
      BY <1>1, <2>2 DEF Joinable
    <3>3. \A s \in Slots : s # index /\ SlotLeaked(s) => SlotLeaked(s)'
      BY <1>1, <2>2 DEF SlotLeaked, Live, LiveSteps
    <3>4. \A s \in Slots : s # index /\ Joinable(s) => Joinable(s)'
      BY <1>1, <2>2 DEF Joinable
    <3> QED BY <3>1, <3>2, <3>3, <3>4 DEF Settled
  <2>3. CASE ~running[index] /\ UNCHANGED workVars
    <3>1. /\ running' = [running EXCEPT ![index] = TRUE]
          /\ \A s \in Slots : s # index => tid'[s] = tid[s]
          /\ tid'[index] \in {tid[index], NoThread}
      BY <1>1, <2>3 DEF Dispatch
    <3>2. \A s \in Slots : s = index => SlotLeaked(s)'
      BY <1>1, <2>3, <3>1 DEF SlotLeaked, Live, PoolInv, SlotHeld
    <3>3. \A s \in Slots : s # index /\ Settled(s) => Settled(s)'
      BY <1>1, <2>3, <3>1 DEF Settled, SlotLeaked, Joinable, Live
    <3>4. OwnHandle'
      BY <1>1, <2>3, <3>1, Zero DEF HandleInv, OwnHandle
    <3> QED BY <3>2, <3>3, <3>4 DEF Settled
  <2> QED BY <2>1, <2>2, <2>3 DEF Dispatch
<1>3. CASE index + 1 < THREAD_NUMBER /\ index' = index + 1 /\ main' = "sweep"
  <2>1. \A s \in Slots : s < index + 1 => s = index \/ s < index
    BY <1>1, SlotRange
  <2> QED BY <1>1, <1>2, <1>3, <2>1 DEF HandleInv
<1>4. CASE index + 1 >= THREAD_NUMBER /\ main' = "test"
  <2>1. \A s \in Slots : s = index \/ s < index
    BY <1>1, <1>4, SlotRange, PoolAssumption
  <2> QED BY <1>1, <1>2, <1>4, <2>1 DEF HandleInv
<1> QED BY <1>1, <1>3, <1>4

(* A join uses up the handle of its slot; one it must not be given is that *)
(* of a leaked slot.                                                       *)
LEMMA HandleJoin ==
  ASSUME TypeOK, PoolInv, HandleInv, Join
  PROVE  HandleInv'
<1> USE DEF TypeOK, SlotTypeOK, WorkerTypeOK, MainTypeOK, slotVars
<1>1. /\ main = "join" /\ index \in Slots /\ UNCHANGED <<running, tid, slot>>
      /\ Settled(index)
  BY SlotRange DEF Join, JoinFrame, HandleInv
<1>2. /\ \A s \in Slots : SlotLeaked(s) => SlotLeaked(s)'
      /\ \A s \in Slots : s # index /\ Joinable(s) => Joinable(s)'
      /\ OwnHandle'
  <2>1. CASE UNCHANGED worker
    BY <1>1, <2>1 DEF SlotLeaked, Joinable, Live, HandleInv, OwnHandle
  <2>2. CASE /\ tid[index] \in Threads /\ worker[tid[index]] = "done"
             /\ worker' = [worker EXCEPT ![tid[index]] = "joined"]
    <3>1. \A t \in Threads : Live(t)' => Live(t)
      BY <2>2 DEF Live, LiveSteps
    <3>2. \A s \in Slots : s # index /\ tid[s] \in Threads => tid[s] # tid[index]
      BY <1>1, <2>2 DEF HandleInv, OwnHandle
    <3>3. \A s \in Slots : SlotLeaked(s) => SlotLeaked(s)'
      BY <1>1, <3>1 DEF SlotLeaked
    <3>4. \A s \in Slots : s # index /\ Joinable(s) => Joinable(s)'
      BY <1>1, <2>2, <3>2 DEF Joinable
    <3>5. OwnHandle'
      BY <1>1, <2>2 DEF HandleInv, OwnHandle
    <3> QED BY <3>3, <3>4, <3>5
  <2> QED BY <2>1, <2>2 DEF Join
<1>3. CASE NextJoin
  <2>1. \/ main' = "join" /\ index' = index + 1
        \/ main' = "joinReporter"
    BY <1>1, <1>3 DEF NextJoin
  <2>2. \A s \in Slots : s >= index + 1 => s >= index /\ s # index
    BY <1>1, SlotRange
  <2> QED BY <1>1, <1>2, <2>1, <2>2 DEF HandleInv, Settled
<1>4. CASE main' = "undefined" /\ Unjoinable(tid[index])
  <2>1. SlotLeaked(index)
    BY <1>1, <1>4 DEF Settled, Joinable, Unjoinable
  <2> QED BY <1>1, <1>2, <1>4, <2>1 DEF HandleInv
<1> QED BY <1>3, <1>4 DEF Join

(* A worker gives no slot back but its own, and is not joined by a step of *)
(* its own.                                                                *)
LEMMA HandleWorker ==
  ASSUME TypeOK, PoolInv, HandleInv, NEW t \in Threads, WorkerStep(t) \/ PeerStep(t)
  PROVE  HandleInv'
<1> USE DEF TypeOK, SlotTypeOK, WorkerTypeOK
<1>1. /\ Live(t) /\ worker' = [worker EXCEPT ![t] = worker'[t]]
      /\ worker'[t] \notin {"unborn", "joined"}
      /\ UNCHANGED <<main, index, tid, slot, phase, reporter>>
      /\ \/ UNCHANGED running
         \/ running' = [running EXCEPT ![slot[t]] = FALSE]
  BY WorkerMoves
<1>2. \A s \in Slots : SlotLeaked(s) => SlotLeaked(s)'
  BY <1>1 DEF SlotLeaked, Live
<1>3. \A s \in Slots : Joinable(s) => Joinable(s)'
  BY <1>1 DEF Joinable
<1>4. OwnHandle'
  BY <1>1 DEF HandleInv, OwnHandle
<1> QED BY <1>1, <1>2, <1>3, <1>4 DEF HandleInv, Settled

LEMMA HandleOthers ==
  ASSUME TypeOK, HandleInv,
         \/ stop_all_thread \/ Stopped \/ UNCHANGED vars
         \/ \E k \in Kinds : Sample(k) \/ Wake(k)
  PROVE  HandleInv'
<1>1. UNCHANGED <<phase, main, index, running, tid, worker, slot>>
  BY DEF stop_all_thread, Stopped, vars, Sample, Wake, ReporterFrame, slotVars,
         workVars, mainVars
<1>2. reporter[phase] = "none" => reporter'[phase] = "none"
  BY DEF stop_all_thread, Stopped, vars, Sample, Wake, repVars, TypeOK,
         MainTypeOK, CountTypeOK
<1> QED BY <1>1, <1>2 DEF HandleInv, OwnHandle, Settled, SlotLeaked, Joinable, Live

(* main.c's series of pthread_join is well defined, for every number of    *)
(* slots and threads, unless a worker or the reporter could not be created *)
(* or a slot was abandoned.                                                *)
THEOREM JoinsAreDefined == Spec => []UndefinedJoinOnlyAfterLeak
<1>1. Init => HandleInv
  BY Zero DEF Init, HandleInv, OwnHandle
<1>2. TypeOK /\ PoolInv /\ HandleInv /\ [Next]_vars => HandleInv'
  BY HandleQuietMain, HandleDispatch, HandleJoin, HandleWorker, HandleOthers
     DEF Next, MainStep
<1>3. HandleInv => UndefinedJoinOnlyAfterLeak
  BY DEF HandleInv, UndefinedJoinOnlyAfterLeak
<1> QED BY <1>1, <1>2, <1>3, TypeCorrect, PoolCorrect, PTL DEF Spec

-----------------------------------------------------------------------------
(* What the last report misses.  Once the reporter has printed for the     *)
(* last time, the stop flag is set: a worker adds at most one block more   *)
(* before it looks at the flag, and the slots the sweep under way has yet  *)
(* to pass can still be given one thread each.                             *)
StillAdds == LiveSteps \ {"check", "drain", "close", "release"}

Adders(k) == {t \in Threads : worker[t] \in StillAdds /\ kind[t] = k}

Unswept(k) ==
  {s \in Slots : phase = k /\ (main = "clock" \/ (main = "sweep" /\ s >= index))}

Room(k) ==
  total_size[k] + Cardinality(Adders(k)) + Cardinality(Unswept(k))
    <= reported[k] + 2 * THREAD_NUMBER

ReporterPhase ==
  /\ phase = "download" => reporter["upload"] = "none"
  /\ main \in {"arm", "spawn"} => reporter[phase] = "none"
  /\ reporter[phase] = "done" => thread_all_stop

MissInv ==
  /\ ReporterPhase
  /\ \A k \in Kinds : reporter[k] = "done" => Room(k)

(* The pool is finite, so its parts can be counted.                        *)
LEMMA PoolFinite ==
  /\ IsFiniteSet(Slots) /\ Cardinality(Slots) = THREAD_NUMBER
  /\ \A S \in SUBSET Slots : /\ IsFiniteSet(S) /\ Cardinality(S) \in Nat
                             /\ Cardinality(S) <= THREAD_NUMBER
  /\ \A S \in SUBSET Threads : IsFiniteSet(S) /\ Cardinality(S) \in Nat
<1>1. IsFiniteSet(Slots) /\ Cardinality(Slots) = THREAD_NUMBER
  <2>1. THREAD_NUMBER - 1 \in Int /\ ~(0 > THREAD_NUMBER - 1)
        /\ (THREAD_NUMBER - 1) - 0 + 1 = THREAD_NUMBER
    BY PoolAssumption DEF PoolAssumption
  <2> QED BY <2>1, FS_Interval DEF Slots
<1>2. IsFiniteSet(Threads)
  BY PoolAssumption, FS_Interval DEF PoolAssumption, Threads
<1>3. ASSUME NEW S \in SUBSET Slots
      PROVE  /\ IsFiniteSet(S) /\ Cardinality(S) \in Nat
             /\ Cardinality(S) <= THREAD_NUMBER
  BY <1>1, FS_Subset, FS_CardinalityType
<1>4. ASSUME NEW S \in SUBSET Threads
      PROVE  IsFiniteSet(S) /\ Cardinality(S) \in Nat
  BY <1>2, FS_Subset, FS_CardinalityType
<1> QED BY <1>1, <1>3, <1>4

LEMMA Counted ==
  ASSUME NEW k
  PROVE  /\ IsFiniteSet(Adders(k)) /\ Cardinality(Adders(k)) \in Nat
         /\ IsFiniteSet(Unswept(k)) /\ Cardinality(Unswept(k)) \in Nat
         /\ Cardinality(Unswept(k)) <= THREAD_NUMBER
         /\ IsFiniteSet(Adders(k)') /\ Cardinality(Adders(k)') \in Nat
         /\ IsFiniteSet(Unswept(k)') /\ Cardinality(Unswept(k)') \in Nat
<1>1. Adders(k) \in SUBSET Threads /\ Adders(k)' \in SUBSET Threads
  BY DEF Adders
<1>2. Unswept(k) \in SUBSET Slots /\ Unswept(k)' \in SUBSET Slots
  BY DEF Unswept
<1> QED BY <1>1, <1>2, PoolFinite

(* The workers that still add something are in slots of their own.         *)
LEMMA FewAdders ==
  ASSUME TypeOK, PoolInv, NEW k
  PROVE  Cardinality(Adders(k)) <= THREAD_NUMBER
<1> DEFINE f == [t \in Adders(k) |-> slot[t]]
<1>1. \A t \in Adders(k) : t \in Threads /\ Live(t) /\ slot[t] \in Slots
  BY DEF Adders, StillAdds, TypeOK, WorkerTypeOK
<1>2. \A t, u \in Adders(k) : slot[t] = slot[u] => t = u
  BY <1>1 DEF PoolInv, SlotHeld
<1>3. f \in Injection(Adders(k), Slots)
  BY <1>1, <1>2 DEF Injection, IsInjective
<1> HIDE DEF f
<1>4. Cardinality(Adders(k)) <= Cardinality(Slots)
  BY <1>3, PoolFinite, FS_Injection
<1> QED BY <1>4, PoolFinite

(* There is room left as long as the counter stands still and nobody       *)
(* joins those who may still add to it.                                    *)
LEMMA RoomKept ==
  ASSUME TypeOK, NEW k \in Kinds, Room(k),
         Adders(k)' \subseteq Adders(k), Unswept(k)' \subseteq Unswept(k),
         total_size'[k] = total_size[k], reported'[k] = reported[k]
  PROVE  Room(k)'
<1>1. total_size[k] \in Nat /\ reported[k] \in Nat /\ THREAD_NUMBER \in Nat
  BY PoolAssumption DEF TypeOK, CountTypeOK, PoolAssumption
<1>2. /\ Cardinality(Adders(k)') <= Cardinality(Adders(k))
      /\ Cardinality(Unswept(k)') <= Cardinality(Unswept(k))
  BY Counted, FS_Subset
<1> QED BY <1>1, <1>2, Counted DEF Room

(* The steps of main() that create or join no thread.  It goes back to the *)
(* sweep only as long as the flag is not set.                              *)
LEMMA MissQuietMain ==
  ASSUME TypeOK, PoolInv, MissInv,
         \/ set_interval_timer \/ SpawnReporter \/ StartClock \/ TestStop
         \/ JoinReporter \/ Reset
  PROVE  MissInv'
<1> USE DEF mainVars, slotVars, workVars, sumVars, repVars
<1>1. UNCHANGED <<worker, kind, total_size, reported>>
  BY DEF set_interval_timer, SpawnReporter, StartClock, TestStop, JoinReporter, Reset
<1>2. ReporterPhase'
  <2>1. CASE SpawnReporter
    BY <2>1 DEF SpawnReporter, MissInv, ReporterPhase, TypeOK, MainTypeOK, CountTypeOK
  <2>2. CASE Reset
    BY <2>2 DEF Reset, MissInv, ReporterPhase, PoolInv, MainPhase
  <2>3. CASE set_interval_timer \/ StartClock \/ TestStop \/ JoinReporter
    BY <2>3 DEF set_interval_timer, StartClock, TestStop, JoinReporter, MissInv,
                ReporterPhase
  <2> QED BY <2>1, <2>2, <2>3
<1>3. ASSUME NEW k \in Kinds, reporter'[k] = "done"
      PROVE  Room(k)'
  <2>1. reporter[k] = "done" /\ (SpawnReporter => k # phase)
    BY <1>3 DEF set_interval_timer, SpawnReporter, StartClock, TestStop,
                JoinReporter, Reset, TypeOK, CountTypeOK, MissInv, ReporterPhase
  <2>2. Adders(k)' = Adders(k)
    BY <1>1 DEF Adders
  <2>3. Unswept(k)' \subseteq Unswept(k)
    <3>1. CASE SpawnReporter
      BY <2>1, <3>1 DEF SpawnReporter, Unswept
    <3>2. CASE StartClock
      BY <3>2 DEF StartClock, Unswept
    <3>3. CASE TestStop
      BY <2>1, <3>3 DEF TestStop, Unswept, MissInv, ReporterPhase
    <3>4. CASE set_interval_timer \/ JoinReporter \/ Reset
      BY <3>4 DEF set_interval_timer, JoinReporter, Reset, Unswept
    <3> QED BY <3>1, <3>2, <3>3, <3>4
  <2> QED BY <1>1, <2>1, <2>2, <2>3, RoomKept DEF MissInv
<1> QED BY <1>2, <1>3 DEF MissInv

(* A thread the sweep creates takes the place of the slot it is created    *)
(* for.                                                                    *)
LEMMA MissDispatch ==
  ASSUME TypeOK, PoolInv, MissInv, Dispatch
  PROVE  MissInv'
<1>1. /\ main = "sweep" /\ index \in Slots /\ phase \in Kinds
      /\ UNCHANGED <<phase, thread_all_stop, reporter, total_size, reported>>
      /\ \/ main' = "sweep" /\ index' = index + 1
         \/ main' = "test"
  BY DEF Dispatch, NextSlot, TypeOK, MainTypeOK, sumVars, repVars
<1>2. ReporterPhase'
  BY <1>1 DEF MissInv, ReporterPhase
<1>3. ASSUME NEW k \in Kinds
      PROVE  /\ Unswept(k)' \subseteq Unswept(k)
             /\ k = phase => Unswept(k)' \subseteq Unswept(k) \ {index}
                             /\ index \in Unswept(k)
  <2>1. \A s \in Slots : s >= index + 1 => s >= index /\ s # index
    BY <1>1, SlotRange
  <2>2. index >= index
    BY <1>1, SlotRange
  <2> QED BY <1>1, <2>1, <2>2 DEF Unswept
<1>4. ASSUME NEW k \in Kinds, reporter[k] = "done" PROVE Room(k)'
  <2>1. Room(k)
    BY <1>4 DEF MissInv
  <2>2. CASE UNCHANGED workVars
    <3>1. Adders(k)' = Adders(k)
      BY <2>2 DEF Adders, workVars
    <3> QED BY <1>1, <1>3, <2>1, <3>1, RoomKept
  <2>3. ASSUME NEW t \in Threads, worker[t] = "unborn",
               worker' = [worker EXCEPT ![t] = "connect"],
               kind' = [kind EXCEPT ![t] = phase]
        PROVE  Room(k)'
    <3>1. /\ k # phase => Adders(k)' = Adders(k)
          /\ k = phase => Adders(k)' = Adders(k) \union {t}
      BY <1>1, <2>3 DEF Adders, StillAdds, TypeOK, WorkerTypeOK
    <3>2. CASE k # phase
      BY <1>1, <1>3, <2>1, <3>1, <3>2, RoomKept
    <3>3. CASE k = phase
      <4>1. Cardinality(Adders(k)') <= Cardinality(Adders(k)) + 1
        BY <3>1, <3>3, Counted, FS_AddElement
      <4>2. Cardinality(Unswept(k)') <= Cardinality(Unswept(k)) - 1
        <5>1. /\ IsFiniteSet(Unswept(k) \ {index})
              /\ Cardinality(Unswept(k) \ {index}) = Cardinality(Unswept(k)) - 1
          BY <1>3, <3>3, Counted, FS_RemoveElement
        <5> QED BY <1>3, <3>3, <5>1, FS_Subset
      <4>3. total_size[k] \in Nat /\ reported[k] \in Nat /\ THREAD_NUMBER \in Nat
        BY PoolAssumption DEF TypeOK, CountTypeOK, PoolAssumption
      <4> HIDE DEF At
      <4> QED BY <1>1, <2>1, <4>1, <4>2, <4>3, Counted DEF Room
    <3> QED BY <3>2, <3>3
  <2> QED BY <2>2, <2>3 DEF Dispatch
<1> QED BY <1>1, <1>2, <1>4 DEF MissInv

LEMMA MissJoin ==
  ASSUME TypeOK, PoolInv, MissInv, Join
  PROVE  MissInv'
<1>1. /\ UNCHANGED <<phase, thread_all_stop, reporter, total_size, reported, kind>>
      /\ main = "join" /\ main' \in {"join", "joinReporter", "undefined"}
  BY DEF Join, NextJoin, JoinFrame, sumVars, repVars
<1>2. \A t \in Threads : worker'[t] = worker[t] \/ worker'[t] = "joined"
  BY DEF Join, TypeOK, WorkerTypeOK
<1>3. ASSUME NEW k \in Kinds
      PROVE  Adders(k)' \subseteq Adders(k) /\ Unswept(k)' \subseteq Unswept(k)
  BY <1>1, <1>2 DEF Adders, Unswept, StillAdds
<1>4. ReporterPhase'
  BY <1>1 DEF MissInv, ReporterPhase
<1> QED BY <1>1, <1>3, <1>4, RoomKept DEF MissInv

(* A worker uses its room in the step that adds; once the flag is set none *)
(* comes back from its look at it.                                         *)
LEMMA MissWorker ==
  ASSUME TypeOK, PoolInv, MissInv, NEW t \in Threads, WorkerStep(t) \/ PeerStep(t)
  PROVE  MissInv'
<1>1. /\ Live(t) /\ worker' = [worker EXCEPT ![t] = worker'[t]]
      /\ UNCHANGED <<phase, main, index, thread_all_stop, kind, reporter, reported>>
      /\ kind[t] = phase
  BY WorkerMoves DEF PoolInv, SlotHeld
<1>a. \A u \in Threads : kind'[u] = kind[u] /\ (u # t => worker'[u] = worker[u])
  BY <1>1 DEF TypeOK, WorkerTypeOK
<1>2. ReporterPhase' /\ \A k \in Kinds : Unswept(k)' = Unswept(k)
  BY <1>1 DEF MissInv, ReporterPhase, Unswept
<1>3. ASSUME NEW k \in Kinds, reporter[k] = "done" PROVE Room(k)'
  <2>1. Room(k) /\ (k = phase => thread_all_stop)
    BY <1>3 DEF MissInv, ReporterPhase
  <2>2. CASE Store(t) /\ k = phase
    <3>1. /\ worker[t] = "store"
          /\ worker'[t] = IF size[t] = 0 THEN "send" ELSE "check"
          /\ total_size'[k] = total_size[k] + size[t]
          /\ size[t] \in {0, 1}
      BY <1>1, <2>2 DEF Store, Goto, TypeOK, WorkerTypeOK, CountTypeOK, PoolInv,
                        Exclusion
    <3>2. t \in Adders(k)
      BY <1>1, <2>2, <3>1 DEF Adders, StillAdds
    <3>3. CASE size[t] = 0
      <4>1. Adders(k)' \subseteq Adders(k)
        BY <1>a, <3>2 DEF Adders
      <4>2. total_size'[k] = total_size[k]
        BY <3>1, <3>3 DEF TypeOK, CountTypeOK
      <4> QED BY <1>1, <1>2, <2>1, <4>1, <4>2, RoomKept
    <3>4. CASE size[t] = 1
      <4>1. Adders(k)' = Adders(k) \ {t}
        BY <1>1, <3>1, <3>4 DEF Adders, StillAdds, TypeOK, WorkerTypeOK
      <4>2. Cardinality(Adders(k)') = Cardinality(Adders(k)) - 1
        BY <3>2, <4>1, Counted, FS_RemoveElement
      <4>3. total_size[k] \in Nat /\ reported[k] \in Nat /\ THREAD_NUMBER \in Nat
        BY PoolAssumption DEF TypeOK, CountTypeOK, PoolAssumption
      <4> QED BY <1>1, <1>2, <2>1, <3>1, <3>4, <4>2, <4>3, Counted DEF Room
    <3> QED BY <3>1, <3>3, <3>4
  <2>3. CASE ~(Store(t) /\ k = phase)
    <3>1. total_size'[k] = total_size[k]
      <4>1. CASE Store(t)
        BY <1>1, <2>3, <4>1 DEF Store
      <4>2. CASE ~Store(t)
        BY <4>2 DEF WorkerStep, PeerStep, init_connection, SSL_connect, Abandon,
                    make_request, Send, Lock, CheckStop, Close, Release,
                    RecvData, RecvEnd, DrainEnd, sumVars
      <4> QED BY <4>1, <4>2
    <3>2. k = phase /\ worker'[t] \in StillAdds => worker[t] \in StillAdds
      <4>1. CASE CheckStop(t) \/ Store(t)
        BY <1>1, <2>1, <2>3, <4>1 DEF CheckStop, Goto, StillAdds, TypeOK, WorkerTypeOK
      <4>2. CASE init_connection(t) \/ SSL_connect(t) \/ make_request(t)
        BY <4>2 DEF init_connection, SSL_connect, make_request, StillAdds
      <4>3. CASE Send(t) \/ Lock(t) \/ RecvData(t)
        BY <4>3 DEF Send, Lock, RecvData, StillAdds
      <4>4. CASE Close(t) \/ Release(t) \/ RecvEnd(t) \/ DrainEnd(t)
        BY <1>1, <4>4 DEF Close, Release, RecvEnd, DrainEnd, Goto, StillAdds,
                          TypeOK, WorkerTypeOK
      <4> QED BY <4>1, <4>2, <4>3, <4>4 DEF WorkerStep, PeerStep
    <3>3. Adders(k)' \subseteq Adders(k)
      <4>1. k # phase => t \notin Adders(k)'
        BY <1>1 DEF Adders
      <4> QED BY <1>a, <3>2, <4>1 DEF Adders
    <3> QED BY <1>1, <1>2, <2>1, <3>1, <3>3, RoomKept
  <2> QED BY <2>2, <2>3
<1> QED BY <1>1, <1>2, <1>3 DEF MissInv

(* The reporter's last look at the counter sees all but what is on its way *)
(* from one worker per slot, and one thread more per slot to be swept.     *)
LEMMA MissOthers ==
  ASSUME TypeOK, PoolInv, MissInv,
         \/ stop_all_thread \/ Stopped \/ UNCHANGED vars
         \/ \E k \in Kinds : Sample(k) \/ Wake(k)
  PROVE  MissInv'
<1>1. /\ UNCHANGED <<phase, main, index, worker, kind, total_size>>
      /\ thread_all_stop => thread_all_stop'
  BY DEF stop_all_thread, Stopped, vars, Sample, Wake, ReporterFrame, mainVars,
         workVars, sumVars
<1>2. \A k \in Kinds : Adders(k)' = Adders(k) /\ Unswept(k)' = Unswept(k)
  BY <1>1 DEF Adders, Unswept
<1>3. CASE UNCHANGED <<reporter, reported>>
  <2>1. ReporterPhase'
    BY <1>1, <1>3 DEF MissInv, ReporterPhase
  <2> QED BY <1>1, <1>2, <1>3, <2>1, RoomKept DEF MissInv
<1>4. ASSUME NEW k \in Kinds, Sample(k) \/ Wake(k) PROVE MissInv'
  <2>1. /\ reporter[k] \in {"sample", "asleep"} /\ UNCHANGED thread_all_stop
        /\ reporter' = [reporter EXCEPT ![k] = reporter'[k]]
        /\ reporter'[k] # "none"
        /\ \A l \in Kinds : l # k => reported'[l] = reported[l]
        /\ reporter'[k] = "done" => thread_all_stop /\ reported'[k] = total_size[k]
    BY <1>4 DEF Sample, Wake, ReporterFrame, TypeOK, CountTypeOK
  <2>2. ReporterPhase'
    BY <1>1, <2>1 DEF MissInv, ReporterPhase, TypeOK, MainTypeOK, CountTypeOK
  <2>3. ASSUME NEW l \in Kinds, reporter'[l] = "done" PROVE Room(l)'
    <3>1. CASE l # k
      <4>1. reporter[l] = "done"
        BY <2>1, <2>3, <3>1 DEF TypeOK, CountTypeOK
      <4> QED BY <1>1, <1>2, <2>1, <3>1, <4>1, RoomKept DEF MissInv
    <3>2. CASE l = k
      <4>1. total_size[k] \in Nat /\ THREAD_NUMBER \in Nat
        BY PoolAssumption DEF TypeOK, CountTypeOK, PoolAssumption
      <4>2. reported'[k] = total_size[k] /\ total_size' = total_size
        BY <1>1, <2>1, <2>3, <3>2
      <4>3. /\ Cardinality(Adders(k)) + Cardinality(Unswept(k)) <= 2 * THREAD_NUMBER
            /\ Cardinality(Adders(k)) \in Nat /\ Cardinality(Unswept(k)) \in Nat
        BY <4>1, Counted, FewAdders
      <4> QED BY <1>2, <3>2, <4>1, <4>2, <4>3 DEF Room
    <3> QED BY <3>1, <3>2
  <2> QED BY <2>2, <2>3 DEF MissInv
<1> QED
  BY <1>3, <1>4 DEF stop_all_thread, Stopped, vars, repVars

(* The last figure printed misses at most two blocks per slot, for every   *)
(* number of slots and every schedule: calculate_dl_speed_thread stops     *)
(* looking while workers may still add.                                    *)
THEOREM ReportsMissLittle == Spec => []ReportMissesLittle
<1>1. Init => MissInv
  BY DEF Init, MissInv, ReporterPhase
<1>2. TypeOK /\ PoolInv /\ MissInv /\ [Next]_vars => MissInv'
  BY MissQuietMain, MissDispatch, MissJoin, MissWorker, MissOthers
     DEF Next, MainStep
<1>3. TypeOK /\ MissInv => ReportMissesLittle
  <2> SUFFICES ASSUME TypeOK, MissInv, NEW k \in Kinds, reporter[k] = "done"
               PROVE  total_size[k] <= reported[k] + 2 * THREAD_NUMBER
    BY DEF ReportMissesLittle
  <2>1. total_size[k] \in Nat /\ reported[k] \in Nat /\ THREAD_NUMBER \in Nat
    BY PoolAssumption DEF TypeOK, CountTypeOK, PoolAssumption
  <2> QED BY <2>1, Counted DEF MissInv, Room
<1> QED BY <1>1, <1>2, <1>3, TypeCorrect, PoolCorrect, PTL DEF Spec

-----------------------------------------------------------------------------
(* The pool implements the two measurements of Measurement: each block is  *)
(* credited to the measurement in progress, and none once it is over.      *)
LEMMA MeasureStep == TypeOK /\ PoolInv /\ [Next]_vars => [M!Next]_(M!vars)
<1> SUFFICES ASSUME TypeOK, PoolInv, [Next]_vars PROVE [M!Next]_(M!vars)
  OBVIOUS
<1> USE DEF M!Next, M!Count, M!Advance, M!vars, M!Kinds
<1>1. ASSUME NEW t \in Threads, WorkerStep(t) \/ PeerStep(t)
      PROVE  [M!Next]_(M!vars)
  <2>1. UNCHANGED <<phase, main>> /\ main # "exit" /\ kind[t] = phase
    BY <1>1, WorkerMoves DEF PoolInv, SlotHeld, JoinedOnes, Quiet
  <2>2. CASE Store(t)
    <3>1. total_size' = [total_size EXCEPT ![phase] = @ + size[t]]
      BY <2>1, <2>2 DEF Store, PoolInv, Exclusion, TypeOK, CountTypeOK
    <3>2. CASE size[t] = 0
      BY <2>1, <3>1, <3>2 DEF TypeOK, CountTypeOK, MainTypeOK
    <3>3. CASE size[t] = 1
      BY <2>1, <3>1, <3>3 DEF TypeOK, MainTypeOK
    <3> QED BY <3>2, <3>3 DEF TypeOK, CountTypeOK
  <2>3. CASE ~Store(t)
    <3>1. UNCHANGED total_size
      BY <1>1, <2>3
         DEF WorkerStep, PeerStep, init_connection, SSL_connect, Abandon,
             make_request, Send, Lock, CheckStop, Close, Release, RecvData,
             RecvEnd, DrainEnd, sumVars
    <3> QED BY <2>1, <3>1
  <2> QED BY <2>2, <2>3
<1>2. CASE JoinReporter \/ Reset
  BY <1>2 DEF JoinReporter, Reset, PoolInv, MainPhase, TypeOK, MainTypeOK,
              sumVars
<1>3. CASE \/ set_interval_timer \/ SpawnReporter \/ StartClock \/ Dispatch
           \/ TestStop \/ Join
  BY <1>3 DEF set_interval_timer, SpawnReporter, StartClock, Dispatch, NextSlot,
              TestStop, Join, NextJoin, JoinFrame, sumVars
<1>4. CASE stop_all_thread \/ Stopped \/ UNCHANGED vars
  BY <1>4 DEF stop_all_thread, Stopped, vars, mainVars, sumVars
<1>5. ASSUME NEW k \in Kinds, Sample(k) \/ Wake(k) PROVE [M!Next]_(M!vars)
  BY <1>5 DEF Sample, Wake, ReporterFrame, mainVars, sumVars
<1> QED BY <1>1, <1>2, <1>3, <1>4, <1>5 DEF Next, MainStep

(* The refinement, as the temporal property the runs check.                *)
THEOREM PoolMeasures == Spec => Measures
<1>1. Init => M!Init
  BY DEF Init, M!Init, M!Kinds
<1>2. TypeOK /\ PoolInv /\ [Next]_vars => [M!Next]_(M!vars)
  BY MeasureStep
<1> QED BY <1>1, <1>2, TypeCorrect, PoolCorrect, PTL DEF Spec, Measures, M!Spec
=============================================================================
