----------------------- MODULE SemaphoreWritersProofs -----------------------
(***************************************************************************)
(* What holds of the semaphore writers for every number of threads and of  *)
(* rounds, and whatever the files hold at the start: what is appended to   *)
(* each is in order, the threads implement TicketLog, and in the end every *)
(* number has been appended once.                                          *)
(***************************************************************************)
EXTENDS SemaphoreWriters, FiniteSetTheorems, SequenceTheorems, TLAPS

(***************************************************************************)
(* The inductive invariant.  A thread between sem_wait and sem_post holds  *)
(* its file's semaphore alone; one between Lock and Format holds the mutex *)
(* alone and knows the counter; and a number drawn but not yet written is  *)
(* above everything this run has appended to its file.                     *)
(***************************************************************************)
Holds(t) == pc[t] \in Section

SemaphoreHeld ==
  /\ \A t \in Threads : Holds(t) => sem[rand[t]] = 0
  /\ \A t, u \in Threads : Holds(t) /\ Holds(u) /\ rand[t] = rand[u] => t = u

MutexHeld ==
  /\ \A t \in Threads : pc[t] \in {"incr", "format"} => glob_mutex
  /\ \A t, u \in Threads :
       pc[t] \in {"incr", "format"} /\ pc[u] \in {"incr", "format"} => t = u

Fresh ==
  \A t \in Threads :
    /\ At(t, "incr") => temp[t] = glob
    /\ At(t, "format") => temp[t] + 1 = glob
    /\ At(t, "write") => send_msg[t] = temp[t] + 1 /\ temp[t] + 1 <= glob

Below ==
  /\ \A f \in Files : \A n \in DOMAIN appended[f] : appended[f][n] <= glob
  /\ \A t \in Threads : pc[t] \in {"format", "write"} =>
       \A n \in DOMAIN appended[rand[t]] : appended[rand[t]][n] < temp[t] + 1

NotYetCreated ==
  main = "create" => \A t \in Threads : t >= index => pc[t] = "unborn"

WritersInv ==
  TypeOK /\ NotYetCreated /\ SemaphoreHeld /\ MutexHeld /\ Fresh /\ Below
  /\ FilesAscend

USE DEF At

LEMMA Bounds ==
  ASSUME index \in Threads, NEW after
  PROVE  NextThread(after) => index' \in Threads /\ main' \in {main, after}
BY WritersAssumption DEF WritersAssumption, Threads, NextThread

(* What this run has appended follows the files.                           *)
LEMMA AppendedTypes ==
  ASSUME TypeOK, FilesAscend
  PROVE  appended \in [Files -> Seq(Nat)]
<1> SUFFICES ASSUME NEW f \in Files
             PROVE  SubSeq(file[f], Len(old[f]) + 1, Len(file[f])) \in Seq(Nat)
  BY DEF appended
<1>1. file[f] \in Seq(Nat) /\ Len(old[f]) \in Nat
  BY DEF TypeOK
<1> QED BY <1>1

LEMMA AppendedSame ==
  ASSUME UNCHANGED <<file, old>>
  PROVE  /\ appended' = appended
         /\ FilesAscend => FilesAscend'
BY DEF appended, FilesAscend, OldStays

LEMMA BehindGrows ==
  ASSUME NEW s \in Seq(Nat), NEW m \in 0 .. Len(s), NEW k \in Nat
  PROVE  /\ SubSeq(Append(s, k), m + 1, Len(Append(s, k)))
              = Append(SubSeq(s, m + 1, Len(s)), k)
         /\ SubSeq(Append(s, k), 1, m) = SubSeq(s, 1, m)
         /\ m <= Len(Append(s, k))
<1>1. Append(s, k) \in Seq(Nat) /\ Len(Append(s, k)) = Len(s) + 1
  OBVIOUS
<1>2. SubSeq(Append(s, k), 1, m) = SubSeq(s, 1, m)
  OBVIOUS
<1> DEFINE left == SubSeq(Append(s, k), m + 1, Len(s) + 1)
           right == Append(SubSeq(s, m + 1, Len(s)), k)
<1>3. /\ left \in Seq(Nat) /\ right \in Seq(Nat)
      /\ Len(left) = Len(s) + 1 - m /\ Len(right) = Len(s) + 1 - m
  OBVIOUS
<1>4. \A n \in 1 .. Len(s) + 1 - m : left[n] = IF n + m = Len(s) + 1 THEN k ELSE s[n + m]
  OBVIOUS
<1>5. \A n \in 1 .. Len(s) + 1 - m : right[n] = IF n + m = Len(s) + 1 THEN k ELSE s[n + m]
  OBVIOUS
<1>6. left = right
  <2> HIDE DEF left, right
  <2>1. \A n \in 1 .. Len(left) : left[n] = right[n]
    BY <1>3, <1>4, <1>5
  <2> QED BY <1>3, <2>1, SeqEqual
<1>7. m <= Len(s) + 1
  OBVIOUS
<1> QED BY <1>1, <1>2, <1>6, <1>7

LEMMA AppendedGrows ==
  ASSUME TypeOK, FilesAscend, NEW f \in Files, NEW k \in Nat,
         file' = [file EXCEPT ![f] = Append(@, k)], UNCHANGED old
  PROVE  /\ appended' = [appended EXCEPT ![f] = Append(appended[f], k)]
         /\ \A g \in Files : OldStays(g)'
<1>1. \A g \in Files : file[g] \in Seq(Nat) /\ Len(old[g]) \in 0 .. Len(file[g])
  BY DEF TypeOK, FilesAscend, OldStays
<1>2. \A g \in Files : file'[g] = IF g = f THEN Append(file[f], k) ELSE file[g]
  BY DEF TypeOK
<1>3. /\ SubSeq(file'[f], Len(old[f]) + 1, Len(file'[f]))
            = Append(SubSeq(file[f], Len(old[f]) + 1, Len(file[f])), k)
      /\ SubSeq(file'[f], 1, Len(old[f])) = SubSeq(file[f], 1, Len(old[f]))
      /\ Len(old[f]) <= Len(file'[f])
  <2>1. /\ file[f] \in Seq(Nat) /\ Len(old[f]) \in 0 .. Len(file[f])
        /\ file'[f] = Append(file[f], k)
    BY <1>1, <1>2
  <2>2. /\ SubSeq(Append(file[f], k), Len(old[f]) + 1, Len(Append(file[f], k)))
              = Append(SubSeq(file[f], Len(old[f]) + 1, Len(file[f])), k)
        /\ SubSeq(Append(file[f], k), 1, Len(old[f])) = SubSeq(file[f], 1, Len(old[f]))
        /\ Len(old[f]) <= Len(Append(file[f], k))
    BY <2>1, BehindGrows
  <2> QED BY <2>1, <2>2
<1>4. appended'[f] = Append(appended[f], k)
  BY <1>3 DEF appended
<1>5. \A g \in Files : g # f => appended'[g] = appended[g]
  BY <1>2 DEF appended
<1>6. appended' = [appended EXCEPT ![f] = Append(appended[f], k)]
  BY <1>4, <1>5 DEF appended
<1>7. \A g \in Files : OldStays(g)'
  BY <1>2, <1>3 DEF FilesAscend, OldStays
<1> QED BY <1>6, <1>7

LEMMA NothingAppended ==
  ASSUME Init
  PROVE  /\ appended = [f \in Files |-> <<>>]
         /\ \A f \in Files : appended[f] = <<>> /\ OldStays(f)
<1>1. \A f \in Files : file[f] = old[f] /\ old[f] \in Seq(Nat)
  BY WritersAssumption DEF WritersAssumption, Init
<1>2. ASSUME NEW f \in Files
      PROVE  SubSeq(file[f], Len(old[f]) + 1, Len(file[f])) = <<>> /\ OldStays(f)
  <2>1. \A s \in Seq(Nat) : /\ SubSeq(s, Len(s) + 1, Len(s)) = <<>>
                            /\ SubSeq(s, 1, Len(s)) = s /\ Len(s) <= Len(s)
    OBVIOUS
  <2> QED BY <1>1, <2>1 DEF OldStays
<1> QED BY <1>2 DEF appended

LEMMA WritersInit == Init => WritersInv
<1> SUFFICES ASSUME Init PROVE WritersInv
  OBVIOUS
<1>1. 0 \in Threads
  BY WritersAssumption DEF WritersAssumption, Threads
<1>2. TypeOK
  <2>1. old \in [Files -> Seq(Nat)]
    BY WritersAssumption DEF WritersAssumption, Init
  <2> QED BY <1>1, <2>1 DEF Init, TypeOK, Steps, Files
<1>3. SemaphoreHeld /\ MutexHeld /\ Fresh
  BY DEF Init, SemaphoreHeld, MutexHeld, Fresh, Holds, Section
<1>4. Below /\ FilesAscend
  <2>1. \A f \in Files : appended[f] = <<>> /\ OldStays(f)
    BY NothingAppended
  <2>2. pc = [t \in Threads |-> "unborn"]
    BY DEF Init
  <2> QED BY <2>1, <2>2 DEF Below, FilesAscend, Ascending
<1>5. NotYetCreated
  BY DEF Init, NotYetCreated
<1> QED BY <1>2, <1>3, <1>4, <1>5 DEF WritersInv

(* main() moves threads between steps that hold nothing.                   *)
LEMMA WritersMain ==
  ASSUME WritersInv, Create \/ Join
  PROVE  WritersInv'
<1> USE DEF WritersInv, dataVars
<1>0. UNCHANGED <<file, old>> /\ appended' = appended
  BY AppendedSame DEF Create, Join
<1>1. /\ UNCHANGED <<i, rand, sem, glob_mutex, glob, temp, send_msg>>
      /\ index' \in Threads /\ main' \in {"create", "join", "done", "undefined"}
  BY Bounds DEF Create, Join, TypeOK
<1>2. /\ pc' \in [Threads -> Steps]
      /\ \A t \in Threads : pc'[t] \in Section => pc'[t] = pc[t]
  BY DEF Create, Join, TypeOK, Steps, Section
<1>3. TypeOK'
  BY <1>0, <1>1, <1>2 DEF TypeOK
<1>4. SemaphoreHeld' /\ MutexHeld' /\ Fresh'
  BY <1>1, <1>2 DEF SemaphoreHeld, MutexHeld, Fresh, Holds, Section
<1>5. Below' /\ FilesAscend'
  BY <1>0, <1>1, <1>2, AppendedSame DEF Below, Section
<1>6. NotYetCreated'
  <2>1. CASE Create
    <3>1. /\ \A t \in Threads \ {index} : pc'[t] = pc[t]
          /\ main' = "create" => index' = index + 1 /\ main = "create"
      BY <2>1 DEF Create, NextThread, TypeOK
    <3> QED BY <3>1 DEF NotYetCreated, Threads, TypeOK
  <2>2. CASE Join
    BY <2>2 DEF Join, NextThread, NotYetCreated
  <2> QED BY <2>1, <2>2
<1> QED BY <1>3, <1>4, <1>5, <1>6

(* A thread changes its own step only, and keeps the types.                *)
LEMMA HandlerTypes ==
  ASSUME WritersInv, NEW t \in Threads, thread_handler(t)
  PROVE  /\ TypeOK'
         /\ pc' = [pc EXCEPT ![t] = pc'[t]]
         /\ UNCHANGED <<mainVars, old>>
<1> USE DEF WritersInv, TypeOK, Frame, Goto, mainVars, Steps, Section
<1>1. CASE random_int(t)
  BY <1>1 DEF random_int, dataVars
<1>2. CASE sem_wait(t)
  BY <1>2 DEF sem_wait
<1>3. CASE Lock(t)
  BY <1>3 DEF Lock
<1>4. CASE Increment(t)
  <2>1. glob' \in Nat
    BY <1>4 DEF Increment
  <2> QED BY <1>4, <2>1 DEF Increment
<1>5. CASE Format(t)
  BY <1>5 DEF Format
<1>6. CASE file_handle_write(t)
  <2>1. send_msg[t] \in Nat /\ rand[t] \in Files
    OBVIOUS
  <2>2. file' \in [Files -> Seq(Nat)]
    BY <1>6, <2>1 DEF file_handle_write
  <2> QED BY <1>6, <2>2 DEF file_handle_write
<1>7. CASE sem_post(t)
  <2>1. sem[rand[t]] = 0
    BY <1>7 DEF sem_post, SemaphoreHeld, Holds
  <2>2. sem' \in [Files -> {0, 1}] /\ i' \in [Threads -> Nat]
    BY <1>7, <2>1 DEF sem_post
  <2>3. pc' \in [Threads -> Steps] /\ pc' = [pc EXCEPT ![t] = pc'[t]]
    BY <1>7 DEF sem_post
  <2> QED BY <1>7, <2>2, <2>3 DEF sem_post
<1> QED BY <1>1, <1>2, <1>3, <1>4, <1>5, <1>6, <1>7 DEF thread_handler

(* What a step of a thread appends.                                        *)
LEMMA FileMoves ==
  ASSUME WritersInv, NEW t \in Threads, thread_handler(t)
  PROVE  /\ appended \in [Files -> Seq(Nat)]
         /\ ~file_handle_write(t) => appended' = appended /\ FilesAscend'
         /\ file_handle_write(t) =>
              /\ send_msg[t] = temp[t] + 1 /\ temp[t] + 1 \in Nat
              /\ temp[t] + 1 <= glob /\ rand[t] \in Files
              /\ appended' = [appended EXCEPT
                               ![rand[t]] = Append(appended[rand[t]], temp[t] + 1)]
              /\ \A g \in Files : OldStays(g)'
<1> USE DEF WritersInv
<1>1. appended \in [Files -> Seq(Nat)]
  BY AppendedTypes
<1>2. CASE ~file_handle_write(t)
  <2>1. UNCHANGED <<file, old>>
    BY <1>2, HandlerTypes
       DEF thread_handler, random_int, sem_wait, Lock, Increment, Format, sem_post,
           dataVars
  <2> QED BY <1>1, <1>2, <2>1, AppendedSame
<1>3. CASE file_handle_write(t)
  <2>1. /\ rand[t] \in Files /\ temp[t] + 1 \in Nat /\ temp[t] + 1 <= glob
        /\ send_msg[t] = temp[t] + 1
        /\ file' = [file EXCEPT ![rand[t]] = Append(@, temp[t] + 1)]
    BY <1>3 DEF file_handle_write, Fresh, TypeOK
  <2>2. old' = old
    BY HandlerTypes
  <2> QED BY <1>1, <1>3, <2>1, <2>2, AppendedGrows
<1> QED BY <1>2, <1>3

(* sem_wait lets one thread per file in, and sem_post the next.            *)
LEMMA SemaphoreStep ==
  ASSUME WritersInv, NEW t \in Threads, thread_handler(t)
  PROVE  SemaphoreHeld'
<1> USE DEF Holds, Section
<1>1. /\ \A u \in Threads \ {t} : pc'[u] = pc[u]
      /\ SemaphoreHeld /\ rand \in [Threads -> Files] /\ sem \in [Files -> {0, 1}]
      /\ t \in Threads /\ pc \in [Threads -> Steps]
  <2>1. pc' = [pc EXCEPT ![t] = pc'[t]]
    BY HandlerTypes
  <2> QED BY <2>1 DEF WritersInv, TypeOK
<1>2. CASE random_int(t)
  <2>1. /\ UNCHANGED sem /\ pc'[t] = "wait"
        /\ \A u \in Threads \ {t} : rand'[u] = rand[u] /\ pc'[u] = pc[u]
    BY <1>1, <1>2 DEF random_int, dataVars, Goto
  <2>2. \A u \in Threads : Holds(u)' => Holds(u) /\ u # t
    BY <2>1
  <2> QED BY <1>1, <2>1, <2>2 DEF SemaphoreHeld
<1>3. CASE sem_wait(t)
  <2>1. \A u \in Threads : Holds(u) => rand[u] # rand[t]
    BY <1>1, <1>3 DEF sem_wait, SemaphoreHeld
  <2>2. sem[rand[t]] = 1 /\ UNCHANGED rand
    BY <1>1, <1>3 DEF sem_wait
  <2>3. sem' = [sem EXCEPT ![rand[t]] = 0]
    BY <1>3, <2>2 DEF sem_wait
  <2>4. \A u \in Threads : Holds(u)' => sem'[rand'[u]] = 0
    BY <1>1, <2>2, <2>3 DEF SemaphoreHeld
  <2>5. ASSUME NEW u \in Threads, NEW v \in Threads,
               Holds(u)', Holds(v)', rand[u] = rand[v]
        PROVE  u = v
    BY <1>1, <2>1, <2>5 DEF SemaphoreHeld
  <2> QED BY <2>2, <2>4, <2>5 DEF SemaphoreHeld
<1>4. CASE Lock(t) \/ Increment(t) \/ Format(t) \/ file_handle_write(t)
  <2>1. UNCHANGED <<sem, rand>> /\ Holds(t)
    BY <1>4 DEF Lock, Increment, Format, file_handle_write
  <2>2. \A u \in Threads : Holds(u)' => Holds(u)
    BY <1>1, <2>1
  <2> QED BY <1>1, <2>1, <2>2 DEF SemaphoreHeld
<1>5. CASE sem_post(t)
  <2>1. /\ Holds(t) /\ ~Holds(t)' /\ UNCHANGED rand
        /\ \A f \in Files : f # rand[t] => sem'[f] = sem[f]
    BY <1>1, <1>5 DEF sem_post, Goto
  <2>2. \A u \in Threads : Holds(u)' => Holds(u) /\ rand[u] # rand[t]
    BY <1>1, <2>1 DEF SemaphoreHeld
  <2>3. \A u \in Threads : Holds(u)' => sem'[rand'[u]] = 0
    BY <1>1, <2>1, <2>2 DEF SemaphoreHeld
  <2> QED BY <1>1, <2>1, <2>2, <2>3 DEF SemaphoreHeld
<1> QED BY <1>2, <1>3, <1>4, <1>5 DEF thread_handler

(* The mutex is held from the read of glob to the end of Format, so the    *)
(* number read stays current.                                              *)
LEMMA MutexStep ==
  ASSUME WritersInv, NEW t \in Threads, thread_handler(t)
  PROVE  MutexHeld' /\ Fresh'
<1> DEFINE Inside(u) == pc[u] \in {"incr", "format"}
<1>1. /\ \A u \in Threads \ {t} : pc'[u] = pc[u]
      /\ MutexHeld /\ Fresh /\ glob \in Nat
      /\ temp \in [Threads -> Nat] /\ send_msg \in [Threads -> Nat]
      /\ pc \in [Threads -> Steps]
  <2>1. pc' = [pc EXCEPT ![t] = pc'[t]]
    BY HandlerTypes
  <2> QED BY <2>1 DEF WritersInv, TypeOK
<1>2. CASE random_int(t) \/ sem_wait(t) \/ file_handle_write(t) \/ sem_post(t)
  <2>1. /\ UNCHANGED <<glob_mutex, glob, temp, send_msg>>
        /\ pc'[t] \notin {"incr", "format", "write"}
    BY <1>1, <1>2 DEF random_int, sem_wait, file_handle_write, sem_post, dataVars,
                      Goto
  <2> QED BY <1>1, <2>1 DEF MutexHeld, Fresh
<1>3. CASE Lock(t)
  <2>1. /\ ~glob_mutex /\ glob_mutex' /\ pc'[t] = "incr" /\ temp'[t] = glob
        /\ \A u \in Threads \ {t} : temp'[u] = temp[u]
        /\ UNCHANGED <<glob, send_msg>>
    BY <1>1, <1>3 DEF Lock, Goto
  <2>2. \A u \in Threads : ~Inside(u)
    BY <1>1, <2>1 DEF MutexHeld
  <2>3. MutexHeld'
    BY <1>1, <2>1, <2>2 DEF MutexHeld
  <2>4. Fresh'
    BY <1>1, <2>1, <2>2 DEF Fresh
  <2> QED BY <2>3, <2>4
<1>4. CASE Increment(t)
  <2>1. /\ pc[t] = "incr" /\ pc'[t] = "format" /\ temp[t] = glob
        /\ glob' = glob + 1 /\ UNCHANGED <<glob_mutex, temp, send_msg>>
    BY <1>1, <1>4 DEF Increment, Goto, Fresh
  <2>2. \A u \in Threads \ {t} : ~Inside(u)
    BY <1>1, <2>1 DEF MutexHeld
  <2>3. MutexHeld'
    BY <1>1, <2>1, <2>2 DEF MutexHeld
  <2>4. \A u \in Threads : temp[u] + 1 <= glob => temp[u] + 1 <= glob + 1
    BY <1>1
  <2>5. Fresh'
    BY <1>1, <2>1, <2>2, <2>4 DEF Fresh
  <2> QED BY <2>3, <2>5
<1>5. CASE Format(t)
  <2>1. /\ pc[t] = "format" /\ pc'[t] = "write" /\ temp[t] + 1 = glob
        /\ send_msg'[t] = glob /\ UNCHANGED <<glob, temp>>
        /\ \A u \in Threads \ {t} : send_msg'[u] = send_msg[u]
    BY <1>1, <1>5 DEF Format, Goto, Fresh
  <2>2. \A u \in Threads \ {t} : ~Inside(u)
    BY <1>1, <2>1 DEF MutexHeld
  <2>3. MutexHeld'
    BY <1>1, <2>1, <2>2 DEF MutexHeld
  <2>4. Fresh'
    BY <1>1, <2>1, <2>2 DEF Fresh
  <2> QED BY <2>3, <2>4
<1> QED BY <1>2, <1>3, <1>4, <1>5 DEF thread_handler

(* Appending a number above everything in the file keeps it in order.      *)
LEMMA AppendAscends ==
  ASSUME NEW s \in Seq(Nat), Ascending(s), NEW k \in Nat,
         \A n \in DOMAIN s : s[n] < k
  PROVE  Ascending(Append(s, k))
BY DEF Ascending

LEMMA AppendBounded ==
  ASSUME NEW s \in Seq(Nat), NEW k \in Nat, NEW max \in Nat, k <= max,
         \A n \in DOMAIN s : s[n] <= max
  PROVE  \A n \in DOMAIN Append(s, k) : Append(s, k)[n] <= max
OBVIOUS

LEMMA FilesBelow ==
  ASSUME WritersInv
  PROVE  \A f \in Files : \A n \in DOMAIN appended[f] :
           appended[f][n] <= glob /\ appended[f][n] < glob + 1 /\ appended[f][n] <= glob + 1
<1> SUFFICES ASSUME NEW f \in Files, NEW n \in DOMAIN appended[f]
             PROVE  appended[f][n] <= glob /\ appended[f][n] < glob + 1 /\ appended[f][n] <= glob + 1
  OBVIOUS
<1>1. glob \in Nat /\ appended[f] \in Seq(Nat) /\ appended[f][n] <= glob
  BY AppendedTypes DEF WritersInv, TypeOK, Below
<1>2. appended[f][n] \in Nat
  BY <1>1
<1> QED BY <1>1, <1>2

(* A number is drawn above all others, and appended by the only thread     *)
(* that may write to its file.                                             *)
LEMMA OrderStep ==
  ASSUME WritersInv, NEW t \in Threads, thread_handler(t)
  PROVE  Below' /\ FilesAscend'
<1> USE DEF WritersInv, TypeOK, Goto
<1>0. /\ appended \in [Files -> Seq(Nat)]
      /\ ~file_handle_write(t) => appended' = appended /\ FilesAscend'
  BY FileMoves
<1>1. pc' = [pc EXCEPT ![t] = pc'[t]]
  BY HandlerTypes
<1>2. CASE \/ random_int(t) \/ sem_wait(t) \/ Lock(t) \/ Format(t)
           \/ sem_post(t)
  <2>1. /\ glob' = glob
        /\ \A u \in Threads :
             pc'[u] \in {"format", "write"} =>
               /\ pc[u] \in {"format", "write"}
               /\ rand'[u] = rand[u] /\ temp'[u] = temp[u]
    BY <1>1, <1>2 DEF random_int, sem_wait, Lock, Format, sem_post, dataVars
  <2>2. appended' = appended /\ FilesAscend'
    BY <1>0, <1>2 DEF random_int, sem_wait, Lock, Format, sem_post, file_handle_write
  <2> QED BY <2>1, <2>2 DEF Below
<1>3. CASE Increment(t)
  <2>1. glob' = glob + 1 /\ UNCHANGED <<rand, temp>> /\ temp[t] = glob
    BY <1>3 DEF Increment, Fresh
  <2>2. appended' = appended /\ FilesAscend'
    BY <1>0, <1>3 DEF Increment, file_handle_write
  <2>3. \A f \in Files : \A n \in DOMAIN appended[f] :
          appended[f][n] <= glob /\ appended[f][n] < glob + 1 /\ appended[f][n] <= glob + 1
    BY FilesBelow
  <2>4. \A u \in Threads \ {t} : pc'[u] = pc[u]
    BY <1>1
  <2>5. \A f \in Files : \A n \in DOMAIN appended'[f] : appended'[f][n] <= glob'
    BY <2>1, <2>2, <2>3
  <2>6. ASSUME NEW u \in Threads, pc'[u] \in {"format", "write"}
        PROVE  \A n \in DOMAIN appended[rand[u]] : appended[rand[u]][n] < temp[u] + 1
    <3>1. CASE u = t
      BY <2>1, <2>3, <3>1
    <3>2. CASE u # t
      BY <2>4, <2>6, <3>2 DEF Below
    <3> QED BY <3>1, <3>2
  <2> QED BY <2>1, <2>2, <2>5, <2>6 DEF Below
<1>4. CASE file_handle_write(t)
  <2> DEFINE f == rand[t]
             k == temp[t] + 1
  <2>1. /\ f \in Files /\ k \in Nat /\ k <= glob
        /\ appended' = [appended EXCEPT ![f] = Append(appended[f], k)]
        /\ \A g \in Files : OldStays(g)'
        /\ UNCHANGED <<rand, glob, temp>>
    <3>1. UNCHANGED <<rand, glob, temp>>
      BY <1>4 DEF file_handle_write
    <3> QED BY <1>4, <3>1, FileMoves
  <2>2. Ascending(appended[f]) /\ \A n \in DOMAIN appended[f] : appended[f][n] < k
    BY <1>4, <2>1 DEF file_handle_write, FilesAscend, Below
  <2>3. FilesAscend'
    <3>1. Ascending(Append(appended[f], k))
      BY <1>0, <2>1, <2>2, AppendAscends
    <3> QED BY <1>0, <2>1, <3>1 DEF FilesAscend
  <2>4. \A g \in Files : \A n \in DOMAIN appended'[g] : appended'[g][n] <= glob'
    <3>1. appended[f] \in Seq(Nat) /\ \A n \in DOMAIN appended[f] : appended[f][n] <= glob
      BY <1>0, <2>1 DEF Below
    <3>2. \A n \in DOMAIN Append(appended[f], k) : Append(appended[f], k)[n] <= glob
      BY <2>1, <3>1, AppendBounded
    <3> QED BY <1>0, <2>1, <3>2 DEF Below
  <2>5. ASSUME NEW u \in Threads, pc'[u] \in {"format", "write"}
        PROVE  \A n \in DOMAIN appended'[rand'[u]] : appended'[rand'[u]][n] < temp'[u] + 1
    <3>1. u # t /\ pc[u] \in {"format", "write"}
      BY <1>1, <1>4, <2>5 DEF file_handle_write
    <3>2. rand[u] # f
      BY <1>4, <3>1 DEF SemaphoreHeld, Holds, Section, file_handle_write
    <3> QED BY <1>0, <2>1, <3>1, <3>2 DEF Below
  <2> QED BY <2>3, <2>4, <2>5 DEF Below
<1> QED BY <1>2, <1>3, <1>4 DEF thread_handler

LEMMA WritersStep == WritersInv /\ [Next]_vars => WritersInv'
<1> SUFFICES ASSUME WritersInv, [Next]_vars PROVE WritersInv'
  OBVIOUS
<1>1. CASE Create \/ Join
  BY <1>1, WritersMain
<1>2. ASSUME NEW t \in Threads, thread_handler(t) PROVE WritersInv'
  <2>1. NotYetCreated'
    <3>1. pc[t] # "unborn"
      BY <1>2 DEF thread_handler, random_int, sem_wait, Lock, Increment, Format,
                  file_handle_write, sem_post
    <3>2. pc' = [pc EXCEPT ![t] = pc'[t]] /\ UNCHANGED mainVars
      BY <1>2, HandlerTypes
    <3> QED BY <3>1, <3>2 DEF WritersInv, TypeOK, NotYetCreated, mainVars
  <2> QED
    BY <1>2, <2>1, HandlerTypes, SemaphoreStep, MutexStep, OrderStep
       DEF WritersInv
<1>3. CASE Stopped \/ UNCHANGED vars
  <2>1. UNCHANGED <<main, index, pc, i, rand, sem, glob_mutex, glob, temp, send_msg, file, old>>
    BY <1>3 DEF Stopped, vars, mainVars, dataVars
  <2>a. appended' = appended /\ FilesAscend'
    BY <2>1, AppendedSame DEF WritersInv
  <2>2. TypeOK' /\ NotYetCreated'
    BY <2>1 DEF WritersInv, TypeOK, NotYetCreated
  <2>3. SemaphoreHeld' /\ MutexHeld'
    BY <2>1 DEF WritersInv, SemaphoreHeld, Holds, MutexHeld
  <2>4. Fresh' /\ Below'
    BY <2>1, <2>a DEF WritersInv, Fresh, Below
  <2> QED BY <2>a, <2>2, <2>3, <2>4 DEF WritersInv
<1> QED BY <1>1, <1>2, <1>3 DEF Next

LEMMA WritersCorrect == Spec => []WritersInv
<1> QED BY WritersInit, WritersStep, PTL DEF Spec

-----------------------------------------------------------------------------
(* Type correctness.                                                       *)
THEOREM WritersTypes == Spec => []TypeOK
<1>1. WritersInv => TypeOK
  BY DEF WritersInv
<1> QED BY <1>1, WritersCorrect, PTL

(* file_handle.c:51: what this run appends to each output file is in order *)
(* and stands behind what was there, which is kept.                        *)
THEOREM FilesInOrder == Spec => []FilesAscend
<1>1. WritersInv => FilesAscend
  BY DEF WritersInv
<1> QED BY <1>1, WritersCorrect, PTL

-----------------------------------------------------------------------------
(* The threads implement TicketLog: Increment is its step, and every other *)
(* step leaves both the counter and the files as the log sees them alone.  *)
LEMMA DrawnByOne ==
  ASSUME WritersInv, NEW t \in Threads, pc[t] \in {"format", "write"}
  PROVE  /\ Drawn(rand[t]) = {t}
         /\ LogFile[rand[t]] = Append(appended[rand[t]], temp[t] + 1)
<1>1. Drawn(rand[t]) = {t}
  BY DEF WritersInv, SemaphoreHeld, Holds, Section, Drawn
<1> QED BY <1>1 DEF LogFile, WritersInv, TypeOK

(* What the log sees of a file depends on who has drawn a number for it.   *)
LEMMA SameDrawn ==
  ASSUME NEW f \in Files, Drawn(f)' = Drawn(f), appended'[f] = appended[f],
         \A u \in Drawn(f) : temp'[u] = temp[u]
  PROVE  LogFile'[f] = LogFile[f]
<1>1. CASE Drawn(f) = {}
  BY <1>1 DEF LogFile
<1>2. CASE Drawn(f) # {}
  BY <1>2 DEF LogFile
<1> QED BY <1>1, <1>2

LEMMA SameLog ==
  ASSUME \A f \in Files : LogFile'[f] = LogFile[f]
  PROVE  LogFile' = LogFile
BY DEF LogFile

LEMMA LogStep ==
  ASSUME WritersInv, WritersInv', NEW t \in Threads, thread_handler(t)
  PROVE  [Log!Next]_(Log!vars)
<1> USE DEF WritersInv, TypeOK, Goto
<1> DEFINE f == rand[t]
<1>0. /\ appended \in [Files -> Seq(Nat)]
      /\ ~file_handle_write(t) => appended' = appended
  BY FileMoves
<1>1. pc' = [pc EXCEPT ![t] = pc'[t]]
  BY HandlerTypes
<1>2. \A u \in Threads \ {t} : pc'[u] = pc[u] /\ temp'[u] = temp[u] /\ rand'[u] = rand[u]
  BY <1>1 DEF thread_handler, random_int, sem_wait, Lock, Increment, Format,
              file_handle_write, sem_post, dataVars
<1>3. CASE Increment(t)
  <2>1. /\ UNCHANGED <<temp, rand, appended>> /\ temp[t] = glob /\ glob' = glob + 1
        /\ pc[t] = "incr" /\ pc'[t] = "format" /\ f \in Files
    <3>1. appended' = appended
      BY <1>0, <1>3 DEF Increment, file_handle_write
    <3> QED BY <1>3, <3>1 DEF Increment, Fresh
  <2>2. LogFile'[f] = Append(appended[f], glob + 1)
    <3>1. Drawn(f)' = {t}
      BY <2>1 DEF Drawn, SemaphoreHeld, Holds, Section
    <3> QED BY <2>1, <3>1 DEF LogFile
  <2>3. LogFile[f] = appended[f]
    <3>1. Drawn(f) = {}
      BY <2>1 DEF Drawn, SemaphoreHeld, Holds, Section
    <3> QED BY <3>1, <2>1 DEF LogFile
  <2>4. \A g \in Files \ {f} : LogFile'[g] = LogFile[g]
    <3> SUFFICES ASSUME NEW g \in Files \ {f} PROVE LogFile'[g] = LogFile[g]
      OBVIOUS
    <3>1. Drawn(g)' = Drawn(g)
      BY <1>2, <2>1 DEF Drawn
    <3> QED BY <2>1, <3>1, SameDrawn
  <2>5. LogFile' = [LogFile EXCEPT ![f] = Append(@, glob + 1)]
    <3>1. \A g \in Files : LogFile'[g] = IF g = f THEN Append(LogFile[f], glob + 1)
                                        ELSE LogFile[g]
      BY <2>2, <2>3, <2>4
    <3>2. /\ LogFile = [g \in Files |-> LogFile[g]]
          /\ LogFile' = [g \in Files |-> LogFile'[g]]
      BY DEF LogFile
    <3> HIDE DEF f
    <3> QED BY <2>1, <3>1, <3>2
  <2> QED BY <2>1, <2>5 DEF Log!Next
<1>4. CASE file_handle_write(t)
  <2>1. /\ UNCHANGED <<temp, rand, glob>> /\ pc[t] = "write" /\ pc'[t] = "post"
        /\ appended' = [appended EXCEPT ![f] = Append(appended[f], temp[t] + 1)]
        /\ f \in Files /\ appended'[f] = Append(appended[f], temp[t] + 1)
        /\ \A g \in Files \ {f} : appended'[g] = appended[g]
    <3>1. appended' = [appended EXCEPT ![f] = Append(appended[f], temp[t] + 1)]
      BY <1>4, FileMoves
    <3>2. /\ UNCHANGED <<temp, rand, glob>> /\ pc[t] = "write" /\ pc'[t] = "post"
          /\ f \in Files
      BY <1>4 DEF file_handle_write
    <3> QED BY <1>0, <3>1, <3>2
  <2>2. LogFile[f] = Append(appended[f], temp[t] + 1)
    BY <2>1, DrawnByOne
  <2>3. LogFile'[f] = appended'[f]
    <3>1. Drawn(f)' = {}
      BY <2>1 DEF Drawn, SemaphoreHeld, Holds, Section
    <3> QED BY <3>1, <2>1 DEF LogFile
  <2>4. \A g \in Files \ {f} : LogFile'[g] = LogFile[g]
    <3> SUFFICES ASSUME NEW g \in Files \ {f} PROVE LogFile'[g] = LogFile[g]
      OBVIOUS
    <3>1. Drawn(g)' = Drawn(g)
      BY <1>2, <2>1 DEF Drawn
    <3> QED BY <2>1, <3>1, SameDrawn
  <2>5. LogFile' = LogFile
    <3>1. \A g \in Files : LogFile'[g] = LogFile[g]
      BY <2>1, <2>2, <2>3, <2>4
    <3> QED BY <3>1, SameLog
  <2> QED BY <2>1, <2>5 DEF Log!vars
<1>5. CASE random_int(t) \/ sem_wait(t) \/ Lock(t) \/ Format(t) \/ sem_post(t)
  <2>0. appended' = appended
    BY <1>0, <1>5 DEF random_int, sem_wait, Lock, Format, sem_post, file_handle_write
  <2>1. /\ glob' = glob
        /\ pc[t] \in {"format", "write"} <=> pc'[t] \in {"format", "write"}
        /\ pc[t] \in {"format", "write"} => rand'[t] = rand[t] /\ temp'[t] = temp[t]
    BY <1>5 DEF random_int, sem_wait, Lock, Format, sem_post, dataVars
  <2>2. ASSUME NEW g \in Files PROVE LogFile'[g] = LogFile[g]
    <3>1. Drawn(g)' = Drawn(g) /\ \A u \in Drawn(g) : temp'[u] = temp[u]
      BY <1>2, <2>1 DEF Drawn
    <3> QED BY <2>0, <3>1, SameDrawn
  <2>3. LogFile' = LogFile
    BY <2>2, SameLog
  <2> QED BY <2>1, <2>3 DEF Log!vars
<1> QED BY <1>3, <1>4, <1>5 DEF thread_handler

(* Every step of the program appends one fresh number to one file of the   *)
(* ticket log, or leaves the log as it is.                                 *)
THEOREM ImplementsTicketLog == Spec => LogsTickets
<1>1. Init => Log!Init
  BY NothingAppended DEF Init, Log!Init, LogFile, Drawn
<1>2. WritersInv /\ [Next]_vars => [Log!Next]_(Log!vars)
  <2> SUFFICES ASSUME WritersInv, [Next]_vars PROVE [Log!Next]_(Log!vars)
    OBVIOUS
  <2>1. WritersInv'
    BY WritersStep
  <2>2. ASSUME NEW t \in Threads, thread_handler(t) PROVE [Log!Next]_(Log!vars)
    BY <2>1, <2>2, LogStep
  <2>3. CASE Create \/ Join \/ Stopped \/ UNCHANGED vars
    <3>0. appended' = appended
      BY <2>3, AppendedSame DEF Create, Join, Stopped, vars, dataVars
    <3>1. /\ UNCHANGED <<glob, rand, temp>>
          /\ \A u \in Threads : pc[u] \in {"format", "write"}
                                <=> pc'[u] \in {"format", "write"}
      <4>1. CASE Create
        <5>1. pc[index] = "unborn"
          BY <4>1 DEF Create, WritersInv, NotYetCreated, TypeOK, Threads
        <5> QED BY <4>1, <5>1 DEF Create, dataVars, WritersInv, TypeOK
      <4>2. CASE Join \/ Stopped \/ UNCHANGED vars
        BY <4>2 DEF Join, Stopped, vars, dataVars
      <4> QED BY <2>3, <4>1, <4>2
    <3>2. ASSUME NEW g \in Files PROVE LogFile'[g] = LogFile[g]
      <4>1. Drawn(g)' = Drawn(g)
        BY <3>1 DEF Drawn
      <4> QED BY <3>0, <3>1, <4>1, SameDrawn
    <3>3. LogFile' = LogFile
      BY <3>2, SameLog
    <3> QED BY <3>1, <3>3 DEF Log!vars
  <2> QED BY <2>2, <2>3 DEF Next
<1> QED BY <1>1, <1>2, WritersCorrect, PTL DEF Spec, LogsTickets, Log!Spec
-----------------------------------------------------------------------------
(***************************************************************************)
(* Every number once.  The numbers written and those drawn but not yet     *)
(* written are 1 up to the counter; the counter is the number of rounds    *)
(* that have drawn, the lengths of the files that of the rounds that have  *)
(* written; and a thread has ended only after all its rounds.              *)
(***************************************************************************)
Rounds == Threads \X (0 .. LOOPS - 1)

(* The rounds that are over, and those under way at one of the steps.      *)
Reached(steps) ==
  {r \in Rounds : r[2] < i[r[1]] \/ (r[2] = i[r[1]] /\ pc[r[1]] \in steps)}

Draws == Reached({"format", "write", "post"})
Writes == Reached({"post"})

Drawing == {t \in Threads : pc[t] \in {"format", "write"}}
Unwritten == {temp[t] + 1 : t \in Drawing}

RoundsCounted ==
  /\ \A t \in Threads :
       /\ pc[t] \in {"unborn", "failed"} => i[t] = 0
       /\ pc[t] \in Section \union {"pick", "wait"} => i[t] < LOOPS
       /\ pc[t] = "done" => i[t] = LOOPS
  /\ main = "join" => \A t \in Threads : t < index => pc[t] \in {"done", "failed"}
  /\ main = "done" => \A t \in Threads : pc[t] \in {"done", "failed"}

NumbersInv ==
  /\ RoundsCounted
  /\ Written \union Unwritten = 1 .. glob
  /\ glob = Cardinality(Draws)
  /\ Len(appended[1]) + Len(appended[2]) = Cardinality(Writes)

(* Finite sets have cardinalities that count.                              *)
LEMMA RoundsFinite ==
  /\ IsFiniteSet(Threads) /\ IsFiniteSet(Rounds)
  /\ \A steps : IsFiniteSet(Reached(steps))
<1>1. IsFiniteSet(Threads) /\ IsFiniteSet(0 .. LOOPS - 1)
  BY WritersAssumption, FS_Interval DEF WritersAssumption, Threads
<1>2. IsFiniteSet(Rounds)
  BY <1>1, FS_Product DEF Rounds
<1> QED BY <1>1, <1>2, FS_Subset DEF Reached

(* Nothing is drawn or written at first.                                   *)
LEMMA NumbersInit == Init => NumbersInv
<1> SUFFICES ASSUME Init PROVE NumbersInv
  OBVIOUS
<1>1. RoundsCounted
  BY DEF Init, RoundsCounted, Section
<1>2. Draws = {} /\ Writes = {}
  BY DEF Init, Draws, Writes, Reached, Rounds
<1>3. \A f \in Files : appended[f] = <<>>
  BY NothingAppended
<1>4. Written = {} /\ Unwritten = {} /\ 1 .. glob = {}
  BY <1>3 DEF Init, Written, Unwritten, Drawing, Files
<1>5. Len(appended[1]) + Len(appended[2]) = 0
  <2>1. appended[1] = <<>> /\ appended[2] = <<>>
    BY <1>3 DEF Files
  <2>2. Len(<<>>) = 0
    OBVIOUS
  <2> QED BY <2>1, <2>2
<1>6. glob = 0 /\ Cardinality(Draws) = 0 /\ Cardinality(Writes) = 0
  BY <1>2, FS_EmptySet DEF Init
<1>7. Written \union Unwritten = 1 .. glob
  BY <1>4
<1> QED BY <1>1, <1>5, <1>6, <1>7 DEF NumbersInv

(* main() starts and joins threads, which neither draws nor writes.        *)
LEMMA NumbersMain ==
  ASSUME WritersInv, NumbersInv, Create \/ Join
  PROVE  NumbersInv'
<1> USE DEF WritersInv, TypeOK, dataVars
<1>0. appended' = appended
  BY AppendedSame DEF Create, Join
<1>1. /\ UNCHANGED <<i, glob, temp>>
      /\ \A t \in Threads : pc'[t] = pc[t]
                            \/ (pc[t] = "unborn" /\ pc'[t] \in {"pick", "failed"})
  <2>1. CASE Create
    <3>1. pc[index] = "unborn"
      BY <2>1 DEF Create, NotYetCreated, Threads
    <3> QED BY <2>1, <3>1 DEF Create
  <2>2. CASE Join
    BY <2>2 DEF Join
  <2> QED BY <2>1, <2>2
<1>2. Draws' = Draws /\ Writes' = Writes
  BY <1>1 DEF Draws, Writes, Reached, Rounds
<1>3. Written' = Written /\ Unwritten' = Unwritten
  <2>1. Drawing' = Drawing
    BY <1>1 DEF Drawing
  <2> QED BY <1>0, <1>1, <2>1 DEF Written, Unwritten
<1>4. RoundsCounted'
  <2>1. \A t \in Threads :
          /\ pc'[t] \in {"unborn", "failed"} => i'[t] = 0
          /\ pc'[t] \in Section \union {"pick", "wait"} => i'[t] < LOOPS
          /\ pc'[t] = "done" => i'[t] = LOOPS
    BY <1>1, WritersAssumption DEF WritersAssumption, NumbersInv, RoundsCounted
  <2>2. CASE Create
    BY <2>1, <2>2 DEF Create, NextThread, RoundsCounted, Threads
  <2>3. CASE Join
    <3>1. pc' = pc
      BY <2>3 DEF Join
    <3>2. CASE main' = "undefined"
      BY <2>1, <3>2 DEF RoundsCounted
    <3>3. CASE pc[index] \in {"done", "failed"} /\ NextThread("done")
      <4>1. \A t \in Threads : t < index + 1 => pc[t] \in {"done", "failed"}
        BY <2>3, <3>3 DEF Join, NumbersInv, RoundsCounted, Threads
      <4>2. CASE index + 1 < NUM_THREADS
        BY <2>1, <2>3, <3>1, <3>3, <4>1, <4>2 DEF Join, NextThread, RoundsCounted
      <4>3. CASE ~(index + 1 < NUM_THREADS)
        <5>1. \A t \in Threads : t < index + 1
          BY <4>3, WritersAssumption DEF WritersAssumption, Threads
        <5> QED BY <2>1, <3>1, <3>3, <4>1, <4>3, <5>1 DEF NextThread, RoundsCounted
      <4> QED BY <4>2, <4>3
    <3> QED BY <2>3, <3>2, <3>3 DEF Join
  <2> QED BY <2>2, <2>3
<1> QED BY <1>0, <1>1, <1>2, <1>3, <1>4 DEF NumbersInv

(* A thread counts its rounds, and goes on until there are LOOPS of them.  *)
LEMMA RoundsStep ==
  ASSUME WritersInv, NumbersInv, NEW t \in Threads, thread_handler(t)
  PROVE  RoundsCounted'
<1> USE DEF WritersInv, TypeOK, NumbersInv, RoundsCounted
<1>1. /\ pc' = [pc EXCEPT ![t] = pc'[t]] /\ UNCHANGED mainVars
      /\ pc[t] \in Section \union {"pick", "wait"}
      /\ \/ UNCHANGED i /\ pc'[t] \in Section \union {"wait"}
         \/ /\ i' = [i EXCEPT ![t] = @ + 1]
            /\ pc'[t] = IF i[t] + 1 < LOOPS THEN "pick" ELSE "done"
  BY HandlerTypes DEF thread_handler, random_int, sem_wait, Lock, Increment, Format,
     file_handle_write, sem_post, Goto, Section
<1>2. main # "done" /\ (main = "join" => \A u \in Threads : u < index => u # t)
  BY <1>1 DEF Section
<1>3. i[t] < LOOPS /\ i[t] \in Nat
  BY <1>1
<1>4. \A u \in Threads :
        /\ pc'[u] \in {"unborn", "failed"} => i'[u] = 0
        /\ pc'[u] \in Section \union {"pick", "wait"} => i'[u] < LOOPS
        /\ pc'[u] = "done" => i'[u] = LOOPS
  <2> TAKE u \in Threads
  <2>1. CASE u = t
    <3>1. CASE UNCHANGED i /\ pc'[t] \in Section \union {"wait"}
      BY <1>3, <2>1, <3>1 DEF Section
    <3>2. CASE /\ i' = [i EXCEPT ![t] = @ + 1]
               /\ pc'[t] = IF i[t] + 1 < LOOPS THEN "pick" ELSE "done"
      <4>1. i'[t] = i[t] + 1 /\ LOOPS \in Nat
        BY <3>2, WritersAssumption DEF WritersAssumption
      <4>2. CASE i[t] + 1 < LOOPS
        <5>1. pc'[t] = "pick" /\ i'[t] < LOOPS
          BY <3>2, <4>1, <4>2
        <5> QED BY <2>1, <5>1
      <4>3. CASE ~(i[t] + 1 < LOOPS)
        <5>1. i[t] + 1 = LOOPS
          <6>1. \A m, n \in Nat : m < n /\ ~(m + 1 < n) => m + 1 = n
            OBVIOUS
          <6> QED BY <1>3, <4>1, <4>3, <6>1
        <5>2. pc'[t] = "done" /\ i'[t] = LOOPS
          BY <3>2, <4>1, <4>3, <5>1
        <5> QED BY <2>1, <5>2 DEF Section
      <4> QED BY <4>2, <4>3
    <3> QED BY <1>1, <3>1, <3>2
  <2>2. CASE u # t
    <3>1. pc'[u] = pc[u] /\ i'[u] = i[u]
      BY <1>1, <2>2
    <3> QED BY <3>1
  <2> QED BY <2>1, <2>2
<1>5. main = "join" => \A u \in Threads : u < index => pc'[u] = pc[u]
  BY <1>1, <1>2
<1> QED BY <1>1, <1>2, <1>4, <1>5 DEF mainVars

(* The next number lengthens the interval by itself.                       *)
LEMMA NextInterval ==
  ASSUME NEW n \in Nat
  PROVE  1 .. n + 1 = (1 .. n) \union {n + 1}
OBVIOUS

(* Drawing a number is one more draw and the next number.                  *)
LEMMA NumbersIncrement ==
  ASSUME WritersInv, NumbersInv, NEW t \in Threads, Increment(t)
  PROVE  NumbersInv'
<1> USE DEF WritersInv, TypeOK
<1>0. appended' = appended
  BY FileMoves DEF thread_handler, Increment, file_handle_write
<1>1. /\ UNCHANGED <<i, temp>> /\ pc' = [pc EXCEPT ![t] = "format"]
      /\ pc[t] = "incr" /\ temp[t] = glob /\ glob' = glob + 1
      /\ i[t] \in 0 .. LOOPS - 1
  BY WritersAssumption DEF WritersAssumption, Increment, Goto, Fresh, NumbersInv,
     RoundsCounted, Section
<1>2. Draws' = Draws \union {<<t, i[t]>>} /\ <<t, i[t]>> \notin Draws
  BY <1>1 DEF Draws, Reached, Rounds
<1>3. Writes' = Writes
  BY <1>1 DEF Writes, Reached, Rounds
<1>4. Written' = Written /\ Unwritten' = Unwritten \union {glob + 1}
  <2>1. Drawing' = Drawing \union {t}
    BY <1>1 DEF Drawing
  <2> QED BY <1>0, <1>1, <2>1 DEF Written, Unwritten
<1>5. 1 .. glob + 1 = (1 .. glob) \union {glob + 1}
  BY NextInterval
<1>6. Cardinality(Draws') = Cardinality(Draws) + 1
  BY <1>2, RoundsFinite, FS_AddElement DEF Draws
<1>7. RoundsCounted'
  BY RoundsStep DEF thread_handler
<1> QED BY <1>0, <1>1, <1>3, <1>4, <1>5, <1>6, <1>7 DEF NumbersInv

(* The numbers in one file.                                               *)
InFile(f) == Range(appended[f])

(* Append adds its element to a sequence's range, and nothing else.        *)
LEMMA AppendAdds ==
  ASSUME NEW s \in Seq(Nat), NEW x \in Nat, NEW new, new = Append(s, x)
  PROVE  Range(new) = Range(s) \union {x}
<1>1. /\ DOMAIN new = DOMAIN s \union {Len(s) + 1}
      /\ \A n \in DOMAIN s : new[n] = s[n]
      /\ new[Len(s) + 1] = x /\ Len(s) + 1 \notin DOMAIN s
  OBVIOUS
<1>2. ASSUME NEW y \in Range(new)
      PROVE  y \in Range(s) \union {x}
  <2>1. PICK n \in DOMAIN new : y = new[n]
    BY DEF Range
  <2>2. CASE n \in DOMAIN s
    BY <1>1, <2>1, <2>2 DEF Range
  <2>3. CASE n = Len(s) + 1
    BY <1>1, <2>1, <2>3
  <2> QED BY <1>1, <2>2, <2>3
<1>3. ASSUME NEW y \in Range(s)
      PROVE  y \in Range(new)
  <2>1. PICK n \in DOMAIN s : y = s[n]
    BY DEF Range
  <2> QED BY <1>1, <2>1 DEF Range
<1>4. x \in Range(new)
  BY <1>1 DEF Range
<1> QED BY <1>2, <1>3, <1>4

(* The program has two files.                                              *)
LEMMA TwoFiles == /\ Written = InFile(1) \union InFile(2)
                  /\ Written' = InFile(1)' \union InFile(2)'
BY DEF Written, InFile, Range, Files

(* Writing it moves the number to the file and is one more write.          *)
LEMMA NumbersWrite ==
  ASSUME WritersInv, NumbersInv, NEW t \in Threads, file_handle_write(t)
  PROVE  NumbersInv'
<1> USE DEF WritersInv, TypeOK
<1> DEFINE f == rand[t]
<1>1. /\ UNCHANGED <<i, temp, glob>> /\ pc' = [pc EXCEPT ![t] = "post"]
      /\ pc[t] = "write" /\ f \in Files
  BY DEF file_handle_write, Goto
<1>a. i[t] \in 0 .. LOOPS - 1
  BY <1>1, WritersAssumption DEF WritersAssumption, NumbersInv, RoundsCounted, Section
<1>b. /\ temp[t] + 1 \in Nat /\ appended \in [Files -> Seq(Nat)]
      /\ appended' = [appended EXCEPT ![f] = Append(appended[f], temp[t] + 1)]
  BY FileMoves DEF thread_handler
<1>2. Writes' = Writes \union {<<t, i[t]>>} /\ <<t, i[t]>> \notin Writes
  BY <1>1, <1>a DEF Writes, Reached, Rounds
<1>3. Draws' = Draws
  BY <1>1 DEF Draws, Reached, Rounds
<1>4. Written' = Written \union {temp[t] + 1}
  <2>1. ASSUME NEW g \in Files, g = f
        PROVE  InFile(g)' = InFile(g) \union {temp[t] + 1}
    <3>1. appended[g] \in Seq(Nat) /\ appended'[g] = Append(appended[g], temp[t] + 1)
      BY <1>1, <1>b, <2>1
    <3>2. Range(appended'[g]) = Range(appended[g]) \union {temp[t] + 1}
      BY <3>1, <1>b, AppendAdds
    <3> QED BY <3>2 DEF InFile
  <2>2. \A g \in Files : g # f => InFile(g)' = InFile(g)
    BY <1>b DEF InFile
  <2>3. CASE f = 1
    BY <2>1, <2>2, <2>3, TwoFiles DEF Files
  <2>4. CASE f = 2
    BY <2>1, <2>2, <2>4, TwoFiles DEF Files
  <2> QED BY <1>1, <2>3, <2>4 DEF Files
<1>5. Unwritten = Unwritten' \union {temp[t] + 1}
  <2>1. Drawing = Drawing' \union {t}
    BY <1>1 DEF Drawing
  <2> QED BY <1>1, <2>1 DEF Unwritten
<1>6. Cardinality(Writes') = Cardinality(Writes) + 1
  BY <1>2, RoundsFinite, FS_AddElement DEF Writes
<1>7. Len(appended'[1]) + Len(appended'[2]) = Len(appended[1]) + Len(appended[2]) + 1
  <2>1. Len(Append(appended[f], temp[t] + 1)) = Len(appended[f]) + 1
    BY <1>1, <1>b
  <2>2. Len(appended[1]) \in Nat /\ Len(appended[2]) \in Nat
    <3>1. \A s \in Seq(Nat) : Len(s) \in Nat
      OBVIOUS
    <3> QED BY <1>b, <3>1 DEF Files
  <2>3. CASE f = 1
    BY <1>b, <2>1, <2>2, <2>3 DEF Files
  <2>4. CASE f = 2
    BY <1>b, <2>1, <2>2, <2>4 DEF Files
  <2> QED BY <1>1, <2>3, <2>4 DEF Files
<1>8. RoundsCounted'
  BY RoundsStep DEF thread_handler
<1> QED BY <1>1, <1>3, <1>4, <1>5, <1>6, <1>7, <1>8 DEF NumbersInv

(* The end of a round moves it from under way to over.                     *)
LEMMA SameRounds ==
  ASSUME NEW t \in Threads, NEW steps, pc[t] \in steps, pc'[t] \notin steps,
         \A u \in Threads : u # t => i'[u] = i[u] /\ pc'[u] = pc[u],
         \A u \in Threads, n \in 0 .. LOOPS - 1 : u = t =>
           (n < i'[u] <=> n < i[u] \/ n = i[u])
  PROVE  Reached(steps)' = Reached(steps)
<1>1. ASSUME NEW r \in Rounds
      PROVE  r \in Reached(steps)' <=> r \in Reached(steps)
  <2>1. r[1] \in Threads /\ r[2] \in 0 .. LOOPS - 1
    BY DEF Rounds
  <2> QED BY <2>1 DEF Reached
<1> QED BY <1>1 DEF Reached

(* No other statement of a thread draws or writes.                         *)
LEMMA NumbersOther ==
  ASSUME WritersInv, NumbersInv, NEW t \in Threads,
         random_int(t) \/ sem_wait(t) \/ Lock(t) \/ Format(t) \/ sem_post(t)
  PROVE  NumbersInv'
<1> USE DEF WritersInv, TypeOK
<1>0. appended' = appended
  BY FileMoves DEF thread_handler, random_int, sem_wait, Lock, Format, sem_post,
                   file_handle_write
<1>1. /\ glob' = glob /\ pc' = [pc EXCEPT ![t] = pc'[t]]
      /\ \A u \in Threads : pc[u] \in {"format", "write"} => temp'[u] = temp[u]
      /\ pc[t] \in {"format", "write"} <=> pc'[t] \in {"format", "write"}
  BY HandlerTypes DEF thread_handler, random_int, sem_wait, Lock, Format, sem_post,
     dataVars, Goto
<1>2. Written' = Written /\ Unwritten' = Unwritten
  <2>1. Drawing' = Drawing
    BY <1>1 DEF Drawing
  <2>2. \A u \in Drawing : temp'[u] = temp[u]
    BY <1>1 DEF Drawing
  <2>3. Written' = Written
    BY <1>0 DEF Written
  <2>4. Unwritten' = {temp'[u] + 1 : u \in Drawing}
    BY <2>1 DEF Unwritten
  <2> QED BY <2>2, <2>3, <2>4 DEF Unwritten
<1>3. Draws' = Draws /\ Writes' = Writes
  <2>1. CASE sem_post(t)
    <3>1. /\ pc[t] = "post" /\ pc'[t] \notin {"format", "write", "post"}
          /\ i' = [i EXCEPT ![t] = @ + 1]
      BY <2>1 DEF sem_post, Goto
    <3>2. \A u \in Threads, n \in 0 .. LOOPS - 1 : u = t =>
            (n < i'[u] <=> n < i[u] \/ n = i[u])
      BY <3>1, WritersAssumption DEF WritersAssumption
    <3>3. \A u \in Threads : u # t => i'[u] = i[u] /\ pc'[u] = pc[u]
      BY <1>1, <3>1
    <3> QED BY <3>1, <3>2, <3>3, SameRounds DEF Draws, Writes
  <2>2. CASE ~sem_post(t)
    <3>1. UNCHANGED i /\ pc[t] # "post" /\ pc'[t] # "post"
      BY <2>2 DEF random_int, sem_wait, Lock, Format, Goto
    <3>2. \A u \in Threads : i'[u] = i[u]
                            /\ (pc'[u] \in {"format", "write", "post"}
                                <=> pc[u] \in {"format", "write", "post"})
                            /\ (pc'[u] \in {"post"} <=> pc[u] \in {"post"})
      BY <1>1, <3>1
    <3> QED BY <3>2 DEF Draws, Writes, Reached, Rounds
  <2> QED BY <2>1, <2>2
<1>4. RoundsCounted'
  BY RoundsStep DEF thread_handler
<1> QED BY <1>0, <1>1, <1>2, <1>3, <1>4 DEF NumbersInv

LEMMA NumbersStep == WritersInv /\ NumbersInv /\ [Next]_vars => NumbersInv'
<1> SUFFICES ASSUME WritersInv, NumbersInv, Stopped \/ UNCHANGED vars
             PROVE  NumbersInv'
  BY NumbersMain, NumbersIncrement, NumbersWrite, NumbersOther
     DEF Next, thread_handler
<1>0. appended' = appended
  BY AppendedSame DEF Stopped, vars, dataVars
<1>1. UNCHANGED <<main, index, pc, i, glob, temp>>
  BY DEF Stopped, vars, mainVars, dataVars
<1>2. Draws' = Draws /\ Writes' = Writes
  BY <1>1 DEF Draws, Writes, Reached
<1>3. Written' = Written /\ Unwritten' = Unwritten
  BY <1>0, <1>1 DEF Written, Unwritten, Drawing
<1>4. RoundsCounted'
  BY <1>1 DEF NumbersInv, RoundsCounted
<1> QED BY <1>0, <1>1, <1>2, <1>3, <1>4 DEF NumbersInv

(* At the end all rounds of all created threads have drawn and written.    *)
LEMMA AllRounds ==
  ASSUME WritersInv, NumbersInv, main = "done"
  PROVE  EveryNumberOnce
<1> USE DEF WritersInv, TypeOK
<1>1. \A t \in Threads : /\ pc[t] \in {"done", "failed"}
                         /\ i[t] = IF pc[t] = "failed" THEN 0 ELSE LOOPS
  BY DEF NumbersInv, RoundsCounted
<1>2. Unwritten = {}
  BY <1>1 DEF Unwritten, Drawing
<1>3. Draws = Created \X (0 .. LOOPS - 1) /\ Writes = Created \X (0 .. LOOPS - 1)
  BY <1>1, WritersAssumption
     DEF WritersAssumption, Draws, Writes, Reached, Rounds, Created
<1>4. IsFiniteSet(Created) /\ Cardinality(Created) \in Nat
  BY RoundsFinite, FS_Subset, FS_CardinalityType DEF Created
<1>5. IsFiniteSet(0 .. LOOPS - 1) /\ Cardinality(0 .. LOOPS - 1) = LOOPS
  <2>1. LOOPS - 1 \in Int /\ ~(0 > LOOPS - 1) /\ LOOPS - 1 - 0 + 1 = LOOPS
    BY WritersAssumption DEF WritersAssumption
  <2> QED BY <2>1, FS_Interval
<1>6. Cardinality(Created \X (0 .. LOOPS - 1)) = Cardinality(Created) * LOOPS
  BY <1>4, <1>5, FS_Product
<1>7. Cardinality(Created) * LOOPS = LOOPS * Cardinality(Created)
  BY <1>4, WritersAssumption DEF WritersAssumption
<1> QED BY <1>2, <1>3, <1>6, <1>7 DEF NumbersInv, EveryNumberOnce

(* When main() comes to its end the threads have appended every number     *)
(* from 1 to the number of rounds of those that were created, each once.   *)
THEOREM NumbersAreOnce == Spec => []EveryNumberOnce
<1>1. WritersInv /\ NumbersInv => EveryNumberOnce
  BY AllRounds DEF EveryNumberOnce
<1> QED BY <1>1, NumbersInit, NumbersStep, WritersCorrect, PTL DEF Spec
=============================================================================
