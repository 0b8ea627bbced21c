---------------------------- MODULE DaemonProofs ----------------------------
(***************************************************************************)
(* What holds of the daemon however it is started, for every table of      *)
(* descriptors, every utmp file and everyone who logs in or out.           *)
(***************************************************************************)
EXTENDS Daemon, TLAPS

Daemonized == {"close", "reopen", "signal", "open", "test", "setutent",
               "getutent", "sleep"}

Closed == {"reopen", "signal", "open", "test", "setutent", "getutent", "sleep"}

Dark == {"signal", "open", "test", "setutent", "getutent", "sleep"}

(***************************************************************************)
(* The inductive invariant.  Between the forks the second process runs and *)
(* leads a session of its own, after them the third one, which is in that  *)
(* session; the descriptors are reset one part after the other; and a pass *)
(* has logged what it has read, if it has not changed since.               *)
(***************************************************************************)
ForkInv ==
  /\ step = "fork" => me = "caller" /\ leaving = {}
  /\ step \in {"setsid", "fork again"} =>
       me = "leader" /\ leaving \subseteq {"caller"}
  /\ step \in Daemonized => me = "daemon"

SessionInv ==
  /\ sid["caller"] # "leader"
  /\ step = "fork again" => sid["leader"] = "leader"
  /\ step \in Daemonized => sid["daemon"] = "leader"

FdInv ==
  /\ step \in Closed =>
       \A n \in Descriptors : n < maxfd => fd[n] # "inherited"
  /\ step \in Dark => \A n \in 0 .. 2 : fd[n] = "null"
  /\ InLoop => \E n \in Descriptors : fd[n] = "log"

PassInv ==
  step = "getutent" =>
    /\ \A e \in Entries : utmp[e] # None => utmp[e] \in seen
    /\ logged \subseteq seen
    /\ \A e \in steady : e <= entry /\ utmp[e] \in Accounts => utmp[e] \in logged

DaemonInv == TypeOK /\ ForkInv /\ SessionInv /\ FdInv /\ PassInv

-----------------------------------------------------------------------------
(* The table of descriptors has the standard ones.                         *)
LEMMA Standard == \A n \in 0 .. 2 : n \in Descriptors /\ n <= 2
BY DaemonAssumption DEF Descriptors

LEMMA InitDaemon == Init => DaemonInv
<1> SUFFICES ASSUME Init PROVE DaemonInv
  OBVIOUS
<1>1. TypeOK
  <2>1. step \in Steps /\ ProcTypeOK
    BY DEF Init, ProcTypeOK, Processes, Steps
  <2>2. FdTypeOK /\ PassTypeOK
    BY DaemonAssumption DEF Init, FdTypeOK, PassTypeOK
  <2>3. SignalTypeOK
    <3>1. asked \in 0 .. MaxSignals
      BY DaemonAssumption DEF Init
    <3> QED
      BY <3>1, Zenon DEF Init, SignalTypeOK
  <2> QED
    BY <2>1, <2>2, <2>3 DEF TypeOK
<1>2. ForkInv /\ SessionInv /\ FdInv /\ PassInv
  BY DEF Init, ForkInv, SessionInv, FdInv, PassInv, Processes, Daemonized, Closed, Dark, InLoop
<1> QED
  BY <1>1, <1>2 DEF DaemonInv

(* The forks, the session and the descriptors: steps that leave the pass   *)
(* alone and do not lead into it.                                          *)
LEMMA BecomeDaemon ==
  ASSUME DaemonInv,
         \/ Fork("fork", "setsid") \/ setsid \/ Fork("fork again", "close")
         \/ CloseFiles \/ ReopenStdFds \/ InstallHandler \/ open_log_file
  PROVE  DaemonInv'
<1> USE DEF DaemonInv, TypeOK
<1>1. step' \in Steps
  BY DEF Fork, setsid, CloseFiles, ReopenStdFds, InstallHandler, open_log_file, Steps,
    Ends
<1>2. PassTypeOK' /\ PassInv'
  BY DEF Fork, setsid, CloseFiles, ReopenStdFds, InstallHandler, open_log_file,
    PassTypeOK, PassInv, passVars
<1>3. SignalTypeOK'
  BY DEF Fork, setsid, CloseFiles, ReopenStdFds, InstallHandler, open_log_file,
    SignalTypeOK, signalVars
<1>4. ProcTypeOK' /\ ForkInv' /\ SessionInv'
  <2>1. CASE Fork("fork", "setsid")
    <3>1. me = "caller" /\ leaving = {} /\ Child(me) = "leader"
      BY <2>1 DEF Fork, ForkInv, Child
    <3>2. CASE step' = "setsid"
      BY <2>1, <3>1, <3>2 DEF Fork, ProcTypeOK, ForkInv, SessionInv, Processes,
        Daemonized, procVars
    <3>3. CASE step' = "failed"
      BY <2>1, <3>3 DEF Fork, ProcTypeOK, ForkInv, SessionInv, Daemonized, procVars
    <3> QED
      BY <2>1, <3>2, <3>3 DEF Fork
  <2>2. CASE setsid
    <3>1. me = "leader" /\ step = "setsid"
      BY <2>2 DEF setsid, ForkInv
    <3>2. CASE step' = "fork again"
      <4>3. /\ UNCHANGED <<me, leaving>>
            /\ sid' = [sid EXCEPT ![me] = me] /\ pgid' = [pgid EXCEPT ![me] = me]
        BY <2>2, <3>2 DEF setsid
      <4>4. ProcTypeOK /\ me \in Processes
        BY <3>1 DEF Processes
      <4>1. ProcTypeOK'
        BY ONLY <4>3, <4>4 DEF ProcTypeOK
      <4>2. ForkInv' /\ SessionInv'
        BY <2>2, <3>1, <3>2 DEF setsid, ProcTypeOK, ForkInv, SessionInv, Processes,
          Daemonized
      <4> QED
        BY <4>1, <4>2
    <3>3. CASE step' = "failed"
      BY <2>2, <3>3 DEF setsid, ProcTypeOK, ForkInv, SessionInv, Daemonized
    <3> QED
      BY <2>2, <3>2, <3>3 DEF setsid
  <2>3. CASE Fork("fork again", "close")
    <3>1. me = "leader" /\ leaving \subseteq {"caller"} /\ Child(me) = "daemon"
          /\ sid["leader"] = "leader"
      BY <2>3 DEF Fork, ForkInv, SessionInv, Child
    <3>2. CASE step' = "close"
      <4>1. ProcTypeOK'
        <5>1. me' = "daemon" /\ leaving' \subseteq {"caller", "leader"}
          BY <2>3, <3>1, <3>2 DEF Fork
        <5>2. /\ sid' \in [Processes -> Processes \cup {"shell"}]
              /\ pgid' \in [Processes -> Processes \cup {"shell"}]
          <6>1. /\ sid' = [sid EXCEPT !["daemon"] = sid["leader"]]
                /\ pgid' = [pgid EXCEPT !["daemon"] = pgid["leader"]]
            BY <2>3, <3>1, <3>2 DEF Fork
          <6> QED
            BY <6>1 DEF ProcTypeOK, Processes
        <5> QED
          BY <5>1, <5>2 DEF ProcTypeOK, Processes
      <4>2. ForkInv' /\ SessionInv'
        BY <2>3, <3>1, <3>2 DEF Fork, ProcTypeOK, ForkInv, SessionInv, Processes,
          Daemonized, procVars
      <4> QED
        BY <4>1, <4>2
    <3>3. CASE step' = "failed"
      BY <2>3, <3>3 DEF Fork, ProcTypeOK, ForkInv, SessionInv, Daemonized, procVars
    <3> QED
      BY <2>3, <3>2, <3>3 DEF Fork
  <2>4. CASE CloseFiles \/ ReopenStdFds \/ InstallHandler \/ open_log_file
    BY <2>4 DEF CloseFiles, ReopenStdFds, InstallHandler, open_log_file, ProcTypeOK,
      ForkInv, SessionInv, Daemonized, procVars
  <2> QED
    BY <2>1, <2>2, <2>3, <2>4
<1>5. FdTypeOK' /\ FdInv'
  <2>1. CASE Fork("fork", "setsid") \/ setsid \/ Fork("fork again", "close")
    BY <2>1 DEF Fork, setsid, FdTypeOK, FdInv, Closed, Dark, InLoop, fdVars
  <2>2. CASE CloseFiles
    <3>1. maxfd' \in Nat
      BY <2>2, DaemonAssumption DEF CloseFiles
    <3> QED
      BY <2>2, <3>1 DEF CloseFiles, FdTypeOK, FdInv, Closed, Dark, InLoop
  <2>3. CASE ReopenStdFds
    <3>1. FdTypeOK'
      BY <2>3 DEF ReopenStdFds, FdTypeOK
    <3>2. CASE step' = "failed"
      BY <3>1, <3>2 DEF FdInv, Closed, Dark, InLoop
    <3>3. CASE step' # "failed"
      <4>1. /\ step = "reopen" /\ step' = "signal" /\ maxfd' = maxfd
            /\ fd' = [n \in Descriptors |-> IF n <= 2 THEN "null" ELSE fd[n]]
        BY <2>3, <3>3 DEF ReopenStdFds
      <4>2. \A n \in Descriptors : n < maxfd => fd'[n] # "inherited"
        BY <4>1 DEF FdInv, Closed
      <4>3. \A n \in 0 .. 2 : fd'[n] = "null"
        BY <4>1, Standard
      <4> QED
        BY <3>1, <4>1, <4>2, <4>3 DEF FdInv, InLoop
    <3> QED
      BY <3>2, <3>3
  <2>4. CASE InstallHandler
    BY <2>4 DEF InstallHandler, FdTypeOK, FdInv, Closed, Dark, InLoop, fdVars
  <2>5. CASE open_log_file
    <3>1. ASSUME NEW n \in Descriptors, fd[n] = "closed",
                 fd' = [fd EXCEPT ![n] = "log"], step' = "test"
          PROVE  FdTypeOK' /\ FdInv'
      BY <2>5, <3>1, Standard DEF open_log_file, FdTypeOK, FdInv, Closed, Dark, InLoop
    <3>2. ASSUME step' = "failed" /\ UNCHANGED fd
          PROVE  FdTypeOK' /\ FdInv'
      BY <2>5, <3>2 DEF open_log_file, FdTypeOK, FdInv, Closed, Dark, InLoop
    <3> QED
      BY <2>5, <3>1, <3>2 DEF open_log_file
  <2> QED
    BY <2>1, <2>2, <2>3, <2>4, <2>5
<1> QED
  BY <1>1, <1>2, <1>3, <1>4, <1>5

(* The loop of main().                                                     *)
LEMMA LoopStep ==
  ASSUME DaemonInv, TestFlag \/ setutent \/ getutent \/ sleep
  PROVE  DaemonInv'
<1> USE DEF DaemonInv, TypeOK
<1>1. step' \in Steps /\ ProcTypeOK' /\ ForkInv' /\ SessionInv'
  BY DEF TestFlag, setutent, getutent, sleep, Steps, Ends, ProcTypeOK, ForkInv,
    SessionInv, Daemonized, procVars
<1>2. SignalTypeOK'
  BY DEF TestFlag, setutent, getutent, sleep, SignalTypeOK, signalVars
<1>3. FdTypeOK' /\ FdInv'
  BY DEF TestFlag, setutent, getutent, sleep, FdTypeOK, FdInv, Closed, Dark, InLoop, fdVars
<1>4. PassTypeOK' /\ PassInv'
  <2>1. CASE TestFlag \/ sleep
    BY <2>1 DEF TestFlag, sleep, PassTypeOK, PassInv, passVars
  <2>2. CASE setutent
    <3>1. LoggedIn \subseteq Users
      BY DEF LoggedIn, PassTypeOK
    <3> QED
      BY <2>2, <3>1, DaemonAssumption DEF setutent, PassTypeOK, PassInv, LoggedIn,
        Entries
  <2>3. CASE getutent /\ entry < Slots
    <3>1. entry' = entry + 1 /\ entry' \in Entries /\ entry \in Nat
      BY <2>3, DaemonAssumption DEF getutent, PassTypeOK, Entries
    <3>2. logged' = logged \cup ({utmp[entry']} \cap Accounts)
      BY <2>3 DEF getutent
    <3>3. PassTypeOK'
      BY <2>3, <3>1, <3>2, DaemonAssumption DEF getutent, PassTypeOK, Entries
    <3>4. logged' \subseteq seen'
      BY <2>3, <3>1, <3>2, DaemonAssumption DEF getutent, PassTypeOK, PassInv
    <3>5. ASSUME NEW e \in steady', e <= entry', utmp'[e] \in Accounts
          PROVE  utmp'[e] \in logged'
      BY <2>3, <3>1, <3>2, <3>5 DEF getutent, PassTypeOK, PassInv, Entries
    <3> QED
      BY <2>3, <3>3, <3>4, <3>5 DEF getutent, PassInv
  <2>4. CASE getutent /\ ~(entry < Slots)
    BY <2>4 DEF getutent, PassTypeOK, PassInv
  <2> QED
    BY <2>1, <2>2, <2>3, <2>4
<1> QED
  BY <1>1, <1>2, <1>3, <1>4

(* The parents, signals, and users.                                        *)
LEMMA OtherStep ==
  ASSUME DaemonInv, _exit \/ sigterm_handler \/ LoginOrLogout
  PROVE  DaemonInv'
<1> USE DEF DaemonInv, TypeOK
<1>1. step' \in Steps /\ ProcTypeOK' /\ ForkInv' /\ SessionInv'
  BY DEF _exit, sigterm_handler, LoginOrLogout, Steps, Ends, ProcTypeOK, ForkInv,
    SessionInv, Daemonized, procVars
<1>2. SignalTypeOK'
  <2>1. CASE sigterm_handler
    <3>1. asked' \in 0 .. MaxSignals
      BY <2>1, DaemonAssumption DEF sigterm_handler, SignalTypeOK
    <3>2. received_sigterm' \in BOOLEAN /\ handler' \in BOOLEAN
      BY <2>1, Zenon DEF sigterm_handler, SignalTypeOK
    <3> QED
      BY <3>1, <3>2 DEF SignalTypeOK
  <2>2. CASE _exit \/ LoginOrLogout
    BY <2>2 DEF _exit, LoginOrLogout, SignalTypeOK, signalVars
  <2> QED
    BY <2>1, <2>2
<1>3. FdTypeOK' /\ FdInv'
  BY DEF _exit, sigterm_handler, LoginOrLogout, Ends, FdTypeOK, FdInv, Closed, Dark, InLoop,
    fdVars
<1>4. PassTypeOK' /\ PassInv'
  <2>1. CASE _exit \/ sigterm_handler
    BY <2>1 DEF _exit, sigterm_handler, PassTypeOK, PassInv, passVars
  <2>2. CASE LoginOrLogout
    <3>1. PICK e \in Entries, u \in Users \cup {None} :
            /\ utmp' = [utmp EXCEPT ![e] = u]
            /\ IF step = "getutent"
               THEN steady' = steady \ {e} /\ seen' = seen \cup ({u} \ {None})
               ELSE UNCHANGED <<steady, seen>>
      BY <2>2 DEF LoginOrLogout
    <3> QED
      BY <2>2, <3>1 DEF LoginOrLogout, PassTypeOK, PassInv
  <2> QED
    BY <2>1, <2>2
<1> QED
  BY <1>1, <1>2, <1>3, <1>4

LEMMA DaemonStep == DaemonInv /\ [Next]_vars => DaemonInv'
<1> SUFFICES ASSUME DaemonInv, [Next]_vars PROVE DaemonInv'
  OBVIOUS
<1>1. CASE Next
  BY <1>1, BecomeDaemon, LoopStep, OtherStep DEF Next, Main
<1>2. CASE UNCHANGED vars
  BY <1>2 DEF DaemonInv, TypeOK, ProcTypeOK, FdTypeOK, SignalTypeOK, PassTypeOK, ForkInv,
    SessionInv, FdInv, PassInv, InLoop, vars, procVars, fdVars, signalVars, passVars
<1> QED
  BY <1>1, <1>2

LEMMA DaemonCorrect == Spec => []DaemonInv
BY InitDaemon, DaemonStep, PTL DEF Spec

-----------------------------------------------------------------------------
(* Every variable keeps its type: no more descriptors are looked at than   *)
(* there are, and a pass never reads past the last entry.                  *)
THEOREM DaemonTypes == Spec => []TypeOK
<1>1. DaemonInv => TypeOK
  BY DEF DaemonInv
<1> QED
  BY DaemonCorrect, <1>1, PTL

(* The daemon is detached from its starter, however that one runs and      *)
(* whatever it has open (become_daemon).                                   *)
THEOREM DaemonDetached == Spec => []Detached
<1>1. DaemonInv => Detached
  BY DEF DaemonInv, ForkInv, SessionInv, FdInv, Detached, InLoop, Daemonized, Closed, Dark
<1> QED
  BY DaemonCorrect, <1>1, PTL

(* A pass logs everyone who stays and nobody who was not there, although   *)
(* utmp changes under it (print_logged_users).                             *)
THEOREM PassesAreComplete == Spec => []WhoStaysIsLogged
<1>1. ASSUME DaemonInv, PassRead PROVE \A e \in steady : e <= entry
  BY <1>1 DEF DaemonInv, TypeOK, PassTypeOK, PassRead, Entries
<1>2. DaemonInv => WhoStaysIsLogged
  BY <1>1 DEF DaemonInv, PassInv, WhoStaysIsLogged, PassRead
<1> QED
  BY DaemonCorrect, <1>2, PTL
=============================================================================
