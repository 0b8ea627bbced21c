-------------------------------- MODULE Daemon --------------------------------
(***************************************************************************)
(* 03-Processes-And-Threads/01-Daemons/SystemV.  become_daemon(0) forks,   *)
(* starts a session, forks again and resets the descriptors; main() then   *)
(* appends the logged-in users to a log once a minute until SIGTERM.  Each *)
(* fork leaves a parent that only exits; the process that goes on is "me". *)
(* main.c is compiled with -std=c99 and no feature macro, so signal() has  *)
(* the System V meaning: the handler is removed when it is called.         *)
(***************************************************************************)
EXTENDS Integers

CONSTANTS
  Slots,       \* the number of entries of the utmp file
  Users,       \* the users that log in
  Accounts,    \* those getpwnam() knows
  None,        \* an unused entry
  OpenMaxs,    \* what sysconf() says of the number of descriptors, or -1
  BD_MAX_CLOSE,\* taken for it when sysconf() cannot say
  MaxFd,       \* bound: no larger descriptor is inherited
  MaxSignals   \* bound: SIGTERMs sent

ASSUME DaemonAssumption ==
  /\ {Slots, BD_MAX_CLOSE, MaxFd, MaxSignals} \subseteq Nat
  /\ MaxFd >= 2
  /\ Accounts \subseteq Users /\ None \notin Users
  /\ BD_MAX_CLOSE > 3 /\ \A n \in OpenMaxs : n = -1 \/ (n \in Nat /\ n > 3)

VARIABLES
  me,        \* the process that goes on
  leaving,   \* the parents that have yet to exit
  sid,       \* per process: its session
  pgid,      \* per process: its process group
  fd,        \* the descriptors of me
  maxfd,     \* the number of descriptors it has closed
  step,      \* where me is
  received_sigterm,
  handler,   \* the handler is installed
  asked,     \* SIGTERMs sent so far
  utmp,      \* per entry: the user of it, if any
  entry,     \* entries read in this pass
  logged,    \* users written to the log in this pass
  steady,    \* history: entries that have not changed in this pass
  seen       \* history: users that were logged in during this pass

procVars == <<me, leaving, sid, pgid>>
fdVars == <<fd, maxfd>>
signalVars == <<received_sigterm, handler, asked>>
passVars == <<utmp, entry, logged, steady, seen>>
vars == <<procVars, fdVars, step, signalVars, passVars>>

-----------------------------------------------------------------------------
Processes == {"caller", "leader", "daemon"}
Child(p) == IF p = "caller" THEN "leader" ELSE "daemon"
Descriptors == 0 .. MaxFd
Entries == 1 .. Slots
Ends == {"over", "failed", "killed"}
Steps == {"fork", "setsid", "fork again", "close", "reopen", "signal", "open",
          "test", "setutent", "getutent", "sleep"} \cup Ends

LoggedIn == {utmp[e] : e \in Entries} \ {None}

(* Started from a shell, in a group of its own or not, or as the leader of *)
(* a session, with any descriptors open.                                   *)
Init ==
  /\ me = "caller" /\ leaving = {} /\ step = "fork"
  /\ \E s \in {"shell", "caller"}, g \in {"shell", "caller"} :
       /\ s = "caller" => g = "caller"
       /\ sid = [p \in Processes |-> s] /\ pgid = [p \in Processes |-> g]
  /\ fd \in [Descriptors -> {"closed", "inherited"}]
  /\ maxfd = 0
  /\ received_sigterm = FALSE /\ handler = FALSE /\ asked = 0
  /\ utmp \in [Entries -> Users \cup {None}]
  /\ entry = 0 /\ logged = {} /\ steady = {} /\ seen = {}

-----------------------------------------------------------------------------
(* become_daemon()                                                         *)

(* Mutant: only the first of the two forks is there.                       *)
ForkOnce(now, next) ==
  /\ step = now
  /\ IF now = "fork"
     THEN me' = Child(me) /\ leaving' = leaving \cup {me}
     ELSE UNCHANGED <<me, leaving>>
  /\ step' = next
  /\ UNCHANGED <<sid, pgid, fdVars, signalVars, passVars>>

(* The child has the session, the group and the descriptors of its parent. *)
Fork(now, next) ==
  /\ step = now
  /\ \/ /\ me' = Child(me) /\ leaving' = leaving \cup {me}
        /\ sid' = [sid EXCEPT ![Child(me)] = sid[me]]
        /\ pgid' = [pgid EXCEPT ![Child(me)] = pgid[me]]
        /\ step' = next
     \/ step' = "failed" /\ UNCHANGED procVars
  /\ UNCHANGED <<fdVars, signalVars, passVars>>

_exit ==
  /\ \E p \in leaving : leaving' = leaving \ {p}
  /\ UNCHANGED <<me, sid, pgid, fdVars, step, signalVars, passVars>>

(* A process that leads its group cannot start a session.                  *)
setsid ==
  /\ step = "setsid"
  /\ IF pgid[me] = me
     THEN step' = "failed" /\ UNCHANGED <<sid, pgid>>
     ELSE /\ sid' = [sid EXCEPT ![me] = me] /\ pgid' = [pgid EXCEPT ![me] = me]
          /\ step' = "fork again"
  /\ UNCHANGED <<me, leaving, fdVars, signalVars, passVars>>

(* A limit lowered since a descriptor was opened leaves it open.           *)
CloseFiles ==
  /\ step = "close"
  /\ \E n \in OpenMaxs : maxfd' = IF n = -1 THEN BD_MAX_CLOSE ELSE n
  /\ fd' = [i \in Descriptors |-> IF i < maxfd' THEN "closed" ELSE fd[i]]
  /\ step' = "reopen"
  /\ UNCHANGED <<procVars, signalVars, passVars>>

(* open() and dup2() may fail, and the caller is told.                     *)
ReopenStdFds ==
  /\ step = "reopen"
  /\ \/ /\ fd' = [i \in Descriptors |-> IF i <= 2 THEN "null" ELSE fd[i]]
        /\ step' = "signal"
     \/ \E done \in 0 .. 2 :
          /\ fd' = [i \in Descriptors |-> IF i < done THEN "null" ELSE fd[i]]
          /\ step' = "failed"
  /\ UNCHANGED <<procVars, maxfd, signalVars, passVars>>

-----------------------------------------------------------------------------
(* main()                                                                  *)

InstallHandler ==
  /\ step = "signal"
  /\ handler' = TRUE
  /\ step' = "open"
  /\ UNCHANGED <<procVars, fdVars, received_sigterm, asked, passVars>>

(* open() returns the lowest free descriptor.                              *)
open_log_file ==
  /\ step = "open"
  /\ \/ \E i \in Descriptors :
          /\ fd[i] = "closed" /\ \A j \in 0 .. i - 1 : fd[j] # "closed"
          /\ fd' = [fd EXCEPT ![i] = "log"]
          /\ step' = "test"
     \/ step' = "failed" /\ UNCHANGED fd
  /\ UNCHANGED <<procVars, maxfd, signalVars, passVars>>

(* SIGTERM ends a process without a handler, and otherwise sets the flag   *)
(* and wakes it from its sleep.                                            *)
sigterm_handler ==
  /\ asked < MaxSignals /\ step \notin Ends
  /\ asked' = asked + 1
  /\ IF handler
     THEN /\ received_sigterm' = TRUE /\ handler' = FALSE
          /\ step' = IF step = "sleep" THEN "test" ELSE step
     ELSE step' = "killed" /\ UNCHANGED <<received_sigterm, handler>>
  /\ UNCHANGED <<procVars, fdVars, passVars>>

TestFlag ==
  /\ step = "test"
  /\ IF received_sigterm
     THEN /\ step' = "over"
          /\ fd' = [i \in Descriptors |-> IF fd[i] = "log" THEN "closed" ELSE fd[i]]
     ELSE step' = "setutent" /\ UNCHANGED fd
  /\ UNCHANGED <<procVars, maxfd, signalVars, passVars>>

(* Mutant: the file stays open between passes and is not started over.     *)
NoRewind ==
  /\ step = "setutent"
  /\ logged' = {} /\ steady' = Entries /\ seen' = LoggedIn
  /\ step' = "getutent"
  /\ UNCHANGED <<procVars, fdVars, signalVars, utmp, entry>>

(* Mutant: a pass starts by clearing the flag.                             *)
ClearAndStart ==
  /\ step = "setutent"
  /\ entry' = 0 /\ logged' = {} /\ steady' = Entries /\ seen' = LoggedIn
  /\ received_sigterm' = FALSE
  /\ step' = "getutent"
  /\ UNCHANGED <<procVars, fdVars, handler, asked, utmp>>

setutent ==
  /\ step = "setutent"
  /\ entry' = 0 /\ logged' = {} /\ steady' = Entries /\ seen' = LoggedIn
  /\ step' = "getutent"
  /\ UNCHANGED <<procVars, fdVars, signalVars, utmp>>

(* The next entry, and a line for it if it is a user's with an account.    *)
getutent ==
  /\ step = "getutent"
  /\ IF entry < Slots
     THEN /\ entry' = entry + 1
          /\ logged' = logged \cup ({utmp[entry']} \cap Accounts)
          /\ UNCHANGED step
     ELSE step' = "sleep" /\ UNCHANGED <<entry, logged>>
  /\ UNCHANGED <<procVars, fdVars, signalVars, utmp, steady, seen>>

sleep ==
  /\ step = "sleep"
  /\ step' = "test"
  /\ UNCHANGED <<procVars, fdVars, signalVars, passVars>>

(* Users come and go, during a pass too.                                   *)
LoginOrLogout ==
  /\ step \in {"getutent", "sleep"}
  /\ \E e \in Entries, u \in Users \cup {None} :
       /\ (utmp[e] = None) # (u = None)
       /\ utmp' = [utmp EXCEPT ![e] = u]
       /\ IF step = "getutent"
          THEN steady' = steady \ {e} /\ seen' = seen \cup ({u} \ {None})
          ELSE UNCHANGED <<steady, seen>>
  /\ UNCHANGED <<procVars, fdVars, step, signalVars, entry, logged>>

-----------------------------------------------------------------------------
Main ==
  \/ Fork("fork", "setsid") \/ setsid \/ Fork("fork again", "close")
  \/ CloseFiles \/ ReopenStdFds \/ InstallHandler \/ open_log_file
  \/ TestFlag \/ setutent \/ getutent \/ sleep

Next == Main \/ _exit \/ sigterm_handler \/ LoginOrLogout

Spec == Init /\ [][Next]_vars

(* The process is scheduled, and a sleep of a minute ends.                 *)
FairSpec == Spec /\ WF_vars(Main)

-----------------------------------------------------------------------------
ProcTypeOK ==
  /\ me \in Processes /\ leaving \subseteq Processes \ {me}
  /\ sid \in [Processes -> Processes \cup {"shell"}]
  /\ pgid \in [Processes -> Processes \cup {"shell"}]

FdTypeOK ==
  /\ fd \in [Descriptors -> {"closed", "inherited", "null", "log"}]
  /\ maxfd \in Nat

SignalTypeOK ==
  /\ received_sigterm \in BOOLEAN /\ handler \in BOOLEAN
  /\ asked \in 0 .. MaxSignals

PassTypeOK ==
  /\ utmp \in [Entries -> Users \cup {None}] /\ entry \in 0 .. Slots
  /\ logged \subseteq Accounts /\ steady \subseteq Entries /\ seen \subseteq Users

(* Type invariant: every variable keeps its type.                          *)
TypeOK == step \in Steps /\ ProcTypeOK /\ FdTypeOK /\ SignalTypeOK /\ PassTypeOK

(* The daemon runs in a session that it does not lead and that is not its  *)
(* starter's, so it has no terminal and can never get one; its standard    *)
(* descriptors are /dev/null, its log is another one, and it holds nothing *)
(* it inherited below the limit it found.  setsid() has not failed for it. *)
InLoop == step \in {"test", "setutent", "getutent", "sleep"}
Detached ==
  InLoop =>
    /\ sid[me] \notin {me, sid["caller"]}
    /\ \A i \in 0 .. 2 : fd[i] = "null"
    /\ \A i \in Descriptors : i < maxfd => fd[i] # "inherited"
    /\ \E i \in Descriptors : fd[i] = "log"

(* When a pass is over, everyone with an account who was logged in for the *)
(* whole of it has a line, and nobody has who was not logged in during it, *)
(* although users come and go between two entries.                         *)
PassRead == step = "getutent" /\ entry = Slots
WhoStaysIsLogged ==
  PassRead =>
    /\ {utmp[e] : e \in steady} \cap Accounts \subseteq logged
    /\ logged \subseteq seen

(* SIGTERM stops the daemon wherever it is told, between the test and the  *)
(* sleep too, and it closes its log; only a second one kills it.           *)
StopsWhenAsked ==
  received_sigterm ~>
    \/ step = "over" /\ \A i \in Descriptors : fd[i] # "log"
    \/ step = "failed"
    \/ step = "killed" /\ asked > 1
=============================================================================
