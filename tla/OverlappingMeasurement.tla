----------------------- MODULE OverlappingMeasurement -----------------------
(***************************************************************************)
(* What a speed test promises that starts its second measurement without   *)
(* waiting for the threads of its first: the download counter may still    *)
(* grow while the upload is measured, but only as long as a thread of the  *)
(* download is left.  When the upload starts each of them has a slot of    *)
(* its own, and they never become more.                                    *)
(***************************************************************************)
EXTENDS Naturals

CONSTANTS
  Slots,       \* the slots of the pool
  Workers      \* every thread the pool may create

VARIABLES
  phase,       \* the measurement in progress, or "over"
  tail,        \* threads of the download left over in the upload
  total_size   \* what each measurement has counted so far

vars == <<phase, tail, total_size>>

Kinds == {"download", "upload"}

Init ==
  /\ phase = "download"
  /\ tail = {}
  /\ total_size = [k \in Kinds |-> 0]

(* One block is credited to the measurement in progress, or by a left-over *)
(* thread to the download.                                                 *)
Count(k) ==
  /\ phase = k \/ (phase = "upload" /\ k = "download" /\ tail # {})
  /\ total_size' = [total_size EXCEPT ![k] = @ + 1]
  /\ UNCHANGED <<phase, tail>>

StartUpload ==
  /\ phase = "download" /\ phase' = "upload"
  /\ tail' \subseteq Workers
  /\ \E own \in [tail' -> Slots] :
       \A t, u \in tail' : own[t] = own[u] => t = u
  /\ UNCHANGED total_size

(* A left-over thread ends.                                                *)
Retire ==
  /\ phase = "upload"
  /\ \E t \in tail : tail' = tail \ {t}
  /\ UNCHANGED <<phase, total_size>>

(* The process exits, and takes every thread with it.                      *)
Finish ==
  /\ phase = "upload" /\ phase' = "over"
  /\ tail' = {}
  /\ UNCHANGED total_size

Next == (\E k \in Kinds : Count(k)) \/ StartUpload \/ Retire \/ Finish

Spec == Init /\ [][Next]_vars
=============================================================================
