---------------------------- MODULE Measurement ----------------------------
(***************************************************************************)
(* What a speed test promises, without threads, sockets or a timer: one    *)
(* download measurement, then one upload measurement, each with a byte     *)
(* counter of its own that only grows while that measurement is running.   *)
(* The worker pool (SpeedtestPool) implements this specification.          *)
(***************************************************************************)
EXTENDS Naturals

VARIABLES
  phase,       \* the measurement in progress, or "over"
  total_size   \* what each measurement has counted so far

vars == <<phase, total_size>>

Kinds == {"download", "upload"}

TypeOK ==
  /\ phase \in Kinds \union {"over"}
  /\ total_size \in [Kinds -> Nat]

Init ==
  /\ phase = "download"
  /\ total_size = [k \in Kinds |-> 0]

(* One block is credited to the measurement in progress, to no other.      *)
Count ==
  /\ phase \in Kinds
  /\ total_size' = [total_size EXCEPT ![phase] = @ + 1]
  /\ UNCHANGED phase

(* A measurement ends for good: nothing is credited to it any more.        *)
Advance ==
  /\ \/ phase = "download" /\ phase' = "upload"
     \/ phase = "upload" /\ phase' = "over"
  /\ UNCHANGED total_size

Next == Count \/ Advance

Spec == Init /\ [][Next]_vars
=============================================================================
