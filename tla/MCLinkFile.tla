----------------------------- MODULE MCLinkFile -----------------------------
(***************************************************************************)
(* The directory trees TLC tries, and what the user may do in them; see    *)
(* the configurations.                                                     *)
(***************************************************************************)
EXTENDS LinkFile

(* Every tree, up to exchanging the two directories that are not named.    *)
EveryTree == {p \in [Dir -> Dir] : p["sub"] # "deep"}

(* Everything is open to the user, or one directory is closed: it cannot   *)
(* be entered, or not listed, or neither.                                  *)
OneClosed ==
  {r \in [enter : SUBSET Dir, read : SUBSET Dir] :
     Cardinality(Dir \ (r.enter \intersect r.read)) <= 1}

AllOpen == {[enter |-> Dir, read |-> Dir]}
=============================================================================
