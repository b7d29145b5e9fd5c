----------------------------- MODULE MCStopLock -----------------------------
(* Instances of StopLock for TLC. *)
EXTENDS StopLock, TLC

Symmetry == Permutations(Shells)
=============================================================================
