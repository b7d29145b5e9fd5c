------------------------- MODULE MCDaemonSingleton -------------------------
(* Instances of DaemonSingleton for TLC. *)
EXTENDS DaemonSingleton, TLC

Symmetry == Permutations(Starters) \cup Permutations(Watchers)
=============================================================================
