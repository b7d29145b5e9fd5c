--------------------------- MODULE MCTraceSession ---------------------------
(* Instances of TraceSession for TLC. *)
EXTENDS TraceSession, TLC

Symmetry == Permutations(Wrappers) \cup Permutations(Stoppers)
=============================================================================
