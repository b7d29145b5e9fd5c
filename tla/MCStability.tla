---------------------------- MODULE MCStability ----------------------------
(* Instances of Stability for TLC: two container counts and two process    *)
(* counts tell "same" from "changed".                                      *)
EXTENDS Stability

TwoCounts == {1, 2}
ZeroOrMore == {0, 1, 2}
=============================================================================
