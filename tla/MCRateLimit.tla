---------------------------- MODULE MCRateLimit ----------------------------
(* Two keys, so that a call for one purges the other; windows of two ticks.  *)
EXTENDS RateLimit, TLC

CONSTANTS c1, c2, k1, k2
TwoCallers == {c1, c2}
MCKeys == {k1, k2}
Symmetry == Permutations(TwoCallers) \cup Permutations(MCKeys)
============================================================================
