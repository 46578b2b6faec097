---------------------------- MODULE MCLeaseLock ----------------------------
(* Three requests: one can outlive its lease, a second take the key and a    *)
(* third wait for it.  Two managers on several threads need one key only;    *)
(* with two keys one manager on one thread purges and reuses the other's row.*)
EXTENDS LeaseLock, TLC

CONSTANTS r1, r2, r3, k1, k2, m1, m2
MCRequests == {r1, r2, r3}
MCKeys == {k1, k2}
OneKey == {k1}
OneManager == {m1}
TwoManagers == {m1, m2}
Symmetry == Permutations(Requests) \cup Permutations(Managers)
============================================================================
