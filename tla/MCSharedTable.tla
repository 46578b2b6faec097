--------------------------- MODULE MCSharedTable ---------------------------
(* Three keys in a table that holds two rows, so that rows are refused,      *)
(* removed and reused; the third is addressed by hash; a batch of one so     *)
(* that a purge can leave work behind.                                       *)
EXTENDS SharedTable

CONSTANTS k1, k2, k3
MCKeys == {k1, k2, k3}
MCVals == {1, 2}
MCHashKeys == {k3}
============================================================================
