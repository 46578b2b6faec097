----------------------------- MODULE MCMonitor -----------------------------
(* Three tasks on threads of their own, four objects locked in the order a,  *)
(* b, c, d, at most two deep, and every way the objects may share mutexes.   *)
EXTENDS Monitor, TLC

CONSTANTS t1, t2, t3, h1, h2, h3, a, b, c, d, m1, m2, m3, m4
MCTasks == {t1, t2, t3}
MCThreads == {h1, h2, h3}
MCObjects == {a, b, c, d}
MCStripes == {m1, m2, m3, m4}
MCRank == (a :> 1) @@ (b :> 2) @@ (c :> 3) @@ (d :> 4)
OwnThreads == (t1 :> h1) @@ (t2 :> h2) @@ (t3 :> h3)
Symmetry == Permutations(MCStripes)
============================================================================
