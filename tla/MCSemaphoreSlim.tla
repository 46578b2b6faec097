-------------------------- MODULE MCSemaphoreSlim --------------------------
(* Three callers and limits 0..2: enough for a caller that times out while a *)
(* second one is being handed a slot and a third one registers.              *)
EXTENDS SemaphoreSlim

CONSTANTS t1, t2, t3
MCThreads == {t1, t2, t3}
============================================================================
