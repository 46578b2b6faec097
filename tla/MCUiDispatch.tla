----------------------------- MODULE MCUiDispatch -----------------------------
(* Two windows; the first has three handlers posted to it, the second one.    *)
(* The ring of two slots grows once for them, also while it is wrapped round, *)
(* and is full at its last size when all four wait.                           *)
EXTENDS UiDispatch

CONSTANTS a, b, c, d, w1, w2
MCHandlers == {a, b, c, d}
MCWindows == {w1, w2}
MCTarget == [h \in MCHandlers |-> IF h = d THEN w2 ELSE w1]
===============================================================================
