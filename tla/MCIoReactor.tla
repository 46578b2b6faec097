----------------------------- MODULE MCIoReactor -----------------------------
(***************************************************************************)
(* Three coroutines: main starts the two others and waits for them in both *)
(* ways, a talks to a socket and closes it, b looks names up and delays.   *)
(***************************************************************************)
EXTENDS IoReactor

CONSTANTS main, a, b

MCDoes ==
  [f \in Frames |->
     CASE f = main -> {"SPAWN", "AWAIT", "CLOSE", "OPEN", "SIGNAL"}
       [] f = a -> {"RECV_TO", "WAIT", "PARK", "DROP"}
       [] f = b -> {"DNS", "DELAY", "RECV", "FREE"}]
MCOps == [f \in Frames |-> IF f = main THEN 3 ELSE 2]
=============================================================================
