----------------------------- MODULE DispatchFifo -----------------------------
(***************************************************************************)
(* What the UI-thread dispatch queue promises: handlers are taken in the   *)
(* order in which they were posted, each once; a post is refused only when *)
(* Room handlers wait already, and then the caller is told.                *)
(***************************************************************************)
EXTENDS Sequences, Naturals

CONSTANTS Handlers, Room, Null

VARIABLES queue,    \* the handlers waiting
          answer    \* what the last call answered

Init == queue = <<>> /\ answer = Null

Accept(fn) == queue' = Append(queue, fn) /\ answer' = "accepted"

Refuse == Len(queue) >= Room /\ answer' = "refused" /\ UNCHANGED queue

Take ==
    \/ queue # <<>> /\ answer' = Head(queue) /\ queue' = Tail(queue)
    \/ queue = <<>> /\ answer' = Null /\ UNCHANGED queue

Clear == queue' = <<>> /\ answer' = Null

Next == Refuse \/ Take \/ Clear \/ \E fn \in Handlers : Accept(fn)

Spec == Init /\ [][Next]_<<queue, answer>>
===============================================================================
