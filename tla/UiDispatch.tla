------------------------------ MODULE UiDispatch ------------------------------
(***************************************************************************)
(* Handlers on their way from worker threads to the UI thread: App.Post,   *)
(* App.StopLoop and App.DrainPosts over the one dispatch queue of the      *)
(* process, which all windows share.                                       *)
(*                                                                         *)
(* A worker reads isRunning and then posts, two steps between which the UI *)
(* thread may do anything; StopLoop clears isRunning and then the queue,   *)
(* two steps between which a worker may do anything.                       *)
(***************************************************************************)
EXTENDS DispatchRing

CONSTANTS Windows,      \* the App objects, each opened at most once
          Target,       \* the window each handler is posted to
          Together      \* several windows may be open at once

ASSUME TargetType == Target \in [Handlers -> Windows]
ASSUME TogetherType == Together \in BOOLEAN

VARIABLES win,      \* where each window is
          post,     \* where each handler is
          ranBy     \* the window whose event loop ran each handler

vars == <<q, answer, win, post, ranBy>>

Stages == {"new", "open", "stopping", "closed"}
Posts == {"fresh", "posting", "queued", "ran", "dropped", "refused"}

\* The UI thread is not in the middle of StopLoop.
UiFree == \A w \in Windows : win[w] # "stopping"

\* Clearing the queue drops whatever it held.
Dropped == [h \in Handlers |-> IF post[h] = "queued" THEN "dropped" ELSE post[h]]

----------------------------------------------------------------------------
Init ==
    /\ InitRing
    /\ win = [w \in Windows |-> "new"]
    /\ post = [h \in Handlers |-> "fresh"]
    /\ ranBy = [h \in Handlers |-> Null]

\* The constructor of App: isRunning is set and the queue is reset.
Open(w) ==
    /\ UiFree /\ win[w] = "new"
    /\ ~Together => \A v \in Windows : win[v] # "open"
    /\ win' = [win EXCEPT ![w] = "open"]
    /\ Clear
    /\ post' = Dropped
    /\ UNCHANGED ranBy

\* The first line of App.Post: a window that is not running drops the handler.
Ask(h) ==
    /\ post[h] = "fresh" /\ win[Target[h]] # "new"
    /\ post' = [post EXCEPT ![h] = IF win[Target[h]] = "open" THEN "posting"
                                   ELSE "dropped"]
    /\ UNCHANGED <<q, answer, win, ranBy>>

\* The rest of it; what Dispatcher.Post answers is not looked at.
Enqueue(h) ==
    /\ post[h] = "posting"
    /\ Post(h)
    /\ post' = [post EXCEPT ![h] = IF answer' = "accepted" THEN "queued" ELSE "refused"]
    /\ UNCHANGED <<win, ranBy>>

\* Faulty: the handler is taken and not called.
DrainOneSilently(w) ==
    /\ UiFree /\ win[w] = "open"
    /\ Take
    /\ UNCHANGED <<win, post, ranBy>>

\* One turn of DrainPosts in the event loop of w: take a handler and call it.
DrainOne(w) ==
    /\ UiFree /\ win[w] = "open"
    /\ Take /\ answer' # Null
    /\ post' = [post EXCEPT ![answer'] = "ran"]
    /\ ranBy' = [ranBy EXCEPT ![answer'] = w]
    /\ UNCHANGED win

\* Faulty: the queue is cleared while the window still accepts handlers.
StopAfterClear(w) ==
    /\ UiFree /\ win[w] = "open"
    /\ Clear
    /\ post' = Dropped
    /\ UNCHANGED <<win, ranBy>>

\* StopLoop: isRunning = false ...
Stop(w) ==
    /\ UiFree /\ win[w] = "open"
    /\ win' = [win EXCEPT ![w] = "stopping"]
    /\ UNCHANGED <<q, answer, post, ranBy>>

\* ... and Dispatcher.Clear().
StopClear(w) ==
    /\ win[w] = "stopping"
    /\ win' = [win EXCEPT ![w] = "closed"]
    /\ Clear
    /\ post' = Dropped
    /\ UNCHANGED ranBy

Next ==
    \/ \E w \in Windows : Open(w) \/ DrainOne(w) \/ Stop(w) \/ StopClear(w)
    \/ \E h \in Handlers : Ask(h) \/ Enqueue(h)

Spec == Init /\ [][Next]_vars

\* A post wakes the event loop of its own window, and a loop that was woken
\* drains the queue.  Nothing wakes the next window for a handler that is not
\* its own.
DrainOwn ==
    \E h \in Handlers : post[h] = "queued" /\ DrainOne(Target[h])

FairSpec == Spec /\ WF_vars(DrainOwn)

----------------------------------------------------------------------------
TypeOK ==
    /\ RingOK
    /\ win \in [Windows -> Stages]
    /\ post \in [Handlers -> Posts]
    /\ ranBy \in [Handlers -> Windows \cup {Null}]

\* The ring holds exactly the handlers that wait, each once: clearing, opening
\* and growing lose none and bring none back.
Live == {At(q, i) : i \in 0..Count(q) - 1}
HoldsTheWaiting ==
    /\ Live = {h \in Handlers : post[h] = "queued"}
    /\ \A i, j \in 0..Count(q) - 1 : At(q, i) = At(q, j) => i = j

\* A handler is dropped only because its own window was closed.
DroppedWithItsWindow ==
    \A h \in Handlers :
        post[h] = "dropped" => win[Target[h]] \in {"stopping", "closed"}

\* A handler posted to one window never runs in the loop of the next one.
RunsAtHome == \A h \in Handlers : ranBy[h] \in {Null, Target[h]}

\* A handler that was queued runs, unless its window is closed first.
Waits(h) == post[h] = "queued" /\ win[Target[h]] = "open"
QueuedRuns ==
    \A h \in Handlers : Waits(h) ~> post[h] = "ran" \/ win[Target[h]] # "open"
===============================================================================
