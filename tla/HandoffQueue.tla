----------------------------- MODULE HandoffQueue -----------------------------
(***************************************************************************)
(* What a BlockingQueue promises: items are taken in the order in which    *)
(* they were accepted, each by one taker; no item is accepted beyond the   *)
(* capacity or once the queue has ended; ending it keeps the items that    *)
(* wait, canceling it drops them.                                          *)
(***************************************************************************)
EXTENDS Naturals, Sequences

CONSTANTS Producers, Consumers, Capacity, Empty

VARIABLES queue,    \* the items waiting, each named by its producer
          ended,    \* no more items are accepted
          got       \* what each consumer's last call that ended returned

vars == <<queue, ended, got>>

Init ==
    /\ queue = <<>>
    /\ ended = FALSE
    /\ got = [c \in Consumers |-> Empty]

Accept(p) ==
    /\ ~ended
    /\ Capacity > 0 => Len(queue) < Capacity
    /\ queue' = Append(queue, p)
    /\ UNCHANGED <<ended, got>>

TakeFirst(c) ==
    /\ queue # <<>>
    /\ got' = [got EXCEPT ![c] = Head(queue)]
    /\ queue' = Tail(queue)
    /\ UNCHANGED ended

\* A call that finds nothing: it did not wait, waited too long, or the queue
\* has ended.
TakeNone(c) ==
    /\ got' = [got EXCEPT ![c] = Empty]
    /\ UNCHANGED <<queue, ended>>

End == ended' = TRUE /\ UNCHANGED <<queue, got>>

Drop == ended' = TRUE /\ queue' = <<>> /\ UNCHANGED got

Next ==
    \/ End \/ Drop
    \/ \E p \in Producers : Accept(p)
    \/ \E c \in Consumers : TakeFirst(c) \/ TakeNone(c)

Spec == Init /\ [][Next]_vars
===============================================================================
