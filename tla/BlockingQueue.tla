----------------------------- MODULE BlockingQueue -----------------------------
(***************************************************************************)
(* System.Threading.BlockingQueue: producers and consumers park on two     *)
(* operating-system semaphores.  As in SemaphoreSlim the counters change   *)
(* under the mutex, one step per locked region, and Semaphore.Release is   *)
(* called after it, a step per call.  Unlike there a permit hands nothing  *)
(* over: whoever is woken looks again, and may find that somebody else was *)
(* quicker.                                                                *)
(***************************************************************************)
EXTENDS Integers, Sequences, FiniteSets

CONSTANTS Producers,    \* an item is named by the producer it comes from
          Consumers,
          Capacity,     \* items held before producers park; 0: no bound
          Slack,        \* consumed prefix above which the list is compacted
          Empty,        \* what a consumer gets when there is nothing
          MaxSends      \* items each producer sends

ASSUME CapacityNat == Capacity \in Nat /\ Slack \in Nat /\ MaxSends \in Nat
ASSUME ThreadsFinite == IsFiniteSet(Producers) /\ IsFiniteSet(Consumers)
ASSUME Apart == Producers \cap Consumers = {} /\ Empty \notin Producers

VARIABLES
    items,      \* the list, consumed prefix included
    head,       \* how much of it was consumed
    closed,     \* Complete, CompleteWithFault or Cancel was called
    canceled,   \* by the last
    fault,      \* the second left a failure to report
    waiters,    \* registered consumers nobody has woken
    posters,    \* registered producers nobody has woken
    permits,    \* the values of the semaphores sem and slots
    posting,    \* <<t, k>> for a semaphore: t still has its k-th Release to make
    pc,         \* where each thread is
    sent,       \* items each producer has offered
    got         \* what each consumer's last call returned

vars == <<items, head, closed, canceled, fault, waiters, posters, permits,
          posting, pc, sent, got>>

Threads == Producers \cup Consumers

Sems == {"sem", "slots"}

(***************************************************************************)
(* "parked"   in Semaphore.Wait                                            *)
(* "timed"    in Semaphore.WaitFor (DequeueFor)                            *)
(* "expired"  WaitFor has timed out, the lock is not yet taken again       *)
(* "owed"     timed out, but its registration was paired: takes the permit *)
(* "again"    has a permit and goes round the loop                         *)
(* "againFor" the same in DequeueFor                                       *)
(***************************************************************************)
PCs == {"idle", "parked", "timed", "expired", "owed", "again", "againFor"}

BlockedIn(S) == {t \in S : pc[t] \in {"parked", "timed", "expired", "owed"}}
LookingIn(S) == {t \in S : pc[t] \in {"again", "againFor"}}

\* t is not in the Semaphore.Release calls that end a call.
Free(t) == \A s \in Sems : \A p \in posting[s] : p[1] # t

Loop(t, n) == {t} \X (1..n)

Held == Len(items) - head

----------------------------------------------------------------------------
Init ==
    /\ items = <<>> /\ head = 0
    /\ closed = FALSE /\ canceled = FALSE /\ fault = FALSE
    /\ waiters = 0 /\ posters = 0
    /\ permits = [s \in Sems |-> 0]
    /\ posting = [s \in Sems |-> {}]
    /\ pc = [t \in Threads |-> "idle"]
    /\ sent = [p \in Producers |-> 0]
    /\ got = [c \in Consumers |-> Empty]

\* Faulty: a consumer is woken only when the queue was empty.
WakeWaiterOnFirst(p) ==
    IF waiters > 0 /\ Held = 0
    THEN /\ waiters' = waiters - 1
         /\ posting' = [posting EXCEPT !["sem"] = @ \cup Loop(p, 1)]
    ELSE UNCHANGED <<waiters, posting>>

\* A parked consumer is told of the item.
WakeWaiter(p) ==
    IF waiters > 0
    THEN /\ waiters' = waiters - 1
         /\ posting' = [posting EXCEPT !["sem"] = @ \cup Loop(p, 1)]
    ELSE UNCHANGED <<waiters, posting>>

\* One turn of the loop of Enqueue.
Enqueue(p) ==
    /\ Free(p)
    /\ pc[p] \in {"idle", "again"} /\ sent[p] < MaxSends
    /\ \/ /\ closed
          /\ pc' = [pc EXCEPT ![p] = "idle"]
          /\ sent' = [sent EXCEPT ![p] = @ + 1]
          /\ UNCHANGED <<items, waiters, posters, posting>>
       \/ /\ ~closed /\ Capacity > 0 /\ Held >= Capacity
          /\ posters' = posters + 1
          /\ pc' = [pc EXCEPT ![p] = "parked"]
          /\ UNCHANGED <<items, waiters, posting, sent>>
       \/ /\ ~closed /\ (Capacity > 0 => Held < Capacity)
          /\ items' = Append(items, p)
          /\ WakeWaiter(p)
          /\ pc' = [pc EXCEPT ![p] = "idle"]
          /\ sent' = [sent EXCEPT ![p] = @ + 1]
          /\ UNCHANGED posters
    /\ UNCHANGED <<head, closed, canceled, fault, permits, got>>

\* Faulty: compaction drops one item too many.
TakeLockedLossy(h) ==
    IF h > Slack /\ h * 2 >= Len(items)
    THEN items' = SubSeq(items, h + 2, Len(items)) /\ head' = 0
    ELSE head' = h /\ UNCHANGED items

\* TakeLocked once the item is read: the prefix of length h is consumed, and
\* cut off when it is long and most of the list.
TakeLocked(h) ==
    IF h > Slack /\ h * 2 >= Len(items)
    THEN items' = SubSeq(items, h + 1, Len(items)) /\ head' = 0
    ELSE head' = h /\ UNCHANGED items

\* Faulty: no producer is told of the room.
WakePosterNever(c) == UNCHANGED <<posters, posting>>

\* A parked producer is told of room.  TryDequeue tells one in any case.
WakePoster(c) ==
    IF posters > 0
    THEN /\ posters' = posters - 1
         /\ posting' = [posting EXCEPT !["slots"] = @ \cup Loop(c, 1)]
    ELSE UNCHANGED <<posters, posting>>

TryDequeue(c) ==
    /\ Free(c) /\ pc[c] = "idle"
    /\ IF Held > 0
       THEN got' = [got EXCEPT ![c] = items[head + 1]] /\ TakeLocked(head + 1)
       ELSE got' = [got EXCEPT ![c] = Empty] /\ UNCHANGED <<items, head>>
    /\ WakePoster(c)
    /\ UNCHANGED <<closed, canceled, fault, waiters, permits, pc, sent>>

\* One turn of the loop of Dequeue, or of DequeueFor, which parks with a
\* timeout.
Turn(c, again, where) ==
    /\ Free(c) /\ pc[c] \in {"idle", again}
    /\ \/ /\ Held > 0
          /\ got' = [got EXCEPT ![c] = items[head + 1]]
          /\ TakeLocked(head + 1)
          /\ WakePoster(c)
          /\ pc' = [pc EXCEPT ![c] = "idle"]
          /\ UNCHANGED waiters
       \/ /\ Held = 0 /\ closed
          /\ got' = [got EXCEPT ![c] = Empty]
          /\ pc' = [pc EXCEPT ![c] = "idle"]
          /\ UNCHANGED <<items, head, waiters, posters, posting>>
       \/ /\ Held = 0 /\ ~closed
          /\ waiters' = waiters + 1
          /\ pc' = [pc EXCEPT ![c] = where]
          /\ UNCHANGED <<items, head, posters, posting, got>>
    /\ UNCHANGED <<closed, canceled, fault, permits, sent>>

Dequeue(c) == Turn(c, "again", "parked")
DequeueFor(c) == Turn(c, "againFor", "timed")

\* A semaphore lets one of its waiters through.
Wake(t, s) ==
    /\ pc[t] \in {"parked", "timed", "owed"}
    /\ permits[s] > 0
    /\ permits' = [permits EXCEPT ![s] = @ - 1]
    /\ pc' = [pc EXCEPT ![t] = IF @ = "parked" THEN "again" ELSE "againFor"]
    /\ UNCHANGED <<items, head, closed, canceled, fault, waiters, posters, posting,
                   sent, got>>

\* The timeout of DequeueFor runs out.
Expire(c) ==
    /\ pc[c] = "timed"
    /\ pc' = [pc EXCEPT ![c] = "expired"]
    /\ UNCHANGED <<items, head, closed, canceled, fault, waiters, posters,
                   permits, posting, sent, got>>

\* Faulty: gives up without asking whether it was paired.
WithdrawAlways(c) ==
    /\ pc[c] = "expired"
    /\ waiters' = IF waiters > 0 THEN waiters - 1 ELSE 0
    /\ pc' = [pc EXCEPT ![c] = "idle"]
    /\ got' = [got EXCEPT ![c] = Empty]
    /\ UNCHANGED <<items, head, closed, canceled, fault, posters, permits, posting,
                   sent>>

\* It withdraws, unless all registrations were paired with a permit.
Withdraw(c) ==
    /\ pc[c] = "expired"
    /\ \/ /\ waiters > 0
          /\ waiters' = waiters - 1
          /\ pc' = [pc EXCEPT ![c] = "idle"]
          /\ got' = [got EXCEPT ![c] = Empty]
       \/ /\ waiters = 0
          /\ pc' = [pc EXCEPT ![c] = "owed"]
          /\ UNCHANGED <<waiters, got>>
    /\ UNCHANGED <<items, head, closed, canceled, fault, posters, permits, posting,
                   sent>>

\* Faulty: producers stay parked.
WakeWaitersOnly(t) ==
    /\ waiters' = 0
    /\ posting' = [posting EXCEPT !["sem"] = @ \cup Loop(t, waiters)]
    /\ UNCHANGED posters

\* Everyone who is parked is woken, consumers first.
WakeAll(t) ==
    /\ waiters' = 0
    /\ posters' = 0
    /\ posting' = [posting EXCEPT !["sem"] = @ \cup Loop(t, waiters),
                                  !["slots"] = @ \cup Loop(t, posters)]

\* Complete and CompleteWithFault.
Complete(t, failed) ==
    /\ Free(t) /\ pc[t] = "idle"
    /\ closed' = TRUE
    /\ fault' = failed
    /\ WakeAll(t)
    /\ UNCHANGED <<items, head, canceled, permits, pc, sent, got>>

Cancel(t) ==
    /\ Free(t) /\ pc[t] = "idle"
    /\ closed' = TRUE /\ canceled' = TRUE
    /\ fault' = FALSE
    /\ head' = Len(items)
    /\ WakeAll(t)
    /\ UNCHANGED <<items, permits, pc, sent, got>>

\* One Semaphore.Release call, those of sem before those of slots.
Post(t) ==
    \E s \in Sems : \E p \in posting[s] :
        /\ p[1] = t
        /\ \A q \in posting[s] : q[1] = t => q[2] <= p[2]
        /\ s = "slots" => \A q \in posting["sem"] : q[1] # t
        /\ posting' = [posting EXCEPT ![s] = @ \ {p}]
        /\ permits' = [permits EXCEPT ![s] = @ + 1]
        /\ UNCHANGED <<items, head, closed, canceled, fault, waiters, posters, pc,
                       sent, got>>

Produce(p) == Enqueue(p) \/ Wake(p, "slots")

Consume(c) ==
    \/ TryDequeue(c) \/ Dequeue(c) \/ DequeueFor(c)
    \/ Wake(c, "sem") \/ Expire(c) \/ Withdraw(c)

Next ==
    \/ \E p \in Producers : Produce(p)
    \/ \E c \in Consumers : Consume(c)
    \/ \E t \in Threads :
          \/ Post(t) \/ Cancel(t)
          \/ \E failed \in BOOLEAN : Complete(t, failed)

Spec == Init /\ [][Next]_vars

\* A call that is not parked goes on, and a permit is taken by somebody parked
\* on its semaphore.
Fairness ==
    /\ \A t \in Threads : WF_vars(Post(t))
    /\ \A p \in Producers :
          /\ WF_vars(Wake(p, "slots"))
          /\ WF_vars(pc[p] = "again" /\ Enqueue(p))
    /\ \A c \in Consumers :
          /\ WF_vars(Wake(c, "sem")) /\ WF_vars(Withdraw(c))
          /\ WF_vars(pc[c] = "again" /\ Dequeue(c))
          /\ WF_vars(pc[c] = "againFor" /\ DequeueFor(c))

FairSpec == Spec /\ Fairness

----------------------------------------------------------------------------
TypeOK ==
    /\ items \in Seq(Producers)
    /\ head \in 0..Len(items)
    /\ closed \in BOOLEAN /\ canceled \in BOOLEAN /\ fault \in BOOLEAN
    /\ waiters \in Nat /\ posters \in Nat
    /\ permits \in [Sems -> Nat]
    /\ posting \in [Sems -> SUBSET (Threads \X (Nat \ {0}))]
    /\ \A s \in Sems : IsFiniteSet(posting[s])
    /\ pc \in [Threads -> PCs]
    /\ sent \in [Producers -> 0..MaxSends]
    /\ got \in [Consumers -> Producers \cup {Empty}]

\* The permits of semaphore s that are there or on their way.
Coming(s) == permits[s] + Cardinality(posting[s])

\* Each thread in a semaphore has a registration or a permit of its own: no
\* permit is left over to wake somebody for nothing later, and none is missing.
RegistrationsBalance ==
    /\ Cardinality(BlockedIn(Consumers)) = waiters + Coming("sem")
    /\ Cardinality(BlockedIn(Producers)) = posters + Coming("slots")

\* A consumer stays registered only while somebody is on the way for each item
\* that waits, though any consumer may take the item before that one looks.
NoItemForgotten ==
    waiters > 0 => Held <= Coming("sem") + Cardinality(LookingIn(Consumers))

\* A producer stays registered only while somebody is on the way for each
\* free place.
NoRoomForgotten ==
    posters > 0 =>
        Capacity - Held <= Coming("slots") + Cardinality(LookingIn(Producers))

\* Through the consumed prefix, compaction, races for an item and abortion it
\* is the queue HandoffQueue describes.
Queue == INSTANCE HandoffQueue
            WITH queue <- SubSeq(items, head + 1, Len(items)), ended <- closed
ImplementsQueue == Queue!Spec

\* A failure that was reported is there for the consumers, unless the queue is
\* aborted.
FaultKept == [][fault /\ ~canceled' => fault']_vars

\* Ending the queue gets everyone out of it.
EndDrains == closed ~> BlockedIn(Threads) = {}
===============================================================================
