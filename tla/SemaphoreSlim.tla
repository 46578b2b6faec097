--------------------------- MODULE SemaphoreSlim ---------------------------
(***************************************************************************)
(* System.Threading.SemaphoreSlim: a throttle whose limit may be changed   *)
(* while callers hold slots.                                               *)
(*                                                                         *)
(* Every read and write of the four counters happens between Mutex.Lock    *)
(* and Mutex.Unlock, so each locked region is one step here.  The calls to *)
(* the operating-system semaphore are made OUTSIDE the lock and are steps  *)
(* of their own: a releaser that has already given a slot away may still   *)
(* have its Semaphore.Release to make, and a caller whose timed wait gave  *)
(* up has not yet locked to withdraw its registration.                     *)
(*                                                                         *)
(* A slot is handed over: the releaser counts the woken caller in active   *)
(* and the caller does not look again.  Nothing says WHICH waiter a permit *)
(* is for, which is what makes the timed-out path delicate.                *)
(***************************************************************************)
EXTENDS Integers, FiniteSets

CONSTANTS Threads,    \* the callers
          MaxLimit    \* the largest limit anybody asks for

ASSUME ThreadsFinite == IsFiniteSet(Threads)
ASSUME MaxLimitNat == MaxLimit \in Nat

VARIABLES
    limit,      \* slots that may be held at once
    active,     \* slots given out, those still on their way included
    waiters,    \* registered callers nobody has handed a slot to
    canceled,   \* the gate has been shut
    permits,    \* value of the operating-system semaphore sem
    posting,    \* <<t, k>>: t still has its k-th Semaphore.Release to make
    pc,         \* where each caller is
    disposed    \* the handles have been destroyed

vars == <<limit, active, waiters, canceled, permits, posting, pc, disposed>>

(***************************************************************************)
(* "parked"   in Semaphore.Wait, no timeout                                *)
(* "timed"    in Semaphore.WaitFor                                         *)
(* "expired"  WaitFor has timed out, the lock is not yet taken again       *)
(* "owed"     timed out, but its registration was paired: takes the permit *)
(* "woken"    has a permit, has not yet looked whether the gate was shut   *)
(* "holding"  owns a slot and will Release it                              *)
(***************************************************************************)
PCs == {"idle", "parked", "timed", "expired", "owed", "woken", "holding"}

Blocked == {t \in Threads : pc[t] \in {"parked", "timed", "expired", "owed"}}
Holders == {t \in Threads : pc[t] = "holding"}
Woken   == {t \in Threads : pc[t] = "woken"}

\* t is not in the middle of the Release loop that ends Release, SetLimit
\* and Cancel.
Free(t) == ~disposed /\ \A p \in posting : p[1] # t

Loop(t, n) == {t} \X (1..n)

Smaller(a, b) == IF a < b THEN a ELSE b

----------------------------------------------------------------------------
Init ==
    /\ limit \in 0..MaxLimit
    /\ active = 0
    /\ waiters = 0
    /\ canceled = FALSE
    /\ permits = 0
    /\ posting = {}
    /\ pc = [t \in Threads |-> "idle"]
    /\ disposed = FALSE

\* Wait, WaitFor and TryWait admit the caller at once when there is room.
Admit(t) ==
    /\ Free(t) /\ pc[t] = "idle"
    /\ ~canceled /\ active < limit
    /\ active' = active + 1
    /\ pc' = [pc EXCEPT ![t] = "holding"]
    /\ UNCHANGED <<limit, waiters, canceled, permits, posting, disposed>>

\* Wait with no room, and WaitFor, which also keeps a deadline unless its
\* timeout is negative.
Register(t, where) ==
    /\ Free(t) /\ pc[t] = "idle"
    /\ ~canceled /\ active >= limit
    /\ waiters' = waiters + 1
    /\ pc' = [pc EXCEPT ![t] = where]
    /\ UNCHANGED <<limit, active, canceled, permits, posting, disposed>>

Park(t) == Register(t, "parked")
ParkTimed(t) == Register(t, "timed")

\* The operating-system semaphore lets one of its waiters through.
TakePermit(t) ==
    /\ pc[t] \in {"parked", "timed", "owed"}
    /\ permits > 0
    /\ permits' = permits - 1
    /\ pc' = [pc EXCEPT ![t] = "woken"]
    /\ UNCHANGED <<limit, active, waiters, canceled, posting, disposed>>

\* The deadline passes.  A permit may just have been posted.
Expire(t) ==
    /\ pc[t] = "timed"
    /\ pc' = [pc EXCEPT ![t] = "expired"]
    /\ UNCHANGED <<limit, active, waiters, canceled, permits, posting, disposed>>

\* Faulty: a paired registration is given up too, and its permit left behind.
WithdrawLeaky(t) ==
    /\ pc[t] = "expired"
    /\ waiters' = IF waiters > 0 THEN waiters - 1 ELSE waiters
    /\ pc' = [pc EXCEPT ![t] = "idle"]
    /\ UNCHANGED <<limit, active, canceled, permits, posting, disposed>>

\* Withdraw a registration, or find that every registration has been paired
\* with a hand-over and that one of the permits is therefore this caller's.
Withdraw(t) ==
    /\ pc[t] = "expired"
    /\ IF waiters > 0
       THEN /\ waiters' = waiters - 1
            /\ pc' = [pc EXCEPT ![t] = "idle"]
       ELSE /\ pc' = [pc EXCEPT ![t] = "owed"]
            /\ UNCHANGED waiters
    /\ UNCHANGED <<limit, active, canceled, permits, posting, disposed>>

\* Faulty: any permit is taken for a slot.
ResumeUnchecked(t) ==
    /\ pc[t] = "woken"
    /\ pc' = [pc EXCEPT ![t] = "holding"]
    /\ UNCHANGED <<limit, active, waiters, canceled, permits, posting, disposed>>

\* The permit of a gate that was shut carries no slot: WaitFor returns false
\* and a caller of Wait asks IsCanceled.
Resume(t) ==
    /\ pc[t] = "woken"
    /\ pc' = [pc EXCEPT ![t] = IF canceled THEN "idle" ELSE "holding"]
    /\ UNCHANGED <<limit, active, waiters, canceled, permits, posting, disposed>>

\* Faulty: the slot is handed over without being counted.
ReleaseUncounted(t) ==
    /\ Free(t) /\ pc[t] = "holding"
    /\ pc' = [pc EXCEPT ![t] = "idle"]
    /\ LET left == IF active > 0 THEN active - 1 ELSE active
           wake == ~canceled /\ waiters > 0 /\ left < limit
       IN  /\ active' = left
           /\ waiters' = IF wake THEN waiters - 1 ELSE waiters
           /\ posting' = IF wake THEN posting \cup Loop(t, 1) ELSE posting
    /\ UNCHANGED <<limit, canceled, permits, disposed>>

\* Faulty: tests the room before giving the slot back.
ReleaseEarlyTest(t) ==
    /\ Free(t) /\ pc[t] = "holding"
    /\ pc' = [pc EXCEPT ![t] = "idle"]
    /\ LET left == IF active > 0 THEN active - 1 ELSE active
           wake == ~canceled /\ waiters > 0 /\ active < limit
       IN  /\ active' = IF wake THEN left + 1 ELSE left
           /\ waiters' = IF wake THEN waiters - 1 ELSE waiters
           /\ posting' = IF wake THEN posting \cup Loop(t, 1) ELSE posting
    /\ UNCHANGED <<limit, canceled, permits, disposed>>

Release(t) ==
    /\ Free(t) /\ pc[t] = "holding"
    /\ pc' = [pc EXCEPT ![t] = "idle"]
    /\ LET left == IF active > 0 THEN active - 1 ELSE active
           wake == ~canceled /\ waiters > 0 /\ left < limit
       IN  /\ active' = IF wake THEN left + 1 ELSE left
           /\ waiters' = IF wake THEN waiters - 1 ELSE waiters
           /\ posting' = IF wake THEN posting \cup Loop(t, 1) ELSE posting
    /\ UNCHANGED <<limit, canceled, permits, disposed>>

\* Faulty: admits every waiter once there is room.
AdmittedAll(l) == IF canceled \/ l <= active THEN 0 ELSE waiters

\* How many waiters a gate of limit l admits in its while loop.
Admitted(l) ==
    IF canceled \/ l <= active THEN 0 ELSE Smaller(waiters, l - active)

SetLimit(t, l) ==
    /\ Free(t) /\ pc[t] \in {"idle", "holding"}
    /\ limit' = l
    /\ waiters' = waiters - Admitted(l)
    /\ active' = active + Admitted(l)
    /\ posting' = posting \cup Loop(t, Admitted(l))
    /\ UNCHANGED <<canceled, permits, pc, disposed>>

\* Faulty: shuts the gate and wakes nobody.
CancelSilently(t) ==
    /\ Free(t) /\ pc[t] \in {"idle", "holding"}
    /\ canceled' = TRUE
    /\ waiters' = 0
    /\ UNCHANGED <<limit, active, permits, posting, pc, disposed>>

Cancel(t) ==
    /\ Free(t) /\ pc[t] \in {"idle", "holding"}
    /\ canceled' = TRUE
    /\ waiters' = 0
    /\ posting' = posting \cup Loop(t, waiters)
    /\ UNCHANGED <<limit, active, permits, pc, disposed>>

\* One Semaphore.Release of the loop; the last one ends the call.
Post(t) ==
    \E p \in posting :
        /\ p[1] = t
        /\ \A q \in posting : q[1] = t => q[2] <= p[2]
        /\ posting' = posting \ {p}
        /\ permits' = permits + 1
        /\ UNCHANGED <<limit, active, waiters, canceled, pc, disposed>>

\* The caller's duty: shut the gate first, and no caller inside.
Dispose ==
    /\ ~disposed /\ canceled
    /\ posting = {}
    /\ \A t \in Threads : pc[t] = "idle"
    /\ disposed' = TRUE
    /\ UNCHANGED <<limit, active, waiters, canceled, permits, posting, pc>>

Step(t) ==
    \/ Admit(t) \/ Park(t) \/ ParkTimed(t)
    \/ TakePermit(t) \/ Expire(t) \/ Withdraw(t) \/ Resume(t)
    \/ Release(t) \/ Post(t) \/ Cancel(t)
    \/ \E l \in 0..MaxLimit : SetLimit(t, l)

Next == Dispose \/ \E t \in Threads : Step(t)

Spec == Init /\ [][Next]_vars

\* A permit on the semaphore is taken by somebody, a running call goes on,
\* and a holder gives its slot back (the finally block of the class comment).
Fairness ==
    \A t \in Threads :
        /\ WF_vars(TakePermit(t) \/ Withdraw(t) \/ Resume(t))
        /\ WF_vars(Post(t))
        /\ WF_vars(Release(t))

FairSpec == Spec /\ Fairness

----------------------------------------------------------------------------
TypeOK ==
    /\ limit \in 0..MaxLimit
    /\ active \in Nat
    /\ waiters \in Nat
    /\ permits \in Nat
    /\ canceled \in BOOLEAN
    /\ disposed \in BOOLEAN
    /\ posting \subseteq Threads \X (Nat \ {0})
    /\ IsFiniteSet(posting)
    /\ pc \in [Threads -> PCs]

\* Every caller inside the gate is paired with exactly one of: a registration
\* still waiting, a permit on the semaphore, a permit about to be posted.  A
\* timed-out caller that withdraws somebody else's registration, or takes a
\* permit it did not register for last, keeps the balance; nobody is left on
\* the semaphore with no permit coming, and no permit is left over.
RegistrationsBalance ==
    Cardinality(Blocked) = waiters + permits + Cardinality(posting)

\* Until the gate is shut, active counts exactly the callers that own a slot
\* and the slots that are on their way to one.
SlotsBalance ==
    ~canceled => active = Cardinality(Holders) + Cardinality(Woken)
                             + permits + Cardinality(posting)

\* Nobody stays registered while there is room: whoever makes room, by
\* releasing or by raising the limit, hands it over in the same locked region.
NoLostWakeup == ~canceled /\ waiters > 0 => active >= limit

\* active is never clamped at zero by a caller that owns a slot, shut or not.
HoldersCounted == Cardinality(Holders) <= active

\* A step that gives out slots never gives out more than the limit of that
\* moment allows, however far the limit was lowered below active before.
AdmissionBounded == [][active' > active => active' <= limit' /\ ~canceled']_vars

\* Shutting the gate gets every caller out of it, those whose deadline passed
\* between the hand-over and its Semaphore.Release included.
CancelDrains == canceled ~> Blocked \cup Woken = {}
============================================================================
