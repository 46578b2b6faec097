----------------------------- MODULE LeaseLock -----------------------------
(***************************************************************************)
(* The request lock of System.Web: a route marked [Lock] runs one request  *)
(* at a time for a key.  A LockManager draws an owner number, asks the     *)
(* shared table for a lease in that owner's name, and gives it back after  *)
(* the handler.  The lease runs out by itself and nothing renews it.       *)
(*                                                                         *)
(* The number is drawn without a lock: the sequence is loaded, stored one  *)
(* higher and read again.  With --async-workers the coroutines of a        *)
(* process run on several threads, and these steps interleave.  A manager  *)
(* made by Attach leases from the table of another manager but counts      *)
(* owners by itself, from zero.  The wall clock is read before the table   *)
(* is locked, so a lease may be asked for at a time that has passed.       *)
(***************************************************************************)
EXTENDS SharedTableOps

CONSTANTS Requests,     \* requests to locked routes
          Managers,     \* LockManagers over the one table
          AsyncWorkers, \* several threads run the requests of a manager
          Lease,        \* leaseMs
          MaxOwner,     \* owner numbers a manager draws
          MaxTime       \* the clock stops here

ASSUME LeasePositive == Lease \in Nat \ {0}
ASSUME BoundsNat == MaxOwner \in Nat /\ MaxTime \in Nat
ASSUME AsyncAssumption == AsyncWorkers \in BOOLEAN

VARIABLES table,            \* the shared table of owners
          now,              \* the wall clock
          ownerSequence,    \* the last owner number of each manager
          request,          \* where each request is
          given,            \* history: the numbers drawn
          twice             \* history: those drawn more than once

vars == <<table, now, ownerSequence, request, given, twice>>
history == <<given, twice>>

Idle == [phase |-> "idle"]

\* seen is what was loaded of the sequence of the manager by.  key and owner
\* are those of the lease asked for or held; at is the clock the lease is
\* counted from.
Request ==
    {Idle} \cup [phase : {"loaded", "stored"}, key : Keys, by : Managers, seen : Nat]
           \cup [phase : {"numbered"}, key : Keys, owner : Nat]
           \cup [phase : {"asking", "inside"}, key : Keys, owner : Nat, at : Nat]

Drawing(r) == request[r].phase \in {"loaded", "stored"}
Asking(r) == request[r].phase = "asking"
Inside(r) == request[r].phase = "inside"
HasNumber(r) == request[r].phase \in {"numbered", "asking", "inside"}
Until(r)  == request[r].at + Lease

----------------------------------------------------------------------------
Init ==
    /\ table = Empty
    /\ now = 1
    /\ ownerSequence = [m \in Managers |-> 0]
    /\ request = [r \in Requests |-> Idle]
    /\ given = {} /\ twice = {}

\* The event loop of one thread runs TryAcquire, which awaits nothing, to its
\* end before another request of its process.
MayDraw(m) ==
    AsyncWorkers \/ \A s \in Requests : Drawing(s) => request[s].by # m

\* TryAcquire loads the sequence,
Load(r, m, k) ==
    /\ request[r] = Idle /\ MayDraw(m)
    /\ ownerSequence[m] < MaxOwner
    /\ request' = [request EXCEPT ![r] =
           [phase |-> "loaded", key |-> k, by |-> m, seen |-> ownerSequence[m]]]
    /\ UNCHANGED <<table, now, ownerSequence, history>>

\* stores it one higher,
StoreNext(r) ==
    /\ request[r].phase = "loaded"
    /\ ownerSequence' = [ownerSequence EXCEPT ![request[r].by] = request[r].seen + 1]
    /\ request' = [request EXCEPT ![r].phase = "stored"]
    /\ UNCHANGED <<table, now, history>>

\* and reads the number back, or keeps the value it stored: a race either way.
Number(r) ==
    LET q == request[r]
    IN  /\ q.phase = "stored"
        /\ \E o \in {q.seen + 1, ownerSequence[q.by]} :
              /\ request' = [request EXCEPT ![r] =
                     [phase |-> "numbered", key |-> q.key, owner |-> o]]
              /\ given' = given \cup {o}
              /\ twice' = twice \cup (given \cap {o})
        /\ UNCHANGED <<table, now, ownerSequence>>

\* lock_acquire reads the clock.
ReadClock(r) ==
    LET q == request[r]
    IN  /\ q.phase = "numbered"
        /\ request' = [request EXCEPT ![r] =
               [phase |-> "asking", key |-> q.key, owner |-> q.owner, at |-> now]]
        /\ UNCHANGED <<table, now, ownerSequence, history>>

\* The locked part of lock_acquire: only a key without a row is leased.
Acquire(r) ==
    LET q == request[r]
        t == Purge(table, q.at)
        made == RowFor(t, q.key)
        granted == FindRow(t, q.key) = 0 /\ made.at # 0
    IN  /\ Asking(r)
        /\ table' = IF granted
                    THEN SetExpiry(Store(made, "owner", q.owner), made.at,
                                   Until(r))
                    ELSE t
        /\ request' = [request EXCEPT ![r] =
                           IF granted THEN [q EXCEPT !.phase = "inside"]
                           ELSE Idle]
        /\ UNCHANGED <<now, ownerSequence, history>>

\* Faulty: whoever holds the key loses it.
ReleaseAny(r) ==
    LET q == request[r]
        t == PurgeSome(table, now)
    IN  /\ Inside(r)
        /\ table' = Remove(t, FindRow(t, q.key))
        /\ request' = [request EXCEPT ![r] = Idle]
        /\ UNCHANGED <<now, ownerSequence, history>>

\* Faulty: nothing is given back.
ReleaseNone(r) ==
    /\ Inside(r)
    /\ request' = [request EXCEPT ![r] = Idle]
    /\ UNCHANGED <<table, now, ownerSequence, history>>

\* The handler has returned or thrown: lock_release under the table's lock.
Release(r) ==
    LET q == request[r]
        t == PurgeSome(table, now)
        i == FindRow(t, q.key)
        mine == i # 0 /\ t.rows[i].data["owner"] = q.owner
    IN  /\ Inside(r)
        /\ table' = IF mine THEN Remove(t, i) ELSE t
        /\ request' = [request EXCEPT ![r] = Idle]
        /\ UNCHANGED <<now, ownerSequence, history>>

Tick ==
    /\ now < MaxTime
    /\ now' = now + 1
    /\ UNCHANGED <<table, ownerSequence, request, history>>

Next ==
    \/ Tick
    \/ \E r \in Requests :
          \/ \E m \in Managers, k \in Keys : Load(r, m, k)
          \/ StoreNext(r) \/ Number(r) \/ ReadClock(r)
          \/ Acquire(r) \/ Release(r)

Spec == Init /\ [][Next]_vars

----------------------------------------------------------------------------
TypeOK ==
    /\ table \in Table
    /\ now \in Nat
    /\ ownerSequence \in [Managers -> Nat]
    /\ request \in [Requests -> Request]
    /\ given \subseteq Nat /\ twice \subseteq given

\* A request whose number was drawn by it alone.
Sole(r) == request[r].owner \notin twice

\* The requests inside on k whose lease has not run out.
Holders(k) == {r \in Requests : Inside(r) /\ request[r].key = k /\ now < Until(r)}

\* LockManager over the shared table: of the requests whose owner number is
\* theirs alone no two hold a key at once, however late others release, and
\* whatever is drawn in a race or by another manager meanwhile.
OneLease == \A k \in Keys : Cardinality({r \in Holders(k) : Sole(r)}) <= 1

\* Security.zan:17-23: overlapping requests of a key are refused, race free,
\* because a worker is one event loop.  Of one manager on one thread, while
\* the lease lasts; several threads, or managers over one table, break it.
OneHolder == \A k \in Keys : Cardinality(Holders(k)) <= 1

\* Whoever is inside, with a number of its own and a lease that has not run
\* out, is the owner the table has for the key, until the very time it was
\* told: no other request's late release, purge or acquisition takes the row.
LeaseKept ==
    \A k \in Keys : \A r \in Holders(k) :
        LET i == FindRow(table, k)
        IN  Sole(r) =>
                /\ i # 0
                /\ table.rows[i].data["owner"] = request[r].owner
                /\ table.rows[i].expires = Until(r)

\* No lease outlives its request: a row that has not run out belongs to one
\* that is inside, so a key is never refused for longer than a handler runs.
NoOrphan ==
    \A i \in Alive(table) :
        table.rows[i].expires > now =>
            \E r \in Requests :
                /\ Inside(r)
                /\ request[r].key = table.rows[i].key
                /\ request[r].owner = table.rows[i].data["owner"]

\* What WebApp says of the lock: one request in flight per key, held for the
\* duration of the handler.
OneInFlight ==
    \A k \in Keys :
        Cardinality({r \in Requests : Inside(r) /\ request[r].key = k}) <= 1
============================================================================
