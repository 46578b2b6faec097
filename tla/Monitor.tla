------------------------------ MODULE Monitor ------------------------------
(***************************************************************************)
(* The monitor behind lock (obj) { ... }: an object's address picks one of *)
(* 64 recursive mutexes of the operating system, so objects may share one. *)
(* The compiler lowers the statement to an enter, a try and a finally that *)
(* exits, in an async body too, where the task may be suspended inside.    *)
(*                                                                         *)
(* The program modelled locks in order: a task asks for an object it is    *)
(* already inside of, or for one ranked above all it is inside of.  Such   *)
(* a program cannot deadlock when every object has a monitor of its own.   *)
(***************************************************************************)
EXTENDS Integers, Sequences, FiniteSets

CONSTANTS Tasks,        \* whoever runs a lock statement
          OsThreads,      \* the threads they run on
          Host,         \* the thread of each task
          Objects,      \* objects locked
          Rank,         \* the order the program locks them in
          Stripes,      \* the mutexes
          MaxNest       \* lock statements a task nests

ASSUME HostType == Host \in [Tasks -> OsThreads]
ASSUME RankType == Rank \in [Objects -> Nat]
ASSUME NestNat == MaxNest \in Nat
ASSUME TasksFinite == IsFiniteSet(Tasks)

None == "none"
ASSUME NoneType == None \notin OsThreads /\ None \notin Objects

VARIABLES
    stripe,     \* the mutex of each object, which its address decides
    owner,      \* the thread that owns each mutex
    depth,      \* how many times
    inside,     \* the lock statements each task is in, the innermost last
    asks        \* the object each task calls monitor_enter for

monitorVars == <<stripe, owner, depth, inside, asks>>

Holds(t, o) == \E i \in DOMAIN inside[t] : inside[t][i] = o

\* A thread blocked in pthread_mutex_lock runs none of its other tasks.
Runs(t) == \A u \in Tasks : Host[u] = Host[t] => asks[u] = None

InOrder(t, o) ==
    Holds(t, o) \/ \A i \in DOMAIN inside[t] : Rank[inside[t][i]] < Rank[o]

----------------------------------------------------------------------------
\* Where the allocator puts the objects nobody knows.
MonitorInit ==
    /\ stripe \in [Objects -> Stripes]
    /\ owner = [s \in Stripes |-> None]
    /\ depth = [s \in Stripes |-> 0]
    /\ inside = [t \in Tasks |-> <<>>]
    /\ asks = [t \in Tasks |-> None]

\* monitor_enter is called.
Ask(t, o) ==
    /\ Runs(t)
    /\ Len(inside[t]) < MaxNest
    /\ InOrder(t, o)
    /\ asks' = [asks EXCEPT ![t] = o]
    /\ UNCHANGED <<stripe, owner, depth, inside>>

\* Faulty: the mutex is not tested.
AvailableAlways(t, s) == s \in Stripes

Available(t, s) == owner[s] = None \/ owner[s] = Host[t]

\* The mutex is taken, again if the thread has it already.
Enter(t) ==
    LET s == stripe[asks[t]]
    IN  /\ asks[t] # None
        /\ Available(t, s)
        /\ owner' = [owner EXCEPT ![s] = Host[t]]
        /\ depth' = [depth EXCEPT ![s] = @ + 1]
        /\ inside' = [inside EXCEPT ![t] = Append(@, asks[t])]
        /\ asks' = [asks EXCEPT ![t] = None]
        /\ UNCHANGED stripe

\* Faulty: a mutex that does not count, or counts and is never given back.
ExitReset(t) ==
    LET n == Len(inside[t])
        s == stripe[inside[t][n]]
    IN  /\ Runs(t) /\ n > 0
        /\ depth' = [depth EXCEPT ![s] = IF owner[s] = None THEN @ - 1 ELSE 0]
        /\ owner' = [owner EXCEPT ![s] = None]
        /\ inside' = [inside EXCEPT ![t] = SubSeq(@, 1, n - 1)]
        /\ UNCHANGED <<stripe, asks>>

ExitKeeping(t) ==
    LET n == Len(inside[t])
        s == stripe[inside[t][n]]
    IN  /\ Runs(t) /\ n > 0
        /\ depth' = [depth EXCEPT ![s] = @ - 1]
        /\ inside' = [inside EXCEPT ![t] = SubSeq(@, 1, n - 1)]
        /\ UNCHANGED <<stripe, owner, asks>>

\* The finally of the innermost lock statement.
Exit(t) ==
    LET n == Len(inside[t])
        s == stripe[inside[t][n]]
    IN  /\ Runs(t) /\ n > 0
        /\ depth' = [depth EXCEPT ![s] = @ - 1]
        /\ owner' = [owner EXCEPT ![s] = IF depth[s] = 1 THEN None ELSE @]
        /\ inside' = [inside EXCEPT ![t] = SubSeq(@, 1, n - 1)]
        /\ UNCHANGED <<stripe, asks>>

MonitorNext == \E t \in Tasks : Enter(t) \/ Exit(t) \/ \E o \in Objects : Ask(t, o)

MonitorSpec == MonitorInit /\ [][MonitorNext]_monitorVars

----------------------------------------------------------------------------
MonitorTypeOK ==
    /\ stripe \in [Objects -> Stripes]
    /\ owner \in [Stripes -> OsThreads \cup {None}]
    /\ depth \in [Stripes -> Nat]
    /\ inside \in [Tasks -> Seq(Objects)]
    /\ asks \in [Tasks -> Objects \cup {None}]

\* What lock is for: two tasks are never inside a lock of one object.
MutualExclusion ==
    \A t, u \in Tasks : t # u => ~ \E o \in Objects : Holds(t, o) /\ Holds(u, o)

\* The mutex of an object a task is inside of belongs to the task's thread,
\* and its count is the number of lock statements entered through it, those of
\* other objects that share it included: no exit gives it back too early.
Uses(s) == {p \in Tasks \X (1..MaxNest) :
               /\ p[2] <= Len(inside[p[1]])
               /\ stripe[inside[p[1]][p[2]]] = s}
CountsNesting ==
    \A s \in Stripes :
        /\ depth[s] = Cardinality(Uses(s))
        /\ depth[s] = 0 <=> owner[s] = None
        /\ \A p \in Uses(s) : owner[s] = Host[p[1]]

\* Locks do not stop the program: while a task asks, one of the tasks can
\* enter, or is inside a lock and running.
CanEnter(t) == asks[t] # None /\ Available(t, stripe[asks[t]])
Moves ==
    (\E t \in Tasks : asks[t] # None) =>
        \E t \in Tasks : CanEnter(t) \/ (Runs(t) /\ inside[t] # <<>>)

\* A program that locks in order never comes to a stop on its locks if its
\* objects have mutexes of their own ...
OwnMutexes == \A o, p \in Objects : stripe[o] = stripe[p] => o = p
Progresses == OwnMutexes => Moves

\* ... and, as zanstubs.c says of the stripes, sharing a mutex makes objects
\* wait for each other more than they need to and does nothing else.
SharingOnlySerializes == Moves
============================================================================
