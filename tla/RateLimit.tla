----------------------------- MODULE RateLimit -----------------------------
(***************************************************************************)
(* The fixed-window limiter of System.Web over SharedTable.RateAllow: a    *)
(* row per key with the number of calls allowed and the start of the       *)
(* window, which expires with the window.  The call reads the wall clock,  *)
(* then takes the table's lock.                                            *)
(***************************************************************************)
EXTENDS SharedTableOps

CONSTANTS Callers,      \* threads asking
          Limit,        \* calls a window allows
          Window,       \* windowMs
          MaxTime,      \* the clock stops here
          MaxWindows    \* windows of a key after which it is not asked for

ASSUME LimitPositive == Limit \in Nat \ {0} /\ Window \in Nat \ {0}

VARIABLES table,    \* the table of counts
          now,      \* the wall clock
          asking,   \* what each caller has read the clock for
          windows   \* for each key the windows opened: start and calls allowed,
              \* and when that was

vars == <<table, now, asking, windows>>

Idle == [key |-> "none", at |-> 0]
Ask == {Idle} \cup [key : Keys, at : Nat]

----------------------------------------------------------------------------
Init ==
    /\ table = Empty
    /\ now = 1
    /\ asking = [c \in Callers |-> Idle]
    /\ windows = [k \in Keys |-> <<>>]

\* Allow and rate_allow down to the clock.
Begin(c, k) ==
    /\ asking[c] = Idle
    /\ Len(windows[k]) < MaxWindows
    /\ asking' = [asking EXCEPT ![c] = [key |-> k, at |-> now]]
    /\ UNCHANGED <<table, now, windows>>

\* Faulty: the window is over one tick early.
OverEarly(t, i, at) ==
    LET start == t.rows[i].data["window_start"]
    IN  start <= 0 \/ at - start >= Window - 1

\* Is the window of row i of t over at this time, or was it never opened?
Over(t, i, at) ==
    LET start == t.rows[i].data["window_start"]
    IN  start <= 0 \/ at - start >= Window

\* Faulty: the window gets no expiry.
OpenedForever(t, i, at) ==
    [t EXCEPT !.rows[i].data["count"] = 1,
              !.rows[i].data["window_start"] = at]

Opened(t, i, at) ==
    [t EXCEPT !.rows[i].data["count"] = 1,
              !.rows[i].data["window_start"] = at,
              !.rows[i].expires = at + Window]

Counted(t, i) == [t EXCEPT !.rows[i].data["count"] = @ + 1]

\* Faulty: off by one.
RoomForOneMore(t, i) == t.rows[i].data["count"] <= Limit

\* Does row i of t allow another call in its window?
Room(t, i) == t.rows[i].data["count"] < Limit

\* The locked part.
Decide(c) ==
    LET q == asking[c]
        r == RowFor(PurgeSome(table, q.at), q.key)
        last == Len(windows[q.key])
    IN  /\ q # Idle
        /\ asking' = [asking EXCEPT ![c] = Idle]
        /\ \/ /\ r.at = 0
              /\ table' = r.t
              /\ UNCHANGED windows
           \/ /\ r.at # 0 /\ Over(r.t, r.at, q.at)
              /\ table' = Opened(r.t, r.at, q.at)
              /\ windows' = [windows EXCEPT ![q.key] =
                                Append(@, [start |-> q.at, allowed |-> 1,
                                           opened |-> now])]
           \/ /\ r.at # 0 /\ ~Over(r.t, r.at, q.at) /\ Room(r.t, r.at)
              /\ table' = Counted(r.t, r.at)
              /\ windows' = [windows EXCEPT ![q.key][last].allowed = @ + 1]
           \/ /\ r.at # 0 /\ ~Over(r.t, r.at, q.at) /\ ~Room(r.t, r.at)
              /\ table' = r.t
              /\ UNCHANGED windows
        /\ UNCHANGED now

Tick == now < MaxTime /\ now' = now + 1 /\ UNCHANGED <<table, asking, windows>>

Next ==
    \/ Tick
    \/ \E c \in Callers : Decide(c) \/ \E k \in Keys : Begin(c, k)

Spec == Init /\ [][Next]_vars

----------------------------------------------------------------------------
TypeOK ==
    /\ table \in Table
    /\ now \in Nat
    /\ asking \in [Callers -> Ask]
    /\ windows \in [Keys -> Seq([start : Nat, allowed : Nat, opened : Nat])]

\* No window allows more than Limit calls, whatever is purged meanwhile.
WindowBounded ==
    \A k \in Keys : \A i \in DOMAIN windows[k] : windows[k][i].allowed <= Limit

\* A window of a key is opened only when the last one is over by the wall
\* clock, however stale the times of the calls that compete are and whatever
\* row was purged meanwhile: the count never starts again inside a window.
NoEarlyWindow ==
    \A k \in Keys : \A i \in 2..Len(windows[k]) :
        windows[k][i].opened >= windows[k][i-1].start + Window

\* A row that refuses is gone, or over, once Window has passed since now: a
\* refused key comes back by itself.
RefusalEnds ==
    \A i \in Alive(table) :
        /\ table.rows[i].expires \in 1..(now + Window)
        /\ table.rows[i].expires = table.rows[i].data["window_start"] + Window
============================================================================
