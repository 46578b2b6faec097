-------------------------- MODULE RateLimit_proofs --------------------------
(***************************************************************************)
(* The limiter keeps its promise for any callers, keys, limit, window,     *)
(* capacity and batch, on the Zan runtime's row store.                     *)
(*                                                                         *)
(* The row of a key is the memory of its window, and the purges of calls   *)
(* for other keys may take it away.  So the invariant says what the row    *)
(* knows while there is one (the start, the count and the end of the last  *)
(* window opened) and what is true of the wall clock when there is none    *)
(* (that window is over).  The times calls work with are stale: all that   *)
(* is known of one is that it has come.                                    *)
(***************************************************************************)
EXTENDS RateLimit, SharedTableOps_proofs

Typed == TypeOK /\ Good(table)

\* A call works with a time that has come.
Timely == \A c \in Callers : asking[c] # Idle => asking[c].at \in 1..now

\* Row x stands for window w.
Records(x, w) ==
    /\ x.data["window_start"] = w.start /\ w.start \in 1..now
    /\ x.data["count"] = w.allowed
    /\ x.expires = w.start + Window

\* The row of a key records its last window, and without a row that is over.
RememberedOf(k) ==
    LET n == Len(windows[k])
    IN  /\ \A x \in Live(table) :
               x.key = k => n > 0 /\ Records(x, windows[k][n])
        /\ \/ \E x \in Live(table) : x.key = k
           \/ n = 0
           \/ windows[k][n].start + Window <= now

Remembered == \A k \in Keys : RememberedOf(k)

IInv ==
    /\ Typed /\ now >= 1 /\ Timely
    /\ Remembered /\ WindowBounded /\ NoEarlyWindow

----------------------------------------------------------------------------
\* What is known of a caller that has read its clock.
LEMMA Asked ==
    ASSUME TypeOK, Timely, NEW c \in Callers, asking[c] # Idle
    PROVE  /\ asking[c].key \in Keys /\ asking[c].at \in Nat
           /\ asking[c].at >= 1 /\ asking[c].at <= now /\ now \in Nat
           /\ asking[c].at + Window \in Nat
<1>1. asking[c] \in [key : Keys, at : Nat] /\ now \in Nat
  BY DEF TypeOK, Ask
<1>2. QED  BY <1>1, LimitPositive DEF Timely

\* Row x with other columns and another expiry.
Rewritten(x, count, start, expires) ==
    [x EXCEPT !.data["count"] = count, !.data["window_start"] = start,
              !.expires = expires]

\* A row rewritten by rate_allow keeps its key, its hash and its life.
LEMMA RewrittenSays ==
    ASSUME NEW x \in Row, NEW count \in Int, NEW start \in Int,
           NEW expires \in Nat
    PROVE  LET y == Rewritten(x, count, start, expires)
           IN  /\ y \in Row /\ y.key = x.key /\ y.hash = x.hash
               /\ y.alive = x.alive /\ y.expires = expires
               /\ y.data["count"] = count /\ y.data["window_start"] = start
<1>1. "count" \in Columns /\ "window_start" \in Columns
  BY DEF Columns
<1>2. PICK d : d = [x.data EXCEPT !["count"] = count, !["window_start"] = start]
  OBVIOUS
<1>3. d \in Data /\ d["count"] = count /\ d["window_start"] = start
  BY <1>1, <1>2 DEF Row, Data
<1>4. Rewritten(x, count, start, expires) = [x EXCEPT !.data = d, !.expires = expires]
  BY <1>2 DEF Rewritten, Row
<1>5. QED  BY <1>3, <1>4 DEF Row

\* Opening a window, and counting a call in it, rewrite the key's row.
LEMMA OpenedRow ==
    ASSUME NEW t, Good(t), Lane = "Zan", NEW i \in Alive(t),
           NEW at \in Nat, at + Window \in Nat
    PROVE  LET y == Rewritten(t.rows[i], 1, at, at + Window)
           IN  /\ Good(Opened(t, i, at))
               /\ Live(Opened(t, i, at)) = (Live(t) \ {t.rows[i]}) \cup {y}
<1>1. PICK x, y : x = t.rows[i] /\ y = Rewritten(x, 1, at, at + Window)
  OBVIOUS
<1>2. i \in DOMAIN t.rows /\ x \in Row /\ x.alive /\ t \in Table
  BY <1>1, AliveRow
<1>3. y \in Row /\ y.key = x.key /\ y.hash = x.hash /\ y.alive
  BY <1>1, <1>2, RewrittenSays
<1>4. Opened(t, i, at) = [t EXCEPT !.rows[i] = y]
  <2>1. PICK rows, n : t = [rows |-> rows, count |-> n] /\ rows = t.rows
    BY <1>2 DEF Table
  <2>2. Opened(t, i, at) = [rows |-> [rows EXCEPT ![i] = y], count |-> n]
    <3>1. PICK y1, y2 : /\ y1 = [x EXCEPT !.data["count"] = 1]
                        /\ y2 = [y1 EXCEPT !.data["window_start"] = at]
      OBVIOUS
    <3>2. y = [y2 EXCEPT !.expires = at + Window]
      BY <1>1, <3>1 DEF Rewritten
    <3>3. PICK s1, s2, s3 : /\ s1 = [rows EXCEPT ![i] = y1]
                            /\ s2 = [s1 EXCEPT ![i] = y2]
                            /\ s3 = [s2 EXCEPT ![i] = y]
      OBVIOUS
    <3>4. s1[i] = y1 /\ s2[i] = y2
      BY <1>2, <2>1, <3>3
    <3>5. /\ [rows EXCEPT ![i].data["count"] = 1] = s1
          /\ [s1 EXCEPT ![i].data["window_start"] = at] = s2
          /\ [s2 EXCEPT ![i].expires = at + Window] = s3
      <4>1. t.rows[i] = x /\ rows[i] = x
        BY <1>1, <2>1
      <4>2. [rows EXCEPT ![i].data["count"] = 1] = s1
        BY <3>1, <3>3, <4>1
      <4>3. [s1 EXCEPT ![i].data["window_start"] = at] = s2
        BY <3>1, <3>3, <3>4
      <4>4. [s2 EXCEPT ![i].expires = at + Window] = s3
        BY <3>2, <3>3, <3>4
      <4>5. QED  BY <4>2, <4>3, <4>4
    <3>6. s3 = [rows EXCEPT ![i] = y]
      BY <3>3
    <3>7. [t EXCEPT !.rows[i].data["count"] = 1] = [rows |-> s1, count |-> n]
      BY <2>1, <3>5
    <3>8. [[rows |-> s1, count |-> n] EXCEPT !.rows[i].data["window_start"] = at]
             = [rows |-> s2, count |-> n]
      BY <3>5
    <3>9. [[rows |-> s2, count |-> n] EXCEPT !.rows[i].expires = at + Window]
             = [rows |-> s3, count |-> n]
      BY <3>5
    <3>10. Opened(t, i, at) = [rows |-> s3, count |-> n]
      BY <3>7, <3>8, <3>9 DEF Opened
    <3>11. QED  BY <3>6, <3>10
  <2>3. [t EXCEPT !.rows[i] = y] = [rows |-> [rows EXCEPT ![i] = y], count |-> n]
    BY <2>1
  <2>4. QED  BY <2>2, <2>3
<1>5. /\ Good([t EXCEPT !.rows[i] = y])
      /\ Live([t EXCEPT !.rows[i] = y]) = (Live(t) \ {t.rows[i]}) \cup {y}
  <2>1. y \in Row /\ y.alive /\ y.key = t.rows[i].key /\ y.hash = t.rows[i].hash
    BY <1>1, <1>3
  <2>2. QED  BY <2>1, LiveTouch
<1>6. QED  BY <1>1, <1>4, <1>5

\* Counting a request replaces one live row.
LEMMA CountedRow ==
    ASSUME NEW t, Good(t), Lane = "Zan", NEW i \in Alive(t)
    PROVE  LET x == t.rows[i]
               y == Rewritten(x, x.data["count"] + 1, x.data["window_start"], x.expires)
           IN  /\ Good(Counted(t, i))
               /\ Live(Counted(t, i)) = (Live(t) \ {x}) \cup {y}
<1>1. PICK x, y : /\ x = t.rows[i]
                  /\ y = Rewritten(x, x.data["count"] + 1, x.data["window_start"],
                                   x.expires)
  OBVIOUS
<1>2. i \in DOMAIN t.rows /\ x \in Row /\ x.alive /\ t \in Table
  BY <1>1, AliveRow
<1>3. /\ x.data["count"] + 1 \in Int /\ x.data["window_start"] \in Int
      /\ x.expires \in Nat
  BY <1>2 DEF Row, Data, Columns
<1>4. y \in Row /\ y.key = x.key /\ y.hash = x.hash /\ y.alive
  BY <1>1, <1>2, <1>3, RewrittenSays
<1>5. Counted(t, i) = [t EXCEPT !.rows[i] = y]
  <2>1. y = [x EXCEPT !.data["count"] = @ + 1]
    <3>1. PICK d, e : /\ d = [x.data EXCEPT !["count"] = @ + 1]
                      /\ e = [x.data EXCEPT !["count"] = @ + 1,
                                            !["window_start"] = x.data["window_start"]]
      OBVIOUS
    <3>2. d = e
      BY <1>2, <3>1 DEF Row, Data, Columns
    <3>3. y = [x EXCEPT !.data = e]
      BY <1>1, <1>2, <3>1 DEF Rewritten, Row
    <3>4. QED  BY <3>1, <3>2, <3>3
  <2>2. PICK rows, n : t = [rows |-> rows, count |-> n] /\ rows = t.rows
    BY <1>2 DEF Table
  <2>3. Counted(t, i) = [rows |-> [rows EXCEPT ![i] = y], count |-> n]
    BY <1>1, <1>2, <2>1, <2>2 DEF Counted
  <2>4. [t EXCEPT !.rows[i] = y] = [rows |-> [rows EXCEPT ![i] = y], count |-> n]
    BY <2>2
  <2>5. QED  BY <2>3, <2>4
<1>6. /\ Good([t EXCEPT !.rows[i] = y])
      /\ Live([t EXCEPT !.rows[i] = y]) = (Live(t) \ {t.rows[i]}) \cup {y}
  <2>1. y \in Row /\ y.alive /\ y.key = t.rows[i].key /\ y.hash = t.rows[i].hash
    BY <1>1, <1>4
  <2>2. QED  BY <2>1, LiveTouch
<1>7. QED  BY <1>1, <1>5, <1>6

----------------------------------------------------------------------------
\* The live rows S with y in the place of the one of its key.
Becomes(S, y) == {x \in S : x.key # y.key} \cup {y}

\* What a call did in terms of live rows: S are those its purge left.
Refused(S) == Live(table') = S /\ UNCHANGED windows

Opens(S, q, y) ==
    /\ \A x \in S : x.key = q.key => \/ x.data["window_start"] <= 0
                                    \/ q.at - x.data["window_start"] >= Window
    /\ y.key = q.key /\ y.data["count"] = 1 /\ y.data["window_start"] = q.at
    /\ y.expires = q.at + Window
    /\ Live(table') = Becomes(S, y)
    /\ windows' = [windows EXCEPT ![q.key] =
                      Append(@, [start |-> q.at, allowed |-> 1, opened |-> now])]

Counts(S, q, x, y) ==
    /\ x \in S /\ x.key = q.key /\ x.data["count"] < Limit
    /\ y.key = q.key /\ y.data["count"] = x.data["count"] + 1
    /\ y.data["window_start"] = x.data["window_start"] /\ y.expires = x.expires
    /\ Live(table') = Becomes(S, y)
    /\ windows' = [windows EXCEPT ![q.key][Len(windows[q.key])].allowed = @ + 1]

\* rate_allow purges some rows that are due at the time it was given, and
\* then refuses, opens a window in a row with none in force, or counts.
LEMMA DecideRows ==
    ASSUME Typed, Timely, Lane = "Zan", NEW c \in Callers, Decide(c)
    PROVE  /\ Good(table')
           /\ \E S \in SUBSET Live(table) :
                  /\ \A x \in Live(table) \ S : x.expires <= asking[c].at
                  /\ \/ Refused(S)
                     \/ \E y : Opens(S, asking[c], y)
                     \/ \E x, y : Counts(S, asking[c], x, y)
<1>1. PICK q, t, r : /\ q = asking[c] /\ t = PurgeSome(table, q.at)
                     /\ r = RowFor(t, q.key)
  OBVIOUS
<1>2. q # Idle
  BY <1>1 DEF Decide
<1>3. q.key \in Keys /\ q.at \in Nat /\ q.at >= 1 /\ q.at + Window \in Nat
  BY <1>1, <1>2, Asked DEF Typed
<1>4. /\ Good(t) /\ Live(t) \subseteq Live(table)
      /\ \A x \in Live(table) \ Live(t) : x.expires <= q.at
  BY <1>1, LivePurge DEF Typed
<1>5. Good(r.t) /\ (r.at # 0 => r.at \in Alive(r.t))
  BY <1>1, <1>3, <1>4, LiveRowFor
<1> DEFINE Goal == /\ Good(table')
                   /\ \/ Refused(Live(t))
                      \/ \E y : Opens(Live(t), q, y)
                      \/ \E x, y : Counts(Live(t), q, x, y)
<1>6. ASSUME r.at = 0 PROVE Goal
  <2>1. table' = r.t /\ UNCHANGED windows
    BY <1>1, <1>6 DEF Decide
  <2>2. FindRow(t, q.key) = 0 /\ Full(t)
    BY <1>1, <1>3, <1>4, <1>6, LiveRowFor, Looked, AliveRow
  <2>3. r.t = t
    BY <1>1, <1>3, <1>4, <2>2, LiveRowFor
  <2>4. QED  BY <1>4, <2>1, <2>3 DEF Refused
<1>7. ASSUME r.at # 0 PROVE Goal
  <2>1. PICK x : x = r.t.rows[r.at]
    OBVIOUS
  <2>2. /\ r.at \in Alive(r.t) /\ x \in Row /\ x \in Live(r.t)
        /\ x.data["count"] \in Int /\ x.data["window_start"] \in Int
        /\ x.expires \in Nat
    BY <1>5, <1>7, <2>1, AliveRow DEF Live, Row, Data, Columns
  \* The row is the key's: found, or new and never opened.
  <2>3. \/ Live(r.t) = Live(t)
        \/ /\ x.data["window_start"] = 0
           /\ Live(r.t) = Live(t) \cup {x}
           /\ \A z \in Live(t) : z.key # q.key
    <3>1. CASE FindRow(t, q.key) # 0
      BY <1>1, <1>3, <1>4, <3>1, LiveRowFor
    <3>2. CASE FindRow(t, q.key) = 0
      <4>1. ~Full(t)
        BY <1>1, <1>3, <1>4, <1>7, <3>2, LiveRowFor
      <4>2. x = Fresh(q.key, q.key) /\ Live(r.t) = Live(t) \cup {Fresh(q.key, q.key)}
        BY <1>1, <1>3, <1>4, <2>1, <3>2, <4>1, LiveRowFor
      <4>3. \A z \in Live(t) : z.key # q.key
        BY <1>4, <3>2, Looked
      <4>4. Fresh(q.key, q.key).data["window_start"] = 0
        BY DEF Fresh, Zeroes, Columns
      <4>5. QED  BY <4>2, <4>3, <4>4
    <3>3. QED  BY <3>1, <3>2
  <2>4. x.key = q.key
    BY <1>1, <1>3, <1>4, <1>7, <2>1, RowForKeeps DEF Serves
  <2>5. \A z, w \in Live(r.t) : z.key = w.key => z = w
    BY <1>5, LiveRows
  <2>6. ASSUME NEW y, y.key = x.key
        PROVE  (Live(r.t) \ {x}) \cup {y} = Becomes(Live(t), y)
    BY <2>2, <2>3, <2>4, <2>5, <2>6 DEF Becomes
  <2>7. CASE Over(r.t, r.at, q.at)
    <3>1. PICK y : y = Rewritten(x, 1, q.at, q.at + Window)
      OBVIOUS
    <3>2. table' = Opened(r.t, r.at, q.at)
      BY <1>1, <1>7, <2>7 DEF Decide
    <3>3. Good(table') /\ Live(table') = (Live(r.t) \ {x}) \cup {y}
      BY <1>3, <1>5, <2>1, <2>2, <3>1, <3>2, OpenedRow
    <3>4. /\ y.key = x.key /\ y.expires = q.at + Window
          /\ y.data["count"] = 1 /\ y.data["window_start"] = q.at
      <4>1. PICK n \in Int, s \in Int, e \in Nat : n = 1 /\ s = q.at /\ e = q.at + Window
        BY <1>3
      <4>2. x \in Row /\ y = Rewritten(x, n, s, e)
        BY <2>2, <3>1, <4>1
      <4>3. /\ y.key = x.key /\ y.expires = e
            /\ y.data["count"] = n /\ y.data["window_start"] = s
        BY <4>2, RewrittenSays
      <4>4. QED  BY <4>1, <4>3
    <3>5. Live(table') = Becomes(Live(t), y)
      BY <2>6, <3>3, <3>4
    <3>6. \/ x.data["window_start"] <= 0
          \/ q.at - x.data["window_start"] >= Window
      BY <2>1, <2>7 DEF Over
    <3>7. \A z \in Live(t) : z.key = q.key => z = x
      BY <2>2, <2>3, <2>4, <2>5
    <3>8. windows' = [windows EXCEPT ![q.key] =
                         Append(@, [start |-> q.at, allowed |-> 1, opened |-> now])]
      BY <1>1, <1>7, <2>7 DEF Decide
    <3>9. Opens(Live(t), q, y)
      BY <2>4, <3>4, <3>5, <3>6, <3>7, <3>8 DEF Opens
    <3>10. QED  BY <3>3, <3>9
  <2>8. CASE ~Over(r.t, r.at, q.at) /\ Room(r.t, r.at)
    <3>1. PICK y : y = Rewritten(x, x.data["count"] + 1, x.data["window_start"],
                                 x.expires)
      OBVIOUS
    <3>2. table' = Counted(r.t, r.at)
      BY <1>1, <1>7, <2>8 DEF Decide
    <3>3. Good(table') /\ Live(table') = (Live(r.t) \ {x}) \cup {y}
      BY <1>5, <2>1, <2>2, <3>1, <3>2, CountedRow
    <3>4. /\ y.key = x.key /\ y.expires = x.expires
          /\ y.data["count"] = x.data["count"] + 1
          /\ y.data["window_start"] = x.data["window_start"]
      <4>1. PICK n \in Int, s \in Int, e \in Nat :
               n = x.data["count"] + 1 /\ s = x.data["window_start"] /\ e = x.expires
        BY <2>2
      <4>2. x \in Row /\ y = Rewritten(x, n, s, e)
        BY <2>2, <3>1, <4>1
      <4>3. /\ y.key = x.key /\ y.expires = e
            /\ y.data["count"] = n /\ y.data["window_start"] = s
        BY <4>2, RewrittenSays
      <4>4. QED  BY <4>1, <4>3
    <3>5. Live(table') = Becomes(Live(t), y)
      BY <2>6, <3>3, <3>4
    <3>6. x \in Live(t)
      BY <2>1, <2>2, <2>3, <2>8 DEF Over
    <3>7. x.data["count"] < Limit
      BY <2>1, <2>8 DEF Room
    <3>8. windows' = [windows EXCEPT ![q.key][Len(windows[q.key])].allowed = @ + 1]
      BY <1>1, <1>7, <2>8 DEF Decide
    <3>9. Counts(Live(t), q, x, y)
      BY <2>4, <3>4, <3>5, <3>6, <3>7, <3>8 DEF Counts
    <3>10. QED  BY <3>3, <3>9
  <2>9. CASE ~Over(r.t, r.at, q.at) /\ ~Room(r.t, r.at)
    <3>1. table' = r.t /\ UNCHANGED windows
      BY <1>1, <1>7, <2>9 DEF Decide
    <3>2. Live(r.t) = Live(t)
      BY <2>1, <2>3, <2>9 DEF Over
    <3>3. QED  BY <1>5, <3>1, <3>2 DEF Refused
  <2>10. QED  BY <2>7, <2>8, <2>9
<1>8. Goal
  BY <1>6, <1>7
<1>9. QED  BY <1>1, <1>4, <1>8

----------------------------------------------------------------------------
\* The invariant holds of the empty table.
LEMMA InitIInv == Init => IInv
<1> SUFFICES ASSUME Init PROVE IInv
  OBVIOUS
<1>1. Good(table) /\ Live(table) = {}
  BY EmptyGood DEF Init
<1>2. /\ \A k \in Keys : windows[k] = <<>> /\ Len(windows[k]) = 0
      /\ windows \in [Keys -> Seq([start : Nat, allowed : Nat, opened : Nat])]
  BY EmptySeq DEF Init
<1>3. TypeOK
  BY <1>1, <1>2 DEF Init, TypeOK, Ask, Good
<1>4. Timely
  BY DEF Init, Timely
<1>5. Remembered
  BY <1>1, <1>2 DEF Remembered, RememberedOf
<1>6. WindowBounded /\ NoEarlyWindow
  BY <1>2, EmptySeq DEF WindowBounded, NoEarlyWindow
<1>7. now >= 1
  BY DEF Init
<1>8. QED  BY <1>1, <1>3, <1>4, <1>5, <1>6, <1>7 DEF IInv, Typed

WindowType == [start : Nat, allowed : Nat, opened : Nat]

\* The types of the history, spelled out.
LEMMA WindowsOf ==
    ASSUME TypeOK, NEW k \in Keys
    PROVE  /\ windows[k] \in Seq(WindowType) /\ Len(windows[k]) \in Nat
           /\ DOMAIN windows[k] = 1..Len(windows[k])
           /\ \A i \in 1..Len(windows[k]) :
                  /\ windows[k][i] \in WindowType /\ windows[k][i].start \in Nat
                  /\ windows[k][i].allowed \in Nat /\ windows[k][i].opened \in Nat
<1>1. windows[k] \in Seq(WindowType)
  BY DEF TypeOK, WindowType
<1>2. Len(windows[k]) \in Nat /\ DOMAIN windows[k] = 1..Len(windows[k])
  BY <1>1, LenProperties
<1>3. \A i \in 1..Len(windows[k]) : windows[k][i] \in WindowType
  BY <1>1, ElementOfSeq
<1>4. QED  BY <1>1, <1>2, <1>3 DEF WindowType

\* Of a key whose windows stay as they are, rows may only run out.
LEMMA StaysRemembered ==
    ASSUME IInv, now' \in Nat, now' >= now, NEW k \in Keys, windows'[k] = windows[k],
           NEW S \in SUBSET Live(table),
           \A x \in Live(table) \ S : x.expires <= now,
           \A x : x \in Live(table') /\ x.key = k <=> x \in S /\ x.key = k
    PROVE  RememberedOf(k)'
<1>1. RememberedOf(k) /\ now \in Nat
  BY DEF IInv, Remembered, Typed, TypeOK
<1>2. PICK n, w : n = Len(windows[k]) /\ w = windows[k][n]
  OBVIOUS
<1>3. n = 0 \/ w.start \in Nat
  <2>1. n \in Nat /\ (n # 0 => n \in 1..n)
    BY <1>2, WindowsOf DEF IInv, Typed
  <2>2. QED  BY <1>2, <2>1, WindowsOf DEF IInv, Typed
<1>4. ASSUME NEW x \in Live(table'), x.key = k PROVE n > 0 /\ Records(x, w)'
  <2>1. x \in Live(table)
    BY <1>4
  <2>2. n > 0 /\ Records(x, w)
    BY <1>1, <1>2, <1>4, <2>1 DEF RememberedOf
  <2>3. QED  BY <1>1, <2>2 DEF Records
<1>5. ASSUME \A x \in Live(table') : x.key # k, n # 0 PROVE w.start + Window <= now'
  <2>1. CASE \E x \in Live(table) : x.key = k
    <3>1. PICK x \in Live(table) : x.key = k
      BY <2>1
    <3>2. x \in Live(table) \ S
      BY <1>5, <3>1
    <3>3. x.expires <= now /\ x.expires = w.start + Window
      BY <1>1, <1>2, <3>1, <3>2 DEF RememberedOf, Records
    <3>4. QED  BY <1>1, <1>3, <1>5, <3>3, LimitPositive
  <2>2. CASE ~\E x \in Live(table) : x.key = k
    <3>1. w.start + Window <= now
      BY <1>1, <1>2, <1>5, <2>2 DEF RememberedOf
    <3>2. QED  BY <1>1, <1>3, <1>5, <3>1, LimitPositive
  <2>3. QED  BY <2>1, <2>2
<1>6. /\ windows'[k] = windows[k] /\ Live(table)' = Live(table')
      /\ Len(windows'[k]) = n /\ windows'[k][n] = w
  BY <1>2 DEF Live, Alive
<1>7. QED  BY <1>4, <1>5, <1>6 DEF RememberedOf

\* When a window is opened, the last of the key is over by the wall clock.
LEMMA LastIsOver ==
    ASSUME IInv, NEW q, q.key \in Keys, q.at \in Nat, q.at <= now,
           NEW S \in SUBSET Live(table), NEW y, Opens(S, q, y),
           \A x \in Live(table) \ S : x.expires <= q.at
    PROVE  \/ Len(windows[q.key]) = 0
           \/ windows[q.key][Len(windows[q.key])].start + Window <= now
<1>1. PICK k, n, w : k = q.key /\ n = Len(windows[k]) /\ w = windows[k][n]
  OBVIOUS
<1>2. RememberedOf(k) /\ now \in Nat
  BY <1>1 DEF IInv, Remembered, Typed, TypeOK
<1>3. CASE \E x \in Live(table) : x.key = k
  <2>1. PICK x \in Live(table) : x.key = k
    BY <1>3
  <2>2. /\ x.data["window_start"] = w.start /\ w.start \in 1..now
        /\ x.expires = w.start + Window
    BY <1>1, <1>2, <2>1 DEF RememberedOf, Records
  <2>3. CASE x \in S
    <3>1. q.at - w.start >= Window
      BY <1>1, <2>1, <2>2, <2>3 DEF Opens
    <3>2. QED  BY <1>1, <1>2, <2>2, <3>1, LimitPositive
  <2>4. CASE x \notin S
    BY <1>1, <1>2, <2>1, <2>2, <2>4, LimitPositive
  <2>5. QED  BY <2>3, <2>4
<1>4. CASE ~\E x \in Live(table) : x.key = k
  BY <1>1, <1>2, <1>4 DEF RememberedOf
<1>5. QED  BY <1>3, <1>4

\* A window opened: it is the last, and the one before it is over.
LEMMA OpensKeeps ==
    ASSUME IInv, now' = now, NEW q, q.key \in Keys, q.at \in Nat,
           q.at >= 1, q.at <= now,
           NEW S \in SUBSET Live(table), NEW y, Opens(S, q, y),
           \A x \in Live(table) \ S : x.expires <= q.at
    PROVE  /\ windows' \in [Keys -> Seq(WindowType)]
           /\ RememberedOf(q.key)' /\ WindowBounded' /\ NoEarlyWindow'
<1>1. PICK k, s, w : k = q.key /\ s = windows[k]
                     /\ w = [start |-> q.at, allowed |-> 1, opened |-> now]
  OBVIOUS
<1>2. PICK n : n = Len(s)
  OBVIOUS
<1>3. now \in Nat /\ windows \in [Keys -> Seq(WindowType)]
  BY DEF IInv, Typed, TypeOK, WindowType
<1>4. /\ s \in Seq(WindowType) /\ n \in Nat
      /\ \A i \in 1..n : s[i].start \in Nat
  BY <1>1, <1>2, WindowsOf DEF IInv, Typed
<1>5. w \in WindowType
  BY <1>1, <1>3 DEF WindowType
<1>6. /\ Append(s, w) \in Seq(WindowType) /\ Len(Append(s, w)) = n + 1
      /\ \A i \in 1..n : Append(s, w)[i] = s[i]
      /\ Append(s, w)[n + 1] = w
  BY <1>2, <1>4, <1>5, AppendProperties
<1>7. DOMAIN Append(s, w) = 1..(n + 1) /\ DOMAIN s = 1..n
  BY <1>2, <1>4, <1>6, LenProperties
<1>8. windows' = [windows EXCEPT ![k] = Append(s, w)]
  BY <1>1 DEF Opens
<1>9. windows'[k] = Append(s, w) /\ \A j \in Keys \ {k} : windows'[j] = windows[j]
  BY <1>1, <1>3, <1>8
<1>10. windows' \in [Keys -> Seq(WindowType)]
  BY <1>3, <1>6, <1>8
<1>11. RememberedOf(k)'
  <2>1. \A x \in Live(table') : x.key = k => x = y
    BY <1>1 DEF Opens, Becomes
  <2>2. y \in Live(table') /\ y.key = k
    BY <1>1 DEF Opens, Becomes
  <2>3. Records(y, w)'
    BY <1>1, <1>3 DEF Opens, Records
  <2>4. Len(windows'[k]) = n + 1 /\ windows'[k][n + 1] = w /\ n + 1 > 0
    BY <1>4, <1>6, <1>9
  <2>5. Live(table)' = Live(table')
    BY DEF Live, Alive
  <2>6. QED  BY <2>1, <2>2, <2>3, <2>4, <2>5 DEF RememberedOf
<1>12. WindowBounded'
  <2> SUFFICES ASSUME NEW j \in Keys, NEW i \in DOMAIN windows'[j]
               PROVE  windows'[j][i].allowed <= Limit
    BY DEF WindowBounded
  <2>1. CASE j = k /\ i = n + 1
    BY <1>1, <1>6, <1>9, <2>1, LimitPositive
  <2>2. CASE ~(j = k /\ i = n + 1)
    <3>1. windows'[j][i] = windows[j][i] /\ i \in DOMAIN windows[j]
      BY <1>1, <1>4, <1>6, <1>7, <1>9, <2>2, SMTT(30)
    <3>2. QED  BY <3>1 DEF IInv, WindowBounded
  <2>3. QED  BY <2>1, <2>2
<1>13. NoEarlyWindow'
  <2> SUFFICES ASSUME NEW j \in Keys, NEW i \in 2..Len(windows'[j])
               PROVE  windows'[j][i].opened >= windows'[j][i-1].start + Window
    BY DEF NoEarlyWindow
  <2>1. CASE j = k /\ i = n + 1
    <3>1. n # 0 /\ n \in 1..n /\ i - 1 = n
      BY <1>4, <2>1
    <3>2. s[n].start + Window <= now
      BY <1>1, <1>2, <3>1, LastIsOver
    <3>3. windows'[j][i].opened = now /\ windows'[j][i-1] = s[n]
      BY <1>1, <1>6, <1>9, <2>1, <3>1
    <3>4. QED  BY <1>3, <1>4, <3>1, <3>2, <3>3, LimitPositive
  <2>2. CASE j = k /\ i # n + 1
    <3>1. i \in 2..n /\ i \in 1..n /\ i - 1 \in 1..n
      BY <1>4, <1>6, <1>9, <2>2
    <3>2. windows'[j][i] = s[i] /\ windows'[j][i-1] = s[i-1]
      BY <1>6, <1>9, <2>2, <3>1
    <3>3. QED  BY <1>1, <1>2, <2>2, <3>1, <3>2 DEF IInv, NoEarlyWindow
  <2>3. CASE j # k
    BY <1>9, <2>3 DEF IInv, NoEarlyWindow
  <2>4. QED  BY <2>1, <2>2, <2>3
<1>14. QED  BY <1>1, <1>10, <1>11, <1>12, <1>13

\* A call counted: in the last window, which had room.
LEMMA CountsKeeps ==
    ASSUME IInv, now' = now, NEW q, q.key \in Keys,
           NEW S \in SUBSET Live(table), NEW x, NEW y, Counts(S, q, x, y)
    PROVE  /\ windows' \in [Keys -> Seq(WindowType)]
           /\ RememberedOf(q.key)' /\ WindowBounded' /\ NoEarlyWindow'
<1>1. PICK k, s, n : k = q.key /\ s = windows[k] /\ n = Len(s)
  OBVIOUS
<1>2. PICK w, v : w = s[n] /\ v = [w EXCEPT !.allowed = @ + 1]
  OBVIOUS
<1>3. now \in Nat /\ windows \in [Keys -> Seq(WindowType)]
  BY DEF IInv, Typed, TypeOK, WindowType
<1>4. /\ s \in Seq(WindowType) /\ n \in Nat /\ DOMAIN s = 1..n
      /\ \A i \in 1..n : s[i] \in WindowType
  BY <1>1, WindowsOf DEF IInv, Typed
<1>5. n > 0 /\ Records(x, w)
  BY <1>1, <1>2 DEF Counts, IInv, Remembered, RememberedOf
<1>6. n \in 1..n /\ w \in WindowType
  BY <1>2, <1>4, <1>5
<1>7. /\ v \in WindowType /\ v.start = w.start /\ v.opened = w.opened
      /\ v.allowed = w.allowed + 1
  BY <1>2, <1>6 DEF WindowType
<1>8. PICK u : u = [s EXCEPT ![n] = v]
  OBVIOUS
<1>9. /\ u \in Seq(WindowType) /\ Len(u) = n /\ DOMAIN u = 1..n
      /\ u[n] = v /\ \A i \in 1..n : i # n => u[i] = s[i]
  <2>1. u \in [1..n -> WindowType]
    BY <1>4, <1>6, <1>7, <1>8
  <2>2. u \in Seq(WindowType) /\ Len(u) = n
    BY <1>4, <2>1
  <2>3. QED  BY <1>4, <1>6, <1>8, <2>1, <2>2
<1>10. windows' = [windows EXCEPT ![k] = u]
  <2>1. [s EXCEPT ![n].allowed = @ + 1] = u
    BY <1>2, <1>8
  <2>2. windows' = [windows EXCEPT ![k] = [s EXCEPT ![n].allowed = @ + 1]]
    BY <1>1 DEF Counts
  <2>3. QED  BY <2>1, <2>2
<1>11. windows'[k] = u /\ \A j \in Keys \ {k} : windows'[j] = windows[j]
  BY <1>1, <1>3, <1>10
<1>12. windows' \in [Keys -> Seq(WindowType)]
  BY <1>3, <1>9, <1>10
<1>13. RememberedOf(k)'
  <2>1. \A z \in Live(table') : z.key = k => z = y
    BY <1>1 DEF Counts, Becomes
  <2>2. y \in Live(table') /\ y.key = k
    BY <1>1 DEF Counts, Becomes
  <2>3. Records(y, v)'
    BY <1>5, <1>7 DEF Counts, Records
  <2>4. Len(windows'[k]) = n /\ windows'[k][n] = v
    BY <1>9, <1>11
  <2>5. Live(table)' = Live(table')
    BY DEF Live, Alive
  <2>6. QED  BY <1>5, <2>1, <2>2, <2>3, <2>4, <2>5 DEF RememberedOf
<1>14. WindowBounded'
  <2> SUFFICES ASSUME NEW j \in Keys, NEW i \in DOMAIN windows'[j]
               PROVE  windows'[j][i].allowed <= Limit
    BY DEF WindowBounded
  <2>1. CASE j = k /\ i = n
    <3>1. w.allowed < Limit /\ w.allowed \in Nat
      BY <1>5, <1>6 DEF Counts, Records, WindowType
    <3>2. QED  BY <1>7, <1>9, <1>11, <2>1, <3>1, LimitPositive
  <2>2. CASE ~(j = k /\ i = n)
    <3>1. windows'[j][i] = windows[j][i] /\ i \in DOMAIN windows[j]
      BY <1>1, <1>4, <1>9, <1>11, <2>2
    <3>2. QED  BY <3>1 DEF IInv, WindowBounded
  <2>3. QED  BY <2>1, <2>2
<1>15. NoEarlyWindow'
  <2> SUFFICES ASSUME NEW j \in Keys, NEW i \in 2..Len(windows'[j])
               PROVE  windows'[j][i].opened >= windows'[j][i-1].start + Window
    BY DEF NoEarlyWindow
  <2>1. CASE j = k
    <3>1. i \in 2..n /\ i \in 1..n /\ i - 1 \in 1..n
      BY <1>4, <1>9, <1>11, <2>1
    <3>2. \A m \in 1..n : u[m].start = s[m].start /\ u[m].opened = s[m].opened
      BY <1>2, <1>7, <1>9
    <3>3. s[i].opened >= s[i-1].start + Window
      BY <1>1, <3>1 DEF IInv, NoEarlyWindow
    <3>4. QED  BY <1>11, <2>1, <3>1, <3>2, <3>3
  <2>2. CASE j # k
    BY <1>11, <2>2 DEF IInv, NoEarlyWindow
  <2>3. QED  BY <2>1, <2>2
<1>16. QED  BY <1>1, <1>12, <1>13, <1>14, <1>15

\* Every step keeps the invariant.
LEMMA NextKeeps ==
    ASSUME Lane = "Zan"
    PROVE  IInv /\ [Next]_vars => IInv'
<1> SUFFICES ASSUME IInv, [Next]_vars PROVE IInv'
  OBVIOUS
<1>1. /\ Typed /\ Timely /\ now \in Nat /\ asking \in [Callers -> Ask]
      /\ windows \in [Keys -> Seq(WindowType)]
  BY DEF IInv, Typed, TypeOK, WindowType
<1>2. ASSUME NEW c \in Callers, Decide(c) PROVE IInv'
  <2>1. PICK q : q = asking[c]
    OBVIOUS
  <2>2. q # Idle /\ asking' = [asking EXCEPT ![c] = Idle] /\ now' = now
    BY <1>2, <2>1 DEF Decide
  <2>3. q.key \in Keys /\ q.at \in Nat /\ q.at >= 1 /\ q.at <= now
    BY <1>1, <2>1, <2>2, Asked DEF Typed
  <2>4. asking' \in [Callers -> Ask] /\ Timely'
    BY <1>1, <2>2 DEF Ask, Timely
  <2>5. Good(table')
    BY <1>1, <1>2, DecideRows
  <2>6. PICK S \in SUBSET Live(table) :
           /\ \A x \in Live(table) \ S : x.expires <= q.at
           /\ \/ Refused(S)
              \/ \E y : Opens(S, q, y)
              \/ \E x, y : Counts(S, q, x, y)
    BY <1>1, <1>2, <2>1, DecideRows
  <2>7. \A x \in Live(table) \ S : x.expires <= now
    <3>1. \A x \in Live(table) : x.expires \in Nat
      BY <1>1, LiveRows DEF Typed, Row
    <3>2. QED  BY <1>1, <2>3, <2>6, <3>1
  <2>8. /\ windows' \in [Keys -> Seq(WindowType)]
        /\ Remembered' /\ WindowBounded' /\ NoEarlyWindow'
    <3>1. CASE Refused(S)
      <4>1. Live(table') = S /\ windows' = windows
        BY <3>1 DEF Refused
      <4>2. ASSUME NEW k \in Keys PROVE RememberedOf(k)'
        <5>1. /\ windows'[k] = windows[k] /\ now' \in Nat /\ now' >= now
              /\ \A x : x \in Live(table') /\ x.key = k <=> x \in S /\ x.key = k
          BY <1>1, <2>2, <4>1
        <5>2. QED  BY <2>7, <5>1, StaysRemembered
      <4>3. WindowBounded' /\ NoEarlyWindow'
        BY <4>1 DEF IInv, WindowBounded, NoEarlyWindow
      <4>4. QED  BY <1>1, <4>1, <4>2, <4>3 DEF Remembered
    <3>2. ASSUME NEW y, Becomes(S, y) = Live(table'), y.key = q.key,
                 \A k \in Keys \ {q.key} : windows'[k] = windows[k],
                 RememberedOf(q.key)'
          PROVE  Remembered'
      <4>1. ASSUME NEW k \in Keys \ {q.key} PROVE RememberedOf(k)'
        <5>1. \A x : x \in Live(table') /\ x.key = k <=> x \in S /\ x.key = k
          BY <3>2, <4>1 DEF Becomes
        <5>2. k \in Keys /\ windows'[k] = windows[k] /\ now' \in Nat /\ now' >= now
          BY <1>1, <2>2, <3>2, <4>1
        <5>3. QED  BY <2>7, <5>1, <5>2, StaysRemembered
      <4>2. QED  BY <3>2, <4>1 DEF Remembered
    <3>3. ASSUME NEW y, Opens(S, q, y)
          PROVE  /\ windows' \in [Keys -> Seq(WindowType)]
                 /\ Remembered' /\ WindowBounded' /\ NoEarlyWindow'
      <4>1. /\ windows' \in [Keys -> Seq(WindowType)]
            /\ RememberedOf(q.key)' /\ WindowBounded' /\ NoEarlyWindow'
        BY <2>2, <2>3, <2>6, <3>3, OpensKeeps
      <4>2. /\ Becomes(S, y) = Live(table') /\ y.key = q.key
            /\ \A k \in Keys \ {q.key} : windows'[k] = windows[k]
        BY <1>1, <3>3 DEF Opens
      <4>3. QED  BY <3>2, <4>1, <4>2
    <3>4. ASSUME NEW x, NEW y, Counts(S, q, x, y)
          PROVE  /\ windows' \in [Keys -> Seq(WindowType)]
                 /\ Remembered' /\ WindowBounded' /\ NoEarlyWindow'
      <4>1. /\ windows' \in [Keys -> Seq(WindowType)]
            /\ RememberedOf(q.key)' /\ WindowBounded' /\ NoEarlyWindow'
        BY <2>2, <2>3, <3>4, CountsKeeps
      <4>2. /\ Becomes(S, y) = Live(table') /\ y.key = q.key
            /\ \A k \in Keys \ {q.key} : windows'[k] = windows[k]
        BY <1>1, <3>4 DEF Counts
      <4>3. QED  BY <3>2, <4>1, <4>2
    <3>5. QED  BY <2>6, <3>1, <3>3, <3>4
  <2>9. TypeOK' /\ Good(table)'
    BY <1>1, <2>2, <2>4, <2>5, <2>8 DEF TypeOK, Good, WindowType, Alive, Labelled
  <2>10. now' >= 1
    BY <2>2 DEF IInv
  <2>11. QED  BY <2>4, <2>8, <2>9, <2>10 DEF IInv, Typed
<1>3. ASSUME UNCHANGED <<table, windows>>, now' \in Nat, now' >= now
      PROVE  Good(table)' /\ Remembered' /\ WindowBounded' /\ NoEarlyWindow'
  <2>1. Good(table)' /\ Live(table') = Live(table)
    BY <1>1, <1>3 DEF Typed
  <2>2. ASSUME NEW k \in Keys PROVE RememberedOf(k)'
    <3>1. windows'[k] = windows[k]
      BY <1>3
    <3>2. PICK S \in SUBSET Live(table) : S = Live(table)
      OBVIOUS
    <3>3. /\ \A x \in Live(table) \ S : x.expires <= now
          /\ \A x : x \in Live(table') /\ x.key = k <=> x \in S /\ x.key = k
      BY <2>1, <3>2
    <3>4. QED  BY <1>3, <3>1, <3>3, StaysRemembered
  <2>3. WindowBounded' /\ NoEarlyWindow'
    BY <1>3 DEF IInv, WindowBounded, NoEarlyWindow
  <2>4. QED  BY <2>1, <2>2, <2>3 DEF Remembered
<1>4. ASSUME NEW c \in Callers, NEW k \in Keys, Begin(c, k) PROVE IInv'
  <2>1. /\ asking' = [asking EXCEPT ![c] = [key |-> k, at |-> now]]
        /\ UNCHANGED <<table, now, windows>> /\ now' \in Nat /\ now' >= now
    BY <1>1, <1>4 DEF Begin
  <2>2. asking' \in [Callers -> Ask] /\ now >= 1
    BY <1>1, <2>1 DEF Ask, IInv
  <2>3. Timely'
    BY <1>1, <2>1, <2>2 DEF Timely
  <2>4. TypeOK'
    BY <1>1, <2>1, <2>2 DEF Typed, TypeOK
  <2>5. QED  BY <1>3, <2>1, <2>2, <2>3, <2>4 DEF IInv, Typed
<1>5. CASE Tick \/ UNCHANGED vars
  <2>1. /\ UNCHANGED <<table, asking, windows>>
        /\ now' >= now /\ now' \in Nat
    BY <1>1, <1>5 DEF Tick, vars
  <2>2. Timely'
    BY <1>1, <2>1 DEF Timely, IInv
  <2>3. TypeOK'
    BY <1>1, <2>1 DEF Typed, TypeOK
  <2>4. QED  BY <1>1, <1>3, <2>1, <2>2, <2>3 DEF IInv, Typed
<1>6. QED  BY <1>2, <1>4, <1>5 DEF Next

----------------------------------------------------------------------------
\* The inductive invariant, in the Zan lane.
LEMMA Always ==
    ASSUME Lane = "Zan"
    PROVE  Spec => []IInv
BY InitIInv, NextKeeps, PTL DEF Spec

\* The state keeps its type.
THEOREM TypeCorrect ==
    ASSUME Lane = "Zan"
    PROVE  Spec => []TypeOK
<1>1. IInv => TypeOK
  BY DEF IInv, Typed
<1>2. QED  BY <1>1, Always, PTL

\* No window allows more than Limit calls, whatever is purged meanwhile and
\* however stale the times of the calls are.
THEOREM WindowsAreBounded ==
    ASSUME Lane = "Zan"
    PROVE  Spec => []WindowBounded
<1>1. IInv => WindowBounded
  BY DEF IInv
<1>2. QED  BY <1>1, Always, PTL

\* The count never starts again inside a window: the row that remembers it is
\* purged, or found to be over, only when the wall clock has passed its end.
THEOREM WindowsDoNotOverlap ==
    ASSUME Lane = "Zan"
    PROVE  Spec => []NoEarlyWindow
<1>1. IInv => NoEarlyWindow
  BY DEF IInv
<1>2. QED  BY <1>1, Always, PTL

\* A row that refuses expires with its window, no later than Window from now.
THEOREM RefusalsEnd ==
    ASSUME Lane = "Zan"
    PROVE  Spec => []RefusalEnds
<1>1. IInv => RefusalEnds
  <2> SUFFICES ASSUME IInv, NEW i \in Alive(table), NEW x, x = table.rows[i]
               PROVE  /\ x.expires \in 1..(now + Window)
                      /\ x.expires = x.data["window_start"] + Window
    BY DEF RefusalEnds
  <2>1. x \in Live(table) /\ x.key \in Keys
    BY LiveRows, AliveRow DEF IInv, Typed, Row
  <2>2. PICK w : Records(x, w)
    BY <2>1 DEF IInv, Remembered, RememberedOf
  <2>3. QED  BY <2>2, LimitPositive DEF Records, IInv, Typed, TypeOK
<1>2. QED  BY <1>1, Always, PTL
============================================================================
