--------------------------- MODULE SharedTableOps ---------------------------
(***************************************************************************)
(* The row store behind System.Threading.SharedTable, as operators from    *)
(* table to table.  Two implementations of it are built from the same      *)
(* sources: the C baseline (zanstubs.c) and the Zan runtime                *)
(* (runtime_core.zan).  Both keep a linked list of rows in which a removed *)
(* row stays as a tombstone to be reused; they differ in three places, and *)
(* Lane says which of them a table belongs to.                             *)
(*                                                                         *)
(* A list that grows at its head is written here as a sequence that grows  *)
(* at its end: the first row of the list is the one with the last index.   *)
(* A key is its own hash: the collisions of the hash are not modelled.     *)
(***************************************************************************)
EXTENDS Integers, Sequences, FiniteSets

CONSTANTS Keys,     \* the keys rows are looked up by
          Cap,      \* capacity a table is created with
          Lane,     \* "C" or "Zan"
          Batch     \* most rows one bounded purge of the Zan runtime removes

ASSUME CapNat == Cap \in Nat \ {0}
ASSUME LaneType == Lane \in {"C", "Zan"}
ASSUME BatchNat == Batch \in Nat \ {0}

\* The integer columns the stdlib gives its tables; count also stands for the
\* value column of a table that is only written and read.
Columns == {"count", "window_start", "owner"}
Data == [Columns -> Int]
Zeroes == [c \in Columns |-> 0]

Row == [key : Keys, hash : Keys, alive : BOOLEAN, expires : Nat, data : Data]
Table == [rows : Seq(Row), count : Nat]

Empty == [rows |-> <<>>, count |-> 0]

Alive(t) == {i \in DOMAIN t.rows : t.rows[i].alive}
Dead(t)  == DOMAIN t.rows \ Alive(t)

\* The first of the rows S in list order, 0 when there is none.
FirstOf(S) == IF S = {} THEN 0 ELSE CHOOSE i \in S : \A j \in S : j <= i

FindRow(t, k)     == FirstOf({i \in Alive(t) : t.rows[i].key = k})
FindRowHash(t, h) == FirstOf({i \in Alive(t) : t.rows[i].hash = h})

----------------------------------------------------------------------------
\* The rows S become tombstones.
Kill(t, S) ==
    [rows  |-> [i \in DOMAIN t.rows |->
                   [t.rows[i] EXCEPT !.alive = @ /\ i \notin S]],
     count |-> t.count - Cardinality(S)]

\* Faulty: the test for a permanent row is lost.
ExpiredZero(t, at) == {i \in Alive(t) : t.rows[i].expires <= at}

ExpiredAt(t, at) ==
    {i \in Alive(t) : t.rows[i].expires # 0 /\ t.rows[i].expires <= at}

Purge(t, at) == Kill(t, ExpiredAt(t, at))

\* The first Batch expired rows in list order.
PurgeBatch(t, at) ==
    Kill(t, {i \in ExpiredAt(t, at) :
                Cardinality({j \in ExpiredAt(t, at) : j > i}) < Batch})

\* The purge inside the lock of delete, expire_at, rate_allow, lock_release.
PurgeSome(t, at) == IF Lane = "C" THEN Purge(t, at) ELSE PurgeBatch(t, at)

\* The purge inside the lock of the reads and writes.  The Zan runtime purges
\* before it takes the lock, see PurgeThrottled.
PurgeFirst(t, at) == IF Lane = "C" THEN Purge(t, at) ELSE t

----------------------------------------------------------------------------
\* Seven eighths of the capacity, rounded up.
MaxRows == Cap - Cap \div 8

\* Faulty: one row more than the load factor allows.
FullLate(t) == t.count > MaxRows

\* The load factor above which no row is made.
Full(t) == IF Lane = "C" THEN t.count * 8 >= Cap * 7
                         ELSE t.count >= MaxRows

Fresh(label, k) ==
    [key |-> label, hash |-> k, alive |-> TRUE, expires |-> 0, data |-> Zeroes]

Clean(t, i, k) == [t.rows EXCEPT ![i] = Fresh(k, k)]
Stale(t, i, k) == [t.rows EXCEPT ![i] = Fresh(@.key, k)]

\* Faulty: the Zan runtime before it rewrote the key of a reused row.
ReusedX(t, i, k) == Stale(t, i, k)

\* A tombstone taken for key k.  The C baseline leaves the dead row's key in it.
Reused(t, i, k) == IF Lane = "C" THEN Stale(t, i, k) ELSE Clean(t, i, k)

\* The row of key k, made when there is none: [t, at], at = 0 when refused.
RowFor(t, k) ==
    LET found == FindRow(t, k)
        dead  == FirstOf(Dead(t))
        made(rows, i) == [t |-> [rows |-> rows, count |-> t.count + 1], at |-> i]
    IN  IF found # 0 THEN [t |-> t, at |-> found]
        ELSE IF Full(t) THEN [t |-> t, at |-> 0]
        ELSE IF dead # 0 THEN made(Reused(t, dead, k), dead)
        ELSE made(Append(t.rows, Fresh(k, k)), Len(t.rows) + 1)

\* The same by hash: the row made is labelled with the hash in decimal.
RowForHash(t, h) ==
    LET found == FindRowHash(t, h)
        r     == RowFor(t, h)
    IN  IF found # 0 THEN [t |-> t, at |-> found]
        ELSE IF r.at = 0 THEN r
        ELSE [r EXCEPT !.t.rows[r.at].hash = h]

\* A value stored in a column of a row that RowFor returned, if it did.
Store(r, column, v) ==
    IF r.at = 0 THEN r.t ELSE [r.t EXCEPT !.rows[r.at].data[column] = v]

SetExpiry(t, i, at) ==
    IF i = 0 THEN t ELSE [t EXCEPT !.rows[i].expires = at]

Remove(t, i) == IF i = 0 THEN t ELSE Kill(t, {i})

\* Faulty: the count survives.
ClearRowsOnly(t) ==
    [t EXCEPT !.rows = [i \in DOMAIN @ |-> [@[i] EXCEPT !.alive = FALSE]]]

Clear(t) ==
    [rows  |-> [i \in DOMAIN t.rows |-> [t.rows[i] EXCEPT !.alive = FALSE]],
     count |-> 0]
============================================================================
