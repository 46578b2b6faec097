---------------------------- MODULE SharedTable ----------------------------
(***************************************************************************)
(* A SharedTable that threads read and write.  Every native call holds the *)
(* table's mutex from its purge to its last store, so each is one step;    *)
(* the one exception is the throttled purge of the Zan runtime, which      *)
(* takes and drops the lock before the call it belongs to takes it again.  *)
(* A row is addressed by its key or by its hash, never by both.            *)
(***************************************************************************)
EXTENDS SharedTableOps

CONSTANTS HashKeys, \* keys whose rows are addressed by hash (the _at family)
          Vals,     \* values written
          MaxVal,   \* increments stop here
          MaxTime   \* the clock stops here

ASSUME HashKeysType == HashKeys \subseteq Keys
ASSUME ValsNat == Vals \subseteq Nat
ASSUME TimeNat == MaxTime \in Nat

VARIABLES table,    \* what the mutex guards
          now       \* CLOCK_REALTIME in milliseconds

vars == <<table, now>>

Lookup(t, k) == IF k \in HashKeys THEN FindRowHash(t, k) ELSE FindRow(t, k)
Value(t, i) == t.rows[i].data["count"]

----------------------------------------------------------------------------
Init == table = Empty /\ now = 1

\* set_int, set_float, set_string
Set(k, v) ==
    /\ k \notin HashKeys
    /\ table' = Store(RowFor(PurgeFirst(table, now), k), "count", v)
    /\ UNCHANGED now

\* set_int_at, set_string_at
SetAt(h, v) ==
    /\ h \in HashKeys
    /\ table' = Store(RowForHash(PurgeFirst(table, now), h), "count", v)
    /\ UNCHANGED now

\* d is added to the value of row r.
Added(r, d) ==
    IF r.at = 0 THEN r.t ELSE Store(r, "count", Value(r.t, r.at) + d)
Bounded(r, d) == r.at # 0 => Value(r.t, r.at) + d <= MaxVal

Increment(k, d) ==
    LET r == RowFor(PurgeFirst(table, now), k)
    IN  /\ k \notin HashKeys
        /\ Bounded(r, d)
        /\ table' = Added(r, d)
        /\ UNCHANGED now

IncrementAt(h, d) ==
    LET r == RowForHash(PurgeFirst(table, now), h)
    IN  /\ h \in HashKeys
        /\ Bounded(r, d)
        /\ table' = Added(r, d)
        /\ UNCHANGED now

\* extreme_at: the smallest or the largest value seen, 0 meaning none yet.
Extreme(k, v, keepLarger) ==
    LET r == RowForHash(PurgeFirst(table, now), k)
        stored == Value(r.t, r.at)
        better == IF keepLarger THEN v > stored ELSE stored = 0 \/ v < stored
    IN  /\ k \in HashKeys
        /\ table' = IF r.at # 0 /\ better THEN Store(r, "count", v) ELSE r.t
        /\ UNCHANGED now

\* get_*, exists, expires_at, count, match_at: in the C baseline a read purges.
\* So does a write of a text too long for its column, which then gives up.
Read ==
    /\ table' = PurgeFirst(table, now)
    /\ UNCHANGED now

\* expire, expire_at; 0 makes the row permanent.
Expire(k, at) ==
    LET t == PurgeSome(table, now)
    IN  /\ k \notin HashKeys
        /\ table' = SetExpiry(t, FindRow(t, k), at)
        /\ UNCHANGED now

Delete(k) ==
    LET t == PurgeSome(table, now)
    IN  /\ k \notin HashKeys
        /\ table' = Remove(t, FindRow(t, k))
        /\ UNCHANGED now

DeleteAt(h) ==
    LET t == PurgeSome(table, now)
    IN  /\ h \in HashKeys
        /\ table' = Remove(t, FindRowHash(t, h))
        /\ UNCHANGED now

ClearAll == table' = Clear(table) /\ UNCHANGED now

PurgeExpired == table' = Purge(table, now) /\ UNCHANGED now

\* The first half of a read or write of the Zan runtime, unless another table
\* of the process was purged less than 16 ms ago.
PurgeThrottled ==
    /\ Lane = "Zan"
    /\ \E i \in Alive(table) : table.rows[i].expires # 0
    /\ table' = PurgeBatch(table, now)
    /\ UNCHANGED now

Tick == now < MaxTime /\ now' = now + 1 /\ UNCHANGED table

Next ==
    \/ Read \/ ClearAll \/ PurgeExpired \/ PurgeThrottled \/ Tick
    \/ \E k \in Keys :
          \/ Delete(k) \/ DeleteAt(k)
          \/ \E v \in Vals :
                \/ Set(k, v) \/ SetAt(k, v)
                \/ Increment(k, v) \/ IncrementAt(k, v)
                \/ \E larger \in BOOLEAN : Extreme(k, v, larger)
          \/ \E at \in 0..MaxTime : Expire(k, at)

Spec == Init /\ [][Next]_vars

----------------------------------------------------------------------------
TypeOK == table \in Table /\ now \in Nat

\* t->count is what Count() answers and what the load factor is taken of: it
\* is kept by seven operations and never recomputed.
CountExact == table.count = Cardinality(Alive(table))

\* A key finds the row its hash finds.  Tests and comments of the project say
\* that a reused row must take the new key, or key lookups miss it for ever.
PathsAgree == \A k \in Keys : FindRow(table, k) = FindRowHash(table, k)

\* Two rows never answer to one key, whatever was deleted and made in between.
OneRowPerKey ==
    \A i, j \in Alive(table) :
        table.rows[i].key = table.rows[j].key => i = j

\* The list does not grow with the keys that come and go: it is never longer
\* than the load factor allows rows.
ChainBounded == Len(table.rows) <= MaxRows

\* The table is the map KeyedRows describes.
View(t) ==
    [k \in Keys |->
        LET i == Lookup(t, k)
        IN  IF i = 0 THEN [value |-> 0, expires |-> -1]
            ELSE [value |-> Value(t, i), expires |-> t.rows[i].expires]]

Map == INSTANCE KeyedRows WITH store <- View(table)
ImplementsMap == Map!Spec
============================================================================
