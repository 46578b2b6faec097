------------------------- MODULE SharedTable_proofs -------------------------
(***************************************************************************)
(* Every call on a SharedTable keeps the table good, for any keys,         *)
(* capacity and batch: the steps are compositions of the operators of      *)
(* SharedTableOps, whose lemmas do the work.                               *)
(*                                                                         *)
(* In the Zan runtime the table implements the map of KeyedRows.  The map  *)
(* is what the live rows say (ViewSays), so every step is read off what it *)
(* does to the set of live rows: rows that go (RowsGone), one row that is  *)
(* made or changed (RowPut).  That a key is refused only when the map is   *)
(* full needs the exact count, which is the size of the map (CountIsSize). *)
(***************************************************************************)
EXTENDS SharedTable, SharedTableOps_proofs, FunctionTheorems

\* A sum stored keeps the table good.
LEMMA AddedKeeps ==
    ASSUME NEW r, Ready(r), NEW d \in Vals
    PROVE  Good(Added(r, d))
<1>1. CASE r.at = 0
  BY <1>1 DEF Added, Ready
<1>2. ASSUME r.at # 0 PROVE Good(Added(r, d))
  <2>1. r.t.rows[r.at] \in Row
    BY <1>2, TableRows DEF Good, Ready
  <2>2. r.t.rows[r.at].data["count"] \in Int
    BY <2>1 DEF Row, Data, Columns
  <2>3. Value(r.t, r.at) + d \in Int
    BY <2>2, ValsNat DEF Value
  <2>4. QED  BY <1>2, <2>3, StoreKeeps DEF Added, Columns, Ready
<1>3. QED  BY <1>1, <1>2

----------------------------------------------------------------------------
IInv == Good(table) /\ now \in Nat

\* The empty table is good.
LEMMA InitGood == Init => IInv
BY EmptyGood DEF Init, IInv

\* Every call keeps the table good.
LEMMA NextGood == IInv /\ [Next]_vars => IInv'
<1> SUFFICES ASSUME IInv, [Next]_vars PROVE IInv'
  OBVIOUS
<1> USE DEF IInv
<1>1. \A at : /\ Good(Purge(table, at)) /\ Good(PurgeBatch(table, at))
             /\ Good(PurgeSome(table, at)) /\ Good(PurgeFirst(table, at))
  BY PurgesKeep
<1>2. ASSUME NEW k \in Keys, NEW v \in Vals, Set(k, v) \/ SetAt(k, v)
      PROVE  IInv'
  <2>1. PICK r : Ready(r) /\ table' = Store(r, "count", v)
    BY <1>1, <1>2, RowsReady DEF Set, SetAt
  <2>2. now' = now /\ v \in Int
    BY <1>2, ValsNat DEF Set, SetAt
  <2>3. QED  BY <2>1, <2>2, StoreKeeps DEF Columns, Ready
<1>3. ASSUME NEW k \in Keys, NEW d \in Vals,
             Increment(k, d) \/ IncrementAt(k, d)
      PROVE  IInv'
  <2>1. PICK r : Ready(r) /\ table' = Added(r, d)
    BY <1>1, <1>3, RowsReady DEF Increment, IncrementAt
  <2>2. now' = now
    BY <1>3 DEF Increment, IncrementAt
  <2>3. QED  BY <2>1, <2>2, AddedKeeps
<1>4. ASSUME NEW k \in Keys, NEW v \in Vals, NEW larger \in BOOLEAN,
             Extreme(k, v, larger)
      PROVE  IInv'
  <2> DEFINE r == RowForHash(PurgeFirst(table, now), k)
  <2>1. Good(r.t) /\ (r.at # 0 => r.at \in Alive(r.t))
    BY <1>1, RowsReady DEF Ready
  <2>2. (table' = Store(r, "count", v) \/ table' = r.t) /\ now' = now /\ v \in Int
    BY <1>4, ValsNat DEF Extreme
  <2> HIDE DEF r
  <2>3. QED  BY <2>1, <2>2, StoreKeeps DEF Columns
<1>5. CASE Read
  BY <1>1, <1>5 DEF Read
<1>6. ASSUME NEW k \in Keys, NEW at \in 0..MaxTime, Expire(k, at) PROVE IInv'
  <2> DEFINE t == PurgeSome(table, now)
  <2>1. Good(t) /\ (FindRow(t, k) # 0 => FindRow(t, k) \in Alive(t))
    BY <1>1, Finds DEF Good
  <2>2. table' = SetExpiry(t, FindRow(t, k), at) /\ now' = now /\ at \in Nat
    BY <1>6, TimeNat DEF Expire
  <2> HIDE DEF t
  <2>3. QED  BY <2>1, <2>2, SetExpiryKeeps
<1>7. ASSUME NEW k \in Keys, Delete(k) \/ DeleteAt(k) PROVE IInv'
  <2> DEFINE t == PurgeSome(table, now)
  <2>1. Good(t)
    BY <1>1
  <2>2. PICK i : (i # 0 => i \in Alive(t)) /\ table' = Remove(t, i)
    BY <1>7, <2>1, Finds DEF Good, Delete, DeleteAt
  <2>3. now' = now
    BY <1>7 DEF Delete, DeleteAt
  <2> HIDE DEF t
  <2>4. QED  BY <2>1, <2>2, <2>3, RemoveKeeps
<1>8. CASE ClearAll
  BY <1>8, ClearKeeps DEF ClearAll
<1>9. CASE PurgeExpired \/ PurgeThrottled
  BY <1>1, <1>9 DEF PurgeExpired, PurgeThrottled
<1>10. CASE Tick
  BY <1>10 DEF Tick
<1>11. CASE UNCHANGED vars
  BY <1>11 DEF vars
<1>12. QED
  BY <1>2, <1>3, <1>4, <1>5, <1>6, <1>7, <1>8, <1>9, <1>10, <1>11 DEF Next

\* Every reachable table is good.
THEOREM AlwaysGood == Spec => []IInv
BY InitGood, NextGood, PTL DEF Spec

\* The state keeps its type.
THEOREM TypeCorrect == Spec => []TypeOK
<1>1. IInv => TypeOK
  BY DEF IInv, Good, TypeOK
<1>2. QED  BY <1>1, AlwaysGood, PTL

\* Count() answers the number of rows there are, in both runtimes and for any
\* order of calls and purges.
THEOREM CountIsExact == Spec => []CountExact
<1>1. IInv => CountExact
  BY DEF IInv, Good, CountExact
<1>2. QED  BY <1>1, AlwaysGood, PTL

\* The list of rows never outgrows the load factor, however many keys come
\* and go: tombstones are reused before a row is made.
THEOREM ChainStaysBounded == Spec => []ChainBounded
<1>1. IInv => ChainBounded
  BY DEF IInv, Good, ChainBounded
<1>2. QED  BY <1>1, AlwaysGood, PTL

\* In the Zan runtime a key and its hash lead to the same row, and a key has
\* one row: what the rewriting of a reused row's key is for.
THEOREM KeysResolve ==
    ASSUME Lane = "Zan"
    PROVE  Spec => [](PathsAgree /\ OneRowPerKey)
<1>1. IInv => PathsAgree
  <2> SUFFICES ASSUME IInv, NEW k \in Keys
               PROVE  FindRow(table, k) = FindRowHash(table, k)
    BY DEF PathsAgree
  <2>1. {i \in Alive(table) : table.rows[i].key = k}
          = {i \in Alive(table) : table.rows[i].hash = k}
    BY DEF IInv, Good, Labelled
  <2>2. QED  BY <2>1 DEF FindRow, FindRowHash
<1>2. IInv => OneRowPerKey
  BY DEF IInv, Good, Labelled, OneRowPerKey
<1>3. QED  BY <1>1, <1>2, AlwaysGood, PTL

----------------------------------------------------------------------------
(* A table of the Zan runtime is the map KeyedRows describes.              *)

\* What a live row says of its key.
Said(x) == [value |-> x.data["count"], expires |-> x.expires]

\* The map has what the live rows say, and nothing else.
LEMMA ViewSays ==
    ASSUME NEW t, Good(t), Lane = "Zan"
    PROVE  /\ View(t) = [k \in Keys |-> View(t)[k]]
           /\ \A x \in Live(t) : x.key \in Keys /\ View(t)[x.key] = Said(x)
           /\ \A x \in Live(t) : Said(x) # Map!Absent
           /\ \A k \in Keys :
                 (\A x \in Live(t) : x.key # k) => View(t)[k] = Map!Absent
<1>1. View(t) = [k \in Keys |-> View(t)[k]]
  BY DEF View
<1>2. ASSUME NEW x \in Live(t)
      PROVE  x.key \in Keys /\ View(t)[x.key] = Said(x) /\ Said(x) # Map!Absent
  <2>1. x \in Row
    BY LiveRows
  <2>2. x.key \in Keys /\ x.expires \in Nat
    BY <2>1 DEF Row
  <2>3. PICK i : i = FindRow(t, x.key)
    OBVIOUS
  <2>4. i # 0 /\ t.rows[i] = x
    BY <2>3, Looked, LiveRows
  <2>5. Lookup(t, x.key) = i
    BY <2>3, Looked DEF Lookup
  <2>6. View(t)[x.key] = Said(x)
    BY <2>2, <2>4, <2>5 DEF View, Value, Said
  <2>7. Said(x).expires # -1
    BY <2>2 DEF Said
  <2>8. QED  BY <2>2, <2>6, <2>7 DEF Map!Absent
<1>3. ASSUME NEW k \in Keys, \A x \in Live(t) : x.key # k
      PROVE  View(t)[k] = Map!Absent
  <2>1. Lookup(t, k) = 0
    BY <1>3, Looked DEF Lookup
  <2>2. QED  BY <2>1 DEF View, Map!Absent
<1>4. QED  BY <1>1, <1>2, <1>3

\* Rows that go take their keys out of the map.
LEMMA RowsGone ==
    ASSUME NEW t, Good(t), NEW u, Good(u), Lane = "Zan",
           NEW D \in SUBSET Keys, Live(u) \subseteq Live(t),
           \A x \in Live(t) : x \in Live(u) <=> x.key \notin D
    PROVE  View(u) = Map!Without(View(t), D)
<1>1. ASSUME NEW k \in Keys
      PROVE  View(u)[k] = IF k \in D THEN Map!Absent ELSE View(t)[k]
  <2>1. CASE \E x \in Live(u) : x.key = k
    BY <2>1, ViewSays
  <2>2. CASE \A x \in Live(u) : x.key # k
    <3>1. View(u)[k] = Map!Absent
      BY <2>2, ViewSays
    <3>2. k \notin D => \A x \in Live(t) : x.key # k
      BY <2>2
    <3>3. k \notin D => View(t)[k] = Map!Absent
      BY <3>2, ViewSays
    <3>4. QED  BY <3>1, <3>3
  <2>3. QED  BY <2>1, <2>2
<1>2. View(u) = [k \in Keys |-> View(u)[k]]
  BY ViewSays
<1>3. QED  BY <1>1, <1>2 DEF Map!Without

\* A row that is made or changed is what the map has for its key.
LEMMA RowPut ==
    ASSUME NEW t, Good(t), NEW u, Good(u), Lane = "Zan", NEW y \in Live(u),
           \A x \in Live(u) : x = y \/ x \in Live(t),
           \A x \in Live(t) : x.key = y.key \/ x \in Live(u)
    PROVE  /\ View(u) = [k \in Keys |-> IF k = y.key THEN Said(y) ELSE View(t)[k]]
           /\ y.key \in Keys
<1>1. y.key \in Keys /\ View(u)[y.key] = Said(y)
  BY ViewSays
<1>2. ASSUME NEW k \in Keys, k # y.key
      PROVE  View(u)[k] = View(t)[k]
  <2>1. ASSUME NEW x \in Live(t), x.key = k PROVE View(u)[k] = View(t)[k]
    <3>1. x \in Live(u)
      BY <1>2, <2>1
    <3>2. View(u)[x.key] = Said(x) /\ View(t)[x.key] = Said(x)
      BY <3>1, ViewSays
    <3>3. QED  BY <2>1, <3>2
  <2>2. CASE \A x \in Live(t) : x.key # k
    <3>1. \A x \in Live(u) : x.key # k
      BY <1>2, <2>2
    <3>2. QED  BY <2>2, <3>1, ViewSays
  <2>3. QED  BY <2>1, <2>2
<1>3. View(u) = [k \in Keys |-> View(u)[k]]
  BY ViewSays
<1>4. QED  BY <1>1, <1>2, <1>3

\* A key is in the map when FindRow finds it, with what its row says.
LEMMA FoundIsPresent ==
    ASSUME NEW t, Good(t), Lane = "Zan", NEW k \in Keys
    PROVE  /\ FindRow(t, k) = 0 <=> View(t)[k] = Map!Absent
           /\ FindRow(t, k) # 0 => View(t)[k] = Said(t.rows[FindRow(t, k)])
<1>1. FindRow(t, k) = 0 => View(t)[k] = Map!Absent
  BY Looked, ViewSays
<1>2. ASSUME FindRow(t, k) # 0
      PROVE  /\ View(t)[k] = Said(t.rows[FindRow(t, k)])
             /\ View(t)[k] # Map!Absent
  <2>1. PICK x \in Live(t) : x = t.rows[FindRow(t, k)] /\ x.key = k
    BY <1>2, Looked
  <2>2. QED  BY <2>1, ViewSays
<1>3. QED  BY <1>1, <1>2

\* KeyedRows counts with the same Cardinality.
LEMMA SameCardinality == ASSUME NEW S PROVE Map!Cardinality(S) = Cardinality(S)
BY DEF Map!Cardinality, Cardinality

\* The count that the load factor is taken of is the size of the map.
LEMMA CountIsSize ==
    ASSUME NEW t, Good(t), Lane = "Zan"
    PROVE  /\ Map!Cardinality(Map!Present(View(t))) = t.count
           /\ Full(t) <=> ~(Map!Cardinality(Map!Present(View(t))) < MaxRows)
<1> DEFINE key == [i \in Alive(t) |-> t.rows[i].key]
           P == Map!Present(View(t))
<1>1. ASSUME NEW i \in Alive(t) PROVE key[i] \in P
  <2>1. t.rows[i] \in Live(t)
    BY LiveRows
  <2>2. QED  BY <2>1, ViewSays DEF Map!Present
<1>2. \A i, j \in Alive(t) : key[i] = key[j] => i = j
  BY LiveRows
<1>3. ASSUME NEW k \in P PROVE \E i \in Alive(t) : key[i] = k
  <2>1. k \in Keys /\ View(t)[k] # Map!Absent
    BY DEF Map!Present
  <2>2. FindRow(t, k) # 0
    BY <2>1, FoundIsPresent
  <2>3. FindRow(t, k) \in Alive(t) /\ t.rows[FindRow(t, k)].key = k
    BY <2>2, Looked
  <2>4. QED  BY <2>3
<1>4. key \in [Alive(t) -> P]
  BY <1>1
<1>5. key \in Bijection(Alive(t), P)
  <2> HIDE DEF key, P
  <2>1. QED  BY <1>2, <1>3, <1>4, Fun_IsBij
<1>6. ExistsBijection(Alive(t), P)
  BY <1>5 DEF ExistsBijection
<1>7. IsFiniteSet(Alive(t)) /\ t.count = Cardinality(Alive(t)) /\ t.count \in Nat
  BY TableRows DEF Good
<1>8. Map!Cardinality(P) = t.count
  <2> HIDE DEF P
  <2>1. QED  BY <1>6, <1>7, FS_Bijection, SameCardinality
<1>9. QED  BY <1>7, <1>8, CapacityType DEF Full

\* What the map becomes when v is written to k, when d is added to k, and when
\* k gets an expiry: the right sides of KeyedRows, with the map as a parameter.
Writes(s, k, v) ==
    IF s[k] # Map!Absent THEN [s EXCEPT ![k].value = v]
    ELSE IF Map!Cardinality(Map!Present(s)) < MaxRows
         THEN [s EXCEPT ![k] = [value |-> v, expires |-> 0]]
         ELSE s

Adds(s, k, d) ==
    IF s[k] # Map!Absent THEN [s EXCEPT ![k].value = @ + d]
    ELSE IF Map!Cardinality(Map!Present(s)) < MaxRows
         THEN [s EXCEPT ![k] = [value |-> d, expires |-> 0]]
         ELSE s

Expires(s, k, at) == IF s[k] # Map!Absent THEN [s EXCEPT ![k].expires = at] ELSE s

\* A live row with another value in its column.
LEMMA ColumnOf ==
    ASSUME NEW x \in Row, NEW v \in Int
    PROVE  LET y == [x EXCEPT !.data["count"] = v]
           IN  y.key = x.key /\ Said(y) = [value |-> v, expires |-> x.expires]
<1>1. x.data \in [Columns -> Int] /\ "count" \in Columns
  BY DEF Row, Data, Columns
<1>2. PICK e : e = [x.data EXCEPT !["count"] = v]
  OBVIOUS
<1>3. e["count"] = v
  BY <1>1, <1>2
<1>4. PICK y : y = [x EXCEPT !.data = e]
  OBVIOUS
<1>5. y.key = x.key /\ y.expires = x.expires /\ y.data = e
  BY <1>4 DEF Row
<1>6. y = [x EXCEPT !.data["count"] = v]
  BY <1>2, <1>4
<1>7. Said(y) = [value |-> v, expires |-> x.expires]
  BY <1>3, <1>5 DEF Said
<1>8. QED  BY <1>5, <1>6, <1>7

\* A value stored in the row that RowFor found or made is a write.
LEMMA StoreWrites ==
    ASSUME NEW t, Good(t), Lane = "Zan", NEW k \in Keys, NEW v \in Int,
           RowFor(t, k).at # 0
    PROVE  View(Store(RowFor(t, k), "count", v)) = Writes(View(t), k, v)
<1>1. PICK r, u, s : /\ r = RowFor(t, k) /\ u = Store(r, "count", v)
                     /\ s = View(t)
  OBVIOUS
<1>2. PICK x : x = r.t.rows[r.at]
  OBVIOUS
<1>3. PICK y : y = [x EXCEPT !.data["count"] = v]
  OBVIOUS
<1>4. Good(r.t) /\ r.at \in Alive(r.t)
  BY <1>1, LiveRowFor
<1>5. Good(u) /\ Live(u) = (Live(r.t) \ {x}) \cup {y}
  <2>1. PICK column \in Columns : column = "count"
    BY DEF Columns
  <2>2. u = Store(r, column, v) /\ y = [x EXCEPT !.data[column] = v]
    BY <1>1, <1>3, <2>1
  <2>3. QED  BY <1>2, <1>4, <2>2, LiveStore
<1>6. x \in Row /\ y.key = x.key /\ Said(y) = [value |-> v, expires |-> x.expires]
  BY <1>2, <1>3, <1>4, AliveRow, ColumnOf
<1>7. s = [i \in Keys |-> s[i]]
  BY <1>1, ViewSays
<1>8. CASE FindRow(t, k) # 0
  <2>1. r.t = t /\ x = t.rows[FindRow(t, k)]
    BY <1>1, <1>2, <1>8, LiveRowFor
  <2>2. x \in Live(t) /\ x.key = k
    BY <1>8, <2>1, Looked
  <2>3. s[k] = Said(x) /\ s[k] # Map!Absent
    BY <1>1, <1>8, <2>1, FoundIsPresent
  <2>4. View(u) = [i \in Keys |-> IF i = k THEN Said(y) ELSE s[i]]
    BY <1>1, <1>5, <1>6, <2>1, <2>2, RowPut
  <2>5. [s[k] EXCEPT !.value = v] = Said(y)
    BY <1>6, <2>3 DEF Said
  <2>6. [s EXCEPT ![k] = [s[k] EXCEPT !.value = v]] = View(u)
    BY <1>7, <2>4, <2>5
  <2>7. QED  BY <1>1, <2>3, <2>6 DEF Writes
<1>9. CASE FindRow(t, k) = 0
  <2>1. ~Full(t) /\ x = Fresh(k, k) /\ Live(r.t) = Live(t) \cup {x}
    BY <1>1, <1>2, <1>9, LiveRowFor
  <2>2. x.key = k /\ x.expires = 0
    BY <2>1 DEF Fresh
  <2>3. x \notin Live(t) /\ s[k] = Map!Absent
    BY <1>1, <1>9, <2>2, Looked, FoundIsPresent
  <2>4. View(u) = [i \in Keys |-> IF i = k THEN Said(y) ELSE s[i]]
    BY <1>1, <1>5, <1>6, <2>1, <2>2, <2>3, RowPut
  <2>5. Map!Cardinality(Map!Present(s)) < MaxRows
    BY <1>1, <2>1, CountIsSize
  <2>6. [s EXCEPT ![k] = [value |-> v, expires |-> 0]] = View(u)
    BY <1>6, <1>7, <2>2, <2>4
  <2>7. QED  BY <1>1, <2>3, <2>5, <2>6 DEF Writes
<1>10. QED  BY <1>8, <1>9

\* A row refused leaves the map: the key is not there, and it is full.
LEMMA RefusedStays ==
    ASSUME NEW t, Good(t), Lane = "Zan", NEW k \in Keys, NEW v,
           RowFor(t, k).at = 0
    PROVE  /\ RowFor(t, k).t = t
           /\ Writes(View(t), k, v) = View(t) /\ Adds(View(t), k, v) = View(t)
<1>1. FindRow(t, k) = 0 /\ Full(t)
  BY LiveRowFor, Looked, AliveRow
<1>2. RowFor(t, k).t = t
  BY <1>1, LiveRowFor
<1>3. View(t)[k] = Map!Absent
  BY <1>1, FoundIsPresent
<1>4. ~(Map!Cardinality(Map!Present(View(t))) < MaxRows)
  BY <1>1, CountIsSize
<1>5. QED  BY <1>2, <1>3, <1>4 DEF Writes, Adds

\* A sum stored in it is an addition, which starts from 0 in a new row.
LEMMA AddedAdds ==
    ASSUME NEW t, Good(t), Lane = "Zan", NEW k \in Keys, NEW d \in Int
    PROVE  View(Added(RowFor(t, k), d)) = Adds(View(t), k, d)
<1>1. PICK r, s : r = RowFor(t, k) /\ s = View(t)
  OBVIOUS
<1>2. CASE r.at = 0
  BY <1>1, <1>2, RefusedStays DEF Added
<1>3. ASSUME r.at # 0 PROVE View(Added(r, d)) = Adds(s, k, d)
  <2>1. PICK x : x = r.t.rows[r.at]
    OBVIOUS
  <2>2. x \in Row
    BY <1>1, <1>3, <2>1, LiveRowFor, AliveRow
  <2>3. x.data["count"] \in Int
    BY <2>2 DEF Row, Data, Columns
  <2>4. PICK n \in Int : n = x.data["count"] + d
    BY <2>3
  <2>5. View(Added(r, d)) = Writes(s, k, n)
    BY <1>1, <1>3, <2>1, <2>4, StoreWrites DEF Added, Value
  <2>6. CASE FindRow(t, k) # 0
    <3>1. x = t.rows[FindRow(t, k)]
      BY <1>1, <2>1, <2>6, LiveRowFor
    <3>2. s[k] = Said(x) /\ s[k] # Map!Absent
      BY <1>1, <2>6, <3>1, FoundIsPresent
    <3>3. s[k].value + d = n
      BY <2>4, <3>2 DEF Said
    <3>4. QED  BY <2>5, <3>2, <3>3 DEF Writes, Adds
  <2>7. CASE FindRow(t, k) = 0
    <3>1. x = Fresh(k, k)
      BY <1>1, <1>3, <2>1, <2>7, LiveRowFor
    <3>2. n = d
      BY <2>4, <3>1 DEF Fresh, Zeroes, Columns
    <3>3. s[k] = Map!Absent
      BY <1>1, <2>7, FoundIsPresent
    <3>4. QED  BY <2>5, <3>2, <3>3 DEF Writes, Adds
  <2>8. QED  BY <2>6, <2>7
<1>4. QED  BY <1>1, <1>2, <1>3

\* RowFor by itself changes nothing where it finds a row or refuses, and makes
\* a row of 0 where it does neither.
LEMMA MadeWritesZero ==
    ASSUME NEW t, Good(t), Lane = "Zan", NEW k \in Keys
    PROVE  LET r == RowFor(t, k)
           IN  \/ r.t = t
               \/ /\ r.at # 0 /\ Value(r.t, r.at) = 0
                  /\ View(r.t) = Writes(View(t), k, 0)
<1>1. PICK r, s : r = RowFor(t, k) /\ s = View(t)
  OBVIOUS
<1>2. CASE FindRow(t, k) # 0 \/ Full(t)
  BY <1>2, LiveRowFor
<1>3. CASE FindRow(t, k) = 0 /\ ~Full(t)
  <2>1. PICK x : x = Fresh(k, k)
    OBVIOUS
  <2>2. r.at # 0 /\ Good(r.t) /\ r.t.rows[r.at] = x /\ Live(r.t) = Live(t) \cup {x}
    BY <1>1, <1>3, <2>1, LiveRowFor
  <2>3. x.key = k /\ x.expires = 0 /\ x.data["count"] = 0
    BY <2>1 DEF Fresh, Zeroes, Columns
  <2>4. View(r.t) = [i \in Keys |-> IF i = k THEN Said(x) ELSE s[i]]
    BY <1>1, <2>2, <2>3, RowPut
  <2>5. s[k] = Map!Absent /\ s = [i \in Keys |-> s[i]]
    BY <1>1, <1>3, FoundIsPresent, ViewSays
  <2>6. Map!Cardinality(Map!Present(s)) < MaxRows
    BY <1>1, <1>3, CountIsSize
  <2>7. Said(x) = [value |-> 0, expires |-> 0]
    BY <2>3 DEF Said
  <2>8. [s EXCEPT ![k] = [value |-> 0, expires |-> 0]] = View(r.t)
    BY <2>4, <2>5, <2>7
  <2>9. QED  BY <1>1, <2>2, <2>3, <2>5, <2>6, <2>8 DEF Writes, Value
<1>4. QED  BY <1>2, <1>3

\* An expiry set on the row of a key, if it has one.
LEMMA ExpirySet ==
    ASSUME NEW t, Good(t), Lane = "Zan", NEW k \in Keys, NEW at \in Nat
    PROVE  View(SetExpiry(t, FindRow(t, k), at)) = Expires(View(t), k, at)
<1>1. PICK i, s : i = FindRow(t, k) /\ s = View(t)
  OBVIOUS
<1>2. CASE i = 0
  BY <1>1, <1>2, FoundIsPresent DEF SetExpiry, Expires
<1>3. CASE i # 0
  <2>1. PICK x, u : x = t.rows[i] /\ u = SetExpiry(t, i, at)
    OBVIOUS
  <2>2. PICK y : y = [x EXCEPT !.expires = at]
    OBVIOUS
  <2>3. i \in Alive(t) /\ x \in Live(t) /\ x.key = k
    BY <1>1, <1>3, <2>1, Looked
  <2>4. Good(u) /\ Live(u) = (Live(t) \ {x}) \cup {y}
    BY <2>1, <2>2, <2>3, LiveExpiry
  <2>5. x \in Row
    BY <2>3, LiveRows
  <2>6. y.key = k /\ y.expires = at /\ y.data = x.data
    BY <2>2, <2>3, <2>5 DEF Row
  <2>7. View(u) = [j \in Keys |-> IF j = k THEN Said(y) ELSE s[j]]
    BY <1>1, <2>3, <2>4, <2>6, RowPut
  <2>8. s[k] = Said(x) /\ s[k] # Map!Absent /\ s = [j \in Keys |-> s[j]]
    BY <1>1, <1>3, <2>1, FoundIsPresent, ViewSays
  <2>9. [s[k] EXCEPT !.expires = at] = Said(y)
    BY <2>6, <2>8 DEF Said
  <2>10. [s EXCEPT ![k] = [s[k] EXCEPT !.expires = at]] = View(u)
    BY <2>7, <2>8, <2>9
  <2>11. QED  BY <1>1, <2>1, <2>8, <2>10 DEF Expires
<1>4. QED  BY <1>2, <1>3

\* A row removed, if there is one.
LEMMA RemoveDeletes ==
    ASSUME NEW t, Good(t), Lane = "Zan", NEW k \in Keys
    PROVE  View(Remove(t, FindRow(t, k))) = Map!Without(View(t), {k})
<1>1. PICK i, u : i = FindRow(t, k) /\ u = Remove(t, i)
  OBVIOUS
<1>2. /\ Good(u) /\ Live(u) \subseteq Live(t)
      /\ \A x \in Live(t) : x \in Live(u) <=> x.key \notin {k}
  <2>1. CASE i = 0
    BY <1>1, <2>1, Looked DEF Remove
  <2>2. CASE i # 0
    <3>1. i \in Alive(t) /\ t.rows[i] \in Live(t) /\ t.rows[i].key = k
      BY <1>1, <2>2, Looked
    <3>2. Good(u) /\ Live(u) = Live(t) \ {t.rows[i]}
      BY <1>1, <3>1, RemoveKeeps, LiveRemove
    <3>3. QED  BY <3>1, <3>2, LiveRows
  <2>3. QED  BY <2>1, <2>2
<1>3. QED  BY <1>1, <1>2, RowsGone

\* A purge leaves one of the maps that may remain, whichever rows it takes.
LEMMA PurgeRemains ==
    ASSUME Good(table), Lane = "Zan", NEW u, Good(u), Live(u) \subseteq Live(table),
           \A x \in Live(table) \ Live(u) : x.expires # 0 /\ x.expires <= now
    PROVE  View(u) \in Map!Remains
<1> DEFINE Gone == {x \in Live(table) : x \notin Live(u)}
           D == {x.key : x \in Gone}
           Due == {k \in Map!Present(View(table)) :
                      View(table)[k].expires # 0 /\ View(table)[k].expires <= now}
<1>1. \A x \in Live(table) : x \in Live(u) <=> x.key \notin D
  BY LiveRows
<1>2. ASSUME NEW x \in Gone PROVE x.key \in Due
  <2>1. /\ x.key \in Keys /\ View(table)[x.key] = Said(x)
        /\ Said(x) # Map!Absent
    BY ViewSays
  <2>2. View(table)[x.key].expires = x.expires
    BY <2>1 DEF Said
  <2>3. QED  BY <2>1, <2>2 DEF Map!Present
<1>3. D \in SUBSET Due /\ D \in SUBSET Keys
  BY <1>2 DEF Map!Present
<1>4. View(u) = Map!Without(View(table), D)
  <2> HIDE DEF D
  <2>1. QED  BY <1>1, <1>3, RowsGone
<1>5. QED  BY <1>3, <1>4 DEF Map!Remains

\* Every call on a table of the Zan runtime is a call on the map, or nothing
\* that the map knows of.
LEMMA StepImplements ==
    ASSUME Lane = "Zan", Good(table), [Next]_vars
    PROVE  Map!Next \/ UNCHANGED Map!vars
<1> DEFINE Goal == Map!Next \/ UNCHANGED Map!vars
<1>0. View(table)' = View(table')
  BY DEF View, Lookup, Value, FindRow, FindRowHash, FirstOf, Alive
<1>1. View(table) \in Map!Remains
  BY PurgeRemains
<1>2. \A t \in {Purge(table, now), PurgeBatch(table, now), PurgeSome(table, now)} :
         Good(t) /\ View(t) \in Map!Remains
  BY LivePurge, PurgeRemains
<1>3. PurgeFirst(table, now) = table
  BY DEF PurgeFirst
<1>a. ASSUME NEW k \in Keys, NEW v \in Vals, now' = now,
             View(table') = Writes(View(table), k, v)
      PROVE  Goal
  <2>1. \E s \in Map!Remains : View(table)' = Writes(s, k, v) /\ now' = now
    BY <1>0, <1>1, <1>a
  <2>2. Map!Write(k, v)
    BY <2>1 DEF Map!Write, Writes
  <2>3. QED  BY <2>2 DEF Map!Next
<1>b. ASSUME table' = table, now' = now PROVE Goal
  BY <1>0, <1>b DEF Map!vars
<1>c. ASSUME View(table') \in Map!Remains, now' = now PROVE Goal
  BY <1>0, <1>c DEF Map!Next, Map!Purge
<1> HIDE DEF Goal
<1>4. ASSUME NEW k \in Keys, NEW v \in Vals, Set(k, v) \/ SetAt(k, v) PROVE Goal
  <2>1. table' = Store(RowFor(table, k), "count", v) /\ now' = now /\ v \in Int
    BY <1>3, <1>4, SameByHash, ValsNat DEF Set, SetAt
  <2>2. CASE RowFor(table, k).at = 0
    BY <1>b, <2>1, <2>2, RefusedStays DEF Store
  <2>3. CASE RowFor(table, k).at # 0
    BY <1>a, <2>1, <2>3, StoreWrites
  <2>4. QED  BY <2>2, <2>3
<1>5. ASSUME NEW k \in Keys, NEW d \in Vals, Increment(k, d) \/ IncrementAt(k, d)
      PROVE  Goal
  <2>1. table' = Added(RowFor(table, k), d) /\ now' = now /\ d \in Int
    BY <1>3, <1>5, SameByHash, ValsNat DEF Increment, IncrementAt
  <2>2. View(table') = Adds(View(table), k, d)
    BY <2>1, AddedAdds
  <2>3. \E s \in Map!Remains : View(table)' = Adds(s, k, d) /\ now' = now
    BY <1>0, <1>1, <2>1, <2>2
  <2>4. Map!Add(k, d)
    BY <2>3 DEF Map!Add, Adds
  <2>5. QED  BY <2>4 DEF Goal, Map!Next
<1>6. ASSUME NEW k \in Keys, NEW v \in Vals, NEW larger \in BOOLEAN,
             Extreme(k, v, larger)
      PROVE  Goal
  <2>1. PICK r : r = RowFor(table, k)
    OBVIOUS
  <2>2. now' = now /\ v \in Int /\ v \in Nat
    BY <1>6, ValsNat DEF Extreme
  <2>3. CASE r.at # 0 /\ table' = Store(r, "count", v)
    BY <1>a, <2>1, <2>2, <2>3, StoreWrites
  <2>4. CASE r.t = table /\ table' = r.t
    BY <1>b, <2>2, <2>4
  <2>5. CASE r.at # 0 /\ Value(r.t, r.at) = 0 /\ v = 0 /\ table' = r.t
             /\ View(r.t) = Writes(View(table), k, 0)
    BY <1>a, <2>2, <2>5
  <2>6. \/ r.at # 0 /\ table' = Store(r, "count", v)
        \/ table' = r.t /\ (r.at # 0 /\ Value(r.t, r.at) = 0 => v = 0)
    BY <1>3, <1>6, <2>1, <2>2, SameByHash DEF Extreme
  <2>7. QED  BY <2>1, <2>3, <2>4, <2>5, <2>6, MadeWritesZero
<1>7. ASSUME Read PROVE Goal
  BY <1>3, <1>7, <1>b DEF Read
<1>8. ASSUME NEW k \in Keys, NEW at \in 0..MaxTime, Expire(k, at) PROVE Goal
  <2>1. PICK t : t = PurgeSome(table, now)
    OBVIOUS
  <2>2. Good(t) /\ View(t) \in Map!Remains
    BY <1>2, <2>1
  <2>3. table' = SetExpiry(t, FindRow(t, k), at) /\ now' = now /\ at \in Nat
    BY <1>8, <2>1, TimeNat DEF Expire
  <2>4. View(table') = Expires(View(t), k, at)
    BY <2>2, <2>3, ExpirySet
  <2>5. Map!Expire(k, at)
    BY <1>0, <2>2, <2>3, <2>4 DEF Map!Expire, Expires
  <2>6. QED  BY <2>5 DEF Goal, Map!Next
<1>9. ASSUME NEW k \in Keys, Delete(k) \/ DeleteAt(k) PROVE Goal
  <2>1. PICK t : t = PurgeSome(table, now)
    OBVIOUS
  <2>2. Good(t) /\ View(t) \in Map!Remains
    BY <1>2, <2>1
  <2>3. table' = Remove(t, FindRow(t, k)) /\ now' = now
    BY <1>9, <2>1, <2>2, Looked DEF Delete, DeleteAt
  <2>4. View(table') = Map!Without(View(t), {k})
    BY <2>2, <2>3, RemoveDeletes
  <2>5. Map!Delete(k)
    BY <1>0, <2>2, <2>3, <2>4 DEF Map!Delete
  <2>6. QED  BY <2>5 DEF Goal, Map!Next
<1>10. ASSUME ClearAll PROVE Goal
  <2>1. Good(Clear(table)) /\ Live(Clear(table)) = {}
    BY ClearKeeps, LiveClear
  <2>2. View(table') = [k \in Keys |-> Map!Absent] /\ now' = now
    BY <1>10, <2>1, ViewSays DEF ClearAll
  <2>3. QED  BY <1>0, <2>2 DEF Goal, Map!Next, Map!Clear
<1>11. ASSUME PurgeExpired \/ PurgeThrottled PROVE Goal
  BY <1>2, <1>11, <1>c DEF PurgeExpired, PurgeThrottled
<1>12. ASSUME Tick PROVE Goal
  <2>1. Map!Tick
    BY <1>0, <1>12 DEF Tick, Map!Tick
  <2>2. QED  BY <2>1 DEF Goal, Map!Next
<1>13. ASSUME UNCHANGED vars PROVE Goal
  BY <1>13, <1>b DEF vars
<1>14. Goal
  BY <1>4, <1>5, <1>6, <1>7, <1>8, <1>9, <1>10, <1>11, <1>12, <1>13 DEF Next
<1>15. QED  BY <1>14 DEF Goal

\* Tombstones, reused rows, purges that stop half way and the two ways to
\* address a row are not to be seen: a table of the Zan runtime is a bounded map
\* whose expired rows may linger.  A C table is not: a reused row there has
\* the key of the row that died.
THEOREM MapIsImplemented ==
    ASSUME Lane = "Zan"
    PROVE  Spec => ImplementsMap
<1>1. Init => Map!Init
  <2> SUFFICES ASSUME Init PROVE Map!Init
    OBVIOUS
  <2>1. View(Empty) = [k \in Keys |-> Map!Absent]
    BY EmptyGood, ViewSays
  <2>2. QED  BY <2>1 DEF Init, Map!Init
<1>2. IInv /\ [Next]_vars => [Map!Next]_Map!vars
  BY StepImplements DEF IInv
<1>3. QED  BY <1>1, <1>2, AlwaysGood, PTL DEF Spec, ImplementsMap, Map!Spec
=============================================================================
