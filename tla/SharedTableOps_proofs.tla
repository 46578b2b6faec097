----------------------- MODULE SharedTableOps_proofs -----------------------
(***************************************************************************)
(* The row store keeps its count, its bound and its two ways to a row in   *)
(* step, for any keys, capacity and batch.  One predicate on tables, Good, *)
(* is shown to hold of the empty table and of what every operator makes of *)
(* a table that has it.  Good is needed as a whole: the bound on the list  *)
(* holds because a row is appended only when no row is dead, that is when  *)
(* the exact count is the length; and one row per key holds in the Zan     *)
(* runtime because a live row has the key of its hash.                     *)
(*                                                                         *)
(* The second part reads a table of the Zan runtime as the set of its live *)
(* rows, Live, of which a key has at most one, and says what each operator *)
(* does to that set.  What is built on the row store is proved from this.  *)
(***************************************************************************)
EXTENDS SharedTableOps, SequenceTheorems, FiniteSetTheorems,
        WellFoundedInduction, TLAPS

\* A live row is labelled with the key it was made for, one row to a key.
Labelled(t) ==
    Lane = "Zan" =>
        /\ \A i \in Alive(t) : t.rows[i].key = t.rows[i].hash
        /\ \A i, j \in Alive(t) : t.rows[i].key = t.rows[j].key => i = j

Good(t) ==
    /\ t \in Table
    /\ t.count = Cardinality(Alive(t))
    /\ Len(t.rows) <= MaxRows
    /\ Labelled(t)

\* The rows of a table are indexed by an interval, and finitely many live.
LEMMA TableRows ==
    ASSUME NEW t \in Table
    PROVE  /\ t.rows \in Seq(Row) /\ t.count \in Nat
           /\ Len(t.rows) \in Nat /\ DOMAIN t.rows = 1..Len(t.rows)
           /\ \A i \in DOMAIN t.rows : t.rows[i] \in Row
           /\ Alive(t) \subseteq DOMAIN t.rows
           /\ IsFiniteSet(DOMAIN t.rows) /\ IsFiniteSet(Alive(t))
<1>1. t.rows \in Seq(Row) /\ t.count \in Nat
  BY DEF Table
<1>2. Len(t.rows) \in Nat /\ DOMAIN t.rows = 1..Len(t.rows)
  BY <1>1, LenProperties
<1>3. \A i \in DOMAIN t.rows : t.rows[i] \in Row
  BY <1>1, <1>2, ElementOfSeq
<1>4. Alive(t) \subseteq DOMAIN t.rows
  BY DEF Alive
<1>5. IsFiniteSet(DOMAIN t.rows)
  BY <1>2, FS_Interval
<1>6. QED  BY <1>1, <1>2, <1>3, <1>4, <1>5, FS_Subset

\* The capacity leaves room for at least one row, so MaxRows is a length.
LEMMA CapacityType == MaxRows \in Nat /\ Cap \in Nat \ {0} /\ Cap \div 8 \in Nat
BY CapNat DEF MaxRows

\* The two runtimes test the same load factor: the comment in the Zan runtime
\* that the C test is off by one for capacities that are not multiples of 8
\* does not apply to this form of it.
THEOREM LoadFactorsAgree ==
    ASSUME NEW n \in Nat
    PROVE  n * 8 >= Cap * 7 <=> n >= Cap - Cap \div 8
<1>1. PICK q \in Nat, r \in 0..7 : Cap = 8 * q + r
  <2>1. Cap = 8 * (Cap \div 8) + (Cap % 8) /\ Cap % 8 \in 0..7
    BY CapNat
  <2>2. QED  BY <2>1, CapacityType
<1>2. Cap \div 8 = q
  BY <1>1
<1>3. QED  BY <1>1, <1>2

\* Where there is room by the load factor, another row fits.
LEMMA RoomFits ==
    ASSUME NEW t \in Table, ~Full(t)
    PROVE  t.count + 1 <= MaxRows
BY LoadFactorsAgree, CapacityType, TableRows DEF Full, MaxRows

\* FirstOf finds a row of a set of rows that is not empty.
LEMMA FirstIsIn ==
    ASSUME NEW n \in Nat, NEW S \in SUBSET (1..n)
    PROVE  /\ S = {} => FirstOf(S) = 0
           /\ S # {} => FirstOf(S) \in S
<1>1. ASSUME S # {} PROVE \E i \in S : \A j \in S : j <= i
  <2> DEFINE D == {n - i : i \in S}
             R == OpToRel(<, Nat)
  <2>1. D \subseteq Nat /\ D # {}
    BY <1>1
  <2>2. PICK x \in D : \A y \in D : ~(<<y, x>> \in R)
    BY <2>1, NatLessThanWellFounded, WFMin
  <2>3. \A y \in D : ~(y < x)
    BY <2>1, <2>2 DEF OpToRel
  <2>4. PICK i \in S : x = n - i
    OBVIOUS
  <2>5. ASSUME NEW j \in S PROVE j <= i
    <3>1. n - j \in D
      OBVIOUS
    <3>2. ~(n - j < n - i)
      BY <2>3, <2>4, <3>1
    <3>3. QED  BY <3>2
  <2>6. QED  BY <2>5
<1>2. QED  BY <1>1 DEF FirstOf

----------------------------------------------------------------------------
\* Rows removed: the count drops by as many, and nothing else is disturbed.
LEMMA KillKeeps ==
    ASSUME NEW t, Good(t), NEW S \in SUBSET Alive(t)
    PROVE  Good(Kill(t, S)) /\ Alive(Kill(t, S)) = Alive(t) \ S
<1> DEFINE u == Kill(t, S)
           row(i) == [t.rows[i] EXCEPT !.alive = @ /\ i \notin S]
<1>1. t \in Table /\ t.rows \in Seq(Row) /\ t.count \in Nat
  BY TableRows DEF Good
<1>2. /\ Len(t.rows) \in Nat /\ DOMAIN t.rows = 1..Len(t.rows)
      /\ \A i \in DOMAIN t.rows : t.rows[i] \in Row
      /\ Alive(t) \subseteq DOMAIN t.rows /\ IsFiniteSet(Alive(t))
  BY <1>1, TableRows
<1>3. u.rows = [i \in 1..Len(t.rows) |-> row(i)] /\ u.count = t.count - Cardinality(S)
  BY <1>2 DEF Kill
<1>4. ASSUME NEW i \in 1..Len(t.rows)
      PROVE  /\ row(i) \in Row
             /\ row(i).key = t.rows[i].key /\ row(i).hash = t.rows[i].hash
             /\ row(i).alive <=> t.rows[i].alive /\ i \notin S
  BY <1>2 DEF Row
<1> HIDE DEF row
<1>5. u.rows \in Seq(Row) /\ Len(u.rows) = Len(t.rows)
  <2>1. u.rows \in [1..Len(t.rows) -> Row]
    BY <1>3, <1>4
  <2>2. QED  BY <2>1, <1>2
<1>6. Alive(u) = Alive(t) \ S
  BY <1>2, <1>3, <1>4 DEF Alive
<1>7. /\ Cardinality(Alive(t) \ S) = Cardinality(Alive(t)) - Cardinality(S)
      /\ Cardinality(Alive(t) \ S) \in Nat
  <2>1. Alive(t) \cap S = S
    OBVIOUS
  <2>2. Cardinality(Alive(t) \ S) = Cardinality(Alive(t)) - Cardinality(Alive(t) \cap S)
    BY <1>2, FS_Difference
  <2>3. IsFiniteSet(Alive(t) \ S)
    BY <1>2, FS_Difference
  <2>4. QED  BY <2>1, <2>2, <2>3, FS_CardinalityType
<1>8. u.count = Cardinality(Alive(u)) /\ u.count \in Nat
  BY <1>3, <1>6, <1>7 DEF Good
<1>9. u \in Table
  <2>1. u = [rows |-> u.rows, count |-> u.count]
    BY DEF Kill
  <2> HIDE DEF u
  <2>2. QED  BY <2>1, <1>5, <1>8 DEF Table
<1>10. Labelled(u)
  <2>1. \A i \in Alive(u) : /\ i \in Alive(t) /\ u.rows[i].key = t.rows[i].key
                            /\ u.rows[i].hash = t.rows[i].hash
    BY <1>2, <1>3, <1>4, <1>6
  <2> HIDE DEF u
  <2>2. Labelled(t)
    BY DEF Good
  <2>3. QED  BY <2>1, <2>2 DEF Labelled
<1>11. Len(u.rows) <= MaxRows
  BY <1>5 DEF Good
<1> HIDE DEF u
<1>12. Good(u) /\ Alive(u) = Alive(t) \ S
  BY <1>6, <1>8, <1>9, <1>10, <1>11 DEF Good
<1>13. QED  BY <1>12 DEF u

\* The purges remove rows that live.
LEMMA PurgesKeep ==
    ASSUME NEW t, Good(t), NEW at
    PROVE  /\ Good(Purge(t, at)) /\ Good(PurgeBatch(t, at))
           /\ Good(PurgeSome(t, at)) /\ Good(PurgeFirst(t, at))
<1>1. ExpiredAt(t, at) \in SUBSET Alive(t)
  BY DEF ExpiredAt
<1>2. {i \in ExpiredAt(t, at) :
          Cardinality({j \in ExpiredAt(t, at) : j > i}) < Batch} \in SUBSET Alive(t)
  BY <1>1
<1>3. Good(Purge(t, at)) /\ Good(PurgeBatch(t, at))
  BY <1>1, <1>2, KillKeeps DEF Purge, PurgeBatch
<1>4. QED  BY <1>3 DEF PurgeSome, PurgeFirst

\* Clearing removes them all.
LEMMA ClearKeeps ==
    ASSUME NEW t, Good(t)
    PROVE  Good(Clear(t))
<1> DEFINE u == Clear(t)
           row(i) == [t.rows[i] EXCEPT !.alive = FALSE]
<1>1. t \in Table /\ t.rows \in Seq(Row)
  BY TableRows DEF Good
<1>2. /\ Len(t.rows) \in Nat /\ DOMAIN t.rows = 1..Len(t.rows)
      /\ \A i \in DOMAIN t.rows : t.rows[i] \in Row
  BY <1>1, TableRows
<1>3. u.rows = [i \in 1..Len(t.rows) |-> row(i)] /\ u.count = 0
  BY <1>2 DEF Clear
<1>4. \A i \in 1..Len(t.rows) : row(i) \in Row /\ ~row(i).alive
  BY <1>2 DEF Row
<1> HIDE DEF row
<1>5. u.rows \in Seq(Row) /\ Len(u.rows) = Len(t.rows)
  <2>1. u.rows \in [1..Len(t.rows) -> Row]
    BY <1>3, <1>4
  <2>2. QED  BY <2>1, <1>2
<1>6. Alive(u) = {}
  BY <1>2, <1>3, <1>4 DEF Alive
<1>7. u \in Table
  <2>1. u = [rows |-> u.rows, count |-> u.count]
    BY DEF Clear
  <2> HIDE DEF u
  <2>2. QED  BY <2>1, <1>3, <1>5 DEF Table
<1> HIDE DEF u
<1>8. Good(u)
  BY <1>3, <1>5, <1>6, <1>7, FS_EmptySet DEF Good, Labelled
<1>9. QED  BY <1>8 DEF u

----------------------------------------------------------------------------
\* A live row may take other data and another expiry, and its own hash again.
LEMMA TouchKeeps ==
    ASSUME NEW t, Good(t), NEW i \in Alive(t), NEW x \in Row,
           x.alive, x.key = t.rows[i].key,
           Lane = "Zan" => x.hash = t.rows[i].hash
    PROVE  /\ Good([t EXCEPT !.rows[i] = x])
           /\ Alive([t EXCEPT !.rows[i] = x]) = Alive(t)
<1> DEFINE rows == [t.rows EXCEPT ![i] = x]
           u == [rows |-> rows, count |-> t.count]
<1>1. t \in Table /\ t.rows \in Seq(Row) /\ t.count \in Nat
  BY TableRows DEF Good
<1>2. /\ Len(t.rows) \in Nat /\ DOMAIN t.rows = 1..Len(t.rows)
      /\ Alive(t) \subseteq DOMAIN t.rows
  BY <1>1, TableRows
<1>3. i \in 1..Len(t.rows)
  BY <1>2
<1>4. /\ rows \in Seq(Row) /\ Len(rows) = Len(t.rows)
      /\ \A j \in 1..Len(t.rows) : rows[j] = IF j = i THEN x ELSE t.rows[j]
  BY <1>1, <1>3, ExceptSeq
<1>5. DOMAIN rows = 1..Len(t.rows)
  BY <1>2
<1>6. [t EXCEPT !.rows[i] = x] = u
  BY <1>1 DEF Table
<1> HIDE DEF rows
<1>7. Alive(u) = Alive(t)
  BY <1>2, <1>4, <1>5 DEF Alive
<1>8. Labelled(u)
  <2>1. \A j \in Alive(u) : /\ j \in Alive(t) /\ u.rows[j].key = t.rows[j].key
                            /\ Lane = "Zan" => u.rows[j].hash = t.rows[j].hash
    BY <1>2, <1>4, <1>7
  <2> HIDE DEF u
  <2>2. QED  BY <2>1 DEF Labelled, Good
<1>9. u \in Table /\ Len(u.rows) <= MaxRows /\ u.count = Cardinality(Alive(u))
  BY <1>1, <1>4, <1>7 DEF Good, Table
<1> HIDE DEF u
<1>10. QED  BY <1>6, <1>7, <1>8, <1>9 DEF Good

\* A row for a key that has none may be added where no live row is.
LEMMA AddKeeps ==
    ASSUME NEW t, Good(t), NEW k \in Keys,
           \A i \in Alive(t) : t.rows[i].key # k,
           NEW rows \in Seq(Row), Len(rows) <= MaxRows,
           NEW j \in (1..Len(rows)) \ Alive(t),
           rows[j].alive, Lane = "Zan" => rows[j].key = k /\ rows[j].hash = k,
           {i \in 1..Len(rows) : rows[i].alive} = Alive(t) \cup {j},
           \A i \in Alive(t) : rows[i] = t.rows[i]
    PROVE  LET u == [rows |-> rows, count |-> t.count + 1]
           IN  Good(u) /\ j \in Alive(u)
<1> DEFINE u == [rows |-> rows, count |-> t.count + 1]
<1>1. t \in Table /\ t.count \in Nat /\ IsFiniteSet(Alive(t))
  BY TableRows DEF Good
<1>2. DOMAIN rows = 1..Len(rows)
  BY LenProperties
<1>3. Alive(u) = Alive(t) \cup {j}
  BY <1>2 DEF Alive
<1>4. Cardinality(Alive(t) \cup {j}) = Cardinality(Alive(t)) + 1
  BY <1>1, FS_AddElement
<1>5. u.count = Cardinality(Alive(u))
  <2>1. u.count = t.count + 1 /\ t.count = Cardinality(Alive(t))
    BY DEF Good
  <2> HIDE DEF u
  <2>2. QED  BY <1>3, <1>4, <2>1
<1>51. u \in Table /\ Len(u.rows) <= MaxRows
  BY <1>1 DEF Table
<1>6. Labelled(u)
  <2>1. u.rows = rows
    OBVIOUS
  <2> HIDE DEF u
  <2>2. QED  BY <1>3, <2>1 DEF Labelled, Good
<1> HIDE DEF u
<1>7. Good(u) /\ j \in Alive(u)
  BY <1>3, <1>5, <1>51, <1>6 DEF Good
<1>8. QED  BY <1>7 DEF u

\* A key that finds no row has none, and one that finds a row finds its own.
LEMMA Finds ==
    ASSUME NEW t \in Table, NEW k
    PROVE  /\ FindRow(t, k) = 0 => \A i \in Alive(t) : t.rows[i].key # k
           /\ FindRow(t, k) # 0 => /\ FindRow(t, k) \in Alive(t)
                                  /\ t.rows[FindRow(t, k)].key = k
           /\ FindRowHash(t, k) # 0 => FindRowHash(t, k) \in Alive(t)
           /\ FirstOf(Dead(t)) = 0 => Alive(t) = DOMAIN t.rows
           /\ FirstOf(Dead(t)) # 0 => FirstOf(Dead(t)) \in DOMAIN t.rows \ Alive(t)
<1> DEFINE K == {i \in Alive(t) : t.rows[i].key = k}
           H == {i \in Alive(t) : t.rows[i].hash = k}
<1>1. /\ Len(t.rows) \in Nat /\ DOMAIN t.rows = 1..Len(t.rows)
      /\ Alive(t) \subseteq DOMAIN t.rows
  BY TableRows
<1>2. K \in SUBSET (1..Len(t.rows)) /\ H \in SUBSET (1..Len(t.rows))
      /\ Dead(t) \in SUBSET (1..Len(t.rows))
  BY <1>1 DEF Dead
<1>3. FindRow(t, k) = FirstOf(K) /\ FindRowHash(t, k) = FirstOf(H)
  BY DEF FindRow, FindRowHash
<1>4. ASSUME NEW S \in SUBSET (1..Len(t.rows))
      PROVE  (S = {} <=> FirstOf(S) = 0) /\ (FirstOf(S) # 0 => FirstOf(S) \in S)
  <2>1. 0 \notin S
    BY <1>1
  <2>2. /\ S = {} => FirstOf(S) = 0
        /\ S # {} => FirstOf(S) \in S
    BY <1>1, FirstIsIn
  <2>3. QED  BY <2>1, <2>2
<1>5. FindRow(t, k) = 0 => K = {}
  BY <1>2, <1>3, <1>4
<1>6. FindRow(t, k) # 0 => FindRow(t, k) \in K
  BY <1>2, <1>3, <1>4
<1>7. FindRowHash(t, k) # 0 => FindRowHash(t, k) \in H
  BY <1>2, <1>3, <1>4
<1>8. /\ FirstOf(Dead(t)) = 0 => Dead(t) = {}
      /\ FirstOf(Dead(t)) # 0 => FirstOf(Dead(t)) \in Dead(t)
  BY <1>2, <1>4
<1>9. QED  BY <1>1, <1>5, <1>6, <1>7, <1>8 DEF Dead

\* Columns of a new row are zero.
LEMMA FreshRow ==
    ASSUME NEW label \in Keys, NEW k \in Keys
    PROVE  /\ Fresh(label, k) \in Row /\ Fresh(label, k).alive
           /\ Fresh(label, k).key = label /\ Fresh(label, k).hash = k
<1>1. Zeroes \in Data
  BY DEF Zeroes, Data
<1>2. QED  BY <1>1 DEF Fresh, Row

\* A row returned for a key lives, and in the Zan runtime has its label.
Serves(r, k) ==
    r.at # 0 => /\ r.at \in Alive(r.t)
                /\ Lane = "Zan" => r.t.rows[r.at].key = k

\* The row of a key: found, reused or appended, it keeps the table good.
LEMMA RowForKeeps ==
    ASSUME NEW t, Good(t), NEW k \in Keys
    PROVE  LET r == RowFor(t, k)
           IN  Good(r.t) /\ Serves(r, k)
<1> DEFINE dead == FirstOf(Dead(t))
           made(rows, i) == [t |-> [rows |-> rows, count |-> t.count + 1], at |-> i]
<1>1. t \in Table /\ t.rows \in Seq(Row) /\ t.count \in Nat
  BY TableRows DEF Good
<1>2. /\ Len(t.rows) \in Nat /\ DOMAIN t.rows = 1..Len(t.rows)
      /\ Alive(t) \subseteq DOMAIN t.rows
      /\ \A i \in DOMAIN t.rows : t.rows[i] \in Row
  BY <1>1, TableRows
<1>3. CASE FindRow(t, k) # 0
  BY <1>1, <1>3, Finds DEF RowFor, Serves
<1>4. CASE FindRow(t, k) = 0 /\ Full(t)
  BY <1>4 DEF RowFor, Serves
<1>5. ASSUME FindRow(t, k) = 0, ~Full(t), dead # 0
      PROVE  LET r == RowFor(t, k)
             IN  Good(r.t) /\ Serves(r, k)
  <2> DEFINE rows == Reused(t, dead, k)
             x == rows[dead]
  <2>1. dead \in (1..Len(t.rows)) \ Alive(t)
    BY <1>1, <1>2, <1>5, Finds
  <2>2. t.rows[dead].key \in Keys
    BY <1>2, <2>1 DEF Row
  <2>3. PICK label \in Keys : /\ rows = [t.rows EXCEPT ![dead] = Fresh(label, k)]
                              /\ Lane = "Zan" => label = k
    BY <2>2, LaneType DEF Reused, Clean, Stale
  <2>4. /\ rows \in Seq(Row) /\ Len(rows) = Len(t.rows)
        /\ \A j \in 1..Len(t.rows) :
              rows[j] = IF j = dead THEN Fresh(label, k) ELSE t.rows[j]
    BY <1>1, <2>1, <2>3, FreshRow, ExceptSeq
  <2> HIDE DEF rows
  <2>5. /\ rows[dead].alive
        /\ Lane = "Zan" => rows[dead].key = k /\ rows[dead].hash = k
    BY <2>1, <2>3, <2>4, FreshRow
  <2> HIDE DEF dead
  <2>6. {i \in 1..Len(rows) : rows[i].alive} = Alive(t) \cup {dead}
    BY <1>2, <2>1, <2>4, <2>5 DEF Alive
  <2>7. \A i \in Alive(t) : rows[i] = t.rows[i]
    BY <1>2, <2>1, <2>4
  <2>8. \A i \in Alive(t) : t.rows[i].key # k
    BY <1>1, <1>5, Finds
  <2>9. Len(rows) <= MaxRows /\ dead \in (1..Len(rows)) \ Alive(t)
    BY <2>1, <2>4 DEF Good
  <2>10. Good(made(rows, dead).t) /\ Serves(made(rows, dead), k)
    BY <2>4, <2>5, <2>6, <2>7, <2>8, <2>9, AddKeeps DEF Serves
  <2>11. RowFor(t, k) = made(rows, dead)
    BY <1>5 DEF RowFor, dead, rows
  <2>12. QED  BY <2>10, <2>11
<1>6. ASSUME FindRow(t, k) = 0, ~Full(t), dead = 0
      PROVE  LET r == RowFor(t, k)
             IN  Good(r.t) /\ Serves(r, k)
  <2> DEFINE n == Len(t.rows)
             rows == Append(t.rows, Fresh(k, k))
  <2>1. Alive(t) = 1..n
    BY <1>1, <1>2, <1>6, Finds
  <2>2. t.count = n
    BY <1>2, <2>1, FS_Interval DEF Good
  <2>3. n + 1 <= MaxRows
    BY <1>1, <1>6, <2>2, RoomFits
  <2>4. /\ rows \in Seq(Row) /\ Len(rows) = n + 1
        /\ rows[n + 1] = Fresh(k, k) /\ \A i \in 1..n : rows[i] = t.rows[i]
    BY <1>1, FreshRow, AppendProperties
  <2> HIDE DEF rows
  <2>5. rows[n + 1].alive /\ rows[n + 1].key = k /\ rows[n + 1].hash = k
    BY <2>4, FreshRow
  <2>6. \A i \in 1..n : t.rows[i].alive
    BY <2>1 DEF Alive
  <2> HIDE DEF n
  <2>7. n \in Nat
    BY <1>2 DEF n
  <2>8. {i \in 1..Len(rows) : rows[i].alive} = Alive(t) \cup {n + 1}
    BY <2>1, <2>4, <2>5, <2>6, <2>7
  <2>9. \A i \in Alive(t) : t.rows[i].key # k
    BY <1>1, <1>6, Finds
  <2>10. n + 1 \in (1..Len(rows)) \ Alive(t)
    BY <2>1, <2>4, <2>7
  <2>11. Good(made(rows, n + 1).t) /\ Serves(made(rows, n + 1), k)
    BY <2>1, <2>3, <2>4, <2>5, <2>8, <2>9, <2>10, AddKeeps DEF Serves
  <2>12. RowFor(t, k) = made(rows, n + 1)
    BY <1>6 DEF RowFor, n, rows
  <2>13. QED  BY <2>11, <2>12
<1>7. QED  BY <1>3, <1>4, <1>5, <1>6

\* The same by hash.
LEMMA RowForHashKeeps ==
    ASSUME NEW t, Good(t), NEW h \in Keys
    PROVE  LET r == RowForHash(t, h)
           IN  Good(r.t) /\ (r.at # 0 => r.at \in Alive(r.t))
<1> DEFINE r == RowFor(t, h)
           x == [r.t.rows[r.at] EXCEPT !.hash = h]
           u == [r.t EXCEPT !.rows[r.at] = x]
<1>1. Good(r.t) /\ Serves(r, h) /\ r.t \in Table /\ Labelled(r.t)
  BY RowForKeeps DEF Good
<1>2. CASE FindRowHash(t, h) # 0
  BY <1>2, Finds DEF RowForHash, Good
<1>3. CASE FindRowHash(t, h) = 0 /\ r.at = 0
  BY <1>1, <1>3 DEF RowForHash
<1>4. ASSUME FindRowHash(t, h) = 0, r.at # 0
      PROVE  LET q == RowForHash(t, h)
             IN  Good(q.t) /\ (q.at # 0 => q.at \in Alive(q.t))
  <2>1. RowForHash(t, h) = [r EXCEPT !.t.rows[r.at].hash = h]
    BY <1>4 DEF RowForHash
  <2>2. \E rows, i : r = [t |-> rows, at |-> i]
    BY DEF RowFor
  <2> HIDE DEF r
  <2>3. RowForHash(t, h).t = u /\ RowForHash(t, h).at = r.at
    BY <2>1, <2>2
  <2>4. r.at \in Alive(r.t) /\ r.t.rows[r.at] \in Row
    BY <1>1, <1>4, TableRows DEF Serves
  <2>5. Lane = "Zan" => r.t.rows[r.at].hash = h
    BY <1>1, <1>4, <2>4 DEF Serves, Labelled
  <2>6. x \in Row /\ x.alive /\ x.key = r.t.rows[r.at].key /\ x.hash = h
    BY <2>4 DEF Row, Alive
  <2> HIDE DEF x
  <2>7. Good(u) /\ Alive(u) = Alive(r.t)
    BY <1>1, <2>4, <2>5, <2>6, TouchKeeps
  <2>8. QED  BY <2>3, <2>4, <2>7
<1>5. QED  BY <1>2, <1>3, <1>4

\* Both leave a good table with a live row, which is what writes need.
Ready(r) == Good(r.t) /\ (r.at # 0 => r.at \in Alive(r.t))

\* Both ways to ask for a row answer a good table and a live row in it, or 0.
LEMMA RowsReady ==
    ASSUME NEW t, Good(t), NEW k \in Keys
    PROVE  Ready(RowFor(t, k)) /\ Ready(RowForHash(t, k))
BY RowForKeeps, RowForHashKeeps DEF Ready, Serves

\* A value stored in a column, an expiry, a removal.
LEMMA StoreKeeps ==
    ASSUME NEW r, Good(r.t), r.at # 0 => r.at \in Alive(r.t),
           NEW column \in Columns, NEW v \in Int
    PROVE  Good(Store(r, column, v)) /\ Alive(Store(r, column, v)) = Alive(r.t)
<1>1. CASE r.at = 0
  BY <1>1 DEF Store
<1>2. ASSUME r.at # 0
      PROVE  Good(Store(r, column, v)) /\ Alive(Store(r, column, v)) = Alive(r.t)
  <2> DEFINE row == r.t.rows[r.at]
             x == [row EXCEPT !.data[column] = v]
  <2>1. r.t \in Table /\ r.at \in Alive(r.t) /\ row \in Row /\ row.alive
    BY <1>2, TableRows DEF Good, Alive
  <2>2. [row.data EXCEPT ![column] = v] \in Data
    BY <2>1 DEF Row, Data
  <2>3. x \in Row /\ x.alive /\ x.key = row.key /\ x.hash = row.hash
    BY <2>1, <2>2 DEF Row
  <2>4. Store(r, column, v) = [r.t EXCEPT !.rows[r.at] = x]
    BY <1>2 DEF Store
  <2> HIDE DEF x
  <2>5. QED  BY <2>1, <2>3, <2>4, TouchKeeps
<1>3. QED  BY <1>1, <1>2

\* An expiry set on a live row keeps the table good.
LEMMA SetExpiryKeeps ==
    ASSUME NEW t, Good(t), NEW i, i # 0 => i \in Alive(t), NEW at \in Nat
    PROVE  Good(SetExpiry(t, i, at))
<1>1. CASE i = 0
  BY <1>1 DEF SetExpiry
<1>2. ASSUME i # 0 PROVE Good(SetExpiry(t, i, at))
  <2> DEFINE row == t.rows[i]
             x == [row EXCEPT !.expires = at]
  <2>1. t \in Table /\ i \in Alive(t) /\ row \in Row /\ row.alive
    BY <1>2, TableRows DEF Good, Alive
  <2>2. x \in Row /\ x.alive /\ x.key = row.key /\ x.hash = row.hash
    BY <2>1 DEF Row
  <2>3. SetExpiry(t, i, at) = [t EXCEPT !.rows[i] = x]
    BY <1>2 DEF SetExpiry
  <2> HIDE DEF x
  <2>4. QED  BY <2>1, <2>2, <2>3, TouchKeeps
<1>3. QED  BY <1>1, <1>2

\* A live row removed keeps the table good.
LEMMA RemoveKeeps ==
    ASSUME NEW t, Good(t), NEW i, i # 0 => i \in Alive(t)
    PROVE  Good(Remove(t, i))
<1>1. CASE i = 0
  BY <1>1 DEF Remove
<1>2. CASE i # 0
  BY <1>2, KillKeeps DEF Remove
<1>3. QED  BY <1>1, <1>2
----------------------------------------------------------------------------
(* Tables of the Zan runtime as sets of live rows.                         *)

Live(t) == {t.rows[i] : i \in Alive(t)}

\* A live row has its own key, for its label and for its hash.
LEMMA LiveRows ==
    ASSUME NEW t, Good(t), Lane = "Zan"
    PROVE  /\ \A i \in Alive(t) : t.rows[i] \in Live(t)
           /\ \A x \in Live(t) : x \in Row /\ x.alive /\ x.hash = x.key
           /\ \A x, y \in Live(t) : x.key = y.key => x = y
           /\ \A i, j \in Alive(t) : t.rows[i].key = t.rows[j].key => i = j
<1>1. \A i \in Alive(t) : t.rows[i] \in Row /\ t.rows[i].alive
  BY TableRows DEF Good, Alive
<1>2. /\ \A i \in Alive(t) : t.rows[i].key = t.rows[i].hash
      /\ \A i, j \in Alive(t) : t.rows[i].key = t.rows[j].key => i = j
  BY DEF Good, Labelled
<1>3. QED  BY <1>1, <1>2 DEF Live

\* Looking a key up, by itself or by its hash, finds its live row if it has one.
LEMMA Looked ==
    ASSUME NEW t, Good(t), Lane = "Zan", NEW k
    PROVE  /\ FindRowHash(t, k) = FindRow(t, k)
           /\ FindRow(t, k) = 0 <=> \A x \in Live(t) : x.key # k
           /\ FindRow(t, k) # 0 => /\ FindRow(t, k) \in Alive(t)
                                  /\ t.rows[FindRow(t, k)] \in Live(t)
                                  /\ t.rows[FindRow(t, k)].key = k
<1>1. {i \in Alive(t) : t.rows[i].key = k} = {i \in Alive(t) : t.rows[i].hash = k}
  BY DEF Good, Labelled
<1>2. FindRowHash(t, k) = FindRow(t, k)
  BY <1>1 DEF FindRow, FindRowHash
<1>3. /\ FindRow(t, k) = 0 => \A i \in Alive(t) : t.rows[i].key # k
      /\ FindRow(t, k) # 0 => /\ FindRow(t, k) \in Alive(t)
                             /\ t.rows[FindRow(t, k)].key = k
  BY Finds DEF Good
<1>4. QED  BY <1>2, <1>3 DEF Live

\* Rows removed are gone and the others are as they were.
LEMMA LiveKill ==
    ASSUME NEW t, Good(t), Lane = "Zan", NEW S \in SUBSET Alive(t)
    PROVE  Live(Kill(t, S)) = Live(t) \ {t.rows[i] : i \in S}
<1>1. Alive(Kill(t, S)) = Alive(t) \ S
  BY KillKeeps
<1>2. ASSUME NEW i \in Alive(t) \ S PROVE Kill(t, S).rows[i] = t.rows[i]
  <2>1. i \in DOMAIN t.rows /\ t.rows[i] \in Row /\ t.rows[i].alive = TRUE
    BY TableRows DEF Good, Alive, Row
  <2>2. Kill(t, S).rows[i] = [t.rows[i] EXCEPT !.alive = TRUE]
    BY <2>1 DEF Kill
  <2>3. QED  BY <2>1, <2>2 DEF Row
<1>3. \A i \in Alive(t), j \in S : t.rows[i] = t.rows[j] => i = j
  BY LiveRows
<1>4. QED  BY <1>1, <1>2, <1>3 DEF Live

\* A row removed is one live row less.
LEMMA LiveRemove ==
    ASSUME NEW t, Good(t), Lane = "Zan", NEW i \in Alive(t)
    PROVE  i # 0 /\ Live(Remove(t, i)) = Live(t) \ {t.rows[i]}
<1>1. i # 0
  BY TableRows DEF Good
<1>2. Live(Kill(t, {i})) = Live(t) \ {t.rows[j] : j \in {i}}
  BY LiveKill
<1>3. QED  BY <1>1, <1>2 DEF Remove

\* A purge takes rows that have expired, in the Zan runtime not always all.
LEMMA LivePurge ==
    ASSUME NEW t, Good(t), Lane = "Zan", NEW at,
           NEW u \in {Purge(t, at), PurgeBatch(t, at), PurgeSome(t, at),
                      PurgeFirst(t, at)}
    PROVE  /\ Good(u) /\ Live(u) \subseteq Live(t)
           /\ \A x \in Live(t) \ Live(u) : x.expires # 0 /\ x.expires <= at
<1>1. Good(u)
  BY PurgesKeep
<1>2. ASSUME NEW S \in SUBSET ExpiredAt(t, at), u = Kill(t, S)
      PROVE  /\ Live(u) \subseteq Live(t)
             /\ \A x \in Live(t) \ Live(u) : x.expires # 0 /\ x.expires <= at
  <2>1. S \in SUBSET Alive(t)
    BY DEF ExpiredAt
  <2>2. Live(u) = Live(t) \ {t.rows[i] : i \in S}
    BY <1>2, <2>1, LiveKill
  <2>3. \A i \in S : t.rows[i].expires # 0 /\ t.rows[i].expires <= at
    BY DEF ExpiredAt
  <2>4. QED  BY <2>2, <2>3
<1>3. \/ u = t
      \/ u = Kill(t, ExpiredAt(t, at))
      \/ u = Kill(t, {i \in ExpiredAt(t, at) :
                        Cardinality({j \in ExpiredAt(t, at) : j > i}) < Batch})
  BY DEF Purge, PurgeBatch, PurgeSome, PurgeFirst
<1>4. QED  BY <1>1, <1>2, <1>3

\* The table a component starts with.
LEMMA EmptyGood == Good(Empty) /\ Live(Empty) = {}
<1>1. Empty = [rows |-> <<>>, count |-> 0]
  BY DEF Empty
<1>2. <<>> \in Seq(Row) /\ Len(<<>>) = 0 /\ DOMAIN <<>> = {}
  BY EmptySeq
<1>3. Alive(Empty) = {}
  BY <1>1, <1>2 DEF Alive
<1>4. Empty \in Table /\ Len(Empty.rows) <= MaxRows /\ Empty.count = 0
  BY <1>1, <1>2, CapacityType DEF Table
<1>5. QED  BY <1>3, <1>4, FS_EmptySet DEF Good, Labelled, Live

\* An emptied table has no live row.
LEMMA LiveClear ==
    ASSUME NEW t, Good(t)
    PROVE  Live(Clear(t)) = {}
<1>1. \A i \in DOMAIN t.rows : t.rows[i] \in Row
  BY TableRows DEF Good
<1>2. Alive(Clear(t)) = {}
  BY <1>1 DEF Alive, Clear, Row
<1>3. QED  BY <1>2 DEF Live

\* What a live index of a good table leads to.
LEMMA AliveRow ==
    ASSUME NEW t, Good(t), NEW i \in Alive(t)
    PROVE  /\ t \in Table /\ i \in DOMAIN t.rows /\ i # 0
           /\ t.rows[i] \in Row /\ t.rows[i].alive
<1>1. t \in Table
  BY DEF Good
<1>2. i \in DOMAIN t.rows /\ DOMAIN t.rows = 1..Len(t.rows) /\ Len(t.rows) \in Nat
  BY <1>1, TableRows
<1>3. t.rows[i] \in Row
  BY <1>1, <1>2, TableRows
<1>4. t.rows[i].alive
  BY DEF Alive
<1>5. QED  BY <1>1, <1>2, <1>3, <1>4

\* A row of a key that takes other data or another expiry is the key's row.
LEMMA LiveTouch ==
    ASSUME NEW t, Good(t), Lane = "Zan", NEW i \in Alive(t), NEW x \in Row,
           x.alive, x.key = t.rows[i].key, x.hash = t.rows[i].hash
    PROVE  /\ Good([t EXCEPT !.rows[i] = x])
           /\ Live([t EXCEPT !.rows[i] = x]) = (Live(t) \ {t.rows[i]}) \cup {x}
<1> DEFINE u == [t EXCEPT !.rows[i] = x]
<1>1. Good(u) /\ Alive(u) = Alive(t)
  BY TouchKeeps
<1>2. t \in Table /\ Alive(t) \subseteq DOMAIN t.rows
  BY TableRows DEF Good
<1>3. \A j \in Alive(t) : u.rows[j] = IF j = i THEN x ELSE t.rows[j]
  BY <1>2 DEF Table
<1>4. \A j \in Alive(t) : t.rows[j] = t.rows[i] => j = i
  BY LiveRows
<1> HIDE DEF u
<1>5. Live(u) = (Live(t) \ {t.rows[i]}) \cup {x}
  BY <1>1, <1>3, <1>4 DEF Live
<1>6. QED  BY <1>1, <1>5 DEF u

\* The row of a key is the one there is, or a fresh one where the load factor
\* leaves room.
LEMMA LiveRowFor ==
    ASSUME NEW t, Good(t), Lane = "Zan", NEW k \in Keys
    PROVE  LET r == RowFor(t, k)
           IN  /\ Good(r.t)
               /\ r.at # 0 => r.at \in Alive(r.t)
               /\ FindRow(t, k) # 0 => r.t = t /\ r.at = FindRow(t, k)
               /\ FindRow(t, k) = 0 /\ Full(t) => r.t = t /\ r.at = 0
               /\ FindRow(t, k) = 0 /\ ~Full(t) =>
                      /\ r.at # 0
                      /\ r.t.rows[r.at] = Fresh(k, k)
                      /\ Live(r.t) = Live(t) \cup {Fresh(k, k)}
<1>1. LET r == RowFor(t, k) IN Good(r.t) /\ (r.at # 0 => r.at \in Alive(r.t))
  BY RowForKeeps DEF Serves
<1>2. FindRow(t, k) # 0 => RowFor(t, k) = [t |-> t, at |-> FindRow(t, k)]
  BY DEF RowFor
<1>3. FindRow(t, k) = 0 /\ Full(t) => RowFor(t, k) = [t |-> t, at |-> 0]
  BY DEF RowFor
<1>4. ASSUME FindRow(t, k) = 0, ~Full(t)
      PROVE  LET r == RowFor(t, k)
             IN  /\ r.at # 0
                 /\ r.t.rows[r.at] = Fresh(k, k)
                 /\ Live(r.t) = Live(t) \cup {Fresh(k, k)}
  <2> DEFINE dead == FirstOf(Dead(t))
  <2>1. /\ t \in Table /\ t.rows \in Seq(Row) /\ Len(t.rows) \in Nat
        /\ DOMAIN t.rows = 1..Len(t.rows) /\ Alive(t) \subseteq 1..Len(t.rows)
    BY TableRows DEF Good
  <2> DEFINE Made(rows, j) ==
           /\ RowFor(t, k) = [t |-> [rows |-> rows, count |-> t.count + 1], at |-> j]
           /\ j \notin Alive(t) /\ j # 0
           /\ DOMAIN rows = DOMAIN t.rows \cup {j}
           /\ rows[j] = Fresh(k, k)
           /\ \A i \in DOMAIN t.rows : i # j => rows[i] = t.rows[i]
  <2>2. PICK rows, j : Made(rows, j)
    <3>1. ASSUME dead # 0 PROVE Made(Reused(t, dead, k), dead)
      <4>1. dead \in DOMAIN t.rows \ Alive(t)
        BY <2>1, <3>1, Finds
      <4>2. Reused(t, dead, k) = [t.rows EXCEPT ![dead] = Fresh(k, k)]
        BY DEF Reused, Clean
      <4>3. RowFor(t, k) = [t |-> [rows |-> Reused(t, dead, k), count |-> t.count + 1],
                            at |-> dead]
        BY <1>4, <3>1 DEF RowFor
      <4> HIDE DEF dead
      <4>4. QED  BY <3>1, <4>1, <4>2, <4>3
    <3>2. ASSUME dead = 0
          PROVE  Made(Append(t.rows, Fresh(k, k)), Len(t.rows) + 1)
      <4>1. RowFor(t, k) = [t |-> [rows |-> Append(t.rows, Fresh(k, k)),
                                   count |-> t.count + 1],
                            at |-> Len(t.rows) + 1]
        BY <1>4, <3>2 DEF RowFor
      <4>2. Fresh(k, k) \in Row
        BY FreshRow
      <4>3. /\ Append(t.rows, Fresh(k, k)) \in Seq(Row)
            /\ Len(Append(t.rows, Fresh(k, k))) = Len(t.rows) + 1
            /\ \A i \in 1..Len(t.rows) : Append(t.rows, Fresh(k, k))[i] = t.rows[i]
            /\ Append(t.rows, Fresh(k, k))[Len(t.rows) + 1] = Fresh(k, k)
        BY <2>1, <4>2, AppendProperties
      <4>4. DOMAIN Append(t.rows, Fresh(k, k)) = 1..(Len(t.rows) + 1)
        BY <4>3, LenProperties
      <4>5. QED  BY <2>1, <4>1, <4>3, <4>4
    <3> HIDE DEF Made
    <3>3. QED  BY <3>1, <3>2
  <2>3. Fresh(k, k).alive
    BY FreshRow
  <2>4. \A i \in DOMAIN t.rows : i \in Alive(t) <=> t.rows[i].alive
    BY DEF Alive
  <2> DEFINE u == [rows |-> rows, count |-> t.count + 1]
  <2>5. Alive(u) \subseteq Alive(t) \cup {j} /\ Alive(t) \cup {j} \subseteq Alive(u)
    BY <2>1, <2>2, <2>3, <2>4 DEF Alive
  <2>6. Live(u) = Live(t) \cup {Fresh(k, k)}
    BY <2>1, <2>2, <2>5 DEF Live
  <2>7. QED  BY <2>2, <2>6
<1>5. QED  BY <1>1, <1>2, <1>3, <1>4

\* Asking for the row by hash makes no difference: the hash written into a new
\* row is the one it has.
LEMMA SameByHash ==
    ASSUME NEW t, Good(t), Lane = "Zan", NEW h \in Keys
    PROVE  RowForHash(t, h) = RowFor(t, h)
<1> DEFINE r == RowFor(t, h)
<1>1. FindRowHash(t, h) = FindRow(t, h)
  BY Looked
<1>2. CASE FindRow(t, h) # 0
  BY <1>1, <1>2 DEF RowForHash, RowFor
<1>3. CASE FindRow(t, h) = 0 /\ r.at = 0
  BY <1>1, <1>3 DEF RowForHash
<1>4. ASSUME FindRow(t, h) = 0, r.at # 0 PROVE RowForHash(t, h) = r
  <2>1. RowForHash(t, h) = [r EXCEPT !.t.rows[r.at].hash = h]
    BY <1>1, <1>4 DEF RowForHash
  <2>2. PICK rows, n, i : r = [t |-> [rows |-> rows, count |-> n], at |-> i]
    <3>1. t = [rows |-> t.rows, count |-> t.count]
      BY DEF Good, Table
    <3> DEFINE dead == FirstOf(Dead(t))
               Is(rows, n, i) == r = [t |-> [rows |-> rows, count |-> n], at |-> i]
    <3>2. CASE Full(t)
      <4>1. Is(t.rows, t.count, 0)
        BY <1>4, <3>1, <3>2 DEF RowFor
      <4>2. QED  BY <4>1
    <3>3. CASE ~Full(t) /\ dead # 0
      <4>1. Is(Reused(t, dead, h), t.count + 1, dead)
        BY <1>4, <3>3 DEF RowFor
      <4> HIDE DEF r
      <4>2. QED  BY <4>1
    <3>4. CASE ~Full(t) /\ dead = 0
      <4>1. Is(Append(t.rows, Fresh(h, h)), t.count + 1, Len(t.rows) + 1)
        BY <1>4, <3>4 DEF RowFor
      <4> HIDE DEF r
      <4>2. QED  BY <4>1
    <3>5. QED  BY <3>2, <3>3, <3>4
  <2>3. rows \in Seq(Row) /\ i \in DOMAIN rows /\ rows[i] \in Row /\ rows[i].hash = h
    <3>1. Good(r.t) /\ r.at \in Alive(r.t)
      BY <1>4, LiveRowFor
    <3>2. r.t.rows[r.at] = Fresh(h, h)
      <4>1. ~Full(t)
        BY <1>4, LiveRowFor
      <4>2. QED  BY <1>4, <4>1, LiveRowFor
    <3>3. r.t \in Table /\ r.at \in DOMAIN r.t.rows /\ r.t.rows[r.at] \in Row
      BY <3>1, AliveRow
    <3>4. r.t.rows \in Seq(Row) /\ Fresh(h, h).hash = h
      BY <3>3, TableRows DEF Fresh
    <3> HIDE DEF r
    <3>5. QED  BY <2>2, <3>2, <3>3, <3>4
  <2> HIDE DEF r
  <2>4. [rows[i] EXCEPT !.hash = h] = rows[i]
    BY <2>3 DEF Row
  <2>5. [rows EXCEPT ![i] = rows[i]] = rows
    BY <2>3, LenProperties
  <2>6. [r EXCEPT !.t.rows[r.at].hash = h]
           = [t |-> [rows |-> [rows EXCEPT ![i] = [rows[i] EXCEPT !.hash = h]],
                     count |-> n], at |-> i]
    BY <2>2
  <2>7. QED  BY <2>1, <2>2, <2>4, <2>5, <2>6
<1>5. QED  BY <1>2, <1>3, <1>4

\* A value stored in the row of a key.
LEMMA LiveStore ==
    ASSUME NEW r, Good(r.t), Lane = "Zan", r.at \in Alive(r.t),
           NEW column \in Columns, NEW v \in Int
    PROVE  LET x == r.t.rows[r.at]
           IN  /\ r.at # 0 /\ Good(Store(r, column, v))
               /\ Alive(Store(r, column, v)) = Alive(r.t)
               /\ Store(r, column, v).rows[r.at] = [x EXCEPT !.data[column] = v]
               /\ Live(Store(r, column, v))
                      = (Live(r.t) \ {x}) \cup {[x EXCEPT !.data[column] = v]}
<1> DEFINE x == r.t.rows[r.at]
           y == [x EXCEPT !.data[column] = v]
<1>1. r.at # 0 /\ r.t \in Table /\ x \in Row /\ x.alive /\ r.at \in DOMAIN r.t.rows
  BY AliveRow
<1>2. [x.data EXCEPT ![column] = v] \in Data
  BY <1>1 DEF Row, Data
<1>3. y \in Row /\ y.alive /\ y.key = x.key /\ y.hash = x.hash
  BY <1>1, <1>2 DEF Row
<1>4. Store(r, column, v) = [r.t EXCEPT !.rows[r.at] = y]
  BY <1>1 DEF Store
<1>5. [r.t EXCEPT !.rows[r.at] = y].rows[r.at] = y
  BY <1>1 DEF Table
<1> HIDE DEF y
<1>6. Alive([r.t EXCEPT !.rows[r.at] = y]) = Alive(r.t)
  BY <1>3, TouchKeeps
<1>7. /\ Good([r.t EXCEPT !.rows[r.at] = y])
      /\ Live([r.t EXCEPT !.rows[r.at] = y]) = (Live(r.t) \ {x}) \cup {y}
  BY <1>3, LiveTouch
<1>8. QED  BY <1>1, <1>4, <1>5, <1>6, <1>7 DEF y

\* An expiry given to the row of a key.
LEMMA LiveExpiry ==
    ASSUME NEW t, Good(t), Lane = "Zan", NEW i \in Alive(t), NEW at \in Nat
    PROVE  LET x == t.rows[i]
           IN  /\ Good(SetExpiry(t, i, at))
               /\ Live(SetExpiry(t, i, at))
                      = (Live(t) \ {x}) \cup {[x EXCEPT !.expires = at]}
<1> DEFINE x == t.rows[i]
           y == [x EXCEPT !.expires = at]
<1>1. i # 0 /\ x \in Row /\ x.alive
  BY AliveRow
<1>2. y \in Row /\ y.alive /\ y.key = x.key /\ y.hash = x.hash
  BY <1>1 DEF Row
<1>3. SetExpiry(t, i, at) = [t EXCEPT !.rows[i] = y]
  BY <1>1 DEF SetExpiry
<1> HIDE DEF y
<1>4. /\ Good([t EXCEPT !.rows[i] = y])
      /\ Live([t EXCEPT !.rows[i] = y]) = (Live(t) \ {x}) \cup {y}
  BY <1>2, LiveTouch
<1>5. QED  BY <1>3, <1>4 DEF y

\* The row of a key as it is first written, with a value and an expiry.
Written(k, column, v, at) ==
    [Fresh(k, k) EXCEPT !.data[column] = v, !.expires = at]

\* A row made for a key that had none: what taking a lease does to the table.
LEMMA LiveMade ==
    ASSUME NEW t, Good(t), Lane = "Zan", NEW k \in Keys,
           FindRow(t, k) = 0, RowFor(t, k).at # 0,
           NEW column \in Columns, NEW v \in Int, NEW at \in Nat
    PROVE  LET r == RowFor(t, k)
               u == SetExpiry(Store(r, column, v), r.at, at)
           IN  /\ Good(u)
               /\ Live(u) = Live(t) \cup {Written(k, column, v, at)}
<1> DEFINE r == RowFor(t, k)
           f == [Fresh(k, k) EXCEPT !.data[column] = v]
           u == Store(r, column, v)
<1>1. Good(r.t) /\ r.at \in Alive(r.t) /\ ~Full(t)
  BY LiveRowFor
<1>2. r.t.rows[r.at] = Fresh(k, k) /\ Live(r.t) = Live(t) \cup {Fresh(k, k)}
  BY <1>1, LiveRowFor
<1> HIDE DEF r
<1>3. /\ Good(u) /\ Alive(u) = Alive(r.t) /\ u.rows[r.at] = f
      /\ Live(u) = (Live(r.t) \ {Fresh(k, k)}) \cup {f}
  BY <1>1, <1>2, LiveStore
<1>4. \A x \in Live(t) : x.key # k
  BY Looked
<1>5. Fresh(k, k).key = k /\ f.key = k
  BY FreshRow DEF Fresh
<1> HIDE DEF f, u
<1>6. /\ Good(SetExpiry(u, r.at, at))
      /\ Live(SetExpiry(u, r.at, at)) = (Live(u) \ {f}) \cup {[f EXCEPT !.expires = at]}
  BY <1>1, <1>3, LiveExpiry
<1>7. (Live(u) \ {f}) \cup {[f EXCEPT !.expires = at]}
         = Live(t) \cup {[f EXCEPT !.expires = at]}
  BY <1>2, <1>3, <1>4, <1>5
<1>8. [f EXCEPT !.expires = at] = Written(k, column, v, at)
  BY DEF f, Written
<1>9. QED  BY <1>6, <1>7, <1>8 DEF r, u
============================================================================
