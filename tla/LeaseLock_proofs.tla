-------------------------- MODULE LeaseLock_proofs --------------------------
(***************************************************************************)
(* One lease to a key, for any requests, managers, keys, capacity, batch   *)
(* and lease, on one thread or several.                                    *)
(*                                                                         *)
(* The row store is seen as the set of its live rows.  The argument for    *)
(* one lease: whoever is inside with a number of its own and time left has *)
(* a live row of the key with that number and its own expiry; a key has    *)
(* one row.  Requests that drew one number may take each other's rows, and *)
(* nothing is said of them.  One manager on one thread gives no number     *)
(* twice, and then a key has one holder whoever asks.  All of it needs the *)
(* Zan runtime's row store: a reused row of the C baseline keeps the key   *)
(* of a removed one.                                                       *)
(***************************************************************************)
EXTENDS LeaseLock, SharedTableOps_proofs

Typed == TypeOK /\ Good(table)

\* The live row that stands for the lease of r.
LeaseOf(x, r) ==
    /\ x.key = request[r].key
    /\ x.data["owner"] = request[r].owner
    /\ x.expires = Until(r)

Leased ==
    \A r \in Requests :
        Inside(r) /\ now < Until(r) /\ Sole(r) =>
            \E x \in Live(table) : LeaseOf(x, r)

\* A request asks for its lease at a time that has come, and its number is
\* one that was drawn.
Numbered ==
    \A r \in Requests :
        /\ HasNumber(r) => request[r].owner \in given
        /\ Asking(r) \/ Inside(r) => request[r].at <= now

\* Two requests have one number only if it was drawn twice.
Distinct ==
    \A r, s \in Requests :
        /\ HasNumber(r) /\ HasNumber(s)
        /\ request[r].owner = request[s].owner
        => r = s \/ request[r].owner \in twice

\* NoOrphan, of the set of live rows.
Owned ==
    \A x \in Live(table) : x.expires > now =>
        \E r \in Requests : /\ Inside(r)
                            /\ request[r].key = x.key
                            /\ request[r].owner = x.data["owner"]

----------------------------------------------------------------------------
\* A request that has read its clock.
Clocked == [phase : {"asking", "inside"}, key : Keys, owner : Nat, at : Nat]

\* What is known of it.
LEMMA Requested ==
    ASSUME TypeOK, NEW r \in Requests, Asking(r) \/ Inside(r)
    PROVE  /\ request[r] \in Clocked
           /\ request[r].key \in Keys
           /\ request[r].owner \in Nat /\ request[r].owner \in Int
           /\ request[r].at \in Nat /\ Until(r) \in Nat
           /\ Until(r) > request[r].at
<1>1. request[r] \in Request /\ request[r].phase \in {"asking", "inside"}
  BY DEF TypeOK, Asking, Inside
<1>2. request[r] \in Clocked
  BY <1>1 DEF Request, Idle, Clocked
<1>3. QED  BY <1>2, LeasePositive DEF Until, Clocked

\* A request that is drawing its number.
LEMMA Drawn ==
    ASSUME TypeOK, NEW r \in Requests, Drawing(r)
    PROVE  /\ request[r] \in [phase : {"loaded", "stored"}, key : Keys,
                                by : Managers, seen : Nat]
           /\ request[r].key \in Keys /\ request[r].by \in Managers
           /\ request[r].seen \in Nat
<1>1. request[r] \in Request /\ request[r].phase \in {"loaded", "stored"}
  BY DEF TypeOK, Drawing
<1>2. QED  BY <1>1 DEF Request, Idle

\* A request that has its number.
LEMMA Known ==
    ASSUME TypeOK, NEW r \in Requests, HasNumber(r)
    PROVE  request[r].key \in Keys /\ request[r].owner \in Nat
<1>1. request[r] \in Request /\ request[r].phase \in {"numbered", "asking", "inside"}
  BY DEF TypeOK, HasNumber
<1>2. QED  BY <1>1 DEF Request, Idle

\* The row that taking a lease makes.
LeaseRow(q) == Written(q.key, "owner", q.owner, q.at + Lease)

\* What asking for a lease does to the live rows: some that had run out are
\* purged, and a key that then has none may get the lease's.
LEMMA AcquireRows ==
    ASSUME Typed, Lane = "Zan", NEW r \in Requests, Acquire(r)
    PROVE  LET q == request[r]
           IN  /\ Good(table')
               /\ \A x \in Live(table) : x \notin Live(table') => x.expires <= q.at
               /\ \/ /\ request' = [request EXCEPT ![r] = Idle]
                     /\ Live(table') \subseteq Live(table)
                  \/ /\ request' = [request EXCEPT ![r] = [q EXCEPT !.phase = "inside"]]
                     /\ LeaseRow(q) \in Live(table')
                     /\ Live(table') \subseteq Live(table) \cup {LeaseRow(q)}
                     /\ \A x \in Live(table) : x.key = q.key => x.expires <= q.at
<1>1. PICK q : q = request[r]
  OBVIOUS
<1>2. PICK t : t = Purge(table, q.at)
  OBVIOUS
<1>3. q.key \in Keys /\ q.owner \in Int /\ q.at \in Nat /\ Until(r) \in Nat
  BY <1>1, Requested DEF Typed, Acquire
<1>4. /\ Good(t) /\ Live(t) \subseteq Live(table)
      /\ \A x \in Live(table) \ Live(t) : x.expires <= q.at
  BY <1>2, LivePurge DEF Typed
<1>5. CASE FindRow(t, q.key) = 0 /\ RowFor(t, q.key).at # 0
  <2>1. table' = SetExpiry(Store(RowFor(t, q.key), "owner", q.owner),
                           RowFor(t, q.key).at, q.at + Lease)
    BY <1>1, <1>2, <1>5 DEF Acquire, Until
  <2>2. q.at + Lease \in Nat /\ "owner" \in Columns
    BY <1>1, <1>3 DEF Until, Columns
  <2>3. Good(table') /\ Live(table') = Live(t) \cup {LeaseRow(q)}
    <3> DEFINE u == SetExpiry(Store(RowFor(t, q.key), "owner", q.owner),
                              RowFor(t, q.key).at, q.at + Lease)
    <3>1. Good(t) /\ FindRow(t, q.key) = 0 /\ RowFor(t, q.key).at # 0
      BY <1>4, <1>5
    <3>2. q.key \in Keys /\ q.owner \in Int
      BY <1>3
    <3>3. Good(u)
      BY <2>2, <3>1, <3>2, LiveMade
    <3>4. Live(u) = Live(t) \cup {LeaseRow(q)}
      BY <2>2, <3>1, <3>2, LiveMade DEF LeaseRow
    <3>5. table' = u
      BY <2>1
    <3> HIDE DEF u
    <3>6. QED  BY <3>3, <3>4, <3>5
  <2>4. \A x \in Live(t) : x.key # q.key
    BY <1>4, <1>5, Looked
  <2>5. request' = [request EXCEPT ![r] = [q EXCEPT !.phase = "inside"]]
    BY <1>1, <1>2, <1>5 DEF Acquire
  <2>6. QED  BY <1>1, <1>4, <2>3, <2>4, <2>5
<1>6. CASE ~(FindRow(t, q.key) = 0 /\ RowFor(t, q.key).at # 0)
  <2>1. table' = t /\ request' = [request EXCEPT ![r] = Idle]
    BY <1>1, <1>2, <1>6 DEF Acquire
  <2>2. QED  BY <1>1, <1>4, <2>1
<1>7. QED  BY <1>5, <1>6

\* What giving a lease back does to them: besides rows that have run out, the
\* request's own row goes, and none with its key and number stays.
LEMMA ReleaseRows ==
    ASSUME Typed, Lane = "Zan", NEW r \in Requests, Release(r)
    PROVE  LET q == request[r]
               Own(x) == x.key = q.key /\ x.data["owner"] = q.owner
           IN  /\ Good(table')
               /\ Live(table') \subseteq Live(table)
               /\ \A x \in Live(table) :
                      x \notin Live(table') => x.expires <= now \/ Own(x)
               /\ \A x \in Live(table') : ~Own(x)
<1>1. PICK q : q = request[r]
  OBVIOUS
<1>2. PICK t : t = PurgeSome(table, now)
  OBVIOUS
<1>3. PICK i : i = FindRow(t, q.key)
  OBVIOUS
<1>4. /\ Good(t) /\ Live(t) \subseteq Live(table)
      /\ \A x \in Live(table) \ Live(t) : x.expires <= now
  BY <1>2, LivePurge DEF Typed
<1>5. /\ i = 0 => \A x \in Live(t) : x.key # q.key
      /\ i # 0 => /\ i \in Alive(t) /\ t.rows[i] \in Live(t)
                 /\ t.rows[i].key = q.key
  BY <1>3, <1>4, Looked
<1>6. \A x, y \in Live(t) : x.key = y.key => x = y
  BY <1>4, LiveRows
<1>7. CASE i # 0 /\ t.rows[i].data["owner"] = q.owner
  <2>1. table' = Remove(t, i)
    BY <1>1, <1>2, <1>3, <1>7 DEF Release
  <2>2. Good(table') /\ Live(table') = Live(t) \ {t.rows[i]}
    BY <1>4, <1>5, <1>7, <2>1, LiveRemove, RemoveKeeps
  <2>3. QED  BY <1>1, <1>4, <1>5, <1>6, <1>7, <2>2
<1>8. CASE ~(i # 0 /\ t.rows[i].data["owner"] = q.owner)
  <2>1. table' = t
    BY <1>1, <1>2, <1>3, <1>8 DEF Release
  <2>2. QED  BY <1>1, <1>4, <1>5, <1>6, <1>8, <2>1
<1>9. QED  BY <1>7, <1>8

\* What the lease's row says.
LEMMA LeaseRowSays ==
    ASSUME NEW q, q.key \in Keys, q.owner \in Int, q.at + Lease \in Nat
    PROVE  /\ LeaseRow(q).key = q.key
           /\ LeaseRow(q).data["owner"] = q.owner
           /\ LeaseRow(q).expires = q.at + Lease
<1>1. PICK f : f = Fresh(q.key, q.key)
  OBVIOUS
<1>2. f \in Row /\ f.key = q.key
  BY <1>1, FreshRow
<1>3. LeaseRow(q) = [f EXCEPT !.data["owner"] = q.owner, !.expires = q.at + Lease]
  BY <1>1 DEF LeaseRow, Written
<1>4. QED  BY <1>2, <1>3 DEF Row, Data, Columns

----------------------------------------------------------------------------
\* The steps of a request before it asks the table.
Draws(r) ==
    \/ \E m \in Managers, k \in Keys : Load(r, m, k)
    \/ StoreNext(r) \/ Number(r) \/ ReadClock(r)

\* They touch neither the table nor another request, and make numbers only
\* more often drawn.
LEMMA DrawSteps ==
    ASSUME TypeOK, NEW r \in Requests, Draws(r)
    PROVE  /\ UNCHANGED <<table, now>>
           /\ request'[r] \in Request /\ request' \in [Requests -> Request]
           /\ \A s \in Requests : s # r => request'[s] = request[s]
           /\ ~Inside(r) /\ ~Asking(r) /\ ~Inside(r)'
           /\ ownerSequence' \in [Managers -> Nat]
           /\ given \subseteq given' /\ twice \subseteq twice'
           /\ given' \subseteq Nat /\ twice' \subseteq given'
<1>1. /\ request \in [Requests -> Request] /\ now \in Nat
      /\ ownerSequence \in [Managers -> Nat]
      /\ given \subseteq Nat /\ twice \subseteq given
  BY DEF TypeOK
<1>2. ASSUME NEW m \in Managers, NEW k \in Keys, Load(r, m, k)
      PROVE  /\ UNCHANGED <<table, now, ownerSequence, given, twice>>
             /\ request[r] = Idle
             /\ \E q \in Request : /\ q.phase = "loaded"
                                   /\ request' = [request EXCEPT ![r] = q]
  <2>1. [phase |-> "loaded", key |-> k, by |-> m, seen |-> ownerSequence[m]] \in Request
    BY <1>1 DEF Request
  <2>2. QED  BY <1>2, <2>1 DEF Load, history
<1>3. ASSUME StoreNext(r)
      PROVE  /\ UNCHANGED <<table, now, given, twice>>
             /\ ownerSequence' \in [Managers -> Nat]
             /\ request[r].phase = "loaded"
             /\ \E q \in Request : /\ q.phase = "stored"
                                   /\ request' = [request EXCEPT ![r] = q]
  <2>1. Drawing(r) /\ request[r].phase = "loaded"
    BY <1>3 DEF StoreNext, Drawing
  <2>2. PICK q : q = [request[r] EXCEPT !.phase = "stored"]
    OBVIOUS
  <2>3. q \in Request /\ q.phase = "stored"
    BY <2>1, <2>2, Drawn DEF Request
  <2>4. request' = [request EXCEPT ![r] = q]
    BY <1>3, <2>2 DEF StoreNext
  <2>5. ownerSequence' \in [Managers -> Nat]
    BY <1>1, <1>3, <2>1, Drawn DEF StoreNext
  <2>6. QED  BY <1>3, <2>1, <2>3, <2>4, <2>5 DEF StoreNext, history
<1>4. ASSUME Number(r)
      PROVE  /\ UNCHANGED <<table, now, ownerSequence>>
             /\ given \subseteq given' /\ twice \subseteq twice'
             /\ given' \subseteq Nat /\ twice' \subseteq given'
             /\ request[r].phase = "stored"
             /\ \E q \in Request : /\ q.phase = "numbered"
                                   /\ request' = [request EXCEPT ![r] = q]
  <2>1. Drawing(r) /\ request[r].phase = "stored"
    BY <1>4 DEF Number, Drawing
  <2>2. /\ request[r].key \in Keys
        /\ {request[r].seen + 1, ownerSequence[request[r].by]} \subseteq Nat
    BY <1>1, <2>1, Drawn
  <2>3. PICK o \in Nat :
            /\ request' = [request EXCEPT ![r] =
                   [phase |-> "numbered", key |-> request[r].key, owner |-> o]]
            /\ given' = given \cup {o}
            /\ twice' = twice \cup (given \cap {o})
    BY <1>4, <2>2 DEF Number
  <2>4. [phase |-> "numbered", key |-> request[r].key, owner |-> o] \in Request
    BY <2>2 DEF Request
  <2>5. UNCHANGED <<table, now, ownerSequence>>
    BY <1>4 DEF Number
  <2>6. QED  BY <1>1, <2>1, <2>3, <2>4, <2>5
<1>5. ASSUME ReadClock(r)
      PROVE  /\ UNCHANGED <<table, now, ownerSequence, given, twice>>
             /\ request[r].phase = "numbered"
             /\ \E q \in Request : /\ q.phase = "asking"
                                   /\ request' = [request EXCEPT ![r] = q]
  <2>1. HasNumber(r) /\ request[r].phase = "numbered"
    BY <1>5 DEF ReadClock, HasNumber
  <2>2. request[r].key \in Keys /\ request[r].owner \in Nat
    BY <2>1, Known
  <2>3. [phase |-> "asking", key |-> request[r].key, owner |-> request[r].owner,
         at |-> now] \in Request
    BY <1>1, <2>2 DEF Request
  <2>4. QED  BY <1>5, <2>1, <2>3 DEF ReadClock, history
<1> DEFINE Step(old, new) ==
        /\ UNCHANGED <<table, now>>
        /\ ownerSequence' \in [Managers -> Nat]
        /\ given \subseteq given' /\ twice \subseteq twice'
        /\ given' \subseteq Nat /\ twice' \subseteq given'
        /\ request[r].phase = old
        /\ \E q \in Request : /\ q.phase = new
                              /\ request' = [request EXCEPT ![r] = q]
<1>6. ASSUME NEW old \in {"idle", "loaded", "stored", "numbered"},
             NEW new \in {"loaded", "stored", "numbered", "asking"}, Step(old, new)
      PROVE  /\ UNCHANGED <<table, now>>
             /\ request'[r] \in Request /\ request' \in [Requests -> Request]
             /\ \A s \in Requests : s # r => request'[s] = request[s]
             /\ ~Inside(r) /\ ~Asking(r) /\ ~Inside(r)'
  BY <1>1, <1>6 DEF Inside, Asking
<1>7. \/ Step("idle", "loaded") \/ Step("loaded", "stored")
      \/ Step("stored", "numbered") \/ Step("numbered", "asking")
  <2>1. CASE \E m \in Managers, k \in Keys : Load(r, m, k)
    <3>1. PICK m \in Managers, k \in Keys : Load(r, m, k)
      BY <2>1
    <3>2. /\ UNCHANGED <<table, now, ownerSequence, given, twice>>
          /\ request[r] = Idle
          /\ \E q \in Request : /\ q.phase = "loaded"
                                /\ request' = [request EXCEPT ![r] = q]
      BY <1>2, <3>1
    <3>3. request[r].phase = "idle"
      BY <3>2 DEF Idle
    <3>4. Step("idle", "loaded")
      BY <1>1, <3>2, <3>3
    <3>5. QED  BY <3>4
  <2>2. CASE StoreNext(r)
    BY <1>1, <1>3, <2>2
  <2>3. CASE Number(r)
    BY <1>1, <1>4, <2>3
  <2>4. CASE ReadClock(r)
    BY <1>1, <1>5, <2>4
  <2>5. QED  BY <2>1, <2>2, <2>3, <2>4 DEF Draws
<1>8. QED  BY <1>6, <1>7

\* The invariant holds of the empty table.
LEMMA InitHolds == Init => Typed /\ Owned /\ Leased /\ Numbered /\ Distinct
<1> SUFFICES ASSUME Init PROVE Typed /\ Owned /\ Leased /\ Numbered /\ Distinct
  OBVIOUS
<1>1. Good(table) /\ Live(table) = {}
  BY EmptyGood DEF Init
<1>2. \A r \in Requests : ~Inside(r) /\ ~Asking(r) /\ ~HasNumber(r)
  BY DEF Init, Inside, Asking, HasNumber, Idle
<1>3. TypeOK
  BY <1>1 DEF Init, TypeOK, Request, Good
<1>4. QED  BY <1>1, <1>2, <1>3 DEF Typed, Owned, Leased, Numbered, Distinct

\* Every step keeps the types and the table.
LEMMA StepTyped == Typed /\ [Next]_vars => Typed'
<1> SUFFICES ASSUME Typed, [Next]_vars PROVE Typed'
  OBVIOUS
<1>1. ASSUME NEW r \in Requests, Draws(r) PROVE Typed'
  <2>1. /\ UNCHANGED <<table, now>> /\ request' \in [Requests -> Request]
        /\ ownerSequence' \in [Managers -> Nat]
        /\ given' \subseteq Nat /\ twice' \subseteq given'
    BY <1>1, DrawSteps DEF Typed
  <2>2. QED  BY <2>1 DEF Typed, TypeOK
<1>2. ASSUME NEW r \in Requests, Acquire(r) PROVE Typed'
  <2>1. PICK q : q = request[r]
    OBVIOUS
  <2>2. q.key \in Keys /\ q.owner \in Int /\ q.at \in Nat /\ Until(r) \in Nat
    BY <1>2, <2>1, Requested DEF Typed, Acquire
  <2>3. PICK t, made : t = Purge(table, q.at) /\ made = RowFor(t, q.key)
    OBVIOUS
  <2>4. Good(t)
    BY <2>3, PurgesKeep DEF Typed
  <2>5. Good(made.t) /\ (made.at # 0 => made.at \in Alive(made.t))
    BY <2>2, <2>3, <2>4, RowForKeeps DEF Serves
  <2>6. "owner" \in Columns
    BY DEF Columns
  <2>7. /\ Good(Store(made, "owner", q.owner))
        /\ Alive(Store(made, "owner", q.owner)) = Alive(made.t)
    BY <2>2, <2>5, <2>6, StoreKeeps
  <2>8. Good(SetExpiry(Store(made, "owner", q.owner), made.at, Until(r)))
    BY <2>2, <2>5, <2>7, SetExpiryKeeps
  <2>9. \/ table' = SetExpiry(Store(made, "owner", q.owner), made.at, Until(r))
        \/ table' = t
    BY <1>2, <2>1, <2>3 DEF Acquire
  <2>10. Good(table') /\ table' \in Table
    BY <2>4, <2>8, <2>9 DEF Good
  <2>11. [q EXCEPT !.phase = "inside"] \in Request /\ Idle \in Request
    <3>1. q \in Clocked
      BY <1>2, <2>1, Requested DEF Acquire, Typed
    <3>2. QED  BY <3>1 DEF Clocked, Request
  <2>12. /\ request' \in [Requests -> Request]
         /\ UNCHANGED <<now, ownerSequence, given, twice>>
    BY <1>2, <2>1, <2>11 DEF Acquire, Typed, TypeOK, history
  <2>13. QED  BY <2>10, <2>12 DEF Typed, TypeOK
<1>3. ASSUME NEW r \in Requests, Release(r) PROVE Typed'
  <2>1. PICK t : t = PurgeSome(table, now)
    OBVIOUS
  <2>2. Good(t)
    BY <2>1, PurgesKeep DEF Typed
  <2>3. PICK i : (i # 0 => i \in Alive(t)) /\ table' \in {t, Remove(t, i)}
    <3>1. PICK i : i = FindRow(t, request[r].key)
      OBVIOUS
    <3>2. i # 0 => i \in Alive(t)
      BY <2>2, <3>1, Finds DEF Good
    <3>3. table' \in {t, Remove(t, i)}
      BY <1>3, <2>1, <3>1 DEF Release
    <3>4. QED  BY <3>2, <3>3
  <2>4. Good(table') /\ table' \in Table
    BY <2>2, <2>3, RemoveKeeps DEF Good
  <2>5. /\ request' \in [Requests -> Request]
        /\ UNCHANGED <<now, ownerSequence, given, twice>>
    BY <1>3 DEF Release, Typed, TypeOK, Request, history
  <2>6. QED  BY <2>4, <2>5 DEF Typed, TypeOK
<1>4. CASE Tick
  BY <1>4 DEF Tick, Typed, TypeOK, history
<1>5. CASE UNCHANGED vars
  BY <1>5 DEF vars, Typed, TypeOK
<1>6. QED  BY <1>1, <1>2, <1>3, <1>4, <1>5 DEF Next, Draws

\* A row with time left belongs to a request that is inside: whoever leaves
\* takes its row with it.  Nothing is asked of the managers.
LEMMA StepOwned ==
    ASSUME Lane = "Zan"
    PROVE  Typed /\ Owned /\ [Next]_vars => Owned'
<1> SUFFICES ASSUME Typed, Owned, [Next]_vars,
                    NEW x \in Live(table)', x.expires > now'
             PROVE  \E r \in Requests : /\ Inside(r)'
                                        /\ request'[r].key = x.key
                                        /\ request'[r].owner = x.data["owner"]
  BY DEF Owned
<1> DEFINE Has(r) == /\ Inside(r) /\ request[r].key = x.key
                     /\ request[r].owner = x.data["owner"]
<1>1. ASSUME x \in Live(table), x.expires > now PROVE \E r \in Requests : Has(r)
  BY <1>1 DEF Owned
<1>2. request \in [Requests -> Request] /\ now \in Nat
  BY DEF Typed, TypeOK
<1>3. ASSUME NEW r \in Requests, Draws(r) PROVE \E s \in Requests : Has(s)'
  <2>1. /\ UNCHANGED <<table, now>> /\ ~Inside(r)
        /\ \A s \in Requests : s # r => request'[s] = request[s]
    BY <1>3, DrawSteps DEF Typed
  <2>3. Live(table)' = Live(table)
    BY <2>1 DEF Live, Alive
  <2>4. PICK s \in Requests : Has(s)
    BY <1>1, <2>1, <2>3
  <2>5. QED  BY <2>1, <2>4 DEF Inside
<1>4. ASSUME NEW r \in Requests, Acquire(r) PROVE \E s \in Requests : Has(s)'
  <2>1. now' = now /\ Asking(r) /\ ~Inside(r)
    BY <1>4 DEF Acquire, Asking, Inside
  <2>2. \A s \in Requests : s # r => request'[s] = request[s]
    BY <1>2, <1>4 DEF Acquire
  <2>3. CASE x \in Live(table)
    <3>1. PICK s \in Requests : Has(s)
      BY <1>1, <2>1, <2>3
    <3>2. QED  BY <2>1, <2>2, <3>1 DEF Inside
  <2>4. CASE x \notin Live(table)
    <3>1. PICK q : q = request[r]
      OBVIOUS
    <3>2. x = LeaseRow(q) /\ request' = [request EXCEPT ![r] = [q EXCEPT !.phase = "inside"]]
      BY <1>4, <2>4, <3>1, AcquireRows DEF Live, Alive
    <3>3. q.key \in Keys /\ q.owner \in Int /\ q.at + Lease \in Nat
      BY <2>1, <3>1, Requested DEF Typed, Until
    <3>4. x.key = q.key /\ x.data["owner"] = q.owner
      BY <3>2, <3>3, LeaseRowSays
    <3>5. q \in Clocked
      BY <2>1, <3>1, Requested DEF Typed
    <3>6. request'[r] = [q EXCEPT !.phase = "inside"]
      BY <1>2, <3>2
    <3>7. request'[r].phase = "inside" /\ request'[r].key = q.key /\ request'[r].owner = q.owner
      BY <3>5, <3>6 DEF Clocked
    <3>8. QED  BY <3>4, <3>7 DEF Inside
  <2>5. QED  BY <2>3, <2>4
<1>5. ASSUME NEW r \in Requests, Release(r) PROVE \E s \in Requests : Has(s)'
  <2>1. now' = now /\ \A s \in Requests : s # r => request'[s] = request[s]
    BY <1>2, <1>5 DEF Release
  <2>2. x \in Live(table) /\ ~(x.key = request[r].key /\ x.data["owner"] = request[r].owner)
    BY <1>5, ReleaseRows DEF Live, Alive
  <2>3. PICK s \in Requests : Has(s)
    BY <1>1, <2>1, <2>2
  <2>4. s # r
    BY <2>2, <2>3
  <2>5. QED  BY <2>1, <2>3, <2>4 DEF Inside
<1>6. ASSUME Tick \/ UNCHANGED vars PROVE \E s \in Requests : Has(s)'
  <2>1. UNCHANGED <<table, request>> /\ now' >= now /\ now' \in Nat
    BY <1>2, <1>6 DEF Tick, vars, history
  <2>2. x \in Live(table) /\ x \in Row
    BY <2>1, LiveRows DEF Live, Alive, Typed
  <2>3. x.expires > now
    BY <1>2, <2>1, <2>2 DEF Row
  <2>4. QED  BY <1>1, <2>1, <2>2, <2>3 DEF Inside
<1>7. QED  BY <1>3, <1>4, <1>5, <1>6 DEF Next, Draws

Numbering == Numbered /\ Distinct

\* Who draws a number that was drawn before shares it.
LEMMA StepNumbering == Typed /\ Numbering /\ [Next]_vars => Numbering'
<1> SUFFICES ASSUME Typed, Numbering, [Next]_vars PROVE Numbering'
  OBVIOUS
<1> USE DEF Numbering, Numbered, Distinct
<1>1. /\ TypeOK /\ request \in [Requests -> Request] /\ now \in Nat
      /\ twice \subseteq given
  BY DEF Typed, TypeOK
<1>2. \A r \in Requests : Asking(r) \/ Inside(r) => request[r].at \in Nat
  BY Requested DEF Typed
<1>3. ASSUME NEW r \in Requests, NEW q,
             request' = [request EXCEPT ![r] = q], UNCHANGED <<now, given, twice>>,
             q.phase \in {"numbered", "asking", "inside"} =>
                 HasNumber(r) /\ q.owner = request[r].owner,
             q.phase \in {"asking", "inside"} => q.at <= now
      PROVE  Numbering'
  <2>1. request'[r] = q /\ \A s \in Requests : s # r => request'[s] = request[s]
    BY <1>1, <1>3
  <2>2. \A s \in Requests : HasNumber(s)' =>
            HasNumber(s) /\ request'[s].owner = request[s].owner
    BY <1>3, <2>1 DEF HasNumber
  <2>3. \A s \in Requests : (Asking(s) \/ Inside(s))' => request'[s].at <= now
    BY <1>3, <2>1 DEF Asking, Inside
  <2>4. Numbered'
    BY <1>3, <2>2, <2>3
  <2>5. Distinct'
    BY <1>3, <2>2
  <2>6. QED  BY <2>4, <2>5
<1>4. ASSUME NEW r \in Requests, NEW m \in Managers, NEW k \in Keys, Load(r, m, k)
      PROVE  Numbering'
  <2>1. PICK q : q = [phase |-> "loaded", key |-> k, by |-> m, seen |-> ownerSequence[m]]
    OBVIOUS
  <2>2. request' = [request EXCEPT ![r] = q] /\ q.phase = "loaded"
    BY <1>4, <2>1 DEF Load
  <2>3. QED  BY <1>3, <1>4, <2>2 DEF Load, history
<1>5. ASSUME NEW r \in Requests, StoreNext(r) PROVE Numbering'
  <2>1. PICK q : q = [request[r] EXCEPT !.phase = "stored"]
    OBVIOUS
  <2>2. Drawing(r)
    BY <1>5 DEF StoreNext, Drawing
  <2>3. q.phase = "stored"
    BY <1>1, <2>1, <2>2, Drawn
  <2>4. request' = [request EXCEPT ![r] = q]
    BY <1>5, <2>1 DEF StoreNext
  <2>5. QED  BY <1>3, <1>5, <2>3, <2>4 DEF StoreNext, history
<1>6. ASSUME NEW r \in Requests, Number(r) PROVE Numbering'
  <2>1. PICK o : /\ request' = [request EXCEPT ![r] =
                        [phase |-> "numbered", key |-> request[r].key, owner |-> o]]
                 /\ given' = given \cup {o}
                 /\ twice' = twice \cup (given \cap {o})
    BY <1>6 DEF Number
  <2>2. now' = now
    BY <1>6 DEF Number
  <2>3. /\ HasNumber(r)' /\ request'[r].owner = o /\ ~Asking(r)' /\ ~Inside(r)'
        /\ \A s \in Requests : s # r => request'[s] = request[s]
    BY <1>1, <2>1 DEF HasNumber, Asking, Inside
  <2>4. Numbered'
    BY <2>1, <2>2, <2>3 DEF HasNumber, Asking, Inside
  <2>5. \A s \in Requests : s # r /\ HasNumber(s)' => HasNumber(s) /\ request'[s].owner \in given
    BY <2>3 DEF HasNumber
  <2>6. Distinct'
    BY <2>1, <2>3, <2>5
  <2>7. QED  BY <2>4, <2>6
<1>7. ASSUME NEW r \in Requests, ReadClock(r) PROVE Numbering'
  <2>1. PICK q : q = [phase |-> "asking", key |-> request[r].key,
                      owner |-> request[r].owner, at |-> now]
    OBVIOUS
  <2>2. request' = [request EXCEPT ![r] = q] /\ HasNumber(r)
    BY <1>7, <2>1 DEF ReadClock, HasNumber
  <2>3. q.owner = request[r].owner /\ q.at <= now
    BY <1>1, <2>1
  <2>4. QED  BY <1>3, <1>7, <2>2, <2>3 DEF ReadClock, history
<1>8. ASSUME NEW r \in Requests, Acquire(r) \/ Release(r) PROVE Numbering'
  <2>1. (Asking(r) \/ Inside(r)) /\ HasNumber(r)
    BY <1>8 DEF Acquire, Release, Asking, Inside, HasNumber
  <2>2. request[r] \in Clocked /\ request[r].at <= now
    BY <1>1, <2>1, Requested
  <2>3. PICK q : /\ request' = [request EXCEPT ![r] = q]
                 /\ q \in {Idle, [request[r] EXCEPT !.phase = "inside"]}
    BY <1>8 DEF Acquire, Release
  <2>4. UNCHANGED <<now, given, twice>>
    BY <1>8 DEF Acquire, Release, history
  <2>5. \/ q.phase = "idle"
        \/ q.owner = request[r].owner /\ q.at = request[r].at
    BY <2>2, <2>3 DEF Clocked, Idle
  <2>6. QED  BY <1>3, <2>1, <2>2, <2>3, <2>4, <2>5
<1>9. CASE Tick \/ UNCHANGED vars
  <2>1. UNCHANGED <<request, given, twice>> /\ now' >= now /\ now' \in Nat
    BY <1>1, <1>9 DEF Tick, vars, history
  <2>2. QED  BY <1>1, <1>2, <2>1 DEF HasNumber, Asking, Inside
<1>10. QED  BY <1>4, <1>5, <1>6, <1>7, <1>8, <1>9 DEF Next

\* A lease with time left keeps its row.
LEMMA StepLeased ==
    ASSUME Lane = "Zan"
    PROVE  Typed /\ Numbering /\ Leased /\ [Next]_vars => Leased'
<1> SUFFICES ASSUME Typed, Numbering, Leased, [Next]_vars,
                    NEW s \in Requests, Inside(s)', now' < Until(s)', Sole(s)'
             PROVE  \E x \in Live(table)' : LeaseOf(x, s)'
  BY DEF Leased
<1>1. request \in [Requests -> Request] /\ now \in Nat
  BY DEF Typed, TypeOK
<1>2. ASSUME Inside(s), now < Until(s), Sole(s) PROVE \E x \in Live(table) : LeaseOf(x, s)
  BY <1>2 DEF Leased
<1>8. ASSUME request'[s] = request[s], twice \subseteq twice' PROVE Sole(s)
  BY <1>8 DEF Sole
<1>3. ASSUME NEW r \in Requests, Draws(r) PROVE \E x \in Live(table)' : LeaseOf(x, s)'
  <2>1. /\ ~Inside(r)' /\ UNCHANGED <<table, now>> /\ twice \subseteq twice'
        /\ \A w \in Requests : w # r => request'[w] = request[w]
    BY <1>3, DrawSteps DEF Typed
  <2>2. request'[s] = request[s]
    BY <2>1
  <2>3. PICK x \in Live(table) : LeaseOf(x, s)
    BY <1>2, <1>8, <2>1, <2>2 DEF Inside, Until
  <2>4. QED  BY <2>1, <2>2, <2>3 DEF LeaseOf, Until, Live, Alive
<1>4. ASSUME NEW r \in Requests, Acquire(r)
      PROVE  \E x \in Live(table)' : LeaseOf(x, s)'
  <2>1. PICK q : q = request[r]
    OBVIOUS
  <2>2. now' = now /\ twice' = twice /\ Asking(r)
    BY <1>4, <2>1 DEF Acquire, history
  <2>3. /\ q.key \in Keys /\ q.owner \in Int /\ q.at \in Nat /\ q.at + Lease \in Nat
        /\ q.at <= now /\ q \in Clocked
    <3>1. q \in Clocked
      BY <2>1, <2>2, Requested DEF Typed
    <3>2. q.at <= now
      BY <2>1, <2>2 DEF Numbering, Numbered
    <3>3. QED  BY <3>1, <3>2, LeasePositive DEF Clocked
  <2>4. CASE s = r
    <3>1. request'[r] = [q EXCEPT !.phase = "inside"] /\ LeaseRow(q) \in Live(table')
      <4>1. request'[r] # Idle
        BY <2>4 DEF Inside, Idle
      <4>2. request' # [request EXCEPT ![r] = Idle]
        BY <1>1, <4>1
      <4>3. /\ request' = [request EXCEPT ![r] = [q EXCEPT !.phase = "inside"]]
            /\ LeaseRow(q) \in Live(table')
        BY <1>4, <2>1, <4>2, AcquireRows
      <4>4. QED  BY <1>1, <4>3
    <3>2. /\ request'[r].key = q.key /\ request'[r].owner = q.owner
          /\ request'[r].at = q.at
      BY <2>3, <3>1 DEF Clocked
    <3>3. LeaseOf(LeaseRow(q), r)'
      <4>1. /\ LeaseRow(q).key = q.key /\ LeaseRow(q).data["owner"] = q.owner
            /\ LeaseRow(q).expires = q.at + Lease
        BY <2>3, LeaseRowSays
      <4>2. QED  BY <3>2, <4>1 DEF LeaseOf, Until
    <3>4. LeaseRow(q) \in Live(table)'
      BY <3>1 DEF Live, Alive
    <3>5. QED  BY <2>4, <3>3, <3>4
  <2>5. CASE s # r
    <3>1. request'[s] = request[s]
      BY <1>1, <1>4, <2>5 DEF Acquire
    <3>2. PICK x \in Live(table) : LeaseOf(x, s)
      BY <1>2, <1>8, <2>2, <3>1 DEF Inside, Until
    <3>3. ~(x.expires <= q.at)
      <4>1. x.expires = Until(s) /\ now < Until(s) /\ x \in Row
        BY <2>2, <3>1, <3>2, LiveRows DEF LeaseOf, Until, Typed
      <4>2. x.expires \in Nat
        BY <4>1 DEF Row
      <4>3. QED  BY <1>1, <2>3, <4>1, <4>2
    <3>4. x \in Live(table')
      BY <1>4, <2>1, <3>3, AcquireRows
    <3>5. QED  BY <3>1, <3>2, <3>4 DEF LeaseOf, Until, Live, Alive
  <2>6. QED  BY <2>4, <2>5
<1>5. ASSUME NEW r \in Requests, Release(r)
      PROVE  \E x \in Live(table)' : LeaseOf(x, s)'
  <2>1. now' = now /\ twice' = twice /\ request'[r] = Idle /\ HasNumber(r)
    BY <1>1, <1>5 DEF Release, Inside, HasNumber, history
  <2>2. s # r
    BY <2>1 DEF Inside, Idle
  <2>3. request'[s] = request[s]
    BY <1>1, <1>5, <2>2 DEF Release
  <2>4. Inside(s) /\ now < Until(s) /\ Sole(s)
    BY <1>8, <2>1, <2>3 DEF Inside, Until
  <2>5. PICK x \in Live(table) : LeaseOf(x, s)
    BY <1>2, <2>4
  <2>6. ~(x.expires <= now)
    <3>1. x.expires = Until(s) /\ x \in Row
      BY <2>5, LiveRows DEF LeaseOf, Typed
    <3>2. x.expires \in Nat
      BY <3>1 DEF Row
    <3>3. QED  BY <1>1, <2>4, <3>1, <3>2
  <2>7. x.data["owner"] # request[r].owner
    <3>1. x.data["owner"] = request[s].owner /\ HasNumber(s)
      BY <2>4, <2>5 DEF LeaseOf, Inside, HasNumber
    <3>2. QED  BY <2>1, <2>2, <2>4, <3>1 DEF Numbering, Distinct, Sole
  <2>8. x \in Live(table')
    BY <1>5, <2>6, <2>7, ReleaseRows
  <2>9. QED  BY <2>3, <2>5, <2>8 DEF LeaseOf, Until, Live, Alive
<1>6. ASSUME Tick \/ UNCHANGED vars PROVE \E x \in Live(table)' : LeaseOf(x, s)'
  <2>1. UNCHANGED <<table, request, twice>> /\ now' >= now /\ now' \in Nat
    BY <1>1, <1>6 DEF Tick, vars, history
  <2>2. Inside(s) /\ now < Until(s) /\ Sole(s)
    <3>1. Inside(s) /\ now' < Until(s)
      BY <2>1 DEF Inside, Until
    <3>2. Until(s) \in Nat
      BY <3>1, Requested DEF Typed
    <3>3. QED  BY <1>1, <1>8, <2>1, <3>1, <3>2
  <2>3. PICK x \in Live(table) : LeaseOf(x, s)
    BY <1>2, <2>2
  <2>4. QED  BY <2>1, <2>3 DEF LeaseOf, Until, Live, Alive
<1>7. QED  BY <1>3, <1>4, <1>5, <1>6 DEF Next, Draws

----------------------------------------------------------------------------
\* The state keeps its type, and the table its count, bound and keys, in both
\* runtimes.
THEOREM TypeCorrect == Spec => [](TypeOK /\ Good(table))
BY InitHolds, StepTyped, PTL DEF Spec, Typed

\* No lease outlives its request: whenever a row refuses a key, the request
\* that was given it is still inside, so the key is refused no longer than a
\* handler runs, whatever is purged, released late or refused meanwhile.  It
\* holds for any number of managers over the table.
THEOREM NoOrphanStays ==
    ASSUME Lane = "Zan"
    PROVE  Spec => []NoOrphan
<1>1. Spec => [](Typed /\ Owned)
  BY InitHolds, StepTyped, StepOwned, PTL DEF Spec
<1>2. Typed /\ Owned => NoOrphan
  <2> SUFFICES ASSUME Typed, Owned, NEW i \in Alive(table),
                      table.rows[i].expires > now
               PROVE  \E r \in Requests :
                          /\ Inside(r)
                          /\ request[r].key = table.rows[i].key
                          /\ request[r].owner = table.rows[i].data["owner"]
    BY DEF NoOrphan
  <2>1. table.rows[i] \in Live(table)
    BY DEF Live
  <2>2. QED  BY <2>1 DEF Owned
<1>3. QED  BY <1>1, <1>2, PTL

IInv == Typed /\ Numbering /\ Leased

\* The inductive invariant, in the Zan lane.
LEMMA AlwaysLeased ==
    ASSUME Lane = "Zan"
    PROVE  Spec => []IInv
<1>1. Init => IInv
  BY InitHolds DEF IInv, Numbering
<1>2. IInv /\ [Next]_vars => IInv'
  BY StepTyped, StepNumbering, StepLeased DEF IInv
<1>3. QED  BY <1>1, <1>2, PTL DEF Spec

\* Whoever is inside, with a number of its own and time left, has the key's
\* row, in its own name and until the very time it was told: no other
\* request's late release, purge or acquisition takes it away.  Nothing is
\* asked of the managers and threads; a request that shares its number may
\* lose its row, and LeaseKept says nothing of it.
THEOREM LeaseIsKept ==
    ASSUME Lane = "Zan"
    PROVE  Spec => []LeaseKept
<1>1. IInv => LeaseKept
  <2> SUFFICES ASSUME IInv, NEW k \in Keys, NEW r \in Holders(k), Sole(r),
                      NEW i, i = FindRow(table, k)
               PROVE  /\ i # 0
                      /\ table.rows[i].data["owner"] = request[r].owner
                      /\ table.rows[i].expires = Until(r)
    BY DEF LeaseKept
  <2>1. PICK x \in Live(table) : LeaseOf(x, r)
    BY DEF IInv, Leased, Holders
  <2>2. x.key = k
    BY <2>1 DEF LeaseOf, Holders
  <2>3. Good(table)
    BY DEF IInv, Typed
  <2>4. i # 0 /\ table.rows[i] \in Live(table) /\ table.rows[i].key = k
    BY <2>2, <2>3, Looked
  <2>5. table.rows[i] = x
    BY <2>2, <2>3, <2>4, LiveRows
  <2>6. QED  BY <2>1, <2>4, <2>5 DEF LeaseOf
<1>2. QED  BY <1>1, AlwaysLeased, PTL

\* Two that hold a key, each with a number of its own, are one.
LEMMA SoleHolders ==
    ASSUME Lane = "Zan", IInv, NEW k \in Keys,
           NEW r \in Holders(k), Sole(r), NEW s \in Holders(k), Sole(s)
    PROVE  r = s
<1>1. PICK x \in Live(table), y \in Live(table) : LeaseOf(x, r) /\ LeaseOf(y, s)
  BY DEF IInv, Leased, Holders
<1>2. x.key = y.key
  BY <1>1 DEF LeaseOf, Holders
<1>3. x = y
  <2>1. Good(table)
    BY DEF IInv, Typed
  <2>2. QED  BY <1>2, <2>1, LiveRows
<1>4. r \in Requests /\ s \in Requests /\ HasNumber(r) /\ HasNumber(s)
  BY DEF Holders, Inside, HasNumber
<1>5. request[r].owner = request[s].owner
  BY <1>1, <1>3 DEF LeaseOf
<1>6. QED  BY <1>4, <1>5 DEF IInv, Numbering, Distinct, Sole

\* At most one of a kind.
LEMMA AtMostOne ==
    ASSUME NEW S, \A x, y \in S : x = y
    PROVE  Cardinality(S) <= 1
<1>1. CASE S = {}
  BY <1>1, FS_EmptySet
<1>2. CASE S # {}
  <2>1. PICK x : S = {x}
    BY <1>2
  <2>2. QED  BY <2>1, FS_Singleton
<1>3. QED  BY <1>1, <1>2

\* One key, one holder, of the requests that keep within their lease and drew
\* a number that no other drew, for any managers and threads.
THEOREM OneLeasePerKey ==
    ASSUME Lane = "Zan"
    PROVE  Spec => []OneLease
<1>1. IInv => OneLease
  BY SoleHolders, AtMostOne DEF OneLease
<1>2. QED  BY <1>1, AlwaysLeased, PTL

----------------------------------------------------------------------------
\* One manager on one thread.  One request draws at a time: what it loaded is
\* still the sequence, and what it stored is above every number given.
InTurn ==
    /\ \A r, s \in Requests : Drawing(r) /\ Drawing(s) => r = s
    /\ \A r \in Requests, m \in Managers :
          /\ request[r].phase = "loaded" => ownerSequence[m] = request[r].seen
          /\ request[r].phase = "stored" => /\ ownerSequence[m] = request[r].seen + 1
                                           /\ ownerSequence[m] \notin given
    /\ \A o \in given, m \in Managers : o <= ownerSequence[m]
    /\ twice = {}

LEMMA StepInTurn ==
    ASSUME ~AsyncWorkers, \A m, n \in Managers : m = n
    PROVE  Typed /\ InTurn /\ [Next]_vars => InTurn'
<1> SUFFICES ASSUME Typed, InTurn, [Next]_vars PROVE InTurn'
  OBVIOUS
<1>1. /\ TypeOK /\ request \in [Requests -> Request]
      /\ ownerSequence \in [Managers -> Nat] /\ given \subseteq Nat
  BY DEF Typed, TypeOK
<1>2. ASSUME NEW r \in Requests, NEW q, request' = [request EXCEPT ![r] = q],
             q.phase \notin {"loaded", "stored"},
             UNCHANGED <<ownerSequence, given, twice>>
      PROVE  InTurn'
  <2>1. \A s \in Requests : request'[s] = IF s = r THEN q ELSE request[s]
    BY <1>1, <1>2
  <2>2. \A s \in Requests : Drawing(s)' => Drawing(s) /\ request'[s] = request[s]
    BY <1>2, <2>1 DEF Drawing
  <2>3. QED  BY <1>2, <2>1, <2>2 DEF InTurn
<1>3. ASSUME NEW r \in Requests, NEW m \in Managers, NEW k \in Keys, Load(r, m, k)
      PROVE  InTurn'
  <2>1. \A s \in Requests : ~Drawing(s)
    <3>1. \A s \in Requests : Drawing(s) => request[s].by # m
      BY <1>3 DEF Load, MayDraw
    <3>2. QED  BY <1>1, <3>1, Drawn
  <2>2. UNCHANGED <<ownerSequence, given, twice>>
    BY <1>3 DEF Load, history
  <2>3. PICK q : /\ q.phase = "loaded" /\ q.seen = ownerSequence[m]
                 /\ request' = [request EXCEPT ![r] = q]
    BY <1>3 DEF Load
  <2>4. \A s \in Requests : request'[s] = IF s = r THEN q ELSE request[s]
    BY <1>1, <2>3
  <2>5. \A s \in Requests : Drawing(s)' => s = r
    BY <2>1, <2>4 DEF Drawing
  <2>6. \A s \in Requests : s # r => request'[s].phase \notin {"loaded", "stored"}
    BY <2>5 DEF Drawing
  <2>7. QED  BY <2>2, <2>3, <2>4, <2>5, <2>6 DEF InTurn
<1>4. ASSUME NEW r \in Requests, StoreNext(r) PROVE InTurn'
  <2>1. Drawing(r) /\ request[r].phase = "loaded"
    BY <1>4 DEF StoreNext, Drawing
  <2>2. PICK q : q = [request[r] EXCEPT !.phase = "stored"]
    OBVIOUS
  <2>3. q.phase = "stored" /\ q.seen = request[r].seen /\ q.seen \in Nat
    BY <1>1, <2>1, <2>2, Drawn
  <2>4. \A s \in Requests : request'[s] = IF s = r THEN q ELSE request[s]
    BY <1>1, <1>4, <2>2 DEF StoreNext
  <2>5. \A m \in Managers : /\ ownerSequence'[m] = q.seen + 1
                            /\ ownerSequence[m] = q.seen
    <3>1. request[r].by \in Managers
      BY <1>1, <2>1, Drawn
    <3>2. \A m \in Managers : ownerSequence'[m] = request[r].seen + 1
      BY <1>1, <1>4, <3>1 DEF StoreNext
    <3>3. QED  BY <2>1, <2>3, <3>2 DEF InTurn
  <2>6. UNCHANGED <<given, twice>>
    BY <1>4 DEF StoreNext, history
  <2>7. \A s \in Requests : s # r => ~Drawing(s)
    BY <2>1 DEF InTurn
  <2>8. \A s \in Requests : Drawing(s)' => s = r
    BY <2>4, <2>7 DEF Drawing
  <2>9. \A o \in given, m \in Managers : o \in Nat /\ o <= q.seen
    BY <1>1, <2>5 DEF InTurn
  <2>10. \A s \in Requests : request'[s].phase \in {"loaded", "stored"} => s = r
    BY <2>8 DEF Drawing
  <2>11. \A m \in Managers : ownerSequence'[m] \notin given
    BY <2>3, <2>5, <2>9
  <2>12. \A o \in given, m \in Managers : o <= ownerSequence'[m]
    BY <2>3, <2>5, <2>9
  <2>13. QED  BY <2>3, <2>4, <2>5, <2>6, <2>8, <2>10, <2>11, <2>12 DEF InTurn
<1>5. ASSUME NEW r \in Requests, Number(r) PROVE InTurn'
  <2>1. Drawing(r) /\ request[r].phase = "stored" /\ request[r].by \in Managers
    BY <1>1, <1>5, Drawn DEF Number, Drawing
  <2>2. PICK o : /\ o \in {request[r].seen + 1, ownerSequence[request[r].by]}
                 /\ request' = [request EXCEPT ![r] =
                        [phase |-> "numbered", key |-> request[r].key, owner |-> o]]
                 /\ given' = given \cup {o}
                 /\ twice' = twice \cup (given \cap {o})
    BY <1>5 DEF Number
  <2>3. \A m \in Managers : o = ownerSequence[m] /\ o \in Nat
    BY <1>1, <2>1, <2>2 DEF InTurn
  <2>4. o \notin given
    BY <2>1, <2>3 DEF InTurn
  <2>5. ownerSequence' = ownerSequence /\ twice' = {}
    BY <1>5, <2>2, <2>4 DEF Number, InTurn
  <2>6. \A s \in Requests : ~Drawing(s)'
    <3>1. \A s \in Requests : s # r => ~Drawing(s) /\ request'[s] = request[s]
      BY <1>1, <2>1, <2>2 DEF InTurn
    <3>2. request'[r].phase = "numbered"
      BY <1>1, <2>2
    <3>3. QED  BY <3>1, <3>2 DEF Drawing
  <2>7. \A p \in given', m \in Managers : p <= ownerSequence'[m]
    BY <1>1, <2>2, <2>3, <2>5 DEF InTurn
  <2>8. \A s \in Requests : request'[s].phase \notin {"loaded", "stored"}
    BY <2>6 DEF Drawing
  <2>9. QED  BY <2>5, <2>6, <2>7, <2>8 DEF InTurn
<1>6. ASSUME NEW r \in Requests, ReadClock(r) PROVE InTurn'
  <2>1. PICK q : q.phase = "asking" /\ request' = [request EXCEPT ![r] = q]
    BY <1>6 DEF ReadClock
  <2>2. QED  BY <1>2, <1>6, <2>1 DEF ReadClock, history
<1>7. ASSUME NEW r \in Requests, Acquire(r) \/ Release(r) PROVE InTurn'
  <2>1. Asking(r) \/ Inside(r)
    BY <1>7 DEF Acquire, Release
  <2>2. PICK q : /\ request' = [request EXCEPT ![r] = q]
                 /\ q \in {Idle, [request[r] EXCEPT !.phase = "inside"]}
    BY <1>7 DEF Acquire, Release
  <2>3. q.phase \in {"idle", "inside"}
    BY <1>1, <2>1, <2>2, Requested DEF Idle, Clocked
  <2>4. QED  BY <1>2, <1>7, <2>2, <2>3 DEF Acquire, Release, history
<1>8. CASE Tick \/ UNCHANGED vars
  BY <1>8 DEF Tick, vars, history, InTurn, Drawing
<1>9. QED  BY <1>3, <1>4, <1>5, <1>6, <1>7, <1>8 DEF Next

\* On one thread, with one manager, no number is drawn twice, and a key has one
\* holder while its lease lasts: what the comment above LockLease says.  On
\* several threads, or with two managers, it is false (MCLeaseLockThreads.cfg,
\* MCLeaseLockTwo.cfg).
THEOREM OneHolderPerKey ==
    ASSUME Lane = "Zan", ~AsyncWorkers, \A m, n \in Managers : m = n
    PROVE  Spec => []OneHolder
<1>1. Init => InTurn
  BY DEF Init, InTurn, Drawing, Idle
<1>2. Typed /\ InTurn /\ [Next]_vars => InTurn'
  BY StepInTurn
<1>3. Init => Typed
  BY InitHolds
<1>4. Typed /\ [Next]_vars => Typed'
  BY StepTyped
<1>5. Spec => []InTurn
  BY <1>1, <1>2, <1>3, <1>4, PTL DEF Spec
<1>6. IInv /\ InTurn => OneHolder
  <2> SUFFICES ASSUME IInv, InTurn, NEW k \in Keys PROVE Cardinality(Holders(k)) <= 1
    BY DEF OneHolder
  <2>1. \A r \in Holders(k) : Sole(r)
    BY DEF InTurn, Sole
  <2>2. QED  BY <2>1, SoleHolders, AtMostOne
<1>7. QED  BY <1>5, <1>6, AlwaysLeased, PTL
============================================================================
