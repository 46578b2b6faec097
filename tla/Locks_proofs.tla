---------------------------- MODULE Locks_proofs ----------------------------
(***************************************************************************)
(* The locks of the two libraries: first SemaphoreSlim, then the monitor.  *)
(* Their specifications share no variable and are proved independently.    *)
(***************************************************************************)
EXTENDS SemaphoreSlim, Monitor, SequenceTheorems, FiniteSetTheorems,
        WellFoundedInduction, TLAPS

(***************************************************************************)
(* The counting argument behind SemaphoreSlim, for any number of callers   *)
(* and any limits.  The inductive invariant is the type invariant with the *)
(* two balances: NoLostWakeup is inductive on top of the types alone, but  *)
(* HoldersCounted needs the slots balance (it is the moment of Cancel that *)
(* turns the exact count into a bound), and the registrations balance      *)
(* needs the shape of posting, because a Release loop adds as many entries *)
(* as it takes waiters only when the caller has none left from before.     *)
(***************************************************************************)

\* The callers that are at one of the places C.
Count(f, C) == Cardinality({u \in Threads : f[u] \in C})

\* 1 if x is in C and 0 otherwise.
In(x, C) == IF x \in C THEN 1 ELSE 0

\* The places of a caller that waits for a permit.
Out == {"parked", "timed", "expired", "owed"}

\* Which places count where.
LEMMA Table ==
    /\ In("idle", Out) = 0 /\ In("idle", {"holding"}) = 0 /\ In("idle", {"woken"}) = 0
    /\ In("parked", Out) = 1 /\ In("parked", {"holding"}) = 0 /\ In("parked", {"woken"}) = 0
    /\ In("timed", Out) = 1 /\ In("timed", {"holding"}) = 0 /\ In("timed", {"woken"}) = 0
    /\ In("expired", Out) = 1 /\ In("expired", {"holding"}) = 0 /\ In("expired", {"woken"}) = 0
    /\ In("owed", Out) = 1 /\ In("owed", {"holding"}) = 0 /\ In("owed", {"woken"}) = 0
    /\ In("woken", Out) = 0 /\ In("woken", {"holding"}) = 0 /\ In("woken", {"woken"}) = 1
    /\ In("holding", Out) = 0 /\ In("holding", {"holding"}) = 1 /\ In("holding", {"woken"}) = 0
BY DEF In, Out

\* A caller that moves changes the counts of the place it leaves and of the
\* place it goes to, and no other.
LEMMA Moved ==
    ASSUME NEW f \in [Threads -> PCs], NEW t \in Threads, NEW x, NEW C
    PROVE  /\ Count(f, C) \in Nat
           /\ Count([f EXCEPT ![t] = x], C) \in Nat
           /\ Count([f EXCEPT ![t] = x], C) = Count(f, C) + In(x, C) - In(f[t], C)
<1> DEFINE A == {u \in Threads : f[u] \in C}
           B == {u \in Threads : [f EXCEPT ![t] = x][u] \in C}
<1>0. Count(f, C) = Cardinality(A) /\ Count([f EXCEPT ![t] = x], C) = Cardinality(B)
  BY DEF Count
<1>1. IsFiniteSet(A) /\ IsFiniteSet(B)
  <2>1. A \in SUBSET Threads /\ B \in SUBSET Threads
    OBVIOUS
  <2>2. QED  BY <2>1, FS_Subset, ThreadsFinite
<1>2. Cardinality(A) \in Nat /\ Cardinality(B) \in Nat
  BY <1>1, FS_CardinalityType
<1>3. t \in A <=> f[t] \in C
  OBVIOUS
<1>4. CASE x \in C
  <2>1. B = A \cup {t}
    BY <1>4
  <2> HIDE DEF A, B
  <2>2. Cardinality(A \cup {t}) = IF t \in A THEN Cardinality(A) ELSE Cardinality(A) + 1
    BY <1>1, FS_AddElement
  <2>3. QED  BY <1>0, <1>2, <1>3, <1>4, <2>1, <2>2 DEF In
<1>5. CASE x \notin C
  <2>1. B = A \ {t}
    BY <1>5
  <2> HIDE DEF A, B
  <2>2. Cardinality(A \ {t}) = IF t \in A THEN Cardinality(A) - 1 ELSE Cardinality(A)
    BY <1>1, FS_RemoveElement
  <2>3. QED  BY <1>0, <1>2, <1>3, <1>5, <2>1, <2>2 DEF In
<1>6. QED  BY <1>4, <1>5

\* A Release loop of n rounds, entered by a caller that has none pending,
\* adds exactly n permits still to be posted.
LEMMA PostingGrows ==
    ASSUME TypeOK, NEW t \in Threads, Free(t), NEW n \in Nat
    PROVE  /\ posting \cup Loop(t, n) \subseteq Threads \X (Nat \ {0})
           /\ IsFiniteSet(posting \cup Loop(t, n))
           /\ Cardinality(posting \cup Loop(t, n)) = Cardinality(posting) + n
<1>1. IsFiniteSet({t}) /\ Cardinality({t}) = 1
  BY FS_Singleton
<1>2. IsFiniteSet(1..n) /\ Cardinality(1..n) = n
  BY FS_Interval
<1>3. IsFiniteSet(Loop(t, n)) /\ Cardinality(Loop(t, n)) = n
  <2>1. IsFiniteSet({t} \X (1..n))
        /\ Cardinality({t} \X (1..n)) = Cardinality({t}) * Cardinality(1..n)
    BY <1>1, <1>2, FS_Product, Zenon
  <2>2. Cardinality({t} \X (1..n)) = 1 * n
    BY <2>1, <1>1, <1>2
  <2>3. QED  BY <2>1, <2>2 DEF Loop
<1>4. posting \cap Loop(t, n) = {}
  BY DEF Free, Loop
<1>5. Loop(t, n) \subseteq Threads \X (Nat \ {0})
  BY DEF Loop
<1>6. IsFiniteSet(posting) /\ posting \subseteq Threads \X (Nat \ {0})
  BY DEF TypeOK
<1>7. Cardinality(posting) \in Nat
  BY <1>6, FS_CardinalityType
<1>8. Cardinality(posting \cap Loop(t, n)) = 0
  BY <1>4, FS_EmptySet
<1>9. /\ IsFiniteSet(posting \cup Loop(t, n))
      /\ Cardinality(posting \cup Loop(t, n))
           = Cardinality(posting) + Cardinality(Loop(t, n))
                                  - Cardinality(posting \cap Loop(t, n))
  BY <1>3, <1>6, FS_Union, Zenon
<1>10. QED  BY <1>3, <1>5, <1>6, <1>7, <1>8, <1>9

\* SemaphoreSlim.zan: the counters never leave their ranges; waiters and
\* active are decremented only where they are known to be positive.
THEOREM TypeCorrect == Spec => []TypeOK
<1>1. Init => TypeOK
  <2> SUFFICES ASSUME Init PROVE TypeOK
    OBVIOUS
  <2>1. posting \subseteq Threads \X (Nat \ {0}) /\ IsFiniteSet(posting)
    BY FS_EmptySet DEF Init
  <2>2. pc \in [Threads -> PCs]
    BY DEF Init, PCs
  <2>3. QED  BY <2>1, <2>2 DEF Init, TypeOK
<1>2. TypeOK /\ [Next]_vars => TypeOK'
  <2> SUFFICES ASSUME TypeOK, [Next]_vars PROVE TypeOK'
    OBVIOUS
  <2> USE MaxLimitNat DEF TypeOK, PCs
  <2>1. ASSUME NEW t \in Threads, Admit(t) PROVE TypeOK'
    BY <2>1 DEF Admit
  <2>2. ASSUME NEW t \in Threads, Park(t) \/ ParkTimed(t) PROVE TypeOK'
    BY <2>2 DEF Park, ParkTimed, Register
  <2>3. ASSUME NEW t \in Threads, TakePermit(t) PROVE TypeOK'
    BY <2>3 DEF TakePermit
  <2>4. ASSUME NEW t \in Threads, Expire(t) \/ Withdraw(t) \/ Resume(t) PROVE TypeOK'
    BY <2>4 DEF Expire, Withdraw, Resume
  <2>5. ASSUME NEW t \in Threads, Release(t) PROVE TypeOK'
    <3>1. posting' \subseteq Threads \X (Nat \ {0}) /\ IsFiniteSet(posting')
      BY <2>5, PostingGrows, 1 \in Nat DEF Release
    <3>2. QED  BY <2>5, <3>1 DEF Release
  <2>6. ASSUME NEW t \in Threads, NEW l \in 0..MaxLimit, SetLimit(t, l) PROVE TypeOK'
    <3>1. Admitted(l) \in Nat /\ waiters - Admitted(l) \in Nat
      BY DEF Admitted, Smaller
    <3>2. posting' \subseteq Threads \X (Nat \ {0}) /\ IsFiniteSet(posting')
      BY <2>6, <3>1, PostingGrows DEF SetLimit
    <3>3. QED  BY <2>6, <3>1, <3>2 DEF SetLimit
  <2>7. ASSUME NEW t \in Threads, Cancel(t) PROVE TypeOK'
    <3>1. posting' \subseteq Threads \X (Nat \ {0}) /\ IsFiniteSet(posting')
      BY <2>7, PostingGrows DEF Cancel
    <3>2. QED  BY <2>7, <3>1 DEF Cancel
  <2>8. ASSUME NEW t \in Threads, Post(t) PROVE TypeOK'
    BY <2>8, FS_RemoveElement DEF Post
  <2>9. ASSUME Dispose PROVE TypeOK'
    BY <2>9 DEF Dispose
  <2>10. CASE UNCHANGED vars
    BY <2>10 DEF vars
  <2>11. QED  BY <2>1, <2>2, <2>3, <2>4, <2>5, <2>6, <2>7, <2>8, <2>9, <2>10
              DEF Next, Step
<1>3. QED  BY <1>1, <1>2, PTL DEF Spec

\* SemaphoreSlim.Release and SetLimit: there is never both room and a
\* registered waiter, whatever the order of releases, withdrawals and changes
\* of the limit.
THEOREM NoWaiterBesideRoom == Spec => []NoLostWakeup
<1>1. Init => NoLostWakeup
  BY DEF Init, NoLostWakeup
<1>2. TypeOK /\ NoLostWakeup /\ [Next]_vars => NoLostWakeup'
  <2> SUFFICES ASSUME TypeOK, NoLostWakeup, [Next]_vars PROVE NoLostWakeup'
    OBVIOUS
  <2> USE MaxLimitNat DEF TypeOK, NoLostWakeup
  <2>1. ASSUME NEW t \in Threads, Admit(t) \/ Park(t) \/ ParkTimed(t) PROVE NoLostWakeup'
    BY <2>1 DEF Admit, Park, ParkTimed, Register
  <2>2. ASSUME NEW t \in Threads, TakePermit(t) \/ Expire(t) \/ Resume(t) \/ Post(t)
        PROVE NoLostWakeup'
    BY <2>2 DEF TakePermit, Expire, Resume, Post
  <2>3. ASSUME NEW t \in Threads, Withdraw(t) PROVE NoLostWakeup'
    BY <2>3 DEF Withdraw
  <2>4. ASSUME NEW t \in Threads, Release(t) PROVE NoLostWakeup'
    BY <2>4 DEF Release
  <2>5. ASSUME NEW t \in Threads, NEW l \in 0..MaxLimit, SetLimit(t, l) PROVE NoLostWakeup'
    BY <2>5 DEF SetLimit, Admitted, Smaller
  <2>6. ASSUME NEW t \in Threads, Cancel(t) PROVE NoLostWakeup'
    BY <2>6 DEF Cancel
  <2>7. CASE Dispose \/ UNCHANGED vars
    BY <2>7 DEF Dispose, vars
  <2>8. QED  BY <2>1, <2>2, <2>3, <2>4, <2>5, <2>6, <2>7 DEF Next, Step
<1>3. QED  BY <1>1, <1>2, TypeCorrect, PTL DEF Spec

\* The inductive invariant: the types with the two balances and the bound.
IInv == TypeOK /\ RegistrationsBalance /\ SlotsBalance /\ HoldersCounted

\* SemaphoreSlim.zan: what every caller holds or waits for is accounted for
\* exactly once, through hand-overs, deadlines, changes of the limit and the
\* shutting of the gate.
THEOREM Balanced == Spec => [](RegistrationsBalance /\ SlotsBalance /\ HoldersCounted)
<1>1. Init => RegistrationsBalance /\ SlotsBalance /\ HoldersCounted
  <2> SUFFICES ASSUME Init PROVE RegistrationsBalance /\ SlotsBalance /\ HoldersCounted
    OBVIOUS
  <2>1. Blocked = {} /\ Holders = {} /\ Woken = {} /\ posting = {}
    BY DEF Init, Blocked, Holders, Woken
  <2>2. QED
    BY <2>1, FS_EmptySet DEF Init, RegistrationsBalance, SlotsBalance, HoldersCounted
<1>2. IInv /\ [Next]_vars => (RegistrationsBalance /\ SlotsBalance /\ HoldersCounted)'
  <2> SUFFICES ASSUME IInv, [Next]_vars
               PROVE  (RegistrationsBalance /\ SlotsBalance /\ HoldersCounted)'
    BY DEF IInv
  <2> DEFINE B == Cardinality(Blocked)  H == Cardinality(Holders)
             W == Cardinality(Woken)    P == Cardinality(posting)
             Goal == /\ B' = waiters' + permits' + P'
                     /\ ~canceled' => active' = H' + W' + permits' + P'
                     /\ H' <= active'
  <2>1. /\ limit \in Nat /\ active \in Nat /\ waiters \in Nat /\ permits \in Nat
        /\ IsFiniteSet(posting) /\ P \in Nat
        /\ canceled \in BOOLEAN /\ TypeOK
        /\ B = waiters + permits + P
        /\ ~canceled => active = H + W + permits + P
        /\ H <= active
    BY MaxLimitNat, FS_CardinalityType
       DEF IInv, TypeOK, RegistrationsBalance, SlotsBalance, HoldersCounted
  <2>2. B \in Nat /\ H \in Nat /\ W \in Nat
    <3>1. Blocked \in SUBSET Threads /\ Holders \in SUBSET Threads /\ Woken \in SUBSET Threads
      BY DEF Blocked, Holders, Woken
    <3>2. QED  BY <3>1, ThreadsFinite, FS_Subset, FS_CardinalityType
  \* A caller that goes from one place to another moves between the classes.
  <2>3. ASSUME NEW t \in Threads, NEW x, pc' = [pc EXCEPT ![t] = x]
        PROVE  /\ B' = B + In(x, Out) - In(pc[t], Out)
               /\ H' = H + In(x, {"holding"}) - In(pc[t], {"holding"})
               /\ W' = W + In(x, {"woken"}) - In(pc[t], {"woken"})
               /\ H' \in Nat
    <3>1. ASSUME NEW C PROVE /\ Count(pc', C) = Count(pc, C) + In(x, C) - In(pc[t], C)
                             /\ Count(pc', C) \in Nat
      BY <2>1, <2>3, Moved DEF TypeOK
    <3>2. B = Count(pc, Out) /\ B' = Count(pc', Out)
      BY DEF Count, Blocked, Out
    <3>3. H = Count(pc, {"holding"}) /\ H' = Count(pc', {"holding"})
      <4>1. /\ Holders = {u \in Threads : pc[u] \in {"holding"}}
            /\ Holders' = {u \in Threads : pc'[u] \in {"holding"}}
        BY DEF Holders
      <4>2. QED  BY <4>1 DEF Count
    <3>4. W = Count(pc, {"woken"}) /\ W' = Count(pc', {"woken"})
      <4>1. /\ Woken = {u \in Threads : pc[u] \in {"woken"}}
            /\ Woken' = {u \in Threads : pc'[u] \in {"woken"}}
        BY DEF Woken
      <4>2. QED  BY <4>1 DEF Count
    <3> HIDE DEF B, H, W
    <3>5. QED  BY <3>1, <3>2, <3>3, <3>4
  <2>4. ASSUME pc' = pc PROVE B' = B /\ H' = H /\ W' = W
    BY <2>4 DEF Blocked, Holders, Woken
  <2>5. ASSUME posting' = posting PROVE P' = P
    BY <2>5
  <2>6. ASSUME NEW t \in Threads, Free(t), NEW n \in Nat,
               posting' = posting \cup Loop(t, n)
        PROVE  P' = P + n
    BY <2>6, PostingGrows DEF IInv
  <2>7. Goal => (RegistrationsBalance /\ SlotsBalance /\ HoldersCounted)'
    BY DEF RegistrationsBalance, SlotsBalance, HoldersCounted
  <2> HIDE DEF B, H, W, P
  <2>8. ASSUME NEW t \in Threads, Admit(t) PROVE Goal
    <3>1. pc[t] = "idle" /\ pc' = [pc EXCEPT ![t] = "holding"] /\ posting' = posting
      BY <2>8 DEF Admit
    <3>2. /\ B' = B + In("holding", Out) - In(pc[t], Out)
          /\ H' = H + In("holding", {"holding"}) - In(pc[t], {"holding"})
          /\ W' = W + In("holding", {"woken"}) - In(pc[t], {"woken"})
          /\ H' \in Nat
      BY <3>1, <2>3
    <3>3. H' = H + 1 /\ B' = B /\ W' = W /\ P' = P
      BY <3>1, <3>2, <2>2, <2>5, Table
    <3>4. QED  BY <2>8, <3>3, <2>1, <2>2 DEF Admit
  <2>9. ASSUME NEW t \in Threads, Park(t) \/ ParkTimed(t) PROVE Goal
    <3>1. /\ pc[t] = "idle" /\ posting' = posting
          /\ \/ pc' = [pc EXCEPT ![t] = "parked"]
             \/ pc' = [pc EXCEPT ![t] = "timed"]
      BY <2>9 DEF Park, ParkTimed, Register
    <3>2. B' = B + 1 /\ H' = H /\ W' = W /\ P' = P
      BY <3>1, <2>2, <2>3, <2>5, Table
    <3>3. QED  BY <2>9, <3>2, <2>1, <2>2 DEF Park, ParkTimed, Register
  <2>10. ASSUME NEW t \in Threads, TakePermit(t) PROVE Goal
    <3>1. /\ pc[t] \in {"parked", "timed", "owed"}
          /\ pc' = [pc EXCEPT ![t] = "woken"] /\ posting' = posting
      BY <2>10 DEF TakePermit
    <3>2. /\ B' = B + In("woken", Out) - In(pc[t], Out)
          /\ H' = H + In("woken", {"holding"}) - In(pc[t], {"holding"})
          /\ W' = W + In("woken", {"woken"}) - In(pc[t], {"woken"})
          /\ H' \in Nat
      BY <3>1, <2>3
    <3>3. B' = B - 1 /\ W' = W + 1 /\ H' = H /\ P' = P
      BY <3>1, <3>2, <2>2, <2>5, Table
    <3>4. QED  BY <2>10, <3>3, <2>1, <2>2 DEF TakePermit
  <2>11. ASSUME NEW t \in Threads, Expire(t) PROVE Goal
    <3>1. /\ pc[t] = "timed" /\ posting' = posting
          /\ pc' = [pc EXCEPT ![t] = "expired"]
      BY <2>11 DEF Expire
    <3>2. /\ B' = B + In("expired", Out) - In(pc[t], Out)
          /\ H' = H + In("expired", {"holding"}) - In(pc[t], {"holding"})
          /\ W' = W + In("expired", {"woken"}) - In(pc[t], {"woken"})
          /\ H' \in Nat
      BY <3>1, <2>3
    <3>3. B' = B /\ W' = W /\ H' = H /\ P' = P
      BY <3>1, <3>2, <2>2, <2>5, Table
    <3>4. QED  BY <2>11, <3>3, <2>1, <2>2 DEF Expire
  <2>12. ASSUME NEW t \in Threads, Withdraw(t) PROVE Goal
    <3>1. /\ pc[t] = "expired" /\ posting' = posting
          /\ \/ waiters > 0 /\ pc' = [pc EXCEPT ![t] = "idle"]
             \/ ~(waiters > 0) /\ pc' = [pc EXCEPT ![t] = "owed"]
      BY <2>12 DEF Withdraw
    <3>2. /\ W' = W /\ H' = H /\ P' = P
          /\ B' = IF waiters > 0 THEN B - 1 ELSE B
      BY <3>1, <2>2, <2>3, <2>5, Table
    <3>3. QED  BY <2>12, <3>2, <2>1, <2>2 DEF Withdraw
  <2>13. ASSUME NEW t \in Threads, Resume(t) PROVE Goal
    <3>1. /\ pc[t] = "woken" /\ posting' = posting
          /\ \/ canceled /\ pc' = [pc EXCEPT ![t] = "idle"]
             \/ ~canceled /\ pc' = [pc EXCEPT ![t] = "holding"]
      BY <2>13 DEF Resume
    <3>2. /\ B' = B /\ P' = P /\ W' = W - 1
          /\ H' = IF canceled THEN H ELSE H + 1
      BY <3>1, <2>2, <2>3, <2>5, Table
    <3>3. UNCHANGED <<limit, active, waiters, canceled, permits>>
      BY <2>13 DEF Resume
    <3>4. W >= 1
      <4>1. W' \in Nat
        <5>1. Woken' \in SUBSET Threads
          BY DEF Woken
        <5>2. QED  BY <5>1, ThreadsFinite, FS_Subset, FS_CardinalityType DEF W
      <4>2. QED  BY <4>1, <3>2, <2>2
    <3>5. QED  BY <3>2, <3>3, <3>4, <2>1, <2>2
  <2>14. ASSUME NEW t \in Threads, Release(t) PROVE Goal
    <3> DEFINE wake == ~canceled /\ waiters > 0
                       /\ (IF active > 0 THEN active - 1 ELSE active) < limit
    <3>1. pc[t] = "holding" /\ pc' = [pc EXCEPT ![t] = "idle"] /\ Free(t)
      BY <2>14 DEF Release
    <3>2. /\ B' = B + In("idle", Out) - In(pc[t], Out)
          /\ H' = H + In("idle", {"holding"}) - In(pc[t], {"holding"})
          /\ W' = W + In("idle", {"woken"}) - In(pc[t], {"woken"})
          /\ H' \in Nat
      BY <3>1, <2>3
    <3>3. B' = B /\ W' = W /\ H' = H - 1 /\ H' \in Nat
      BY <3>1, <3>2, <2>2, Table
    <3>4. active > 0 /\ active' = (IF wake THEN active ELSE active - 1)
      BY <2>14, <3>3, <2>1, <2>2 DEF Release
    <3>5. waiters' = (IF wake THEN waiters - 1 ELSE waiters)
          /\ permits' = permits /\ canceled' = canceled
      BY <2>14 DEF Release
    <3>6. P' = IF wake THEN P + 1 ELSE P
      <4>1. CASE wake
        <5>1. posting' = posting \cup Loop(t, 1)
          BY <2>14, <4>1 DEF Release
        <5>2. QED  BY <5>1, <2>6, <3>1, <4>1
      <4>2. CASE ~wake
        BY <2>14, <4>2, <2>5 DEF Release
      <4>3. QED  BY <4>1, <4>2
    <3> HIDE DEF wake
    <3>7. QED  BY <3>3, <3>4, <3>5, <3>6, <2>1, <2>2
  <2>15. ASSUME NEW t \in Threads, NEW l \in 0..MaxLimit, SetLimit(t, l) PROVE Goal
    <3>1. Admitted(l) \in Nat /\ (canceled => Admitted(l) = 0)
      BY <2>1, MaxLimitNat DEF Admitted, Smaller
    <3>2. B' = B /\ W' = W /\ H' = H
      BY <2>15, <2>4 DEF SetLimit
    <3>3. P' = P + Admitted(l)
      BY <2>15, <2>6, <3>1 DEF SetLimit
    <3>4. QED  BY <2>15, <3>1, <3>2, <3>3, <2>1, <2>2 DEF SetLimit
  <2>16. ASSUME NEW t \in Threads, Cancel(t) PROVE Goal
    <3>1. B' = B /\ W' = W /\ H' = H
      BY <2>16, <2>4 DEF Cancel
    <3>2. P' = P + waiters
      BY <2>16, <2>6, <2>1 DEF Cancel
    <3>3. QED  BY <2>16, <3>1, <3>2, <2>1, <2>2 DEF Cancel
  <2>17. ASSUME NEW t \in Threads, Post(t) PROVE Goal
    <3>1. B' = B /\ W' = W /\ H' = H
      BY <2>17, <2>4 DEF Post
    <3>2. PICK p \in posting : posting' = posting \ {p}
      BY <2>17 DEF Post
    <3>3. P' = P - 1
      BY <3>2, <2>1, FS_RemoveElement DEF P
    <3>4. permits' = permits + 1 /\ UNCHANGED <<limit, active, waiters, canceled>>
      BY <2>17 DEF Post
    <3>5. QED  BY <3>1, <3>3, <3>4, <2>1, <2>2
  <2>18. ASSUME Dispose \/ UNCHANGED vars PROVE Goal
    <3>1. pc' = pc /\ posting' = posting /\ UNCHANGED <<active, waiters, permits, canceled>>
      BY <2>18 DEF Dispose, vars
    <3>2. B' = B /\ W' = W /\ H' = H /\ P' = P
      BY <3>1, <2>4, <2>5
    <3>3. QED  BY <3>1, <3>2, <2>1, <2>2
  <2> HIDE DEF Goal
  <2>19. Goal
    BY <2>8, <2>9, <2>10, <2>11, <2>12, <2>13, <2>14, <2>15, <2>16, <2>17, <2>18
       DEF Next, Step
  <2>20. QED  BY <2>7, <2>19
<1>3. QED  BY <1>1, <1>2, TypeCorrect, PTL DEF Spec, IInv

\* Each caller in the semaphore has a registration of its own or a permit that
\* is there or on its way: Withdraw may rely on it when it finds none left.
THEOREM RegistrationsAreBalanced == Spec => []RegistrationsBalance
BY Balanced, PTL

\* While the gate is open active counts the slots that are held or on their
\* way to a caller, and no other: none leaks through a deadline.
THEOREM SlotsAreBalanced == Spec => []SlotsBalance
BY Balanced, PTL

\* Not even the shutting of the gate lets a slot be held that is not counted.
THEOREM HoldersAreCounted == Spec => []HoldersCounted
BY Balanced, PTL

\* No step that gives out slots exceeds the limit in force after it, nor gives
\* any out once the gate is shut.
THEOREM AdmitsWithinLimit == Spec => AdmissionBounded
<1>1. TypeOK /\ [Next]_vars =>
        [active' > active => active' <= limit' /\ ~canceled']_vars
  <2> SUFFICES ASSUME TypeOK, Next, active' > active
               PROVE  active' <= limit' /\ ~canceled'
    OBVIOUS
  <2>1. /\ limit \in Nat /\ active \in Nat /\ waiters \in Nat
        /\ canceled \in BOOLEAN
    BY MaxLimitNat DEF TypeOK
  <2>2. ASSUME NEW t \in Threads, Admit(t) PROVE active' <= limit' /\ ~canceled'
    BY <2>1, <2>2 DEF Admit
  <2>3. ASSUME NEW t \in Threads, Release(t) PROVE active' <= limit' /\ ~canceled'
    BY <2>1, <2>3 DEF Release
  <2>4. ASSUME NEW t \in Threads, NEW l \in 0..MaxLimit, SetLimit(t, l)
        PROVE  active' <= limit' /\ ~canceled'
    <3>1. active' = active + Admitted(l) /\ limit' = l /\ canceled' = canceled
      BY <2>4 DEF SetLimit
    <3>2. Admitted(l) # 0
      BY <2>1, <3>1
    <3>3. ~canceled /\ Admitted(l) <= l - active
      BY <2>1, <3>2, MaxLimitNat DEF Admitted, Smaller
    <3>4. Admitted(l) \in Nat /\ l \in Nat
      BY <2>1, MaxLimitNat DEF Admitted, Smaller
    <3>5. active' <= limit'
      BY <2>1, <3>1, <3>3, <3>4
    <3>6. ~canceled'
      BY <3>1, <3>3
    <3>7. QED  BY <3>5, <3>6
  <2>5. ASSUME NEW t \in Threads,
               \/ Park(t) \/ ParkTimed(t) \/ TakePermit(t) \/ Expire(t)
               \/ Withdraw(t) \/ Resume(t) \/ Post(t) \/ Cancel(t)
        PROVE  active' = active
    BY <2>5 DEF Park, ParkTimed, Register, TakePermit, Expire, Withdraw, Resume,
                Post, Cancel
  <2>6. ~Dispose
    BY <2>1 DEF Dispose
  <2>7. QED  BY <2>1, <2>2, <2>3, <2>4, <2>5, <2>6 DEF Next, Step
<1>2. QED  BY <1>1, TypeCorrect, PTL DEF Spec, AdmissionBounded

----------------------------------------------------------------------------
(***************************************************************************)
(* The monitor for any program of finitely many tasks, any objects and any *)
(* way the objects share mutexes.  CountsNesting is the heart: with the    *)
(* types and the bound on nesting it is inductive, mutual exclusion is     *)
(* read off it, and with the order in which the program locks it rules out *)
(* a circle of tasks that wait for each other.                             *)
(***************************************************************************)

\* A task that asks has room for one more statement and keeps the order.
Nested ==
    \A t \in Tasks :
        /\ Len(inside[t]) <= MaxNest
        /\ asks[t] # None => Len(inside[t]) < MaxNest /\ InOrder(t, asks[t])

MonitorIInv == MonitorTypeOK /\ Nested /\ CountsNesting

\* The uses of a mutex are finitely many.
LEMMA UsesFinite ==
    ASSUME NEW s
    PROVE  IsFiniteSet(Uses(s)) /\ Cardinality(Uses(s)) \in Nat
<1>1. IsFiniteSet(1..MaxNest)
  BY NestNat, FS_Interval
<1>2. IsFiniteSet(Tasks \X (1..MaxNest))
  BY <1>1, TasksFinite, FS_Product
<1>3. Uses(s) \in SUBSET (Tasks \X (1..MaxNest))
  BY DEF Uses
<1>4. QED  BY <1>2, <1>3, FS_Subset, FS_CardinalityType

\* What a task is inside of.
LEMMA InsideTyped ==
    ASSUME MonitorTypeOK, NEW t \in Tasks
    PROVE  /\ inside[t] \in Seq(Objects) /\ Len(inside[t]) \in Nat
           /\ DOMAIN inside[t] = 1..Len(inside[t])
           /\ \A i \in 1..Len(inside[t]) : inside[t][i] \in Objects
<1>1. inside[t] \in Seq(Objects)
  BY DEF MonitorTypeOK
<1>2. QED  BY <1>1, LenProperties, ElementOfSeq

\* No mutex is held and no task is inside anything at the start.
LEMMA MonitorInitIInv == MonitorInit => MonitorIInv
<1> SUFFICES ASSUME MonitorInit PROVE MonitorIInv
  OBVIOUS
<1>1. MonitorTypeOK
  BY EmptySeq DEF MonitorInit, MonitorTypeOK
<1>2. \A t \in Tasks : inside[t] = <<>> /\ Len(inside[t]) = 0 /\ asks[t] = None
  BY EmptySeq DEF MonitorInit
<1>3. Nested
  BY <1>2, NestNat DEF Nested
<1>4. ASSUME NEW s \in Stripes PROVE Uses(s) = {}
  BY <1>2 DEF Uses
<1>5. CountsNesting
  BY <1>4, FS_EmptySet DEF MonitorInit, CountsNesting
<1>6. QED  BY <1>1, <1>3, <1>5 DEF MonitorIInv

\* A task that asks changes no mutex.
LEMMA AskKeeps ==
    ASSUME MonitorIInv, NEW t \in Tasks, NEW o \in Objects, Ask(t, o)
    PROVE  MonitorIInv'
<1> USE DEF MonitorIInv
<1>1. MonitorTypeOK'
  BY DEF Ask, MonitorTypeOK
<1>2. Nested'
  BY DEF Ask, MonitorTypeOK, Nested, InOrder, Holds
<1>3. \A s : Uses(s)' = Uses(s)
  BY DEF Ask, Uses
<1>4. CountsNesting'
  BY <1>3 DEF Ask, CountsNesting
<1>5. QED  BY <1>1, <1>2, <1>4

\* Entering a mutex that is free or one's own adds one to its depth and one
\* to its uses.
LEMMA EnterKeeps ==
    ASSUME MonitorIInv, NEW t \in Tasks, Enter(t)
    PROVE  MonitorIInv'
<1>0. PICK o, s, n : o = asks[t] /\ s = stripe[o] /\ n = Len(inside[t])
  OBVIOUS
<1> DEFINE p == <<t, n + 1>>
<1>1. /\ MonitorTypeOK /\ Nested /\ CountsNesting
      /\ o \in Objects /\ s \in Stripes /\ n \in Nat /\ n < MaxNest
      /\ inside[t] \in Seq(Objects) /\ owner[s] \in {None, Host[t]}
      /\ Host[t] \in OsThreads
  BY <1>0, InsideTyped, HostType DEF MonitorIInv, Enter, MonitorTypeOK, Nested, Available
<1>2. /\ inside' = [inside EXCEPT ![t] = Append(inside[t], o)]
      /\ asks' = [asks EXCEPT ![t] = None]
      /\ owner' = [owner EXCEPT ![s] = Host[t]]
      /\ depth' = [depth EXCEPT ![s] = depth[s] + 1]
      /\ stripe' = stripe
  BY <1>0 DEF Enter
<1>3. /\ Append(inside[t], o) \in Seq(Objects)
      /\ Len(Append(inside[t], o)) = n + 1
      /\ \A i \in 1..n : Append(inside[t], o)[i] = inside[t][i]
      /\ Append(inside[t], o)[n + 1] = o
  BY <1>0, <1>1, AppendProperties
<1>4. MonitorTypeOK'
  BY <1>1, <1>2, <1>3 DEF MonitorTypeOK
<1>5. Nested'
  <2> SUFFICES ASSUME NEW u \in Tasks
               PROVE  /\ Len(inside'[u]) <= MaxNest
                      /\ asks'[u] # None => /\ Len(inside'[u]) < MaxNest
                                            /\ InOrder(u, asks[u])'
    BY DEF Nested
  <2>1. CASE u = t
    BY <1>1, <1>2, <1>3, <2>1, NestNat DEF MonitorTypeOK
  <2>2. CASE u # t
    BY <1>1, <1>2, <2>2 DEF MonitorTypeOK, Nested, InOrder, Holds
  <2>3. QED  BY <2>1, <2>2
<1>6. \A u \in Tasks : u # t => inside'[u] = inside[u]
  BY <1>1, <1>2 DEF MonitorTypeOK
<1>7. inside'[t] = Append(inside[t], o)
  BY <1>1, <1>2 DEF MonitorTypeOK
<1>8. Uses(s)' = Uses(s) \cup {p}
  <2>1. ASSUME NEW u \in Tasks, NEW i \in 1..MaxNest
        PROVE  <<u, i>> \in Uses(s)' <=> <<u, i>> \in Uses(s) \cup {p}
    <3>1. CASE u # t
      BY <1>2, <1>6, <3>1 DEF Uses
    <3>2. CASE u = t
      BY <1>0, <1>1, <1>2, <1>3, <1>7, <3>2 DEF Uses
    <3>3. QED  BY <3>1, <3>2
  <2>2. p \in Tasks \X (1..MaxNest)
    BY <1>1, NestNat
  <2>3. Uses(s) \subseteq Tasks \X (1..MaxNest) /\ Uses(s)' \subseteq Tasks \X (1..MaxNest)
    BY DEF Uses
  <2>4. QED  BY <2>1, <2>2, <2>3
<1>9. p \notin Uses(s)
  BY <1>0, <1>1 DEF Uses
<1>10. ASSUME NEW r \in Stripes, r # s PROVE Uses(r)' = Uses(r)
  <2>1. ASSUME NEW u \in Tasks, NEW i \in 1..MaxNest
        PROVE  <<u, i>> \in Uses(r)' <=> <<u, i>> \in Uses(r)
    <3>1. CASE u # t
      BY <1>2, <1>6, <3>1 DEF Uses
    <3>2. CASE u = t
      BY <1>0, <1>1, <1>2, <1>3, <1>7, <1>10, <3>2 DEF Uses
    <3>3. QED  BY <3>1, <3>2
  <2>2. Uses(r) \subseteq Tasks \X (1..MaxNest) /\ Uses(r)' \subseteq Tasks \X (1..MaxNest)
    BY DEF Uses
  <2>3. QED  BY <2>1, <2>2
<1>11. ASSUME NEW r \in Stripes
       PROVE  /\ depth'[r] = Cardinality(Uses(r)')
              /\ depth'[r] = 0 <=> owner'[r] = None
              /\ \A q \in Uses(r)' : owner'[r] = Host[q[1]]
  <2>1. CASE r # s
    BY <1>1, <1>2, <1>10, <2>1 DEF MonitorTypeOK, CountsNesting
  <2>2. CASE r = s
    <3>1. Cardinality(Uses(s)') = Cardinality(Uses(s)) + 1
      BY <1>8, <1>9, UsesFinite, FS_AddElement
    <3>2. depth'[s] = Cardinality(Uses(s)) + 1 /\ owner'[s] = Host[t]
      BY <1>1, <1>2 DEF MonitorTypeOK, CountsNesting
    <3>3. Cardinality(Uses(s)) \in Nat
      BY UsesFinite
    <3>4. \A q \in Uses(s) : owner[s] = Host[q[1]] /\ Host[q[1]] # None
      <4>1. \A q \in Uses(s) : q[1] \in Tasks
        BY DEF Uses
      <4>2. \A q \in Uses(s) : owner[s] = Host[q[1]]
        BY <1>1 DEF CountsNesting
      <4>3. QED  BY <4>1, <4>2, HostType, NoneType
    <3>5. \A q \in Uses(s)' : Host[q[1]] = Host[t]
      BY <1>1, <1>8, <3>4
    <3>6. Host[t] # None
      BY <1>1, NoneType
    <3>7. QED  BY <2>2, <3>1, <3>2, <3>3, <3>5, <3>6
  <2>3. QED  BY <2>1, <2>2
<1>12. CountsNesting'
  BY <1>11 DEF CountsNesting
<1>13. QED  BY <1>4, <1>5, <1>12 DEF MonitorIInv

\* Leaving takes one from both, and the owner goes with the last.
LEMMA ExitKeeps ==
    ASSUME MonitorIInv, NEW t \in Tasks, Exit(t)
    PROVE  MonitorIInv'
<1>0. PICK n, s : n = Len(inside[t]) /\ s = stripe[inside[t][n]]
  OBVIOUS
<1> DEFINE p == <<t, n>>
<1>1. /\ MonitorTypeOK /\ Nested /\ CountsNesting
      /\ n \in 1..MaxNest /\ inside[t] \in Seq(Objects)
      /\ inside[t][n] \in Objects /\ s \in Stripes
      /\ asks[t] = None
  BY <1>0, InsideTyped, NestNat DEF MonitorIInv, Exit, MonitorTypeOK, Nested, Runs
<1>2. /\ inside' = [inside EXCEPT ![t] = SubSeq(inside[t], 1, n - 1)]
      /\ owner' = [owner EXCEPT ![s] = IF depth[s] = 1 THEN None ELSE owner[s]]
      /\ depth' = [depth EXCEPT ![s] = depth[s] - 1]
      /\ stripe' = stripe /\ asks' = asks
  BY <1>0 DEF Exit
<1>3. /\ SubSeq(inside[t], 1, n - 1) \in Seq(Objects)
      /\ Len(SubSeq(inside[t], 1, n - 1)) = n - 1
      /\ \A i \in 1..(n - 1) : SubSeq(inside[t], 1, n - 1)[i] = inside[t][i]
  <2>1. \A i \in 1..(n - 1) : inside[t][i] \in Objects
    BY <1>0, <1>1, ElementOfSeq, NestNat
  <2>2. /\ SubSeq(inside[t], 1, n - 1) \in Seq(Objects)
        /\ Len(SubSeq(inside[t], 1, n - 1)) = IF 1 <= n - 1 THEN n - 1 - 1 + 1 ELSE 0
        /\ \A i \in 1..(n - 1 - 1 + 1) :
              SubSeq(inside[t], 1, n - 1)[i] = inside[t][1 + i - 1]
    BY <1>1, <2>1, SubSeqProperties, NestNat
  <2>3. QED  BY <1>1, <2>2, NestNat
<1>5. Nested'
  <2> SUFFICES ASSUME NEW u \in Tasks
               PROVE  /\ Len(inside'[u]) <= MaxNest
                      /\ asks'[u] # None => /\ Len(inside'[u]) < MaxNest
                                            /\ InOrder(u, asks[u])'
    BY DEF Nested
  <2>1. CASE u = t
    BY <1>1, <1>2, <1>3, <2>1, NestNat DEF MonitorTypeOK
  <2>2. CASE u # t
    BY <1>1, <1>2, <2>2 DEF MonitorTypeOK, Nested, InOrder, Holds
  <2>3. QED  BY <2>1, <2>2
<1>6. \A u \in Tasks : u # t => inside'[u] = inside[u]
  BY <1>1, <1>2 DEF MonitorTypeOK
<1>7. inside'[t] = SubSeq(inside[t], 1, n - 1)
  BY <1>1, <1>2 DEF MonitorTypeOK
<1>8. Uses(s)' = Uses(s) \ {p}
  <2>1. ASSUME NEW u \in Tasks, NEW i \in 1..MaxNest
        PROVE  <<u, i>> \in Uses(s)' <=> <<u, i>> \in Uses(s) \ {p}
    <3>1. CASE u # t
      BY <1>2, <1>6, <3>1 DEF Uses
    <3>2. CASE u = t
      BY <1>0, <1>1, <1>2, <1>3, <1>7, <3>2, NestNat DEF Uses
    <3>3. QED  BY <3>1, <3>2
  <2>2. Uses(s) \subseteq Tasks \X (1..MaxNest) /\ Uses(s)' \subseteq Tasks \X (1..MaxNest)
    BY DEF Uses
  <2>3. QED  BY <2>1, <2>2
<1>9. p \in Uses(s)
  BY <1>0, <1>1, NestNat DEF Uses
<1>91. MonitorTypeOK'
  <2>1. depth[s] \in Nat \ {0}
    BY <1>1, <1>9, UsesFinite, FS_EmptySet DEF CountsNesting
  <2>2. QED  BY <1>1, <1>2, <1>3, <2>1 DEF MonitorTypeOK
<1>10. ASSUME NEW r \in Stripes, r # s PROVE Uses(r)' = Uses(r)
  <2>1. ASSUME NEW u \in Tasks, NEW i \in 1..MaxNest
        PROVE  <<u, i>> \in Uses(r)' <=> <<u, i>> \in Uses(r)
    <3>1. CASE u # t
      BY <1>2, <1>6, <3>1 DEF Uses
    <3>2. CASE u = t
      BY <1>0, <1>1, <1>2, <1>3, <1>7, <1>10, <3>2, NestNat DEF Uses
    <3>3. QED  BY <3>1, <3>2
  <2>2. Uses(r) \subseteq Tasks \X (1..MaxNest) /\ Uses(r)' \subseteq Tasks \X (1..MaxNest)
    BY DEF Uses
  <2>3. QED  BY <2>1, <2>2
<1>11. ASSUME NEW r \in Stripes
       PROVE  /\ depth'[r] = Cardinality(Uses(r)')
              /\ depth'[r] = 0 <=> owner'[r] = None
              /\ \A q \in Uses(r)' : owner'[r] = Host[q[1]]
  <2>1. CASE r # s
    BY <1>1, <1>2, <1>10, <2>1 DEF MonitorTypeOK, CountsNesting
  <2>2. CASE r = s
    <3>1. Cardinality(Uses(s)') = Cardinality(Uses(s)) - 1
      BY <1>8, <1>9, UsesFinite, FS_RemoveElement
    <3>2. /\ depth[s] = Cardinality(Uses(s)) /\ depth'[s] = depth[s] - 1
          /\ owner'[s] = IF depth[s] = 1 THEN None ELSE owner[s]
          /\ depth[s] = 0 <=> owner[s] = None
      BY <1>1, <1>2 DEF MonitorTypeOK, CountsNesting
    <3>3. Cardinality(Uses(s)) \in Nat /\ Cardinality(Uses(s)) # 0
      BY <1>9, UsesFinite, FS_EmptySet
    <3>4. depth[s] = 1 => Uses(s)' = {}
      <4>1. IsFiniteSet(Uses(s))
        BY UsesFinite
      <4>2. IsFiniteSet(Uses(s) \ {p})
        BY <4>1, FS_RemoveElement
      <4>3. IsFiniteSet(Uses(s)')
        BY <1>8, <4>2
      <4>4. QED  BY <3>1, <3>2, <4>3, FS_EmptySet
    <3>5. \A q \in Uses(s)' : owner[s] = Host[q[1]]
      BY <1>1, <1>8 DEF CountsNesting
    <3>6. QED  BY <2>2, <3>1, <3>2, <3>3, <3>4, <3>5
  <2>3. QED  BY <2>1, <2>2
<1>12. CountsNesting'
  BY <1>11 DEF CountsNesting
<1>13. QED  BY <1>91, <1>5, <1>12 DEF MonitorIInv

\* The inductive invariant: the types and the count of every mutex.
THEOREM AlwaysNested == MonitorSpec => []MonitorIInv
<1>1. MonitorIInv /\ [MonitorNext]_monitorVars => MonitorIInv'
  <2> SUFFICES ASSUME MonitorIInv, [MonitorNext]_monitorVars PROVE MonitorIInv'
    OBVIOUS
  <2>1. CASE UNCHANGED monitorVars
    <3>1. MonitorTypeOK' /\ Nested'
      BY <2>1 DEF monitorVars, MonitorIInv, MonitorTypeOK, Nested, InOrder, Holds
    <3>2. \A s : Uses(s)' = Uses(s)
      BY <2>1 DEF monitorVars, Uses
    <3>3. CountsNesting'
      BY <2>1, <3>2 DEF monitorVars, MonitorIInv, CountsNesting
    <3>4. QED  BY <3>1, <3>3 DEF MonitorIInv
  <2>2. QED  BY <2>1, AskKeeps, EnterKeeps, ExitKeeps DEF MonitorNext
<1>2. QED  BY <1>1, MonitorInitIInv, PTL DEF MonitorSpec

\* The state keeps its type: no mutex is given back more often than taken.
THEOREM MonitorTypeCorrect == MonitorSpec => []MonitorTypeOK
BY AlwaysNested, PTL DEF MonitorIInv

\* zt_monitor_enter, zt_monitor_exit: the count of a mutex is the number of
\* lock statements entered through it, whatever objects share it, and it is
\* owned by the thread of every task inside; no exit frees it early or late.
THEOREM NestingIsCounted == MonitorSpec => []CountsNesting
BY AlwaysNested, PTL DEF MonitorIInv

\* A lock statement keeps every other task out of the locks of its object
\* when each task has a thread of its own.
THEOREM LocksExclude ==
    ASSUME \A t, u \in Tasks : Host[t] = Host[u] => t = u
    PROVE  MonitorSpec => []MutualExclusion
<1>1. MonitorIInv => MutualExclusion
  <2> SUFFICES ASSUME MonitorIInv, NEW t \in Tasks, NEW u \in Tasks, NEW o \in Objects,
                      Holds(t, o), Holds(u, o)
               PROVE  t = u
    BY DEF MutualExclusion
  <2>1. PICK i \in DOMAIN inside[t] : inside[t][i] = o
    BY DEF Holds
  <2>2. PICK j \in DOMAIN inside[u] : inside[u][j] = o
    BY DEF Holds
  <2>3. <<t, i>> \in Uses(stripe[o]) /\ <<u, j>> \in Uses(stripe[o])
    BY <2>1, <2>2, InsideTyped, NestNat DEF MonitorIInv, Nested, Uses
  <2>4. stripe[o] \in Stripes
    BY DEF MonitorIInv, MonitorTypeOK
  <2>5. Host[t] = Host[u]
    BY <2>3, <2>4 DEF MonitorIInv, CountsNesting
  <2>6. QED  BY <2>5
<1>2. QED  BY <1>1, AlwaysNested, PTL

\* A program that locks in order does not stop on its locks when no two
\* objects share a mutex and each task has a thread of its own: the task that
\* asks for the highest object finds it free, or its owner is running.
THEOREM OrderedProgramsProgress ==
    ASSUME \A t, u \in Tasks : Host[t] = Host[u] => t = u
    PROVE  MonitorSpec => []Progresses
<1>1. MonitorIInv => Progresses
  <2> SUFFICES ASSUME MonitorIInv, OwnMutexes,
                      NEW t0 \in Tasks, asks[t0] # None,
                      \A t \in Tasks : ~CanEnter(t) /\ ~(Runs(t) /\ inside[t] # <<>>)
               PROVE  FALSE
    BY DEF Progresses, Moves
  <2> DEFINE A == {t \in Tasks : asks[t] # None}
             Above(t) == {u \in A : Rank[asks[u]] > Rank[asks[t]]}
             D == {Above(t) : t \in A}
  <2>1. \A t \in A : asks[t] \in Objects /\ Rank[asks[t]] \in Nat
    BY RankType DEF MonitorIInv, MonitorTypeOK
  \* Whoever asks waits for one that asks for something higher.
  <2>2. ASSUME NEW t \in A PROVE \E u \in A : Rank[asks[u]] > Rank[asks[t]]
    <3> DEFINE o == asks[t]
               s == stripe[o]
    <3>1. o \in Objects /\ s \in Stripes /\ owner[s] # None /\ owner[s] # Host[t]
      BY <2>1 DEF MonitorIInv, MonitorTypeOK, CanEnter, Available
    <3>2. PICK p \in Uses(s) : TRUE
      <4>1. Uses(s) # {}
        BY <3>1, FS_EmptySet DEF MonitorIInv, CountsNesting
      <4>2. QED  BY <4>1
    <3>3. PICK u \in Tasks, i \in 1..MaxNest : p = <<u, i>>
      BY DEF Uses
    <3>4. /\ i \in 1..Len(inside[u]) /\ inside[u][i] \in Objects
          /\ stripe[inside[u][i]] = s
          /\ owner[s] = Host[u]
      <4>1. i <= Len(inside[u]) /\ stripe[inside[u][i]] = s /\ owner[s] = Host[u]
        BY <3>1, <3>2, <3>3 DEF MonitorIInv, CountsNesting, Uses
      <4>2. QED  BY <4>1, InsideTyped, NestNat DEF MonitorIInv
    <3>5. inside[u][i] = o
      BY <3>1, <3>4 DEF OwnMutexes
    <3>6. inside[u] # <<>>
      BY <3>4, EmptySeq
    <3>7. u \in A
      BY <3>6 DEF Runs
    <3> DEFINE w == asks[u]
    <3>8. w \in Objects /\ stripe[w] \in Stripes /\ InOrder(u, w)
      BY <2>1, <3>7 DEF MonitorIInv, MonitorTypeOK, Nested
    <3>9. ~Holds(u, w)
      <4> SUFFICES ASSUME Holds(u, w) PROVE FALSE
        OBVIOUS
      <4>1. PICK j \in DOMAIN inside[u] : inside[u][j] = w
        BY DEF Holds
      <4>2. <<u, j>> \in Uses(stripe[w])
        BY <4>1, InsideTyped, NestNat DEF MonitorIInv, Nested, Uses
      <4>3. owner[stripe[w]] = Host[u]
        BY <3>8, <4>2 DEF MonitorIInv, CountsNesting
      <4>4. QED  BY <3>7, <4>3 DEF CanEnter, Available
    <3>10. Rank[o] < Rank[w]
      BY <3>4, <3>5, <3>8, <3>9, InsideTyped DEF InOrder, MonitorIInv
    <3>11. QED  BY <2>1, <3>7, <3>10
  <2>3. A \subseteq Tasks /\ t0 \in A
    OBVIOUS
  <2>4. D \subseteq FiniteSubsetsOf(Tasks) /\ D # {}
    <3>1. FiniteSubsetsOf(Tasks) = SUBSET Tasks
      BY TasksFinite, FS_FiniteSubsetsOfFinite
    <3>2. \A t \in A : Above(t) \in SUBSET Tasks
      OBVIOUS
    <3> HIDE DEF A, Above
    <3>3. QED  BY <2>3, <3>1, <3>2
  <2>5. PICK d \in D : \A e \in D : ~(<<e, d>> \in StrictSubsetOrdering(Tasks))
    BY <2>4, FS_StrictSubsetOrderingWellFounded, WFMin
  <2>6. PICK t \in A : d = Above(t)
    OBVIOUS
  <2>7. PICK u \in A : Rank[asks[u]] > Rank[asks[t]]
    BY <2>2
  <2>8. Above(u) \subseteq Above(t) /\ u \in Above(t) /\ u \notin Above(u)
    BY <2>1, <2>7
  <2>9. <<Above(u), d>> \in StrictSubsetOrdering(Tasks)
    BY <2>3, <2>6, <2>8 DEF StrictSubsetOrdering
  <2>10. QED  BY <2>5, <2>9
<1>2. QED  BY <1>1, AlwaysNested, PTL
=============================================================================
