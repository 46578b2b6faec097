------------------------- MODULE BlockingQueue_proofs -------------------------
(***************************************************************************)
(* BlockingQueue for any threads, capacity and compaction threshold: what  *)
(* parks and what wakes is counted, nothing that waits is forgotten, and   *)
(* the list with its consumed prefix is the queue HandoffQueue describes.  *)
(*                                                                         *)
(* NoItemForgotten and NoRoomForgotten are not inductive as they stand: a  *)
(* producer that comes back from its semaphore and finds the queue closed  *)
(* leaves without filling the free place it was sent to, which is all      *)
(* right only because nobody is registered once the queue is closed        *)
(* (NobodyInClosed).                                                       *)
(***************************************************************************)
EXTENDS BlockingQueue, SequenceTheorems, FiniteSetTheorems, TLAPS

\* The threads of S that are at one of the places C.
Count(f, S, C) == Cardinality({u \in S : f[u] \in C})

\* 1 if x is in C and 0 otherwise.
In(x, C) == IF x \in C THEN 1 ELSE 0

Out == {"parked", "timed", "expired", "owed"}
Back == {"again", "againFor"}

InSem(S) == Cardinality(BlockedIn(S))
Looks(S) == Cardinality(LookingIn(S))

\* Which places count where.
LEMMA Table ==
    /\ In("idle", Out) = 0 /\ In("idle", Back) = 0
    /\ In("parked", Out) = 1 /\ In("parked", Back) = 0
    /\ In("timed", Out) = 1 /\ In("timed", Back) = 0
    /\ In("expired", Out) = 1 /\ In("expired", Back) = 0
    /\ In("owed", Out) = 1 /\ In("owed", Back) = 0
    /\ In("again", Out) = 0 /\ In("again", Back) = 1
    /\ In("againFor", Out) = 0 /\ In("againFor", Back) = 1
BY DEF In, Out, Back

\* t goes to the place x and nobody else goes anywhere.
Goes(f, g, t, x) == g[t] = x /\ \A u \in Threads : u # t => g[u] = f[u]

\* A thread that moves changes the counts of its own kind of thread, by the
\* place it leaves and the place it goes to.
LEMMA Moved ==
    ASSUME NEW f, NEW g, NEW t \in Threads, NEW x, Goes(f, g, t, x),
           NEW C, NEW S \in SUBSET Threads
    PROVE  /\ Count(f, S, C) \in Nat
           /\ t \in S => Count(g, S, C) = Count(f, S, C) + In(x, C) - In(f[t], C)
           /\ t \notin S => Count(g, S, C) = Count(f, S, C)
<1> DEFINE A == {u \in S : f[u] \in C}
           B == {u \in S : g[u] \in C}
<1>0. Count(f, S, C) = Cardinality(A) /\ Count(g, S, C) = Cardinality(B)
  BY DEF Count
<1>a. S \subseteq Threads /\ IsFiniteSet(S)
  <2>1. IsFiniteSet(Threads)
    BY ThreadsFinite, FS_Union DEF Threads
  <2>2. QED  BY <2>1, FS_Subset
<1>1. IsFiniteSet(A)
  <2>1. A \in SUBSET S
    OBVIOUS
  <2>2. QED  BY <1>a, <2>1, FS_Subset
<1>2. Cardinality(A) \in Nat
  BY <1>1, FS_CardinalityType
<1>3. CASE t \notin S
  <2>1. B = A
    BY <1>3, <1>a DEF Goes
  <2>2. QED  BY <1>0, <1>2, <1>3, <2>1
<1>4. CASE t \in S /\ x \in C
  <2>1. B = A \cup {t} /\ (t \in A <=> f[t] \in C)
    BY <1>4, <1>a DEF Goes
  <2> HIDE DEF A, B
  <2>2. Cardinality(A \cup {t}) = IF t \in A THEN Cardinality(A) ELSE Cardinality(A) + 1
    BY <1>1, FS_AddElement
  <2>3. QED  BY <1>0, <1>2, <1>4, <2>1, <2>2 DEF In
<1>5. CASE t \in S /\ x \notin C
  <2>1. B = A \ {t} /\ (t \in A <=> f[t] \in C)
    BY <1>5, <1>a DEF Goes
  <2> HIDE DEF A, B
  <2>2. Cardinality(A \ {t}) = IF t \in A THEN Cardinality(A) - 1 ELSE Cardinality(A)
    BY <1>1, FS_RemoveElement
  <2>3. QED  BY <1>0, <1>2, <1>5, <2>1, <2>2 DEF In
<1>6. QED  BY <1>3, <1>4, <1>5

\* A thread enters a loop of n Releases with none left from before, so that
\* all n are new.
LEMMA LoopAdds ==
    ASSUME NEW P \in SUBSET (Threads \X (Nat \ {0})), IsFiniteSet(P),
           NEW t \in Threads, \A p \in P : p[1] # t, NEW n \in Nat
    PROVE  /\ P \cup Loop(t, n) \in SUBSET (Threads \X (Nat \ {0}))
           /\ IsFiniteSet(P \cup Loop(t, n))
           /\ Cardinality(P \cup Loop(t, n)) = Cardinality(P) + n
<1>1. IsFiniteSet({t}) /\ Cardinality({t}) = 1
  BY FS_Singleton
<1>2. IsFiniteSet(1..n) /\ Cardinality(1..n) = n
  BY FS_Interval
<1>3. IsFiniteSet(Loop(t, n)) /\ Cardinality(Loop(t, n)) = n
  <2>1. IsFiniteSet({t} \X (1..n))
        /\ Cardinality({t} \X (1..n)) = Cardinality({t}) * Cardinality(1..n)
    BY <1>1, <1>2, FS_Product, Zenon
  <2>2. Cardinality({t} \X (1..n)) = 1 * n
    BY <2>1, <1>1, <1>2
  <2>3. QED  BY <2>1, <2>2 DEF Loop
<1>4. Cardinality(P \cap Loop(t, n)) = 0
  <2>1. P \cap Loop(t, n) = {}
    BY DEF Loop
  <2>2. QED  BY <2>1, FS_EmptySet
<1>5. Loop(t, n) \subseteq Threads \X (Nat \ {0})
  BY DEF Loop
<1>6. Cardinality(P) \in Nat
  BY FS_CardinalityType
<1>7. /\ IsFiniteSet(P \cup Loop(t, n))
      /\ Cardinality(P \cup Loop(t, n))
           = Cardinality(P) + Cardinality(Loop(t, n)) - Cardinality(P \cap Loop(t, n))
  BY <1>3, FS_Union, Zenon
<1>8. QED  BY <1>3, <1>4, <1>5, <1>6, <1>7

\* What a step may do to the Releases still to be made: the caller adds a loop
\* for each semaphore.
Adds(t, n, m) ==
    /\ posting' \in [Sems -> SUBSET (Threads \X (Nat \ {0}))]
    /\ \A s \in Sems : IsFiniteSet(posting'[s])
    /\ Cardinality(posting'["sem"]) = Cardinality(posting["sem"]) + n
    /\ Cardinality(posting'["slots"]) = Cardinality(posting["slots"]) + m

\* One release loop of one turn, the if (waiters > 0) of the source, adds
\* one release to its semaphore and none to the other.
LEMMA WakesOne ==
    ASSUME TypeOK, NEW t \in Threads, Free(t), NEW s \in Sems,
           posting' = [posting EXCEPT ![s] = @ \cup Loop(t, 1)]
    PROVE  Adds(t, In(s, {"sem"}), In(s, {"slots"}))
<1>1. /\ posting[s] \in SUBSET (Threads \X (Nat \ {0}))
      /\ IsFiniteSet(posting[s])
      /\ \A p \in posting[s] : p[1] # t
  BY DEF TypeOK, Free
<1>2. 1 \in Nat
  OBVIOUS
<1>3. /\ posting[s] \cup Loop(t, 1) \in SUBSET (Threads \X (Nat \ {0}))
      /\ IsFiniteSet(posting[s] \cup Loop(t, 1))
      /\ Cardinality(posting[s] \cup Loop(t, 1)) = Cardinality(posting[s]) + 1
  BY <1>1, <1>2, LoopAdds
<1>4. posting'[s] = posting[s] \cup Loop(t, 1)
  BY DEF TypeOK
<1>5. \A r \in Sems : r # s => posting'[r] = posting[r]
  BY DEF TypeOK
<1>6. posting' \in [Sems -> SUBSET (Threads \X (Nat \ {0}))]
  BY <1>3 DEF TypeOK
<1>7. \A r \in Sems : IsFiniteSet(posting'[r])
  BY <1>3, <1>4, <1>5 DEF TypeOK
<1>8. \A r \in Sems : Cardinality(posting[r]) \in Nat
  BY FS_CardinalityType DEF TypeOK
<1>9. QED  BY <1>3, <1>4, <1>5, <1>6, <1>7, <1>8 DEF Adds, In, Sems

\* Ending the queue starts as many releases as it took registrations.
LEMMA WakesAll ==
    ASSUME TypeOK, NEW t \in Threads, Free(t), WakeAll(t)
    PROVE  Adds(t, waiters, posters)
<1>1. \A s \in Sems : /\ posting[s] \in SUBSET (Threads \X (Nat \ {0}))
                      /\ IsFiniteSet(posting[s])
                      /\ \A p \in posting[s] : p[1] # t
  BY DEF TypeOK, Free
<1>2. waiters \in Nat /\ posters \in Nat /\ "sem" \in Sems /\ "slots" \in Sems
  BY DEF TypeOK, Sems
<1>3. /\ posting["sem"] \cup Loop(t, waiters) \in SUBSET (Threads \X (Nat \ {0}))
      /\ IsFiniteSet(posting["sem"] \cup Loop(t, waiters))
      /\ Cardinality(posting["sem"] \cup Loop(t, waiters))
           = Cardinality(posting["sem"]) + waiters
  BY <1>1, <1>2, LoopAdds
<1>4. /\ posting["slots"] \cup Loop(t, posters) \in SUBSET (Threads \X (Nat \ {0}))
      /\ IsFiniteSet(posting["slots"] \cup Loop(t, posters))
      /\ Cardinality(posting["slots"] \cup Loop(t, posters))
           = Cardinality(posting["slots"]) + posters
  BY <1>1, <1>2, LoopAdds
<1>5. /\ posting'["sem"] = posting["sem"] \cup Loop(t, waiters)
      /\ posting'["slots"] = posting["slots"] \cup Loop(t, posters)
      /\ posting' \in [Sems -> SUBSET (Threads \X (Nat \ {0}))]
  BY <1>2, <1>3, <1>4 DEF WakeAll, TypeOK
<1>6. \A s \in Sems : IsFiniteSet(posting'[s])
  BY <1>3, <1>4, <1>5 DEF Sems
<1>7. QED  BY <1>3, <1>4, <1>5, <1>6 DEF Adds

\* A step that starts no release loop adds nothing.
LEMMA WakesNone ==
    ASSUME TypeOK, NEW t \in Threads, UNCHANGED posting
    PROVE  Adds(t, 0, 0)
<1>1. \A s \in Sems : Cardinality(posting[s]) \in Nat
  BY FS_CardinalityType DEF TypeOK
<1>2. QED  BY <1>1 DEF Adds, TypeOK, Sems

----------------------------------------------------------------------------
\* The items that wait: the list behind the consumed prefix.
Waiting(l, h) == SubSeq(l, h + 1, Len(l))

\* What is left of a list after its consumed prefix, item by item.
LEMMA WaitingProperties ==
    ASSUME NEW l \in Seq(Producers), NEW h \in 0..Len(l)
    PROVE  /\ Waiting(l, h) \in Seq(Producers)
           /\ Len(Waiting(l, h)) = Len(l) - h
           /\ \A i \in 1..(Len(l) - h) : Waiting(l, h)[i] = l[h + i]
<1>1. Len(l) \in Nat /\ \A i \in 1..Len(l) : l[i] \in Producers
  BY LenProperties, ElementOfSeq
<1>2. h + 1 \in Int /\ Len(l) \in Int /\ \A i \in h + 1 .. Len(l) : l[i] \in Producers
  BY <1>1
<1>3. /\ SubSeq(l, h + 1, Len(l)) \in Seq(Producers)
      /\ Len(SubSeq(l, h + 1, Len(l)))
           = IF h + 1 <= Len(l) THEN Len(l) - (h + 1) + 1 ELSE 0
      /\ \A i \in 1 .. Len(l) - (h + 1) + 1 :
            SubSeq(l, h + 1, Len(l))[i] = l[(h + 1) + i - 1]
  BY <1>2, SubSeqProperties
<1>4. ASSUME NEW i \in 1..(Len(l) - h) PROVE Waiting(l, h)[i] = l[h + i]
  <2>1. i \in 1 .. Len(l) - (h + 1) + 1 /\ (h + 1) + i - 1 = h + i
    BY <1>1
  <2>2. QED  BY <1>3, <2>1 DEF Waiting
<1>5. Len(Waiting(l, h)) = Len(l) - h
  BY <1>1, <1>3 DEF Waiting
<1>6. QED  BY <1>3, <1>4, <1>5 DEF Waiting

\* Two list-and-prefix pairs that show the same items show the same queue.
LEMMA SameWaiting ==
    ASSUME NEW l \in Seq(Producers), NEW h \in 0..Len(l), NEW q \in Seq(Producers),
           Len(q) = Len(l) - h, \A i \in 1..(Len(l) - h) : q[i] = l[h + i]
    PROVE  Waiting(l, h) = q
<1>1. /\ Waiting(l, h) \in Seq(Producers) /\ Len(Waiting(l, h)) = Len(q)
      /\ \A i \in 1..(Len(l) - h) : Waiting(l, h)[i] = q[i]
  BY WaitingProperties
<1>2. \A i \in 1..Len(Waiting(l, h)) : Waiting(l, h)[i] = q[i]
  BY <1>1
<1>3. QED  BY <1>1, <1>2, SeqEqual

\* An accepted item comes last.
LEMMA AppendLast ==
    ASSUME NEW l \in Seq(Producers), NEW h \in 0..Len(l), NEW p \in Producers
    PROVE  /\ Append(l, p) \in Seq(Producers) /\ Len(Append(l, p)) = Len(l) + 1
           /\ h \in 0..Len(Append(l, p))
           /\ Waiting(Append(l, p), h) = Append(Waiting(l, h), p)
<1> DEFINE a == Append(l, p)  w == Waiting(l, h)  q == Append(w, p)
<1>1. /\ a \in Seq(Producers) /\ Len(a) = Len(l) + 1 /\ a[Len(l) + 1] = p
      /\ \A i \in 1..Len(l) : a[i] = l[i]
  BY AppendProperties
<1>2. /\ w \in Seq(Producers) /\ Len(w) = Len(l) - h
      /\ \A i \in 1..(Len(l) - h) : w[i] = l[h + i]
  BY WaitingProperties
<1> HIDE DEF w
<1>3. /\ q \in Seq(Producers) /\ Len(q) = Len(w) + 1 /\ q[Len(w) + 1] = p
      /\ \A i \in 1..Len(w) : q[i] = w[i]
  BY <1>2, AppendProperties
<1>4. Len(l) \in Nat
  BY LenProperties
<1> HIDE DEF a, q
<1>5. h \in 0..Len(a) /\ Len(q) = Len(a) - h
  BY <1>1, <1>2, <1>3, <1>4
<1>6. ASSUME NEW i \in 1..(Len(a) - h) PROVE q[i] = a[h + i]
  <2>1. CASE i \in 1..(Len(l) - h)
    <3>1. h + i \in 1..Len(l)
      BY <1>4, <2>1
    <3>2. QED  BY <1>1, <1>2, <1>3, <2>1, <3>1
  <2>2. CASE i = Len(l) - h + 1
    <3>1. h + i = Len(l) + 1 /\ i = Len(w) + 1
      BY <1>2, <1>4, <2>2
    <3>2. QED  BY <1>1, <1>3, <3>1
  <2>3. QED  BY <1>1, <1>4, <2>1, <2>2
<1>7. Waiting(a, h) = q
  BY <1>1, <1>3, <1>5, <1>6, SameWaiting
<1>8. QED  BY <1>1, <1>5, <1>7 DEF a, q, w

\* TakeLocked takes the item that waited longest, and compaction changes
\* nothing that can be seen.
LEMMA TakesFirst ==
    ASSUME TypeOK, Held > 0, TakeLocked(head + 1)
    PROVE  /\ items' \in Seq(Producers) /\ head' \in 0..Len(items')
           /\ Held' = Held - 1
           /\ items[head + 1] \in Producers
           /\ Waiting(items, head) # <<>>
           /\ Head(Waiting(items, head)) = items[head + 1]
           /\ Waiting(items', head') = Tail(Waiting(items, head))
<1> DEFINE n == Len(items)
<1>1. /\ items \in Seq(Producers) /\ n \in Nat /\ head \in 0..n /\ head + 1 \in 1..n
      /\ n \in head + 1 .. n
  BY LenProperties DEF TypeOK, Held
<1>2. items[head + 1] \in Producers
  BY <1>1, ElementOfSeq
<1>3. /\ Head(Waiting(items, head)) = items[head + 1]
      /\ Tail(Waiting(items, head)) = Waiting(items, head + 1)
  BY <1>1, HeadTailOfSubSeq DEF Waiting
<1>4. Waiting(items, head) # <<>>
  BY <1>1, WaitingProperties, EmptySeq DEF Held
<1>5. CASE items' = items /\ head' = head + 1
  BY <1>1, <1>2, <1>3, <1>4, <1>5 DEF Held
<1>6. CASE items' = SubSeq(items, head + 1 + 1, Len(items)) /\ head' = 0
  <2>1. items' = Waiting(items, head + 1) /\ head + 1 \in 0..n
    BY <1>1, <1>6 DEF Waiting
  <2>2. items' \in Seq(Producers) /\ Len(items') = n - (head + 1)
    BY <1>1, <2>1, WaitingProperties
  <2>3. Waiting(items', 0) = items'
    BY <2>2, SubSeqFull DEF Waiting
  <2>4. Held' = Held - 1 /\ head' \in 0..Len(items')
    BY <1>1, <1>6, <2>2 DEF Held
  <2>5. QED  BY <1>2, <1>3, <1>4, <1>6, <2>1, <2>2, <2>3, <2>4
<1>7. QED  BY <1>5, <1>6 DEF TakeLocked

----------------------------------------------------------------------------
\* BlockingQueue.zan: the counters never go below zero, what is consumed lies
\* within the list, and every Release still to be made has its own place.
THEOREM TypeCorrect == Spec => []TypeOK
<1>1. Init => TypeOK
  <2> SUFFICES ASSUME Init PROVE TypeOK
    OBVIOUS
  <2>1. items \in Seq(Producers) /\ head \in 0..Len(items)
    BY EmptySeq DEF Init
  <2>2. posting \in [Sems -> SUBSET (Threads \X (Nat \ {0}))]
        /\ \A s \in Sems : IsFiniteSet(posting[s])
    BY FS_EmptySet DEF Init
  <2>3. pc \in [Threads -> PCs] /\ sent \in [Producers -> 0..MaxSends]
    BY CapacityNat DEF Init, PCs
  <2>4. QED  BY <2>1, <2>2, <2>3 DEF Init, TypeOK
<1>2. TypeOK /\ [Next]_vars => TypeOK'
  <2> SUFFICES ASSUME TypeOK, [Next]_vars PROVE TypeOK'
    OBVIOUS
  <2> DEFINE Posted == /\ posting' \in [Sems -> SUBSET (Threads \X (Nat \ {0}))]
                       /\ \A s \in Sems : IsFiniteSet(posting'[s])
  <2>a. Producers \subseteq Threads /\ Consumers \subseteq Threads
    BY DEF Threads
  <2>b. "sem" \in Sems /\ "slots" \in Sems
    BY DEF Sems
  <2>c. ASSUME posting' = posting PROVE Posted
    BY <2>c DEF TypeOK
  <2>d. ASSUME NEW t \in Threads, Free(t), NEW s \in Sems,
               posting' = [posting EXCEPT ![s] = @ \cup Loop(t, 1)]
        PROVE  Posted
    BY <2>d, WakesOne DEF Adds
  <2>e. ASSUME NEW c \in Consumers, Free(c), WakePoster(c)
        PROVE  Posted /\ posters' \in Nat
    BY <2>a, <2>b, <2>c, <2>d, <2>e DEF WakePoster, TypeOK
  <2>1. ASSUME NEW p \in Producers, Enqueue(p) PROVE TypeOK'
    <3>1. p \in Threads /\ Free(p)
      BY <2>1, <2>a DEF Enqueue
    <3>2. Posted /\ waiters' \in Nat /\ posters' \in Nat
      <4>1. \/ posting' = posting
            \/ posting' = [posting EXCEPT !["sem"] = @ \cup Loop(p, 1)]
        BY <2>1 DEF Enqueue, WakeWaiter
      <4>2. Posted
        BY <2>b, <2>c, <2>d, <3>1, <4>1
      <4>3. waiters' \in Nat /\ posters' \in Nat
        BY <2>1 DEF Enqueue, WakeWaiter, TypeOK
      <4>4. QED  BY <4>2, <4>3
    <3>3. items' \in Seq(Producers) /\ head' \in 0..Len(items')
      BY <2>1, AppendLast DEF Enqueue, TypeOK
    <3>4. pc' \in [Threads -> PCs] /\ sent' \in [Producers -> 0..MaxSends]
      <4>1. \/ pc' = [pc EXCEPT ![p] = "idle"]
            \/ pc' = [pc EXCEPT ![p] = "parked"]
        BY <2>1 DEF Enqueue
      <4>2. pc' \in [Threads -> PCs]
        BY <4>1, <3>1 DEF TypeOK, PCs
      <4>3. sent[p] + 1 \in 0..MaxSends
        BY <2>1, CapacityNat DEF Enqueue, TypeOK
      <4>4. sent' = sent \/ sent' = [sent EXCEPT ![p] = sent[p] + 1]
        BY <2>1 DEF Enqueue
      <4>5. sent' \in [Producers -> 0..MaxSends]
        BY <4>3, <4>4 DEF TypeOK
      <4>6. QED  BY <4>2, <4>5
    <3> HIDE DEF Posted
    <3>5. UNCHANGED <<closed, canceled, fault, permits, got>>
      BY <2>1 DEF Enqueue
    <3>6. QED  BY <3>2, <3>3, <3>4, <3>5 DEF TypeOK, Posted
  <2>2. ASSUME NEW c \in Consumers, TryDequeue(c) PROVE TypeOK'
    <3>1. Posted /\ posters' \in Nat
      BY <2>2, <2>e DEF TryDequeue
    <3>2. /\ items' \in Seq(Producers) /\ head' \in 0..Len(items')
          /\ got' \in [Consumers -> Producers \cup {Empty}]
      <4>1. CASE Held > 0
        <5>1. TakeLocked(head + 1) /\ got' = [got EXCEPT ![c] = items[head + 1]]
          BY <2>2, <4>1 DEF TryDequeue
        <5>2. /\ items' \in Seq(Producers) /\ head' \in 0..Len(items')
              /\ items[head + 1] \in Producers
          BY <4>1, <5>1, TakesFirst
        <5>3. QED  BY <5>1, <5>2 DEF TypeOK
      <4>2. CASE ~(Held > 0)
        BY <2>2, <4>2 DEF TryDequeue, TypeOK
      <4>3. QED  BY <4>1, <4>2
    <3>3. UNCHANGED <<closed, canceled, fault, waiters, permits, pc, sent>>
      BY <2>2 DEF TryDequeue
    <3>4. QED  BY <3>1, <3>2, <3>3 DEF TypeOK
  <2>3. ASSUME NEW c \in Consumers, NEW again, NEW where \in PCs, Turn(c, again, where)
        PROVE  TypeOK'
    <3>1. Posted /\ posters' \in Nat /\ waiters' \in Nat
      <4>1. CASE WakePoster(c) /\ UNCHANGED waiters
        BY <2>3, <4>1, <2>e DEF Turn, TypeOK
      <4>2. CASE UNCHANGED <<posters, posting>> /\ waiters' \in {waiters, waiters + 1}
        BY <2>c, <4>2 DEF TypeOK
      <4>3. QED  BY <2>3, <4>1, <4>2 DEF Turn
    <3>2. /\ items' \in Seq(Producers) /\ head' \in 0..Len(items')
          /\ got' \in [Consumers -> Producers \cup {Empty}]
      <4>1. CASE Held > 0
        <5>1. TakeLocked(head + 1) /\ got' = [got EXCEPT ![c] = items[head + 1]]
          BY <2>3, <4>1 DEF Turn
        <5>2. /\ items' \in Seq(Producers) /\ head' \in 0..Len(items')
              /\ items[head + 1] \in Producers
          BY <4>1, <5>1, TakesFirst
        <5>3. QED  BY <5>1, <5>2 DEF TypeOK
      <4>2. CASE ~(Held > 0)
        BY <2>3, <4>2 DEF Turn, TypeOK
      <4>3. QED  BY <4>1, <4>2
    <3>3. UNCHANGED <<closed, canceled, fault, permits, sent>>
      BY <2>3 DEF Turn
    <3>4. pc' \in [Threads -> PCs]
      BY <2>3, <2>a DEF Turn, TypeOK, PCs
    <3>5. QED  BY <3>1, <3>2, <3>3, <3>4 DEF TypeOK
  <2>4. ASSUME NEW t \in Threads, NEW s \in Sems, Wake(t, s) PROVE TypeOK'
    BY <2>4 DEF Wake, TypeOK, PCs
  <2>5. ASSUME NEW c \in Consumers, Expire(c) \/ Withdraw(c) PROVE TypeOK'
    <3>1. \E x \in PCs : pc' = [pc EXCEPT ![c] = x]
      BY <2>5 DEF Expire, Withdraw, PCs
    <3>2. pc' \in [Threads -> PCs]
      BY <3>1, <2>a DEF TypeOK
    <3>3. waiters' \in Nat
      BY <2>5 DEF Expire, Withdraw, TypeOK
    <3>4. got' \in [Consumers -> Producers \cup {Empty}]
      BY <2>5 DEF Expire, Withdraw, TypeOK
    <3>5. UNCHANGED <<items, head, closed, canceled, fault, posters, permits, posting, sent>>
      BY <2>5 DEF Expire, Withdraw
    <3>6. QED  BY <3>2, <3>3, <3>4, <3>5 DEF TypeOK
  <2>6. ASSUME NEW t \in Threads, Post(t) PROVE TypeOK'
    <3>1. PICK s \in Sems : \E p \in posting[s] :
            /\ posting' = [posting EXCEPT ![s] = @ \ {p}]
            /\ permits' = [permits EXCEPT ![s] = @ + 1]
      BY <2>6 DEF Post
    <3>2. PICK p \in posting[s] : posting' = [posting EXCEPT ![s] = @ \ {p}]
      BY <3>1
    <3>3. IsFiniteSet(posting[s] \ {p}) /\ posting[s] \ {p} \subseteq posting[s]
      BY FS_RemoveElement DEF TypeOK
    <3>4. Posted
      BY <3>2, <3>3 DEF TypeOK
    <3>5. permits' \in [Sems -> Nat]
      BY <3>1 DEF TypeOK
    <3>6. UNCHANGED <<items, head, closed, canceled, fault, waiters, posters, pc, sent, got>>
      BY <2>6 DEF Post
    <3>7. QED  BY <3>4, <3>5, <3>6 DEF TypeOK
  <2>7. ASSUME NEW t \in Threads, Free(t), WakeAll(t)
        PROVE  Posted /\ waiters' \in Nat /\ posters' \in Nat
    <3>1. Posted
      BY <2>7, WakesAll DEF Adds
    <3>2. QED  BY <2>7, <3>1 DEF WakeAll
  <2>8. ASSUME NEW t \in Threads, NEW failed \in BOOLEAN, Complete(t, failed) PROVE TypeOK'
    BY <2>7, <2>8 DEF Complete, TypeOK
  <2>9. ASSUME NEW t \in Threads, Cancel(t) PROVE TypeOK'
    <3>1. Len(items) \in 0..Len(items)
      BY LenProperties DEF TypeOK
    <3>2. QED  BY <2>7, <2>9, <3>1 DEF Cancel, TypeOK
  <2>10. CASE UNCHANGED vars
    BY <2>10 DEF vars, TypeOK
  <2>11. "parked" \in PCs /\ "timed" \in PCs
    BY DEF PCs
  <2>12. QED
    BY <2>1, <2>2, <2>3, <2>4, <2>5, <2>6, <2>8, <2>9, <2>10, <2>11, <2>a, <2>b
       DEF Next, Produce, Consume, Dequeue, DequeueFor
<1>3. QED  BY <1>1, <1>2, PTL DEF Spec

----------------------------------------------------------------------------
\* Complete, CompleteWithFault and Cancel leave nobody registered, and nobody
\* registers after them.
NobodyInClosed == closed => waiters = 0 /\ posters = 0

\* The inductive invariant.
IInv ==
    /\ TypeOK
    /\ RegistrationsBalance
    /\ NoItemForgotten
    /\ NoRoomForgotten
    /\ NobodyInClosed

\* The numbers the balances are made of are natural numbers.
LEMMA Sizes ==
    ASSUME TypeOK
    PROVE  /\ waiters \in Nat /\ posters \in Nat /\ Held \in Nat /\ closed \in BOOLEAN
           /\ Coming("sem") \in Nat /\ Coming("slots") \in Nat
           /\ \A s \in Sems : permits[s] \in Nat /\ Cardinality(posting[s]) \in Nat
           /\ InSem(Consumers) \in Nat /\ InSem(Producers) \in Nat
           /\ Looks(Consumers) \in Nat /\ Looks(Producers) \in Nat
<1>1. waiters \in Nat /\ posters \in Nat /\ Held \in Nat /\ closed \in BOOLEAN
  BY LenProperties DEF TypeOK, Held
<1>2. \A s \in Sems : permits[s] \in Nat /\ Cardinality(posting[s]) \in Nat
  BY FS_CardinalityType DEF TypeOK
<1>3. Coming("sem") \in Nat /\ Coming("slots") \in Nat
  BY <1>2 DEF Coming, Sems
<1>4. ASSUME NEW S \in {Producers, Consumers} PROVE InSem(S) \in Nat /\ Looks(S) \in Nat
  <2>1. BlockedIn(S) \in SUBSET S /\ LookingIn(S) \in SUBSET S
    BY DEF BlockedIn, LookingIn
  <2>2. QED  BY <2>1, ThreadsFinite, FS_Subset, FS_CardinalityType DEF InSem, Looks
<1>5. QED  BY <1>1, <1>2, <1>3, <1>4

\* How a step of one thread shows in the counts of its kind.
LEMMA Moves ==
    ASSUME NEW t \in Threads, NEW x, Goes(pc, pc', t, x),
           NEW S \in {Producers, Consumers}
    PROVE  /\ InSem(S)' = IF t \in S THEN InSem(S) + In(x, Out) - In(pc[t], Out)
                                     ELSE InSem(S)
           /\ Looks(S)' = IF t \in S THEN Looks(S) + In(x, Back) - In(pc[t], Back)
                                     ELSE Looks(S)
<1>1. S \in SUBSET Threads
  BY DEF Threads
<1>2. /\ InSem(S) = Count(pc, S, Out) /\ Looks(S) = Count(pc, S, Back)
      /\ InSem(S)' = Count(pc', S, Out) /\ Looks(S)' = Count(pc', S, Back)
  BY DEF InSem, Looks, BlockedIn, LookingIn, Count, Out, Back
<1>3. ASSUME NEW C
      PROVE  /\ t \in S => Count(pc', S, C) = Count(pc, S, C) + In(x, C) - In(pc[t], C)
             /\ t \notin S => Count(pc', S, C) = Count(pc, S, C)
  BY <1>1, Moved
<1>4. QED  BY <1>2, <1>3

\* Where nobody moves, the counts of who waits and who looks stay.
LEMMA Stays ==
    ASSUME pc' = pc, NEW S \in {Producers, Consumers}
    PROVE  InSem(S)' = InSem(S) /\ Looks(S)' = Looks(S)
BY DEF InSem, Looks, BlockedIn, LookingIn

\* The number of threads looking again is a number after any step.
LEMMA LooksNext ==
    ASSUME NEW S \in {Producers, Consumers}
    PROVE  Looks(S)' \in Nat
<1>1. LookingIn(S)' \in SUBSET S
  BY DEF LookingIn
<1>2. QED  BY <1>1, ThreadsFinite, FS_Subset, FS_CardinalityType DEF Looks

\* What a release loop adds is what comes on each semaphore.
LEMMA Comes ==
    ASSUME TypeOK, NEW t, NEW n \in Nat, NEW m \in Nat, Adds(t, n, m), permits' = permits
    PROVE  Coming("sem")' = Coming("sem") + n /\ Coming("slots")' = Coming("slots") + m
<1>1. /\ permits["sem"] \in Nat /\ permits["slots"] \in Nat
      /\ Cardinality(posting["sem"]) \in Nat /\ Cardinality(posting["slots"]) \in Nat
  BY Sizes DEF Sems
<1>2. QED  BY <1>1 DEF Adds, Coming

\* TryDequeue turns one registered producer, if any, into a release.
LEMMA PosterWoken ==
    ASSUME TypeOK, NEW c \in Consumers, Free(c), WakePoster(c), permits' = permits
    PROVE  /\ Coming("sem")' = Coming("sem")
           /\ \/ /\ posters > 0 /\ posters' = posters - 1
                 /\ Coming("slots")' = Coming("slots") + 1
              \/ posters = 0 /\ posters' = 0 /\ Coming("slots")' = Coming("slots")
<1>1. c \in Threads /\ "slots" \in Sems /\ posters \in Nat
      /\ Coming("sem") \in Nat /\ Coming("slots") \in Nat
  BY Sizes DEF Threads, Sems
<1>2. CASE posters > 0
  <2>1. Adds(c, 0, 1)
    BY <1>1, <1>2, WakesOne DEF WakePoster, In
  <2>2. QED  BY <1>1, <1>2, <2>1, Comes DEF WakePoster
<1>3. CASE posters = 0
  <2>1. Adds(c, 0, 0)
    BY <1>1, <1>3, WakesNone DEF WakePoster
  <2>2. QED  BY <1>1, <1>3, <2>1, Comes DEF WakePoster
<1>4. QED  BY <1>1, <1>2, <1>3

\* Enqueue turns one registered consumer, if any, into a release.
LEMMA WaiterWoken ==
    ASSUME TypeOK, NEW p \in Producers, Free(p), WakeWaiter(p), permits' = permits
    PROVE  /\ Coming("slots")' = Coming("slots")
           /\ \/ /\ waiters > 0 /\ waiters' = waiters - 1
                 /\ Coming("sem")' = Coming("sem") + 1
              \/ waiters = 0 /\ waiters' = 0 /\ Coming("sem")' = Coming("sem")
<1>1. p \in Threads /\ "sem" \in Sems /\ waiters \in Nat
      /\ Coming("sem") \in Nat /\ Coming("slots") \in Nat
  BY Sizes DEF Threads, Sems
<1>2. CASE waiters > 0
  <2>1. Adds(p, 1, 0)
    BY <1>1, <1>2, WakesOne DEF WakeWaiter, In
  <2>2. QED  BY <1>1, <1>2, <2>1, Comes DEF WakeWaiter
<1>3. CASE waiters = 0
  <2>1. Adds(p, 0, 0)
    BY <1>1, <1>3, WakesNone DEF WakeWaiter
  <2>2. QED  BY <1>1, <1>3, <2>1, Comes DEF WakeWaiter
<1>4. QED  BY <1>1, <1>2, <1>3

\* The four counting invariants after a step.
Counted ==
    /\ InSem(Consumers)' = waiters' + Coming("sem")'
    /\ InSem(Producers)' = posters' + Coming("slots")'
    /\ waiters' > 0 => Held' <= Coming("sem")' + Looks(Consumers)'
    /\ posters' > 0 => Capacity - Held' <= Coming("slots")' + Looks(Producers)'
    /\ closed' => waiters' = 0 /\ posters' = 0

\* Counted is the balance of the next state, written out as arithmetic.
LEMMA CountedSuffices ==
    Counted <=> (RegistrationsBalance /\ NoItemForgotten /\ NoRoomForgotten /\ NobodyInClosed)'
BY DEF Counted, RegistrationsBalance, NoItemForgotten, NoRoomForgotten,
       NobodyInClosed, InSem, Looks

\* What holds before a step, in the terms of Counted.
Known ==
    /\ Capacity \in Nat
    /\ waiters \in Nat /\ posters \in Nat /\ Held \in Nat /\ closed \in BOOLEAN
    /\ Coming("sem") \in Nat /\ Coming("slots") \in Nat
    /\ InSem(Consumers) \in Nat /\ InSem(Producers) \in Nat
    /\ Looks(Consumers) \in Nat /\ Looks(Producers) \in Nat
    /\ InSem(Consumers) = waiters + Coming("sem")
    /\ InSem(Producers) = posters + Coming("slots")
    /\ waiters > 0 => Held <= Coming("sem") + Looks(Consumers)
    /\ posters > 0 => Capacity - Held <= Coming("slots") + Looks(Producers)
    /\ closed => waiters = 0 /\ posters = 0

\* The same arithmetic of the present state.
LEMMA Before == IInv => TypeOK /\ Known
BY Sizes, CapacityNat DEF IInv, Known, RegistrationsBalance, NoItemForgotten,
   NoRoomForgotten, NobodyInClosed, InSem, Looks

\* Enqueue keeps the balance, on its ways in, refused and parked.
LEMMA EnqueueCounted ==
    ASSUME IInv, NEW p \in Producers, Enqueue(p)
    PROVE  Counted
<1>0. TypeOK /\ Known
  BY Before
<1>1. TypeOK /\ p \in Threads /\ p \notin Consumers /\ Free(p) /\ permits' = permits
  BY Apart DEF IInv, Threads, Enqueue
<1>2. ASSUME NEW x, Goes(pc, pc', p, x)
      PROVE  /\ InSem(Producers)' = InSem(Producers) + In(x, Out) - In(pc[p], Out)
             /\ Looks(Producers)' = Looks(Producers) + In(x, Back) - In(pc[p], Back)
             /\ InSem(Consumers)' = InSem(Consumers)
             /\ Looks(Consumers)' = Looks(Consumers)
  BY <1>1, <1>2, Moves
<1>3. closed' = closed /\ head' = head
  BY DEF Enqueue
<1>c. In(pc[p], Out) = 0 /\ In(pc[p], Back) \in {0, 1}
  BY Table DEF Enqueue
<1>4. CASE closed
  <2>1. /\ Goes(pc, pc', p, "idle")
        /\ UNCHANGED <<items, waiters, posters, posting>>
    BY <1>0, <1>1, <1>4 DEF Enqueue, TypeOK, Goes, Known
  <2>2. Coming("sem")' = Coming("sem") /\ Coming("slots")' = Coming("slots") /\ Held' = Held
    BY <1>1, <1>3, <2>1 DEF Coming, Held
  <2>3. InSem(Producers)' = InSem(Producers) /\ InSem(Consumers)' = InSem(Consumers)
    BY <1>0, <1>2, <1>c, <2>1, Table DEF Known
  <2>4. QED  BY <1>0, <1>3, <1>4, <2>1, <2>2, <2>3 DEF Counted, Known
<1>5. CASE ~closed /\ Capacity > 0 /\ Held >= Capacity
  <2>1. /\ Goes(pc, pc', p, "parked") /\ posters' = posters + 1
        /\ UNCHANGED <<items, waiters, posting>>
    BY <1>0, <1>1, <1>5 DEF Enqueue, TypeOK, Goes, Known
  <2>2. Coming("sem")' = Coming("sem") /\ Coming("slots")' = Coming("slots") /\ Held' = Held
    BY <1>1, <1>3, <2>1 DEF Coming, Held
  <2>3. InSem(Producers)' = InSem(Producers) + 1 /\ InSem(Consumers)' = InSem(Consumers)
        /\ Looks(Consumers)' = Looks(Consumers)
    BY <1>0, <1>2, <1>c, <2>1, Table DEF Known
  <2>4. Looks(Producers)' \in Nat
    BY LooksNext
  <2>5. QED  BY <1>0, <1>3, <1>5, <2>1, <2>2, <2>3, <2>4 DEF Counted, Known
<1>6. CASE ~closed /\ (Capacity > 0 => Held < Capacity)
  <2>1. /\ items' = Append(items, p) /\ WakeWaiter(p)
        /\ Goes(pc, pc', p, "idle") /\ posters' = posters
    BY <1>0, <1>1, <1>6 DEF Enqueue, TypeOK, Goes, Known
  <2>2. Held' = Held + 1
    BY <1>1, <1>3, <2>1, AppendLast DEF Held, TypeOK
  <2>3. /\ Coming("slots")' = Coming("slots")
        /\ \/ /\ waiters > 0 /\ waiters' = waiters - 1
              /\ Coming("sem")' = Coming("sem") + 1
           \/ waiters = 0 /\ waiters' = 0 /\ Coming("sem")' = Coming("sem")
    BY <1>1, <2>1, WaiterWoken
  <2>4. /\ InSem(Producers)' = InSem(Producers) /\ InSem(Consumers)' = InSem(Consumers)
        /\ Looks(Consumers)' = Looks(Consumers)
        /\ Looks(Producers)' \in {Looks(Producers), Looks(Producers) - 1}
    BY <1>0, <1>2, <1>c, <2>1, Table DEF Known
  <2>5. QED  BY <1>0, <1>3, <1>6, <2>1, <2>2, <2>3, <2>4 DEF Counted, Known
<1>7. QED  BY <1>4, <1>5, <1>6 DEF Enqueue

\* A consumer takes an item: the free place is told to a producer.
LEMMA TakeCounted ==
    ASSUME IInv, NEW c \in Consumers, Free(c), Held > 0, TakeLocked(head + 1),
           WakePoster(c), UNCHANGED <<closed, waiters, permits>>,
           \/ pc' = pc
           \/ In(pc[c], Out) = 0 /\ Goes(pc, pc', c, "idle")
    PROVE  Counted
<1>0. TypeOK /\ Known
  BY Before
<1>1. c \in Threads /\ c \notin Producers
  BY Apart DEF Threads
<1>2. Held' = Held - 1
  BY <1>0, TakesFirst
<1>3. /\ Coming("sem")' = Coming("sem")
      /\ \/ /\ posters > 0 /\ posters' = posters - 1
            /\ Coming("slots")' = Coming("slots") + 1
         \/ posters = 0 /\ posters' = 0 /\ Coming("slots")' = Coming("slots")
  BY <1>0, PosterWoken
<1>4. /\ InSem(Producers)' = InSem(Producers) /\ InSem(Consumers)' = InSem(Consumers)
      /\ Looks(Producers)' = Looks(Producers)
      /\ Looks(Consumers)' \in {Looks(Consumers), Looks(Consumers) - 1}
  <2>1. CASE pc' = pc
    BY <2>1, Stays
  <2>2. CASE In(pc[c], Out) = 0 /\ Goes(pc, pc', c, "idle")
    <3>1. In(pc[c], Back) \in {0, 1}
      BY DEF In
    <3>2. QED  BY <1>0, <1>1, <2>2, <3>1, Moves, Table DEF Known
  <2>3. QED  BY <2>1, <2>2
<1>5. waiters' = waiters /\ closed' = closed
  OBVIOUS
<1>6. QED  BY <1>0, <1>2, <1>3, <1>4, <1>5 DEF Counted, Known

\* TryDequeue keeps it.
LEMMA TryDequeueCounted ==
    ASSUME IInv, NEW c \in Consumers, TryDequeue(c)
    PROVE  Counted
<1>0. TypeOK /\ Known
  BY Before
<1>1. Free(c) /\ WakePoster(c) /\ UNCHANGED <<closed, waiters, permits, pc>>
  BY DEF TryDequeue
<1>2. CASE Held > 0
  BY <1>1, <1>2, TakeCounted DEF TryDequeue
<1>3. CASE ~(Held > 0)
  <2>1. Held' = Held
    BY <1>3 DEF TryDequeue, Held
  <2>2. /\ Coming("sem")' = Coming("sem")
        /\ \/ /\ posters > 0 /\ posters' = posters - 1
              /\ Coming("slots")' = Coming("slots") + 1
           \/ posters = 0 /\ posters' = 0 /\ Coming("slots")' = Coming("slots")
    BY <1>0, <1>1, PosterWoken
  <2>3. /\ InSem(Producers)' = InSem(Producers) /\ InSem(Consumers)' = InSem(Consumers)
        /\ Looks(Producers)' = Looks(Producers) /\ Looks(Consumers)' = Looks(Consumers)
    BY <1>1, Stays
  <2>4. QED  BY <1>0, <1>1, <2>1, <2>2, <2>3 DEF Counted, Known
<1>4. QED  BY <1>2, <1>3

\* A turn of the loops of Dequeue and DequeueFor keeps it.
LEMMA TurnCounted ==
    ASSUME IInv, NEW c \in Consumers, NEW again \in Back, NEW where \in {"parked", "timed"},
           Turn(c, again, where)
    PROVE  Counted
<1>0. TypeOK /\ Known
  BY Before
<1>1. c \in Threads /\ c \notin Producers /\ Free(c) /\ UNCHANGED <<closed, permits>>
  BY Apart DEF Threads, Turn
<1>2. In(pc[c], Out) = 0 /\ In(pc[c], Back) \in {0, 1}
  BY Table DEF Turn, Back
<1>3. In(where, Out) = 1 /\ In(where, Back) = 0
  BY Table
<1>4. CASE Held > 0
  <2>1. /\ TakeLocked(head + 1) /\ WakePoster(c) /\ UNCHANGED waiters
        /\ Goes(pc, pc', c, "idle")
    BY <1>0, <1>1, <1>4 DEF Turn, TypeOK, Goes, Known
  <2>2. QED  BY <1>1, <1>2, <1>4, <2>1, TakeCounted
<1>5. CASE Held = 0 /\ closed
  <2>1. /\ Goes(pc, pc', c, "idle")
        /\ UNCHANGED <<items, head, waiters, posters, posting>>
    BY <1>0, <1>1, <1>5 DEF Turn, TypeOK, Goes, Known
  <2>2. Coming("sem")' = Coming("sem") /\ Coming("slots")' = Coming("slots") /\ Held' = Held
    BY <1>1, <2>1 DEF Coming, Held
  <2>3. InSem(Producers)' = InSem(Producers) /\ InSem(Consumers)' = InSem(Consumers)
    BY <1>0, <1>1, <1>2, <2>1, Moves, Table DEF Known
  <2>4. QED  BY <1>0, <1>1, <1>5, <2>1, <2>2, <2>3 DEF Counted, Known
<1>6. CASE Held = 0 /\ ~closed
  <2>1. /\ Goes(pc, pc', c, where) /\ waiters' = waiters + 1
        /\ UNCHANGED <<items, head, posters, posting>>
    BY <1>0, <1>1, <1>6 DEF Turn, TypeOK, Goes, Known
  <2>2. Coming("sem")' = Coming("sem") /\ Coming("slots")' = Coming("slots") /\ Held' = Held
    BY <1>1, <2>1 DEF Coming, Held
  <2>3. /\ InSem(Producers)' = InSem(Producers) /\ InSem(Consumers)' = InSem(Consumers) + 1
        /\ Looks(Producers)' = Looks(Producers)
    BY <1>0, <1>1, <1>2, <1>3, <2>1, Moves DEF Known
  <2>4. Looks(Consumers)' \in Nat
    BY LooksNext
  <2>5. QED  BY <1>0, <1>1, <1>6, <2>1, <2>2, <2>3, <2>4 DEF Counted, Known
<1>7. QED  BY <1>0, <1>4, <1>5, <1>6 DEF Known

\* A permit is taken by a thread in its own semaphore.
LEMMA WakeCounted ==
    ASSUME IInv, NEW t \in Threads, NEW s, Wake(t, s),
           \/ t \in Producers /\ s = "slots"
           \/ t \in Consumers /\ s = "sem"
    PROVE  Counted
<1>0. TypeOK /\ Known
  BY Before
<1>1. /\ t \in Threads /\ (t \in Producers => t \notin Consumers)
      /\ \A r \in Sems : permits[r] \in Nat /\ Cardinality(posting[r]) \in Nat
  BY <1>0, Apart, Sizes DEF Threads
<1>2. /\ UNCHANGED <<items, head, closed, waiters, posters, posting>>
      /\ permits' = [permits EXCEPT ![s] = @ - 1]
      /\ Goes(pc, pc', t, IF pc[t] = "parked" THEN "again" ELSE "againFor")
  BY <1>0, <1>1 DEF Wake, TypeOK, Goes
<1>3. Held' = Held
  BY <1>2 DEF Held
<1>4. /\ In(pc[t], Out) = 1 /\ In(pc[t], Back) = 0
      /\ In(IF pc[t] = "parked" THEN "again" ELSE "againFor", Out) = 0
      /\ In(IF pc[t] = "parked" THEN "again" ELSE "againFor", Back) = 1
  BY Table DEF Wake
<1>5. CASE t \in Producers /\ s = "slots"
  <2>1. /\ InSem(Producers)' = InSem(Producers) - 1 /\ InSem(Consumers)' = InSem(Consumers)
        /\ Looks(Producers)' = Looks(Producers) + 1 /\ Looks(Consumers)' = Looks(Consumers)
    BY <1>0, <1>1, <1>2, <1>4, <1>5, Moves DEF Known
  <2>2. Coming("sem")' = Coming("sem") /\ Coming("slots")' = Coming("slots") - 1
    BY <1>0, <1>1, <1>2, <1>5 DEF Coming, TypeOK, Sems
  <2>3. QED  BY <1>0, <1>2, <1>3, <2>1, <2>2 DEF Counted, Known
<1>6. CASE t \in Consumers /\ s = "sem"
  <2>1. /\ InSem(Consumers)' = InSem(Consumers) - 1 /\ InSem(Producers)' = InSem(Producers)
        /\ Looks(Consumers)' = Looks(Consumers) + 1 /\ Looks(Producers)' = Looks(Producers)
    BY <1>0, <1>1, <1>2, <1>4, <1>6, Moves DEF Known
  <2>2. Coming("slots")' = Coming("slots") /\ Coming("sem")' = Coming("sem") - 1
    BY <1>0, <1>1, <1>2, <1>6 DEF Coming, TypeOK, Sems
  <2>3. QED  BY <1>0, <1>2, <1>3, <2>1, <2>2 DEF Counted, Known
<1>7. QED  BY <1>5, <1>6

\* The timeout of DequeueFor, and what becomes of the registration.
LEMMA TimeoutCounted ==
    ASSUME IInv, NEW c \in Consumers, Expire(c) \/ Withdraw(c)
    PROVE  Counted
<1>0. TypeOK /\ Known
  BY Before
<1>1. c \in Threads /\ c \notin Producers
  BY Apart DEF Threads
<1>2. UNCHANGED <<items, head, closed, posters, permits, posting>>
  BY DEF Expire, Withdraw
<1>3. Coming("sem")' = Coming("sem") /\ Coming("slots")' = Coming("slots") /\ Held' = Held
  BY <1>2 DEF Coming, Held
<1>4. In(pc[c], Out) = 1 /\ In(pc[c], Back) = 0
  BY Table DEF Expire, Withdraw
<1>5. CASE waiters' = waiters /\ (Goes(pc, pc', c, "expired") \/ Goes(pc, pc', c, "owed"))
  <2>1. /\ InSem(Consumers)' = InSem(Consumers) /\ InSem(Producers)' = InSem(Producers)
        /\ Looks(Consumers)' = Looks(Consumers) /\ Looks(Producers)' = Looks(Producers)
    BY <1>0, <1>1, <1>4, <1>5, Moves, Table DEF Known
  <2>2. QED  BY <1>0, <1>2, <1>3, <1>5, <2>1 DEF Counted, Known
<1>6. CASE waiters > 0 /\ waiters' = waiters - 1 /\ Goes(pc, pc', c, "idle")
  <2>1. /\ InSem(Consumers)' = InSem(Consumers) - 1 /\ InSem(Producers)' = InSem(Producers)
        /\ Looks(Consumers)' = Looks(Consumers) /\ Looks(Producers)' = Looks(Producers)
    BY <1>0, <1>1, <1>4, <1>6, Moves, Table DEF Known
  <2>2. QED  BY <1>0, <1>2, <1>3, <1>6, <2>1 DEF Counted, Known
<1>7. \/ waiters' = waiters /\ (Goes(pc, pc', c, "expired") \/ Goes(pc, pc', c, "owed"))
      \/ waiters > 0 /\ waiters' = waiters - 1 /\ Goes(pc, pc', c, "idle")
  BY <1>0, <1>1 DEF Expire, Withdraw, TypeOK, Goes
<1>8. QED  BY <1>5, <1>6, <1>7

\* The queue ends: every registration becomes a Release to be made.
LEMMA EndCounted ==
    ASSUME IInv, NEW t \in Threads, Free(t), WakeAll(t), UNCHANGED <<permits, pc>>
    PROVE  Counted
<1>0. TypeOK /\ Known
  BY Before
<1>1. waiters' = 0 /\ posters' = 0
  BY DEF WakeAll
<1>2. Adds(t, waiters, posters)
  BY <1>0, WakesAll
<1>3. /\ Coming("sem")' = Coming("sem") + waiters
      /\ Coming("slots")' = Coming("slots") + posters
  BY <1>0, <1>2, Comes DEF Known
<1>4. InSem(Producers)' = InSem(Producers) /\ InSem(Consumers)' = InSem(Consumers)
  BY Stays
<1>5. QED  BY <1>0, <1>1, <1>3, <1>4 DEF Counted, Known

\* A Release that is made was coming before.
LEMMA PostCounted ==
    ASSUME IInv, NEW t \in Threads, Post(t)
    PROVE  Counted
<1>0. TypeOK /\ Known
  BY Before
<1>1. UNCHANGED <<items, head, closed, waiters, posters, pc>>
  BY DEF Post
<1>2. Held' = Held
  BY <1>1 DEF Held
<1>a. PICK s \in Sems : \E p \in posting[s] :
            /\ posting' = [posting EXCEPT ![s] = @ \ {p}]
            /\ permits' = [permits EXCEPT ![s] = @ + 1]
  BY DEF Post
<1>3. PICK p \in posting[s] :
            /\ posting' = [posting EXCEPT ![s] = @ \ {p}]
            /\ permits' = [permits EXCEPT ![s] = @ + 1]
  BY <1>a
<1>4. /\ \A r \in Sems : permits[r] \in Nat /\ Cardinality(posting[r]) \in Nat
      /\ \A r \in Sems : IsFiniteSet(posting[r])
  BY <1>0, Sizes DEF TypeOK
<1>5. Cardinality(posting[s] \ {p}) = Cardinality(posting[s]) - 1
  BY <1>4, FS_RemoveElement
<1>6. /\ posting'[s] = posting[s] \ {p} /\ permits'[s] = permits[s] + 1
      /\ \A r \in Sems : r # s => posting'[r] = posting[r] /\ permits'[r] = permits[r]
  BY <1>0, <1>3 DEF TypeOK
<1>7. \A r \in Sems : Coming(r)' = Coming(r)
  <2>1. ASSUME NEW r \in Sems PROVE permits'[r] + Cardinality(posting'[r])
                                      = permits[r] + Cardinality(posting[r])
    <3>1. CASE r = s
      <4>1. /\ permits'[r] = permits[s] + 1 /\ permits[r] = permits[s]
            /\ Cardinality(posting'[r]) = Cardinality(posting[s]) - 1
            /\ Cardinality(posting[r]) = Cardinality(posting[s])
            /\ permits[s] \in Nat /\ Cardinality(posting[s]) \in Nat
        BY <1>4, <1>5, <1>6, <3>1
      <4>2. QED  BY <4>1
    <3>2. CASE r # s
      BY <1>6, <3>2
    <3>3. QED  BY <3>1, <3>2
  <2>2. QED  BY <2>1 DEF Coming
<1>8. Coming("sem")' = Coming("sem") /\ Coming("slots")' = Coming("slots")
  BY <1>7 DEF Sems
<1>9. /\ InSem(Producers)' = InSem(Producers) /\ InSem(Consumers)' = InSem(Consumers)
      /\ Looks(Producers)' = Looks(Producers) /\ Looks(Consumers)' = Looks(Consumers)
  BY <1>1, Stays
<1>10. QED  BY <1>0, <1>1, <1>2, <1>8, <1>9 DEF Counted, Known

\* The inductive invariant: the registrations of both ends balance, and
\* nobody is registered beside an item or a free place that is not announced.
THEOREM AlwaysCounted == Spec => []IInv
<1>1. Init => RegistrationsBalance /\ NoItemForgotten /\ NoRoomForgotten /\ NobodyInClosed
  <2> SUFFICES ASSUME Init
               PROVE  RegistrationsBalance /\ NoItemForgotten /\ NoRoomForgotten
                        /\ NobodyInClosed
    OBVIOUS
  <2>1. BlockedIn(Consumers) = {} /\ BlockedIn(Producers) = {}
    BY DEF Init, BlockedIn, Threads
  <2>2. /\ permits["sem"] = 0 /\ permits["slots"] = 0
        /\ posting["sem"] = {} /\ posting["slots"] = {}
    BY DEF Init, Sems
  <2>3. Coming("sem") = 0 /\ Coming("slots") = 0
    BY <2>2, FS_EmptySet DEF Coming
  <2>4. QED
    BY <2>1, <2>3, FS_EmptySet
       DEF Init, RegistrationsBalance, NoItemForgotten, NoRoomForgotten, NobodyInClosed
<1>2. IInv /\ [Next]_vars => Counted
  <2> SUFFICES ASSUME IInv, [Next]_vars PROVE Counted
    OBVIOUS
  <2>1. ASSUME NEW p \in Producers, Produce(p) PROVE Counted
    <3>1. CASE Enqueue(p)
      BY <3>1, EnqueueCounted
    <3>2. CASE Wake(p, "slots")
      <4>1. p \in Threads
        BY DEF Threads
      <4>2. QED  BY <3>2, <4>1, WakeCounted
    <3>3. QED  BY <2>1, <3>1, <3>2 DEF Produce
  <2>2. ASSUME NEW c \in Consumers, Consume(c) PROVE Counted
    <3>1. CASE TryDequeue(c)
      BY <3>1, TryDequeueCounted
    <3>2. CASE Dequeue(c) \/ DequeueFor(c)
      <4>1. "again" \in Back /\ "againFor" \in Back
        BY DEF Back
      <4>2. CASE Turn(c, "again", "parked")
        BY <4>1, <4>2, TurnCounted
      <4>3. CASE Turn(c, "againFor", "timed")
        BY <4>1, <4>3, TurnCounted
      <4>4. QED  BY <3>2, <4>2, <4>3 DEF Dequeue, DequeueFor
    <3>3. CASE Wake(c, "sem")
      <4>1. c \in Threads
        BY DEF Threads
      <4>2. QED  BY <3>3, <4>1, WakeCounted
    <3>4. CASE Expire(c) \/ Withdraw(c)
      BY <3>4, TimeoutCounted
    <3>5. QED  BY <2>2, <3>1, <3>2, <3>3, <3>4 DEF Consume
  <2>3. ASSUME NEW t \in Threads, NEW failed \in BOOLEAN, Complete(t, failed) PROVE Counted
    BY <2>3, EndCounted DEF Complete
  <2>4. ASSUME NEW t \in Threads, Cancel(t) PROVE Counted
    BY <2>4, EndCounted DEF Cancel
  <2>5. ASSUME NEW t \in Threads, Post(t) PROVE Counted
    BY <2>5, PostCounted
  <2>6. CASE UNCHANGED vars
    <3>1. UNCHANGED <<items, head, closed, waiters, posters, permits, posting, pc>>
      BY <2>6 DEF vars
    <3>2. Coming("sem")' = Coming("sem") /\ Coming("slots")' = Coming("slots") /\ Held' = Held
      BY <3>1 DEF Coming, Held
    <3>3. /\ InSem(Producers)' = InSem(Producers) /\ InSem(Consumers)' = InSem(Consumers)
          /\ Looks(Producers)' = Looks(Producers) /\ Looks(Consumers)' = Looks(Consumers)
      BY <3>1, Stays
    <3>4. QED  BY <3>1, <3>2, <3>3, Before DEF Counted, Known
  <2>7. QED  BY <2>1, <2>2, <2>3, <2>4, <2>5, <2>6 DEF Next
<1>3. IInv /\ [Next]_vars
        => (RegistrationsBalance /\ NoItemForgotten /\ NoRoomForgotten /\ NobodyInClosed)'
  BY <1>2, CountedSuffices
<1>4. QED  BY <1>1, <1>3, TypeCorrect, PTL DEF Spec, IInv

\* BlockingQueue.zan: every thread in a semaphore is registered, or has a
\* permit or a Release on its way, and there is no permit more.
THEOREM RegistrationsAreBalanced == Spec => []RegistrationsBalance
BY AlwaysCounted, PTL DEF IInv

\* WakeWaiter, Withdraw and TakeLocked: whoever takes the item somebody else
\* was woken for, the rest of the items are still somebody's to take.
THEOREM ItemsAreAnnounced == Spec => []NoItemForgotten
BY AlwaysCounted, PTL DEF IInv

\* WakePoster: the same for free places and parked producers.
THEOREM RoomIsAnnounced == Spec => []NoRoomForgotten
BY AlwaysCounted, PTL DEF IInv

----------------------------------------------------------------------------
\* The state HandoffQueue sees, and that it sees no change.
Same == /\ Waiting(items', head') = Waiting(items, head)
        /\ closed' = closed /\ got' = got

\* A step that leaves items, head, closed and got alone is a stutter.
LEMMA SameStutters ==
    ASSUME Same PROVE UNCHANGED Queue!vars
BY DEF Same, Waiting, Queue!vars

\* Taking the first live item of the list is TakeFirst of the queue, with
\* or without the compaction.
LEMMA TakeImplements ==
    ASSUME TypeOK, NEW c \in Consumers, Held > 0, TakeLocked(head + 1),
           got' = [got EXCEPT ![c] = items[head + 1]], closed' = closed
    PROVE  Queue!TakeFirst(c)
<1>1. /\ Waiting(items, head) # <<>>
      /\ Head(Waiting(items, head)) = items[head + 1]
      /\ Waiting(items', head') = Tail(Waiting(items, head))
  BY TakesFirst
<1>2. QED  BY <1>1 DEF Queue!TakeFirst, Waiting

\* An answer that there is nothing is TakeNone.
LEMMA EmptyImplements ==
    ASSUME NEW c \in Consumers, got' = [got EXCEPT ![c] = Empty],
           UNCHANGED <<items, head, closed>>
    PROVE  Queue!TakeNone(c)
BY DEF Queue!TakeNone

\* An item put at the end of the list is Accept.
LEMMA AcceptImplements ==
    ASSUME TypeOK, NEW p \in Producers, ~closed, Capacity > 0 => Held < Capacity,
           items' = Append(items, p), UNCHANGED <<head, closed, got>>
    PROVE  Queue!Accept(p)
<1>1. Waiting(items', head') = Append(Waiting(items, head), p)
  BY AppendLast DEF TypeOK
<1>2. Len(Waiting(items, head)) = Held
  BY WaitingProperties DEF TypeOK, Held
<1>3. QED  BY <1>1, <1>2 DEF Queue!Accept, Waiting

\* BlockingQueue.zan implements HandoffQueue: Enqueue accepts at the end or
\* not at all, the three ways to dequeue take from the front, and neither
\* compaction nor a permit that comes too late is to be seen.
THEOREM QueueIsImplemented == Spec => ImplementsQueue
<1>1. Init => Queue!Init
  <2> SUFFICES ASSUME Init PROVE Queue!Init
    OBVIOUS
  <2>1. SubSeq(items, head + 1, Len(items)) = <<>>
    <3>1. 0 + 1 \in Int /\ Len(<<>>) = 0 /\ 0 < 0 + 1
      BY EmptySeq
    <3>2. SubSeq(<<>>, 0 + 1, 0) = <<>>
      BY <3>1, SubSeqEmpty
    <3>3. QED  BY <3>1, <3>2 DEF Init
  <2>2. QED  BY <2>1 DEF Init, Queue!Init
<1>2. TypeOK /\ [Next]_vars => [Queue!Next]_Queue!vars
  <2> SUFFICES ASSUME TypeOK, [Next]_vars PROVE Queue!Next \/ UNCHANGED Queue!vars
    OBVIOUS
  <2> DEFINE Goal == Queue!Next \/ UNCHANGED Queue!vars
  <2>a. ASSUME NEW c \in Consumers, Queue!TakeFirst(c) \/ Queue!TakeNone(c) PROVE Goal
    BY <2>a DEF Queue!Next
  <2>b. ASSUME Same PROVE Goal
    BY <2>b, SameStutters
  <2>c. ASSUME UNCHANGED <<items, head, closed, got>> PROVE Goal
    BY <2>b, <2>c DEF Same
  <2> HIDE DEF Goal
  <2>1. ASSUME NEW p \in Producers, Enqueue(p) PROVE Goal
    <3>1. CASE UNCHANGED items
      BY <2>1, <2>c, <3>1 DEF Enqueue
    <3>2. CASE ~closed /\ (Capacity > 0 => Held < Capacity) /\ items' = Append(items, p)
      <4>1. Queue!Accept(p)
        BY <2>1, <3>2, AcceptImplements DEF Enqueue
      <4>2. QED  BY <4>1 DEF Goal, Queue!Next
    <3>3. QED  BY <2>1, <3>1, <3>2 DEF Enqueue
  <2>2. ASSUME NEW c \in Consumers, TryDequeue(c) PROVE Goal
    <3>1. CASE Held > 0
      BY <2>2, <2>a, <3>1, TakeImplements DEF TryDequeue
    <3>2. CASE ~(Held > 0)
      BY <2>2, <2>a, <3>2, EmptyImplements DEF TryDequeue
    <3>3. QED  BY <3>1, <3>2
  <2>3. ASSUME NEW c \in Consumers, NEW again, NEW where, Turn(c, again, where) PROVE Goal
    <3>0. Held \in Nat
      BY Sizes
    <3>1. CASE Held > 0
      <4>1. /\ TakeLocked(head + 1) /\ closed' = closed
            /\ got' = [got EXCEPT ![c] = items[head + 1]]
        BY <2>3, <3>0, <3>1 DEF Turn
      <4>2. QED  BY <2>a, <3>1, <4>1, TakeImplements
    <3>2. CASE Held = 0 /\ closed
      <4>1. /\ UNCHANGED <<items, head, closed>>
            /\ got' = [got EXCEPT ![c] = Empty]
        BY <2>3, <3>2 DEF Turn
      <4>2. QED  BY <2>a, <4>1, EmptyImplements
    <3>3. CASE Held = 0 /\ ~closed
      BY <2>3, <2>c, <3>3 DEF Turn
    <3>4. QED  BY <3>0, <3>1, <3>2, <3>3
  <2>4. ASSUME NEW t \in Threads, NEW s, Wake(t, s) \/ Post(t) \/ Expire(t) PROVE Goal
    BY <2>4, <2>c DEF Wake, Post, Expire
  <2>5. ASSUME NEW c \in Consumers, Withdraw(c) PROVE Goal
    <3>1. CASE UNCHANGED got
      BY <2>5, <2>c, <3>1 DEF Withdraw
    <3>2. CASE got' = [got EXCEPT ![c] = Empty]
      BY <2>5, <2>a, <3>2, EmptyImplements DEF Withdraw
    <3>3. QED  BY <2>5, <3>1, <3>2 DEF Withdraw
  <2>6. ASSUME NEW t \in Threads, NEW failed, Complete(t, failed) PROVE Goal
    <3>1. Queue!End
      BY <2>6 DEF Complete, Queue!End
    <3>2. QED  BY <3>1 DEF Goal, Queue!Next
  <2>7. ASSUME NEW t \in Threads, Cancel(t) PROVE Goal
    <3>1. /\ closed' = TRUE /\ got' = got
          /\ items' = items /\ head' = Len(items)
      BY <2>7 DEF Cancel
    <3>2. Len(items) \in Nat
      BY LenProperties DEF TypeOK
    <3>3. SubSeq(items, Len(items) + 1, Len(items)) = <<>>
      BY <3>2, SubSeqEmpty
    <3>4. Queue!Drop
      BY <3>1, <3>3 DEF Queue!Drop
    <3>5. QED  BY <3>4 DEF Goal, Queue!Next
  <2>8. ASSUME UNCHANGED vars PROVE Goal
    BY <2>c, <2>8 DEF vars
  <2>9. Producers \subseteq Threads /\ Consumers \subseteq Threads
    BY DEF Threads
  <2>10. Goal
    <3>1. ASSUME NEW p \in Producers, Produce(p) PROVE Goal
      BY <2>1, <2>4, <2>9, <3>1 DEF Produce
    <3>2. ASSUME NEW c \in Consumers, Consume(c) PROVE Goal
      BY <2>2, <2>3, <2>4, <2>5, <2>9, <3>2 DEF Consume, Dequeue, DequeueFor
    <3>3. QED  BY <2>4, <2>6, <2>7, <2>8, <3>1, <3>2 DEF Next
  <2>11. QED  BY <2>10 DEF Goal
<1>3. QED  BY <1>1, <1>2, TypeCorrect, PTL DEF Spec, ImplementsQueue, Queue!Spec
===============================================================================
