-------------------------- MODULE IoReactor_proofs --------------------------
(***************************************************************************)
(* The engine holds every suspended frame in exactly one place, for any    *)
(* frames, descriptors and programs.  The first part counts in sequences:  *)
(* Times says how often a sequence has an element of a set, and what the   *)
(* operations on queues and tables do to that number.  The second part     *)
(* types the state and proves the invariants action by action.             *)
(***************************************************************************)
EXTENDS IoReactor, SequenceTheorems, FiniteSetTheorems, TLAPS

TimesAt(s, I, V) == Cardinality({i \in I : s[i] \in V})
Times(s, V) == Cardinality({i \in 1..Len(s) : s[i] \in V})

\* Sets with a one-to-one map between them are of one size.
LEMMA SameSize ==
    ASSUME NEW S, NEW T, NEW f \in [S -> T], IsFiniteSet(S),
           \A a, b \in S : f[a] = f[b] => a = b,
           \A t \in T : \E a \in S : f[a] = t
    PROVE  IsFiniteSet(T) /\ Cardinality(T) = Cardinality(S)
<1>1. f \in Bijection(S, T)
  BY DEF Bijection, Injection, Surjection, IsInjective
<1>2. ExistsBijection(S, T)
  BY <1>1 DEF ExistsBijection
<1>3. QED  BY <1>2, FS_Bijection

\* Places of a sequence are finitely many.
LEMMA PlacesFinite ==
    ASSUME NEW S, NEW s \in Seq(S), NEW I \in SUBSET (1..Len(s))
    PROVE  IsFiniteSet(I) /\ Cardinality(I) \in Nat /\ I \subseteq Nat
<1>1. Len(s) \in Nat
  BY LenProperties
<1>2. IsFiniteSet(1..Len(s))
  BY <1>1, FS_Interval
<1>3. IsFiniteSet(I)
  BY <1>2, FS_Subset
<1>4. QED  BY <1>1, <1>3, FS_CardinalityType

LEMMA TimesNat ==
    ASSUME NEW S, NEW s \in Seq(S), NEW V
    PROVE  Times(s, V) \in Nat
BY PlacesFinite, {i \in 1..Len(s) : s[i] \in V} \in SUBSET (1..Len(s)) DEF Times

LEMMA TimesEmpty ==
    ASSUME NEW V
    PROVE  Times(<<>>, V) = 0
<1>1. Len(<<>>) = 0
  BY EmptySeq
<1>2. {i \in 1..Len(<<>>) : <<>>[i] \in V} = {}
  BY <1>1
<1>3. QED  BY <1>2, FS_EmptySet DEF Times

\* Sequences that have elements of the sets in the same places.
LEMMA TimesSame ==
    ASSUME NEW s, NEW t, NEW V, NEW W, Len(s) = Len(t),
           \A i \in 1..Len(s) : s[i] \in V <=> t[i] \in W
    PROVE  Times(s, V) = Times(t, W)
<1>1. {i \in 1..Len(s) : s[i] \in V} = {i \in 1..Len(t) : t[i] \in W}
  OBVIOUS
<1>2. QED  BY <1>1 DEF Times

LEMMA TimesConcat ==
    ASSUME NEW S, NEW s \in Seq(S), NEW t \in Seq(S), NEW V
    PROVE  Times(s \o t, V) = Times(s, V) + Times(t, V)
<1> DEFINE m == Len(s)
           n == Len(t)
           A == {i \in 1..m : s[i] \in V}
           B == {i \in 1..n : t[i] \in V}
           C == {i \in (m + 1)..(m + n) : t[i - m] \in V}
           D == {i \in 1..Len(s \o t) : (s \o t)[i] \in V}
<1>1. /\ m \in Nat /\ n \in Nat /\ Len(s \o t) = m + n
      /\ \A i \in 1..(m + n) : (s \o t)[i] = IF i <= m THEN s[i] ELSE t[i - m]
  BY LenProperties, ConcatProperties
<1>2. IsFiniteSet(A) /\ IsFiniteSet(B) /\ Cardinality(A) \in Nat
  BY PlacesFinite
<1>3. IsFiniteSet(C) /\ Cardinality(C) = Cardinality(B)
  <2> DEFINE f == [i \in B |-> i + m]
  <2>1. ASSUME NEW b \in B PROVE b + m \in C
    <3>1. b \in 1..n /\ t[b] \in V /\ (b + m) - m = b
      BY <1>1
    <3>2. b + m \in (m + 1)..(m + n)
      BY <1>1, <3>1
    <3>3. QED  BY <3>1, <3>2
  <2>2. f \in [B -> C]
    BY <2>1
  <2>3. \A a, b \in B : f[a] = f[b] => a = b
    BY <1>1
  <2>4. \A c \in C : \E a \in B : f[a] = c
    <3> SUFFICES ASSUME NEW c \in C PROVE \E a \in B : f[a] = c
      OBVIOUS
    <3>1. c - m \in B /\ (c - m) + m = c
      BY <1>1
    <3>2. QED  BY <3>1
  <2> HIDE DEF f, A, B, C, D
  <2>5. QED  BY <2>2, <2>3, <2>4, <1>2, SameSize
<1>4. D = A \cup C
  BY <1>1
<1>5. A \cap C = {}
  BY <1>1
<1>6. Cardinality(A \cup C) = Cardinality(A) + Cardinality(C)
  <2>1. Cardinality(A \cup C) = Cardinality(A) + Cardinality(C) - Cardinality(A \cap C)
    BY <1>2, <1>3, FS_Union
  <2>2. Cardinality(A \cap C) = 0
    BY <1>5, FS_EmptySet
  <2>3. Cardinality(C) \in Nat
    BY <1>3, FS_CardinalityType
  <2>4. QED  BY <2>1, <2>2, <2>3, <1>2
<1>7. QED  BY <1>3, <1>4, <1>6 DEF Times

LEMMA TimesOne ==
    ASSUME NEW x, NEW V
    PROVE  Times(<<x>>, V) = IF x \in V THEN 1 ELSE 0
<1>1. Len(<<x>>) = 1 /\ <<x>>[1] = x
  OBVIOUS
<1>2. {i \in 1..Len(<<x>>) : <<x>>[i] \in V} = IF x \in V THEN {1} ELSE {}
  BY <1>1
<1>3. QED  BY <1>2, FS_EmptySet, FS_Singleton DEF Times

LEMMA TimesAppend ==
    ASSUME NEW S, NEW s \in Seq(S), NEW x \in S, NEW V
    PROVE  Times(Append(s, x), V) = Times(s, V) + IF x \in V THEN 1 ELSE 0
<1>1. <<x>> \in Seq(S) /\ Append(s, x) = s \o <<x>>
  BY AppendIsConcat
<1>2. Times(s \o <<x>>, V) = Times(s, V) + Times(<<x>>, V)
  BY <1>1, TimesConcat
<1>3. Times(<<x>>, V) = IF x \in V THEN 1 ELSE 0
  BY TimesOne
<1>4. QED  BY <1>1, <1>2, <1>3

LEMMA TimesTail ==
    ASSUME NEW S, NEW s \in Seq(S), s # <<>>, NEW V
    PROVE  Times(s, V) = Times(Tail(s), V) + IF Head(s) \in V THEN 1 ELSE 0
<1>1. Head(s) \in S /\ Tail(s) \in Seq(S) /\ <<Head(s)>> \in Seq(S)
  BY HeadTailProperties
<1>2. s = <<Head(s)>> \o Tail(s)
  <2>1. /\ Len(s) \in Nat \ {0} /\ Len(Tail(s)) = Len(s) - 1
        /\ \A i \in 1..Len(Tail(s)) : Tail(s)[i] = s[i + 1]
    BY HeadTailProperties, EmptySeq
  <2> DEFINE c == <<Head(s)>> \o Tail(s)
  <2>2. /\ c \in Seq(S) /\ Len(c) = 1 + Len(Tail(s))
        /\ \A i \in 1..(1 + Len(Tail(s))) :
               c[i] = IF i <= 1 THEN <<Head(s)>>[i] ELSE Tail(s)[i - 1]
    BY <1>1, ConcatProperties, Len(<<Head(s)>>) = 1
  <2>3. Head(s) = s[1]
    OBVIOUS
  <2> HIDE DEF c
  <2>4. ASSUME NEW i \in 1..Len(s) PROVE s[i] = c[i]
    BY <2>1, <2>2, <2>3
  <2>5. s = c
    BY <2>1, <2>2, <2>4, SeqEqual
  <2>6. QED  BY <2>5 DEF c
<1>3. Times(s, V) = Times(<<Head(s)>>, V) + Times(Tail(s), V)
  <2>1. PICK a \in Seq(S), b \in Seq(S) : a = <<Head(s)>> /\ b = Tail(s) /\ s = a \o b
    BY <1>1, <1>2
  <2>2. Times(a \o b, V) = Times(a, V) + Times(b, V)
    BY TimesConcat
  <2>3. QED  BY <2>1, <2>2
<1>4. Times(<<Head(s)>>, V) = IF Head(s) \in V THEN 1 ELSE 0
  BY TimesOne
<1>5. Times(Tail(s), V) \in Nat
  BY <1>1, TimesNat
<1>6. QED  BY <1>3, <1>4, <1>5

----------------------------------------------------------------------------
(* The elements at some places.                                            *)

Rank(I, i) == Cardinality({j \in I : j <= i})

\* The k-th place there is, and every place is the k-th for some k.
LEMMA NthPlace ==
    ASSUME NEW n \in Nat, NEW I \in SUBSET (1..n)
    PROVE  /\ IsFiniteSet(I) /\ Cardinality(I) \in Nat
           /\ \A k \in 1..Cardinality(I) : Nth(I, k) \in I /\ Rank(I, Nth(I, k)) = k
           /\ \A i \in I : Rank(I, i) \in 1..Cardinality(I) /\ Nth(I, Rank(I, i)) = i
<1>0. IsFiniteSet(1..n)
  BY FS_Interval
<1>1. IsFiniteSet(I) /\ Cardinality(I) \in Nat
  BY <1>0, FS_Subset, FS_CardinalityType
<1> DEFINE c == Cardinality(I)
           r == [i \in I |-> Rank(I, i)]
<1>2. ASSUME NEW i \in I
      PROVE  /\ IsFiniteSet({j \in I : j <= i})
             /\ Rank(I, i) \in 1..c
  <2> DEFINE J == {j \in I : j <= i}
  <2>1. J \in SUBSET I /\ {i} \in SUBSET J
    OBVIOUS
  <2>2. IsFiniteSet(J) /\ Cardinality(J) <= c
    BY <1>1, <2>1, FS_Subset
  <2>3. Cardinality({i}) <= Cardinality(J) /\ Cardinality({i}) = 1
    BY <2>1, <2>2, FS_Subset, FS_Singleton
  <2>4. Cardinality(J) \in Nat
    BY <2>2, FS_CardinalityType
  <2> HIDE DEF J
  <2>5. Cardinality(J) \in 1..c
    BY <1>1, <2>2, <2>3, <2>4
  <2>6. QED  BY <2>2, <2>5 DEF J, Rank
<1>3. ASSUME NEW i \in I, NEW h \in I, Rank(I, i) = Rank(I, h), h < i
      PROVE  FALSE
  <2> DEFINE J == {j \in I : j <= i}
             H == {j \in I : j <= h}
  <2>1. H \in SUBSET J /\ i \in J /\ i \notin H
    <3>1. i \in Int /\ h \in Int /\ \A j \in I : j \in Int
      OBVIOUS
    <3>2. h < i
      BY <1>3
    <3>3. i \in J /\ i \notin H
      BY <3>1, <3>2
    <3>4. ASSUME NEW j \in H PROVE j \in J
      BY <3>1, <3>2
    <3>5. QED  BY <3>3, <3>4
  <2>2. IsFiniteSet(J) /\ Cardinality(J) = Cardinality(H)
    <3>1. Rank(I, i) = Cardinality(J) /\ Rank(I, h) = Cardinality(H)
      BY DEF Rank
    <3>2. QED  BY <1>2, <1>3, <3>1
  <2> HIDE DEF J, H
  <2>3. J = H
    BY <2>1, <2>2, FS_Subset
  <2>4. QED  BY <2>1, <2>3
<1>4. \A i, h \in I : r[i] = r[h] => i = h
  <2> SUFFICES ASSUME NEW i \in I, NEW h \in I, r[i] = r[h], i # h PROVE FALSE
    OBVIOUS
  <2>1. i < h \/ h < i
    OBVIOUS
  <2>2. Rank(I, i) = Rank(I, h)
    OBVIOUS
  <2>3. QED  BY <1>3, <2>1, <2>2
<1>5. \A k \in 1..c : \E i \in I : r[i] = k
  <2>1. r \in [I -> 1..c]
    BY <1>2
  <2>2. r \in Injection(I, 1..c)
    BY <1>4, <2>1 DEF Injection, IsInjective
  <2>3. IsFiniteSet(1..c) /\ Cardinality(1..c) = c
    BY <1>1, FS_Interval
  <2> HIDE DEF r
  <2>4. r \in Surjection(I, 1..c)
    BY <2>2, <2>3, FS_Injection
  <2>5. QED  BY <2>4 DEF Surjection
<1>6. ASSUME NEW k \in 1..c PROVE Nth(I, k) \in I /\ Rank(I, Nth(I, k)) = k
  BY <1>5 DEF Nth, Rank
<1>7. ASSUME NEW i \in I PROVE Nth(I, Rank(I, i)) = i
  <2>1. Rank(I, i) \in 1..c
    BY <1>2
  <2>2. Nth(I, Rank(I, i)) \in I /\ Rank(I, Nth(I, Rank(I, i))) = Rank(I, i)
    BY <1>6, <2>1
  <2>3. QED  BY <1>4, <2>2
<1>8. QED  BY <1>1, <1>2, <1>6, <1>7

\* What is chosen is a sequence of just the elements at these places.
LEMMA ChosenSeq ==
    ASSUME NEW S, NEW s \in Seq(S), NEW I \in SUBSET (1..Len(s))
    PROVE  /\ Chosen(s, I) \in Seq(S) /\ Len(Chosen(s, I)) = Cardinality(I)
           /\ \A k \in 1..Cardinality(I) :
                  Nth(I, k) \in I /\ Chosen(s, I)[k] = s[Nth(I, k)]
           /\ \A i \in I : \E k \in 1..Cardinality(I) : Chosen(s, I)[k] = s[i]
<1>1. Len(s) \in Nat
  BY LenProperties
<1>2. /\ Cardinality(I) \in Nat
      /\ \A k \in 1..Cardinality(I) : Nth(I, k) \in I
      /\ \A i \in I : Rank(I, i) \in 1..Cardinality(I) /\ Nth(I, Rank(I, i)) = i
  BY <1>1, NthPlace
<1>3. \A k \in 1..Cardinality(I) : s[Nth(I, k)] \in S
  BY <1>2, ElementOfSeq
<1>4. Chosen(s, I) \in Seq(S) /\ Len(Chosen(s, I)) = Cardinality(I)
  BY <1>2, <1>3 DEF Chosen
<1>5. \A k \in 1..Cardinality(I) : Chosen(s, I)[k] = s[Nth(I, k)]
  BY DEF Chosen
<1>6. ASSUME NEW i \in I PROVE \E k \in 1..Cardinality(I) : Chosen(s, I)[k] = s[i]
  BY <1>2, <1>5
<1>7. QED  BY <1>2, <1>4, <1>5, <1>6

\* How often what is chosen has an element of V.
LEMMA TimesChosen ==
    ASSUME NEW S, NEW s \in Seq(S), NEW I \in SUBSET (1..Len(s)), NEW V
    PROVE  Times(Chosen(s, I), V) = TimesAt(s, I, V)
<1> DEFINE c == Cardinality(I)
           K == {k \in 1..c : s[Nth(I, k)] \in V}
           A == {i \in I : s[i] \in V}
           f == [k \in K |-> Nth(I, k)]
<1>1. Len(s) \in Nat
  BY LenProperties
<1>2. /\ c \in Nat
      /\ \A k \in 1..c : Nth(I, k) \in I /\ Rank(I, Nth(I, k)) = k
      /\ \A i \in I : Rank(I, i) \in 1..c /\ Nth(I, Rank(I, i)) = i
  BY <1>1, NthPlace
<1>3. {k \in 1..Len(Chosen(s, I)) : Chosen(s, I)[k] \in V} = K
  <2>1. /\ Len(Chosen(s, I)) = c
        /\ \A k \in 1..c : Chosen(s, I)[k] = s[Nth(I, k)]
    BY ChosenSeq
  <2>2. QED  BY <2>1
<1>4. IsFiniteSet(K)
  <2>1. IsFiniteSet(1..c) /\ K \in SUBSET (1..c)
    BY <1>2, FS_Interval
  <2> HIDE DEF K
  <2>2. QED  BY <2>1, FS_Subset
<1>5. f \in [K -> A]
  BY <1>2
<1>6. \A a, b \in K : f[a] = f[b] => a = b
  <2> SUFFICES ASSUME NEW a \in K, NEW b \in K, f[a] = f[b] PROVE a = b
    OBVIOUS
  <2>1. Rank(I, Nth(I, a)) = a /\ Rank(I, Nth(I, b)) = b /\ Nth(I, a) = Nth(I, b)
    BY <1>2
  <2>2. QED  BY <2>1
<1>7. \A i \in A : \E k \in K : f[k] = i
  <2> SUFFICES ASSUME NEW i \in A PROVE \E k \in K : f[k] = i
    OBVIOUS
  <2>1. Rank(I, i) \in K /\ Nth(I, Rank(I, i)) = i
    BY <1>2
  <2>2. QED  BY <2>1
<1> HIDE DEF f, K, A
<1>8. Cardinality(A) = Cardinality(K)
  BY <1>4, <1>5, <1>6, <1>7, SameSize
<1>9. QED  BY <1>3, <1>8 DEF Times, TimesAt, A

\* The elements at some places and those elsewhere are all there are.
LEMMA TimesSplit ==
    ASSUME NEW S, NEW s \in Seq(S), NEW I \in SUBSET (1..Len(s)), NEW V
    PROVE  /\ Times(s, V) = TimesAt(s, I, V) + TimesAt(s, (1..Len(s)) \ I, V)
           /\ TimesAt(s, I, V) \in Nat /\ TimesAt(s, (1..Len(s)) \ I, V) \in Nat
<1> DEFINE A == {i \in I : s[i] \in V}
           B == {i \in (1..Len(s)) \ I : s[i] \in V}
<1>1. A \in SUBSET (1..Len(s)) /\ B \in SUBSET (1..Len(s))
  OBVIOUS
<1>2. /\ IsFiniteSet(A) /\ Cardinality(A) \in Nat
      /\ IsFiniteSet(B) /\ Cardinality(B) \in Nat
  BY <1>1, PlacesFinite
<1>3. A \cap B = {} /\ {i \in 1..Len(s) : s[i] \in V} = A \cup B
  OBVIOUS
<1> HIDE DEF A, B
<1>4. Cardinality(A \cup B) = Cardinality(A) + Cardinality(B) - Cardinality(A \cap B)
  BY <1>2, FS_Union
<1>5. Cardinality(A \cap B) = 0
  BY <1>3, FS_EmptySet
<1>6. Cardinality(A \cup B) = Cardinality(A) + Cardinality(B)
  BY <1>2, <1>4, <1>5
<1>7. QED  BY <1>2, <1>3, <1>6 DEF Times, TimesAt, A, B

----------------------------------------------------------------------------
(* The state.                                                              *)

\* A frame's watch is on a descriptor; the one of the lookup pipe has neither
\* a frame nor a deadline.
Watches ==
    [frame : Frames, fd : Fds, kind : Kinds \ {"DNS"}, left : Nat \cup {None},
     active : BOOLEAN, gen : Nat]
    \cup [frame : {None}, fd : {None}, kind : {"DNS"}, left : {None},
          active : BOOLEAN, gen : Nat]
Timers == [frame : Frames, left : Nat]
Nodes == [frame : Frames, step : {"resume", "reap"}]

TypeOK ==
    /\ pc \in {"loop", "step", "poll", "serve", "take", "exit"}
    /\ running \in Frames \cup {None}
    /\ rq \in Seq(Nodes) /\ timers \in Seq(Timers) /\ ws \in Seq(Watches)
    /\ fresh \in SUBSET Frames /\ over \in SUBSET Frames
    /\ awaiter \in [Frames -> Frames \cup {None}]
    /\ sock \in [Fds -> {"open", "closed", "dropped"}] /\ gen \in [Fds -> Nat]
    /\ resolving \in SUBSET Frames /\ jobs \in Seq(Frames)
    /\ owed \in Nat /\ pipe \in Nat
    /\ gq \in Seq(Frames) /\ gateOpen \in BOOLEAN

\* The frame that runs has begun and is not done, and one runs only when
\* the pump steps it.
Stepping ==
    /\ running # None <=> pc = "step"
    /\ running \notin fresh \cup over
    /\ fresh \cap over = {}

\* While a poll is served the watches it has not come to are those it polled,
\* all of them active, and it reported data or nothing of the lookup pipe.
Polling ==
    /\ pc = "poll" => \A i \in DOMAIN ws : ws[i].active
    /\ pc \in {"serve", "take"} =>
           /\ at \in Nat
           /\ \A i \in DOMAIN ws :
                  i >= at => /\ ws[i].active
                             /\ ws[i].kind = "DNS" => seen[i] \subseteq {"ready"}

Engine == TypeOK /\ Stepping /\ Polling /\ HeldOnce

IInv == Engine /\ OwnSocket /\ NoLookupForgotten

\* A node of the ready queue is told by its frame.
LEMMA EntryIs ==
    /\ \A f \in Frames : Entry(f) \in Nodes
    /\ \A f, g : Entry(f) = Entry(g) => f = g
BY DEF Entry, Nodes

\* The entries of a sequence of frames.
LEMMA EntriesSeq ==
    ASSUME NEW s \in Seq(Frames)
    PROVE  /\ Entries(s) \in Seq(Nodes)
           /\ \A f : Times(Entries(s), {Entry(f)}) = Times(s, {f})
<1>1. Len(s) \in Nat /\ \A i \in 1..Len(s) : s[i] \in Frames
  BY LenProperties, ElementOfSeq
<1>2. \A i \in 1..Len(s) : Entry(s[i]) \in Nodes
  BY <1>1, EntryIs
<1>3. Entries(s) \in Seq(Nodes) /\ Len(Entries(s)) = Len(s)
  BY <1>1, <1>2 DEF Entries
<1>4. \A i \in 1..Len(s) : Entries(s)[i] = Entry(s[i])
  BY <1>1 DEF Entries
<1>5. ASSUME NEW f PROVE Times(Entries(s), {Entry(f)}) = Times(s, {f})
  <2>1. \A i \in 1..Len(s) : Entries(s)[i] \in {Entry(f)} <=> s[i] \in {f}
    BY <1>4, EntryIs
  <2>2. QED  BY <1>3, <2>1, TimesSame
<1>6. QED  BY <1>3, <1>5

\* The frames of chosen records of s, which may be timers or watches.
LEMMA FramesOfChosen ==
    ASSUME NEW S, NEW s \in Seq(S), NEW I \in SUBSET (1..Len(s)),
           \A i \in I : s[i].frame \in Frames
    PROVE  /\ FramesOf(Chosen(s, I)) \in Seq(Frames)
           /\ \A f : Times(FramesOf(Chosen(s, I)), {f})
                     = Cardinality({i \in I : s[i].frame = f})
<1> DEFINE c == Chosen(s, I)
<1>1. /\ c \in Seq(S) /\ Len(c) = Cardinality(I)
      /\ \A k \in 1..Len(c) : Nth(I, k) \in I /\ c[k] = s[Nth(I, k)]
  BY ChosenSeq
<1>2. Len(c) \in Nat
  BY <1>1, LenProperties
<1>3. \A k \in 1..Len(c) : c[k].frame \in Frames
  BY <1>1
<1> HIDE DEF c
<1>4. FramesOf(c) \in Seq(Frames) /\ Len(FramesOf(c)) = Len(c)
  BY <1>2, <1>3 DEF FramesOf
<1>5. \A k \in 1..Len(c) : FramesOf(c)[k] = c[k].frame
  BY DEF FramesOf
<1>6. ASSUME NEW f
      PROVE  Times(FramesOf(c), {f}) = Cardinality({i \in I : s[i].frame = f})
  <2> DEFINE V == {s[i] : i \in {j \in I : s[j].frame = f}}
  <2>1. \A k \in 1..Len(c) : FramesOf(c)[k] \in {f} <=> c[k] \in V
    BY <1>1, <1>5
  <2>2. {i \in I : s[i] \in V} = {i \in I : s[i].frame = f}
    OBVIOUS
  <2> HIDE DEF V
  <2>3. Times(FramesOf(c), {f}) = Times(c, V)
    BY <1>4, <2>1, TimesSame
  <2>4. Times(c, V) = TimesAt(s, I, V)
    BY TimesChosen DEF c
  <2>5. QED  BY <2>2, <2>3, <2>4 DEF TimesAt
<1>7. QED  BY <1>4, <1>6 DEF c

\* What the watches in S deliver.
LEMMA DeliveredSeq ==
    ASSUME ws \in Seq(Watches), NEW S \in SUBSET (DOMAIN ws),
           \A i \in S : ws[i].kind # "DNS"
    PROVE  /\ Delivered(S) \in Seq(Nodes)
           /\ \A f : Times(Delivered(S), {Entry(f)})
                     = Cardinality({i \in S : ws[i].frame = f})
<1>1. Len(ws) \in Nat /\ DOMAIN ws = 1..Len(ws)
      /\ \A i \in 1..Len(ws) : ws[i] \in Watches
  BY LenProperties, ElementOfSeq
<1>2. \A i \in S : ws[i].frame \in Frames
  BY <1>1 DEF Watches, Kinds
<1>3. S \in SUBSET (1..Len(ws))
  BY <1>1
<1>4. /\ FramesOf(Chosen(ws, S)) \in Seq(Frames)
      /\ \A f : Times(FramesOf(Chosen(ws, S)), {f})
                = Cardinality({i \in S : ws[i].frame = f})
  BY <1>2, <1>3, FramesOfChosen
<1>5. QED  BY <1>4, EntriesSeq DEF Delivered

\* Retiring watches changes nothing else of the table.
LEMMA RetiredSeq ==
    ASSUME ws \in Seq(Watches), NEW S
    PROVE  /\ Retired(S) \in Seq(Watches)
           /\ Len(Retired(S)) = Len(ws) /\ DOMAIN Retired(S) = DOMAIN ws
           /\ \A i \in DOMAIN ws :
                  Retired(S)[i] = [ws[i] EXCEPT !.active = @ /\ i \notin S]
<1>1. Len(ws) \in Nat /\ DOMAIN ws = 1..Len(ws)
      /\ \A i \in 1..Len(ws) : ws[i] \in Watches
  BY LenProperties, ElementOfSeq
<1>2. ASSUME NEW w \in Watches, NEW b \in BOOLEAN
      PROVE  [w EXCEPT !.active = @ /\ b] \in Watches
  BY DEF Watches
<1>3. \A i \in 1..Len(ws) : [ws[i] EXCEPT !.active = @ /\ i \notin S] \in Watches
  BY <1>1, <1>2
<1>4. QED  BY <1>1, <1>3 DEF Retired

LEMMA InitIInv == Init => IInv
<1> SUFFICES ASSUME Init PROVE IInv
  OBVIOUS
<1>1. rq \in Seq(Nodes) /\ Len(rq) = 1 /\ rq[1] = Entry(Root)
  BY EntryIs, FramesType DEF Init
<1>2. TypeOK
  BY <1>1, FramesType, NoneType, EmptySeq DEF Init, TypeOK
<1>3. Stepping /\ Polling /\ OwnSocket /\ NoLookupForgotten
  BY FramesType, NoneType DEF Init, Stepping, Polling, OwnSocket, NoLookupForgotten
<1>4. ASSUME NEW f \in Frames
      PROVE  Resumptions(f) = IF f \in fresh \cup over \/ f = running THEN 0 ELSE 1
  <2>1. {i \in DOMAIN rq : rq[i] = Entry(f)} = IF f = Root THEN {1} ELSE {}
    <3>1. DOMAIN rq = {1}
      BY DEF Init
    <3>2. Entry(Root) = Entry(f) <=> f = Root
      BY EntryIs
    <3>3. QED  BY <1>1, <3>1, <3>2
  <2>2. /\ {i \in DOMAIN ws : ws[i].active /\ ws[i].frame = f} = {}
        /\ {i \in DOMAIN timers : timers[i].frame = f} = {}
        /\ {i \in DOMAIN gq : gq[i] = f} = {}
        /\ {i \in DOMAIN jobs : jobs[i] = f} = {}
        /\ resolving \cap {f} = {}
    BY DEF Init
  <2>3. {g \in Frames \ (fresh \cup over) : g # f /\ awaiter[g] = f} = {}
    BY NoneType DEF Init
  <2>4. Resumptions(f) = IF f = Root THEN 1 ELSE 0
    <3>1. Cardinality({}) = 0 /\ Cardinality({1}) = 1
      BY FS_EmptySet, FS_Singleton
    <3>2. Cardinality({i \in DOMAIN rq : rq[i] = Entry(f)}) = IF f = Root THEN 1 ELSE 0
      BY <2>1, <3>1
    <3>3. /\ Cardinality({i \in DOMAIN ws : ws[i].active /\ ws[i].frame = f}) = 0
          /\ Cardinality({i \in DOMAIN timers : timers[i].frame = f}) = 0
          /\ Cardinality({i \in DOMAIN gq : gq[i] = f}) = 0
          /\ Cardinality({i \in DOMAIN jobs : jobs[i] = f}) = 0
          /\ Cardinality(resolving \cap {f}) = 0
      BY <2>2, <3>1
    <3>4. Cardinality({g \in Frames \ (fresh \cup over) : g # f /\ awaiter[g] = f}) = 0
      BY <2>3, <3>1
    <3>5. QED  BY <3>2, <3>3, <3>4 DEF Resumptions
  <2>5. f \in fresh \cup over \/ f = running <=> f # Root
    BY NoneType DEF Init
  <2>6. QED  BY <2>4, <2>5
<1>5. HeldOnce
  BY <1>4 DEF HeldOnce
<1>6. QED  BY <1>2, <1>3, <1>5 DEF IInv, Engine

\* A suspension leaves a queue of nodes behind.
LEMMA SuspendedTypes ==
    ASSUME TypeOK, NEW f \in Frames, NEW more \in Seq(Nodes), Suspended(f, more)
    PROVE  /\ pc' = "loop" /\ running' = None /\ mode' = mode
           /\ rq' \in Seq(Nodes) /\ rq' = rq \o more
BY ConcatProperties DEF TypeOK, Suspended

\* A table with one more watch.
LEMMA WatchTyped ==
    ASSUME TypeOK
    PROVE  /\ \A f \in Frames, fd \in Fds, k \in Kinds \ {"DNS"}, l \in Nat \cup {None} :
                  Watch(f, fd, k, l) \in Watches
           /\ Watch(None, None, "DNS", None) \in Watches
<1>1. ASSUME NEW fd \in Fds PROVE fd # None /\ gen[fd] \in Nat
  BY NoneType DEF TypeOK
<1>2. QED  BY <1>1 DEF Watch, Watches, Kinds

\* The deadlines a call may set.
LEMMA DelayNat ==
    /\ \A l \in (1..MaxDelay) \cup {None} : l \in Nat \cup {None}
    /\ \A l \in 0..MaxDelay : l \in Nat
BY BoundsType

\* What a frame does keeps the types.
LEMMA ActTypes ==
    ASSUME TypeOK, NEW f \in Frames, Act(f)
    PROVE  TypeOK'
<1>1. \A g \in Frames : <<Entry(g)>> \in Seq(Nodes)
  BY EntryIs
<1>2. <<>> \in Seq(Nodes)
  BY EmptySeq
<1>3. ASSUME NEW fd \in Fds, NEW kind \in Kinds \ {"DNS"},
             NEW left \in (1..MaxDelay) \cup {None}, WaitOn(f, fd, kind, left)
      PROVE  TypeOK'
  <2>1. Watch(f, fd, kind, left) \in Watches
    BY WatchTyped, DelayNat
  <2>2. ws' \in Seq(Watches)
    <3>1. ws \in Seq(Watches)
      BY DEF TypeOK
    <3>2. Append(ws, Watch(f, fd, kind, left)) \in Seq(Watches)
      BY <2>1, <3>1, AppendProperties
    <3>3. ws' = ws \/ ws' = Append(ws, Watch(f, fd, kind, left))
      BY <1>3 DEF WaitOn
    <3>4. QED  BY <3>1, <3>2, <3>3
  <2>3. pc' = "loop" /\ running' = None /\ rq' \in Seq(Nodes)
    BY <1>1, <1>2, <1>3, SuspendedTypes DEF WaitOn
  <2>4. QED  BY <1>3, <2>2, <2>3 DEF WaitOn, TypeOK, prog, dns, gate
<1>4. CASE ResolveAtOnce(f)
  <2>1. pc' = "loop" /\ running' = None /\ rq' \in Seq(Nodes)
    BY <1>1, <1>4, SuspendedTypes DEF ResolveAtOnce
  <2>2. QED  BY <1>4, <2>1 DEF ResolveAtOnce, TypeOK, prog, net, dns, gate
<1>5. CASE Resolve(f)
  <2>1. pc' = "loop" /\ running' = None /\ rq' \in Seq(Nodes)
    BY <1>1, <1>2, <1>5, SuspendedTypes DEF Resolve
  <2>2. ws' \in Seq(Watches)
    BY <1>5, WatchTyped, AppendProperties DEF Resolve, TypeOK
  <2>3. resolving' \in SUBSET Frames
    BY <1>5 DEF Resolve, TypeOK
  <2>4. QED  BY <1>5, <2>1, <2>2, <2>3 DEF Resolve, TypeOK, prog, net, gate
<1>6. ASSUME NEW left \in 0..MaxDelay, Delay(f, left) PROVE TypeOK'
  <2>1. pc' = "loop" /\ running' = None /\ rq' \in Seq(Nodes)
    BY <1>2, <1>6, SuspendedTypes DEF Delay
  <2>2. <<[frame |-> f, left |-> left]>> \in Seq(Timers)
    BY DelayNat DEF Timers
  <2>3. timers' \in Seq(Timers)
    BY <1>6, <2>2, ConcatProperties DEF Delay, TypeOK
  <2>4. QED  BY <1>6, <2>1, <2>3 DEF Delay, TypeOK, prog, net, dns, gate
<1>7. CASE Park(f)
  <2>1. pc' = "loop" /\ running' = None /\ rq' \in Seq(Nodes)
    BY <1>1, <1>2, <1>7, SuspendedTypes DEF Park
  <2>2. gq' \in Seq(Frames)
    <3>1. gq \in Seq(Frames) /\ Append(gq, f) \in Seq(Frames)
      BY AppendProperties DEF TypeOK
    <3>2. QED  BY <1>7, <3>1 DEF Park
  <2>3. QED  BY <1>7, <2>1, <2>2 DEF Park, TypeOK, prog, net, dns
<1>8. CASE Signal(f)
  <2>1. rq' \in Seq(Nodes) /\ gq' \in Seq(Frames)
    <3>1. CASE gq = <<>>
      BY <1>8, <3>1 DEF Signal, TypeOK
    <3>2. CASE gq # <<>>
      <4>1. Head(gq) \in Frames /\ Tail(gq) \in Seq(Frames)
        BY <3>2, HeadTailProperties DEF TypeOK
      <4>2. Append(rq, Entry(Head(gq))) \in Seq(Nodes)
        BY <4>1, EntryIs, AppendProperties DEF TypeOK
      <4>3. QED  BY <1>8, <3>2, <4>1, <4>2 DEF Signal
    <3>3. QED  BY <3>1, <3>2
  <2>2. QED  BY <1>8, <2>1 DEF Signal, GoesOn, TypeOK, pump, prog, net, dns
<1>9. CASE FreeGate(f)
  <2>1. rq' \in Seq(Nodes)
    BY <1>9, EntriesSeq, ConcatProperties DEF FreeGate, TypeOK
  <2>2. QED  BY <1>9, <2>1, EmptySeq DEF FreeGate, GoesOn, TypeOK, pump, prog, net, dns
<1>10. ASSUME NEW fd \in Fds, CloseNotify(f, fd) PROVE TypeOK'
  <2>1. \A i \in Watching(fd) : ws[i].kind # "DNS"
    BY NoneType, ElementOfSeq, LenProperties DEF Watching, TypeOK, Watches
  <2>2. Delivered(Watching(fd)) \in Seq(Nodes)
    BY <2>1, DeliveredSeq DEF Watching, TypeOK
  <2>3. rq' \in Seq(Nodes) /\ ws' \in Seq(Watches)
    BY <1>10, <2>2, ConcatProperties, RetiredSeq DEF CloseNotify, TypeOK
  <2>4. QED  BY <1>10, <2>3 DEF CloseNotify, GoesOn, TypeOK, pump, prog, dns, gate
<1>11. ASSUME NEW fd \in Fds, CloseUnnoticed(f, fd) PROVE TypeOK'
  BY <1>11 DEF CloseUnnoticed, GoesOn, TypeOK, pump, prog, dns, gate
<1>12. ASSUME NEW fd \in Fds, Reopen(f, fd) PROVE TypeOK'
  BY <1>12 DEF Reopen, GoesOn, TypeOK, pump, prog, dns, gate
<1>13. ASSUME NEW g \in Frames, Spawn(f, g) PROVE TypeOK'
  <2>1. rq' \in Seq(Nodes)
    BY <1>13, EntryIs, AppendProperties DEF Spawn, TypeOK
  <2>2. QED  BY <1>13, <2>1 DEF Spawn, GoesOn, TypeOK, pump, net, dns, gate
<1>14. ASSUME NEW g \in Frames, Await(f, g) PROVE TypeOK'
  <2>1. pc' = "loop" /\ running' = None /\ rq' \in Seq(Nodes)
    BY <1>1, <1>14, SuspendedTypes DEF Await
  <2>2. QED  BY <1>14, <2>1 DEF Await, TypeOK, net, dns, gate
<1>15. CASE Finish(f)
  <2>1. [frame |-> f, step |-> "reap"] \in Nodes
    BY DEF Nodes
  <2>2. awaiter[f] # None => Entry(awaiter[f]) \in Nodes
    BY EntryIs DEF TypeOK
  <2>3. rq' \in Seq(Nodes)
    BY <1>15, <2>1, <2>2, AppendProperties DEF Finish, TypeOK
  <2>4. QED  BY <1>15, <2>3 DEF Finish, TypeOK, net, dns, gate
<1>16. QED
  BY <1>3, <1>4, <1>5, <1>6, <1>7, <1>8, <1>9, <1>10, <1>11, <1>12, <1>13, <1>14, <1>15
  DEF Act

\* Watches that may be delivered, and the places they are chosen from.
LEMMA TablePlaces ==
    ASSUME TypeOK
    PROVE  /\ Len(ws) \in Nat /\ DOMAIN ws = 1..Len(ws)
           /\ \A i \in DOMAIN ws : ws[i] \in Watches
           /\ \A i \in DOMAIN ws : ws[i].kind # "DNS" =>
                  ws[i].frame \in Frames /\ ws[i].fd \in Fds
           /\ \A i \in DOMAIN ws : ws[i].kind = "DNS" => ws[i].frame = None
           /\ ActiveWatches \in SUBSET (1..Len(ws))
           /\ Len(timers) \in Nat /\ DOMAIN timers = 1..Len(timers)
           /\ \A i \in DOMAIN timers : timers[i] \in Timers
           /\ DueTimers \in SUBSET (1..Len(timers))
<1>1. /\ Len(ws) \in Nat /\ DOMAIN ws = 1..Len(ws)
      /\ \A i \in 1..Len(ws) : ws[i] \in Watches
  BY LenProperties, ElementOfSeq DEF TypeOK
<1>2. /\ Len(timers) \in Nat /\ DOMAIN timers = 1..Len(timers)
      /\ \A i \in 1..Len(timers) : timers[i] \in Timers
  BY LenProperties, ElementOfSeq DEF TypeOK
<1>3. \A w \in Watches :
          /\ w.kind # "DNS" => w.frame \in Frames /\ w.fd \in Fds
          /\ w.kind = "DNS" => w.frame = None
  BY DEF Watches, Kinds
<1>4. QED  BY <1>1, <1>2, <1>3 DEF ActiveWatches, DueTimers

\* Delivering the watch at hand.
LEMMA DeliverTypes ==
    ASSUME TypeOK, at \in DOMAIN ws, ws[at].kind # "DNS", Deliver
    PROVE  rq' \in Seq(Nodes) /\ ws' \in Seq(Watches)
<1>1. Delivered({at}) \in Seq(Nodes)
  BY DeliveredSeq DEF TypeOK
<1>2. rq \o Delivered({at}) \in Seq(Nodes)
  BY <1>1, ConcatProperties DEF TypeOK
<1>3. Retired({at}) \in Seq(Watches)
  BY RetiredSeq DEF TypeOK
<1>4. QED  BY <1>2, <1>3 DEF Deliver

\* Nothing but data is reported of the lookup pipe, so its watch is never
\* delivered to a frame.
LEMMA ServedHasFrame ==
    ASSUME TypeOK, Polling, ServeAtOnce
    PROVE  ws[at].kind # "DNS" /\ ws[at].active /\ at \in Nat
<1>1. at \in Nat /\ at \in DOMAIN ws /\ pc = "serve"
  BY DEF Polling, ServeAtOnce, Serving
<1>2. ws[at].active /\ (ws[at].kind = "DNS" => seen[at] \subseteq {"ready"})
  BY <1>1 DEF Polling
<1>3. QED  BY <1>1, <1>2 DEF ServeAtOnce, Serving, Now

\* What the pump does keeps the types.
LEMMA PumpTypes ==
    ASSUME TypeOK, Polling, Pump
    PROVE  TypeOK'
<1> USE DEF prog, dns, gate, net
<1>1. CASE Step
  <2>1. Head(rq) \in Nodes /\ Tail(rq) \in Seq(Nodes)
    BY <1>1, HeadTailProperties DEF Step, TypeOK
  <2>2. running' \in Frames \cup {None} /\ pc' \in {"loop", "step"}
    BY <1>1, <2>1 DEF Step, TypeOK, Nodes
  <2>3. QED  BY <1>1, <2>1, <2>2 DEF Step, TypeOK
<1>2. CASE Stop
  <2>1. Tail(rq) \in Seq(Nodes)
    BY <1>2, HeadTailProperties DEF Stop, TypeOK
  <2>2. QED  BY <1>2, <2>1 DEF Stop, TypeOK
<1>3. CASE TimersDue
  <2>1. \A i \in DueTimers : timers[i].frame \in Frames
    BY TablePlaces DEF Timers
  <2>2. FramesOf(Chosen(timers, DueTimers)) \in Seq(Frames)
    BY <2>1, TablePlaces, FramesOfChosen DEF TypeOK
  <2>3. rq' \in Seq(Nodes)
    BY <1>3, <2>2, EntriesSeq DEF TimersDue
  <2>4. DOMAIN timers \ DueTimers \in SUBSET (1..Len(timers))
    BY TablePlaces
  <2>5. timers' \in Seq(Timers)
    BY <1>3, <2>4, ChosenSeq DEF TimersDue, TypeOK
  <2>6. QED  BY <1>3, <2>3, <2>5 DEF TimersDue, TypeOK, pump
<1>4. CASE PollStarts
  <2>1. ws' \in Seq(Watches)
    BY <1>4, TablePlaces, ChosenSeq DEF PollStarts, TypeOK
  <2>2. QED  BY <1>4, <2>1 DEF PollStarts, TypeOK
<1>5. CASE Return
  BY <1>5 DEF Return, TypeOK
<1>6. CASE PollReturns
  BY <1>6 DEF PollReturns, TypeOK
<1>7. CASE ServeAtOnce
  <2>1. rq' \in Seq(Nodes) /\ ws' \in Seq(Watches)
    BY <1>7, ServedHasFrame, DeliverTypes DEF ServeAtOnce, Serving
  <2>2. QED  BY <1>7, <2>1 DEF ServeAtOnce, TypeOK, pump
<1>8. CASE ServeData
  <2>1. at \in DOMAIN ws /\ ws[at].kind # "DNS"
    BY <1>8 DEF ServeData, Serving
  <2>2. Deliver \/ UNCHANGED <<rq, ws>>
    BY <1>8 DEF ServeData
  <2>3. rq' \in Seq(Nodes) /\ ws' \in Seq(Watches)
    BY <2>1, <2>2, DeliverTypes DEF TypeOK
  <2>4. QED  BY <1>8, <2>3 DEF ServeData, TypeOK, pump
<1>9. CASE DrainPipe
  BY <1>9 DEF DrainPipe, TypeOK
<1>10. CASE TakeJobs
  <2>1. rq \o Entries(jobs) \in Seq(Nodes)
    BY EntriesSeq, ConcatProperties DEF TypeOK
  <2>2. QED  BY <1>10, <2>1, EmptySeq DEF TakeJobs, TypeOK
<1>11. CASE ServeNothing
  BY <1>11 DEF ServeNothing, TypeOK, pump
<1>12. CASE PollEnds
  BY <1>12 DEF PollEnds, TypeOK
<1>13. QED
  BY <1>1, <1>2, <1>3, <1>4, <1>5, <1>6, <1>7, <1>8, <1>9, <1>10, <1>11, <1>12, Pump
  DEF Pump

\* A tick changes nothing of a timer or a watch but the time left.
LEMMA Ticks ==
    ASSUME TypeOK, Tick
    PROVE  /\ timers' \in Seq(Timers) /\ DOMAIN timers' = DOMAIN timers
           /\ \A i \in DOMAIN timers : timers'[i].frame = timers[i].frame
           /\ ws' \in Seq(Watches) /\ DOMAIN ws' = DOMAIN ws
           /\ \A i \in DOMAIN ws :
                  /\ ws'[i].frame = ws[i].frame /\ ws'[i].active = ws[i].active
                  /\ ws'[i].kind = ws[i].kind /\ ws'[i].fd = ws[i].fd
                  /\ ws'[i].gen = ws[i].gen
<1>1. \A n \in Nat \cup {None} : Sooner(n) \in Nat \cup {None}
  BY DEF Sooner
<1>2. Sooner(None) = None /\ \A n \in Nat : Sooner(n) \in Nat
  BY NoneType DEF Sooner
<1>3. /\ timers' = [i \in DOMAIN timers |-> [timers[i] EXCEPT !.left = Sooner(@)]]
      /\ ws' = [i \in DOMAIN ws |-> [ws[i] EXCEPT !.left = Sooner(@)]]
  BY DEF Tick
<1>4. \A t \in Timers : /\ [t EXCEPT !.left = Sooner(@)] \in Timers
                        /\ [t EXCEPT !.left = Sooner(@)].frame = t.frame
  BY <1>2 DEF Timers
<1>5. ASSUME NEW w \in Watches
      PROVE  LET v == [w EXCEPT !.left = Sooner(@)] IN
             /\ v \in Watches /\ v.frame = w.frame /\ v.active = w.active
             /\ v.kind = w.kind /\ v.fd = w.fd /\ v.gen = w.gen
  BY <1>1, <1>2 DEF Watches
<1>6. timers' \in Seq(Timers)
  BY <1>3, <1>4, TablePlaces
<1>7. ws' \in Seq(Watches)
  BY <1>3, <1>5, TablePlaces
<1>8. QED  BY <1>3, <1>4, <1>5, <1>6, <1>7, TablePlaces

\* What happens beside the frames and the pump keeps the types.
LEMMA BesideTypes ==
    ASSUME TypeOK,
           \/ \E f \in Frames : WorkerHandsOver(f)
           \/ WorkerWrites \/ (\E fd \in Fds : Arrives(fd)) \/ Tick
    PROVE  TypeOK'
<1> USE DEF pump, prog, gate, net, dns, call
<1>1. ASSUME NEW f \in Frames, WorkerHandsOver(f) PROVE TypeOK'
  <2>1. <<f>> \o jobs \in Seq(Frames)
    BY ConcatProperties DEF TypeOK
  <2>2. QED  BY <1>1, <2>1 DEF WorkerHandsOver, TypeOK
<1>2. CASE WorkerWrites
  BY <1>2 DEF WorkerWrites, TypeOK
<1>3. ASSUME NEW fd \in Fds, Arrives(fd) PROVE TypeOK'
  BY <1>3 DEF Arrives, TypeOK
<1>4. CASE Tick
  BY <1>4, Ticks DEF Tick, TypeOK
<1>5. QED  BY <1>1, <1>2, <1>3, <1>4

LEMMA NextTypes == TypeOK /\ Polling /\ [Next]_vars => TypeOK'
<1> SUFFICES ASSUME TypeOK, Polling, [Next]_vars PROVE TypeOK'
  OBVIOUS
<1>1. CASE UNCHANGED vars
  BY <1>1 DEF vars, pump, prog, call, net, dns, gate, TypeOK
<1>2. CASE Next
  BY <1>2, ActTypes, PumpTypes, BesideTypes DEF Next
<1>3. QED  BY <1>1, <1>2

----------------------------------------------------------------------------
(* How often each place of the engine refers to a frame.                   *)

ActiveOf(f) == {w \in Watches : w.active /\ w.frame = f}
TimersOf(f) == {t \in Timers : t.frame = f}
Awaiting(un, aw, f) == {g \in un : g # f /\ aw[g] = f}

InQueue(f) == Times(rq, {Entry(f)})
InTable(f) == Times(ws, ActiveOf(f))
InTimers(f) == Times(timers, TimersOf(f))
InGate(f) == Times(gq, {f})
InJobs(f) == Times(jobs, {f})
InLookup(f) == IF f \in resolving THEN 1 ELSE 0
Awaited(f) == Cardinality(Awaiting(Frames \ (fresh \cup over), awaiter, f))

Held(f) == IF f \in fresh \cup over \/ f = running THEN 0 ELSE 1

Same(f, g) == IF f = g THEN 1 ELSE 0

LEMMA CountElements ==
    ASSUME NEW S, NEW s \in Seq(S), NEW x
    PROVE  Cardinality({i \in DOMAIN s : s[i] = x}) = Times(s, {x})
<1>1. DOMAIN s = 1..Len(s)
  BY LenProperties
<1>2. {i \in DOMAIN s : s[i] = x} = {i \in 1..Len(s) : s[i] \in {x}}
  BY <1>1
<1>3. QED  BY <1>2 DEF Times

LEMMA CountWatches ==
    ASSUME NEW s \in Seq(Watches), NEW f
    PROVE  Cardinality({i \in DOMAIN s : s[i].active /\ s[i].frame = f})
           = Times(s, ActiveOf(f))
<1>1. DOMAIN s = 1..Len(s) /\ \A i \in 1..Len(s) : s[i] \in Watches
  BY LenProperties, ElementOfSeq
<1>2. {i \in DOMAIN s : s[i].active /\ s[i].frame = f}
      = {i \in 1..Len(s) : s[i] \in ActiveOf(f)}
  BY <1>1 DEF ActiveOf
<1>3. QED  BY <1>2 DEF Times

LEMMA CountTimers ==
    ASSUME NEW s \in Seq(Timers), NEW f
    PROVE  Cardinality({i \in DOMAIN s : s[i].frame = f}) = Times(s, TimersOf(f))
<1>1. DOMAIN s = 1..Len(s) /\ \A i \in 1..Len(s) : s[i] \in Timers
  BY LenProperties, ElementOfSeq
<1>2. {i \in DOMAIN s : s[i].frame = f} = {i \in 1..Len(s) : s[i] \in TimersOf(f)}
  BY <1>1 DEF TimersOf
<1>3. QED  BY <1>2 DEF Times

LEMMA CountLookups ==
    ASSUME NEW R, NEW f
    PROVE  Cardinality(R \cap {f}) = IF f \in R THEN 1 ELSE 0
<1>1. R \cap {f} = IF f \in R THEN {f} ELSE {}
  OBVIOUS
<1>2. QED  BY <1>1, FS_EmptySet, FS_Singleton

LEMMA AwaitingNat ==
    ASSUME NEW un \in SUBSET Frames, NEW aw, NEW f
    PROVE  /\ IsFiniteSet(Awaiting(un, aw, f))
           /\ Cardinality(Awaiting(un, aw, f)) \in Nat
<1>1. Awaiting(un, aw, f) \in SUBSET Frames
  BY DEF Awaiting
<1>2. IsFiniteSet(Awaiting(un, aw, f))
  BY <1>1, FramesType, FS_Subset
<1>3. QED  BY <1>2, FS_CardinalityType

\* All of them together, now and after a step.
LEMMA Counts ==
    ASSUME TypeOK, NEW f
    PROVE  /\ Resumptions(f) = InQueue(f) + InTable(f) + InTimers(f) + InGate(f)
                               + InJobs(f) + InLookup(f) + Awaited(f)
           /\ InQueue(f) \in Nat /\ InTable(f) \in Nat /\ InTimers(f) \in Nat
           /\ InGate(f) \in Nat /\ InJobs(f) \in Nat /\ InLookup(f) \in Nat
           /\ Awaited(f) \in Nat
<1>1. /\ rq \in Seq(Nodes) /\ ws \in Seq(Watches) /\ timers \in Seq(Timers)
      /\ gq \in Seq(Frames) /\ jobs \in Seq(Frames)
  BY DEF TypeOK
<1>2. /\ Cardinality({i \in DOMAIN rq : rq[i] = Entry(f)}) = InQueue(f)
      /\ InQueue(f) \in Nat
  BY <1>1, CountElements, TimesNat DEF InQueue
<1>3. /\ Cardinality({i \in DOMAIN ws : ws[i].active /\ ws[i].frame = f}) = InTable(f)
      /\ InTable(f) \in Nat
  BY <1>1, CountWatches, TimesNat DEF InTable
<1>4. /\ Cardinality({i \in DOMAIN timers : timers[i].frame = f}) = InTimers(f)
      /\ InTimers(f) \in Nat
  BY <1>1, CountTimers, TimesNat DEF InTimers
<1>5. /\ Cardinality({i \in DOMAIN gq : gq[i] = f}) = InGate(f)
      /\ InGate(f) \in Nat
  BY <1>1, CountElements, TimesNat DEF InGate
<1>6. /\ Cardinality({i \in DOMAIN jobs : jobs[i] = f}) = InJobs(f)
      /\ InJobs(f) \in Nat
  BY <1>1, CountElements, TimesNat DEF InJobs
<1>7. Cardinality(resolving \cap {f}) = InLookup(f) /\ InLookup(f) \in Nat
  BY CountLookups DEF InLookup
<1>8. /\ Cardinality({g \in Frames \ (fresh \cup over) : g # f /\ awaiter[g] = f})
         = Awaited(f)
      /\ Awaited(f) \in Nat
  <2>1. Frames \ (fresh \cup over) \in SUBSET Frames
    OBVIOUS
  <2>2. Cardinality(Awaiting(Frames \ (fresh \cup over), awaiter, f)) \in Nat
    BY <2>1, AwaitingNat
  <2>3. Awaited(f) \in Nat
    BY <2>2 DEF Awaited
  <2>4. QED  BY <2>3 DEF Awaited, Awaiting
<1>9. Resumptions(f) = InQueue(f) + InTable(f) + InTimers(f) + InGate(f)
                       + InJobs(f) + InLookup(f) + Awaited(f)
  BY <1>2, <1>3, <1>4, <1>5, <1>6, <1>7, <1>8, Zenon DEF Resumptions
<1>10. QED
  BY <1>2, <1>3, <1>4, <1>5, <1>6, <1>7, <1>8, <1>9

LEMMA CountsNext ==
    ASSUME TypeOK', NEW f
    PROVE  /\ Resumptions(f)' = InQueue(f)' + InTable(f)' + InTimers(f)' + InGate(f)'
                                + InJobs(f)' + InLookup(f)' + Awaited(f)'
           /\ InQueue(f)' \in Nat /\ InTable(f)' \in Nat /\ InTimers(f)' \in Nat
           /\ InGate(f)' \in Nat /\ InJobs(f)' \in Nat /\ InLookup(f)' \in Nat
           /\ Awaited(f)' \in Nat
<1>1. /\ rq' \in Seq(Nodes) /\ ws' \in Seq(Watches) /\ timers' \in Seq(Timers)
      /\ gq' \in Seq(Frames) /\ jobs' \in Seq(Frames)
  BY DEF TypeOK
<1>2. /\ Cardinality({i \in DOMAIN rq' : rq'[i] = Entry(f)}) = InQueue(f)'
      /\ InQueue(f)' \in Nat
  BY <1>1, CountElements, TimesNat DEF InQueue
<1>3. /\ Cardinality({i \in DOMAIN ws' : ws'[i].active /\ ws'[i].frame = f})
         = InTable(f)'
      /\ InTable(f)' \in Nat
  BY <1>1, CountWatches, TimesNat DEF InTable
<1>4. /\ Cardinality({i \in DOMAIN timers' : timers'[i].frame = f}) = InTimers(f)'
      /\ InTimers(f)' \in Nat
  BY <1>1, CountTimers, TimesNat DEF InTimers
<1>5. /\ Cardinality({i \in DOMAIN gq' : gq'[i] = f}) = InGate(f)'
      /\ InGate(f)' \in Nat
  BY <1>1, CountElements, TimesNat DEF InGate
<1>6. /\ Cardinality({i \in DOMAIN jobs' : jobs'[i] = f}) = InJobs(f)'
      /\ InJobs(f)' \in Nat
  BY <1>1, CountElements, TimesNat DEF InJobs
<1>7. Cardinality(resolving' \cap {f}) = InLookup(f)' /\ InLookup(f)' \in Nat
  BY CountLookups DEF InLookup
<1>8. /\ Cardinality({g \in Frames \ (fresh' \cup over') : g # f /\ awaiter'[g] = f})
         = Awaited(f)'
      /\ Awaited(f)' \in Nat
  <2>1. Frames \ (fresh' \cup over') \in SUBSET Frames
    OBVIOUS
  <2>2. Cardinality(Awaiting(Frames \ (fresh' \cup over'), awaiter', f)) \in Nat
    BY <2>1, AwaitingNat
  <2>3. Awaited(f)' \in Nat
    BY <2>2 DEF Awaited
  <2>4. QED  BY <2>3 DEF Awaited, Awaiting
<1>9. Resumptions(f)' = InQueue(f)' + InTable(f)' + InTimers(f)' + InGate(f)'
                       + InJobs(f)' + InLookup(f)' + Awaited(f)'
  BY <1>2, <1>3, <1>4, <1>5, <1>6, <1>7, <1>8, Zenon DEF Resumptions
<1>10. QED
  BY <1>2, <1>3, <1>4, <1>5, <1>6, <1>7, <1>8, <1>9

\* A place that is left alone refers to a frame as often as before.
LEMMA CountsKept ==
    ASSUME NEW f
    PROVE  /\ UNCHANGED rq => InQueue(f)' = InQueue(f)
           /\ UNCHANGED ws => InTable(f)' = InTable(f)
           /\ UNCHANGED timers => InTimers(f)' = InTimers(f)
           /\ UNCHANGED gq => InGate(f)' = InGate(f)
           /\ UNCHANGED jobs => InJobs(f)' = InJobs(f)
           /\ UNCHANGED resolving => InLookup(f)' = InLookup(f)
           /\ UNCHANGED <<fresh, over, awaiter>> => Awaited(f)' = Awaited(f)
           /\ UNCHANGED <<fresh, over, running>> => Held(f)' = Held(f)
BY DEF InQueue, InTable, InTimers, InGate, InJobs, InLookup, Awaited, Held

----------------------------------------------------------------------------
(* What the steps do to these numbers.                                     *)

HeldAll == \A f \in Frames : Resumptions(f) = Held(f)

LEMMA SameInt == \A f, g : Same(f, g) \in {0, 1}
BY DEF Same

LEMMA TimesEntry ==
    ASSUME NEW f, NEW g
    PROVE  Times(<<Entry(f)>>, {Entry(g)}) = Same(f, g)
BY TimesOne, EntryIs DEF Same

LEMMA QueueGets ==
    ASSUME TypeOK, NEW more \in Seq(Nodes), rq' = rq \o more, NEW f
    PROVE  InQueue(f)' = InQueue(f) + Times(more, {Entry(f)})
BY TimesConcat DEF TypeOK, InQueue

\* The frame that ran is held somewhere from now on; the queue got what the
\* suspension put there.
LEMMA SuspendedCounts ==
    ASSUME TypeOK, Stepping, NEW f \in Frames, running = f, NEW more \in Seq(Nodes),
           Suspended(f, more), NEW h \in Frames
    PROVE  /\ InQueue(h)' = InQueue(h) + Times(more, {Entry(h)})
           /\ UNCHANGED <<fresh, over>> => Held(h)' = Held(h) + Same(f, h)
<1>1. InQueue(h)' = InQueue(h) + Times(more, {Entry(h)})
  BY QueueGets DEF Suspended
<1>2. running' = None /\ h # None /\ f \notin fresh \cup over
  BY NoneType DEF Suspended, Stepping
<1>3. ASSUME UNCHANGED <<fresh, over>> PROVE Held(h)' = Held(h) + Same(f, h)
  BY <1>2, <1>3 DEF Held, Same
<1>4. QED  BY <1>1, <1>3

LEMMA SuspendedAlone ==
    ASSUME TypeOK, Stepping, NEW f \in Frames, running = f, Suspended(f, <<>>),
           NEW h \in Frames
    PROVE  /\ InQueue(h)' = InQueue(h)
           /\ UNCHANGED <<fresh, over>> => Held(h)' = Held(h) + Same(f, h)
<1>1. <<>> \in Seq(Nodes) /\ Times(<<>>, {Entry(h)}) = 0
  BY EmptySeq, TimesEmpty
<1>2. InQueue(h)' = InQueue(h) + 0 /\ InQueue(h) \in Nat
  BY <1>1, SuspendedCounts, Counts
<1>3. UNCHANGED <<fresh, over>> => Held(h)' = Held(h) + Same(f, h)
  BY <1>1, SuspendedCounts
<1>4. QED  BY <1>2, <1>3

LEMMA SuspendedReady ==
    ASSUME TypeOK, Stepping, NEW f \in Frames, running = f, NEW g \in Frames,
           Suspended(f, <<Entry(g)>>), NEW h \in Frames
    PROVE  /\ InQueue(h)' = InQueue(h) + Same(g, h)
           /\ UNCHANGED <<fresh, over>> => Held(h)' = Held(h) + Same(f, h)
<1>1. <<Entry(g)>> \in Seq(Nodes) /\ Times(<<Entry(g)>>, {Entry(h)}) = Same(g, h)
  BY EntryIs, TimesEntry
<1>2. QED  BY <1>1, SuspendedCounts

LEMMA TableGrows ==
    ASSUME TypeOK, NEW w \in Watches, w.active, ws' = Append(ws, w), NEW f
    PROVE  InTable(f)' = InTable(f) + Same(w.frame, f)
<1>1. w \in ActiveOf(f) <=> w.frame = f
  BY DEF ActiveOf
<1>2. ws \in Seq(Watches)
  BY DEF TypeOK
<1>3. Times(Append(ws, w), ActiveOf(f))
      = Times(ws, ActiveOf(f)) + IF w \in ActiveOf(f) THEN 1 ELSE 0
  BY <1>2, TimesAppend
<1>4. QED  BY <1>1, <1>3 DEF InTable, Same

\* Watches that are retired are delivered to the queue, no other is.
LEMMA RetiredCounts ==
    ASSUME TypeOK, NEW S \in SUBSET ActiveWatches, \A i \in S : ws[i].kind # "DNS",
           rq' = rq \o Delivered(S), ws' = Retired(S), NEW f
    PROVE  InQueue(f)' + InTable(f)' = InQueue(f) + InTable(f)
<1>1. /\ DOMAIN ws = 1..Len(ws) /\ \A i \in 1..Len(ws) : ws[i] \in Watches
      /\ S \in SUBSET (1..Len(ws)) /\ ws \in Seq(Watches)
      /\ \A i \in S : ws[i].active
  BY TablePlaces DEF ActiveWatches, TypeOK
<1> DEFINE D == Cardinality({i \in S : ws[i].frame = f})
           K == TimesAt(ws, (1..Len(ws)) \ S, ActiveOf(f))
<1>2. InQueue(f)' = InQueue(f) + D
  <2>1. Delivered(S) \in Seq(Nodes) /\ Times(Delivered(S), {Entry(f)}) = D
    BY <1>1, DeliveredSeq
  <2>2. QED  BY <2>1, QueueGets
<1>3. InTable(f) = D + K
  <2>1. {i \in S : ws[i] \in ActiveOf(f)} = {i \in S : ws[i].frame = f}
    BY <1>1 DEF ActiveOf
  <2>2. Times(ws, ActiveOf(f)) = TimesAt(ws, S, ActiveOf(f)) + K
    BY <1>1, TimesSplit
  <2>3. TimesAt(ws, S, ActiveOf(f)) = D
    BY <2>1 DEF TimesAt
  <2>4. QED  BY <2>2, <2>3 DEF InTable
<1>4. InTable(f)' = K
  <2>1. /\ Len(Retired(S)) = Len(ws) /\ Retired(S) \in Seq(Watches)
        /\ \A i \in 1..Len(ws) :
               Retired(S)[i] = [ws[i] EXCEPT !.active = @ /\ i \notin S]
    BY <1>1, RetiredSeq
  <2>2. ASSUME NEW i \in 1..Len(ws)
        PROVE  Retired(S)[i] \in ActiveOf(f) <=> i \notin S /\ ws[i] \in ActiveOf(f)
    <3>1. Retired(S)[i] \in Watches /\ ws[i] \in Watches
      BY <1>1, <2>1, ElementOfSeq
    <3>2. /\ Retired(S)[i].active <=> ws[i].active /\ i \notin S
          /\ Retired(S)[i].frame = ws[i].frame
      BY <2>1, <3>1 DEF Watches
    <3>3. QED  BY <3>1, <3>2 DEF ActiveOf
  <2>3. {i \in 1..Len(ws') : ws'[i] \in ActiveOf(f)}
        = {i \in (1..Len(ws)) \ S : ws[i] \in ActiveOf(f)}
    <3>1. Len(ws') = Len(ws)
      BY <2>1
    <3>2. \A i \in 1..Len(ws) :
              ws'[i] \in ActiveOf(f) <=> i \notin S /\ ws[i] \in ActiveOf(f)
      BY <2>2
    <3>3. QED  BY <3>1, <3>2
  <2>4. QED  BY <2>3 DEF InTable, Times, TimesAt
<1>5. D \in Nat /\ K \in Nat /\ InQueue(f) \in Nat
  <2>1. {i \in S : ws[i].frame = f} \in SUBSET (1..Len(ws))
    BY <1>1
  <2>2. D \in Nat
    BY <1>1, <2>1, PlacesFinite
  <2>3. K \in Nat
    BY <1>1, TimesSplit
  <2>4. QED  BY <2>2, <2>3, Counts
<1> HIDE DEF D, K
<1>6. QED  BY <1>2, <1>3, <1>4, <1>5

\* One frame more, or one less, that is neither new nor done.
LEMMA AwaitingGains ==
    ASSUME NEW un \in SUBSET Frames, NEW g \in Frames, g \notin un,
           NEW aw, NEW aw2, \A x \in un : aw2[x] = aw[x], NEW h \in Frames
    PROVE  Cardinality(Awaiting(un \cup {g}, aw2, h))
           = Cardinality(Awaiting(un, aw, h)) + IF h = aw2[g] /\ h # g THEN 1 ELSE 0
<1> DEFINE A == Awaiting(un, aw, h)
<1>1. IsFiniteSet(A) /\ Cardinality(A) \in Nat
  BY AwaitingNat
<1>2. g \notin A
  BY DEF Awaiting
<1>3. Awaiting(un \cup {g}, aw2, h)
      = IF h = aw2[g] /\ h # g THEN A \cup {g} ELSE A
  BY DEF Awaiting
<1> HIDE DEF A
<1>4. Cardinality(A \cup {g}) = Cardinality(A) + 1
  BY <1>1, <1>2, FS_AddElement
<1>5. CASE h = aw2[g] /\ h # g
  <2>1. Cardinality(Awaiting(un \cup {g}, aw2, h))
        = Cardinality(A) + 1
    BY <1>3, <1>4, <1>5
  <2>2. QED  BY <1>5, <2>1 DEF A
<1>6. CASE ~(h = aw2[g] /\ h # g)
  <2>1. Cardinality(Awaiting(un \cup {g}, aw2, h))
        = Cardinality(A) + 0
    BY <1>1, <1>3, <1>6
  <2>2. QED  BY <1>6, <2>1 DEF A
<1>7. QED  BY <1>5, <1>6

LEMMA AwaitingLoses ==
    ASSUME NEW un \in SUBSET Frames, NEW g \in un, NEW aw, NEW h \in Frames
    PROVE  Cardinality(Awaiting(un, aw, h))
           = Cardinality(Awaiting(un \ {g}, aw, h))
             + IF h = aw[g] /\ h # g THEN 1 ELSE 0
<1> DEFINE A == Awaiting(un \ {g}, aw, h)
<1>0. un \ {g} \in SUBSET Frames
  OBVIOUS
<1>1. IsFiniteSet(A) /\ Cardinality(A) \in Nat
  BY <1>0, AwaitingNat
<1>2. g \notin A
  BY DEF Awaiting
<1>3. Awaiting(un, aw, h) = IF h = aw[g] /\ h # g THEN A \cup {g} ELSE A
  BY DEF Awaiting
<1> HIDE DEF A
<1>4. Cardinality(A \cup {g}) = Cardinality(A) + 1
  BY <1>1, <1>2, FS_AddElement
<1>5. CASE h = aw[g] /\ h # g
  <2>1. Cardinality(Awaiting(un, aw, h)) = Cardinality(A) + 1
    BY <1>3, <1>4, <1>5
  <2>2. QED  BY <1>5, <2>1 DEF A
<1>6. CASE ~(h = aw[g] /\ h # g)
  <2>1. Cardinality(Awaiting(un, aw, h)) = Cardinality(A) + 0
    BY <1>1, <1>3, <1>6
  <2>2. QED  BY <1>6, <2>1 DEF A
<1>7. QED  BY <1>5, <1>6

LEMMA ZeroSum ==
    ASSUME NEW q \in Nat, NEW w \in Nat, NEW t \in Nat, NEW g \in Nat, NEW j \in Nat,
           NEW l \in Nat, NEW a \in Nat, q + w + t + g + j + l + a = 0
    PROVE  l = 0
OBVIOUS

\* A step of a frame.
LEMMA ActHeld ==
    ASSUME TypeOK, TypeOK', Stepping, HeldAll, NEW f \in Frames, Act(f)
    PROVE  HeldAll'
<1> SUFFICES ASSUME NEW h \in Frames PROVE Resumptions(h)' = Held(h)'
  BY DEF HeldAll
<1> USE DEF prog, call, net, dns, gate, pump
<1>1. Resumptions(h) = Held(h)
  BY DEF HeldAll
<1>2. <<>> \in Seq(Nodes)
  BY EmptySeq
<1>3. ASSUME NEW fd \in Fds, NEW kind \in Kinds \ {"DNS"},
             NEW left \in (1..MaxDelay) \cup {None}, WaitOn(f, fd, kind, left)
      PROVE  Resumptions(h)' = Held(h)'
  <2>1. /\ UNCHANGED <<fresh, over, awaiter, timers, resolving, jobs, gq>>
        /\ running = f
    BY <1>3 DEF WaitOn, May
  <2>2. CASE Suspended(f, <<Entry(f)>>) /\ UNCHANGED ws
    <3>1. InQueue(h)' = InQueue(h) + Same(f, h) /\ Held(h)' = Held(h) + Same(f, h)
      BY <2>1, <2>2, SuspendedReady
    <3>2. QED  BY <1>1, <2>1, <2>2, <3>1, Counts, CountsNext, CountsKept, SameInt
  <2>3. CASE Suspended(f, <<>>) /\ ws' = Append(ws, Watch(f, fd, kind, left))
    <3>1. InQueue(h)' = InQueue(h) /\ Held(h)' = Held(h) + Same(f, h)
      BY <2>1, <2>3, SuspendedAlone
    <3>2. /\ Watch(f, fd, kind, left) \in Watches
          /\ Watch(f, fd, kind, left).active /\ Watch(f, fd, kind, left).frame = f
      BY WatchTyped, DelayNat DEF Watch
    <3>3. InTable(h)' = InTable(h) + Same(f, h)
      BY <2>3, <3>2, TableGrows
    <3>4. QED  BY <1>1, <2>1, <3>1, <3>3, Counts, CountsNext, CountsKept, SameInt
  <2>4. QED  BY <1>3, <2>2, <2>3 DEF WaitOn
<1>4. CASE ResolveAtOnce(f)
  <2>1. /\ UNCHANGED <<fresh, over, awaiter, timers, ws, resolving, jobs, gq>>
        /\ running = f /\ Suspended(f, <<Entry(f)>>)
    BY <1>4 DEF ResolveAtOnce, May
  <2>2. InQueue(h)' = InQueue(h) + Same(f, h) /\ Held(h)' = Held(h) + Same(f, h)
    BY <2>1, SuspendedReady
  <2>3. QED  BY <1>1, <2>1, <2>2, Counts, CountsNext, CountsKept, SameInt
<1>5. CASE Resolve(f)
  <2>1. /\ UNCHANGED <<fresh, over, awaiter, timers, jobs, gq>> /\ running = f
    BY <1>5 DEF Resolve, May
  <2>2. InTable(h)' = InTable(h)
    <3>1. /\ Watch(None, None, "DNS", None) \in Watches
          /\ Watch(None, None, "DNS", None).active
          /\ Watch(None, None, "DNS", None).frame = None
      BY WatchTyped DEF Watch
    <3>2. Same(None, h) = 0
      BY NoneType DEF Same
    <3>3. ASSUME ws' = Append(ws, Watch(None, None, "DNS", None))
          PROVE  InTable(h)' = InTable(h)
      <4>1. InTable(h)' = InTable(h) + 0
        BY <3>1, <3>2, <3>3, TableGrows
      <4>2. QED  BY <4>1, Counts
    <3>4. QED  BY <1>5, <3>3, CountsKept DEF Resolve
  <2>3. CASE Suspended(f, <<>>) /\ resolving' = resolving \cup {f}
    <3>1. InQueue(h)' = InQueue(h) /\ Held(h)' = Held(h) + Same(f, h)
      BY <2>1, <2>3, SuspendedAlone
    <3>2. f \notin resolving
      <4>1. Held(f) = 0 /\ Resumptions(f) = Held(f)
        BY <2>1 DEF Held, HeldAll
      <4>2. /\ InQueue(f) + InTable(f) + InTimers(f) + InGate(f) + InJobs(f)
               + InLookup(f) + Awaited(f) = 0
            /\ InQueue(f) \in Nat /\ InTable(f) \in Nat /\ InTimers(f) \in Nat
            /\ InGate(f) \in Nat /\ InJobs(f) \in Nat /\ InLookup(f) \in Nat
            /\ Awaited(f) \in Nat
        BY <4>1, Counts
      <4>3. InLookup(f) = 0
        <5>1. PICK q \in Nat, w \in Nat, t \in Nat, g \in Nat, j \in Nat, l \in Nat, a \in Nat :
                  q + w + t + g + j + l + a = 0 /\ l = InLookup(f)
          BY <4>2
        <5>2. QED  BY <5>1, ZeroSum
      <4>4. QED  BY <4>3 DEF InLookup
    <3>3. InLookup(h)' = InLookup(h) + Same(f, h)
      BY <2>3, <3>2 DEF InLookup, Same
    <3>4. QED
      BY <1>1, <2>1, <2>2, <3>1, <3>3, Counts, CountsNext, CountsKept, SameInt
  <2>4. CASE Suspended(f, <<Entry(f)>>) /\ UNCHANGED resolving
    <3>1. InQueue(h)' = InQueue(h) + Same(f, h) /\ Held(h)' = Held(h) + Same(f, h)
      BY <2>1, <2>4, SuspendedReady
    <3>2. QED
      BY <1>1, <2>1, <2>2, <2>4, <3>1, Counts, CountsNext, CountsKept, SameInt
  <2>5. QED  BY <1>5, <2>3, <2>4 DEF Resolve
<1>6. ASSUME NEW left \in 0..MaxDelay, Delay(f, left)
      PROVE  Resumptions(h)' = Held(h)'
  <2>1. /\ UNCHANGED <<fresh, over, awaiter, ws, resolving, jobs, gq>> /\ running = f
        /\ Suspended(f, <<>>)
        /\ timers' = <<[frame |-> f, left |-> left]>> \o timers
    BY <1>6 DEF Delay, May
  <2>2. InQueue(h)' = InQueue(h) /\ Held(h)' = Held(h) + Same(f, h)
    BY <2>1, SuspendedAlone
  <2> DEFINE t == [frame |-> f, left |-> left]
  <2>3. t \in Timers /\ <<t>> \in Seq(Timers) /\ t.frame = f /\ timers \in Seq(Timers)
    BY DelayNat DEF Timers, TypeOK
  <2>4. timers' = <<t>> \o timers
    BY <2>1
  <2> HIDE DEF t
  <2>5. Times(<<t>> \o timers, TimersOf(h))
        = Times(<<t>>, TimersOf(h)) + Times(timers, TimersOf(h))
    BY <2>3, TimesConcat
  <2>6. Times(<<t>>, TimersOf(h)) = Same(f, h)
    BY <2>3, TimesOne DEF TimersOf, Same
  <2>7. InTimers(h)' = InTimers(h) + Same(f, h)
    <3>1. Times(timers, TimersOf(h)) \in Nat /\ Same(f, h) \in {0, 1}
      BY <2>3, TimesNat, SameInt
    <3>2. Times(timers', TimersOf(h)) = Times(timers, TimersOf(h)) + Same(f, h)
      BY <2>4, <2>5, <2>6, <3>1
    <3>3. QED  BY <3>2 DEF InTimers
  <2>8. /\ InTable(h)' = InTable(h) /\ InGate(h)' = InGate(h)
        /\ InJobs(h)' = InJobs(h) /\ InLookup(h)' = InLookup(h)
        /\ Awaited(h)' = Awaited(h)
    BY <2>1, CountsKept
  <2>9. QED  BY <1>1, <2>2, <2>7, <2>8, Counts, CountsNext, SameInt
<1>7. CASE Park(f)
  <2>1. /\ UNCHANGED <<fresh, over, awaiter, timers, ws, resolving, jobs>>
        /\ running = f
    BY <1>7 DEF Park, May
  <2>2. CASE Suspended(f, <<Entry(f)>>) /\ UNCHANGED gq
    <3>1. InQueue(h)' = InQueue(h) + Same(f, h) /\ Held(h)' = Held(h) + Same(f, h)
      BY <2>1, <2>2, SuspendedReady
    <3>2. QED  BY <1>1, <2>1, <2>2, <3>1, Counts, CountsNext, CountsKept, SameInt
  <2>3. CASE Suspended(f, <<>>) /\ gq' = Append(gq, f)
    <3>1. InQueue(h)' = InQueue(h) /\ Held(h)' = Held(h) + Same(f, h)
      BY <2>1, <2>3, SuspendedAlone
    <3>2. Times(Append(gq, f), {h}) = Times(gq, {h}) + IF f \in {h} THEN 1 ELSE 0
      BY TimesAppend DEF TypeOK
    <3>3. InGate(h)' = InGate(h) + Same(f, h)
      BY <2>3, <3>2 DEF InGate, Same
    <3>4. QED  BY <1>1, <2>1, <3>1, <3>3, Counts, CountsNext, CountsKept, SameInt
  <2>4. QED  BY <1>7, <2>2, <2>3 DEF Park
<1>8. CASE Signal(f)
  <2>1. /\ UNCHANGED <<fresh, over, awaiter, timers, ws, resolving, jobs, running>>
    BY <1>8 DEF Signal, GoesOn
  <2>2. CASE UNCHANGED <<gq, rq>>
    BY <1>1, <2>1, <2>2, Counts, CountsNext, CountsKept
  <2>3. CASE gq # <<>> /\ gq' = Tail(gq) /\ rq' = Append(rq, Entry(Head(gq)))
    <3>1. Head(gq) \in Frames
      BY <2>3, HeadTailProperties DEF TypeOK
    <3>2. Times(gq, {h}) = Times(Tail(gq), {h}) + IF Head(gq) \in {h} THEN 1 ELSE 0
      BY <2>3, TimesTail DEF TypeOK
    <3>3. InGate(h) = InGate(h)' + Same(Head(gq), h)
      BY <2>3, <3>2 DEF InGate, Same
    <3>4. InQueue(h)' = InQueue(h) + Same(Head(gq), h)
      <4>1. Entry(Head(gq)) \in Nodes /\ rq \in Seq(Nodes)
        BY <3>1, EntryIs DEF TypeOK
      <4>2. Append(rq, Entry(Head(gq))) = rq \o <<Entry(Head(gq))>>
        BY <4>1, AppendIsConcat
      <4>3. <<Entry(Head(gq))>> \in Seq(Nodes) /\ rq' = rq \o <<Entry(Head(gq))>>
        BY <2>3, <4>1, <4>2
      <4>4. QED  BY <4>3, QueueGets, TimesEntry
    <3>5. QED  BY <1>1, <2>1, <3>3, <3>4, Counts, CountsNext, CountsKept, SameInt
  <2>4. QED  BY <1>8, <2>2, <2>3 DEF Signal
<1>9. CASE FreeGate(f)
  <2>1. /\ UNCHANGED <<fresh, over, awaiter, timers, ws, resolving, jobs, running>>
        /\ rq' = rq \o Entries(gq) /\ gq' = <<>>
    BY <1>9 DEF FreeGate, GoesOn
  <2>2. Entries(gq) \in Seq(Nodes) /\ Times(Entries(gq), {Entry(h)}) = InGate(h)
    BY EntriesSeq DEF TypeOK, InGate
  <2>3. InQueue(h)' = InQueue(h) + InGate(h)
    BY <2>1, <2>2, QueueGets
  <2>4. InGate(h)' = 0
    BY <2>1, TimesEmpty DEF InGate
  <2>5. QED  BY <1>1, <2>1, <2>3, <2>4, Counts, CountsNext, CountsKept
<1>10. ASSUME NEW fd \in Fds, CloseNotify(f, fd) PROVE Resumptions(h)' = Held(h)'
  <2>1. /\ UNCHANGED <<fresh, over, awaiter, timers, resolving, jobs, running, gq>>
        /\ rq' = rq \o Delivered(Watching(fd)) /\ ws' = Retired(Watching(fd))
    BY <1>10 DEF CloseNotify, GoesOn
  <2>2. Watching(fd) \in SUBSET ActiveWatches /\ \A i \in Watching(fd) : ws[i].kind # "DNS"
    <3>1. \A w \in Watches : w.kind = "DNS" => w.fd = None
      BY DEF Watches
    <3>2. QED  BY <3>1, NoneType, TablePlaces DEF Watching, ActiveWatches
  <2>3. InQueue(h)' + InTable(h)' = InQueue(h) + InTable(h)
    BY <2>1, <2>2, RetiredCounts
  <2>4. QED  BY <1>1, <2>1, <2>3, Counts, CountsNext, CountsKept
<1>11. ASSUME NEW fd \in Fds, CloseUnnoticed(f, fd) \/ Reopen(f, fd)
       PROVE  Resumptions(h)' = Held(h)'
  <2>1. UNCHANGED <<fresh, over, awaiter, timers, resolving, jobs, running, gq, rq, ws>>
    BY <1>11 DEF CloseUnnoticed, Reopen, GoesOn
  <2>2. QED  BY <1>1, <2>1, Counts, CountsNext, CountsKept
<1>12. ASSUME NEW g \in Frames, Spawn(f, g) PROVE Resumptions(h)' = Held(h)'
  <2>1. /\ UNCHANGED <<over, timers, ws, resolving, jobs, running, gq>>
        /\ g \in fresh /\ fresh' = fresh \ {g}
        /\ awaiter' = [awaiter EXCEPT ![g] = g] /\ rq' = Append(rq, Entry(g))
        /\ running = f /\ g \notin over /\ g # f
    BY <1>12 DEF Spawn, GoesOn, May, Stepping
  <2>2. InQueue(h)' = InQueue(h) + Same(g, h)
    <3>1. <<Entry(g)>> \in Seq(Nodes) /\ rq' = rq \o <<Entry(g)>>
      BY <2>1, EntryIs, AppendIsConcat DEF TypeOK
    <3>2. QED  BY <3>1, QueueGets, TimesEntry
  <2>3. Held(h)' = Held(h) + Same(g, h)
    BY <2>1 DEF Held, Same
  <2>4. Awaited(h)' = Awaited(h)
    <3> DEFINE un == Frames \ (fresh \cup over)
    <3>1. Frames \ (fresh' \cup over') = un \cup {g} /\ un \in SUBSET Frames /\ g \notin un
      BY <2>1
    <3>2. (\A x \in un : awaiter'[x] = awaiter[x]) /\ awaiter'[g] = g
      BY <2>1, <3>1 DEF TypeOK
    <3> HIDE DEF un
    <3>3. Cardinality(Awaiting(un \cup {g}, awaiter', h))
          = Cardinality(Awaiting(un, awaiter, h)) + 0
      <4>1. Cardinality(Awaiting(un \cup {g}, awaiter', h))
            = Cardinality(Awaiting(un, awaiter, h))
              + IF h = awaiter'[g] /\ h # g THEN 1 ELSE 0
        BY <3>1, <3>2, AwaitingGains
      <4>2. QED  BY <3>2, <4>1
    <3>4. Cardinality(Awaiting(un, awaiter, h)) = Awaited(h)
      BY DEF un, Awaited
    <3>5. Awaited(h)' = Awaited(h) + 0
      BY <2>1, <3>1, <3>3, <3>4 DEF Awaited
    <3>6. QED  BY <3>5, Counts
  <2>5. /\ InTable(h)' = InTable(h) /\ InTimers(h)' = InTimers(h)
        /\ InGate(h)' = InGate(h) /\ InJobs(h)' = InJobs(h)
        /\ InLookup(h)' = InLookup(h)
    BY <2>1, CountsKept
  <2>6. QED  BY <1>1, <2>2, <2>3, <2>4, <2>5, Counts, CountsNext, SameInt
<1>13. ASSUME NEW g \in Frames, Await(f, g) PROVE Resumptions(h)' = Held(h)'
  <2>1. /\ UNCHANGED <<over, timers, ws, resolving, jobs, gq>>
        /\ g \in fresh /\ fresh' = fresh \ {g}
        /\ awaiter' = [awaiter EXCEPT ![g] = f] /\ Suspended(f, <<Entry(g)>>)
        /\ running = f /\ g \notin over /\ g # f /\ f \notin fresh \cup over
    BY <1>13 DEF Await, May, Stepping
  <2>2. InQueue(h)' = InQueue(h) + Same(g, h)
    BY <2>1, SuspendedReady
  <2>3. Held(h)' = Held(h) + Same(g, h) + Same(f, h)
    <3>1. running' = None /\ h # None
      BY <2>1, NoneType DEF Suspended
    <3>2. QED  BY <2>1, <3>1 DEF Held, Same
  <2>4. Awaited(h)' = Awaited(h) + Same(f, h)
    <3> DEFINE un == Frames \ (fresh \cup over)
    <3>1. Frames \ (fresh' \cup over') = un \cup {g} /\ un \in SUBSET Frames /\ g \notin un
      BY <2>1
    <3>2. (\A x \in un : awaiter'[x] = awaiter[x]) /\ awaiter'[g] = f
      BY <2>1, <3>1 DEF TypeOK
    <3> HIDE DEF un
    <3>3. Cardinality(Awaiting(un \cup {g}, awaiter', h))
          = Cardinality(Awaiting(un, awaiter, h)) + Same(f, h)
      <4>1. (h = f /\ h # g) <=> f = h
        BY <2>1
      <4>2. Cardinality(Awaiting(un \cup {g}, awaiter', h))
            = Cardinality(Awaiting(un, awaiter, h))
              + IF h = awaiter'[g] /\ h # g THEN 1 ELSE 0
        BY <3>1, <3>2, AwaitingGains
      <4>3. QED  BY <3>2, <4>1, <4>2 DEF Same
    <3>4. Cardinality(Awaiting(un, awaiter, h)) = Awaited(h)
      BY DEF un, Awaited
    <3>5. QED  BY <2>1, <3>1, <3>3, <3>4 DEF Awaited
  <2>5. QED
    BY <1>1, <2>1, <2>2, <2>3, <2>4, Counts, CountsNext, CountsKept, SameInt
<1>14. CASE Finish(f)
  <2>1. /\ UNCHANGED <<fresh, awaiter, timers, ws, resolving, jobs, gq>>
        /\ over' = over \cup {f} /\ running = f /\ running' = None
        /\ f \notin fresh \cup over
    BY <1>14 DEF Finish, Stepping
  <2>2. Held(h)' = Held(h)
    BY <2>1, NoneType DEF Held
  <2>3. /\ Awaited(h) = Awaited(h)' + IF h = awaiter[f] /\ h # f THEN 1 ELSE 0
    <3> DEFINE un == Frames \ (fresh \cup over)
    <3>1. Frames \ (fresh' \cup over') = un \ {f} /\ un \in SUBSET Frames /\ f \in un
      BY <2>1
    <3> HIDE DEF un
    <3>2. Cardinality(Awaiting(un, awaiter, h))
          = Cardinality(Awaiting(un \ {f}, awaiter, h))
            + IF h = awaiter[f] /\ h # f THEN 1 ELSE 0
      BY <3>1, AwaitingLoses
    <3>3. Cardinality(Awaiting(un, awaiter, h)) = Awaited(h)
      BY DEF un, Awaited
    <3>4. Cardinality(Awaiting(un \ {f}, awaiter, h)) = Awaited(h)'
      BY <2>1, <3>1 DEF Awaited
    <3>5. QED  BY <3>2, <3>3, <3>4
  <2>4. InQueue(h)' = InQueue(h) + IF h = awaiter[f] /\ h # f THEN 1 ELSE 0
    <3>1. CASE awaiter[f] = None
      <4>1. rq' = rq /\ h # awaiter[f]
        BY <1>14, <3>1, NoneType DEF Finish
      <4>2. QED  BY <4>1, CountsKept, Counts
    <3>2. CASE awaiter[f] # None /\ awaiter[f] = f
      <4> DEFINE n == [frame |-> f, step |-> "reap"]
      <4>1. n \in Nodes /\ n \notin {Entry(h)} /\ rq' = Append(rq, n)
        BY <1>14, <3>2 DEF Finish, Nodes, Entry
      <4> HIDE DEF n
      <4>2. Times(Append(rq, n), {Entry(h)}) = Times(rq, {Entry(h)}) + 0
        BY <4>1, TimesAppend DEF TypeOK
      <4>3. QED  BY <3>2, <4>1, <4>2 DEF InQueue
    <3>3. CASE awaiter[f] # None /\ awaiter[f] # f
      <4>1. /\ awaiter[f] \in Frames /\ rq' = Append(rq, Entry(awaiter[f]))
        BY <1>14, <3>3 DEF Finish, TypeOK
      <4>2. /\ <<Entry(awaiter[f])>> \in Seq(Nodes)
            /\ rq' = rq \o <<Entry(awaiter[f])>>
        BY <4>1, EntryIs, AppendIsConcat DEF TypeOK
      <4>3. InQueue(h)' = InQueue(h) + Same(awaiter[f], h)
        BY <4>2, QueueGets, TimesEntry
      <4>4. QED  BY <3>3, <4>3 DEF Same
    <3>4. QED  BY <3>1, <3>2, <3>3
  <2>5. QED  BY <1>1, <2>1, <2>2, <2>3, <2>4, Counts, CountsNext, CountsKept
<1>15. QED
  BY <1>3, <1>4, <1>5, <1>6, <1>7, <1>8, <1>9, <1>10, <1>11, <1>12, <1>13, <1>14
  DEF Act

LEMMA QueueHasOne ==
    ASSUME NEW q \in Nat, NEW w \in Nat, NEW t \in Nat, NEW g \in Nat, NEW j \in Nat,
           NEW l \in Nat, NEW a \in Nat, NEW n \in {0, 1},
           q + w + t + g + j + l + a = n, q >= 1
    PROVE  n = 1
OBVIOUS

\* A frame that is taken off the queue is neither new nor done.
LEMMA StepRuns ==
    ASSUME TypeOK, HeldAll, rq # <<>>, Head(rq).step # "reap"
    PROVE  /\ Head(rq) = Entry(Head(rq).frame) /\ Head(rq).frame \in Frames
           /\ Held(Head(rq).frame) = 1
           /\ \A h : InQueue(h) = Times(Tail(rq), {Entry(h)}) + Same(Head(rq).frame, h)
<1> DEFINE x == Head(rq).frame
<1>1. Head(rq) \in Nodes /\ Tail(rq) \in Seq(Nodes)
  BY HeadTailProperties DEF TypeOK
<1>2. Head(rq) = Entry(x) /\ x \in Frames
  BY <1>1 DEF Nodes, Entry
<1> HIDE DEF x
<1>3. ASSUME NEW h
      PROVE  /\ InQueue(h) = Times(Tail(rq), {Entry(h)}) + Same(x, h)
             /\ Times(Tail(rq), {Entry(h)}) \in Nat
  <2>1. Times(rq, {Entry(h)})
        = Times(Tail(rq), {Entry(h)}) + IF Head(rq) \in {Entry(h)} THEN 1 ELSE 0
    BY TimesTail DEF TypeOK
  <2>2. Head(rq) \in {Entry(h)} <=> x = h
    BY <1>2, EntryIs
  <2>3. Times(Tail(rq), {Entry(h)}) \in Nat
    BY <1>1, TimesNat
  <2>4. QED  BY <2>1, <2>2, <2>3 DEF InQueue, Same
<1>4. Held(x) = 1
  <2>1. InQueue(x) >= 1
    <3>1. Same(x, x) = 1
      BY DEF Same
    <3>2. /\ InQueue(x) = Times(Tail(rq), {Entry(x)}) + Same(x, x)
          /\ Times(Tail(rq), {Entry(x)}) \in Nat
      BY <1>3
    <3>3. QED  BY <3>1, <3>2
  <2>2. Held(x) \in {0, 1}
    BY DEF Held
  <2>3. InQueue(x) + InTable(x) + InTimers(x) + InGate(x) + InJobs(x)
        + InLookup(x) + Awaited(x) = Held(x)
    BY <1>2, Counts DEF HeldAll
  <2>4. QED  BY <2>1, <2>2, <2>3, Counts, QueueHasOne
<1>5. QED  BY <1>2, <1>3, <1>4 DEF x

\* A step of the pump, but for the return of the emitted one, which drops
\* the node it took.
LEMMA PumpHeld ==
    ASSUME TypeOK, TypeOK', Stepping, Polling, HeldAll, Pump, Stop => mode = "c"
    PROVE  HeldAll'
<1> SUFFICES ASSUME NEW h \in Frames PROVE Resumptions(h)' = Held(h)'
  BY DEF HeldAll
<1> USE DEF prog, call, net, dns, gate, pump
<1>0. Resumptions(h) = Held(h)
  BY DEF HeldAll
<1>1. CASE Step
  <2>1. /\ UNCHANGED <<fresh, over, awaiter, timers, ws, resolving, jobs, gq>>
        /\ rq # <<>> /\ rq' = Tail(rq) /\ running = None
    BY <1>1 DEF Step, Stepping
  <2>2. /\ InTable(h)' = InTable(h) /\ InTimers(h)' = InTimers(h)
        /\ InGate(h)' = InGate(h) /\ InJobs(h)' = InJobs(h)
        /\ InLookup(h)' = InLookup(h) /\ Awaited(h)' = Awaited(h)
    BY <2>1, CountsKept
  <2>3. CASE Head(rq).step = "reap"
    <3>1. Times(rq, {Entry(h)})
          = Times(Tail(rq), {Entry(h)}) + IF Head(rq) \in {Entry(h)} THEN 1 ELSE 0
      BY <2>1, TimesTail DEF TypeOK
    <3>2. Head(rq) \notin {Entry(h)}
      BY <2>3 DEF Entry
    <3>3. InQueue(h) = InQueue(h)' + 0
      BY <2>1, <3>1, <3>2 DEF InQueue
    <3>4. UNCHANGED running
      BY <1>1, <2>3 DEF Step
    <3>5. Held(h)' = Held(h)
      BY <2>1, <3>4, CountsKept
    <3>6. QED  BY <1>0, <2>2, <3>3, <3>5, Counts, CountsNext
  <2>4. CASE Head(rq).step # "reap"
    <3>1. running' = Head(rq).frame
      BY <1>1, <2>4 DEF Step
    <3>2. /\ Held(running') = 1
          /\ InQueue(h) = Times(Tail(rq), {Entry(h)}) + Same(running', h)
      BY <2>1, <2>4, <3>1, StepRuns
    <3>3. InQueue(h) = InQueue(h)' + Same(running', h)
      BY <2>1, <3>2 DEF InQueue
    <3>4. Held(h) = Held(h)' + Same(running', h)
      <4>1. h # None
        BY NoneType
      <4>2. QED  BY <2>1, <3>2, <4>1 DEF Held, Same
    <3>5. Same(running', h) \in {0, 1} /\ Held(h)' \in {0, 1}
      BY SameInt DEF Held
    <3>6. QED  BY <1>0, <2>2, <3>3, <3>4, <3>5, Counts, CountsNext
  <2>5. QED  BY <2>3, <2>4
<1>2. CASE Stop
  <2>1. UNCHANGED <<rq, running, fresh, over, awaiter, timers, ws, resolving, jobs, gq>>
    BY <1>2 DEF Stop
  <2>2. QED  BY <1>0, <2>1, Counts, CountsNext, CountsKept
<1>3. CASE TimersDue
  <2>1. /\ UNCHANGED <<running, fresh, over, awaiter, ws, resolving, jobs, gq>>
        /\ rq = <<>> /\ rq' = Entries(FramesOf(Chosen(timers, DueTimers)))
        /\ timers' = Chosen(timers, DOMAIN timers \ DueTimers)
    BY <1>3 DEF TimersDue
  <2>2. /\ InTable(h)' = InTable(h) /\ InGate(h)' = InGate(h)
        /\ InJobs(h)' = InJobs(h) /\ InLookup(h)' = InLookup(h)
        /\ Awaited(h)' = Awaited(h) /\ Held(h)' = Held(h)
    BY <2>1, CountsKept
  <2>3. /\ timers \in Seq(Timers) /\ DOMAIN timers = 1..Len(timers)
        /\ DueTimers \in SUBSET (1..Len(timers))
        /\ (1..Len(timers)) \ DueTimers \in SUBSET (1..Len(timers))
        /\ \A i \in DueTimers : timers[i] \in Timers /\ timers[i].frame \in Frames
    BY TablePlaces DEF TypeOK, Timers
  <2>4. InQueue(h) = 0
    BY <2>1, TimesEmpty DEF InQueue
  <2>5. InQueue(h)' = TimesAt(timers, DueTimers, TimersOf(h))
    <3>1. /\ FramesOf(Chosen(timers, DueTimers)) \in Seq(Frames)
          /\ \A f : Times(FramesOf(Chosen(timers, DueTimers)), {f})
                    = Cardinality({i \in DueTimers : timers[i].frame = f})
      BY <2>3, FramesOfChosen
    <3>2. {i \in DueTimers : timers[i].frame = h}
          = {i \in DueTimers : timers[i] \in TimersOf(h)}
      BY <2>3 DEF TimersOf
    <3>3. Times(rq', {Entry(h)}) = Times(FramesOf(Chosen(timers, DueTimers)), {h})
      BY <2>1, <3>1, EntriesSeq
    <3>4. QED  BY <3>1, <3>2, <3>3 DEF InQueue, TimesAt
  <2>6. InTimers(h)' = TimesAt(timers, (1..Len(timers)) \ DueTimers, TimersOf(h))
    BY <2>1, <2>3, TimesChosen DEF InTimers
  <2>7. /\ InTimers(h) = TimesAt(timers, DueTimers, TimersOf(h))
                         + TimesAt(timers, (1..Len(timers)) \ DueTimers, TimersOf(h))
    BY <2>3, TimesSplit DEF InTimers
  <2>8. InTimers(h) = InQueue(h)' + InTimers(h)'
    BY <2>5, <2>6, <2>7
  <2>9. QED  BY <1>0, <2>2, <2>4, <2>8, Counts, CountsNext
<1>4. CASE PollStarts
  <2>1. /\ UNCHANGED <<rq, running, fresh, over, awaiter, timers, resolving, jobs, gq>>
        /\ ws' = Chosen(ws, ActiveWatches)
    BY <1>4 DEF PollStarts
  <2>2. /\ ws \in Seq(Watches) /\ DOMAIN ws = 1..Len(ws)
        /\ ActiveWatches \in SUBSET (1..Len(ws))
    BY TablePlaces DEF TypeOK
  <2>3. InTable(h)' = TimesAt(ws, ActiveWatches, ActiveOf(h))
    BY <2>1, <2>2, TimesChosen DEF InTable
  <2>4. InTable(h)' = InTable(h)
    <3>1. {i \in ActiveWatches : ws[i] \in ActiveOf(h)}
          = {i \in 1..Len(ws) : ws[i] \in ActiveOf(h)}
      BY <2>2 DEF ActiveWatches, ActiveOf
    <3>2. QED  BY <2>3, <3>1 DEF InTable, Times, TimesAt
  <2>5. QED  BY <1>0, <2>1, <2>4, Counts, CountsNext, CountsKept
<1>5. CASE Return \/ PollReturns \/ DrainPipe \/ ServeNothing \/ PollEnds
  <2>1. UNCHANGED <<rq, running, fresh, over, awaiter, timers, ws, resolving, jobs, gq>>
    BY <1>5 DEF Return, PollReturns, DrainPipe, ServeNothing, PollEnds
  <2>2. QED  BY <1>0, <2>1, Counts, CountsNext, CountsKept
<1>6. ASSUME Serving(ws[at].kind # "DNS"), Deliver,
             UNCHANGED <<running, fresh, over, awaiter, timers, resolving, jobs, gq>>
      PROVE  Resumptions(h)' = Held(h)'
  <2>1. {at} \in SUBSET ActiveWatches
    <3>1. pc = "serve" /\ at \in DOMAIN ws
      BY <1>6 DEF Serving
    <3>2. at >= at /\ (\A i \in DOMAIN ws : i >= at => ws[i].active)
      BY <3>1 DEF Polling
    <3>3. QED  BY <3>1, <3>2 DEF ActiveWatches
  <2>2. InQueue(h)' + InTable(h)' = InQueue(h) + InTable(h)
    BY <1>6, <2>1, RetiredCounts DEF Deliver, Serving
  <2>3. /\ InTimers(h)' = InTimers(h) /\ InGate(h)' = InGate(h)
        /\ InJobs(h)' = InJobs(h) /\ InLookup(h)' = InLookup(h)
        /\ Awaited(h)' = Awaited(h) /\ Held(h)' = Held(h)
    BY <1>6, CountsKept
  <2>4. QED  BY <1>0, <2>2, <2>3, Counts, CountsNext
<1>7. CASE ServeAtOnce
  <2>1. Serving(ws[at].kind # "DNS")
    BY <1>7, ServedHasFrame DEF ServeAtOnce, Serving
  <2>2. Deliver /\ UNCHANGED <<running, fresh, over, awaiter, timers, resolving, jobs, gq>>
    BY <1>7 DEF ServeAtOnce
  <2>3. QED  BY <1>6, <2>1, <2>2
<1>8. CASE ServeData
  <2>1. Serving(ws[at].kind # "DNS")
    BY <1>8 DEF ServeData, Serving
  <2>2. UNCHANGED <<running, fresh, over, awaiter, timers, resolving, jobs, gq>>
    BY <1>8 DEF ServeData
  <2>3. CASE Deliver
    BY <1>6, <2>1, <2>2, <2>3
  <2>4. CASE UNCHANGED <<rq, ws>>
    BY <1>0, <2>2, <2>4, Counts, CountsNext, CountsKept
  <2>5. QED  BY <1>8, <2>3, <2>4 DEF ServeData
<1>9. CASE TakeJobs
  <2>1. /\ UNCHANGED <<running, fresh, over, awaiter, timers, ws, resolving, gq>>
        /\ rq' = rq \o Entries(jobs) /\ jobs' = <<>>
    BY <1>9 DEF TakeJobs
  <2>2. Entries(jobs) \in Seq(Nodes) /\ Times(Entries(jobs), {Entry(h)}) = InJobs(h)
    BY EntriesSeq DEF TypeOK, InJobs
  <2>3. InQueue(h)' = InQueue(h) + InJobs(h)
    BY <2>1, <2>2, QueueGets
  <2>4. InJobs(h)' = 0
    BY <2>1, TimesEmpty DEF InJobs
  <2>5. QED  BY <1>0, <2>1, <2>3, <2>4, Counts, CountsNext, CountsKept
<1>10. QED
  BY <1>1, <1>2, <1>3, <1>4, <1>5, <1>7, <1>8, <1>9 DEF Pump

\* What happens beside the frames and the pump.
LEMMA BesideHeld ==
    ASSUME TypeOK, TypeOK', HeldAll,
           \/ \E f \in Frames : WorkerHandsOver(f)
           \/ WorkerWrites \/ (\E fd \in Fds : Arrives(fd)) \/ Tick
    PROVE  HeldAll'
<1> SUFFICES ASSUME NEW h \in Frames PROVE Resumptions(h)' = Held(h)'
  BY DEF HeldAll
<1> USE DEF prog, call, net, dns, gate, pump
<1>0. Resumptions(h) = Held(h)
  BY DEF HeldAll
<1>1. ASSUME NEW f \in Frames, WorkerHandsOver(f) PROVE Resumptions(h)' = Held(h)'
  <2>1. /\ UNCHANGED <<rq, running, fresh, over, awaiter, timers, ws, gq>>
        /\ f \in resolving /\ resolving' = resolving \ {f} /\ jobs' = <<f>> \o jobs
    BY <1>1 DEF WorkerHandsOver
  <2>2. InLookup(h) = InLookup(h)' + Same(f, h)
    BY <2>1 DEF InLookup, Same
  <2>3. Times(<<f>> \o jobs, {h}) = Times(<<f>>, {h}) + Times(jobs, {h})
    <3> DEFINE j == <<f>>
    <3>1. j \in Seq(Frames) /\ jobs \in Seq(Frames)
      BY DEF TypeOK
    <3> HIDE DEF j
    <3>2. Times(j \o jobs, {h}) = Times(j, {h}) + Times(jobs, {h})
      BY <3>1, TimesConcat
    <3>3. QED  BY <3>2 DEF j
  <2>4. Times(<<f>>, {h}) = Same(f, h)
    BY TimesOne DEF Same
  <2>5. InJobs(h)' = Same(f, h) + InJobs(h)
    BY <2>1, <2>3, <2>4 DEF InJobs
  <2>6. /\ InQueue(h)' = InQueue(h) /\ InTable(h)' = InTable(h)
        /\ InTimers(h)' = InTimers(h) /\ InGate(h)' = InGate(h)
        /\ Awaited(h)' = Awaited(h) /\ Held(h)' = Held(h)
    BY <2>1, CountsKept
  <2>7. Same(f, h) \in {0, 1}
    BY SameInt
  <2>8. QED  BY <1>0, <2>2, <2>5, <2>6, <2>7, Counts, CountsNext
<1>2. CASE WorkerWrites \/ \E fd \in Fds : Arrives(fd)
  <2>1. UNCHANGED <<rq, running, fresh, over, awaiter, timers, ws, resolving, jobs, gq>>
    BY <1>2 DEF WorkerWrites, Arrives
  <2>2. QED  BY <1>0, <2>1, Counts, CountsNext, CountsKept
<1>3. CASE Tick
  <2>1. UNCHANGED <<rq, running, fresh, over, awaiter, resolving, jobs, gq>>
    BY <1>3 DEF Tick
  <2>2. InTimers(h)' = InTimers(h)
    <3>1. /\ Len(timers) = Len(timers') /\ timers' \in Seq(Timers)
          /\ \A i \in 1..Len(timers) : timers'[i].frame = timers[i].frame
          /\ \A i \in 1..Len(timers) : timers[i] \in Timers /\ timers'[i] \in Timers
      BY <1>3, Ticks, TablePlaces, LenProperties, ElementOfSeq
    <3>2. \A i \in 1..Len(timers) : timers[i] \in TimersOf(h) <=> timers'[i] \in TimersOf(h)
      BY <3>1 DEF TimersOf
    <3>3. QED  BY <3>1, <3>2, TimesSame DEF InTimers
  <2>3. InTable(h)' = InTable(h)
    <3>1. /\ Len(ws) = Len(ws') /\ ws' \in Seq(Watches)
          /\ \A i \in 1..Len(ws) : ws'[i].frame = ws[i].frame /\ ws'[i].active = ws[i].active
          /\ \A i \in 1..Len(ws) : ws[i] \in Watches /\ ws'[i] \in Watches
      BY <1>3, Ticks, TablePlaces, LenProperties, ElementOfSeq, SMTT(30)
    <3>2. \A i \in 1..Len(ws) : ws[i] \in ActiveOf(h) <=> ws'[i] \in ActiveOf(h)
      BY <3>1 DEF ActiveOf
    <3>3. QED  BY <3>1, <3>2, TimesSame DEF InTable
  <2>4. QED  BY <1>0, <2>1, <2>2, <2>3, Counts, CountsNext, CountsKept
<1>4. QED  BY <1>1, <1>2, <1>3

----------------------------------------------------------------------------
(* The invariant.                                                          *)

\* What a frame does ends its step or leaves it the one that runs.
LEMMA ActStepping ==
    ASSUME TypeOK, Stepping, NEW f \in Frames, Act(f)
    PROVE  /\ Stepping' /\ pc = "step" /\ pc' \in {"loop", "step"} /\ mode' = mode
<1> USE DEF prog, pump, Stepping
<1>1. pc = "step" /\ running = f
  BY DEF Act, WaitOn, ResolveAtOnce, Resolve, Delay, Park, Signal, FreeGate,
         CloseNotify, CloseUnnoticed, Reopen, Spawn, Await, Finish, May
<1>2. f # None /\ None \notin fresh \cup over
  BY NoneType DEF TypeOK
<1>3. ASSUME NEW more, Suspended(f, more), UNCHANGED over,
             fresh' \in SUBSET fresh
      PROVE  Stepping' /\ pc' = "loop" /\ mode' = mode
  BY <1>2, <1>3 DEF Suspended
<1>4. ASSUME GoesOn(f), UNCHANGED over, fresh' \in SUBSET fresh
      PROVE  Stepping' /\ pc' = "step" /\ mode' = mode
  BY <1>1, <1>4 DEF GoesOn
<1>5. ASSUME NEW fd \in Fds, NEW kind \in Kinds \ {"DNS"},
             NEW left \in (1..MaxDelay) \cup {None}, WaitOn(f, fd, kind, left)
      PROVE  Stepping' /\ pc' = "loop" /\ mode' = mode
  BY <1>3, <1>5 DEF WaitOn
<1>6. CASE ResolveAtOnce(f) \/ Resolve(f)
  <2>1. UNCHANGED <<fresh, over>>
    BY <1>6 DEF ResolveAtOnce, Resolve
  <2>2. Suspended(f, <<>>) \/ Suspended(f, <<Entry(f)>>)
    BY <1>6 DEF ResolveAtOnce, Resolve
  <2>3. QED  BY <1>1, <1>3, <2>1, <2>2
<1>7. ASSUME NEW left \in 0..MaxDelay, Delay(f, left)
      PROVE  Stepping' /\ pc' = "loop" /\ mode' = mode
  BY <1>3, <1>7 DEF Delay
<1>8. CASE Park(f)
  <2>1. UNCHANGED <<fresh, over>>
    BY <1>8 DEF Park
  <2>2. Suspended(f, <<>>) \/ Suspended(f, <<Entry(f)>>)
    BY <1>8 DEF Park
  <2>3. QED  BY <1>1, <1>3, <2>1, <2>2
<1>9. CASE Signal(f) \/ FreeGate(f)
  BY <1>1, <1>4, <1>9 DEF Signal, FreeGate
<1>10. ASSUME NEW fd \in Fds,
              CloseNotify(f, fd) \/ CloseUnnoticed(f, fd) \/ Reopen(f, fd)
       PROVE  Stepping' /\ pc' = "step" /\ mode' = mode
  BY <1>4, <1>10 DEF CloseNotify, CloseUnnoticed, Reopen
<1>11. ASSUME NEW g \in Frames, Spawn(f, g)
       PROVE  Stepping' /\ pc' = "step" /\ mode' = mode
  BY <1>4, <1>11 DEF Spawn
<1>12. ASSUME NEW g \in Frames, Await(f, g)
       PROVE  Stepping' /\ pc' = "loop" /\ mode' = mode
  BY <1>3, <1>12 DEF Await
<1>13. CASE Finish(f)
  BY <1>1, <1>2, <1>13, NoneType DEF Finish, TypeOK
<1>14. QED
  BY <1>1, <1>5, <1>6, <1>7, <1>8, <1>9, <1>10, <1>11, <1>12, <1>13 DEF Act

\* The pump runs a frame only when it takes one off the queue.
LEMMA PumpStepping ==
    ASSUME TypeOK, Stepping, HeldAll, Pump
    PROVE  Stepping' /\ pc \notin {"step", "exit"} /\ mode' = mode
<1> USE DEF prog, pump
<1>1. CASE Step
  <2>1. CASE Head(rq).step = "reap"
    BY <1>1, <2>1 DEF Step, Stepping
  <2>2. CASE Head(rq).step # "reap"
    <3>1. Head(rq).frame \in Frames /\ Held(Head(rq).frame) = 1
      BY <1>1, <2>2, StepRuns DEF Step
    <3>2. /\ pc = "loop" /\ pc' = "step" /\ running' = Head(rq).frame
          /\ UNCHANGED <<mode, fresh, over>>
      BY <1>1, <2>2 DEF Step
    <3>3. Head(rq).frame \notin fresh \cup over
      BY <3>1 DEF Held
    <3>4. QED  BY <3>1, <3>2, <3>3, NoneType DEF Stepping
  <2>3. QED  BY <2>1, <2>2
<1>2. CASE Stop \/ Return
  BY <1>2 DEF Stop, Return, Stepping
<1>3. CASE TimersDue
  BY <1>3 DEF TimersDue, Stepping
<1>4. CASE PollStarts \/ PollReturns \/ DrainPipe \/ TakeJobs \/ PollEnds
  BY <1>4 DEF PollStarts, PollReturns, DrainPipe, TakeJobs, PollEnds, Stepping, Serving
<1>5. CASE ServeAtOnce \/ ServeData \/ ServeNothing
  BY <1>5 DEF ServeAtOnce, ServeData, ServeNothing, Stepping, Serving
<1>6. QED  BY <1>1, <1>2, <1>3, <1>4, <1>5 DEF Pump

\* Polls: all watches are active when one starts, and the watch at hand is
\* the last one it retires.
LEMMA PumpPolling ==
    ASSUME TypeOK, Polling, Pump
    PROVE  Polling'
<1> USE DEF prog, pump, call
<1>1. CASE Step \/ Stop \/ Return \/ TimersDue \/ PollEnds
  BY <1>1 DEF Step, Stop, Return, TimersDue, PollEnds, Polling
<1>2. CASE PollStarts
  <2>1. ActiveWatches \in SUBSET (1..Len(ws)) /\ ws \in Seq(Watches)
    BY TablePlaces DEF TypeOK
  <2>2. /\ Chosen(ws, ActiveWatches) \in Seq(Watches)
        /\ Len(Chosen(ws, ActiveWatches)) = Cardinality(ActiveWatches)
        /\ \A k \in 1..Cardinality(ActiveWatches) :
               /\ Nth(ActiveWatches, k) \in ActiveWatches
               /\ Chosen(ws, ActiveWatches)[k] = ws[Nth(ActiveWatches, k)]
    BY <2>1, ChosenSeq
  <2>3. DOMAIN Chosen(ws, ActiveWatches) = 1..Cardinality(ActiveWatches)
    BY <2>2, LenProperties
  <2>4. \A k \in DOMAIN Chosen(ws, ActiveWatches) : Chosen(ws, ActiveWatches)[k].active
    BY <2>2, <2>3 DEF ActiveWatches
  <2>5. pc' = "poll" /\ ws' = Chosen(ws, ActiveWatches)
    BY <1>2 DEF PollStarts
  <2>6. QED  BY <2>4, <2>5 DEF Polling
<1>3. CASE PollReturns
  <2>1. /\ pc' = "serve" /\ ws' = ws /\ at' = 1
        /\ seen' = [i \in DOMAIN ws |-> Reports(ws[i]) \cup Late(ws[i])]
        /\ \A i \in DOMAIN ws : ws[i].active
    BY <1>3 DEF PollReturns, Polling
  <2>2. \A w \in Watches : w.kind = "DNS" => w.left = None
    BY DEF Watches, Kinds
  <2>3. ASSUME NEW i \in DOMAIN ws, ws[i].kind = "DNS"
        PROVE  Reports(ws[i]) \cup Late(ws[i]) \subseteq {"ready"}
    <3>1. ws[i].left # 0
      BY <2>2, <2>3, TablePlaces, NoneType
    <3>2. QED  BY <2>3, <3>1 DEF Reports, Late
  <2>4. QED  BY <2>1, <2>3 DEF Polling
<1>4. ASSUME pc = "serve", Deliver, UNCHANGED <<pc, seen>> PROVE Polling'
  <2>1. at \in Nat /\ at' = at + 1 /\ ws' = Retired({at})
    BY <1>4 DEF Polling, Deliver
  <2>2. /\ DOMAIN ws' = DOMAIN ws
        /\ \A i \in DOMAIN ws : ws'[i] = [ws[i] EXCEPT !.active = @ /\ i \notin {at}]
    BY <2>1, RetiredSeq DEF TypeOK
  <2>3. ASSUME NEW i \in DOMAIN ws', i >= at'
        PROVE  ws'[i].active /\ (ws'[i].kind = "DNS" => seen'[i] \subseteq {"ready"})
    <3>1. i \in Nat /\ i >= at /\ i # at
      BY <2>1, <2>2, <2>3, TablePlaces
    <3>2. ws[i] \in Watches /\ ws[i].active
          /\ (ws[i].kind = "DNS" => seen[i] \subseteq {"ready"})
      BY <1>4, <2>2, <3>1, TablePlaces DEF Polling
    <3>3. ws'[i].active /\ ws'[i].kind = ws[i].kind
      BY <2>2, <3>1, <3>2 DEF Watches
    <3>4. QED  BY <1>4, <3>2, <3>3
  <2>4. pc' = "serve" /\ at' \in Nat
    BY <1>4, <2>1
  <2>5. QED  BY <2>3, <2>4 DEF Polling
<1>5. ASSUME pc \in {"serve", "take"}, at' = at + 1, pc' = "serve", UNCHANGED <<ws, seen>>
      PROVE  Polling'
  <2>1. at \in Nat
    BY <1>5 DEF Polling
  <2>2. \A i \in DOMAIN ws : i \in Nat /\ (i >= at + 1 => i >= at)
    BY <2>1, TablePlaces
  <2>3. QED  BY <1>5, <2>1, <2>2 DEF Polling
<1>6. CASE ServeAtOnce
  BY <1>4, <1>6 DEF ServeAtOnce, Serving
<1>7. CASE ServeData
  <2>1. pc = "serve" /\ UNCHANGED <<pc, seen>>
    BY <1>7 DEF ServeData, Serving
  <2>2. Deliver \/ (at' = at + 1 /\ UNCHANGED ws)
    BY <1>7 DEF ServeData
  <2>3. QED  BY <1>4, <1>5, <2>1, <2>2
<1>8. CASE DrainPipe
  BY <1>8 DEF DrainPipe, Serving, Polling
<1>9. CASE TakeJobs \/ ServeNothing
  BY <1>5, <1>9 DEF TakeJobs, ServeNothing, Serving
<1>10. QED  BY <1>1, <1>2, <1>3, <1>6, <1>7, <1>8, <1>9 DEF Pump

LEMMA BesideKept ==
    ASSUME TypeOK, Stepping, Polling,
           \/ \E f \in Frames : WorkerHandsOver(f)
           \/ WorkerWrites \/ (\E fd \in Fds : Arrives(fd)) \/ Tick
    PROVE  Stepping' /\ Polling' /\ pc' = pc /\ mode' = mode
<1> USE DEF prog, pump, call
<1>1. UNCHANGED <<mode, pc, running, fresh, over, seen, at>>
  BY DEF WorkerHandsOver, WorkerWrites, Arrives, Tick
<1>2. Stepping'
  BY <1>1 DEF Stepping
<1>3. CASE UNCHANGED ws
  BY <1>1, <1>2, <1>3 DEF Polling
<1>4. CASE Tick
  <2>1. /\ DOMAIN ws' = DOMAIN ws
        /\ \A i \in DOMAIN ws : ws'[i].active = ws[i].active /\ ws'[i].kind = ws[i].kind
    BY <1>4, Ticks
  <2>2. QED  BY <1>1, <1>2, <2>1 DEF Polling
<1>5. QED  BY <1>3, <1>4 DEF WorkerHandsOver, WorkerWrites, Arrives

\* The engine's invariant, step by step.
LEMMA NextEngine == Engine /\ [Next]_vars => Engine'
<1> SUFFICES ASSUME Engine, [Next]_vars PROVE Engine'
  OBVIOUS
<1>1. TypeOK /\ Stepping /\ Polling /\ HeldOnce
  BY DEF Engine
<1>2. TypeOK'
  BY <1>1, NextTypes
<1>3. HeldOnce <=> (pc # "exit" \/ mode = "c" => HeldAll)
  BY DEF HeldOnce, HeldAll, Held
<1>4. HeldOnce' <=> (pc' # "exit" \/ mode' = "c" => HeldAll')
  BY DEF HeldOnce, HeldAll, Held
<1>5. ASSUME NEW f \in Frames, Act(f) PROVE Engine'
  <2>1. Stepping' /\ pc = "step" /\ pc' \in {"loop", "step"}
    BY <1>1, <1>5, ActStepping
  <2>2. HeldAll
    BY <1>1, <1>3, <2>1
  <2>3. HeldAll'
    BY <1>1, <1>2, <1>5, <2>2, ActHeld
  <2>4. Polling'
    BY <2>1 DEF Polling
  <2>5. QED  BY <1>2, <1>4, <2>1, <2>3, <2>4 DEF Engine
<1>6. CASE Pump
  <2>1. HeldAll
    <3>1. pc # "exit"
      BY <1>6 DEF Pump, Step, Stop, TimersDue, PollStarts, Return, PollReturns, Serving,
                  ServeAtOnce, ServeData, DrainPipe, TakeJobs, ServeNothing, PollEnds
    <3>2. QED  BY <1>1, <1>3, <3>1
  <2>2. Stepping' /\ mode' = mode
    BY <1>1, <1>6, <2>1, PumpStepping
  <2>3. Polling'
    BY <1>1, <1>6, PumpPolling
  <2>4. HeldOnce'
    <3>1. CASE Stop /\ mode # "c"
      BY <1>4, <2>2, <3>1 DEF Stop
    <3>2. CASE Stop => mode = "c"
      BY <1>1, <1>2, <1>4, <1>6, <2>1, <3>2, PumpHeld
    <3>3. QED  BY <3>1, <3>2
  <2>5. QED  BY <1>2, <2>2, <2>3, <2>4 DEF Engine
<1>7. ASSUME \/ \E f \in Frames : WorkerHandsOver(f)
             \/ WorkerWrites \/ (\E fd \in Fds : Arrives(fd)) \/ Tick
      PROVE  Engine'
  <2>1. Stepping' /\ Polling' /\ pc' = pc /\ mode' = mode
    BY <1>1, <1>7, BesideKept
  <2>2. HeldAll => HeldAll'
    BY <1>1, <1>2, <1>7, BesideHeld
  <2>3. QED  BY <1>1, <1>2, <1>3, <1>4, <2>1, <2>2 DEF Engine
<1>8. CASE UNCHANGED vars
  <2>1. UNCHANGED <<mode, pc, rq, running, fresh, over, awaiter, timers, ws, seen, at,
                    resolving, jobs, gq>>
    BY <1>8 DEF vars, pump, prog, call, dns, gate
  <2>2. Stepping' /\ Polling'
    BY <1>1, <2>1 DEF Stepping, Polling
  <2>3. HeldAll => HeldAll'
    <3>1. ASSUME HeldAll, NEW h \in Frames PROVE Resumptions(h)' = Held(h)'
      BY <1>1, <1>2, <2>1, <3>1, Counts, CountsNext, CountsKept DEF HeldAll
    <3>2. QED  BY <3>1 DEF HeldAll
  <2>4. QED  BY <1>1, <1>2, <1>3, <1>4, <2>1, <2>2, <2>3 DEF Engine
<1>9. QED  BY <1>5, <1>6, <1>7, <1>8 DEF Next

----------------------------------------------------------------------------
(* What becomes of the watches.                                            *)

\* A step that only drops or retires watches, or changes the time they have
\* left, keeps the rest of them.
OfBefore == \A i \in DOMAIN ws' : ws'[i].active =>
              \E j \in DOMAIN ws :
                 /\ ws[j].active /\ ws[j].kind = ws'[i].kind
                 /\ ws[j].fd = ws'[i].fd /\ ws[j].gen = ws'[i].gen

DnsStays == DnsWatched => DnsWatched'

LEMMA OwnSocketKept ==
    ASSUME OwnSocket, OfBefore, UNCHANGED <<sock, gen>>
    PROVE  OwnSocket'
BY DEF OwnSocket, OfBefore

LEMMA UnchangedWatches == ASSUME UNCHANGED ws PROVE OfBefore /\ DnsStays
BY DEF OfBefore, DnsStays, DnsWatched

LEMMA RetiredWatches ==
    ASSUME TypeOK, NEW S, ws' = Retired(S),
           \A i \in DOMAIN ws : i \in S => ws[i].kind # "DNS"
    PROVE  /\ OfBefore /\ DnsStays
           /\ \A i \in DOMAIN ws' : ws'[i].active =>
                i \in DOMAIN ws /\ i \notin S /\ ws[i].active
                  /\ ws'[i].fd = ws[i].fd
<1>1. /\ DOMAIN ws' = DOMAIN ws
      /\ \A i \in DOMAIN ws : ws'[i] = [ws[i] EXCEPT !.active = @ /\ i \notin S]
      /\ \A i \in DOMAIN ws : ws[i] \in Watches
  BY RetiredSeq, TablePlaces DEF TypeOK
<1>2. ASSUME NEW i \in DOMAIN ws
      PROVE  /\ ws'[i].active <=> ws[i].active /\ i \notin S
             /\ ws'[i].kind = ws[i].kind /\ ws'[i].fd = ws[i].fd
             /\ ws'[i].gen = ws[i].gen
  <2>1. ws[i] \in Watches /\ ws'[i] = [ws[i] EXCEPT !.active = @ /\ i \notin S]
    BY <1>1
  <2>2. QED  BY <2>1 DEF Watches
<1>3. QED  BY <1>1, <1>2 DEF OfBefore, DnsStays, DnsWatched

LEMMA OneMoreWatch ==
    ASSUME TypeOK, NEW w \in Watches, ws' = Append(ws, w)
    PROVE  /\ DnsStays
           /\ \A i \in DOMAIN ws' : (i \in DOMAIN ws /\ ws'[i] = ws[i]) \/ ws'[i] = w
           /\ w.active /\ w.kind = "DNS" => DnsWatched'
<1>1. Len(ws) \in Nat /\ DOMAIN ws = 1..Len(ws) /\ ws \in Seq(Watches)
  BY TablePlaces DEF TypeOK
<1>2. /\ Len(ws') = Len(ws) + 1 /\ ws' \in Seq(Watches)
      /\ \A i \in 1..Len(ws) : ws'[i] = ws[i]
      /\ ws'[Len(ws) + 1] = w
  BY <1>1, AppendProperties
<1>3. DOMAIN ws' = 1..(Len(ws) + 1)
  BY <1>2, LenProperties
<1>4. \A i \in 1..(Len(ws) + 1) : i \in 1..Len(ws) \/ i = Len(ws) + 1
  BY <1>1
<1>5. \A i \in DOMAIN ws' : (i \in DOMAIN ws /\ ws'[i] = ws[i]) \/ ws'[i] = w
  BY <1>1, <1>2, <1>3, <1>4
<1>6. \A i \in DOMAIN ws : i \in DOMAIN ws' /\ ws'[i] = ws[i]
  BY <1>1, <1>2, <1>3
<1>7. Len(ws) + 1 \in DOMAIN ws'
  BY <1>1, <1>3
<1>8. QED  BY <1>2, <1>5, <1>6, <1>7 DEF DnsStays, DnsWatched

\* What the pump does to the table: watches that are delivered are retired,
\* and a poll starts with the active ones.
LEMMA PumpWatches ==
    ASSUME TypeOK, Polling, Pump
    PROVE  OfBefore /\ DnsStays
<1> USE DEF prog, pump, call, net, dns, gate
<1>1. CASE UNCHANGED ws
  BY <1>1, UnchangedWatches
<1>2. CASE PollStarts
  <2>1. /\ ActiveWatches \in SUBSET (1..Len(ws)) /\ ws \in Seq(Watches)
        /\ DOMAIN ws = 1..Len(ws)
    BY TablePlaces DEF TypeOK
  <2>2. /\ Chosen(ws, ActiveWatches) \in Seq(Watches)
        /\ Len(Chosen(ws, ActiveWatches)) = Cardinality(ActiveWatches)
        /\ \A k \in 1..Cardinality(ActiveWatches) :
               /\ Nth(ActiveWatches, k) \in ActiveWatches
               /\ Chosen(ws, ActiveWatches)[k] = ws[Nth(ActiveWatches, k)]
        /\ \A i \in ActiveWatches :
               \E k \in 1..Cardinality(ActiveWatches) :
                   Chosen(ws, ActiveWatches)[k] = ws[i]
    BY <2>1, ChosenSeq
  <2>3. /\ ws' = Chosen(ws, ActiveWatches)
        /\ DOMAIN ws' = 1..Cardinality(ActiveWatches)
    BY <1>2, <2>2, LenProperties DEF PollStarts
  <2>4. \A k \in DOMAIN ws' : \E j \in DOMAIN ws : ws'[k] = ws[j] /\ ws[j].active
    BY <2>2, <2>3 DEF ActiveWatches
  <2>5. \A j \in DOMAIN ws : ws[j].active => \E k \in DOMAIN ws' : ws'[k] = ws[j]
    BY <2>2, <2>3 DEF ActiveWatches
  <2>6. QED  BY <2>4, <2>5 DEF OfBefore, DnsStays, DnsWatched
<1>3. CASE Deliver /\ ws[at].kind # "DNS"
  BY <1>3, RetiredWatches DEF Deliver
<1>4. CASE ServeAtOnce
  BY <1>3, <1>4, ServedHasFrame DEF ServeAtOnce
<1>5. CASE ServeData
  <2>1. ws[at].kind # "DNS"
    BY <1>5 DEF ServeData, Serving
  <2>2. Deliver \/ UNCHANGED ws
    BY <1>5 DEF ServeData
  <2>3. QED  BY <1>1, <1>3, <2>1, <2>2
<1>6. CASE Step \/ Stop \/ TimersDue \/ Return \/ PollReturns
  BY <1>1, <1>6 DEF Step, Stop, TimersDue, Return, PollReturns
<1>7. CASE DrainPipe \/ TakeJobs \/ ServeNothing \/ PollEnds
  BY <1>1, <1>7 DEF DrainPipe, TakeJobs, ServeNothing, PollEnds
<1>8. QED  BY <1>2, <1>4, <1>5, <1>6, <1>7 DEF Pump

LEMMA BesideWatches ==
    ASSUME TypeOK,
           \/ \E f \in Frames : WorkerHandsOver(f)
           \/ WorkerWrites \/ (\E fd \in Fds : Arrives(fd)) \/ Tick
    PROVE  OfBefore /\ DnsStays /\ UNCHANGED <<sock, gen>>
<1> USE DEF net
<1>1. UNCHANGED <<sock, gen>>
  BY DEF WorkerHandsOver, WorkerWrites, Arrives, Tick
<1>2. CASE UNCHANGED ws
  BY <1>1, <1>2, UnchangedWatches
<1>3. CASE Tick
  BY <1>1, <1>3, Ticks DEF OfBefore, DnsStays, DnsWatched
<1>4. QED  BY <1>2, <1>3 DEF WorkerHandsOver, WorkerWrites, Arrives

LEMMA PumpSockets ==
    ASSUME Pump
    PROVE  UNCHANGED <<sock, gen>>
BY DEF Pump, Step, Stop, TimersDue, PollStarts, Return, PollReturns, ServeAtOnce,
       ServeData, DrainPipe, TakeJobs, ServeNothing, PollEnds, net

\* What a frame does to the table and the sockets.
LEMMA ActWatches ==
    ASSUME TypeOK, OwnSocket, NEW f \in Frames, Act(f)
    PROVE  OwnSocket' /\ DnsStays
<1> USE DEF prog, pump, call, net, dns, gate
<1>1. CASE UNCHANGED <<ws, sock, gen>>
  BY <1>1, UnchangedWatches, OwnSocketKept
<1>2. ASSUME NEW fd \in Fds, NEW kind \in Kinds \ {"DNS"},
             NEW left \in (1..MaxDelay) \cup {None}, WaitOn(f, fd, kind, left)
      PROVE  OwnSocket' /\ DnsStays
  <2>1. UNCHANGED <<sock, gen>>
    BY <1>2 DEF WaitOn
  <2>2. CASE UNCHANGED ws
    BY <1>1, <2>1, <2>2
  <2>3. CASE Alive(fd) /\ ws' = Append(ws, Watch(f, fd, kind, left))
    <3> DEFINE w == Watch(f, fd, kind, left)
    <3>1. w \in Watches /\ w.fd = fd /\ w.gen = gen[fd]
      BY WatchTyped, DelayNat, NoneType DEF Watch
    <3>2. sock[fd] # "closed" /\ ws' = Append(ws, w)
      BY <2>3 DEF Alive
    <3> HIDE DEF w
    <3>3. /\ DnsStays
          /\ \A i \in DOMAIN ws' : (i \in DOMAIN ws /\ ws'[i] = ws[i]) \/ ws'[i] = w
      BY <3>1, <3>2, OneMoreWatch
    <3>4. QED  BY <2>1, <3>1, <3>2, <3>3 DEF OwnSocket
  <2>4. QED  BY <1>2, <2>2, <2>3 DEF WaitOn
<1>3. CASE Resolve(f)
  <2>1. UNCHANGED <<sock, gen>>
    BY <1>3 DEF Resolve
  <2>2. CASE UNCHANGED ws
    BY <1>1, <2>1, <2>2
  <2>3. CASE ws' = Append(ws, Watch(None, None, "DNS", None))
    <3> DEFINE w == Watch(None, None, "DNS", None)
    <3>1. w \in Watches /\ w.kind = "DNS" /\ ws' = Append(ws, w)
      BY <2>3, WatchTyped DEF Watch
    <3> HIDE DEF w
    <3>2. /\ DnsStays
          /\ \A i \in DOMAIN ws' : (i \in DOMAIN ws /\ ws'[i] = ws[i]) \/ ws'[i] = w
      BY <3>1, OneMoreWatch
    <3>3. QED  BY <2>1, <3>1, <3>2 DEF OwnSocket
  <2>4. QED  BY <1>3, <2>2, <2>3 DEF Resolve
<1>4. ASSUME NEW fd \in Fds, CloseNotify(f, fd) PROVE OwnSocket' /\ DnsStays
  <2>1. /\ ws' = Retired(Watching(fd)) /\ gen' = gen
        /\ \A x \in Fds : x # fd => sock'[x] = sock[x]
    BY <1>4 DEF CloseNotify, TypeOK
  <2>2. \A i \in DOMAIN ws : i \in Watching(fd) => ws[i].kind # "DNS"
    <3>1. \A w \in Watches : w.kind = "DNS" => w.fd = None
      BY DEF Watches
    <3>2. QED  BY <3>1, NoneType, TablePlaces DEF Watching
  <2>3. /\ OfBefore /\ DnsStays
        /\ \A i \in DOMAIN ws' : ws'[i].active =>
             i \in DOMAIN ws /\ i \notin Watching(fd) /\ ws[i].active
               /\ ws'[i].fd = ws[i].fd
    BY <2>1, <2>2, RetiredWatches
  <2>4. ASSUME NEW i \in DOMAIN ws', ws'[i].active, ws'[i].kind # "DNS"
        PROVE  sock'[ws'[i].fd] # "closed" /\ ws'[i].gen = gen'[ws'[i].fd]
    <3>1. PICK j \in DOMAIN ws :
            /\ ws[j].active /\ ws[j].kind = ws'[i].kind
            /\ ws[j].fd = ws'[i].fd /\ ws[j].gen = ws'[i].gen
      BY <2>3, <2>4 DEF OfBefore
    <3>2. sock[ws'[i].fd] # "closed" /\ ws'[i].gen = gen[ws'[i].fd]
      BY <2>4, <3>1 DEF OwnSocket
    <3>3. ws'[i].fd # fd /\ ws'[i].fd \in Fds
      BY <2>3, <2>4, <3>1, TablePlaces DEF Watching
    <3>4. QED  BY <2>1, <3>2, <3>3
  <2>5. QED  BY <2>3, <2>4 DEF OwnSocket
<1>5. ASSUME NEW fd \in Fds, CloseUnnoticed(f, fd) PROVE OwnSocket' /\ DnsStays
  <2>1. /\ UNCHANGED <<ws, gen>>
        /\ \A x \in Fds : sock'[x] = sock[x] \/ sock'[x] = "dropped"
    BY <1>5 DEF CloseUnnoticed, TypeOK
  <2>2. DnsStays
    BY <2>1, UnchangedWatches
  <2>3. QED  BY <2>1, <2>2, TablePlaces DEF OwnSocket
<1>6. ASSUME NEW fd \in Fds, Reopen(f, fd) PROVE OwnSocket' /\ DnsStays
  <2>1. /\ UNCHANGED ws /\ sock[fd] = "closed"
        /\ \A x \in Fds : x # fd => sock'[x] = sock[x] /\ gen'[x] = gen[x]
    BY <1>6 DEF Reopen, TypeOK
  <2>2. DnsStays
    BY <2>1, UnchangedWatches
  <2>3. ASSUME NEW i \in DOMAIN ws, ws[i].active, ws[i].kind # "DNS"
        PROVE  ws[i].fd \in Fds /\ ws[i].fd # fd
    BY <2>1, <2>3, TablePlaces DEF OwnSocket
  <2>4. QED  BY <2>1, <2>2, <2>3 DEF OwnSocket
<1>7. CASE ResolveAtOnce(f) \/ Park(f) \/ Signal(f) \/ FreeGate(f) \/ Finish(f)
  BY <1>1, <1>7 DEF ResolveAtOnce, Park, Signal, FreeGate, Finish
<1>8. ASSUME NEW left \in 0..MaxDelay, Delay(f, left) PROVE OwnSocket' /\ DnsStays
  BY <1>1, <1>8 DEF Delay
<1>9. ASSUME NEW g \in Frames, Spawn(f, g) \/ Await(f, g) PROVE OwnSocket' /\ DnsStays
  BY <1>1, <1>9 DEF Spawn, Await
<1>10. QED
  BY <1>2, <1>3, <1>4, <1>5, <1>6, <1>7, <1>8, <1>9 DEF Act

\* A finished lookup is announced: nothing but the drain empties the pipe, and
\* after it the list is taken.
LEMMA LookupsKept ==
    ASSUME TypeOK, NoLookupForgotten, DnsStays,
           UNCHANGED <<resolving, jobs, owed, pipe>>, pc = "take" => pc' = "take"
    PROVE  NoLookupForgotten'
BY DEF NoLookupForgotten, DnsStays

LEMMA ActLookups ==
    ASSUME TypeOK, OwnSocket, NoLookupForgotten, NEW f \in Frames, Act(f), pc = "step"
    PROVE  NoLookupForgotten'
<1> USE DEF dns
<1>1. DnsStays
  BY ActWatches
<1>2. CASE Resolve(f)
  <2>1. UNCHANGED <<jobs, owed, pipe>>
    BY <1>2 DEF Resolve
  <2>2. DnsWatched'
    <3>1. CASE DnsWatched
      BY <1>1, <3>1 DEF DnsStays
    <3>2. CASE ~DnsWatched
      <4> DEFINE w == Watch(None, None, "DNS", None)
      <4>1. w \in Watches /\ w.kind = "DNS" /\ w.active /\ ws' = Append(ws, w)
        BY <1>2, <3>2, WatchTyped DEF Watch, Resolve
      <4> HIDE DEF w
      <4>2. QED  BY <4>1, OneMoreWatch
    <3>3. QED  BY <3>1, <3>2
  <2>3. QED  BY <2>1, <2>2 DEF NoLookupForgotten
<1>3. CASE UNCHANGED <<resolving, jobs, owed, pipe>>
  BY <1>1, <1>3, LookupsKept
<1>4. ASSUME NEW fd \in Fds, NEW kind \in Kinds \ {"DNS"},
             NEW left \in (1..MaxDelay) \cup {None}, WaitOn(f, fd, kind, left)
      PROVE  NoLookupForgotten'
  BY <1>3, <1>4 DEF WaitOn
<1>5. CASE ResolveAtOnce(f) \/ Park(f) \/ Signal(f) \/ FreeGate(f) \/ Finish(f)
  BY <1>3, <1>5 DEF ResolveAtOnce, Park, Signal, FreeGate, Finish
<1>6. ASSUME NEW left \in 0..MaxDelay, Delay(f, left) PROVE NoLookupForgotten'
  BY <1>3, <1>6 DEF Delay
<1>7. ASSUME NEW fd \in Fds,
             CloseNotify(f, fd) \/ CloseUnnoticed(f, fd) \/ Reopen(f, fd)
      PROVE  NoLookupForgotten'
  BY <1>3, <1>7 DEF CloseNotify, CloseUnnoticed, Reopen
<1>8. ASSUME NEW g \in Frames, Spawn(f, g) \/ Await(f, g) PROVE NoLookupForgotten'
  BY <1>3, <1>8 DEF Spawn, Await
<1>9. QED  BY <1>2, <1>4, <1>5, <1>6, <1>7, <1>8 DEF Act

LEMMA PumpLookups ==
    ASSUME TypeOK, Polling, NoLookupForgotten, Pump
    PROVE  NoLookupForgotten'
<1> USE DEF dns, pump
<1>1. DnsStays
  BY PumpWatches
<1>2. CASE DrainPipe
  BY <1>1, <1>2 DEF DrainPipe, NoLookupForgotten, DnsStays
<1>3. CASE TakeJobs
  BY <1>1, <1>3 DEF TakeJobs, NoLookupForgotten, DnsStays
<1>4. CASE Step \/ Stop \/ TimersDue \/ PollStarts \/ Return \/ PollReturns
  BY <1>1, <1>4, LookupsKept
  DEF Step, Stop, TimersDue, PollStarts, Return, PollReturns
<1>5. CASE ServeAtOnce \/ ServeData \/ ServeNothing \/ PollEnds
  BY <1>1, <1>5, LookupsKept DEF ServeAtOnce, ServeData, ServeNothing, PollEnds, Serving
<1>6. QED  BY <1>2, <1>3, <1>4, <1>5 DEF Pump

LEMMA BesideLookups ==
    ASSUME TypeOK, NoLookupForgotten,
           \/ \E f \in Frames : WorkerHandsOver(f)
           \/ WorkerWrites \/ (\E fd \in Fds : Arrives(fd)) \/ Tick
    PROVE  NoLookupForgotten'
<1> USE DEF dns, pump
<1>1. DnsStays
  BY BesideWatches
<1>2. ASSUME NEW f \in Frames, WorkerHandsOver(f) PROVE NoLookupForgotten'
  <2>1. DnsWatched' /\ owed' > 0
    BY <1>1, <1>2 DEF WorkerHandsOver, NoLookupForgotten, DnsStays, TypeOK
  <2>2. QED  BY <2>1 DEF NoLookupForgotten
<1>3. CASE WorkerWrites
  <2>1. pipe' > 0 /\ UNCHANGED <<resolving, jobs>>
    BY <1>3 DEF WorkerWrites, TypeOK
  <2>2. QED  BY <1>1, <2>1 DEF NoLookupForgotten, DnsStays
<1>4. CASE Tick \/ \E fd \in Fds : Arrives(fd)
  BY <1>1, <1>4, LookupsKept DEF Tick, Arrives
<1>5. QED  BY <1>2, <1>3, <1>4

----------------------------------------------------------------------------
(* The theorems.                                                           *)

LEMMA NextIInv == IInv /\ [Next]_vars => IInv'
<1> SUFFICES ASSUME IInv, [Next]_vars PROVE IInv'
  OBVIOUS
<1>1. /\ Engine /\ OwnSocket /\ NoLookupForgotten
      /\ TypeOK /\ Stepping /\ Polling
  BY DEF IInv, Engine
<1>2. Engine'
  BY <1>1, NextEngine
<1>3. ASSUME NEW f \in Frames, Act(f) PROVE OwnSocket' /\ NoLookupForgotten'
  BY <1>1, <1>3, ActStepping, ActWatches, ActLookups
<1>4. ASSUME Pump PROVE OwnSocket' /\ NoLookupForgotten'
  BY <1>1, <1>4, PumpWatches, PumpSockets, OwnSocketKept, PumpLookups
<1>5. ASSUME \/ \E f \in Frames : WorkerHandsOver(f)
             \/ WorkerWrites \/ (\E fd \in Fds : Arrives(fd)) \/ Tick
      PROVE  OwnSocket' /\ NoLookupForgotten'
  BY <1>1, <1>5, BesideWatches, OwnSocketKept, BesideLookups
<1>6. CASE UNCHANGED vars
  <2>1. UNCHANGED <<pc, ws, sock, gen, resolving, jobs, owed, pipe>>
    BY <1>6 DEF vars, pump, net, dns
  <2>2. OwnSocket' /\ NoLookupForgotten'
    BY <1>1, <2>1, UnchangedWatches, OwnSocketKept, LookupsKept
  <2>3. QED  BY <1>2, <2>2 DEF IInv
<1>7. QED  BY <1>2, <1>3, <1>4, <1>5, <1>6 DEF Next, IInv

LEMMA Invariant == Spec => []IInv
<1>1. Init => IInv
  BY InitIInv
<1>2. IInv /\ [Next]_vars => IInv'
  BY NextIInv
<1>3. QED  BY <1>1, <1>2, PTL DEF Spec

\* The queue, the timers, the watch table and the gate hold frames of the
\* program, and a watch is either a frame's on a descriptor or the one of the
\* lookup pipe (the node and watch records of zanstubs.c).
THEOREM TypeCorrect == Spec => []TypeOK
<1>1. IInv => TypeOK
  BY DEF IInv, Engine
<1>2. QED  BY <1>1, Invariant, PTL

\* However many frames, descriptors, delays and lookups there are, a suspended
\* frame is held by exactly one queue, timer, watch, gate, lookup or awaiting
\* frame, and one that runs, is new or is done by none: no step of a frame, of
\* the pump (_zan_co_sched_run_until, zan_io_poll) or of a worker loses a frame
\* or has it resumed twice.
THEOREM FramesAreHeldOnce == Spec => []HeldOnce
<1>1. IInv => HeldOnce
  BY DEF IInv, Engine
<1>2. QED  BY <1>1, Invariant, PTL

\* No watch outlives the socket it was made for: zan_io_close_notify retires
\* all of a descriptor before the number is given back, and a dead one gets no
\* watch (zan_io_socket_alive).
THEOREM WatchesAreOfTheirSocket == Spec => []OwnSocket
<1>1. IInv => OwnSocket
  BY DEF IInv
<1>2. QED  BY <1>1, Invariant, PTL

\* A lookup that runs or is finished is watched for, and a finished one has
\* its byte in the pipe or on the way to it, or the list is about to be taken
\* (zt_dns_worker hands over before it writes, zan_io_poll drains before it
\* takes).
THEOREM LookupsAreAnnounced == Spec => []NoLookupForgotten
<1>1. IInv => NoLookupForgotten
  BY DEF IInv
<1>2. QED  BY <1>1, Invariant, PTL

=============================================================================
