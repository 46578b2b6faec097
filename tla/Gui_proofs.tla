------------------------------ MODULE Gui_proofs ------------------------------
(***************************************************************************)
(* The two parts of the Gui library that are modelled: its dispatch queue, *)
(* for any handlers, windows and ring sizes, and its browser driver, for   *)
(* any records, views and pages.                                           *)
(*                                                                         *)
(* The ring comes first, as operators on one ring: what Count and At are   *)
(* once the remainders are gone, and what a post, a take, a clear and a    *)
(* growth do to them.  The windows and the first-in first-out queue follow *)
(* from that without a remainder.  The browser driver uses the same lemma  *)
(* on remainders for the ring of messages of a record.                     *)
(***************************************************************************)
EXTENDS UiDispatch, CefBrowser, SequenceTheorems, TLAPS

\* The remainder, and what it is when x is less than twice c.
Mod(x, c) == x % c

\* What % is for a number below twice the divisor.
LEMMA SmallMod ==
    ASSUME NEW c \in Nat \ {0}, NEW x \in 0..2 * c - 1
    PROVE  Mod(x, c) = IF x < c THEN x ELSE x - c
<1>1. x \in Int /\ c \in Int /\ c > 0 /\ x % c \in 0..c - 1 /\ x \div c \in Int
  OBVIOUS
<1>2. PICK m \in Int, d \in Int : m = x % c /\ d = x \div c
  BY <1>1
<1>3. x = c * d + m /\ 0 <= m /\ m < c
  BY <1>1, <1>2
<1>4. d = 0 \/ d = 1
  <2>1. ~(d < 0)
    BY <1>1, <1>3
  <2>2. ~(d > 1)
    BY <1>1, <1>3
  <2>3. QED  BY <2>1, <2>2
<1>5. QED  BY <1>1, <1>2, <1>3, <1>4 DEF Mod

\* A ring that the queue may be in.
Ring(r) ==
    /\ r = [ring |-> r.ring, cap |-> r.cap, head |-> r.head, tail |-> r.tail]
    /\ r.cap \in Cap0..2 * CapMax
    /\ r.head \in 0..r.cap - 1
    /\ r.tail \in 0..r.cap - 1
    /\ r.ring \in [0..r.cap - 1 -> Handlers \cup {Null}]
    /\ \A i \in 0..Count(r) - 1 : At(r, i) \in Handlers

\* The slot of the i-th handler.
Slot(r, i) == IF r.head + i < r.cap THEN r.head + i ELSE r.head + i - r.cap

\* Count, At and After of the ring without %.
LEMMA Plain ==
    ASSUME NEW r, r.cap \in Nat \ {0}, r.head \in 0..r.cap - 1, r.tail \in 0..r.cap - 1
    PROVE  /\ Count(r) = IF r.head <= r.tail THEN r.tail - r.head
                                            ELSE r.tail + r.cap - r.head
           /\ \A i \in 0..r.cap - 1 : At(r, i) = r.ring[Slot(r, i)]
           /\ \A i \in 0..r.cap - 1 : After(r, i) = IF i + 1 < r.cap THEN i + 1 ELSE 0
<1>b. PICK c \in Nat \ {0} : c = r.cap
  OBVIOUS
<1>c. PICK h, t : h = r.head /\ t = r.tail
  OBVIOUS
<1>0. c = r.cap /\ h = r.head /\ t = r.tail
  BY <1>b, <1>c
<1>a. h \in 0..c - 1 /\ t \in 0..c - 1
  BY <1>0
<1>1. t + c - h \in 0..2 * c - 1
  BY <1>a
<1>2. Count(r) = IF r.head <= r.tail THEN r.tail - r.head ELSE r.tail + r.cap - r.head
  <2>1. PICK x \in 0..2 * c - 1 : x = t + c - h
    BY <1>1
  <2>a. Mod(x, c) = IF x < c THEN x ELSE x - c
    BY SmallMod
  <2>2. Mod(t + c - h, c) = IF h <= t THEN t - h ELSE t + c - h
    BY <1>a, <2>1, <2>a
  <2>3. QED  BY <1>0, <2>2 DEF Count, Mod
<1>3. ASSUME NEW i \in 0..r.cap - 1 PROVE At(r, i) = r.ring[Slot(r, i)]
  <2>1. PICK x \in 0..2 * c - 1 : x = h + i
    BY <1>0, <1>a
  <2>a. Mod(x, c) = IF x < c THEN x ELSE x - c
    BY SmallMod
  <2>2. Mod(h + i, c) = IF h + i < c THEN h + i ELSE h + i - c
    <3>1. Mod(h + i, c) = Mod(x, c)
      BY <2>1
    <3>2. i \in Int /\ h \in Int /\ x \in Int
      BY <1>0, <1>a
    <3>3. QED  BY <2>1, <2>a, <3>1, <3>2
  <2>3. QED  BY <1>0, <2>2 DEF At, Slot, Mod
<1>4. ASSUME NEW i \in 0..r.cap - 1
      PROVE  After(r, i) = IF i + 1 < r.cap THEN i + 1 ELSE 0
  <2>1. i + 1 \in 0..2 * c - 1
    BY <1>0
  <2>2. Mod(i + 1, c) = IF i + 1 < c THEN i + 1 ELSE i + 1 - c
    BY <2>1, SmallMod
  <2>3. i + 1 < c \/ i + 1 = c
    BY <1>0
  <2>4. QED  BY <1>0, <2>2, <2>3 DEF After, Mod
<1>5. QED  BY <1>2, <1>3, <1>4

\* The same, with the ranges that hold of a ring.
LEMMA RingPlain ==
    ASSUME NEW r, Ring(r)
    PROVE  /\ r.cap \in Nat \ {0} /\ r.head \in 0..r.cap - 1 /\ r.tail \in 0..r.cap - 1
           /\ Count(r) = IF r.head <= r.tail THEN r.tail - r.head
                                            ELSE r.tail + r.cap - r.head
           /\ Count(r) \in 0..r.cap - 1
           /\ \A i \in 0..r.cap - 1 : At(r, i) = r.ring[Slot(r, i)]
           /\ After(r, r.tail) = IF r.tail + 1 < r.cap THEN r.tail + 1 ELSE 0
           /\ After(r, r.head) = IF r.head + 1 < r.cap THEN r.head + 1 ELSE 0
<1>1. r.cap \in Nat \ {0} /\ r.head \in 0..r.cap - 1 /\ r.tail \in 0..r.cap - 1
  BY CapType DEF Ring
<1>2. /\ Count(r) = IF r.head <= r.tail THEN r.tail - r.head
                                        ELSE r.tail + r.cap - r.head
      /\ \A i \in 0..r.cap - 1 : At(r, i) = r.ring[Slot(r, i)]
      /\ \A i \in 0..r.cap - 1 : After(r, i) = IF i + 1 < r.cap THEN i + 1 ELSE 0
  BY <1>1, Plain
<1>3. Count(r) \in 0..r.cap - 1
  BY <1>1, <1>2
<1>4. QED  BY <1>1, <1>2, <1>3

\* The ring after a post that found a free slot.
Put(r, fn) == [r EXCEPT !.ring[r.tail] = fn, !.tail = After(r, r.tail)]

\* zan_dispatch_post below the last place: one more, at the end.
LEMMA PutLast ==
    ASSUME NEW r, Ring(r), NEW fn \in Handlers, After(r, r.tail) # r.head
    PROVE  /\ Ring(Put(r, fn)) /\ Count(Put(r, fn)) = Count(r) + 1
           /\ \A i \in 0..Count(r) - 1 : At(Put(r, fn), i) = At(r, i)
           /\ At(Put(r, fn), Count(r)) = fn
<1>0. PICK c, h, t, g, n : /\ c = r.cap /\ h = r.head /\ t = r.tail /\ g = r.ring
                           /\ n = Count(r)
  OBVIOUS
<1>1. /\ c \in Nat \ {0} /\ h \in 0..c - 1 /\ t \in 0..c - 1
      /\ n = (IF h <= t THEN t - h ELSE t + c - h) /\ n \in 0..c - 1
      /\ \A i \in 0..c - 1 : At(r, i) = g[Slot(r, i)]
      /\ After(r, r.tail) = IF t + 1 < c THEN t + 1 ELSE 0
  BY <1>0, RingPlain
<1>2. PICK s : s = Put(r, fn)
  OBVIOUS
<1>3. PICK u : u = IF t + 1 < c THEN t + 1 ELSE 0
  OBVIOUS
<1>4. /\ s = [ring |-> s.ring, cap |-> s.cap, head |-> s.head, tail |-> s.tail]
      /\ s.cap = c /\ s.head = h /\ s.tail = u
      /\ s.ring = [g EXCEPT ![t] = fn]
  <2>1. r = [ring |-> g, cap |-> c, head |-> h, tail |-> t]
    BY <1>0 DEF Ring
  <2>2. s = [ring |-> [g EXCEPT ![t] = fn], cap |-> c, head |-> h, tail |-> u]
    BY <1>0, <1>1, <1>2, <1>3, <2>1 DEF Put
  <2>3. QED  BY <2>2
<1>5. u \in 0..c - 1 /\ u # h
  BY <1>0, <1>1, <1>3
<1>6. g \in [0..c - 1 -> Handlers \cup {Null}]
  BY <1>0 DEF Ring
<1>7. /\ Count(s) = (IF h <= u THEN u - h ELSE u + c - h)
      /\ \A i \in 0..c - 1 : At(s, i) = s.ring[Slot(s, i)]
  BY <1>1, <1>4, <1>5, Plain
<1>8. Count(s) = n + 1 /\ n + 1 \in 0..c - 1
  BY <1>1, <1>3, <1>5, <1>7
<1>9. ASSUME NEW i \in 0..c - 1
      PROVE  Slot(s, i) = Slot(r, i) /\ Slot(r, i) \in 0..c - 1
             /\ (i < n => Slot(r, i) # t) /\ (i = n => Slot(r, i) = t)
  BY <1>0, <1>1, <1>4 DEF Slot
<1>10. ASSUME NEW i \in 0..n - 1 PROVE At(s, i) = At(r, i) /\ At(r, i) \in Handlers
  <2>1. i \in 0..c - 1 /\ i < n
    BY <1>1
  <2>2. Slot(s, i) = Slot(r, i) /\ Slot(r, i) \in 0..c - 1 /\ Slot(r, i) # t
    BY <1>9, <2>1
  <2>3. s.ring[Slot(s, i)] = g[Slot(r, i)]
    BY <1>4, <1>6, <2>2
  <2>4. At(r, i) \in Handlers
    BY <1>0 DEF Ring
  <2>5. QED  BY <1>1, <1>7, <2>1, <2>3, <2>4
<1>11. At(s, n) = fn
  <2>1. n \in 0..c - 1 /\ Slot(s, n) = t
    BY <1>1, <1>9
  <2>2. s.ring[t] = fn
    BY <1>1, <1>4, <1>6
  <2>3. QED  BY <1>7, <2>1, <2>2
<1>12. Ring(s)
  <2>1. s.cap \in Cap0..2 * CapMax
    BY <1>0, <1>4 DEF Ring
  <2>2. s.head \in 0..s.cap - 1 /\ s.tail \in 0..s.cap - 1
    BY <1>1, <1>4, <1>5
  <2>3. s.ring \in [0..s.cap - 1 -> Handlers \cup {Null}]
    BY <1>4, <1>6
  <2>4. ASSUME NEW i \in 0..Count(s) - 1 PROVE At(s, i) \in Handlers
    <3>1. i \in 0..n - 1 \/ i = n
      BY <1>1, <1>8
    <3>2. QED  BY <1>10, <1>11, <3>1
  <2>5. QED  BY <1>4, <2>1, <2>2, <2>3, <2>4 DEF Ring
<1>13. QED  BY <1>0, <1>2, <1>8, <1>10, <1>11, <1>12

\* The ring after a take that found a handler.
Taken(r) == [r EXCEPT !.head = After(r, r.head)]

\* zan_dispatch_take: the first goes, the others move up.
LEMMA TakenFirst ==
    ASSUME NEW r, Ring(r), r.head # r.tail
    PROVE  /\ Ring(Taken(r)) /\ Count(Taken(r)) = Count(r) - 1 /\ Count(r) > 0
           /\ \A i \in 0..Count(r) - 2 : At(Taken(r), i) = At(r, i + 1)
           /\ At(r, 0) = r.ring[r.head]
<1>0. PICK c, h, t, g, n : /\ c = r.cap /\ h = r.head /\ t = r.tail /\ g = r.ring
                           /\ n = Count(r)
  OBVIOUS
<1>1. /\ c \in Nat \ {0} /\ h \in 0..c - 1 /\ t \in 0..c - 1
      /\ n = (IF h <= t THEN t - h ELSE t + c - h) /\ n \in 0..c - 1
      /\ \A i \in 0..c - 1 : At(r, i) = g[Slot(r, i)]
      /\ After(r, r.head) = IF h + 1 < c THEN h + 1 ELSE 0
  BY <1>0, RingPlain
<1>2. PICK s : s = Taken(r)
  OBVIOUS
<1>3. PICK u : u = IF h + 1 < c THEN h + 1 ELSE 0
  OBVIOUS
<1>4. /\ s = [ring |-> s.ring, cap |-> s.cap, head |-> s.head, tail |-> s.tail]
      /\ s.cap = c /\ s.head = u /\ s.tail = t /\ s.ring = g
  <2>1. r = [ring |-> g, cap |-> c, head |-> h, tail |-> t]
    BY <1>0 DEF Ring
  <2>2. s = [ring |-> g, cap |-> c, head |-> u, tail |-> t]
    BY <1>0, <1>1, <1>2, <1>3, <2>1 DEF Taken
  <2>3. QED  BY <2>2
<1>5. u \in 0..c - 1 /\ h # t
  BY <1>0, <1>1, <1>3
<1>6. /\ Count(s) = (IF u <= t THEN t - u ELSE t + c - u)
      /\ \A i \in 0..c - 1 : At(s, i) = s.ring[Slot(s, i)]
  BY <1>1, <1>4, <1>5, Plain
<1>7. Count(s) = n - 1 /\ n > 0
  BY <1>1, <1>3, <1>5, <1>6
<1>8. ASSUME NEW i \in 0..n - 2 PROVE At(s, i) = At(r, i + 1)
  <2>1. i \in 0..c - 1 /\ i + 1 \in 0..c - 1
    BY <1>1
  <2>2. Slot(s, i) = Slot(r, i + 1)
    BY <1>0, <1>1, <1>3, <1>4, <2>1 DEF Slot
  <2>3. At(s, i) = g[Slot(s, i)] /\ At(r, i + 1) = g[Slot(r, i + 1)]
    BY <1>1, <1>4, <1>6, <2>1
  <2>4. QED  BY <2>2, <2>3
<1>9. At(r, 0) = g[h]
  <2>1. 0 \in 0..c - 1 /\ Slot(r, 0) = h
    BY <1>0, <1>1 DEF Slot
  <2>2. QED  BY <1>1, <2>1
<1>10. Ring(s)
  <2>1. /\ s.cap \in Cap0..2 * CapMax
        /\ s.ring \in [0..s.cap - 1 -> Handlers \cup {Null}]
    BY <1>0, <1>4 DEF Ring
  <2>2. s.head \in 0..s.cap - 1 /\ s.tail \in 0..s.cap - 1
    BY <1>1, <1>4, <1>5
  <2>3. ASSUME NEW i \in 0..Count(s) - 1 PROVE At(s, i) \in Handlers
    <3>1. i \in 0..n - 2 /\ i + 1 \in 0..n - 1
      BY <1>1, <1>7
    <3>2. At(r, i + 1) \in Handlers
      BY <1>0, <3>1 DEF Ring
    <3>3. QED  BY <1>8, <3>1, <3>2
  <2>4. QED  BY <1>4, <2>1, <2>2, <2>3 DEF Ring
<1>11. QED  BY <1>0, <1>2, <1>7, <1>8, <1>9, <1>10

\* head = tail means empty, and a tail just behind head means full.
LEMMA HeadMeetsTail ==
    ASSUME NEW r, Ring(r)
    PROVE  /\ r.head = r.tail <=> Count(r) = 0
           /\ After(r, r.tail) = r.head <=> Count(r) = r.cap - 1
<1>0. PICK c, h, t, n : c = r.cap /\ h = r.head /\ t = r.tail /\ n = Count(r)
  OBVIOUS
<1>1. /\ c \in Nat \ {0} /\ h \in 0..c - 1 /\ t \in 0..c - 1
      /\ n = (IF h <= t THEN t - h ELSE t + c - h)
      /\ After(r, r.tail) = IF t + 1 < c THEN t + 1 ELSE 0
  BY <1>0, RingPlain
<1>2. h = t <=> n = 0
  BY <1>1
<1>3. (IF t + 1 < c THEN t + 1 ELSE 0) = h <=> n = c - 1
  BY <1>1
<1>4. QED  BY <1>0, <1>1, <1>2, <1>3

\* A ring whose first n slots are taken, from the start.
LEMMA Packed ==
    ASSUME NEW c \in Cap0..2 * CapMax, NEW n \in 0..c - 1,
           NEW g \in [0..c - 1 -> Handlers \cup {Null}],
           \A i \in 0..n - 1 : g[i] \in Handlers,
           NEW s, s = [ring |-> g, cap |-> c, head |-> 0, tail |-> n]
    PROVE  Ring(s) /\ Count(s) = n /\ \A i \in 0..n - 1 : At(s, i) = g[i]
<1>1. /\ s.cap = c /\ s.head = 0 /\ s.tail = n /\ s.ring = g /\ c \in Nat \ {0}
      /\ s = [ring |-> s.ring, cap |-> s.cap, head |-> s.head, tail |-> s.tail]
  BY CapType
<1>2. /\ Count(s) = (IF 0 <= n THEN n - 0 ELSE n + c - 0)
      /\ \A i \in 0..c - 1 : At(s, i) = g[Slot(s, i)]
  <2>1. s.cap \in Nat \ {0} /\ s.head \in 0..s.cap - 1 /\ s.tail \in 0..s.cap - 1
    BY <1>1
  <2>2. Count(s) = IF s.head <= s.tail THEN s.tail - s.head
                                      ELSE s.tail + s.cap - s.head
    BY <2>1, Plain
  <2>3. \A i \in 0..s.cap - 1 : At(s, i) = s.ring[Slot(s, i)]
    BY <2>1, Plain
  <2>4. QED  BY <1>1, <2>2, <2>3
<1>3. Count(s) = n
  BY <1>2
<1>4. ASSUME NEW i \in 0..n - 1 PROVE At(s, i) = g[i]
  <2>1. i \in 0..c - 1 /\ Slot(s, i) = i
    BY <1>1 DEF Slot
  <2>2. QED  BY <1>2, <2>1
<1>5. Ring(s)
  <2>1. \A i \in 0..Count(s) - 1 : At(s, i) \in Handlers
    BY <1>3, <1>4
  <2>2. s.head \in 0..s.cap - 1 /\ s.tail \in 0..s.cap - 1
    BY <1>1
  <2>3. QED  BY <1>1, <2>1, <2>2 DEF Ring
<1>6. QED  BY <1>3, <1>4, <1>5

\* Growth changes nothing that can be seen and leaves room.
LEMMA GrowSame ==
    ASSUME NEW r, Ring(r), r.cap < CapMax
    PROVE  /\ Ring(Grow(r)) /\ Count(Grow(r)) = Count(r)
           /\ \A i \in 0..Count(r) - 1 : At(Grow(r), i) = At(r, i)
           /\ After(Grow(r), Grow(r).tail) # Grow(r).head
<1>0. PICK c, n, s : c = r.cap /\ n = Count(r) /\ s = Grow(r)
  OBVIOUS
<1>1. c \in Nat \ {0} /\ n \in 0..c - 1 /\ c \in Cap0..2 * CapMax
  BY <1>0, RingPlain DEF Ring
<1>2. \A i \in 0..n - 1 : At(r, i) \in Handlers
  BY <1>0 DEF Ring
<1>3. PICK g : g = [i \in 0..2 * c - 1 |-> IF i < n THEN At(r, i) ELSE Null]
  OBVIOUS
<1>4. s = [ring |-> g, cap |-> 2 * c, head |-> 0, tail |-> n]
  BY <1>0, <1>3 DEF Grow
<1>5. ASSUME NEW i \in 0..n - 1 PROVE g[i] = At(r, i)
  BY <1>1, <1>3
<1>6. g \in [0..2 * c - 1 -> Handlers \cup {Null}]
  BY <1>1, <1>2, <1>3
<1>7. PICK d : d = 2 * c
  OBVIOUS
<1>8. d \in Cap0..2 * CapMax /\ n \in 0..d - 1 /\ n # d - 1
  BY <1>0, <1>1, <1>7, CapType
<1>9. Ring(s) /\ Count(s) = n /\ \A i \in 0..n - 1 : At(s, i) = g[i]
  BY <1>2, <1>4, <1>5, <1>6, <1>7, <1>8, Packed
<1>10. After(s, s.tail) # s.head
  <2>1. s.cap = d
    BY <1>4, <1>7
  <2>2. QED  BY <1>8, <1>9, <2>1, HeadMeetsTail
<1>11. QED  BY <1>0, <1>5, <1>9, <1>10

\* A cleared ring is empty, whatever its slots still hold.
LEMMA ClearedEmpty ==
    ASSUME NEW r, Ring(r)
    PROVE  Ring([r EXCEPT !.head = 0, !.tail = 0]) /\ Count([r EXCEPT !.head = 0, !.tail = 0]) = 0
<1>1. PICK s : s = [r EXCEPT !.head = 0, !.tail = 0]
  OBVIOUS
<1>2. s = [ring |-> r.ring, cap |-> r.cap, head |-> 0, tail |-> 0]
  BY <1>1 DEF Ring
<1>3. r.cap \in Cap0..2 * CapMax /\ r.ring \in [0..r.cap - 1 -> Handlers \cup {Null}]
  BY DEF Ring
<1>4. r.cap \in Nat \ {0}
  BY <1>3, CapType
<1>5. 0 \in 0..r.cap - 1 /\ \A i \in 0..0 - 1 : r.ring[i] \in Handlers
  BY <1>4
<1>6. Ring(s) /\ Count(s) = 0
  BY <1>2, <1>3, <1>5, Packed
<1>7. QED  BY <1>1, <1>6

----------------------------------------------------------------------------
\* What a step does to the queue, in terms of Count and At.
Accepted(fn) ==
    /\ Count(q') = Count(q) + 1
    /\ \A i \in 0..Count(q) - 1 : At(q', i) = At(q, i)
    /\ At(q', Count(q)) = fn
    /\ answer' = "accepted"

Refused == q' = q /\ Count(q) >= Cap0 - 1 /\ answer' = "refused"

TookFirst ==
    /\ Count(q) > 0 /\ answer' = At(q, 0)
    /\ Count(q') = Count(q) - 1
    /\ \A i \in 0..Count(q) - 2 : At(q', i) = At(q, i + 1)

TookNone == q' = q /\ Count(q) = 0 /\ answer' = Null

Emptied == Count(q') = 0 /\ answer' = Null

\* The queue starts as an empty ring.
LEMMA InitEffect == InitRing => Ring(q) /\ Count(q) = 0
<1> SUFFICES ASSUME InitRing PROVE Ring(q) /\ Count(q) = 0
  OBVIOUS
<1>1. PICK g : g = [i \in 0..Cap0 - 1 |-> Null]
  OBVIOUS
<1>2. q = [ring |-> g, cap |-> Cap0, head |-> 0, tail |-> 0]
  BY <1>1 DEF InitRing
<1>3. Cap0 \in Cap0..2 * CapMax /\ 0 \in 0..Cap0 - 1
  BY CapType
<1>4. g \in [0..Cap0 - 1 -> Handlers \cup {Null}]
  BY <1>1
<1>5. \A i \in 0..0 - 1 : g[i] \in Handlers
  OBVIOUS
<1>6. QED  BY <1>2, <1>3, <1>4, <1>5, Packed

\* zan_dispatch_post, grown or not, accepts at the end or refuses.
LEMMA PostEffect ==
    ASSUME Ring(q), NEW fn \in Handlers, Post(fn)
    PROVE  Ring(q') /\ (Accepted(fn) \/ Refused)
<1>1. PICK r \in Rings :
        /\ q' = IF After(r, r.tail) = r.head THEN r ELSE Put(r, fn)
        /\ answer' = IF After(r, r.tail) = r.head THEN "refused" ELSE "accepted"
  BY DEF Post, Put
<1>2. /\ Ring(r) /\ Count(r) = Count(q)
      /\ \A i \in 0..Count(q) - 1 : At(r, i) = At(q, i)
      /\ After(r, r.tail) = r.head => r = q
  <2>1. CASE r = q
    BY <2>1
  <2>2. CASE r = Grow(q) /\ q.cap < CapMax
    BY <2>2, GrowSame
  <2>3. QED  BY <1>1, <2>1, <2>2 DEF Rings
<1>3. CASE After(r, r.tail) = r.head
  <2>1. r = q /\ q' = q /\ answer' = "refused"
    BY <1>1, <1>2, <1>3
  <2>2. Count(q) = q.cap - 1
    BY <1>3, <2>1, HeadMeetsTail
  <2>3. q.cap \in Int /\ q.cap >= Cap0
    BY CapType DEF Ring
  <2>4. QED  BY <2>1, <2>2, <2>3, CapType DEF Refused
<1>4. CASE After(r, r.tail) # r.head
  <2>1. q' = Put(r, fn) /\ answer' = "accepted"
    BY <1>1, <1>4
  <2>2. /\ Ring(Put(r, fn)) /\ Count(Put(r, fn)) = Count(r) + 1
        /\ \A i \in 0..Count(r) - 1 : At(Put(r, fn), i) = At(r, i)
        /\ At(Put(r, fn), Count(r)) = fn
    BY <1>2, <1>4, PutLast
  <2>3. QED  BY <1>2, <2>1, <2>2 DEF Accepted
<1>5. QED  BY <1>3, <1>4

\* zan_dispatch_take answers the first, or nothing when there is none.
LEMMA TakeEffect ==
    ASSUME Ring(q), Take
    PROVE  Ring(q') /\ (TookFirst \/ TookNone)
<1>1. CASE q.head # q.tail
  <2>1. answer' = q.ring[q.head] /\ q' = Taken(q)
    BY <1>1 DEF Take, Taken
  <2>2. /\ Ring(Taken(q)) /\ Count(Taken(q)) = Count(q) - 1 /\ Count(q) > 0
        /\ \A i \in 0..Count(q) - 2 : At(Taken(q), i) = At(q, i + 1)
        /\ At(q, 0) = q.ring[q.head]
    BY <1>1, TakenFirst
  <2>3. QED  BY <2>1, <2>2 DEF TookFirst
<1>2. CASE q.head = q.tail
  BY <1>2, HeadMeetsTail DEF Take, TookNone
<1>3. QED  BY <1>1, <1>2

\* zan_dispatch_clear empties the ring.
LEMMA ClearEffect ==
    ASSUME Ring(q), Clear
    PROVE  Ring(q') /\ Emptied
BY ClearedEmpty DEF Clear, Emptied

\* What is proved of the ring implies its type invariant.
LEMMA RingIsOK == Ring(q) => RingOK
BY DEF Ring, RingOK

----------------------------------------------------------------------------
\* The queue DispatchFifo sees.
LEMMA WaitingSeq ==
    ASSUME NEW r, Ring(r), NEW w, w = [i \in 1..Count(r) |-> At(r, i - 1)]
    PROVE  /\ w \in Seq(Handlers) /\ Len(w) = Count(r)
           /\ \A i \in 1..Count(r) : w[i] = At(r, i - 1)
<1>1. PICK n : n = Count(r)
  OBVIOUS
<1>2. n \in Nat
  BY <1>1, RingPlain
<1>3. \A i \in 1..n : At(r, i - 1) \in Handlers
  BY <1>1, <1>2 DEF Ring
<1>4. w \in [1..n -> Handlers]
  BY <1>1, <1>3
<1>5. w \in Seq(Handlers)
  BY <1>2, <1>4, SeqDef
<1>6. Len(w) = n
  <2>1. DOMAIN w = 1..Len(w) /\ Len(w) \in Nat
    BY <1>5, LenProperties
  <2>2. DOMAIN w = 1..n
    BY <1>1
  <2>3. PICK m \in Nat : m = Len(w)
    BY <2>1
  <2>4. 1..m = 1..n
    BY <2>1, <2>2, <2>3
  <2>5. (m > 0 => m \in 1..m) /\ (n > 0 => n \in 1..n)
    BY <1>2
  <2>6. (m > 0 => m <= n) /\ (n > 0 => n <= m)
    BY <1>2, <2>4, <2>5
  <2>7. m = n
    BY <1>2, <2>6
  <2>8. QED  BY <2>3, <2>7
<1>7. QED  BY <1>1, <1>5, <1>6

\* Accepting is Accept of the abstract queue.
LEMMA AcceptedIsAccept ==
    ASSUME Ring(q), Ring(q'), NEW fn \in Handlers, Accepted(fn)
    PROVE  Fifo!Accept(fn)
<1>1. PICK w, v : w = [i \in 1..Count(q) |-> At(q, i - 1)]
                  /\ v = [i \in 1..Count(q') |-> At(q', i - 1)]
  OBVIOUS
<1>2. /\ w \in Seq(Handlers) /\ Len(w) = Count(q)
      /\ \A i \in 1..Count(q) : w[i] = At(q, i - 1)
  BY <1>1, WaitingSeq
<1>3. /\ v \in Seq(Handlers) /\ Len(v) = Count(q')
      /\ \A i \in 1..Count(q') : v[i] = At(q', i - 1)
  BY <1>1, WaitingSeq
<1>4. /\ Append(w, fn) \in Seq(Handlers) /\ Len(Append(w, fn)) = Len(w) + 1
      /\ \A i \in 1..Len(w) : Append(w, fn)[i] = w[i]
      /\ Append(w, fn)[Len(w) + 1] = fn
  BY <1>2, AppendProperties
<1>5. PICK n \in Nat : n = Count(q)
  BY RingPlain
<1>6. Count(q') = n + 1 /\ At(q', n) = fn /\ \A i \in 0..n - 1 : At(q', i) = At(q, i)
  BY <1>5 DEF Accepted
<1>7. ASSUME NEW i \in 1..Len(v) PROVE v[i] = Append(w, fn)[i]
  <2>1. CASE i \in 1..n
    <3>1. i - 1 \in 0..n - 1 /\ i \in 1..Len(v)
      BY <2>1, <1>5
    <3>2. v[i] = At(q, i - 1) /\ w[i] = At(q, i - 1)
      BY <1>2, <1>3, <1>5, <1>6, <2>1, <3>1
    <3>3. QED  BY <1>2, <1>4, <1>5, <2>1, <3>2
  <2>2. CASE i = n + 1
    <3>1. v[n + 1] = At(q', (n + 1) - 1) /\ (n + 1) - 1 = n
      BY <1>3, <1>5, <1>6
    <3>2. Append(w, fn)[n + 1] = fn
      BY <1>2, <1>4, <1>5
    <3>3. v[n + 1] = fn
      BY <1>6, <3>1
    <3>4. QED  BY <2>2, <3>2, <3>3
  <2>3. i \in 1..n \/ i = n + 1
    <3>1. Len(v) = n + 1
      BY <1>3, <1>6
    <3>2. QED  BY <1>5, <3>1
  <2>4. QED  BY <2>1, <2>2, <2>3
<1>8. v = Append(w, fn)
  <2>1. Len(v) = Len(Append(w, fn))
    BY <1>2, <1>3, <1>4, <1>5, <1>6
  <2>2. QED  BY <1>3, <1>4, <1>7, <2>1, SeqEqual
<1>9. QED  BY <1>1, <1>8 DEF Fifo!Accept, Waiting, Accepted

\* Taking the first is Take of the abstract queue.
LEMMA TookFirstIsTake ==
    ASSUME Ring(q), Ring(q'), TookFirst
    PROVE  Fifo!Take
<1>1. PICK w, v : w = [i \in 1..Count(q) |-> At(q, i - 1)]
                  /\ v = [i \in 1..Count(q') |-> At(q', i - 1)]
  OBVIOUS
<1>2. /\ w \in Seq(Handlers) /\ Len(w) = Count(q)
      /\ \A i \in 1..Count(q) : w[i] = At(q, i - 1)
  BY <1>1, WaitingSeq
<1>3. /\ v \in Seq(Handlers) /\ Len(v) = Count(q')
      /\ \A i \in 1..Count(q') : v[i] = At(q', i - 1)
  BY <1>1, WaitingSeq
<1>4. PICK n \in Nat : n = Count(q)
  BY RingPlain
<1>5. n > 0 /\ Count(q') = n - 1 /\ answer' = At(q, 0)
      /\ \A i \in 0..n - 2 : At(q', i) = At(q, i + 1)
  BY <1>4 DEF TookFirst
<1>6. w # <<>>
  BY <1>2, <1>4, <1>5, EmptySeq
<1>7. /\ Tail(w) \in Seq(Handlers) /\ Len(Tail(w)) = Len(w) - 1
      /\ \A i \in 1..Len(Tail(w)) : Tail(w)[i] = w[i + 1]
  BY <1>2, <1>6, HeadTailProperties
<1>8. ASSUME NEW i \in 1..Len(v) PROVE v[i] = Tail(w)[i]
  <2>1. /\ i \in 1..n - 1 /\ i - 1 \in 0..n - 2 /\ i + 1 \in 1..n
        /\ (i - 1) + 1 = i /\ (i + 1) - 1 = i
    BY <1>3, <1>4, <1>5
  <2>2. v[i] = At(q', i - 1) /\ At(q', i - 1) = At(q, i)
    BY <1>3, <1>5, <2>1
  <2>3. w[i + 1] = At(q, i)
    BY <1>2, <1>4, <2>1
  <2>4. Tail(w)[i] = w[i + 1]
    BY <1>2, <1>4, <1>7, <2>1
  <2>5. QED  BY <2>2, <2>3, <2>4
<1>9. v = Tail(w)
  <2>1. Len(v) = Len(Tail(w))
    BY <1>2, <1>3, <1>4, <1>5, <1>7
  <2>2. QED  BY <1>3, <1>7, <1>8, <2>1, SeqEqual
<1>10. Head(w) = answer'
  BY <1>2, <1>4, <1>5, <1>6
<1>11. QED  BY <1>1, <1>6, <1>9, <1>10 DEF Fifo!Take, Waiting

\* An empty ring maps to the empty sequence.
LEMMA EmptyWaiting ==
    ASSUME NEW r, Ring(r), Count(r) = 0
    PROVE  [i \in 1..Count(r) |-> At(r, i - 1)] = <<>>
<1>1. PICK w : w = [i \in 1..Count(r) |-> At(r, i - 1)]
  OBVIOUS
<1>2. w \in Seq(Handlers) /\ Len(w) = 0
  BY <1>1, WaitingSeq
<1>3. w = <<>>
  BY <1>2, EmptySeq
<1>4. QED  BY <1>1, <1>3

----------------------------------------------------------------------------
\* The inductive form of the type invariant: the ring is a record.
Typed == Ring(q) /\ TypeOK

\* What is taken is a handler, and it is what the call answers.
LEMMA TookIsHandler ==
    ASSUME Ring(q), TookFirst
    PROVE  At(q, 0) \in Handlers /\ answer' = At(q, 0)
<1>1. Count(q) > 0 /\ Count(q) \in Nat
  BY RingPlain DEF TookFirst
<1>2. 0 \in 0..Count(q) - 1
  BY <1>1
<1>3. QED  BY <1>2 DEF Ring, TookFirst

\* Dropping every queued handler leaves each with a place.
LEMMA DroppedPosts ==
    ASSUME TypeOK
    PROVE  Dropped \in [Handlers -> Posts]
BY DEF TypeOK, Dropped, Posts

\* Every step of the windows keeps the types and the ring.
LEMMA TypedStep == Typed /\ [Next]_vars => Typed'
<1> SUFFICES ASSUME Typed, [Next]_vars PROVE Typed'
  OBVIOUS
<1>0. /\ Ring(q) /\ TypeOK /\ win \in [Windows -> Stages]
      /\ post \in [Handlers -> Posts] /\ ranBy \in [Handlers -> Windows \cup {Null}]
  BY DEF Typed, TypeOK
<1> DEFINE Others == /\ win' \in [Windows -> Stages]
                     /\ post' \in [Handlers -> Posts]
                     /\ ranBy' \in [Handlers -> Windows \cup {Null}]
<1>a. Ring(q') /\ Others => Typed'
  <2>1. Ring(q') => RingOK'
    BY DEF Ring, RingOK
  <2>2. QED  BY <2>1 DEF Typed, TypeOK, Ring
<1>1. ASSUME NEW w \in Windows, Open(w) PROVE Ring(q') /\ Others
  <2>1. Ring(q')
    BY <1>0, <1>1, ClearEffect DEF Open
  <2>2. win' = [win EXCEPT ![w] = "open"] /\ post' = Dropped /\ ranBy' = ranBy
    BY <1>1 DEF Open
  <2>3. QED  BY <1>0, <2>1, <2>2, DroppedPosts DEF Stages
<1>2. ASSUME NEW w \in Windows, DrainOne(w) PROVE Ring(q') /\ Others
  <2>1. Ring(q') /\ (TookFirst \/ TookNone)
    BY <1>0, <1>2, TakeEffect DEF DrainOne
  <2>2. TookFirst
    BY <1>2, <2>1 DEF DrainOne, TookNone
  <2>3. answer' \in Handlers
    BY <1>0, <2>2, TookIsHandler
  <2>4. /\ post' = [post EXCEPT ![answer'] = "ran"]
        /\ ranBy' = [ranBy EXCEPT ![answer'] = w] /\ win' = win
    BY <1>2 DEF DrainOne
  <2>5. QED  BY <1>0, <2>1, <2>3, <2>4 DEF Posts
<1>3. ASSUME NEW w \in Windows, Stop(w) PROVE Ring(q') /\ Others
  <2>1. win' = [win EXCEPT ![w] = "stopping"] /\ UNCHANGED <<q, post, ranBy>>
    BY <1>3 DEF Stop
  <2>2. QED  BY <1>0, <2>1 DEF Stages
<1>4. ASSUME NEW w \in Windows, StopClear(w) PROVE Ring(q') /\ Others
  <2>1. Ring(q')
    BY <1>0, <1>4, ClearEffect DEF StopClear
  <2>2. win' = [win EXCEPT ![w] = "closed"] /\ post' = Dropped /\ ranBy' = ranBy
    BY <1>4 DEF StopClear
  <2>3. QED  BY <1>0, <2>1, <2>2, DroppedPosts DEF Stages
<1>5. ASSUME NEW h \in Handlers, Ask(h) PROVE Ring(q') /\ Others
  BY <1>0, <1>5 DEF Ask, Posts
<1>6. ASSUME NEW h \in Handlers, Enqueue(h) PROVE Ring(q') /\ Others
  <2>1. Ring(q')
    BY <1>0, <1>6, PostEffect DEF Enqueue
  <2>2. /\ post' \in {[post EXCEPT ![h] = "queued"], [post EXCEPT ![h] = "refused"]}
        /\ UNCHANGED <<win, ranBy>>
    BY <1>6 DEF Enqueue
  <2>3. QED  BY <1>0, <2>1, <2>2 DEF Posts
<1>7. CASE UNCHANGED vars
  BY <1>0, <1>7, <1>a DEF vars
<1> HIDE DEF Others
<1>8. QED  BY <1>a, <1>1, <1>2, <1>3, <1>4, <1>5, <1>6, <1>7 DEF Next

\* So does the start.
LEMMA TypedInit == Init => Typed
<1> SUFFICES ASSUME Init PROVE Typed
  OBVIOUS
<1>1. Ring(q)
  BY InitEffect DEF Init
<1>2. win \in [Windows -> Stages] /\ post \in [Handlers -> Posts]
      /\ ranBy \in [Handlers -> Windows \cup {Null}]
  BY DEF Init, Stages, Posts
<1>3. QED  BY <1>1, <1>2, RingIsOK DEF Typed, TypeOK

\* The types and the shape of the ring are inductive.
THEOREM AlwaysTyped == Spec => []Typed
BY TypedInit, TypedStep, PTL DEF Spec

\* dispatch_post, dispatch_take, dispatch_clear: head and tail stay inside the
\* ring, and no slot between them is one that malloc left unset.
THEOREM TypeCorrect == Spec => []TypeOK
BY AlwaysTyped, PTL DEF Typed

\* The ring that doubles is a first-in first-out queue, for any sizes: neither
\* the wrap-around nor a growth loses or reorders a handler, and a post is
\* refused only when the smallest ring would be full.
THEOREM FifoIsImplemented == Spec => ImplementsFifo
<1>1. Init => Fifo!Init
  <2> SUFFICES ASSUME Init PROVE Fifo!Init
    OBVIOUS
  <2>1. Ring(q) /\ Count(q) = 0 /\ answer = Null
    BY InitEffect DEF Init, InitRing
  <2>2. QED  BY <2>1, EmptyWaiting DEF Fifo!Init, Waiting
<1>2. Typed /\ Typed' /\ [Next]_vars => [Fifo!Next]_<<Waiting, answer>>
  <2> SUFFICES ASSUME Typed, Typed', [Next]_vars
               PROVE  Fifo!Next \/ UNCHANGED <<Waiting, answer>>
    OBVIOUS
  <2>0. Ring(q) /\ Ring(q')
    BY DEF Typed, Ring
  <2> DEFINE Goal == Fifo!Next \/ UNCHANGED <<Waiting, answer>>
  <2>a. ASSUME NEW fn \in Handlers, Accepted(fn) PROVE Goal
    BY <2>0, <2>a, AcceptedIsAccept DEF Fifo!Next
  <2>b. ASSUME Refused PROVE Goal
    <3>1. UNCHANGED Waiting
      BY <2>b DEF Refused, Waiting, Count, At
    <3>2. Len(Waiting) = Count(q)
      BY <2>0, WaitingSeq DEF Waiting
    <3>3. QED  BY <2>b, <3>1, <3>2 DEF Refused, Fifo!Next, Fifo!Refuse
  <2>c. ASSUME TookFirst PROVE Goal
    BY <2>0, <2>c, TookFirstIsTake DEF Fifo!Next
  <2>d. ASSUME TookNone PROVE Goal
    <3>1. UNCHANGED Waiting
      BY <2>d DEF TookNone, Waiting, Count, At
    <3>2. Waiting = <<>>
      BY <2>0, <2>d, EmptyWaiting DEF Waiting, TookNone
    <3>3. QED  BY <2>d, <3>1, <3>2 DEF TookNone, Fifo!Next, Fifo!Take
  <2>e. ASSUME Emptied PROVE Goal
    <3>1. Waiting' = <<>>
      BY <2>0, <2>e, EmptyWaiting DEF Waiting, Emptied
    <3>2. QED  BY <2>e, <3>1 DEF Emptied, Fifo!Next, Fifo!Clear
  <2>f. ASSUME UNCHANGED <<q, answer>> PROVE Goal
    BY <2>f DEF Waiting, Count, At
  <2> HIDE DEF Goal
  <2>1. ASSUME NEW w \in Windows, Open(w) \/ StopClear(w) PROVE Goal
    BY <2>0, <2>1, <2>e, ClearEffect DEF Open, StopClear
  <2>2. ASSUME NEW w \in Windows, DrainOne(w) PROVE Goal
    BY <2>0, <2>2, <2>c, <2>d, TakeEffect DEF DrainOne
  <2>3. ASSUME NEW w \in Windows, Stop(w) PROVE Goal
    BY <2>3, <2>f DEF Stop
  <2>4. ASSUME NEW h \in Handlers, Ask(h) PROVE Goal
    BY <2>4, <2>f DEF Ask
  <2>5. ASSUME NEW h \in Handlers, Enqueue(h) PROVE Goal
    BY <2>0, <2>5, <2>a, <2>b, PostEffect DEF Enqueue
  <2>6. ASSUME UNCHANGED vars PROVE Goal
    BY <2>6, <2>f DEF vars
  <2>7. Goal
    BY <2>1, <2>2, <2>3, <2>4, <2>5, <2>6 DEF Next
  <2>8. QED  BY <2>7 DEF Goal
<1>3. QED  BY <1>1, <1>2, AlwaysTyped, PTL DEF Spec, ImplementsFifo, Fifo!Spec

----------------------------------------------------------------------------
\* HoldsTheWaiting of one ring and one set of handlers.
Holds(r, S) ==
    /\ {At(r, i) : i \in 0..Count(r) - 1} = S
    /\ \A i, j \in 0..Count(r) - 1 : At(r, i) = At(r, j) => i = j

\* A ring that holds S each once and accepts fn holds S and fn.
LEMMA AcceptHolds ==
    ASSUME NEW S, NEW fn, fn \notin S, Ring(q), Holds(q, S), Accepted(fn)
    PROVE  Holds(q', S \cup {fn})
<1>1. PICK n \in Nat : n = Count(q)
  BY RingPlain
<1>2. /\ Count(q') = n + 1 /\ At(q', n) = fn
      /\ \A i \in 0..n - 1 : At(q', i) = At(q, i)
  BY <1>1 DEF Accepted
<1>3. /\ {At(q, i) : i \in 0..n - 1} = S
      /\ \A i, j \in 0..n - 1 : At(q, i) = At(q, j) => i = j
  BY <1>1 DEF Holds
<1>4. 0..Count(q') - 1 = 0..n /\ 0..n = (0..n - 1) \cup {n}
  BY <1>2
<1>5. {At(q', i) : i \in 0..n} = S \cup {fn}
  <2>1. ASSUME NEW i \in 0..n PROVE At(q', i) \in S \cup {fn}
    BY <1>2, <1>3, <1>4
  <2>2. ASSUME NEW x \in S \cup {fn} PROVE \E i \in 0..n : x = At(q', i)
    BY <1>2, <1>3, <1>4
  <2>3. QED  BY <2>1, <2>2
<1>6. ASSUME NEW i \in 0..n, NEW j \in 0..n, At(q', i) = At(q', j) PROVE i = j
  BY <1>2, <1>3, <1>4, <1>6
<1>7. QED  BY <1>4, <1>5, <1>6 DEF Holds

\* A ring that holds S each once holds S without the first after a take.
LEMMA TakeHolds ==
    ASSUME NEW S, Ring(q), Holds(q, S), TookFirst
    PROVE  Holds(q', S \ {At(q, 0)})
<1>1. PICK n \in Nat : n = Count(q)
  BY RingPlain
<1>2. /\ n > 0 /\ Count(q') = n - 1
      /\ \A i \in 0..n - 2 : At(q', i) = At(q, i + 1)
  BY <1>1 DEF TookFirst
<1>3. /\ {At(q, i) : i \in 0..n - 1} = S
      /\ \A i, j \in 0..n - 1 : At(q, i) = At(q, j) => i = j
  BY <1>1 DEF Holds
<1>4. 0..Count(q') - 1 = 0..n - 2
  BY <1>1, <1>2
<1>5. {At(q', i) : i \in 0..n - 2} = S \ {At(q, 0)}
  <2>1. ASSUME NEW i \in 0..n - 2 PROVE At(q', i) \in S \ {At(q, 0)}
    <3>1. i + 1 \in 0..n - 1 /\ 0 \in 0..n - 1 /\ i + 1 # 0
      BY <1>1, <1>2
    <3>2. At(q, i + 1) \in S /\ At(q, i + 1) # At(q, 0)
      BY <1>3, <3>1
    <3>3. QED  BY <1>2, <3>2
  <2>2. ASSUME NEW x \in S \ {At(q, 0)} PROVE \E i \in 0..n - 2 : x = At(q', i)
    <3>1. PICK k \in 0..n - 1 : x = At(q, k)
      BY <1>3
    <3>2. k # 0
      BY <3>1
    <3>3. k - 1 \in 0..n - 2 /\ (k - 1) + 1 = k
      BY <1>1, <3>2
    <3>4. At(q', k - 1) = At(q, k)
      BY <1>2, <3>3
    <3>5. QED  BY <3>1, <3>3, <3>4
  <2>3. QED  BY <2>1, <2>2
<1>6. ASSUME NEW i \in 0..n - 2, NEW j \in 0..n - 2, At(q', i) = At(q', j) PROVE i = j
  <2>1. i + 1 \in 0..n - 1 /\ j + 1 \in 0..n - 1
    BY <1>1
  <2>2. i + 1 = j + 1
    BY <1>2, <1>3, <1>6, <2>1
  <2>3. QED  BY <1>1, <2>2
<1>7. QED  BY <1>4, <1>5, <1>6 DEF Holds

\* An empty ring holds nobody.
LEMMA EmptyHolds ==
    ASSUME NEW r, Count(r) = 0
    PROVE  Holds(r, {})
<1>1. 0..Count(r) - 1 = {}
  OBVIOUS
<1>2. QED  BY <1>1 DEF Holds

\* The handlers that wait.
Queued == {h \in Handlers : post[h] = "queued"}

\* Holds is the property of the run, with the set as a parameter.
LEMMA HoldsIsHolds == HoldsTheWaiting <=> Holds(q, Queued)
BY DEF HoldsTheWaiting, Holds, Live, Queued

\* App.Post, App.StopLoop and App.DrainPosts: the ring holds exactly the
\* handlers that were accepted and neither run nor dropped, each once, through
\* growth, wrap-around and the clearing of the queue by any window.
THEOREM WaitingAreHeld == Spec => []HoldsTheWaiting
<1>1. Init => Holds(q, Queued)
  <2> SUFFICES ASSUME Init PROVE Holds(q, Queued)
    OBVIOUS
  <2>1. Count(q) = 0 /\ Queued = {}
    BY InitEffect DEF Init, Queued
  <2>2. QED  BY <2>1, EmptyHolds
<1>2. Typed /\ Holds(q, Queued) /\ [Next]_vars => Holds(q', Queued')
  <2> SUFFICES ASSUME Typed, Holds(q, Queued), [Next]_vars PROVE Holds(q', Queued')
    OBVIOUS
  <2>0. Ring(q) /\ TypeOK /\ post \in [Handlers -> Posts]
    BY DEF Typed, TypeOK
  <2>1. ASSUME NEW w \in Windows, Open(w) \/ StopClear(w) PROVE Holds(q', Queued')
    <3>1. Count(q') = 0
      BY <2>0, <2>1, ClearEffect DEF Open, StopClear, Emptied
    <3>2. Queued' = {}
      BY <2>1 DEF Open, StopClear, Dropped, Queued
    <3>3. QED  BY <3>1, <3>2, EmptyHolds
  <2>2. ASSUME NEW w \in Windows, DrainOne(w) PROVE Holds(q', Queued')
    <3>1. TookFirst
      BY <2>0, <2>2, TakeEffect DEF DrainOne, TookNone
    <3>2. At(q, 0) \in Handlers /\ answer' = At(q, 0)
      BY <2>0, <3>1, TookIsHandler
    <3>3. post' = [post EXCEPT ![At(q, 0)] = "ran"]
      BY <2>2, <3>2 DEF DrainOne
    <3>4. Queued' = Queued \ {At(q, 0)}
      BY <2>0, <3>2, <3>3 DEF Queued
    <3>5. QED  BY <2>0, <3>1, <3>4, TakeHolds
  <2>3. ASSUME NEW h \in Handlers, Enqueue(h) PROVE Holds(q', Queued')
    <3>1. h \notin Queued
      BY <2>3 DEF Enqueue, Queued
    <3>2. CASE Accepted(h)
      <4>1. post' = [post EXCEPT ![h] = "queued"]
        BY <2>3, <3>2 DEF Enqueue, Accepted
      <4>2. Queued' = Queued \cup {h}
        BY <2>0, <4>1 DEF Queued
      <4>3. QED  BY <2>0, <3>1, <3>2, <4>2, AcceptHolds
    <3>3. CASE Refused
      <4>1. post' = [post EXCEPT ![h] = "refused"] /\ q' = q
        BY <2>3, <3>3 DEF Enqueue, Refused
      <4>2. Queued' = Queued
        BY <2>0, <3>1, <4>1 DEF Queued
      <4>3. QED  BY <4>1, <4>2
    <3>4. QED  BY <2>0, <2>3, <3>2, <3>3, PostEffect DEF Enqueue
  <2>4. ASSUME NEW h \in Handlers, Ask(h) PROVE Holds(q', Queued')
    <3>1. Queued' = Queued /\ q' = q
      BY <2>0, <2>4 DEF Ask, Queued
    <3>2. QED  BY <3>1
  <2>5. ASSUME UNCHANGED <<q, post>> PROVE Holds(q', Queued')
    <3>1. Queued' = Queued /\ q' = q
      BY <2>5 DEF Queued
    <3>2. QED  BY <3>1
  <2>6. QED  BY <2>1, <2>2, <2>3, <2>4, <2>5 DEF Next, Stop, vars
<1>3. Holds(q', Queued') <=> Holds(q, Queued)'
  BY DEF Holds, Count, At
<1>4. Typed /\ Holds(q, Queued) /\ [Next]_vars => Holds(q, Queued)'
  BY <1>2, <1>3
<1>5. Spec => []Holds(q, Queued)
  BY <1>1, <1>4, AlwaysTyped, PTL DEF Spec
<1>6. QED  BY <1>5, HoldsIsHolds, PTL

----------------------------------------------------------------------------
\* One window at a time is open or being closed, and a handler on its way was
\* posted to a window that had been opened.
OneAtATime ==
    /\ \A v, w \in Windows :
          win[v] \in {"open", "stopping"} /\ win[w] \in {"open", "stopping"} => v = w
    /\ \A h \in Handlers : post[h] \in {"posting", "queued"} => win[Target[h]] # "new"

\* App.StopLoop and the constructor of App: where the windows of a program are
\* opened one after the other, clearing the shared queue never takes a handler
\* from a window that is still running.
THEOREM DroppedOnlyWithWindow ==
    ASSUME ~Together
    PROVE  Spec => []DroppedWithItsWindow
<1>1. Init => OneAtATime /\ DroppedWithItsWindow
  BY DEF Init, OneAtATime, DroppedWithItsWindow
<1>2. TypeOK /\ OneAtATime /\ DroppedWithItsWindow /\ [Next]_vars
        => OneAtATime' /\ DroppedWithItsWindow'
  <2> SUFFICES ASSUME TypeOK, OneAtATime, DroppedWithItsWindow, [Next]_vars
               PROVE  OneAtATime' /\ DroppedWithItsWindow'
    OBVIOUS
  <2>0. /\ win \in [Windows -> Stages] /\ post \in [Handlers -> Posts]
        /\ \A h \in Handlers : Target[h] \in Windows
    BY TargetType DEF TypeOK
  <2>1. ASSUME NEW w \in Windows, Open(w) PROVE OneAtATime' /\ DroppedWithItsWindow'
    <3>1. /\ win' = [win EXCEPT ![w] = "open"] /\ post' = Dropped /\ win[w] = "new"
          /\ \A v \in Windows : win[v] \notin {"open", "stopping"}
      BY <2>1 DEF Open, UiFree
    <3>2. \A h \in Handlers : post'[h] = IF post[h] = "queued" THEN "dropped" ELSE post[h]
      BY <3>1 DEF Dropped
    <3>3. \A v \in Windows : v # w => win'[v] = win[v]
      BY <2>0, <3>1
    <3>4. \A h \in Handlers : post[h] = "queued" => win[Target[h]] = "closed"
      BY <2>0, <3>1 DEF OneAtATime, Stages
    <3>5. OneAtATime'
      BY <2>0, <3>1, <3>2, <3>3 DEF OneAtATime
    <3>6. DroppedWithItsWindow'
      BY <2>0, <3>1, <3>2, <3>3, <3>4 DEF DroppedWithItsWindow
    <3>7. QED  BY <3>5, <3>6
  <2>2. ASSUME NEW w \in Windows, DrainOne(w)
        PROVE  OneAtATime' /\ DroppedWithItsWindow'
    <3>1. win' = win /\ post' = [post EXCEPT ![answer'] = "ran"]
      BY <2>2 DEF DrainOne
    <3>2. \A h \in Handlers : post'[h] = post[h] \/ post'[h] = "ran"
      BY <2>0, <3>1
    <3>3. QED  BY <3>1, <3>2 DEF OneAtATime, DroppedWithItsWindow
  <2>3. ASSUME NEW w \in Windows, Stop(w) PROVE OneAtATime' /\ DroppedWithItsWindow'
    <3>1. win' = [win EXCEPT ![w] = "stopping"] /\ win[w] = "open" /\ post' = post
      BY <2>3 DEF Stop
    <3>2. win'[w] = "stopping" /\ \A v \in Windows : v # w => win'[v] = win[v]
      BY <2>0, <3>1
    <3>3. QED  BY <2>0, <3>1, <3>2 DEF OneAtATime, DroppedWithItsWindow
  <2>4. ASSUME NEW w \in Windows, StopClear(w)
        PROVE  OneAtATime' /\ DroppedWithItsWindow'
    <3>1. /\ win' = [win EXCEPT ![w] = "closed"] /\ win[w] = "stopping"
          /\ post' = Dropped
      BY <2>4 DEF StopClear
    <3>2. \A h \in Handlers : post'[h] = IF post[h] = "queued" THEN "dropped" ELSE post[h]
      BY <3>1 DEF Dropped
    <3>3. win'[w] = "closed" /\ \A v \in Windows : v # w => win'[v] = win[v]
      BY <2>0, <3>1
    <3>4. \A h \in Handlers :
             post[h] = "queued" => Target[h] = w \/ win[Target[h]] = "closed"
      BY <2>0, <3>1 DEF OneAtATime, Stages
    <3>5. OneAtATime'
      BY <2>0, <3>1, <3>2, <3>3 DEF OneAtATime
    <3>6. DroppedWithItsWindow'
      BY <2>0, <3>1, <3>2, <3>3, <3>4 DEF DroppedWithItsWindow
    <3>7. QED  BY <3>5, <3>6
  <2>5. ASSUME NEW h \in Handlers, Ask(h) PROVE OneAtATime' /\ DroppedWithItsWindow'
    <3>1. /\ win' = win /\ win[Target[h]] # "new"
          /\ post'[h] = IF win[Target[h]] = "open" THEN "posting" ELSE "dropped"
          /\ \A g \in Handlers : g # h => post'[g] = post[g]
      BY <2>0, <2>5 DEF Ask
    <3>2. win[Target[h]] \in Stages
      BY <2>0
    <3>3. QED  BY <3>1, <3>2 DEF OneAtATime, DroppedWithItsWindow, Stages
  <2>6. ASSUME NEW h \in Handlers, Enqueue(h) PROVE OneAtATime' /\ DroppedWithItsWindow'
    <3>1. /\ win' = win /\ post[h] = "posting" /\ post'[h] \in {"queued", "refused"}
          /\ \A g \in Handlers : g # h => post'[g] = post[g]
      BY <2>0, <2>6 DEF Enqueue
    <3>2. QED  BY <3>1 DEF OneAtATime, DroppedWithItsWindow
  <2>7. CASE UNCHANGED vars
    BY <2>7 DEF vars, OneAtATime, DroppedWithItsWindow
  <2>8. QED  BY <2>1, <2>2, <2>3, <2>4, <2>5, <2>6, <2>7 DEF Next
<1>3. QED  BY <1>1, <1>2, TypeCorrect, PTL DEF Spec

----------------------------------------------------------------------------
(***************************************************************************)
(* The browser driver for any numbers of records, views and pages.  CEF    *)
(* calls into a record long after its page has closed, and views keep      *)
(* handles of records that were given to others, so the argument is about  *)
(* who calls into what: a record that says it has a page has one that is   *)
(* open and calls into it (Recorded), hence two records have two pages;    *)
(* and the handle of the owner of a page is no other view's (OneOwner).    *)
(* With these each property is kept by the steps of one page and one view. *)
(***************************************************************************)
\* What the variables hold.
Stored == [n : Nat, id : Nat]
Records ==
    [used : BOOLEAN, gone : BOOLEAN, page : Pages \cup {None},
     observed : BOOLEAN, place : Int, clip : Regions \cup {None},
     shown : {-1, 0, 1}, seq : Nat, url : Nat, policy : 0..2,
     popup : Pages \cup {None}, missed : Nat,
     queue : [0..(QueueMax - 1) -> Stored],
     head : 0..(QueueMax - 1), count : 0..QueueMax, dropped : Nat, id : Nat]
Callbacks == [id : Nat, page : Pages]
Controls ==
    [handle : 0..Slots, created : BOOLEAN, page : Pages \cup {None},
     clear : BOOLEAN, seq : Nat, url : Nat, waiting : Seq(Callbacks), policy : 0..2]
States == {"none", "open", "closing", "closed"}
PageRecords ==
    [state : States, slot : 0..Slots, popup : BOOLEAN, held : Int,
     asked : BOOLEAN, place : Int, region : Int \cup {None}, shown : BOOLEAN,
     url : Nat, said : Nat, owed : SUBSET Nat, opened : Nat,
     taken : Nat, astray : SUBSET Nat, handed : Nat, blank : Nat]
CefTypeOK ==
    /\ rec \in [1..Slots -> Records]
    /\ view \in [Views -> Controls]
    /\ page \in [Pages -> PageRecords]
    /\ running \in {"down", "ready", "closing", "shut"} \cup Views

\* A page that is open calls into a record; what a record says is its page is
\* open and calls into it, and a record in use has one.
Recorded ==
    /\ \A p \in Pages : IsOpen(p) => page[p].slot \in 1..Slots
    /\ \A s \in 1..Slots : rec[s].page # None =>
          IsOpen(rec[s].page) /\ page[rec[s].page].slot = s
    /\ \A s \in 1..Slots : Alive(s) => rec[s].page # None

\* A view that made no page has no handle, and the page it made is one that was
\* opened.
Unmade ==
    \A v \in Views :
        /\ ~view[v].created => view[v].handle = 0
        /\ view[v].page # None => page[view[v].page].state # "none"

\* The handle of the owner of a page is no other's.
OneOwner ==
    \A v, w \in Views : Owner(v) /\ view[w].handle = view[v].handle => w = v

\* Where no popup is a page of its own, every open page has its record.
OwnRecord ==
    /\ \A p \in Pages : page[p].state = "none" => ~page[p].popup
    /\ Alone => \A p \in Pages : IsOpen(p) =>
          Alive(page[p].slot) /\ rec[page[p].slot].page = p

\* The page of a view in Destroy was asked to close.
AskedToGo ==
    running \in Views /\ Alive(view[running].handle) => page[PageOf(running)].asked


CefShape == CefTypeOK /\ Recorded

\* The counters of a page, and the commands it owes a reply to.
LEMMA PageNumbers ==
    ASSUME NEW g \in PageRecords
    PROVE  g.said \in Nat /\ g.url \in Nat /\ g.owed \subseteq Nat
BY DEF PageRecords

\* The i-th message of the queue of a record.
Kept(r, i) == r.queue[(r.head + i) % QueueMax]

\* Where it is, and how the places follow each other.
Where(h, i) == IF h + i < QueueMax THEN h + i ELSE h + i - QueueMax

LEMMA WhereApart ==
    ASSUME NEW h \in 0..(QueueMax - 1), NEW i \in 0..(QueueMax - 1), NEW j \in 0..(QueueMax - 1),
           i # j
    PROVE  Where(h, i) \in 0..(QueueMax - 1) \ {Where(h, j)}
BY CefAssumption DEF Where

LEMMA WhereNext ==
    ASSUME NEW h \in 0..(QueueMax - 1), NEW i \in 0..(QueueMax - 2)
    PROVE  Where(Where(h, 1), i) = Where(h, i + 1)
<1>1. QueueMax \in Nat \ {0} /\ h \in Nat /\ i \in Nat /\ h < QueueMax /\ i < QueueMax - 1
  BY CefAssumption
<1>2. CASE h + 1 < QueueMax
  BY <1>1, <1>2 DEF Where
<1>3. CASE h + 1 = QueueMax
  BY <1>1, <1>3 DEF Where
<1>4. QED  BY <1>1, <1>2, <1>3

LEMMA KeptPlain ==
    ASSUME NEW r \in Records, NEW i \in 0..QueueMax
    PROVE  Kept(r, i) = r.queue[Where(r.head, i)]
<1>1. /\ r.head + i \in 0..2 * QueueMax - 1
      /\ QueueMax \in Nat \ {0} /\ r.head \in Nat
  BY CefAssumption, SMTT(30) DEF Records
<1>2. Mod(r.head + i, QueueMax) =
          IF r.head + i < QueueMax THEN r.head + i ELSE r.head + i - QueueMax
  BY <1>1, SmallMod
<1>3. Kept(r, i) = r.queue[Mod(r.head + i, QueueMax)]
  BY DEF Kept, Mod
<1>4. QED  BY <1>2, <1>3 DEF Where

\* A message put into a queue comes last, and a full queue loses its first.
LEMMA Pushed ==
    ASSUME NEW r \in Records, NEW m \in Stored
    PROVE  /\ Push(r, m) \in Records
           /\ \A f \in {"used", "gone", "page", "observed", "place", "clip", "shown",
                        "seq", "url", "policy", "popup", "missed", "id"} :
                 Push(r, m)[f] = r[f]
           /\ r.count < QueueMax =>
                 /\ Push(r, m).count = r.count + 1 /\ Push(r, m).dropped = r.dropped
                 /\ \A i \in 0..(r.count - 1) : Kept(Push(r, m), i) = Kept(r, i)
                 /\ Kept(Push(r, m), r.count) = m
           /\ r.count = QueueMax =>
                 /\ Push(r, m).count = r.count /\ Push(r, m).dropped = r.dropped + 1
                 /\ \A i \in 0..(r.count - 2) : Kept(Push(r, m), i) = Kept(r, i + 1)
                 /\ Kept(Push(r, m), r.count - 1) = m
<1> DEFINE full == r.count = QueueMax
           h == IF full THEN (r.head + 1) % QueueMax ELSE r.head
           n == IF full THEN r.count - 1 ELSE r.count
           x == (h + n) % QueueMax
           t == Push(r, m)
<1>0. /\ QueueMax \in Nat \ {0} /\ r.head \in 0..(QueueMax - 1) /\ r.count \in 0..QueueMax
      /\ r.dropped \in Nat /\ r.queue \in [0..(QueueMax - 1) -> Stored]
  BY CefAssumption DEF Records
<1>1. h = IF full THEN Where(r.head, 1) ELSE r.head
  <2>1. r.head + 1 \in 0..2 * QueueMax - 1
    BY <1>0
  <2>2. Mod(r.head + 1, QueueMax) = Where(r.head, 1)
    BY <1>0, <2>1, SmallMod DEF Where
  <2>3. QED  BY <2>2 DEF Mod
<1>2. h \in 0..(QueueMax - 1) /\ n \in 0..(QueueMax - 1)
  BY <1>0, <1>1 DEF Where
<1>3. x = Where(h, n) /\ x \in 0..(QueueMax - 1)
  <2>1. h + n \in 0..2 * QueueMax - 1
    BY <1>0, <1>2, SMTT(30)
  <2>2. Mod(h + n, QueueMax) = Where(h, n)
    BY <1>0, <2>1, SmallMod, SMTT(30) DEF Where
  <2>3. Where(h, n) \in 0..(QueueMax - 1)
    <3> HIDE DEF h, n
    <3>1. QED  BY <1>0, <1>2 DEF Where
  <2>4. QED  BY <2>2, <2>3 DEF Mod
<1>4. /\ t.queue = [r.queue EXCEPT ![x] = m] /\ t.head = h /\ t.count = n + 1
      /\ t.dropped = IF full THEN r.dropped + 1 ELSE r.dropped
  <2>1. t = [r EXCEPT !.queue[x] = m, !.head = h, !.count = n + 1,
                      !.dropped = IF full THEN @ + 1 ELSE @]
    BY DEF Push
  <2> HIDE DEF t, x, h, n, full
  <2>2. QED  BY <2>1 DEF Records
<1>5. \A f \in {"used", "gone", "page", "observed", "place", "clip", "shown",
                "seq", "url", "policy", "popup", "missed", "id"} : t[f] = r[f]
  <2>1. t = [r EXCEPT !.queue[x] = m, !.head = h, !.count = n + 1,
                      !.dropped = IF full THEN @ + 1 ELSE @]
    BY DEF Push
  <2> HIDE DEF t, x, h, n, full
  <2>2. QED  BY <2>1 DEF Records
<1>6. t \in Records
  <2>1. t.queue \in [0..(QueueMax - 1) -> Stored]
    BY <1>0, <1>3, <1>4
  <2>2. n + 1 \in 0..QueueMax /\ t.dropped \in Nat
    <3> HIDE DEF t, n
    <3>1. QED  BY <1>0, <1>2, <1>4, SMTT(30)
  <2>3. t = [r EXCEPT !.queue = t.queue, !.head = h, !.count = n + 1, !.dropped = t.dropped]
    <3>1. t = [r EXCEPT !.queue[x] = m, !.head = h, !.count = n + 1,
                      !.dropped = IF full THEN @ + 1 ELSE @]
      BY DEF Push
    <3> HIDE DEF t, x, h, n, full
    <3>2. QED  BY <3>1, <1>4 DEF Records
  <2>4. QED
    <3> HIDE DEF t, x, h, n, full
    <3>1. QED  BY <1>2, <2>1, <2>2, <2>3 DEF Records
<1>7. \A i \in 0..QueueMax : Kept(t, i) = t.queue[Where(h, i)] /\ Kept(r, i) = r.queue[Where(r.head, i)]
  BY <1>4, <1>6, KeptPlain
<1> HIDE DEF t, x, h
<1>8. ASSUME r.count < QueueMax
      PROVE  /\ \A i \in 0..(r.count - 1) : Kept(t, i) = Kept(r, i)
             /\ Kept(t, r.count) = m
  <2>1. n = r.count /\ h = r.head
    BY <1>0, <1>1, <1>8
  <2>2. Where(h, r.count) = x
    BY <1>3, <2>1
  <2>3. ASSUME NEW i \in 0..(r.count - 1) PROVE Where(h, i) \in 0..(QueueMax - 1) \ {x}
    <3>1. PICK j \in 0..(QueueMax - 1) : j = r.count /\ i # j /\ i \in 0..(QueueMax - 1)
      BY <1>0, <1>8
    <3>2. QED  BY <1>0, <2>1, <2>2, <3>1, WhereApart
  <2>4. Kept(t, r.count) = m
    BY <1>0, <1>3, <1>4, <1>7, <2>2
  <2>5. ASSUME NEW i \in 0..(r.count - 1) PROVE Kept(t, i) = Kept(r, i)
    <3>1. i \in 0..QueueMax
      BY <1>0
    <3>2. t.queue[Where(h, i)] = r.queue[Where(h, i)]
      BY <1>0, <1>4, <2>3
    <3>3. QED  BY <1>7, <2>1, <3>1, <3>2
  <2>6. QED  BY <2>4, <2>5
<1>9. ASSUME r.count = QueueMax
      PROVE  /\ \A i \in 0..(r.count - 2) : Kept(t, i) = Kept(r, i + 1)
             /\ Kept(t, r.count - 1) = m
  <2>1. n = r.count - 1 /\ h = Where(r.head, 1)
    BY <1>0, <1>1, <1>9
  <2>2. Where(h, r.count - 1) = x
    BY <1>3, <2>1
  <2>3. ASSUME NEW i \in 0..(r.count - 2)
        PROVE  /\ Where(h, i) \in 0..(QueueMax - 1) \ {x}
               /\ Where(h, i) = Where(r.head, i + 1)
    <3>1. PICK j \in 0..(QueueMax - 1) : j = r.count - 1 /\ i # j /\ i \in 0..(QueueMax - 2)
                                       /\ i \in 0..(QueueMax - 1)
      BY <1>0, <1>9
    <3>2. Where(h, i) \in 0..(QueueMax - 1) \ {x}
      BY <1>2, <2>2, <3>1, WhereApart
    <3>3. Where(h, i) = Where(r.head, i + 1)
      BY <1>0, <2>1, <3>1, WhereNext
    <3>4. QED  BY <3>2, <3>3
  <2>4. Kept(t, r.count - 1) = m
    BY <1>0, <1>3, <1>4, <1>7, <1>9, <2>2
  <2>5. ASSUME NEW i \in 0..(r.count - 2) PROVE Kept(t, i) = Kept(r, i + 1)
    <3>1. i \in 0..QueueMax /\ i + 1 \in 0..QueueMax
      BY <1>0
    <3>2. t.queue[Where(h, i)] = r.queue[Where(r.head, i + 1)]
      BY <1>0, <1>4, <2>3
    <3>3. QED  BY <1>7, <3>1, <3>2
  <2>6. QED  BY <2>4, <2>5
<1>10. QED
  BY <1>0, <1>4, <1>5, <1>6, <1>8, <1>9 DEF t

\* A message taken was the first.
TakenOne(r) == [r EXCEPT !.queue[r.head] = NoMessage, !.count = @ - 1,
                         !.head = (@ + 1) % QueueMax]

LEMMA TookMessage ==
    ASSUME NEW r \in Records, r.count > 0
    PROVE  /\ TakenOne(r) \in Records
           /\ \A f \in {"used", "gone", "page", "observed", "place", "clip", "shown",
                        "seq", "url", "policy", "popup", "missed", "id", "dropped"} :
                 TakenOne(r)[f] = r[f]
           /\ TakenOne(r).count = r.count - 1
           /\ \A i \in 0..(r.count - 2) : Kept(TakenOne(r), i) = Kept(r, i + 1)
           /\ Kept(r, 0) = r.queue[r.head]
<1> DEFINE h == (r.head + 1) % QueueMax
           t == TakenOne(r)
<1>0. /\ QueueMax \in Nat \ {0} /\ r.head \in 0..(QueueMax - 1) /\ r.count \in 1..QueueMax
      /\ r.queue \in [0..(QueueMax - 1) -> Stored]
  BY CefAssumption DEF Records
<1>1. h = Where(r.head, 1) /\ h \in 0..(QueueMax - 1)
  <2>1. r.head + 1 \in 0..2 * QueueMax - 1
    BY <1>0
  <2>2. Mod(r.head + 1, QueueMax) = Where(r.head, 1)
    BY <1>0, <2>1, SmallMod DEF Where
  <2>3. QED  BY <1>0, <2>2 DEF Mod, Where
<1>2. t = [r EXCEPT !.queue[r.head] = NoMessage, !.count = @ - 1, !.head = h]
  BY DEF TakenOne
<1> HIDE DEF h, t
<1>3. /\ t.queue = [r.queue EXCEPT ![r.head] = NoMessage] /\ t.head = h /\ t.count = r.count - 1
      /\ \A f \in {"used", "gone", "page", "observed", "place", "clip", "shown",
                   "seq", "url", "policy", "popup", "missed", "id", "dropped"} : t[f] = r[f]
  BY <1>2 DEF Records
<1>4. t \in Records
  <2>1. /\ [r.queue EXCEPT ![r.head] = NoMessage] \in [0..(QueueMax - 1) -> Stored]
        /\ r.count - 1 \in 0..QueueMax
    BY <1>0, SMTT(30) DEF NoMessage, Stored
  <2>2. QED  BY <1>1, <1>2, <2>1 DEF Records
<1>5. \A i \in 0..QueueMax : Kept(t, i) = t.queue[Where(h, i)] /\ Kept(r, i) = r.queue[Where(r.head, i)]
  BY <1>3, <1>4, KeptPlain
<1>6. ASSUME NEW i \in 0..(r.count - 2)
      PROVE  /\ Where(h, i) \in 0..(QueueMax - 1) \ {r.head}
             /\ Where(h, i) = Where(r.head, i + 1)
  <2>1. /\ i \in 0..(QueueMax - 2) /\ i + 1 \in 0..(QueueMax - 1) /\ i + 1 # 0
        /\ 0 \in 0..(QueueMax - 1)
    BY <1>0
  <2>2. Where(h, i) = Where(r.head, i + 1)
    BY <1>0, <1>1, <2>1, WhereNext
  <2>3. Where(r.head, 0) = r.head
    BY <1>0 DEF Where
  <2>4. Where(r.head, i + 1) \in 0..(QueueMax - 1) \ {Where(r.head, 0)}
    BY <1>0, <2>1, WhereApart
  <2>5. QED  BY <2>2, <2>3, <2>4
<1>7. \A i \in 0..(r.count - 2) : Kept(t, i) = Kept(r, i + 1)
  BY <1>0, <1>3, <1>5, <1>6
<1>8. Kept(r, 0) = r.queue[r.head]
  BY <1>0, <1>5 DEF Where
<1>9. QED  BY <1>3, <1>4, <1>7, <1>8 DEF t

Distinct(s) == \A i, j \in DOMAIN s : s[i] = s[j] => i = j

\* Of the places of a list there is a first of every kind.
Ordered(n) ==
    \A T \in SUBSET (1..n) : T # {} => \E x \in T : \A y \in T : x <= y

LEMMA OrderedNext ==
    ASSUME NEW n \in Nat, Ordered(n)
    PROVE  Ordered(n + 1)
<1>1. SUFFICES ASSUME NEW T \in SUBSET (1..(n + 1)), T # {}
               PROVE  \E x \in T : \A y \in T : x <= y
  BY DEF Ordered
<1>2. \A x \in T : x \in 1..n \/ x = n + 1
  OBVIOUS
<1>3. CASE T \cap (1..n) = {}
  <2>1. \A x \in T : x = n + 1
    BY <1>2, <1>3
  <2>2. \A x, y \in T : x <= y
    BY <2>1
  <2>3. QED  BY <1>1, <2>2
<1>4. CASE T \cap (1..n) # {}
  <2>1. PICK x \in T \cap (1..n) : \A y \in T \cap (1..n) : x <= y
    BY <1>4 DEF Ordered
  <2>2. \A y \in T : x <= y
    BY <1>2, <2>1
  <2>3. QED  BY <2>1, <2>2
<1>5. QED  BY <1>3, <1>4

LEMMA OrderedLess ==
    ASSUME NEW n \in Nat, NEW k \in Nat, k <= n, Ordered(n)
    PROVE  Ordered(k)
<1>1. 1..k \subseteq 1..n
  OBVIOUS
<1>2. SUBSET (1..k) \subseteq SUBSET (1..n)
  BY <1>1
<1>3. QED  BY <1>2 DEF Ordered

\* A reply takes the first callback that waits for it out of those that wait.
LEMMA AnsweredOne ==
    ASSUME NEW w \in Seq(Callbacks), NEW id, Awaits(w, id)
    PROVE  /\ Answered(w, id) \in Seq(Callbacks) /\ Len(Answered(w, id)) = Len(w) - 1
           /\ \A j \in DOMAIN Answered(w, id) : \E i \in DOMAIN w : Answered(w, id)[j] = w[i]
           /\ Ordered(Len(w)) =>
                 /\ FirstFor(w, id) \in DOMAIN w /\ w[FirstFor(w, id)].id = id
                 /\ \A i \in DOMAIN w : w[i].id # id =>
                       \E j \in DOMAIN Answered(w, id) : Answered(w, id)[j] = w[i]
                 /\ Distinct(w) =>
                       /\ Distinct(Answered(w, id))
                       /\ \A j \in DOMAIN Answered(w, id) :
                             Answered(w, id)[j] # w[FirstFor(w, id)]
<1> DEFINE first == FirstFor(w, id)
           a == Answered(w, id)
<1>1. a = Without(w, first)
  BY DEF Answered
<1>2. Len(w) \in Nat /\ DOMAIN w = 1..Len(w) /\ \A i \in 1..Len(w) : w[i] \in Callbacks
  OBVIOUS
<1>3. Len(w) - 1 \in Nat
  BY <1>2 DEF Awaits
<1>4. Ordered(Len(w)) => first \in 1..Len(w) /\ w[first].id = id
  <2>1. SUFFICES ASSUME Ordered(Len(w)) PROVE first \in 1..Len(w) /\ w[first].id = id
    OBVIOUS
  <2>2. PICK T \in SUBSET (1..Len(w)) : \A i : i \in T <=> i \in 1..Len(w) /\ w[i].id = id
    <3>1. {i \in 1..Len(w) : w[i].id = id} \in SUBSET (1..Len(w))
      OBVIOUS
    <3>2. QED  BY <3>1
  <2>3. T # {}
    BY <1>2, <2>2 DEF Awaits
  <2>4. PICK x \in T : \A y \in T : x <= y
    BY <2>1, <2>3 DEF Ordered
  <2>5. x \in 1..Len(w) /\ w[x].id = id
    BY <2>2, <2>4
  <2>6. \A j \in 1..(x-1) : w[j].id # id
    <3>1. SUFFICES ASSUME NEW j \in 1..(x-1), w[j].id = id PROVE FALSE
      OBVIOUS
    <3>2. j \in 1..Len(w) /\ ~(x <= j)
      BY <1>2, <2>5
    <3>3. QED  BY <2>2, <2>4, <3>1, <3>2
  <2>7. \E i \in DOMAIN w : w[i].id = id /\ \A j \in 1..(i-1) : w[j].id # id
    BY <1>2, <2>5, <2>6
  <2>8. first \in DOMAIN w /\ w[first].id = id
    BY <2>7, Zenon DEF FirstFor
  <2>9. QED  BY <1>2, <2>8
<1> HIDE DEF first
<1>5. /\ DOMAIN a = 1..(Len(w) - 1)
      /\ \A k \in 1..(Len(w) - 1) : a[k] = IF k < first THEN w[k] ELSE w[k + 1]
  BY <1>1 DEF Without
<1>6. a \in Seq(Callbacks) /\ Len(a) = Len(w) - 1
  <2>1. a = [k \in 1..(Len(w) - 1) |-> a[k]]
    BY <1>1 DEF Without
  <2>2. \A k \in 1..(Len(w) - 1) : a[k] \in Callbacks
    BY <1>2, <1>5, SMTT(30)
  <2> HIDE DEF a
  <2>3. QED  BY <1>3, <2>1, <2>2
<1> HIDE DEF a
<1> DEFINE Past(k) == IF k < first THEN k ELSE k + 1
<1>7. \A k \in 1..(Len(w) - 1) : Past(k) \in 1..Len(w) /\ a[k] = w[Past(k)]
  BY <1>2, <1>5
<1>8. \A j \in DOMAIN a : \E i \in DOMAIN w : a[j] = w[i]
  <2> HIDE DEF Past
  <2>1. QED  BY <1>2, <1>5, <1>7
<1>9. ASSUME first \in 1..Len(w), w[first].id = id
      PROVE  /\ \A i \in DOMAIN w : w[i].id # id => \E j \in DOMAIN a : a[j] = w[i]
             /\ Distinct(w) => Distinct(a) /\ \A j \in DOMAIN a : a[j] # w[first]
  <2>1. /\ \A k \in 1..(Len(w) - 1) : Past(k) # first
        /\ \A j, k \in 1..(Len(w) - 1) : Past(j) = Past(k) => j = k
        /\ \A i \in 1..Len(w) : i # first => \E k \in 1..(Len(w) - 1) : Past(k) = i
    <3>1. ASSUME NEW i \in 1..Len(w), i # first PROVE \E k \in 1..(Len(w) - 1) : Past(k) = i
      <4>1. CASE i < first
        BY <1>2, <1>9, <3>1, <4>1
      <4>2. CASE i > first
        <5>1. i - 1 \in 1..(Len(w) - 1) /\ Past(i - 1) = i
          BY <1>2, <1>9, <3>1, <4>2
        <5>2. QED  BY <5>1
      <4>3. QED  BY <1>2, <1>9, <3>1, <4>1, <4>2
    <3>2. QED  BY <1>2, <1>9, <3>1
  <2> HIDE DEF Past
  <2>2. \A i \in DOMAIN w : w[i].id # id => \E j \in DOMAIN a : a[j] = w[i]
    <3>1. SUFFICES ASSUME NEW i \in DOMAIN w, w[i].id # id PROVE \E j \in DOMAIN a : a[j] = w[i]
      OBVIOUS
    <3>2. i # first /\ i \in 1..Len(w)
      BY <1>2, <1>9, <3>1
    <3>3. QED  BY <1>5, <1>7, <2>1, <3>2
  <2>3. ASSUME Distinct(w) PROVE Distinct(a) /\ \A j \in DOMAIN a : a[j] # w[first]
    <3>1. \A j \in DOMAIN a : a[j] # w[first]
      BY <1>2, <1>5, <1>7, <1>9, <2>1, <2>3 DEF Distinct
    <3>2. Distinct(a)
      <4>1. SUFFICES ASSUME NEW j \in 1..(Len(w) - 1), NEW k \in 1..(Len(w) - 1), a[j] = a[k]
                     PROVE  j = k
        BY <1>5 DEF Distinct
      <4>2. w[Past(j)] = w[Past(k)] /\ Past(j) \in DOMAIN w /\ Past(k) \in DOMAIN w
        BY <1>2, <1>7, <4>1
      <4>3. Past(j) = Past(k)
        BY <2>3, <4>2 DEF Distinct
      <4>4. QED  BY <2>1, <4>3
    <3>3. QED  BY <3>1, <3>2
  <2>4. QED  BY <2>2, <2>3
<1>10. QED  BY <1>2, <1>4, <1>6, <1>8, <1>9 DEF a, first

\* A call on a handle that is alive is a call on a record in use.
LEMMA AliveRecord ==
    ASSUME CefShape, NEW s \in 0..Slots, Alive(s)
    PROVE  /\ s \in 1..Slots /\ rec[s] \in Records
           /\ rec[s].page \in Pages /\ page[rec[s].page] \in PageRecords
           /\ IsOpen(rec[s].page) /\ page[rec[s].page].slot = s
<1>1. s \in 1..Slots
  BY CefAssumption DEF Alive
<1>2. QED  BY <1>1 DEF CefShape, CefTypeOK, Recorded, Records

\* So is a call of CEF for a page that is open.
LEMMA OpenRecord ==
    ASSUME CefShape, NEW p \in Pages, IsOpen(p)
    PROVE  /\ page[p] \in PageRecords /\ page[p].slot \in 1..Slots
           /\ rec[page[p].slot] \in Records
BY DEF CefShape, CefTypeOK, Recorded

LEMMA UnusedRecord == Unused \in Records
<1>1. [i \in 0..(QueueMax - 1) |-> NoMessage] \in [0..(QueueMax - 1) -> Stored]
  BY DEF NoMessage, Stored
<1>2. 0 \in 0..(QueueMax - 1) /\ 0 \in 0..QueueMax
  BY CefAssumption
<1>3. QED  BY <1>1, <1>2 DEF Unused, Records

\* Whether CEF announced the page or not, one reference is kept.
LEMMA HeldOnce ==
    ASSUME NEW p \in Pages, NEW told \in BOOLEAN
    PROVE  HeldAfter(Unused.page, p, told) = 1
<1>1. p # None /\ Unused.page = None
  BY CefAssumption DEF Unused
<1>2. QED  BY <1>1 DEF HeldAfter, Introduced

LEMMA UnopenedPage == Unopened \in PageRecords
BY CefAssumption DEF Unopened, PageRecords, States

LEMMA ShownRecord ==
    ASSUME NEW r \in Records, NEW g \in PageRecords, NEW n \in {0, 1}
    PROVE  /\ ShownTo(r, n) \in Records /\ PageShown(r, g, n) \in PageRecords
           /\ \A f \in {"used", "gone", "page", "observed", "place", "clip", "seq", "url",
                        "policy", "popup", "missed", "queue", "head", "count", "dropped",
                        "id"} : ShownTo(r, n)[f] = r[f]
           /\ ShownTo(r, n).shown = n
           /\ \A f \in {"state", "slot", "popup", "held", "asked", "place", "region",
                        "url", "said", "owed", "opened", "taken", "astray", "handed",
                        "blank"} : PageShown(r, g, n)[f] = g[f]
           /\ PageShown(r, g, n).shown = IF r.shown = n THEN g.shown ELSE n = 1
<1>1. PICK d : d = ShownTo(r, n) /\ d = [r EXCEPT !.shown = n]
  BY DEF ShownTo
<1>2. /\ d \in Records /\ d.shown = n
      /\ \A f \in {"used", "gone", "page", "observed", "place", "clip", "seq", "url",
                   "policy", "popup", "missed", "queue", "head", "count", "dropped",
                   "id"} : d[f] = r[f]
  BY <1>1, SMTT(30) DEF Records
<1>3. CASE r.shown = n
  BY <1>1, <1>2, <1>3, Zenon DEF PageShown
<1>4. ASSUME r.shown # n
      PROVE  /\ PageShown(r, g, n) \in PageRecords
             /\ \A f \in {"state", "slot", "popup", "held", "asked", "place", "region",
                          "url", "said", "owed", "opened", "taken", "astray", "handed",
                        "blank"} : PageShown(r, g, n)[f] = g[f]
             /\ PageShown(r, g, n).shown = (n = 1)
  <2>1. PICK e : e = PageShown(r, g, n) /\ e = [g EXCEPT !.shown = (n = 1)]
    BY <1>4 DEF PageShown
  <2>2. /\ e \in PageRecords /\ e.shown = (n = 1)
        /\ \A f \in {"state", "slot", "popup", "held", "asked", "place", "region",
                     "url", "said", "owed", "opened", "taken", "astray", "handed",
                        "blank"} : e[f] = g[f]
    <3>1. PICK b \in BOOLEAN : b = (n = 1)
      OBVIOUS
    <3>2. e = [g EXCEPT !.shown = b]
      BY <2>1, <3>1
    <3>3. e \in PageRecords
      BY <3>2, Zenon DEF PageRecords
    <3>4. e.shown = b
      BY <3>2 DEF PageRecords
    <3>5. \A f \in {"state", "slot", "popup", "held", "asked", "place", "region",
                    "url", "said", "owed", "opened", "taken", "astray", "handed",
                        "blank"} : e[f] = g[f]
      BY <3>2, SMTT(30) DEF PageRecords
    <3>6. QED  BY <3>1, <3>3, <3>4, <3>5
  <2>3. QED  BY <2>1, <2>2
<1>5. QED  BY <1>1, <1>2, <1>3, <1>4

\* What a message taken leaves on its page, and in the view that took it.
LEMMA TookPage ==
    ASSUME NEW g \in PageRecords, NEW id \in Nat, NEW b
    PROVE  /\ Took(g, id, b) \in PageRecords
           /\ \A f \in {"state", "slot", "popup", "held", "asked", "place", "region", "shown",
                        "url", "said", "owed", "opened", "handed", "blank"} :
                 Took(g, id, b)[f] = g[f]
           /\ Took(g, id, b).taken = g.taken + 1
           /\ Took(g, id, b).astray = g.astray \cup (IF b THEN {id} ELSE {})
<1>1. PICK n, m : /\ n = IF b THEN g.astray \cup {id} ELSE g.astray
                  /\ n \in SUBSET Nat /\ n = g.astray \cup (IF b THEN {id} ELSE {})
                  /\ m = g.taken + 1 /\ m \in Nat
  <2>1. PICK n, m : n = (IF b THEN g.astray \cup {id} ELSE g.astray) /\ m = g.taken + 1
    OBVIOUS
  <2>2. g.taken \in Nat /\ g.astray \in SUBSET Nat
    BY DEF PageRecords
  <2>3. n \in SUBSET Nat /\ m \in Nat
    BY <2>1, <2>2
  <2>4. n = g.astray \cup (IF b THEN {id} ELSE {})
    BY <2>1
  <2>5. QED  BY <2>1, <2>3, <2>4
<1>2. PICK d : d = [g EXCEPT !.taken = m]
  OBVIOUS
<1>3. d \in PageRecords
  BY <1>1, <1>2, Zenon DEF PageRecords
<1>4. /\ d.taken = m
      /\ \A f \in {"state", "slot", "popup", "held", "asked", "place", "region", "shown", "url",
                   "said", "owed", "opened", "astray", "handed", "blank"} : d[f] = g[f]
  BY <1>2, SMTT(30) DEF PageRecords
<1>5. PICK e : e = [d EXCEPT !.astray = n]
  OBVIOUS
<1>6. e \in PageRecords
  BY <1>1, <1>3, <1>5, Zenon DEF PageRecords
<1>7. /\ e.astray = n
      /\ \A f \in {"state", "slot", "popup", "held", "asked", "place", "region", "shown", "url",
                   "said", "owed", "opened", "taken", "handed", "blank"} : e[f] = d[f]
  BY <1>3, <1>5, SMTT(30) DEF PageRecords
<1>8. e = Took(g, id, b)
  BY <1>1, <1>2, <1>5 DEF Took
<1>9. QED  BY <1>1, <1>4, <1>6, <1>7, <1>8

\* The same, field by field.
LEMMA TookFields ==
    ASSUME NEW g \in PageRecords, NEW id \in Nat, NEW b
    PROVE  LET t == Took(g, id, b)
           IN  /\ t.state = g.state /\ t.slot = g.slot /\ t.popup = g.popup
               /\ t.held = g.held /\ t.asked = g.asked
               /\ t.said = g.said /\ t.owed = g.owed /\ t.taken = g.taken + 1
               /\ t.place = g.place /\ t.region = g.region /\ t.shown = g.shown
               /\ t.opened = g.opened /\ t.handed = g.handed /\ t.blank = g.blank
<1>1. PICK t : t = Took(g, id, b)
  OBVIOUS
<1>2. /\ t.taken = g.taken + 1
      /\ \A f \in {"state", "slot", "popup", "held", "asked", "said", "owed", "place", "region",
                   "shown", "opened", "handed", "blank"} : t[f] = g[f]
  BY <1>1, TookPage, SMTT(30)
<1>3. QED  BY <1>1, <1>2

LEMMA Takes ==
    ASSUME CefTypeOK, NEW v \in Views, TakeMessage(v), NEW h \in 1..Slots, NEW p \in Pages,
           NEW r \in Records, NEW g \in PageRecords, NEW c \in Controls,
           h = view[v].handle, r = rec[h], p = r.page, g = page[p], c = view[v]
    PROVE  \E id \in Nat, lost \in BOOLEAN :
              /\ lost = (id # 0 /\ ~Heard(c.waiting, id, p)) /\ id = Kept(r, 0).id /\ r.count > 0
              /\ rec' = [rec EXCEPT ![h] = TakenOne(r)]
              /\ view' = [view EXCEPT ![v] = [c EXCEPT !.waiting = Answered(c.waiting, id)]]
              /\ page' = [page EXCEPT ![p] = Took(g, id, lost)]
              /\ running' = running
<1>0. view \in [Views -> Controls] /\ page \in [Pages -> PageRecords]
  BY DEF CefTypeOK
<1>1. PICK id : id = r.queue[r.head].id
  OBVIOUS
<1>2. PICK lost \in BOOLEAN : lost = (id # 0 /\ ~Heard(c.waiting, id, p))
  OBVIOUS
<1>3. r = Mine(v) /\ r.count > 0
  BY DEF TakeMessage, Mine
<1>4. id = Kept(r, 0).id /\ id \in Nat
  <2>1. r.queue[r.head] \in Stored
    BY DEF Records
  <2>2. Kept(r, 0) = r.queue[r.head]
    BY <1>3, TookMessage
  <2>3. QED  BY <1>1, <2>1, <2>2 DEF Stored
<1>5. /\ rec' = [rec EXCEPT ![h] = TakenOne(r)]
      /\ view' = [view EXCEPT ![v].waiting = Answered(@, id)]
      /\ page' = [page EXCEPT ![p] = Took(@, id, lost)]
      /\ running' = running
  BY <1>1, <1>2, <1>3 DEF TakeMessage, TakenOne
<1>6. view' = [view EXCEPT ![v] = [c EXCEPT !.waiting = Answered(c.waiting, id)]]
  BY <1>0, <1>5
<1>7. page' = [page EXCEPT ![p] = Took(g, id, lost)]
  BY <1>0, <1>5
<1>8. QED  BY <1>2, <1>3, <1>4, <1>5, <1>6, <1>7

\* Every step keeps the types.
LEMMA TypedViews ==
    ASSUME CefShape, NEW v \in Views, ViewNext(v)
    PROVE  CefTypeOK'
<1> USE DEF CefShape
<1>0. /\ rec \in [1..Slots -> Records] /\ view \in [Views -> Controls]
      /\ page \in [Pages -> PageRecords] /\ view[v] \in Controls
      /\ running \in {"down", "ready", "closing", "shut"} \cup Views
      /\ view[v].handle \in 0..Slots
  BY DEF CefTypeOK, Controls
<1>a. PICK c \in Controls : c = view[v]
  BY <1>0
<1>1. CASE Create(v)
  <2>1. PICK s \in 1..Slots, p \in Pages, x \in Places, told \in BOOLEAN :
           CreateAt(v, s, p, x, told)
    BY <1>1 DEF Create
  <2>2. [Unopened EXCEPT !.state = "open", !.slot = s, !.place = x,
                         !.shown = TRUE, !.held = HeldAfter(Unused.page, p, told)] \in PageRecords
    <3>1. [Unopened EXCEPT !.state = "open", !.slot = s, !.place = x,
                           !.shown = TRUE, !.held = 1] \in PageRecords
      <4>1. PICK u \in PageRecords : u = Unopened
        BY UnopenedPage
      <4>2. s \in 0..Slots /\ x \in Int /\ 1 \in Int /\ "open" \in States
        BY CefAssumption DEF States
      <4>3. [u EXCEPT !.state = "open", !.slot = s, !.place = x, !.shown = TRUE,
                      !.held = 1] \in PageRecords
        BY <4>2, Zenon DEF PageRecords
      <4>4. QED  BY <4>1, <4>3
    <3>2. QED  BY <3>1, HeldOnce
  <2>3. [Unused EXCEPT !.used = TRUE, !.page = p, !.observed = TRUE,
                       !.place = x, !.policy = view[v].policy] \in Records
    BY <1>0, UnusedRecord, CefAssumption DEF Records, Controls
  <2>4. view' \in [Views -> Controls]
    <3>1. Unheard(v, s) \in BOOLEAN
      BY DEF Unheard
    <3>2. [view[v] EXCEPT !.created = TRUE, !.handle = s, !.page = p,
                          !.clear = Unheard(v, s)] \in Controls
      <4>1. PICK b \in BOOLEAN : b = Unheard(v, s)
        BY <3>1
      <4>2. s \in 0..Slots
        BY CefAssumption
      <4>3. [c EXCEPT !.created = TRUE, !.handle = s, !.page = p, !.clear = b] \in Controls
        BY <4>2, Zenon DEF Controls
      <4>4. QED  BY <1>a, <4>1, <4>3
    <3>3. QED  BY <1>0, <2>1, <3>2 DEF CreateAt
  <2>5. rec' \in [1..Slots -> Records] /\ page' \in [Pages -> PageRecords]
    BY <1>0, <2>1, <2>2, <2>3 DEF CreateAt
  <2>6. running' = running
    BY <1>1 DEF Create
  <2>7. QED  BY <1>0, <2>4, <2>5, <2>6 DEF CefTypeOK
<1>2. CASE CreateFails(v)
  <2>1. ASSUME rec' = rec PROVE rec' \in [1..Slots -> Records]
    BY <1>0, <2>1
  <2>3. ASSUME NEW s \in 1..Slots, rec' = [rec EXCEPT ![s] = Unused]
        PROVE  rec' \in [1..Slots -> Records]
    BY <1>0, <2>3, UnusedRecord
  <2>6. rec' = rec \/ \E s \in 1..Slots : rec' = [rec EXCEPT ![s] = Unused]
    <3>1. 1 \in 1..Slots
      BY CefAssumption
    <3>2. QED  BY <1>2, <3>1, Zenon DEF CreateFails
  <2>4. rec' \in [1..Slots -> Records]
    BY <2>1, <2>3, <2>6
  <2>2. view' \in [Views -> Controls]
    <3>1. [view[v] EXCEPT !.created = TRUE] \in Controls
      BY <1>a DEF Controls
    <3>2. QED  BY <1>0, <1>2, <3>1 DEF CreateFails
  <2>5. QED  BY <1>0, <1>2, <2>4, <2>2 DEF CreateFails, CefTypeOK
<1>3. CASE Destroy(v)
  <2>1. CASE Alive(view[v].handle)
    <3>1. PICK h : h = view[v].handle
      OBVIOUS
    <3>2. /\ h \in 1..Slots /\ rec[h] \in Records /\ rec[h].page \in Pages
          /\ page[rec[h].page] \in PageRecords
      BY <1>0, <2>1, <3>1, AliveRecord
    <3>3. /\ rec' = [rec EXCEPT ![h] = ShownTo(rec[h], 0)]
          /\ page' = [page EXCEPT ![rec[h].page] =
                         [PageShown(rec[h], page[rec[h].page], 0) EXCEPT !.asked = TRUE]]
          /\ running' = v /\ view' = view
      BY <1>3, <2>1, <3>1 DEF Destroy
    <3>4. /\ ShownTo(rec[h], 0) \in Records
          /\ PageShown(rec[h], page[rec[h].page], 0) \in PageRecords
      BY <3>2, ShownRecord
    <3>5. [PageShown(rec[h], page[rec[h].page], 0) EXCEPT !.asked = TRUE] \in PageRecords
      BY <3>4 DEF PageRecords
    <3>6. QED  BY <1>0, <3>2, <3>3, <3>4, <3>5 DEF CefTypeOK
  <2>2. CASE ~Alive(view[v].handle)
    BY <1>0, <1>3, <2>2 DEF Destroy, CefTypeOK
  <2>3. QED  BY <2>1, <2>2
<1>4. CASE Destroyed(v)
  <2>1. [view[v] EXCEPT !.handle = 0, !.created = FALSE] \in Controls
    <3>1. 0 \in 0..Slots
      BY CefAssumption
    <3>2. [c EXCEPT !.handle = 0, !.created = FALSE] \in Controls
      BY <3>1, Zenon DEF Controls
    <3>3. QED  BY <1>a, <3>2
  <2>2. QED  BY <1>0, <1>4, <2>1 DEF Destroyed, CefTypeOK
<1>5. ASSUME Reaches(v)
      PROVE  /\ view[v].handle \in 1..Slots /\ Mine(v) \in Records /\ PageOf(v) \in Pages
             /\ page[PageOf(v)] \in PageRecords
             /\ Mine(v) = rec[view[v].handle]
  BY <1>0, <1>5, AliveRecord DEF Reaches, Mine, PageOf
<1>6. ASSUME NEW x \in Places, SetBounds(v, x) PROVE CefTypeOK'
  <2>1. Moved(Mine(v), x) \in Records
    BY <1>5, <1>6, CefAssumption DEF SetBounds, Moved, Records
  <2>2. [page[PageOf(v)] EXCEPT !.place = x] \in PageRecords
    BY <1>5, <1>6, CefAssumption DEF SetBounds, PageRecords
  <2>3. QED  BY <1>0, <1>5, <1>6, <2>1, <2>2 DEF SetBounds, CefTypeOK
<1>7. ASSUME NEW k \in Regions \cup {None}, SetClip(v, k) PROVE CefTypeOK'
  <2> DEFINE r == Mine(v)
             g == page[r.page]
             built == IF k # None /\ r.clip # k
                      THEN [g EXCEPT !.region = k - r.place] ELSE g
             n == IF k = None THEN 0 ELSE 1
  <2>1. r \in Records /\ g \in PageRecords /\ n \in {0, 1} /\ r.place \in Int
    BY <1>5, <1>7 DEF SetClip, PageOf, Records
  <2>2. built \in PageRecords
    BY <2>1, CefAssumption DEF PageRecords
  <2>3. PageShown(r, built, n) \in PageRecords /\ ShownTo(r, n) \in Records
    BY <2>1, <2>2, ShownRecord
  <2>4. [ShownTo(r, n) EXCEPT !.clip = IF k = None THEN @ ELSE k] \in Records
    BY <2>3 DEF Records
  <2>5. /\ page' = [page EXCEPT ![r.page] = PageShown(r, built, n)]
        /\ rec' = [rec EXCEPT ![view[v].handle] =
                      [ShownTo(r, n) EXCEPT !.clip = IF k = None THEN @ ELSE k]]
        /\ UNCHANGED <<view, running>> /\ r.page \in Pages
    BY <1>5, <1>7 DEF SetClip, PageOf
  <2> HIDE DEF r, g, built, n
  <2>6. QED  BY <1>0, <1>5, <2>3, <2>4, <2>5 DEF CefTypeOK
<1>8. CASE Poll(v)
  <2>1. Mine(v).seq \in Nat /\ Mine(v).url \in Nat /\ PageOf(v) \in Pages
    BY <1>5, <1>8 DEF Poll, Records
  <2>4. [view[v] EXCEPT !.seq = Mine(v).seq, !.url = Mine(v).url]
           \in Controls
    BY <1>a, <2>1 DEF Controls
  <2>2. view' \in [Views -> Controls]
    BY <1>0, <1>8, <2>4 DEF Poll
  <2>3. QED  BY <1>0, <1>8, <2>2 DEF Poll, CefTypeOK
<1>9. CASE Send(v)
  <2> DEFINE id == Mine(v).id + 1
  <2>7. id \in Nat /\ Mine(v) \in Records
    BY <1>5, <1>9 DEF Send, Records
  <2>1. id \in Nat /\ [Mine(v) EXCEPT !.id = id] \in Records
    <3> HIDE DEF id
    <3>1. QED  BY <2>7 DEF Records
  <2>2. [page[PageOf(v)] EXCEPT !.owed = @ \cup {id}] \in PageRecords
    BY <1>5, <1>9, <2>1 DEF Send, PageRecords
  <2>b. PICK k \in Callbacks : k = [id |-> id, page |-> PageOf(v)]
    <3> HIDE DEF id
    <3>1. QED  BY <1>5, <1>9, <2>7 DEF Send, Callbacks
  <2>3. Append(view[v].waiting, k) \in Seq(Callbacks)
    BY <1>a DEF Controls
  <2>4. /\ rec' = [rec EXCEPT ![view[v].handle].id = id]
        /\ page' = [page EXCEPT ![PageOf(v)].owed = @ \cup {id}]
        /\ view' = [view EXCEPT ![v].waiting = Append(@, k)]
        /\ running' = running
    BY <1>9, <2>b DEF Send
  <2> HIDE DEF id
  <2>8. [view[v] EXCEPT !.waiting = Append(view[v].waiting, k)] \in Controls
    BY <1>a, <2>3 DEF Controls
  <2>5. view' \in [Views -> Controls]
    BY <1>0, <2>4, <2>8
  <2>9. rec' \in [1..Slots -> Records] /\ page' \in [Pages -> PageRecords]
    <3>1. /\ view[v].handle \in 1..Slots /\ Mine(v) = rec[view[v].handle]
          /\ PageOf(v) \in Pages
      BY <1>5, <1>9 DEF Send
    <3>2. [rec EXCEPT ![view[v].handle].id = id] =
             [rec EXCEPT ![view[v].handle] = [Mine(v) EXCEPT !.id = id]]
      BY <3>1
    <3>3. rec' \in [1..Slots -> Records]
      BY <1>0, <2>1, <2>4, <3>1, <3>2
    <3>4. page' \in [Pages -> PageRecords]
      BY <1>0, <2>2, <2>4, <3>1
    <3>5. QED  BY <3>3, <3>4
  <2>6. QED  BY <1>0, <2>4, <2>5, <2>9 DEF CefTypeOK
<1>10. CASE TakeMessage(v)
  <2>1. PICK r \in Records, g \in PageRecords, h \in 1..Slots, o \in Pages :
           h = view[v].handle /\ r = rec[h] /\ o = r.page /\ g = page[o]
    BY <1>5, <1>10 DEF TakeMessage, PageOf
  <2>2. PICK id \in Nat, b \in BOOLEAN :
           /\ rec' = [rec EXCEPT ![h] = TakenOne(r)] /\ r.count > 0
           /\ view' = [view EXCEPT ![v] = [c EXCEPT !.waiting = Answered(c.waiting, id)]]
           /\ page' = [page EXCEPT ![o] = Took(g, id, b)] /\ running' = running
    BY <1>0, <1>a, <1>10, <2>1, Takes DEF CefTypeOK
  <2>3. PICK a \in Seq(Callbacks) : a = Answered(c.waiting, id)
    <3>1. c.waiting \in Seq(Callbacks)
      BY DEF Controls
    <3>2. Awaits(c.waiting, id) => Answered(c.waiting, id) \in Seq(Callbacks)
      BY <3>1, AnsweredOne
    <3>3. ~Awaits(c.waiting, id) => Answered(c.waiting, id) = c.waiting
      BY DEF Answered
    <3>4. QED  BY <3>1, <3>2, <3>3
  <2>4. [c EXCEPT !.waiting = a] \in Controls
    BY DEF Controls
  <2>5. TakenOne(r) \in Records /\ Took(g, id, b) \in PageRecords
    BY <2>2, TookMessage, TookPage
  <2>6. QED  BY <1>0, <2>2, <2>3, <2>4, <2>5 DEF CefTypeOK
<1>11. CASE TakePopup(v)
  <2>1. [Mine(v) EXCEPT !.popup = None] \in Records
    BY <1>5, <1>11 DEF TakePopup, Records
  <2>2. [page[PageOf(v)] EXCEPT !.handed = @ + 1] \in PageRecords
    BY <1>5, <1>11 DEF TakePopup, PageRecords
  <2>3. QED  BY <1>0, <1>5, <1>11, <2>1, <2>2 DEF TakePopup, CefTypeOK
<1>12. QED
  BY <1>1, <1>2, <1>3, <1>4, <1>6, <1>7, <1>8, <1>9, <1>10, <1>11, Zenon DEF ViewNext

LEMMA HandedRecord ==
    ASSUME NEW r \in Records, NEW u \in Pages \cup {None}
    PROVE  /\ Handed(r, u) \in Records
           /\ \A f \in {"used", "gone", "page", "observed", "place", "clip", "shown", "seq",
                        "url", "policy", "queue", "head", "count", "dropped", "id"} :
                 Handed(r, u)[f] = r[f]
           /\ Handed(r, u).missed + (IF Handed(r, u).popup = None THEN 0 ELSE 1)
                 = r.missed + (IF r.popup = None THEN 0 ELSE 1)
                       + (IF r.popup = None /\ u = None THEN 0 ELSE 1)
<1>1. CASE r.popup # None
  <2>1. Handed(r, u) = [r EXCEPT !.missed = @ + 1]
    BY <1>1 DEF Handed
  <2>2. QED  BY <1>1, <2>1, SMTT(30) DEF Records
<1>2. CASE r.popup = None
  <2>1. Handed(r, u) = [r EXCEPT !.popup = u]
    BY <1>2 DEF Handed
  <2>2. QED  BY <1>2, <2>1, SMTT(30) DEF Records
<1>3. QED  BY <1>1, <1>2

\* What a popup leaves on the page that opened it.
LEMMA OpenedPage ==
    ASSUME NEW g \in PageRecords, NEW b
    PROVE  /\ Opened(g, b) \in PageRecords
           /\ \A f \in {"state", "slot", "popup", "held", "asked", "place", "region", "shown",
                        "url", "said", "owed", "taken", "astray", "handed"} :
                 Opened(g, b)[f] = g[f]
           /\ Opened(g, b).opened = g.opened + 1
           /\ Opened(g, b).blank = g.blank + (IF b THEN 1 ELSE 0)
<1>1. PICK n \in Nat, m \in Nat :
         /\ n = IF b THEN g.blank + 1 ELSE g.blank
         /\ n = g.blank + (IF b THEN 1 ELSE 0) /\ m = g.opened + 1
  BY DEF PageRecords
<1>2. PICK d : d = [g EXCEPT !.opened = m]
  OBVIOUS
<1>3. d \in PageRecords
  BY <1>2, Zenon DEF PageRecords
<1>4. /\ d.opened = m
      /\ \A f \in {"state", "slot", "popup", "held", "asked", "place", "region", "shown", "url",
                   "said", "owed", "taken", "astray", "handed", "blank"} : d[f] = g[f]
  BY <1>2, SMTT(30) DEF PageRecords
<1>5. PICK e : e = [d EXCEPT !.blank = n]
  OBVIOUS
<1>6. e \in PageRecords
  BY <1>3, <1>5, Zenon DEF PageRecords
<1>7. /\ e.blank = n
      /\ \A f \in {"state", "slot", "popup", "held", "asked", "place", "region", "shown", "url",
                   "said", "owed", "opened", "taken", "astray", "handed"} : e[f] = d[f]
  BY <1>3, <1>5, SMTT(30) DEF PageRecords
<1>8. e = Opened(g, b)
  BY <1>1, <1>2, <1>5 DEF Opened
<1>9. QED  BY <1>1, <1>4, <1>6, <1>7, <1>8

LEMMA TypedPages ==
    ASSUME CefShape, NEW p \in Pages, PageNext(p)
    PROVE  CefTypeOK'
<1> DEFINE s == page[p].slot
<1>0. /\ rec \in [1..Slots -> Records] /\ view \in [Views -> Controls]
      /\ page \in [Pages -> PageRecords] /\ page[p] \in PageRecords
      /\ running \in {"down", "ready", "closing", "shut"} \cup Views
  BY DEF CefShape, CefTypeOK
<1>a. PICK g \in PageRecords : g = page[p]
  BY <1>0
<1>1. ASSUME IsOpen(p)
      PROVE  s \in 1..Slots /\ Told(p) \in Records /\ Told(p) = rec[s]
  BY <1>1, OpenRecord DEF Told
<1> HIDE DEF s
<1>2. ASSUME NEW r \in Records, Tell(p, r), IsOpen(p) PROVE rec' \in [1..Slots -> Records]
  BY <1>0, <1>1, <1>2 DEF Tell, s
<1>3. CASE Says(p)
  <2>1. PICK id \in {0} \cup page[p].owed :
           /\ page' = [page EXCEPT ![p].said = @ + 1, ![p].owed = @ \ {id}]
           /\ Tell(p, Push(Told(p), [n |-> page[p].said + 1, id |-> id]))
    BY <1>3 DEF Says
  <2>2. IsOpen(p) /\ UNCHANGED <<view, running>>
    BY <1>3 DEF Says
  <2>3. [n |-> page[p].said + 1, id |-> id] \in Stored
    BY <1>0, PageNumbers DEF Stored
  <2>4. rec' \in [1..Slots -> Records]
    BY <1>1, <1>2, <2>1, <2>2, <2>3, Pushed
  <2>5. page' \in [Pages -> PageRecords]
    <3>1. g.said + 1 \in Nat /\ g.owed \ {id} \in SUBSET Nat
      BY DEF PageRecords
    <3>2. [g EXCEPT !.said = @ + 1, !.owed = @ \ {id}] \in PageRecords
      BY <3>1, Zenon DEF PageRecords
    <3>3. page' = [page EXCEPT ![p] = [g EXCEPT !.said = @ + 1, !.owed = @ \ {id}]]
      BY <1>0, <1>a, <2>1
    <3>4. QED  BY <1>0, <3>2, <3>3
  <2>6. QED  BY <1>0, <2>2, <2>4, <2>5 DEF CefTypeOK
<1>4. CASE Navigates(p)
  <2>1. /\ page' = [page EXCEPT ![p].url = @ + 1] /\ IsOpen(p)
        /\ Tell(p, Address(Told(p), page[p].url + 1)) /\ UNCHANGED <<view, running>>
    BY <1>4 DEF Navigates
  <2>2. PICK r \in Records, u \in Nat : r = Told(p) /\ u = page[p].url + 1
    BY <1>0, <1>1, <2>1, PageNumbers
  <2>3. r.seq + 1 \in Nat
    BY DEF Records
  <2>4. Address(r, u) \in Records
    BY <2>3, Zenon DEF Address, Records
  <2>5. [g EXCEPT !.url = @ + 1] \in PageRecords
    BY DEF PageRecords
  <2>6. page' \in [Pages -> PageRecords]
    BY <1>0, <1>a, <2>1, <2>5
  <2>7. rec' \in [1..Slots -> Records]
    BY <1>2, <2>1, <2>2, <2>4
  <2>8. QED  BY <1>0, <2>1, <2>6, <2>7 DEF CefTypeOK
<1>5. CASE OpensPopup(p)
  <2>1. IsOpen(p) /\ UNCHANGED <<view, running>>
    BY <1>5 DEF OpensPopup, IsOpen
  <2>2. PICK r \in Records : r = Told(p)
    BY <1>1, <2>1
  <2>3. [g EXCEPT !.opened = @ + 1] \in PageRecords
    BY DEF PageRecords
  <2>4. ASSUME NEW o \in Pages, page[o].state = "none",
               page' = [page EXCEPT
                   ![o] = [Unopened EXCEPT !.state = "open", !.slot = s, !.popup = TRUE,
                               !.shown = TRUE, !.held = IF r.page = None THEN 1 ELSE 0],
                   ![p].opened = @ + 1],
               Tell(p, [r EXCEPT !.page = IF @ = None THEN o ELSE @])
        PROVE  page' \in [Pages -> PageRecords] /\ rec' \in [1..Slots -> Records]
    <3>1. PICK u \in PageRecords, k \in {0, 1} : u = Unopened /\ k = IF r.page = None THEN 1 ELSE 0
      BY UnopenedPage
    <3>2. s \in 0..Slots /\ k \in Int /\ "open" \in States
      BY <1>1, <2>1, CefAssumption DEF States
    <3>3. [u EXCEPT !.state = "open", !.slot = s, !.popup = TRUE, !.shown = TRUE,
                    !.held = k] \in PageRecords
      BY <3>2, Zenon DEF PageRecords
    <3>4. o # p
      BY <2>1, <2>4 DEF IsOpen
    <3>5. page' \in [Pages -> PageRecords]
      <4>1. PICK d \in PageRecords :
               d = [Unopened EXCEPT !.state = "open", !.slot = s, !.popup = TRUE,
                        !.shown = TRUE, !.held = IF r.page = None THEN 1 ELSE 0]
        BY <3>1, <3>3
      <4>2. page' = [page EXCEPT ![o] = d, ![p] = [g EXCEPT !.opened = @ + 1]]
        BY <1>0, <1>a, <2>4, <3>4, <4>1
      <4>3. QED  BY <1>0, <2>3, <4>2
    <3>6. [r EXCEPT !.page = IF @ = None THEN o ELSE @] \in Records
      BY DEF Records
    <3>7. QED  BY <1>2, <2>1, <2>4, <3>5, <3>6
  <2>5. ASSUME page' = [page EXCEPT ![p].opened = @ + 1], UNCHANGED rec
        PROVE  page' \in [Pages -> PageRecords] /\ rec' \in [1..Slots -> Records]
    BY <1>0, <1>a, <2>3, <2>5
  <2>9. ASSUME NEW u \in {p, None}, NEW b, page' = [page EXCEPT ![p] = Opened(page[p], b)],
               Tell(p, Handed(r, u))
        PROVE  page' \in [Pages -> PageRecords] /\ rec' \in [1..Slots -> Records]
    <3>1. Opened(g, b) \in PageRecords
      BY OpenedPage
    <3>2. QED  BY <1>0, <1>2, <1>a, <2>1, <2>9, <3>1, HandedRecord
  <2>6. \/ \E o \in Pages :
              /\ page[o].state = "none"
              /\ page' = [page EXCEPT
                   ![o] = [Unopened EXCEPT !.state = "open", !.slot = s, !.popup = TRUE,
                               !.shown = TRUE, !.held = IF r.page = None THEN 1 ELSE 0],
                   ![p].opened = @ + 1]
              /\ Tell(p, [r EXCEPT !.page = IF @ = None THEN o ELSE @])
        \/ page' = [page EXCEPT ![p].opened = @ + 1] /\ UNCHANGED rec
        \/ \E u \in {p, None} :
              /\ page' = [page EXCEPT ![p] = Opened(@, r.popup = None /\ u = None)]
              /\ Tell(p, Handed(r, u))
    BY <1>5, <2>2, Zenon DEF OpensPopup, s
  <2>7. page' \in [Pages -> PageRecords] /\ rec' \in [1..Slots -> Records]
    BY <1>0, <2>4, <2>5, <2>6, <2>9
  <2>8. QED  BY <1>0, <2>1, <2>7 DEF CefTypeOK
<1>6. CASE DoClose(p)
  <2>1. [g EXCEPT !.state = "closing"] \in PageRecords
    BY DEF PageRecords, States
  <2>2. QED  BY <1>0, <1>6, <1>a, <2>1 DEF DoClose, CefTypeOK
<1>7. CASE BeforeClose(p)
  <2> DEFINE gone == [Unopened EXCEPT !.state = "closed", !.held = page[p].held,
                                      !.popup = page[p].popup]
             closed == [page EXCEPT ![p] = gone]
  <2>1. IsOpen(p) /\ UNCHANGED <<view, running>>
    BY <1>7 DEF BeforeClose, IsOpen
  <2>2. PICK r \in Records : r = Told(p)
    BY <1>1, <2>1
  <2>3. /\ Tell(p, [r EXCEPT !.gone = TRUE, !.observed = FALSE, !.page = None])
        /\ page' = IF r.page = None THEN closed ELSE [closed EXCEPT ![r.page].held = @ - 1]
    BY <1>7, <2>2 DEF BeforeClose
  <2>4. [r EXCEPT !.gone = TRUE, !.observed = FALSE, !.page = None] \in Records
    BY Zenon DEF Records
  <2>5. gone \in PageRecords
    <3>1. PICK u \in PageRecords : u = Unopened
      BY UnopenedPage
    <3>2. g.held \in Int /\ g.popup \in BOOLEAN /\ "closed" \in States
      BY DEF PageRecords, States
    <3>3. [u EXCEPT !.state = "closed", !.held = g.held, !.popup = g.popup] \in PageRecords
      BY <3>2, Zenon DEF PageRecords
    <3>4. QED  BY <1>a, <3>1, <3>3
  <2>6. closed \in [Pages -> PageRecords]
    BY <1>0, <2>5
  <2> HIDE DEF closed
  <2>7. ASSUME NEW o \in Pages PROVE [closed[o] EXCEPT !.held = @ - 1] \in PageRecords
    BY <2>6 DEF PageRecords
  <2>8. page' \in [Pages -> PageRecords]
    <3>1. r.page \in Pages \cup {None}
      BY DEF Records
    <3>2. QED  BY <2>3, <2>6, <2>7, <3>1
  <2>9. rec' \in [1..Slots -> Records]
    BY <1>2, <2>1, <2>3, <2>4
  <2>10. QED  BY <1>0, <2>1, <2>8, <2>9 DEF CefTypeOK
<1>8. QED  BY <1>3, <1>4, <1>5, <1>6, <1>7, Zenon DEF PageNext

LEMMA CefTypedStep ==
    ASSUME CefShape, [CefNext]_cefVars
    PROVE  CefTypeOK'
<1>0. CefTypeOK
  BY DEF CefShape
<1>1. CASE Start
  BY <1>0, <1>1 DEF Start, CefTypeOK
<1>2. CASE Shutdown
  <2>1. ASSUME NEW p \in Pages PROVE page'[p] \in PageRecords
    <3>1. PICK g \in PageRecords : g = page[p]
      BY <1>0 DEF CefTypeOK
    <3>2. [g EXCEPT !.asked = TRUE] \in PageRecords
      BY DEF PageRecords
    <3>3. page'[p] = [g EXCEPT !.asked = TRUE] \/ page'[p] = g
      BY <1>2, <3>1 DEF Shutdown
    <3>4. QED  BY <3>2, <3>3
  <2>2. QED  BY <1>0, <1>2, <2>1 DEF Shutdown, CefTypeOK
<1>3. CASE ShutdownEnds
  BY <1>0, <1>3 DEF ShutdownEnds, CefTypeOK
<1>4. CASE UNCHANGED cefVars
  BY <1>0, <1>4 DEF cefVars, CefTypeOK
<1>5. QED
  BY <1>1, <1>2, <1>3, <1>4, TypedViews, TypedPages DEF CefNext

(***************************************************************************)
(* Who holds what: most steps change none of it.                           *)
(***************************************************************************)
SameRecords ==
    \A s \in 1..Slots : /\ rec'[s].used = rec[s].used /\ rec'[s].gone = rec[s].gone
                        /\ rec'[s].page = rec[s].page
SamePage(p) ==
    /\ \/ page'[p].state = page[p].state
       \/ page[p].state = "open" /\ page'[p].state = "closing"
    /\ page'[p].slot = page[p].slot /\ page'[p].popup = page[p].popup
    /\ (page[p].asked => page'[p].asked)
SamePages == \A p \in Pages : SamePage(p) /\ page'[p].held = page[p].held
SameHandle(w) ==
    /\ view'[w].handle = view[w].handle /\ view'[w].page = view[w].page
    /\ view'[w].clear = view[w].clear /\ view'[w].created = view[w].created
SameHandles == \A w \in Views : SameHandle(w)
SameHold == SameRecords /\ SamePages /\ SameHandles

\* One record or one page is changed, and what it holds is not.
LEMMA OneRecord ==
    ASSUME CefTypeOK, NEW s \in 1..Slots, NEW r, rec' = [rec EXCEPT ![s] = r],
           r.used = rec[s].used, r.gone = rec[s].gone, r.page = rec[s].page
    PROVE  SameRecords
BY DEF CefTypeOK, SameRecords

Alike(d, g) == /\ d.state = g.state /\ d.slot = g.slot /\ d.popup = g.popup
               /\ d.held = g.held /\ (g.asked => d.asked)

LEMMA OnePage ==
    ASSUME CefTypeOK, NEW p \in Pages, NEW g, page' = [page EXCEPT ![p] = g],
           Alike(g, page[p])
    PROVE  SamePages
<1>1. ASSUME NEW o \in Pages
      PROVE  /\ page'[o].state = page[o].state /\ page'[o].slot = page[o].slot
             /\ page'[o].popup = page[o].popup /\ page'[o].held = page[o].held
             /\ (page[o].asked => page'[o].asked)
  BY DEF CefTypeOK, Alike
<1>2. QED  BY <1>1 DEF SamePages, SamePage

LEMMA OneView ==
    ASSUME CefTypeOK, NEW v \in Views, NEW c, view' = [view EXCEPT ![v] = c],
           c.handle = view[v].handle, c.page = view[v].page,
           c.clear = view[v].clear, c.created = view[v].created
    PROVE  SameHandles
BY DEF CefTypeOK, SameHandles, SameHandle

LEMMA AllSame ==
    /\ UNCHANGED rec => SameRecords
    /\ UNCHANGED page => SamePages
    /\ UNCHANGED view => SameHandles
<1>1. UNCHANGED rec => SameRecords
  BY DEF SameRecords
<1>2. UNCHANGED page => SamePages
  BY DEF SamePages, SamePage
<1>3. UNCHANGED view => SameHandles
  BY DEF SameHandles, SameHandle
<1>4. QED  BY <1>1, <1>2, <1>3

\* What a view that reaches a record does to it.
LEMMA Reached ==
    ASSUME CefShape, NEW v \in Views, Reaches(v)
    PROVE  /\ view[v].handle \in 1..Slots /\ Mine(v) = rec[view[v].handle]
           /\ Mine(v) \in Records /\ PageOf(v) = Mine(v).page /\ PageOf(v) \in Pages
           /\ page[PageOf(v)] \in PageRecords
           /\ Alive(view[v].handle) /\ view[v] \in Controls
           /\ IsOpen(PageOf(v)) /\ page[PageOf(v)].slot = view[v].handle
<1>1. view[v] \in Controls /\ view[v].handle \in 0..Slots
  BY DEF CefShape, CefTypeOK, Controls
<1>2. QED  BY <1>1, AliveRecord DEF Reaches, Mine, PageOf

LEMMA ViewHolds ==
    ASSUME CefShape, NEW v \in Views, ViewNext(v)
    PROVE  SameHold \/ Create(v) \/ CreateFails(v) \/ Destroyed(v)
<1>0. CefTypeOK /\ view[v] \in Controls
  BY DEF CefShape, CefTypeOK
<1>1. CASE Destroy(v)
  <2>1. SameHandles
    BY <1>1, AllSame DEF Destroy
  <2>2. CASE ~Alive(view[v].handle)
    BY <1>1, <2>1, <2>2, AllSame DEF Destroy, SameHold
  <2>3. CASE Alive(view[v].handle)
    <3>0. Reaches(v)
      BY <1>1, <2>3 DEF Destroy, Reaches
    <3>1. PICK r \in Records, g \in PageRecords : r = Mine(v) /\ g = page[PageOf(v)]
      BY <3>0, Reached
    <3>2. PICK d : d = [PageShown(r, g, 0) EXCEPT !.asked = TRUE]
      OBVIOUS
    <3>3. PageShown(r, g, 0) \in PageRecords
      BY <3>1, ShownRecord
    <3>4. Alike(d, g)
      <4>1. PICK e \in PageRecords : e = PageShown(r, g, 0)
        BY <3>3
      <4>2. e.state = g.state /\ e.slot = g.slot /\ e.popup = g.popup /\ e.held = g.held
        BY <3>1, <4>1, ShownRecord
      <4>3. d = [e EXCEPT !.asked = TRUE]
        BY <3>2, <4>1
      <4>4. /\ d.state = e.state /\ d.slot = e.slot /\ d.popup = e.popup /\ d.held = e.held
            /\ d.asked = TRUE
        BY <4>3 DEF PageRecords
      <4>5. QED  BY <4>2, <4>4 DEF Alike
    <3>5. /\ page' = [page EXCEPT ![PageOf(v)] = d]
          /\ rec' = [rec EXCEPT ![view[v].handle] = ShownTo(r, 0)]
      BY <1>1, <2>3, <3>0, <3>1, <3>2, Reached DEF Destroy
    <3>6. SamePages
      BY <1>0, <3>0, <3>1, <3>4, <3>5, Reached, OnePage
    <3>7. ShownTo(r, 0).used = r.used /\ ShownTo(r, 0).gone = r.gone /\ ShownTo(r, 0).page = r.page
      BY <3>1, ShownRecord
    <3>8. SameRecords
      <4>1. PICK h \in 1..Slots : h = view[v].handle /\ r = rec[h]
        BY <3>0, <3>1, Reached
      <4>2. rec' = [rec EXCEPT ![h] = ShownTo(r, 0)]
        BY <4>1, <3>5
      <4>3. ShownTo(r, 0).used = rec[h].used /\ ShownTo(r, 0).gone = rec[h].gone /\ ShownTo(r, 0).page = rec[h].page
        BY <4>1, <3>7
      <4>4. QED  BY <1>0, <4>2, <4>3, OneRecord
    <3>9. QED  BY <2>1, <3>6, <3>8 DEF SameHold
  <2>4. QED  BY <2>2, <2>3
<1>2. ASSUME NEW x \in Places, SetBounds(v, x) PROVE SameHold
  <2>0. Reaches(v)
    BY <1>2 DEF SetBounds
  <2>1. PICK r \in Records, g \in PageRecords : r = Mine(v) /\ g = page[PageOf(v)]
    BY <2>0, Reached
  <2>2. /\ Moved(r, x).used = r.used /\ Moved(r, x).gone = r.gone /\ Moved(r, x).page = r.page
        /\ Alike([g EXCEPT !.place = x], g)
    BY DEF Moved, Records, PageRecords, Alike
  <2>3. /\ rec' = [rec EXCEPT ![view[v].handle] = Moved(r, x)]
        /\ page' = [page EXCEPT ![PageOf(v)] = [g EXCEPT !.place = x]] /\ UNCHANGED view
    BY <1>2, <2>0, <2>1, Reached DEF SetBounds
  <2>4. view[v].handle \in 1..Slots /\ r = rec[view[v].handle] /\ PageOf(v) \in Pages
    BY <2>0, <2>1, Reached
  <2>5. SameRecords
    BY <1>0, <2>2, <2>3, <2>4, OneRecord
  <2>6. SamePages /\ SameHandles
    <3>2. SamePages
      BY <1>0, <2>1, <2>2, <2>3, <2>4, OnePage
    <3>3. SameHandles
      BY <1>0, <2>1, <2>2, <2>3, <2>4, AllSame
    <3>4. QED  BY <3>2, <3>3
  <2>7. QED  BY <2>5, <2>6 DEF SameHold
<1>3. ASSUME NEW c \in Regions \cup {None}, SetClip(v, c) PROVE SameHold
  <2>0. Reaches(v)
    BY <1>3 DEF SetClip
  <2>1. PICK r \in Records, g \in PageRecords : r = Mine(v) /\ g = page[PageOf(v)] /\ g = page[r.page]
    BY <2>0, Reached
  <2> DEFINE built == IF c # None /\ r.clip # c
                      THEN [g EXCEPT !.region = c - r.place] ELSE g
             n == IF c = None THEN 0 ELSE 1
  <2>2. /\ page' = [page EXCEPT ![PageOf(v)] = PageShown(r, built, n)]
        /\ rec' = [rec EXCEPT ![view[v].handle] =
                      [ShownTo(r, n) EXCEPT !.clip = IF c = None THEN @ ELSE c]]
        /\ UNCHANGED view
    BY <1>3, <2>0, <2>1, Reached DEF SetClip
  <2>3. r.place \in Int
    BY DEF Records
  <2>4. /\ built \in PageRecords /\ n \in {0, 1}
        /\ built.state = g.state /\ built.slot = g.slot /\ built.popup = g.popup
        /\ built.held = g.held /\ built.asked = g.asked
    BY <2>3, CefAssumption DEF PageRecords
  <2> HIDE DEF built, n
  <2>5. Alike(PageShown(r, built, n), g)
    BY <2>4, ShownRecord DEF Alike
  <2>6. PICK t \in Records : t = ShownTo(r, n) /\ t.used = r.used /\ t.gone = r.gone /\ t.page = r.page
    BY <2>1, <2>4, ShownRecord, SMTT(30)
  <2>7. PICK d : d = [t EXCEPT !.clip = IF c = None THEN @ ELSE c]
    OBVIOUS
  <2>8. d.used = r.used /\ d.gone = r.gone /\ d.page = r.page
    BY <2>6, <2>7 DEF Records
  <2>9. SamePages /\ SameHandles
    <3>1. PageOf(v) \in Pages /\ page[PageOf(v)] \in PageRecords
      BY <1>0, <2>0, Reached
    <3>2. SamePages
      BY <1>0, <2>0, <2>1, <2>2, <2>5, <3>1, OnePage
    <3>3. SameHandles
      BY <1>0, <2>0, <2>1, <2>2, <2>5, AllSame
    <3>4. QED  BY <3>2, <3>3
  <2>12. view[v].handle \in 1..Slots /\ r = rec[view[v].handle]
    BY <2>0, <2>1, Reached
  <2>10. SameRecords
    <3>1. PICK h \in 1..Slots : h = view[v].handle /\ r = rec[h]
      BY <2>12
    <3>2. rec' = [rec EXCEPT ![h] = d]
      BY <3>1, <2>2, <2>6, <2>7
    <3>3. d.used = rec[h].used /\ d.gone = rec[h].gone /\ d.page = rec[h].page
      BY <3>1, <2>8
    <3>4. QED  BY <1>0, <3>2, <3>3, OneRecord
  <2>11. QED  BY <2>9, <2>10 DEF SameHold
<1>4. CASE Poll(v)
  <2>1. PICK c : c = [view[v] EXCEPT !.seq = Mine(v).seq, !.url = Mine(v).url]
    OBVIOUS
  <2>2. /\ c.handle = view[v].handle /\ c.page = view[v].page
        /\ c.clear = view[v].clear /\ c.created = view[v].created
    BY <1>0, <2>1 DEF Controls
  <2>3. view' = [view EXCEPT ![v] = c] /\ UNCHANGED <<rec, page>>
    BY <1>4, <2>1 DEF Poll
  <2>4. SameHandles
    BY <1>0, <2>2, <2>3, OneView
  <2>5. QED  BY <2>3, <2>4, AllSame DEF SameHold
<1>5. CASE Send(v)
  <2>0. Reaches(v)
    BY <1>5 DEF Send
  <2>1. PICK r \in Records, g \in PageRecords, c \in Controls :
           r = Mine(v) /\ g = page[PageOf(v)] /\ c = view[v]
    BY <2>0, Reached
  <2>2. PICK rr, gg, cc : /\ rr = [r EXCEPT !.id = r.id + 1]
                          /\ gg = [g EXCEPT !.owed = @ \cup {r.id + 1}]
                          /\ cc = [c EXCEPT !.waiting =
                                       Append(@, [id |-> r.id + 1, page |-> PageOf(v)])]
    OBVIOUS
  <2>3. /\ rr.used = r.used /\ rr.gone = r.gone /\ rr.page = r.page
        /\ Alike(gg, g)
        /\ cc.handle = c.handle /\ cc.page = c.page /\ cc.clear = c.clear /\ cc.created = c.created
    BY <2>2 DEF Records, PageRecords, Controls, Alike
  <2>4. /\ rec' = [rec EXCEPT ![view[v].handle] = rr]
        /\ page' = [page EXCEPT ![PageOf(v)] = gg]
        /\ view' = [view EXCEPT ![v] = cc]
    <3>1. /\ view[v].handle \in 1..Slots /\ r = rec[view[v].handle] /\ PageOf(v) \in Pages
      BY <2>0, <2>1, Reached
    <3>2. /\ rec \in [1..Slots -> Records] /\ page \in [Pages -> PageRecords]
          /\ view \in [Views -> Controls]
      BY <1>0 DEF CefTypeOK
    <3>3. QED  BY <1>5, <2>1, <2>2, <3>1, <3>2 DEF Send
  <2>8. view[v].handle \in 1..Slots /\ r = rec[view[v].handle]
    BY <2>0, <2>1, Reached
  <2>5. SameRecords
    BY <1>0, <2>3, <2>4, <2>8, OneRecord
  <2>6. SamePages /\ SameHandles
    <3>1. PageOf(v) \in Pages /\ page[PageOf(v)] \in PageRecords
      BY <1>0, <2>0, Reached
    <3>2. SamePages
      BY <1>0, <2>0, <2>1, <2>3, <2>4, <3>1, OnePage
    <3>3. SameHandles
      BY <1>0, <2>0, <2>1, <2>3, <2>4, OneView
    <3>4. QED  BY <3>2, <3>3
  <2>7. QED  BY <2>5, <2>6 DEF SameHold
<1>6. CASE TakeMessage(v)
  <2>0. Reaches(v) /\ Mine(v).count > 0
    BY <1>6 DEF TakeMessage
  <2>1. PICK r \in Records, c \in Controls, g \in PageRecords, h \in 1..Slots, p \in Pages :
           /\ r = Mine(v) /\ c = view[v] /\ h = view[v].handle /\ r = rec[h]
           /\ p = r.page /\ g = page[p]
    BY <2>0, Reached
  <2>2. TakenOne(r).used = r.used /\ TakenOne(r).gone = r.gone /\ TakenOne(r).page = r.page
    BY <2>0, <2>1, TookMessage
  <2>9. PICK id \in Nat, b \in BOOLEAN :
           /\ b = (id # 0 /\ ~Heard(c.waiting, id, p))
           /\ rec' = [rec EXCEPT ![h] = TakenOne(r)]
           /\ view' = [view EXCEPT ![v] = [c EXCEPT !.waiting = Answered(c.waiting, id)]]
           /\ page' = [page EXCEPT ![p] = Took(g, id, b)]
    BY <1>0, <1>6, <2>1, Takes
  <2>3. PICK a, cc :
           /\ rec' = [rec EXCEPT ![h] = TakenOne(r)]
           /\ cc = [c EXCEPT !.waiting = a] /\ view' = [view EXCEPT ![v] = cc]
           /\ page' = [page EXCEPT ![p] = Took(g, id, b)]
    BY <2>9
  <2>4. /\ cc.handle = c.handle /\ cc.page = c.page /\ cc.clear = c.clear
        /\ cc.created = c.created /\ Alike(Took(g, id, b), g)
    <3>1. PICK t : t = Took(g, id, b)
      OBVIOUS
    <3>2. Alike(t, g)
      BY <3>1, TookFields DEF Alike
    <3>3. QED  BY <2>3, <3>1, <3>2 DEF Controls
  <2>5. SameRecords
    BY <1>0, <2>1, <2>2, <2>3, OneRecord
  <2>6. SamePages
    BY <1>0, <2>1, <2>3, <2>4, OnePage
  <2>7. SameHandles
    BY <1>0, <2>1, <2>3, <2>4, OneView
  <2>8. QED  BY <2>5, <2>6, <2>7 DEF SameHold
<1>7. CASE TakePopup(v)
  <2>0. Reaches(v) /\ UNCHANGED view
    BY <1>7 DEF TakePopup
  <2>1. PICK r \in Records, g \in PageRecords, h \in 1..Slots, p \in Pages :
           /\ r = Mine(v) /\ h = view[v].handle /\ r = rec[h]
           /\ p = PageOf(v) /\ g = page[p]
    BY <2>0, Reached
  <2>2. PICK rr, gg : rr = [r EXCEPT !.popup = None] /\ gg = [g EXCEPT !.handed = @ + 1]
    OBVIOUS
  <2>3. rr.used = r.used /\ rr.gone = r.gone /\ rr.page = r.page /\ Alike(gg, g)
    BY <2>2 DEF Records, PageRecords, Alike
  <2>4. rec' = [rec EXCEPT ![h] = rr] /\ page' = [page EXCEPT ![p] = gg]
    BY <1>0, <1>7, <2>1, <2>2 DEF TakePopup, CefTypeOK
  <2>5. SameRecords
    BY <1>0, <2>1, <2>3, <2>4, OneRecord
  <2>6. SamePages
    BY <1>0, <2>1, <2>3, <2>4, OnePage
  <2>7. QED  BY <2>0, <2>5, <2>6, AllSame DEF SameHold
<1>8. QED
  BY <1>1, <1>2, <1>3, <1>4, <1>5, <1>6, <1>7, Zenon DEF ViewNext

SameRecord(s) == /\ rec'[s].used = rec[s].used /\ rec'[s].gone = rec[s].gone
                 /\ rec'[s].page = rec[s].page
\* The steps that do change it: a page is made for a view, or not, a view gives
\* up its handle, a popup opens, a page closes.
Makes(v, s, p) ==
    /\ ~view[v].created /\ FirstFree(s) /\ page[p].state = "none"
    /\ rec'[s].used /\ ~rec'[s].gone /\ rec'[s].page = p
    /\ \A t \in 1..Slots \ {s} : SameRecord(t)
    /\ page'[p].state = "open" /\ page'[p].slot = s /\ ~page'[p].popup /\ page'[p].held = 1
    /\ \A o \in Pages \ {p} : SamePage(o) /\ page'[o].held = page[o].held
    /\ view'[v].created /\ view'[v].handle = s /\ view'[v].page = p
    /\ view'[v].clear = Unheard(v, s)
    /\ \A w \in Views \ {v} : SameHandle(w)
MakesNone(v) ==
    /\ \A s \in 1..Slots : SameRecord(s) \/ (~Alive(s) /\ rec'[s] = Unused)
    /\ SamePages
    /\ \A w \in Views : /\ view'[w].handle = view[w].handle /\ view'[w].page = view[w].page
                        /\ view'[w].clear = view[w].clear
                        /\ view'[w].created = (view[w].created \/ w = v)
GivesUp(v) ==
    /\ SameRecords /\ SamePages /\ running = v
    /\ view'[v].handle = 0 /\ ~view'[v].created /\ view'[v].page = view[v].page
    /\ \A w \in Views \ {v} : SameHandle(w)
Pops(p, o) ==
    /\ page[p].state = "open" /\ page[o].state = "none"
    /\ page'[o].state = "open" /\ page'[o].slot = page[p].slot /\ page'[o].popup
    /\ \A x \in Pages \ {o} : SamePage(x)
    /\ \A s \in 1..Slots :
          /\ rec'[s].used = rec[s].used /\ rec'[s].gone = rec[s].gone
          /\ \/ rec'[s].page = rec[s].page
             \/ s = page[p].slot /\ rec[s].page = None /\ rec'[s].page = o
    /\ SameHandles
Closes(p) ==
    /\ IsOpen(p) /\ page'[p].state = "closed" /\ page'[p].popup = page[p].popup
    /\ \A x \in Pages \ {p} : SamePage(x)
    /\ rec[page[p].slot].page = p =>
          \A x \in Pages : page'[x].held = IF x = p THEN page[x].held - 1 ELSE page[x].held
    /\ rec'[page[p].slot].gone /\ rec'[page[p].slot].page = None
    /\ \A s \in 1..Slots \ {page[p].slot} : SameRecord(s)
    /\ SameHandles

LEMMA CreateMakes ==
    ASSUME CefShape, NEW v \in Views, NEW s \in 1..Slots, NEW p \in Pages,
           NEW x \in Places, NEW told \in BOOLEAN, ~view[v].created,
           CreateAt(v, s, p, x, told)
    PROVE  Makes(v, s, p)
<1>0. /\ rec \in [1..Slots -> Records] /\ view \in [Views -> Controls]
      /\ page \in [Pages -> PageRecords]
  BY DEF CefShape, CefTypeOK
<1>1. PICK g, r, c :
         /\ g = [Unopened EXCEPT !.state = "open", !.slot = s, !.place = x,
                                 !.shown = TRUE, !.held = HeldAfter(Unused.page, p, told)]
         /\ r = [Unused EXCEPT !.used = TRUE, !.page = p, !.observed = TRUE,
                               !.place = x, !.policy = view[v].policy]
         /\ c = [view[v] EXCEPT !.created = TRUE, !.handle = s, !.page = p,
                                !.clear = Unheard(v, s)]
  OBVIOUS
<1>2. g.state = "open" /\ g.slot = s /\ g.popup = FALSE /\ g.held = 1
  BY <1>1, HeldOnce DEF Unopened
<1>3. r.used = TRUE /\ r.gone = FALSE /\ r.page = p
  BY <1>1 DEF Unused
<1>4. c.created = TRUE /\ c.handle = s /\ c.page = p /\ c.clear = Unheard(v, s)
  <2>1. PICK b \in Controls : b = view[v]
    BY <1>0
  <2>2. c = [b EXCEPT !.created = TRUE, !.handle = s, !.page = p, !.clear = Unheard(v, s)]
    BY <1>1, <2>1
  <2>3. QED  BY <2>2, Zenon DEF Controls
<1>5. /\ page' = [page EXCEPT ![p] = g] /\ rec' = [rec EXCEPT ![s] = r]
      /\ view' = [view EXCEPT ![v] = c] /\ FirstFree(s) /\ page[p].state = "none"
  BY <1>1, Zenon DEF CreateAt
<1>6. /\ page'[p] = g /\ \A o \in Pages \ {p} : page'[o] = page[o]
      /\ rec'[s] = r /\ \A t \in 1..Slots \ {s} : rec'[t] = rec[t]
      /\ view'[v] = c /\ \A w \in Views \ {v} : view'[w] = view[w]
  BY <1>0, <1>5
<1>7. /\ \A o \in Pages \ {p} : SamePage(o) /\ page'[o].held = page[o].held
      /\ \A t \in 1..Slots \ {s} : SameRecord(t)
      /\ \A w \in Views \ {v} : SameHandle(w)
  BY <1>6 DEF SamePage, SameRecord, SameHandle
<1>8. QED  BY <1>2, <1>3, <1>4, <1>5, <1>6, <1>7 DEF Makes

LEMMA FailsMakesNone ==
    ASSUME CefShape, NEW v \in Views, CreateFails(v)
    PROVE  MakesNone(v)
<1>0. /\ rec \in [1..Slots -> Records] /\ view \in [Views -> Controls]
  BY DEF CefShape, CefTypeOK
<1>1. rec' = rec \/ \E s \in 1..Slots : FirstFree(s) /\ rec' = [rec EXCEPT ![s] = Unused]
  <2>1. 1 \in 1..Slots
    BY CefAssumption
  <2>2. QED  BY <2>1, Zenon DEF CreateFails
<1>2. ASSUME NEW s \in 1..Slots PROVE SameRecord(s) \/ (~Alive(s) /\ rec'[s] = Unused)
  <2>1. ASSUME rec' = rec PROVE SameRecord(s)
    BY <2>1 DEF SameRecord
  <2>2. ASSUME NEW t \in 1..Slots, FirstFree(t), rec' = [rec EXCEPT ![t] = Unused]
        PROVE  SameRecord(s) \/ (~Alive(s) /\ rec'[s] = Unused)
    <3>1. CASE s = t
      BY <1>0, <2>2, <3>1 DEF FirstFree, Reclaimable, Alive
    <3>2. ASSUME s # t PROVE SameRecord(s)
      BY <1>0, <2>2, <3>2 DEF SameRecord
    <3>3. QED  BY <3>1, <3>2
  <2>3. QED  BY <1>1, <2>1, <2>2
<1>3. SamePages
  BY AllSame DEF CreateFails
<1>4. ASSUME NEW w \in Views
      PROVE  /\ view'[w].handle = view[w].handle /\ view'[w].page = view[w].page
             /\ view'[w].clear = view[w].clear
             /\ view'[w].created = (view[w].created \/ w = v)
  <2>1. PICK c \in Controls : c = view[v]
    BY <1>0
  <2>2. /\ [c EXCEPT !.created = TRUE].handle = c.handle
        /\ [c EXCEPT !.created = TRUE].page = c.page
        /\ [c EXCEPT !.created = TRUE].clear = c.clear
        /\ [c EXCEPT !.created = TRUE].created = TRUE
    BY DEF Controls
  <2>3. view' = [view EXCEPT ![v] = [c EXCEPT !.created = TRUE]]
    BY <1>0, <2>1 DEF CreateFails
  <2>4. CASE w = v
    BY <1>0, <2>1, <2>2, <2>3, <2>4
  <2>5. CASE w # v
    <3>1. view'[w] = view[w] /\ view[w].created \in BOOLEAN
      BY <1>0, <2>3, <2>5 DEF Controls
    <3>2. QED  BY <2>5, <3>1
  <2>6. QED  BY <2>4, <2>5
<1>5. QED  BY <1>2, <1>3, <1>4 DEF MakesNone

LEMMA DestroyedGivesUp ==
    ASSUME CefShape, NEW v \in Views, Destroyed(v)
    PROVE  GivesUp(v)
<1>0. view \in [Views -> Controls] /\ view[v] \in Controls
  BY DEF CefShape, CefTypeOK
<1>a. PICK c \in Controls : c = view[v]
  BY <1>0
<1>1. PICK d : /\ c = view[v]
               /\ d = [c EXCEPT !.handle = 0, !.created = FALSE]
  BY <1>a
<1>2. d.handle = 0 /\ d.created = FALSE /\ d.page = c.page
  BY <1>1 DEF Controls
<1>3. view' = [view EXCEPT ![v] = d] /\ UNCHANGED <<rec, page>>
  BY <1>1 DEF Destroyed
<1>4. view'[v] = d /\ \A w \in Views \ {v} : view'[w] = view[w]
  BY <1>0, <1>3
<1>5. SameRecords /\ SamePages
  BY <1>3, AllSame
<1>6. \A w \in Views \ {v} : SameHandle(w)
  BY <1>4 DEF SameHandle
<1>7. running = v
  BY DEF Destroyed
<1>8. QED  BY <1>1, <1>2, <1>4, <1>5, <1>6, <1>7 DEF GivesUp

LEMMA PageHolds ==
    ASSUME CefShape, NEW p \in Pages, PageNext(p)
    PROVE  SameHold \/ (\E o \in Pages : Pops(p, o)) \/ Closes(p)
<1>0. /\ CefTypeOK /\ rec \in [1..Slots -> Records] /\ page \in [Pages -> PageRecords]
  BY DEF CefShape, CefTypeOK
<1>a. PICK g \in PageRecords : g = page[p]
  BY <1>0
<1>1. ASSUME IsOpen(p)
      PROVE  page[p].slot \in 1..Slots /\ Told(p) \in Records /\ Told(p) = rec[page[p].slot]
  BY <1>1, OpenRecord DEF Told
<1>2. ASSUME NEW r, Tell(p, r), IsOpen(p),
             r.used = Told(p).used, r.gone = Told(p).gone, r.page = Told(p).page
      PROVE  SameRecords
  BY <1>0, <1>1, <1>2, OneRecord DEF Tell
<1>3. CASE Says(p)
  <2>1. PICK id \in {0} \cup page[p].owed :
           /\ page' = [page EXCEPT ![p].said = @ + 1, ![p].owed = @ \ {id}]
           /\ Tell(p, Push(Told(p), [n |-> page[p].said + 1, id |-> id]))
    BY <1>3 DEF Says
  <2>2. IsOpen(p) /\ UNCHANGED <<view, running>>
    BY <1>3 DEF Says
  <2>3. [n |-> page[p].said + 1, id |-> id] \in Stored
    BY <1>0, PageNumbers DEF Stored
  <2>4. PICK r \in Records, m \in Stored :
           r = Told(p) /\ m = [n |-> page[p].said + 1, id |-> id]
    BY <1>1, <2>2, <2>3
  <2>5. Push(r, m).used = r.used /\ Push(r, m).gone = r.gone /\ Push(r, m).page = r.page
    BY Pushed
  <2>6. SameRecords
    BY <1>2, <2>1, <2>2, <2>4, <2>5
  <2>7. PICK d : d = [g EXCEPT !.said = @ + 1, !.owed = @ \ {id}]
    OBVIOUS
  <2>8. Alike(d, g)
    BY <2>7 DEF PageRecords, Alike
  <2>9. page' = [page EXCEPT ![p] = d]
    BY <1>0, <1>a, <2>1, <2>7
  <2>10. SamePages /\ SameHandles
    <3>2. SamePages
      BY <1>0, <1>a, <2>2, <2>8, <2>9, OnePage
    <3>3. SameHandles
      BY <1>0, <1>a, <2>2, <2>8, <2>9, AllSame
    <3>4. QED  BY <3>2, <3>3
  <2>11. QED  BY <2>6, <2>10 DEF SameHold
<1>4. CASE Navigates(p)
  <2>1. /\ page' = [page EXCEPT ![p].url = @ + 1] /\ IsOpen(p)
        /\ Tell(p, Address(Told(p), page[p].url + 1)) /\ UNCHANGED <<view, running>>
    BY <1>4 DEF Navigates
  <2>a. PICK r \in Records : r = Told(p)
    BY <1>1, <2>1
  <2>2. PICK u : r = Told(p) /\ u = page[p].url + 1
    BY <2>a
  <2>3. Address(r, u).used = r.used /\ Address(r, u).gone = r.gone /\ Address(r, u).page = r.page
    BY DEF Address, Records
  <2>4. SameRecords
    BY <1>2, <2>1, <2>2, <2>3
  <2>5. PICK d : d = [g EXCEPT !.url = @ + 1]
    OBVIOUS
  <2>6. Alike(d, g)
    BY <2>5 DEF PageRecords, Alike
  <2>7. page' = [page EXCEPT ![p] = d]
    BY <1>0, <1>a, <2>1, <2>5
  <2>8. SamePages /\ SameHandles
    <3>2. SamePages
      BY <1>0, <1>a, <2>1, <2>6, <2>7, OnePage
    <3>3. SameHandles
      BY <1>0, <1>a, <2>1, <2>6, <2>7, AllSame
    <3>4. QED  BY <3>2, <3>3
  <2>9. QED  BY <2>4, <2>8 DEF SameHold
<1>5. CASE OpensPopup(p)
  <2>1. IsOpen(p) /\ UNCHANGED <<view, running>> /\ page[p].state = "open" /\ p \in Pages
    BY <1>5 DEF OpensPopup, IsOpen
  <2>2. PICK r \in Records : r = Told(p)
    BY <1>1, <2>1
  <2>3. PICK d : d = [g EXCEPT !.opened = @ + 1]
    OBVIOUS
  <2>4. Alike(d, g)
    BY <2>3 DEF PageRecords, Alike
  <2>5. CASE r.policy = 0
    <3>1. PICK o \in Pages :
              /\ page[o].state = "none"
              /\ page' = [page EXCEPT
                   ![o] = [Unopened EXCEPT !.state = "open", !.slot = page[p].slot,
                               !.popup = TRUE, !.shown = TRUE,
                               !.held = IF r.page = None THEN 1 ELSE 0],
                   ![p].opened = @ + 1]
              /\ Tell(p, [r EXCEPT !.page = IF @ = None THEN o ELSE @])
      <4>1. \/ /\ r.policy = 0
               /\ \E o \in Pages :
                     /\ page[o].state = "none"
                     /\ page' = [page EXCEPT
                          ![o] = [Unopened EXCEPT !.state = "open", !.slot = page[p].slot,
                                      !.popup = TRUE, !.shown = TRUE,
                                      !.held = IF r.page = None THEN 1 ELSE 0],
                          ![p].opened = @ + 1]
                     /\ Tell(p, [r EXCEPT !.page = IF @ = None THEN o ELSE @])
            \/ r.policy = 1 \/ r.policy = 2
        BY <1>5, <2>2, Zenon DEF OpensPopup
      <4>2. r.policy # 1 /\ r.policy # 2
        BY <2>5
      <4>3. QED  BY <4>1, <4>2, Zenon
    <3>2. PICK e : e = [Unopened EXCEPT !.state = "open", !.slot = page[p].slot,
                               !.popup = TRUE, !.shown = TRUE,
                               !.held = IF r.page = None THEN 1 ELSE 0]
      OBVIOUS
    <3>3. e.state = "open" /\ e.slot = page[p].slot /\ e.popup = TRUE
      BY <3>2 DEF Unopened
    <3>4. o # p
      BY <2>1, <3>1
    <3>5. page' = [page EXCEPT ![o] = e, ![p] = d]
      BY <1>0, <1>a, <2>3, <3>1, <3>2, <3>4
    <3>6. page'[o] = e /\ page'[p] = d /\ \A x \in Pages \ {o, p} : page'[x] = page[x]
      BY <1>0, <3>4, <3>5
    <3>7. \A x \in Pages \ {o} : SamePage(x)
      BY <1>a, <2>4, <3>6 DEF SamePage, Alike
    <3>8. PICK t : t = [r EXCEPT !.page = IF @ = None THEN o ELSE @]
      OBVIOUS
    <3>9. t.used = r.used /\ t.gone = r.gone /\ t.page = IF r.page = None THEN o ELSE r.page
      BY <3>8 DEF Records
    <3>10. /\ page[p].slot \in 1..Slots /\ r = rec[page[p].slot]
           /\ rec' = [rec EXCEPT ![page[p].slot] = t]
      BY <1>1, <2>1, <2>2, <3>1, <3>8 DEF Tell
    <3>11. \A s \in 1..Slots : /\ rec'[s].used = rec[s].used /\ rec'[s].gone = rec[s].gone
                               /\ \/ rec'[s].page = rec[s].page
                                  \/ s = page[p].slot /\ rec[s].page = None /\ rec'[s].page = o
      BY <1>0, <3>9, <3>10
    <3>12. SameHandles
      BY <2>1, AllSame
    <3>13. Pops(p, o)
      BY <2>1, <3>1, <3>3, <3>6, <3>7, <3>11, <3>12 DEF Pops
    <3>14. QED  BY <3>13
  <2>6. CASE r.policy # 0
    <3>1. \/ page' = [page EXCEPT ![p].opened = @ + 1] /\ UNCHANGED rec
          \/ \E u \in {p, None} : \E b :
                page' = [page EXCEPT ![p] = Opened(@, b)] /\ Tell(p, Handed(r, u))
      <4>1. \/ page' = [page EXCEPT ![p].opened = @ + 1] /\ UNCHANGED rec
            \/ \E u \in {p, None} :
                  /\ page' = [page EXCEPT ![p] = Opened(@, r.popup = None /\ u = None)]
                  /\ Tell(p, Handed(r, u))
        BY <1>5, <2>2, <2>6, Zenon DEF OpensPopup
      <4>2. QED  BY <4>1
    <3>2. CASE page' = [page EXCEPT ![p].opened = @ + 1] /\ UNCHANGED rec
      <4>1. page' = [page EXCEPT ![p] = d]
        BY <1>0, <1>a, <2>3, <3>2
      <4>2. SamePages
        BY <1>0, <1>a, <2>1, <2>4, <4>1, OnePage
      <4>3. QED  BY <2>1, <3>2, <4>2, AllSame DEF SameHold
    <3>3. ASSUME NEW u \in {p, None}, NEW b, Tell(p, Handed(r, u)),
                 page' = [page EXCEPT ![p] = Opened(@, b)]
          PROVE  SameHold
      <4>1. page' = [page EXCEPT ![p] = Opened(g, b)]
        BY <1>0, <1>a, <3>3
      <4>2. Alike(Opened(g, b), g)
        <5>1. \A f \in {"state", "slot", "popup", "held", "asked"} : Opened(g, b)[f] = g[f]
          BY OpenedPage
        <5>2. QED  BY <5>1 DEF Alike
      <4>3. SamePages
        BY <1>0, <1>a, <2>1, <4>1, <4>2, OnePage
      <4>4. u \in Pages \cup {None}
        OBVIOUS
      <4>5. /\ Handed(r, u).used = r.used /\ Handed(r, u).gone = r.gone
            /\ Handed(r, u).page = r.page
        BY <4>4, HandedRecord
      <4>6. SameRecords
        BY <1>2, <2>1, <2>2, <3>3, <4>5
      <4>7. QED  BY <2>1, <4>3, <4>6, AllSame DEF SameHold
    <3>4. QED  BY <3>1, <3>2, <3>3
  <2>7. QED  BY <2>5, <2>6
<1>6. CASE DoClose(p)
  <2>1. /\ page' = [page EXCEPT ![p].state = "closing"] /\ page[p].state = "open"
        /\ UNCHANGED <<rec, view>>
    BY <1>6 DEF DoClose
  <2>2. /\ [g EXCEPT !.state = "closing"].state = "closing"
        /\ [g EXCEPT !.state = "closing"].slot = g.slot
        /\ [g EXCEPT !.state = "closing"].popup = g.popup
        /\ [g EXCEPT !.state = "closing"].held = g.held
        /\ [g EXCEPT !.state = "closing"].asked = g.asked
    BY DEF PageRecords
  <2>3. page'[p] = [g EXCEPT !.state = "closing"] /\ \A x \in Pages \ {p} : page'[x] = page[x]
    BY <1>0, <1>a, <2>1
  <2>4. SamePages
    BY <1>a, <2>1, <2>2, <2>3 DEF SamePages, SamePage
  <2>5. QED  BY <2>1, <2>4, AllSame DEF SameHold
<1>7. CASE BeforeClose(p)
  <2> DEFINE gone == [Unopened EXCEPT !.state = "closed", !.held = page[p].held,
                                      !.popup = page[p].popup]
             closed == [page EXCEPT ![p] = gone]
  <2>1. IsOpen(p) /\ UNCHANGED <<view, running>>
    BY <1>7 DEF BeforeClose, IsOpen
  <2>2. PICK r \in Records : r = Told(p)
    BY <1>1, <2>1
  <2>3. /\ Tell(p, [r EXCEPT !.gone = TRUE, !.observed = FALSE, !.page = None])
        /\ page' = IF r.page = None THEN closed ELSE [closed EXCEPT ![r.page].held = @ - 1]
    BY <1>7, <2>2 DEF BeforeClose
  <2>4. PICK t : t = [r EXCEPT !.gone = TRUE, !.observed = FALSE, !.page = None]
    OBVIOUS
  <2>5. t.gone = TRUE /\ t.page = None
    BY <2>4 DEF Records
  <2>6. page[p].slot \in 1..Slots /\ rec' = [rec EXCEPT ![page[p].slot] = t]
    BY <1>1, <2>1, <2>3, <2>4 DEF Tell
  <2>7. rec'[page[p].slot] = t /\ \A s \in 1..Slots \ {page[p].slot} : SameRecord(s)
    BY <1>0, <2>6 DEF SameRecord
  <2>8. /\ closed[p].state = "closed" /\ closed[p].popup = page[p].popup
        /\ closed[p].held = page[p].held
        /\ \A x \in Pages \ {p} : closed[x] = page[x]
    BY <1>0 DEF Unopened
  <2>9. closed \in [Pages -> PageRecords]
    <3>1. PICK u \in PageRecords : u = Unopened
      BY UnopenedPage
    <3>2. g.held \in Int /\ g.popup \in BOOLEAN /\ "closed" \in States
      BY DEF PageRecords, States
    <3>3. [u EXCEPT !.state = "closed", !.held = g.held, !.popup = g.popup] \in PageRecords
      BY <3>2, Zenon DEF PageRecords
    <3>4. gone \in PageRecords
      BY <1>a, <3>1, <3>3
    <3>5. QED  BY <1>0, <3>4
  <2> HIDE DEF closed
  <2>10. \A x \in Pages : /\ page'[x].state = closed[x].state /\ page'[x].slot = closed[x].slot
                          /\ page'[x].popup = closed[x].popup
                          /\ page'[x].asked = closed[x].asked
                          /\ page'[x].held = IF x = r.page THEN closed[x].held - 1
                                              ELSE closed[x].held
    <3>1. ASSUME NEW o \in Pages
          PROVE  /\ [closed[o] EXCEPT !.held = @ - 1].state = closed[o].state
                 /\ [closed[o] EXCEPT !.held = @ - 1].slot = closed[o].slot
                 /\ [closed[o] EXCEPT !.held = @ - 1].popup = closed[o].popup
                 /\ [closed[o] EXCEPT !.held = @ - 1].asked = closed[o].asked
                 /\ [closed[o] EXCEPT !.held = @ - 1].held = closed[o].held - 1
      BY <2>9 DEF PageRecords
    <3>2. r.page \in Pages \cup {None}
      BY DEF Records
    <3>3. QED  BY <2>3, <2>9, <3>1, <3>2, CefAssumption
  <2>11. /\ page'[p].state = "closed" /\ page'[p].popup = page[p].popup
         /\ \A x \in Pages \ {p} : SamePage(x)
    BY <2>8, <2>10 DEF SamePage
  <2>12. SameHandles
    BY <2>1, AllSame
  <2>15. rec[page[p].slot].page = p =>
           \A x \in Pages : page'[x].held = IF x = p THEN page[x].held - 1 ELSE page[x].held
    BY <1>1, <2>1, <2>2, <2>8, <2>10
  <2>13. Closes(p)
    BY <2>1, <2>5, <2>7, <2>11, <2>12, <2>15 DEF Closes
  <2>14. QED  BY <2>13
<1>8. QED  BY <1>3, <1>4, <1>5, <1>6, <1>7, Zenon DEF PageNext

LEMMA HoldSteps ==
    ASSUME CefShape, [CefNext]_cefVars
    PROVE  \/ SameHold
           \/ \E v \in Views, s \in 1..Slots, p \in Pages : Makes(v, s, p)
           \/ \E v \in Views : MakesNone(v)
           \/ \E v \in Views : GivesUp(v)
           \/ \E p, o \in Pages : Pops(p, o)
           \/ \E p \in Pages : Closes(p)
<1>1. ASSUME NEW v \in Views, ViewNext(v)
      PROVE  \/ SameHold
             \/ \E w \in Views, s \in 1..Slots, p \in Pages : Makes(w, s, p)
             \/ \E w \in Views : MakesNone(w)
             \/ \E w \in Views : GivesUp(w)
  <2>1. CASE Create(v)
    BY <2>1, CreateMakes DEF Create
  <2>2. QED  BY <1>1, <2>1, ViewHolds, FailsMakesNone, DestroyedGivesUp
<1>2. CASE Start \/ ShutdownEnds \/ UNCHANGED cefVars
  BY <1>2, AllSame DEF Start, ShutdownEnds, cefVars, SameHold
<1>3. CASE Shutdown
  <2>0. page \in [Pages -> PageRecords]
    BY DEF CefShape, CefTypeOK
  <2>1. ASSUME NEW p \in Pages PROVE SamePage(p) /\ page'[p].held = page[p].held
    <3>1. PICK g \in PageRecords : g = page[p]
      BY <2>0
    <3>2. page'[p] = g \/ page'[p] = [g EXCEPT !.asked = TRUE]
      BY <1>3, <3>1 DEF Shutdown
    <3>3. QED  BY <3>1, <3>2 DEF SamePage, PageRecords
  <2>2. SamePages
    BY <2>1 DEF SamePages
  <2>3. QED  BY <1>3, <2>2, AllSame DEF Shutdown, SameHold
<1>4. QED  BY <1>1, <1>2, <1>3, PageHolds DEF CefNext

LEMMA PageStates ==
    ASSUME NEW p, SamePage(p)
    PROVE  /\ IsOpen(p)' <=> IsOpen(p)
           /\ page'[p].state # "none" <=> page[p].state # "none"
           /\ page'[p].slot = page[p].slot /\ page'[p].popup = page[p].popup
           /\ (page[p].asked => page'[p].asked)
           /\ page'[p].state = "open" => page[p].state = "open"
BY DEF SamePage, IsOpen

LEMMA RecordStates ==
    ASSUME NEW s, SameRecord(s)
    PROVE  (Alive(s)' <=> Alive(s)) /\ rec'[s].page = rec[s].page
BY DEF SameRecord, Alive

LEMMA SameEach ==
    /\ SameRecords => \A s \in 1..Slots : SameRecord(s)
    /\ SamePages => \A p \in Pages : SamePage(p) /\ page'[p].held = page[p].held
    /\ SameHandles => \A w \in Views : SameHandle(w)
BY DEF SameRecords, SameRecord, SamePages, SamePage, SameHandles

\* What is open calls into a record, and what a record calls its page is open.
LEMMA RecordedStep ==
    ASSUME CefShape, [CefNext]_cefVars
    PROVE  Recorded'
<1>0. /\ \A p \in Pages : IsOpen(p) => page[p].slot \in 1..Slots
      /\ \A s \in 1..Slots : rec[s].page # None =>
            IsOpen(rec[s].page) /\ page[rec[s].page].slot = s
      /\ \A s \in 1..Slots : Alive(s) => rec[s].page # None
      /\ \A s \in 1..Slots : rec[s].page \in Pages \cup {None}
  BY DEF CefShape, Recorded, CefTypeOK, Records
<1>1. SUFFICES /\ \A p \in Pages : IsOpen(p)' => page'[p].slot \in 1..Slots
               /\ \A s \in 1..Slots : rec'[s].page # None =>
                     IsOpen(rec[s].page)' /\ page'[rec'[s].page].slot = s
               /\ \A s \in 1..Slots : Alive(s)' => rec'[s].page # None
  BY DEF Recorded
<1> DEFINE Goal == /\ \A p \in Pages : IsOpen(p)' => page'[p].slot \in 1..Slots
                   /\ \A s \in 1..Slots : rec'[s].page # None =>
                         IsOpen(rec[s].page)' /\ page'[rec'[s].page].slot = s
                   /\ \A s \in 1..Slots : Alive(s)' => rec'[s].page # None
<1>2. CASE SameHold
  <2>1. /\ \A s \in 1..Slots : (Alive(s)' <=> Alive(s)) /\ rec'[s].page = rec[s].page
        /\ \A p \in Pages : (IsOpen(p)' <=> IsOpen(p)) /\ page'[p].slot = page[p].slot
    BY <1>2, SameEach, PageStates, RecordStates DEF SameHold
  <2>2. QED  BY <1>0, <2>1 DEF IsOpen
<1>3. ASSUME NEW v \in Views, NEW z \in 1..Slots, NEW p \in Pages, Makes(v, z, p) PROVE Goal
  <2>1. /\ \A s \in 1..Slots \ {z} : (Alive(s)' <=> Alive(s)) /\ rec'[s].page = rec[s].page
        /\ \A x \in Pages \ {p} : (IsOpen(x)' <=> IsOpen(x)) /\ page'[x].slot = page[x].slot
    BY <1>3, PageStates, RecordStates DEF Makes
  <2>2. rec'[z].page = p /\ page'[p].slot = z /\ page'[p].state = "open" /\ page[p].state = "none"
        /\ p # None
    BY <1>3, CefAssumption DEF Makes
  <2>3. QED  BY <1>0, <2>1, <2>2 DEF IsOpen
<1>4. ASSUME NEW v \in Views, MakesNone(v) PROVE Goal
  <2>1. /\ \A s \in 1..Slots : \/ (Alive(s)' <=> Alive(s)) /\ rec'[s].page = rec[s].page
                               \/ ~Alive(s)' /\ rec'[s].page = None
        /\ \A p \in Pages : (IsOpen(p)' <=> IsOpen(p)) /\ page'[p].slot = page[p].slot
    BY <1>4, SameEach, PageStates, RecordStates DEF MakesNone, Unused, Alive
  <2>2. QED  BY <1>0, <2>1 DEF IsOpen
<1>5. ASSUME NEW v \in Views, GivesUp(v) PROVE Goal
  <2>1. /\ \A s \in 1..Slots : (Alive(s)' <=> Alive(s)) /\ rec'[s].page = rec[s].page
        /\ \A p \in Pages : (IsOpen(p)' <=> IsOpen(p)) /\ page'[p].slot = page[p].slot
    BY <1>5, SameEach, PageStates, RecordStates DEF GivesUp
  <2>2. QED  BY <1>0, <2>1 DEF IsOpen
<1>6. ASSUME NEW p \in Pages, NEW o \in Pages, Pops(p, o) PROVE Goal
  <2>1. \A x \in Pages \ {o} : (IsOpen(x)' <=> IsOpen(x)) /\ page'[x].slot = page[x].slot
    BY <1>6, PageStates DEF Pops
  <2>2. /\ \A s \in 1..Slots : Alive(s)' <=> Alive(s)
        /\ \A s \in 1..Slots : \/ rec'[s].page = rec[s].page
                               \/ s = page[p].slot /\ rec'[s].page = o
    BY <1>6 DEF Pops, Alive
  <2>3. /\ page'[o].state = "open" /\ page'[o].slot = page[p].slot /\ page[o].state = "none"
        /\ page[p].state = "open" /\ o # None
    BY <1>6, CefAssumption DEF Pops
  <2>4. QED  BY <1>0, <2>1, <2>2, <2>3 DEF IsOpen
<1>7. ASSUME NEW p \in Pages, Closes(p) PROVE Goal
  <2>1. \A x \in Pages \ {p} : (IsOpen(x)' <=> IsOpen(x)) /\ page'[x].slot = page[x].slot
    BY <1>7, PageStates DEF Closes
  <2>2. \A s \in 1..Slots \ {page[p].slot} : (Alive(s)' <=> Alive(s)) /\ rec'[s].page = rec[s].page
    BY <1>7, RecordStates DEF Closes
  <2>3. PICK z \in 1..Slots : z = page[p].slot
    BY <1>0, <1>7 DEF Closes
  <2>4. page'[p].state = "closed" /\ ~Alive(z)' /\ rec'[z].page = None
    BY <1>7, <2>3 DEF Closes, Alive
  <2>5. QED  BY <1>0, <2>1, <2>2, <2>3, <2>4 DEF IsOpen
<1>8. QED
  BY <1>2, <1>3, <1>4, <1>5, <1>6, <1>7, HoldSteps

LEMMA ShapeStep == CefShape /\ [CefNext]_cefVars => CefShape'
BY CefTypedStep, RecordedStep DEF CefShape

LEMMA UnmadeStep ==
    ASSUME CefShape, Unmade, [CefNext]_cefVars
    PROVE  Unmade'
<1>0. /\ \A v \in Views : ~view[v].created => view[v].handle = 0
      /\ \A v \in Views : view[v].page \in Pages \cup {None}
      /\ \A v \in Views : view[v].page # None => page[view[v].page].state # "none"
  BY DEF Unmade, CefShape, CefTypeOK, Controls
<1> DEFINE Goal == \A v \in Views : /\ ~view'[v].created => view'[v].handle = 0
                                    /\ view'[v].page # None => page'[view'[v].page].state # "none"
<1>1. SUFFICES Goal
  BY DEF Unmade
<1>2. CASE SameHold
  <2>1. /\ \A p \in Pages : page[p].state # "none" => page'[p].state # "none"
        /\ \A w \in Views : SameHandle(w)
    BY <1>2, SameEach, PageStates DEF SameHold
  <2>2. QED  BY <1>0, <2>1 DEF SameHandle
<1>3. ASSUME NEW v \in Views, NEW z \in 1..Slots, NEW p \in Pages, Makes(v, z, p) PROVE Goal
  <2>1. /\ \A x \in Pages \ {p} : page[x].state # "none" => page'[x].state # "none"
        /\ page'[p].state # "none"
    BY <1>3, PageStates DEF Makes
  <2>2. view'[v].created /\ view'[v].page = p /\ \A w \in Views \ {v} : SameHandle(w)
    BY <1>3 DEF Makes
  <2>3. QED  BY <1>0, <2>1, <2>2 DEF SameHandle
<1>4. ASSUME NEW v \in Views, MakesNone(v) PROVE Goal
  <2>1. \A p \in Pages : page[p].state # "none" => page'[p].state # "none"
    BY <1>4, SameEach, PageStates DEF MakesNone
  <2>2. QED  BY <1>0, <1>4, <2>1 DEF MakesNone
<1>5. ASSUME NEW v \in Views, GivesUp(v) PROVE Goal
  <2>1. \A p \in Pages : page[p].state # "none" => page'[p].state # "none"
    BY <1>5, SameEach, PageStates DEF GivesUp
  <2>2. /\ view'[v].handle = 0 /\ view'[v].page = view[v].page
        /\ \A w \in Views \ {v} : SameHandle(w)
    BY <1>5 DEF GivesUp
  <2>3. QED  BY <1>0, <2>1, <2>2 DEF SameHandle
<1>6. ASSUME NEW p \in Pages, NEW o \in Pages, Pops(p, o) PROVE Goal
  <2>1. /\ \A x \in Pages \ {o} : page[x].state # "none" => page'[x].state # "none"
        /\ page'[o].state # "none" /\ \A w \in Views : SameHandle(w)
    BY <1>6, PageStates, SameEach DEF Pops
  <2>2. QED  BY <1>0, <2>1 DEF SameHandle
<1>7. ASSUME NEW p \in Pages, Closes(p) PROVE Goal
  <2>1. /\ \A x \in Pages \ {p} : page[x].state # "none" => page'[x].state # "none"
        /\ page'[p].state # "none" /\ \A w \in Views : SameHandle(w)
    BY <1>7, PageStates, SameEach DEF Closes
  <2>2. QED  BY <1>0, <2>1 DEF SameHandle
<1>8. QED
  BY <1>2, <1>3, <1>4, <1>5, <1>6, <1>7, HoldSteps

\* An owner made its page in this step, or was the owner before it.
LEMMA OwnerBefore ==
    ASSUME CefShape, Unmade, [CefNext]_cefVars, NEW v \in Views, Owner(v)'
    PROVE  \/ \E s \in 1..Slots, p \in Pages : Makes(v, s, p)
           \/ /\ Owner(v) /\ view'[v].handle = view[v].handle
              /\ rec'[view[v].handle].page = rec[view[v].handle].page
<1>0. /\ view[v].handle \in 0..Slots /\ view'[v].handle \in 0..Slots
      /\ \A s \in 1..Slots : Alive(s) => rec[s].page # None
      /\ view[v].page \in Pages \cup {None}
      /\ view[v].page # None => page[view[v].page].state # "none"
  <2>1. CefTypeOK'
    BY CefTypedStep
  <2>2. QED  BY <2>1 DEF CefShape, Recorded, CefTypeOK, Controls, Unmade
<1>1. /\ Alive(view[v].handle)' /\ rec'[view'[v].handle].page = view'[v].page /\ view'[v].clear
  BY DEF Owner, PageOf, Mine
<1>2. view'[v].handle \in 1..Slots
  BY <1>0, <1>1, CefAssumption DEF Alive
<1>a. PICK k \in 1..Slots : k = view'[v].handle /\ Alive(k)'
  BY <1>1, <1>2 DEF Alive
<1> DEFINE Before == /\ Owner(v) /\ view'[v].handle = view[v].handle
                     /\ rec'[view[v].handle].page = rec[view[v].handle].page
<1>3. ASSUME SameHandle(v), SameRecord(k) PROVE Before
  <2>1. view[v].handle = k /\ Alive(k) /\ rec'[k].page = rec[k].page
        /\ rec[k].page = view[v].page /\ view[v].clear
    BY <1>1, <1>a, <1>3, RecordStates DEF SameHandle
  <2>2. QED  BY <1>a, <2>1 DEF Owner, PageOf, Mine
<1>4. CASE SameHold
  BY <1>3, <1>4, SameEach DEF SameHold
<1>5. ASSUME NEW w \in Views, NEW s \in 1..Slots, NEW p \in Pages, Makes(w, s, p)
      PROVE  Before \/ \E t \in 1..Slots, x \in Pages : Makes(v, t, x)
  <2>1. CASE w = v
    BY <1>5, <2>1
  <2>2. ASSUME w # v PROVE Before
    <3>1. SameHandle(v)
      BY <1>5, <2>2 DEF Makes
    <3>2. k # s
      <4>1. SUFFICES ASSUME k = s PROVE FALSE
        OBVIOUS
      <4>2. rec'[s].page = p /\ page[p].state = "none" /\ p # None
        BY <1>5, CefAssumption DEF Makes
      <4>3. view[v].page = p
        BY <1>1, <1>a, <3>1, <4>1, <4>2 DEF SameHandle
      <4>4. QED  BY <1>0, <4>2, <4>3
    <3>3. SameRecord(k)
      BY <1>5, <3>2 DEF Makes
    <3>4. QED  BY <1>3, <3>1, <3>3
  <2>3. QED  BY <2>1, <2>2
<1>6. ASSUME NEW w \in Views, MakesNone(w) PROVE Before
  <2>1. SameRecord(k)
    BY <1>6, <1>a DEF MakesNone, Alive, Unused
  <2>2. /\ view'[v].handle = view[v].handle /\ view'[v].page = view[v].page
        /\ view'[v].clear = view[v].clear
    BY <1>6 DEF MakesNone
  <2>3. view[v].handle = k /\ Alive(k) /\ rec'[k].page = rec[k].page
        /\ rec[k].page = view[v].page /\ view[v].clear
    BY <1>1, <1>a, <2>1, <2>2, RecordStates
  <2>4. QED  BY <1>a, <2>3 DEF Owner, PageOf, Mine
<1>7. ASSUME NEW w \in Views, GivesUp(w) PROVE Before
  <2>1. w # v
    BY <1>7, <1>2 DEF GivesUp
  <2>2. SameHandle(v) /\ SameRecord(k)
    BY <1>7, <2>1, SameEach DEF GivesUp
  <2>3. QED  BY <1>3, <2>2
<1>8. ASSUME NEW p \in Pages, NEW o \in Pages, Pops(p, o) PROVE Before
  <2>1. Alive(k)
    BY <1>8, <1>a DEF Pops, Alive
  <2>2. SameHandle(v) /\ SameRecord(k)
    BY <1>0, <1>8, <2>1, SameEach DEF Pops, SameRecord
  <2>3. QED  BY <1>3, <2>2
<1>9. ASSUME NEW p \in Pages, Closes(p) PROVE Before
  <2>1. k # page[p].slot
    BY <1>9, <1>a DEF Closes, Alive
  <2>2. SameHandle(v) /\ SameRecord(k)
    BY <1>9, <2>1, SameEach DEF Closes
  <2>3. QED  BY <1>3, <2>2
<1>10. QED
  BY <1>4, <1>5, <1>6, <1>7, <1>8, <1>9, HoldSteps

\* A handle is kept, given up, or that of a record that was not alive.
LEMMA HandleAfter ==
    ASSUME CefShape, [CefNext]_cefVars, NEW w \in Views
    PROVE  \/ view'[w].handle \in {view[w].handle, 0}
           \/ view'[w].handle \in 1..Slots /\ ~Alive(view'[w].handle)
<1> DEFINE Goal == \/ view'[w].handle \in {view[w].handle, 0}
                   \/ \E s \in 1..Slots : view'[w].handle = s /\ ~Alive(s)
<1>1. CASE SameHold
  BY <1>1 DEF SameHold, SameHandles, SameHandle
<1>2. ASSUME NEW v \in Views, NEW s \in 1..Slots, NEW p \in Pages, Makes(v, s, p) PROVE Goal
  BY <1>2 DEF Makes, SameHandle, FirstFree, Reclaimable, Alive
<1>3. ASSUME NEW v \in Views, MakesNone(v) PROVE Goal
  BY <1>3 DEF MakesNone
<1>4. ASSUME NEW v \in Views, GivesUp(v) PROVE Goal
  BY <1>4 DEF GivesUp, SameHandle
<1>5. ASSUME NEW p \in Pages, NEW o \in Pages, Pops(p, o) PROVE Goal
  BY <1>5 DEF Pops, SameHandles, SameHandle
<1>6. ASSUME NEW p \in Pages, Closes(p) PROVE Goal
  BY <1>6 DEF Closes, SameHandles, SameHandle
<1>7. Goal
  BY <1>1, <1>2, <1>3, <1>4, <1>5, <1>6, HoldSteps
<1>8. QED  BY <1>7

LEMMA OneOwnerStep ==
    ASSUME CefShape, Unmade, OneOwner, [CefNext]_cefVars
    PROVE  OneOwner'
<1>1. SUFFICES ASSUME NEW v \in Views, NEW w \in Views, Owner(v)',
                      view'[w].handle = view'[v].handle, w # v
               PROVE  FALSE
  BY DEF OneOwner
<1>2. CASE \E s \in 1..Slots, p \in Pages : Makes(v, s, p)
  <2>1. PICK s \in 1..Slots, p \in Pages : Makes(v, s, p)
    BY <1>2
  <2>2. view'[v].handle = s /\ view'[v].clear = Unheard(v, s) /\ SameHandle(w)
    BY <1>1, <2>1 DEF Makes
  <2>3. Unheard(v, s)
    BY <1>1, <2>2 DEF Owner
  <2>4. view[w].handle # s
    BY <2>3 DEF Unheard
  <2>5. QED  BY <1>1, <2>2, <2>4 DEF SameHandle
<1>3. CASE Owner(v) /\ view'[v].handle = view[v].handle
  <2>1. Alive(view[v].handle) /\ view[v].handle # 0
    BY <1>3 DEF Owner, Alive
  <2>2. view'[w].handle = view[v].handle
    BY <1>1, <1>3
  <2>3. view[w].handle = view[v].handle
    BY <2>1, <2>2, HandleAfter
  <2>4. QED  BY <1>1, <1>3, <2>3 DEF OneOwner
<1>4. QED  BY <1>1, <1>2, <1>3, OwnerBefore

LEMMA OwnRecordStep ==
    ASSUME CefShape, OwnRecord, [CefNext]_cefVars
    PROVE  (Alone' => Alone) /\ OwnRecord'
<1>0. /\ \A p \in Pages : IsOpen(p) => page[p].slot \in 1..Slots
      /\ \A s \in 1..Slots : rec[s].page # None =>
            IsOpen(rec[s].page) /\ page[rec[s].page].slot = s
      /\ \A s \in 1..Slots : Alive(s) => rec[s].page # None
      /\ \A s \in 1..Slots : rec[s].page \in Pages \cup {None}
      /\ \A p \in Pages : page[p].state = "none" => ~page[p].popup
      /\ Alone => \A p \in Pages : IsOpen(p) =>
            Alive(page[p].slot) /\ rec[page[p].slot].page = p
  BY DEF CefShape, Recorded, CefTypeOK, Records, OwnRecord
<1> DEFINE Goal ==
    /\ \A p \in Pages : page'[p].state = "none" => ~page'[p].popup
    /\ (\A p \in Pages : ~page'[p].popup) =>
         /\ Alone
         /\ \A p \in Pages, s \in 1..Slots : IsOpen(p)' /\ page'[p].slot = s =>
               Alive(s)' /\ rec'[s].page = p
<1>1. SUFFICES Goal
  <2>1. Recorded'
    BY RecordedStep
  <2>2. \A p \in Pages : IsOpen(p)' => page'[p].slot \in 1..Slots
    BY <2>1 DEF Recorded
  <2>3. ASSUME Goal PROVE Alone' => Alone
    BY <2>3 DEF Alone
  <2>4. ASSUME Goal PROVE OwnRecord'
    <3>0. \A p \in Pages : page'[p].state = "none" => ~page'[p].popup
      BY <2>4
    <3>1. SUFFICES ASSUME Alone', NEW p \in Pages, IsOpen(p)'
                   PROVE  Alive(page[p].slot)' /\ rec'[page'[p].slot].page = p
      BY <3>0 DEF OwnRecord
    <3>2. PICK s \in 1..Slots : s = page'[p].slot
      BY <2>2, <3>1
    <3>3. Alive(s)' /\ rec'[s].page = p
      BY <2>4, <3>1, <3>2 DEF Alone
    <3>4. QED  BY <3>2, <3>3 DEF Alive
  <2>5. QED  BY <2>3, <2>4
<1>2. CASE SameHold
  <2>1. /\ \A s \in 1..Slots : (Alive(s)' <=> Alive(s)) /\ rec'[s].page = rec[s].page
        /\ \A p \in Pages : /\ (IsOpen(p)' <=> IsOpen(p)) /\ (page'[p].state # "none" <=> page[p].state # "none")
                            /\ page'[p].slot = page[p].slot /\ page'[p].popup = page[p].popup
    BY <1>2, SameEach, PageStates, RecordStates DEF SameHold
  <2>2. QED  BY <1>0, <2>1 DEF Alone
<1>3. ASSUME NEW v \in Views, NEW z \in 1..Slots, NEW p \in Pages, Makes(v, z, p) PROVE Goal
  <2>1. /\ \A s \in 1..Slots \ {z} : (Alive(s)' <=> Alive(s)) /\ rec'[s].page = rec[s].page
        /\ \A x \in Pages \ {p} : /\ (IsOpen(x)' <=> IsOpen(x)) /\ (page'[x].state # "none" <=> page[x].state # "none")
                                  /\ page'[x].slot = page[x].slot /\ page'[x].popup = page[x].popup
    BY <1>3, PageStates, RecordStates DEF Makes
  <2>2. /\ rec'[z].page = p /\ page'[p].slot = z /\ ~page'[p].popup /\ Alive(z)' /\ ~Alive(z)
        /\ page[p].state = "none" /\ page'[p].state = "open"
    BY <1>3, CefAssumption DEF Makes, FirstFree, Reclaimable, Alive
  <2>4. QED  BY <1>0, <2>1, <2>2 DEF Alone
<1>4. ASSUME NEW v \in Views, MakesNone(v) PROVE Goal
  <2>1. /\ \A s \in 1..Slots : \/ (Alive(s)' <=> Alive(s)) /\ rec'[s].page = rec[s].page
                               \/ ~Alive(s)
        /\ \A p \in Pages : /\ (IsOpen(p)' <=> IsOpen(p)) /\ (page'[p].state # "none" <=> page[p].state # "none")
                            /\ page'[p].slot = page[p].slot /\ page'[p].popup = page[p].popup
    BY <1>4, SameEach, PageStates, RecordStates DEF MakesNone
  <2>2. QED  BY <1>0, <2>1 DEF Alone
<1>5. ASSUME NEW v \in Views, GivesUp(v) PROVE Goal
  <2>1. /\ \A s \in 1..Slots : (Alive(s)' <=> Alive(s)) /\ rec'[s].page = rec[s].page
        /\ \A p \in Pages : /\ (IsOpen(p)' <=> IsOpen(p)) /\ (page'[p].state # "none" <=> page[p].state # "none")
                            /\ page'[p].slot = page[p].slot /\ page'[p].popup = page[p].popup
    BY <1>5, SameEach, PageStates, RecordStates DEF GivesUp
  <2>2. QED  BY <1>0, <2>1 DEF Alone
<1>6. ASSUME NEW p \in Pages, NEW o \in Pages, Pops(p, o) PROVE Goal
  <2>1. \A x \in Pages \ {o} : page'[x].state = "none" => ~page'[x].popup
    BY <1>0, <1>6, PageStates DEF Pops
  <2>2. page'[o].popup /\ page'[o].state = "open"
    BY <1>6 DEF Pops
  <2>3. QED  BY <2>1, <2>2
<1>7. ASSUME NEW p \in Pages, Closes(p) PROVE Goal
  <2>1. \A x \in Pages \ {p} : /\ (IsOpen(x)' <=> IsOpen(x)) /\ (page'[x].state # "none" <=> page[x].state # "none")
                               /\ page'[x].slot = page[x].slot /\ page'[x].popup = page[x].popup
    BY <1>7, PageStates DEF Closes
  <2>2. \A s \in 1..Slots \ {page[p].slot} : (Alive(s)' <=> Alive(s)) /\ rec'[s].page = rec[s].page
    BY <1>7, RecordStates DEF Closes
  <2>3. page'[p].state = "closed" /\ page'[p].popup = page[p].popup /\ IsOpen(p)
    BY <1>7 DEF Closes
  <2>4. ~IsOpen(p)'
    BY <2>3 DEF IsOpen
  <2>5. QED  BY <1>0, <2>1, <2>2, <2>3, <2>4 DEF Alone
<1>8. QED
  BY <1>2, <1>3, <1>4, <1>5, <1>6, <1>7, HoldSteps


(***************************************************************************)
(* What a step does not reach.                                             *)
(***************************************************************************)
\* A view that calls into a record touches no other, nor another's page.
LEMMA ViewElsewhere ==
    ASSUME CefShape, NEW v \in Views, ViewNext(v), ~Create(v), ~CreateFails(v)
    PROVE  /\ \A w \in Views \ {v} : view'[w] = view[w]
           /\ \A s \in 1..Slots : s # view[v].handle => rec'[s] = rec[s]
           /\ \A x \in Pages : (Alive(view[v].handle) => x # PageOf(v)) => page'[x] = page[x]
<1>0. /\ rec \in [1..Slots -> Records] /\ view \in [Views -> Controls]
      /\ page \in [Pages -> PageRecords]
  BY DEF CefShape, CefTypeOK
<1> DEFINE Goal == /\ \A w \in Views \ {v} : view'[w] = view[w]
                   /\ \A s \in 1..Slots : s # view[v].handle => rec'[s] = rec[s]
                   /\ \A x \in Pages : (Alive(view[v].handle) => x # PageOf(v)) => page'[x] = page[x]
<1>1. ASSUME NEW r, NEW g, NEW c,
             rec' = rec \/ rec' = [rec EXCEPT ![view[v].handle] = r],
             page' = page \/ page' = [page EXCEPT ![PageOf(v)] = g],
             view' = view \/ view' = [view EXCEPT ![v] = c],
             page' = page \/ Alive(view[v].handle)
      PROVE  Goal
  BY <1>0, <1>1
<1>2. ASSUME Destroy(v) PROVE Goal
  <2>1. CASE ~Alive(view[v].handle)
    BY <1>1, <1>2, <2>1 DEF Destroy
  <2>2. CASE Alive(view[v].handle)
    BY <1>1, <1>2, <2>2 DEF Destroy, PageOf, Mine
  <2>3. QED  BY <2>1, <2>2
<1>3. ASSUME Destroyed(v) PROVE Goal
  BY <1>1, <1>3 DEF Destroyed
<1>4. ASSUME NEW x \in Places, SetBounds(v, x) PROVE Goal
  <2>1. page' = [page EXCEPT ![PageOf(v)] = [page[PageOf(v)] EXCEPT !.place = x]]
    BY <1>0, <1>4 DEF SetBounds
  <2>2. rec' = [rec EXCEPT ![view[v].handle] = Moved(rec[view[v].handle], x)]
    BY <1>0, <1>4 DEF SetBounds
  <2>3. QED  BY <1>1, <1>4, <2>1, <2>2 DEF SetBounds, Reaches
<1>5. ASSUME NEW c \in Regions \cup {None}, SetClip(v, c) PROVE Goal
  BY <1>1, <1>5 DEF SetClip, Reaches, PageOf
<1>6. ASSUME Poll(v) PROVE Goal
  BY <1>1, <1>6 DEF Poll
<1>7. ASSUME Send(v) PROVE Goal
  <2>1. PICK r, g, c : /\ r = [rec[view[v].handle] EXCEPT !.id = Mine(v).id + 1]
                       /\ g = [page[PageOf(v)] EXCEPT !.owed = @ \cup {Mine(v).id + 1}]
                       /\ c = [view[v] EXCEPT !.waiting =
                                   Append(@, [id |-> Mine(v).id + 1, page |-> PageOf(v)])]
    OBVIOUS
  <2>2. /\ rec' = [rec EXCEPT ![view[v].handle] = r]
        /\ page' = [page EXCEPT ![PageOf(v)] = g]
        /\ view' = [view EXCEPT ![v] = c]
    BY <1>0, <1>7, <2>1 DEF Send
  <2>3. QED  BY <1>1, <1>7, <2>2 DEF Send, Reaches
<1>8. ASSUME TakeMessage(v) PROVE Goal
  <2>1. PICK r, g, c : /\ rec' = [rec EXCEPT ![view[v].handle] = r]
                       /\ page' = [page EXCEPT ![PageOf(v)] = g]
                       /\ view' = [view EXCEPT ![v].waiting = c]
    BY <1>8 DEF TakeMessage, PageOf
  <2>2. view' = [view EXCEPT ![v] = [view[v] EXCEPT !.waiting = c]]
    BY <1>0, <2>1
  <2>3. QED  BY <1>1, <1>8, <2>1, <2>2 DEF TakeMessage, Reaches
<1>9. ASSUME TakePopup(v) PROVE Goal
  <2>1. PICK r, g : /\ r = [rec[view[v].handle] EXCEPT !.popup = None]
                    /\ g = [page[PageOf(v)] EXCEPT !.handed = @ + 1]
    OBVIOUS
  <2>2. /\ rec' = [rec EXCEPT ![view[v].handle] = r]
        /\ page' = [page EXCEPT ![PageOf(v)] = g] /\ view' = view
    BY <1>0, <1>9, <2>1 DEF TakePopup
  <2>3. QED  BY <1>1, <1>9, <2>2 DEF TakePopup, Reaches
<1>10. QED
  BY <1>2, <1>3, <1>4, <1>5, <1>6, <1>7, <1>8, <1>9, Zenon DEF ViewNext

\* Nor does the creation of a page for it.
LEMMA MadeElsewhere ==
    ASSUME CefShape, NEW v \in Views, NEW s \in 1..Slots, NEW p \in Pages,
           NEW x \in Places, NEW told \in BOOLEAN, CreateAt(v, s, p, x, told)
    PROVE  /\ \A w \in Views \ {v} : view'[w] = view[w]
           /\ \A t \in 1..Slots : t # s => rec'[t] = rec[t]
           /\ \A o \in Pages : o # p => page'[o] = page[o]
<1>0. /\ rec \in [1..Slots -> Records] /\ view \in [Views -> Controls]
      /\ page \in [Pages -> PageRecords]
  BY DEF CefShape, CefTypeOK
<1>1. \E g, r, c : /\ page' = [page EXCEPT ![p] = g] /\ rec' = [rec EXCEPT ![s] = r]
                   /\ view' = [view EXCEPT ![v] = c]
  BY Zenon DEF CreateAt
<1>2. QED  BY <1>0, <1>1

\* Or one that fails.
LEMMA FailsElsewhere ==
    ASSUME CefShape, NEW v \in Views, CreateFails(v)
    PROVE  /\ \A w \in Views \ {v} : view'[w] = view[w]
           /\ \A t \in 1..Slots : rec'[t] = rec[t] \/ ~Alive(t)' 
           /\ UNCHANGED page
<1>0. /\ rec \in [1..Slots -> Records] /\ view \in [Views -> Controls]
  BY DEF CefShape, CefTypeOK
<1>1. rec' = rec \/ \E s \in 1..Slots : FirstFree(s) /\ rec' = [rec EXCEPT ![s] = Unused]
  <2>1. 1 \in 1..Slots
    BY CefAssumption
  <2>2. QED  BY <2>1, Zenon DEF CreateFails
<1>2. Unused.used = FALSE
  BY DEF Unused
<1>3. ASSUME NEW t \in 1..Slots PROVE rec'[t] = rec[t] \/ ~Alive(t)'
  BY <1>0, <1>1, <1>2 DEF Alive
<1>4. PICK c : view' = [view EXCEPT ![v] = c]
  <2>1. view' = [view EXCEPT ![v] = [view[v] EXCEPT !.created = TRUE]]
    BY <1>0 DEF CreateFails
  <2>2. QED  BY <2>1
<1>5. QED  BY <1>0, <1>3, <1>4 DEF CreateFails

\* A page calls into one record, and but for the reference it gives back it
\* touches no other page that is open.
LEMMA PageElsewhere ==
    ASSUME CefShape, NEW p \in Pages, PageNext(p)
    PROVE  /\ UNCHANGED view /\ IsOpen(p)
           /\ \A s \in 1..Slots : s # page[p].slot => rec'[s] = rec[s]
           /\ \A x \in Pages : (/\ x # p /\ IsOpen(x)
                                /\ BeforeClose(p) => page[x].slot # page[p].slot)
                                  => page'[x] = page[x]
<1>0. /\ rec \in [1..Slots -> Records] /\ page \in [Pages -> PageRecords]
      /\ \A s \in 1..Slots : rec[s].page # None =>
            IsOpen(rec[s].page) /\ page[rec[s].page].slot = s
  BY DEF CefShape, CefTypeOK, Recorded
<1>1. UNCHANGED view /\ IsOpen(p)
  BY Zenon DEF PageNext, Says, Navigates, OpensPopup, DoClose, BeforeClose, IsOpen
<1>2. page[p].slot \in 1..Slots
  BY <1>1, OpenRecord
<1> DEFINE Elsewhere(x) == (/\ x # p /\ IsOpen(x)
                            /\ BeforeClose(p) => page[x].slot # page[p].slot)
                              => page'[x] = page[x]
<1>3. ASSUME NEW s \in 1..Slots, s # page[p].slot PROVE rec'[s] = rec[s]
  <2>1. rec' = rec \/ \E r : Tell(p, r)
    BY Zenon DEF PageNext, Says, Navigates, OpensPopup, DoClose, BeforeClose
  <2>2. QED  BY <1>0, <1>2, <1>3, <2>1 DEF Tell
<1>4. ASSUME NEW x \in Pages PROVE Elsewhere(x)
  <2>1. SUFFICES ASSUME x # p, IsOpen(x), BeforeClose(p) => page[x].slot # page[p].slot
                 PROVE  page'[x] = page[x]
    OBVIOUS
  <2>2. CASE Says(p)
    <3>1. PICK id : page' = [page EXCEPT ![p].said = @ + 1, ![p].owed = @ \ {id}]
      BY <2>2 DEF Says
    <3>2. QED  BY <1>0, <2>1, <3>1
  <2>3. CASE Navigates(p)
    BY <1>0, <2>1, <2>3 DEF Navigates
  <2>4. CASE DoClose(p)
    BY <1>0, <2>1, <2>4 DEF DoClose
  <2>5. CASE OpensPopup(p)
    <3>1. \/ \E e : page' = [page EXCEPT ![p] = e]
          \/ page' = [page EXCEPT ![p].opened = @ + 1]
          \/ \E o \in Pages : \E e : /\ page[o].state = "none"
                                      /\ page' = [page EXCEPT ![o] = e, ![p].opened = @ + 1]
      <4>1. \/ \E o \in Pages :
                  /\ page[o].state = "none"
                  /\ page' = [page EXCEPT
                       ![o] = [Unopened EXCEPT !.state = "open", !.slot = page[p].slot,
                                   !.popup = TRUE, !.shown = TRUE,
                                   !.held = IF Told(p).page = None THEN 1 ELSE 0],
                       ![p].opened = @ + 1]
            \/ page' = [page EXCEPT ![p].opened = @ + 1]
            \/ \E u \in {p, None} :
                  page' = [page EXCEPT ![p] = Opened(@, Told(p).popup = None /\ u = None)]
        BY <2>5, Zenon DEF OpensPopup
      <4>2. QED  BY <4>1
    <3>2. page[x].state # "none"
      BY <2>1 DEF IsOpen
    <3>3. QED  BY <1>0, <2>1, <3>1, <3>2
  <2>6. CASE BeforeClose(p)
    <3>1. PICK gone : page' = IF rec[page[p].slot].page = None THEN [page EXCEPT ![p] = gone]
                              ELSE [[page EXCEPT ![p] = gone] EXCEPT ![rec[page[p].slot].page].held = @ - 1]
      BY <2>6 DEF BeforeClose, Told
    <3>2. rec[page[p].slot].page = None \/ rec[page[p].slot].page # x
      BY <1>0, <1>2, <2>1, <2>6
    <3>3. QED  BY <1>0, <2>1, <3>1, <3>2
  <2>7. QED  BY <2>2, <2>3, <2>4, <2>5, <2>6, Zenon DEF PageNext
<1>5. QED  BY <1>1, <1>3, <1>4

(***************************************************************************)
(* Pages and their owners.                                                 *)
(***************************************************************************)
\* A view that has no handle makes no call but to create.
LEMMA ActsWithHandle ==
    ASSUME NEW v, ViewNext(v), ~Create(v), ~CreateFails(v), ~Destroyed(v)
    PROVE  view[v].handle # 0
BY Zenon DEF ViewNext, Destroy, SetBounds, SetClip, Poll, Send, TakeMessage, TakePopup,
             Reaches, Alive

\* Who has the loop: a view in Destroy until its page has gone or it gave up,
\* and nobody after the end.
LEMMA RunningSteps ==
    ASSUME CefShape, [CefNext]_cefVars
    PROVE  /\ running' \in Views => Destroy(running') \/ (running' = running /\ UNCHANGED view)
           /\ running = "shut" => running' = "shut"
<1>0. Views \cap {"down", "ready", "closing", "shut"} = {}
  BY CefAssumption
<1>1. ASSUME NEW v \in Views, ViewNext(v)
      PROVE  /\ running \in {"ready", v}
             /\ running' \in {"ready", v}
             /\ running' = v => Destroy(v)
  <2>1. CASE Destroy(v)
    BY <2>1, Zenon DEF Destroy, Idle
  <2>2. CASE Destroyed(v)
    BY <1>0, <2>2 DEF Destroyed
  <2>3. CASE ~Destroy(v) /\ ~Destroyed(v)
    <3>1. Idle /\ running' = running
      BY <1>1, <2>3, Zenon DEF ViewNext, Create, CreateFails, SetBounds, SetClip, Poll, Send,
           TakeMessage, TakePopup, Reaches
    <3>2. QED  BY <1>0, <3>1 DEF Idle
  <2>4. QED  BY <2>1, <2>2, <2>3
<1>2. ASSUME NEW p \in Pages, PageNext(p) PROVE Turning /\ running' = running /\ UNCHANGED view
  BY <1>2, Zenon DEF PageNext, Says, Navigates, OpensPopup, DoClose, BeforeClose
<1>3. CASE Start \/ Shutdown \/ ShutdownEnds \/ UNCHANGED cefVars
  BY <1>0, <1>3 DEF Start, Shutdown, ShutdownEnds, cefVars, Idle
<1>4. ASSUME NEW v \in Views, ViewNext(v)
      PROVE  /\ running' \in Views => Destroy(running')
             /\ running # "shut"
  BY <1>0, <1>1, <1>4
<1>5. QED
  BY <1>0, <1>2, <1>3, <1>4 DEF CefNext, Turning

\* A page that was asked to close is not asked less while it is open.
LEMMA OpenPages ==
    ASSUME CefShape, [CefNext]_cefVars, NEW x \in Pages, IsOpen(x)', IsOpen(x)
    PROVE  SamePage(x)
<1>1. page[x].state # "none" /\ page'[x].state # "closed"
  BY DEF IsOpen
<1>2. CASE SameHold
  BY <1>2, SameEach DEF SameHold
<1>3. ASSUME NEW v \in Views, NEW z \in 1..Slots, NEW p \in Pages, Makes(v, z, p) PROVE SamePage(x)
  BY <1>1, <1>3 DEF Makes
<1>4. ASSUME NEW v \in Views, MakesNone(v) \/ GivesUp(v) PROVE SamePage(x)
  BY <1>4, SameEach DEF MakesNone, GivesUp
<1>5. ASSUME NEW p \in Pages, NEW o \in Pages, Pops(p, o) PROVE SamePage(x)
  BY <1>1, <1>5 DEF Pops
<1>6. ASSUME NEW p \in Pages, Closes(p) PROVE SamePage(x)
  BY <1>1, <1>6 DEF Closes
<1>7. QED  BY <1>2, <1>3, <1>4, <1>5, <1>6, HoldSteps

\* A record that stays alive keeps its page.
LEMMA AliveKeeps ==
    ASSUME CefShape, [CefNext]_cefVars, NEW s \in 1..Slots, Alive(s), Alive(s)'
    PROVE  /\ rec'[s].page = rec[s].page /\ rec[s].page \in Pages
           /\ SamePage(rec[s].page)
<1>1. rec[s].page \in Pages /\ IsOpen(rec[s].page) /\ rec[s].page # None
  BY AliveRecord, CefAssumption
<1>2. rec'[s].page = rec[s].page
  <2>1. SameRecord(s) => rec'[s].page = rec[s].page
    BY DEF SameRecord
  <2>2. CASE SameHold
    BY <2>1, <2>2, SameEach DEF SameHold
  <2>3. ASSUME NEW v \in Views, NEW z \in 1..Slots, NEW p \in Pages, Makes(v, z, p)
        PROVE  SameRecord(s)
    BY <2>3 DEF Makes, FirstFree, Reclaimable, Alive
  <2>4. ASSUME NEW v \in Views, MakesNone(v) \/ GivesUp(v) PROVE SameRecord(s)
    BY <2>4, SameEach DEF MakesNone, GivesUp
  <2>5. ASSUME NEW p \in Pages, NEW o \in Pages, Pops(p, o) PROVE rec'[s].page = rec[s].page
    BY <1>1, <2>5 DEF Pops
  <2>6. ASSUME NEW p \in Pages, Closes(p) PROVE SameRecord(s)
    BY <2>6 DEF Closes, Alive
  <2>7. QED  BY <2>1, <2>2, <2>3, <2>4, <2>5, <2>6, HoldSteps
<1>3. PICK p \in Pages : p = rec[s].page
  BY <1>1
<1>4. IsOpen(p)'
  <2>1. Recorded'
    BY RecordedStep
  <2>2. rec'[s].page = p /\ p # None
    BY <1>1, <1>2, <1>3
  <2>3. page'[rec'[s].page].state \in {"open", "closing"}
    BY <1>1, <1>2, <2>1 DEF Recorded, IsOpen
  <2>4. QED  BY <2>2, <2>3 DEF IsOpen
<1>5. QED  BY <1>1, <1>2, <1>3, <1>4, OpenPages

LEMMA AskedToGoStep ==
    ASSUME CefShape, AskedToGo, [CefNext]_cefVars
    PROVE  AskedToGo'
<1>0. CefShape'
  BY ShapeStep
<1>1. SUFFICES ASSUME NEW v \in Views, running' = v, Alive(view[v].handle)'
               PROVE  page'[rec'[view'[v].handle].page].asked
  BY DEF AskedToGo, PageOf, Mine
<1>2. view'[v].handle \in 1..Slots
  <2>1. view'[v].handle \in 0..Slots
    BY <1>0 DEF CefShape, CefTypeOK, Controls
  <2>2. QED  BY <1>1, <2>1 DEF Alive
<1>3. PICK h \in 1..Slots : h = view'[v].handle /\ Alive(h)'
  BY <1>1, <1>2 DEF Alive
<1>4. CASE Destroy(v)
  <2>1. view[v].handle = h
    BY <1>3, <1>4 DEF Destroy
  <2>2. CASE Alive(h)
    <3>1. Reaches(v)
      BY <1>4, <2>1, <2>2 DEF Destroy, Reaches
    <3>2. PICK g : g = [PageShown(rec[h], page[rec[h].page], 0) EXCEPT !.asked = TRUE]
      OBVIOUS
    <3>3. page' = [page EXCEPT ![rec[h].page] = g]
      BY <1>4, <2>1, <2>2, <3>2 DEF Destroy
    <3>4. /\ rec[h].page \in Pages /\ rec[h] \in Records /\ page[rec[h].page] \in PageRecords
          /\ page \in [Pages -> PageRecords]
      BY <2>2, AliveRecord DEF CefShape, CefTypeOK
    <3>5. PICK e \in PageRecords : e = PageShown(rec[h], page[rec[h].page], 0)
      BY <3>4, ShownRecord
    <3>6. g.asked = TRUE
      BY <3>2, <3>5 DEF PageRecords
    <3>7. page'[rec[h].page].asked
      BY <3>3, <3>4, <3>6
    <3>8. QED  BY <1>3, <2>2, <3>7, AliveKeeps
  <2>3. CASE ~Alive(h)
    BY <1>3, <1>4, <2>1, <2>3 DEF Destroy, Alive
  <2>4. QED  BY <2>2, <2>3
<1>5. CASE running' = running /\ UNCHANGED view
  <2>1. view[v].handle = h /\ running = v
    BY <1>1, <1>3, <1>5
  <2>2. CASE Alive(h)
    <3>1. page[rec[h].page].asked
      BY <2>1, <2>2 DEF AskedToGo, PageOf, Mine
    <3>2. QED  BY <1>3, <2>2, <3>1, AliveKeeps DEF SamePage
  <2>3. ASSUME ~Alive(h) PROVE FALSE
    <3>1. \A s \in 1..Slots, w \in Views, p \in Pages : ~Makes(w, s, p)
      BY <1>5 DEF Makes
    <3>2. SameRecord(h) => FALSE
      BY <1>3, <2>3, RecordStates
    <3>3. CASE SameHold
      BY <3>2, <3>3, SameEach DEF SameHold
    <3>4. ASSUME NEW w \in Views, MakesNone(w) \/ GivesUp(w) PROVE FALSE
      BY <1>3, <3>2, <3>4, SameEach DEF MakesNone, GivesUp, Alive, Unused
    <3>5. ASSUME NEW p \in Pages, NEW o \in Pages, Pops(p, o) PROVE FALSE
      BY <1>3, <2>3, <3>5 DEF Pops, Alive
    <3>6. ASSUME NEW p \in Pages, Closes(p) PROVE FALSE
      BY <1>3, <3>2, <3>6 DEF Closes, Alive
    <3>7. QED  BY <3>1, <3>3, <3>4, <3>5, <3>6, HoldSteps
  <2>4. QED  BY <2>2, <2>3
<1>6. QED  BY <1>1, <1>4, <1>5, RunningSteps

LEMMA NoStrayPageStep ==
    ASSUME CefShape, Unmade, OwnRecord, AskedToGo, NoStrayPage, [CefNext]_cefVars
    PROVE  NoStrayPage'
<1>1. SUFFICES ASSUME Alone', running' # "shut", NEW p \in Pages, page'[p].state = "open",
                      ~page'[p].asked
               PROVE  \E v \in Views : Alive(view[v].handle)' /\ rec'[view'[v].handle].page = p
  BY DEF NoStrayPage, PageOf, Mine
<1>2. Alone /\ OwnRecord' /\ running # "shut" /\ CefShape'
  BY <1>1, OwnRecordStep, RunningSteps, ShapeStep
<1>3. IsOpen(p)' /\ ~page'[p].popup
  BY <1>1 DEF IsOpen, Alone
<1>4. PICK h \in 1..Slots : h = page'[p].slot /\ Alive(h)' /\ rec'[h].page = p
  <2>1. page'[p].slot \in 1..Slots
    BY <1>2, <1>3 DEF CefShape, Recorded
  <2>2. Alive(page[p].slot)' /\ rec'[page'[p].slot].page = p
    BY <1>1, <1>2, <1>3 DEF OwnRecord
  <2>3. QED  BY <2>1, <2>2 DEF Alive
<1>5. SUFFICES \E v \in Views : view'[v].handle = h
  BY <1>4 DEF Alive
<1>6. CASE page[p].state = "open"
  <2>1. IsOpen(p) /\ SamePage(p)
    BY <1>3, <1>6, OpenPages DEF IsOpen
  <2>2. ~page[p].asked /\ page[p].slot = h
    BY <1>1, <1>4, <2>1 DEF SamePage
  <2>3. PICK v \in Views : Alive(view[v].handle) /\ PageOf(v) = p
    BY <1>2, <1>6, <2>2 DEF NoStrayPage
  <2>4. view[v].handle = h
    <3>1. view[v].handle \in 0..Slots
      BY DEF CefShape, CefTypeOK, Controls
    <3>2. QED  BY <2>2, <2>3, <3>1, AliveRecord DEF PageOf, Mine
  <2>5. SameHandle(v) => view'[v].handle = h
    BY <2>4 DEF SameHandle
  <2>6. view[v].created
    BY <2>4, CefAssumption DEF Unmade
  <2>7. ASSUME SameHold PROVE SameHandle(v)
    BY <2>7, SameEach DEF SameHold
  <2>8. ASSUME NEW w \in Views, NEW z \in 1..Slots, NEW x \in Pages, Makes(w, z, x)
        PROVE  SameHandle(v)
    BY <2>6, <2>8 DEF Makes
  <2>9. ASSUME NEW w \in Views, MakesNone(w) PROVE view'[v].handle = h
    BY <2>4, <2>9 DEF MakesNone
  <2>10. ASSUME NEW w \in Views, GivesUp(w) PROVE SameHandle(v)
    <3>1. w # v
      BY <2>2, <2>3, <2>10 DEF GivesUp, AskedToGo
    <3>2. QED  BY <2>10, <3>1 DEF GivesUp
  <2>11. ASSUME NEW x \in Pages, NEW o \in Pages, Pops(x, o) PROVE SameHandle(v)
    BY <2>11, SameEach DEF Pops
  <2>12. ASSUME NEW x \in Pages, Closes(x) PROVE SameHandle(v)
    BY <2>12, SameEach DEF Closes
  <2>13. view'[v].handle = h
    BY <2>5, <2>7, <2>8, <2>9, <2>10, <2>11, <2>12, HoldSteps
  <2>14. QED  BY <2>13
<1>7. ASSUME page[p].state # "open"
      PROVE  \E v \in Views : view'[v].handle = h
  <2>1. ~SamePage(p)
    BY <1>1, <1>7, PageStates
  <2>2. ASSUME NEW w \in Views, NEW z \in 1..Slots, NEW x \in Pages, Makes(w, z, x)
        PROVE  view'[w].handle = h
    BY <1>4, <2>1, <2>2 DEF Makes
  <2>3. ~SameHold
    BY <2>1, SameEach DEF SameHold
  <2>4. \A w \in Views : ~MakesNone(w) /\ ~GivesUp(w)
    BY <2>1, SameEach DEF MakesNone, GivesUp
  <2>5. \A x, o \in Pages : ~Pops(x, o)
    BY <1>3, <2>1 DEF Pops
  <2>6. \A x \in Pages : ~Closes(x)
    BY <1>1, <2>1 DEF Closes
  <2>7. QED  BY <2>2, <2>3, <2>4, <2>5, <2>6, HoldSteps
<1>8. QED  BY <1>6, <1>7

\* What a record calls its page is, where no popup is a page of its own, what
\* is open.
LEMMA PagesOfRecords ==
    ASSUME CefShape, OwnRecord, Alone, NEW p \in Pages
    PROVE  IsOpen(p) <=> \E s \in 1..Slots : rec[s].page = p
<1>1. ASSUME NEW s \in 1..Slots, rec[s].page = p PROVE IsOpen(p)
  BY <1>1, CefAssumption DEF CefShape, Recorded
<1>2. ASSUME IsOpen(p) PROVE \E s \in 1..Slots : rec[s].page = p
  BY <1>2, OpenRecord DEF OwnRecord
<1>3. QED  BY <1>1, <1>2

LEMMA OneReferenceStep ==
    ASSUME CefShape, OwnRecord, OneReference, [CefNext]_cefVars
    PROVE  OneReference'
<1>1. SUFFICES ASSUME Alone'
               PROVE  \A p \in Pages : page'[p].held = IF \E s \in 1..Slots : rec'[s].page = p
                                                       THEN 1 ELSE 0
  BY DEF OneReference
<1>2. Alone /\ OwnRecord' /\ CefShape'
  BY <1>1, OwnRecordStep, ShapeStep
<1>3. \A p \in Pages : page[p].held = IF IsOpen(p) THEN 1 ELSE 0
  BY <1>2, PagesOfRecords DEF OneReference
<1>4. \A p \in Pages : IsOpen(p)' <=> \E s \in 1..Slots : rec'[s].page = p
  <2>1. ASSUME NEW p \in Pages, NEW s \in 1..Slots, rec'[s].page = p PROVE IsOpen(p)'
    <3>1. p # None
      BY CefAssumption
    <3>2. page'[rec'[s].page].state \in {"open", "closing"}
      BY <1>2, <2>1, <3>1 DEF CefShape, Recorded, IsOpen
    <3>3. QED  BY <2>1, <3>2 DEF IsOpen
  <2>2. ASSUME NEW p \in Pages, IsOpen(p)' PROVE \E s \in 1..Slots : rec'[s].page = p
    <3>1. page'[p].slot \in 1..Slots
      BY <1>2, <2>2 DEF CefShape, Recorded
    <3>2. rec'[page'[p].slot].page = p
      BY <1>1, <1>2, <2>2 DEF OwnRecord
    <3>3. QED  BY <3>1, <3>2
  <2>3. QED  BY <2>1, <2>2
<1>5. SUFFICES ASSUME NEW p \in Pages PROVE page'[p].held = IF IsOpen(p)' THEN 1 ELSE 0
  BY <1>4
<1> DEFINE Goal == page'[p].held = IF IsOpen(p)' THEN 1 ELSE 0
<1>6. ASSUME SamePage(p), page'[p].held = page[p].held PROVE Goal
  BY <1>3, <1>6, PageStates
<1>7. CASE SameHold
  BY <1>6, <1>7, SameEach DEF SameHold
<1>8. ASSUME NEW v \in Views, NEW z \in 1..Slots, NEW x \in Pages, Makes(v, z, x) PROVE Goal
  <2>1. CASE p = x
    BY <1>8, <2>1 DEF Makes, IsOpen
  <2>2. CASE p # x
    BY <1>6, <1>8, <2>2 DEF Makes
  <2>3. QED  BY <2>1, <2>2
<1>9. ASSUME NEW v \in Views, MakesNone(v) \/ GivesUp(v) PROVE Goal
  BY <1>6, <1>9, SameEach DEF MakesNone, GivesUp
<1>10. ASSUME NEW x \in Pages, NEW o \in Pages, Pops(x, o) PROVE FALSE
  BY <1>1, <1>10 DEF Pops, Alone
<1>11. ASSUME NEW x \in Pages, Closes(x) PROVE Goal
  <2>1. rec[page[x].slot].page = x /\ IsOpen(x)
    BY <1>2, <1>11 DEF Closes, OwnRecord
  <2>2. page'[p].held = IF p = x THEN page[p].held - 1 ELSE page[p].held
    BY <1>11, <2>1 DEF Closes
  <2>3. CASE p = x
    <3>1. ~IsOpen(p)'
      BY <1>11, <2>3 DEF Closes, IsOpen
    <3>2. QED  BY <1>3, <2>1, <2>2, <2>3, <3>1
  <2>4. CASE p # x
    <3>1. SamePage(p)
      BY <1>11, <2>4 DEF Closes
    <3>2. QED  BY <1>6, <2>2, <2>4, <3>1
  <2>5. QED  BY <2>3, <2>4
<1>12. QED
  BY <1>7, <1>8, <1>9, <1>10, <1>11, HoldSteps

LEMMA PagesOwnedStep ==
    ASSUME CefShape, Unmade, OwnRecord, AskedToGo, PagesOwned, [CefNext]_cefVars
    PROVE  PagesOwned'
BY NoStrayPageStep, OneReferenceStep DEF PagesOwned

(***************************************************************************)
(* What a step does to the record, the page and the view of one owner.     *)
(***************************************************************************)
SameTalk(d, r) == /\ d.observed = r.observed /\ d.queue = r.queue /\ d.head = r.head
                  /\ d.count = r.count /\ d.dropped = r.dropped /\ d.id = r.id
SameOffer(d, r) == d.policy = r.policy /\ d.popup = r.popup /\ d.missed = r.missed
SamePlace(d, r) == d.place = r.place /\ d.clip = r.clip /\ d.shown = r.shown
SameSaid(d, g) == /\ d.said = g.said /\ d.owed = g.owed
                  /\ d.taken = g.taken /\ d.astray = g.astray
SameOpened(d, g) == d.opened = g.opened /\ d.handed = g.handed /\ d.blank = g.blank
SameWindow(d, g) == d.place = g.place /\ d.region = g.region /\ d.shown = g.shown
SameWaiting(d, c) == d.waiting = c.waiting

TalkKept(v, h, p) == /\ SameTalk(rec'[h], rec[h]) /\ SameSaid(page'[p], page[p])
                     /\ SameWaiting(view'[v], view[v])
PopupsKept(h, p) == SameOffer(rec'[h], rec[h]) /\ SameOpened(page'[p], page[p])
WindowKept(h, p) == SamePlace(rec'[h], rec[h]) /\ SameWindow(page'[p], page[p])

\* A call of the view that holds the handle.
LEMMA ViewHome ==
    ASSUME CefShape, NEW v \in Views, ViewNext(v), ~Create(v), ~CreateFails(v), ~Destroyed(v),
           NEW h \in 1..Slots, NEW p \in Pages, h = view[v].handle, Alive(h), p = rec[h].page
    PROVE  /\ TalkKept(v, h, p) \/ Send(v) \/ TakeMessage(v)
           /\ PopupsKept(h, p) \/ TakePopup(v)
           /\ \/ WindowKept(h, p) \/ Destroy(v)
              \/ \E x \in Places : SetBounds(v, x)
              \/ \E c \in Regions \cup {None} : SetClip(v, c)
<1>0. /\ rec \in [1..Slots -> Records] /\ view \in [Views -> Controls]
      /\ page \in [Pages -> PageRecords]
  BY DEF CefShape, CefTypeOK
<1>1. PICK r \in Records, g \in PageRecords, c \in Controls :
         r = rec[h] /\ g = page[p] /\ c = view[v] /\ p = r.page
  BY <1>0
<1>2. Mine(v) = r /\ PageOf(v) = p
  BY <1>1 DEF Mine, PageOf
<1>3. CASE Destroy(v)
  <2>1. PICK e \in PageRecords, d \in Records :
           /\ e = PageShown(r, g, 0) /\ d = ShownTo(r, 0)
           /\ SameSaid(e, g) /\ SameOpened(e, g) /\ SameTalk(d, r) /\ SameOffer(d, r)
    BY ShownRecord DEF SameSaid, SameOpened, SameTalk, SameOffer
  <2>2. PICK f : f = [e EXCEPT !.asked = TRUE]
    OBVIOUS
  <2>3. SameSaid(f, g) /\ SameOpened(f, g)
    BY <2>1, <2>2 DEF PageRecords, SameSaid, SameOpened
  <2>4. /\ rec' = [rec EXCEPT ![h] = d] /\ page' = [page EXCEPT ![p] = f] /\ view' = view
    BY <1>1, <1>3, <2>1, <2>2 DEF Destroy
  <2>5. rec'[h] = d /\ page'[p] = f /\ view'[v] = view[v]
    BY <1>0, <2>4
  <2>6. QED
    BY <1>1, <1>3, <2>1, <2>3, <2>5 DEF TalkKept, PopupsKept, SameWaiting
<1>4. ASSUME NEW x \in Places, SetBounds(v, x)
      PROVE  TalkKept(v, h, p) /\ PopupsKept(h, p)
  <2>1. PICK d, f : d = [r EXCEPT !.place = x, !.clip = None] /\ f = [g EXCEPT !.place = x]
    OBVIOUS
  <2>2. /\ SameSaid(f, g) /\ SameOpened(f, g) /\ SameTalk(d, r) /\ SameOffer(d, r)
    BY <2>1 DEF Records, PageRecords, SameSaid, SameOpened, SameTalk, SameOffer
  <2>3. rec'[h] = d /\ page'[p] = f /\ view'[v] = view[v]
    BY <1>0, <1>1, <1>2, <1>4, <2>1 DEF SetBounds, Moved
  <2>4. QED
    BY <1>1, <2>2, <2>3 DEF TalkKept, PopupsKept, SameWaiting
<1>5. ASSUME NEW k \in Regions \cup {None}, SetClip(v, k)
      PROVE  TalkKept(v, h, p) /\ PopupsKept(h, p)
  <2> DEFINE built == IF k # None /\ r.clip # k THEN [g EXCEPT !.region = k - r.place] ELSE g
             n == IF k = None THEN 0 ELSE 1
  <2>1. /\ page' = [page EXCEPT ![p] = PageShown(r, built, n)]
        /\ rec' = [rec EXCEPT ![h] = [ShownTo(r, n) EXCEPT !.clip = IF k = None THEN @ ELSE k]]
        /\ view' = view
    BY <1>1, <1>2, <1>5 DEF SetClip
  <2>2. r.place \in Int
    BY DEF Records
  <2>3. /\ built \in PageRecords /\ n \in {0, 1}
        /\ SameSaid(built, g) /\ SameOpened(built, g)
    BY <2>2, CefAssumption DEF PageRecords, SameSaid, SameOpened
  <2> HIDE DEF built, n
  <2>4. PICK e \in PageRecords, d \in Records :
           /\ e = PageShown(r, built, n) /\ d = ShownTo(r, n)
           /\ SameSaid(e, g) /\ SameOpened(e, g) /\ SameTalk(d, r) /\ SameOffer(d, r)
    <3>1. PICK b \in PageRecords, m \in {0, 1} : b = built /\ m = n
      BY <2>3
    <3>2. /\ SameTalk(ShownTo(r, m), r) /\ SameOffer(ShownTo(r, m), r)
          /\ ShownTo(r, m) \in Records /\ PageShown(r, b, m) \in PageRecords
      BY ShownRecord DEF SameTalk, SameOffer
    <3>3. SameSaid(PageShown(r, b, m), b) /\ SameOpened(PageShown(r, b, m), b)
      BY ShownRecord DEF SameSaid, SameOpened
    <3>4. SameSaid(PageShown(r, b, m), g) /\ SameOpened(PageShown(r, b, m), g)
      BY <2>3, <3>1, <3>3 DEF SameSaid, SameOpened
    <3>5. QED  BY <3>1, <3>2, <3>4
  <2>5. PICK f : f = [d EXCEPT !.clip = IF k = None THEN @ ELSE k]
    OBVIOUS
  <2>6. SameTalk(f, r) /\ SameOffer(f, r)
    BY <2>4, <2>5 DEF Records, SameTalk, SameOffer
  <2>7. rec'[h] = f /\ page'[p] = e /\ view'[v] = view[v]
    BY <1>0, <2>1, <2>4, <2>5
  <2>8. QED
    BY <1>1, <2>4, <2>6, <2>7 DEF TalkKept, PopupsKept, SameWaiting
<1>6. ASSUME Poll(v)
      PROVE  TalkKept(v, h, p) /\ PopupsKept(h, p) /\ WindowKept(h, p)
  <2>1. PICK d : d = [c EXCEPT !.seq = r.seq, !.url = r.url]
    OBVIOUS
  <2>2. SameWaiting(d, c)
    BY <2>1 DEF Controls, SameWaiting
  <2>3. view'[v] = d /\ rec' = rec /\ page' = page
    BY <1>0, <1>1, <1>2, <1>6, <2>1 DEF Poll
  <2>4. QED
    BY <1>1, <2>2, <2>3 DEF TalkKept, PopupsKept, WindowKept, SameTalk, SameOffer, SamePlace,
                            SameSaid, SameOpened, SameWindow
<1>7. ASSUME Send(v)
      PROVE  PopupsKept(h, p) /\ WindowKept(h, p)
  <2>1. PICK d, f : /\ d = [r EXCEPT !.id = r.id + 1]
                    /\ f = [g EXCEPT !.owed = @ \cup {r.id + 1}]
    OBVIOUS
  <2>2. SameOffer(d, r) /\ SamePlace(d, r) /\ SameOpened(f, g) /\ SameWindow(f, g)
    BY <2>1 DEF Records, PageRecords, SameOffer, SamePlace, SameOpened, SameWindow
  <2>3. rec'[h] = d /\ page'[p] = f
    BY <1>0, <1>1, <1>2, <1>7, <2>1 DEF Send
  <2>4. QED
    BY <1>1, <2>2, <2>3 DEF PopupsKept, WindowKept
<1>8. ASSUME TakeMessage(v)
      PROVE  PopupsKept(h, p) /\ WindowKept(h, p)
  <2>1. PICK id \in Nat, lost \in BOOLEAN :
           /\ r.count > 0 /\ rec' = [rec EXCEPT ![h] = TakenOne(r)]
           /\ page' = [page EXCEPT ![p] = Took(g, id, lost)]
    BY <1>1, <1>8, Takes DEF CefShape
  <2>2. SameOffer(TakenOne(r), r) /\ SamePlace(TakenOne(r), r)
    BY <2>1, TookMessage DEF SameOffer, SamePlace
  <2>3. SameOpened(Took(g, id, lost), g) /\ SameWindow(Took(g, id, lost), g)
    BY TookFields DEF SameOpened, SameWindow
  <2>4. rec'[h] = TakenOne(r) /\ page'[p] = Took(g, id, lost)
    BY <1>0, <2>1
  <2>5. QED
    BY <1>1, <2>2, <2>3, <2>4 DEF PopupsKept, WindowKept
<1>9. ASSUME TakePopup(v)
      PROVE  TalkKept(v, h, p) /\ WindowKept(h, p)
  <2>1. PICK d, f : d = [r EXCEPT !.popup = None] /\ f = [g EXCEPT !.handed = @ + 1]
    OBVIOUS
  <2>2. SameTalk(d, r) /\ SamePlace(d, r) /\ SameSaid(f, g) /\ SameWindow(f, g)
    BY <2>1 DEF Records, PageRecords, SameTalk, SamePlace, SameSaid, SameWindow
  <2>3. rec'[h] = d /\ page'[p] = f /\ view' = view
    BY <1>0, <1>1, <1>2, <1>9, <2>1 DEF TakePopup
  <2>4. QED
    BY <1>1, <2>2, <2>3 DEF TalkKept, WindowKept, SameWaiting
<1>10. QED
  <2>1. \/ Destroy(v) \/ Poll(v) \/ Send(v) \/ TakeMessage(v) \/ TakePopup(v)
        \/ \E x \in Places : SetBounds(v, x)
        \/ \E k \in Regions \cup {None} : SetClip(v, k)
    BY Zenon DEF ViewNext
  <2>2. QED  BY <1>3, <1>4, <1>5, <1>6, <1>7, <1>8, <1>9, <2>1

\* A call of CEF into the record h, of the page x.
LEMMA PageHome ==
    ASSUME CefShape, NEW y \in Pages, PageNext(y), NEW v, NEW h \in 1..Slots, h = page[y].slot,
           Alive(h), Alive(h)', NEW p \in Pages, p = rec[h].page
    PROVE  /\ TalkKept(v, h, p) \/ (Says(y) /\ y = p)
           /\ PopupsKept(h, p) \/ OpensPopup(y)
           /\ WindowKept(h, p)
<1>0. /\ rec \in [1..Slots -> Records] /\ page \in [Pages -> PageRecords]
  BY DEF CefShape, CefTypeOK
<1>1. PICK r \in Records, g \in PageRecords : r = rec[h] /\ g = page[y] /\ r = Told(y)
  BY <1>0 DEF Told
<1>2. UNCHANGED view /\ IsOpen(p)
  BY PageElsewhere, AliveRecord
<1>3. ~BeforeClose(y)
  <2>1. SUFFICES ASSUME BeforeClose(y) PROVE FALSE
    OBVIOUS
  <2>2. PICK d : d = [r EXCEPT !.gone = TRUE, !.observed = FALSE, !.page = None]
    OBVIOUS
  <2>3. d.gone = TRUE
    BY <2>2 DEF Records
  <2>4. rec'[h] = d
    BY <1>0, <1>1, <2>1, <2>2 DEF BeforeClose, Tell
  <2>5. QED  BY <2>3, <2>4 DEF Alive
<1>4. p # y => page'[p] = page[p]
  BY <1>2, <1>3, PageElsewhere
<1>5. ASSUME NEW f, page'[y] = f, SameSaid(f, g), SameWindow(f, g)
      PROVE  SameSaid(page'[p], page[p]) /\ SameWindow(page'[p], page[p])
  BY <1>1, <1>4, <1>5 DEF SameSaid, SameWindow
<1>6. CASE Says(y)
  <2>1. PICK id \in {0} \cup page[y].owed :
           /\ page' = [page EXCEPT ![y].said = @ + 1, ![y].owed = @ \ {id}]
           /\ Tell(y, Push(Told(y), [n |-> page[y].said + 1, id |-> id]))
    BY <1>6 DEF Says
  <2>2. y = p
    BY <1>1, <1>6 DEF Says
  <2>3. PICK m \in Stored : m = [n |-> page[y].said + 1, id |-> id]
    BY <1>0, <2>1, PageNumbers DEF Stored
  <2>4. SameOffer(Push(r, m), r) /\ SamePlace(Push(r, m), r)
    BY Pushed DEF SameOffer, SamePlace
  <2>5. rec'[h] = Push(r, m)
    BY <1>0, <1>1, <2>1, <2>3 DEF Tell
  <2>6. PICK f : f = [g EXCEPT !.said = @ + 1, !.owed = @ \ {id}]
    OBVIOUS
  <2>7. SameOpened(f, g) /\ SameWindow(f, g)
    BY <2>6 DEF PageRecords, SameOpened, SameWindow
  <2>8. page'[y] = f
    BY <1>0, <1>1, <2>1, <2>6
  <2>9. QED
    BY <1>1, <1>2, <1>6, <2>2, <2>4, <2>5, <2>7, <2>8 DEF PopupsKept, WindowKept
<1>7. CASE Navigates(y)
  <2>1. PICK d, f : d = Address(r, g.url + 1) /\ f = [g EXCEPT !.url = @ + 1]
    OBVIOUS
  <2>2. /\ SameTalk(d, r) /\ SameOffer(d, r) /\ SamePlace(d, r)
        /\ SameSaid(f, g) /\ SameWindow(f, g) /\ SameOpened(f, g)
    BY <2>1
       DEF Address, Records, PageRecords, SameTalk, SameOffer, SamePlace, SameSaid, SameOpened,
           SameWindow
  <2>3. rec'[h] = d /\ page'[y] = f
    BY <1>0, <1>1, <1>7, <2>1 DEF Navigates, Tell
  <2>4. QED
    BY <1>1, <1>2, <1>4, <1>5, <2>2, <2>3
       DEF TalkKept, PopupsKept, WindowKept, SameWaiting, SameOpened
<1>8. CASE DoClose(y)
  <2>1. PICK f : f = [g EXCEPT !.state = "closing"]
    OBVIOUS
  <2>2. SameSaid(f, g) /\ SameWindow(f, g) /\ SameOpened(f, g)
    BY <2>1 DEF PageRecords, SameSaid, SameOpened, SameWindow
  <2>3. rec' = rec /\ page'[y] = f
    BY <1>0, <1>1, <1>8, <2>1 DEF DoClose
  <2>4. QED
    BY <1>1, <1>2, <1>4, <1>5, <2>2, <2>3
       DEF TalkKept, PopupsKept, WindowKept, SameWaiting, SameTalk, SameOffer, SamePlace,
           SameOpened
<1>9. CASE OpensPopup(y)
  <2>1. \/ page'[y] = [g EXCEPT !.opened = @ + 1]
        \/ \E b \in BOOLEAN : page'[y] = Opened(g, b)
    <3>1. \/ \E o \in Pages : \E e :
                page[o].state = "none" /\ page' = [page EXCEPT ![o] = e, ![y].opened = @ + 1]
          \/ page' = [page EXCEPT ![y].opened = @ + 1]
          \/ \E b \in BOOLEAN : page' = [page EXCEPT ![y] = Opened(@, b)]
      <4>1. \/ \E o \in Pages :
                  /\ page[o].state = "none"
                  /\ page' = [page EXCEPT
                       ![o] = [Unopened EXCEPT !.state = "open", !.slot = page[y].slot,
                                   !.popup = TRUE, !.shown = TRUE,
                                   !.held = IF Told(y).page = None THEN 1 ELSE 0],
                       ![y].opened = @ + 1]
            \/ page' = [page EXCEPT ![y].opened = @ + 1]
            \/ \E u \in {y, None} :
                  page' = [page EXCEPT ![y] = Opened(@, Told(y).popup = None /\ u = None)]
        BY <1>9, Zenon DEF OpensPopup
      <4>2. QED  BY <4>1
    <3>2. page[y].state # "none"
      BY <1>9 DEF OpensPopup
    <3>3. QED  BY <1>0, <1>1, <3>1, <3>2
  <2>2. SameSaid(page'[y], g) /\ SameWindow(page'[y], g)
    <3>1. ASSUME NEW f, f = [g EXCEPT !.opened = @ + 1] PROVE SameSaid(f, g) /\ SameWindow(f, g)
      BY <3>1 DEF PageRecords, SameSaid, SameWindow
    <3>2. ASSUME NEW b PROVE SameSaid(Opened(g, b), g) /\ SameWindow(Opened(g, b), g)
      BY OpenedPage, SMTT(30) DEF SameSaid, SameWindow
    <3>3. QED  BY <2>1, <3>1, <3>2
  <2>3. \/ rec' = rec \/ \E u \in Pages \cup {None} : Tell(y, Handed(r, u))
        \/ \E o : Tell(y, [r EXCEPT !.page = o])
    <3>1. \/ \E o \in Pages : Tell(y, [Told(y) EXCEPT !.page = IF @ = None THEN o ELSE @])
          \/ UNCHANGED rec
          \/ \E u \in {y, None} : Tell(y, Handed(Told(y), u))
      BY <1>9, Zenon DEF OpensPopup
    <3>2. QED  BY <1>1, <3>1
  <2>4. SameTalk(rec'[h], r) /\ SamePlace(rec'[h], r)
    <3>1. CASE rec' = rec
      BY <1>1, <3>1 DEF SameTalk, SamePlace
    <3>2. ASSUME NEW u \in Pages \cup {None}, Tell(y, Handed(r, u))
          PROVE  SameTalk(rec'[h], r) /\ SamePlace(rec'[h], r)
      <4>1. rec'[h] = Handed(r, u)
        BY <1>0, <3>2 DEF Tell
      <4>2. QED  BY <4>1, HandedRecord DEF SameTalk, SamePlace
    <3>3. ASSUME NEW o, Tell(y, [r EXCEPT !.page = o])
          PROVE  SameTalk(rec'[h], r) /\ SamePlace(rec'[h], r)
      <4>1. rec'[h] = [r EXCEPT !.page = o]
        BY <1>0, <3>3 DEF Tell
      <4>2. QED  BY <4>1 DEF Records, SameTalk, SamePlace
    <3>4. QED  BY <2>3, <3>1, <3>2, <3>3
  <2>5. QED
    BY <1>1, <1>2, <1>5, <1>9, <2>2, <2>4 DEF TalkKept, WindowKept, SameWaiting
<1>10. QED  BY <1>3, <1>6, <1>7, <1>8, <1>9, Zenon DEF PageNext

\* Whoever calls into a record that stays alive: nobody, a view that has its
\* handle, or a page that has its callbacks.
LEMMA StepAt ==
    ASSUME CefShape, [CefNext]_cefVars, NEW h \in 1..Slots, Alive(h), Alive(h)',
           NEW p \in Pages, p = rec[h].page
    PROVE  \/ /\ rec'[h] = rec[h] /\ SameSaid(page'[p], page[p])
              /\ SameWindow(page'[p], page[p]) /\ SameOpened(page'[p], page[p])
           \/ \E w \in Views : /\ view[w].handle = h /\ ViewNext(w)
                               /\ ~Create(w) /\ ~CreateFails(w) /\ ~Destroyed(w)
           \/ \E y \in Pages : page[y].slot = h /\ PageNext(y)
<1> DEFINE Idles == /\ rec'[h] = rec[h] /\ SameSaid(page'[p], page[p])
                    /\ SameWindow(page'[p], page[p]) /\ SameOpened(page'[p], page[p])
<1>0. /\ IsOpen(p) /\ page[p].slot = h /\ page[p].state # "none"
      /\ rec \in [1..Slots -> Records] /\ page \in [Pages -> PageRecords]
  BY AliveRecord DEF IsOpen, CefShape, CefTypeOK
<1>1. ASSUME rec'[h] = rec[h], page'[p] = page[p] PROVE Idles
  BY <1>1 DEF SameSaid, SameOpened, SameWindow
<1>2. ASSUME NEW w \in Views, Create(w) PROVE Idles
  <2>1. PICK s \in 1..Slots, o \in Pages, x \in Places, told \in BOOLEAN :
           CreateAt(w, s, o, x, told)
    BY <1>2 DEF Create
  <2>2. s # h /\ o # p
    BY <1>0, <2>1, Zenon DEF CreateAt, FirstFree, Reclaimable, Alive
  <2>3. QED  BY <1>1, <2>1, <2>2, MadeElsewhere
<1>3. ASSUME NEW w \in Views, CreateFails(w) PROVE Idles
  BY <1>1, <1>3, FailsElsewhere
<1>4. ASSUME NEW w \in Views, Destroyed(w) PROVE Idles
  BY <1>1, <1>4 DEF Destroyed
<1>5. ASSUME NEW w \in Views, ViewNext(w), ~Create(w), ~CreateFails(w), view[w].handle # h
      PROVE  Idles
  <2>1. ASSUME Alive(view[w].handle) PROVE p # PageOf(w)
    <3>1. view[w].handle \in 0..Slots
      BY DEF CefShape, CefTypeOK, Controls
    <3>2. page[PageOf(w)].slot = view[w].handle
      BY <2>1, <3>1, AliveRecord DEF PageOf, Mine
    <3>3. QED  BY <1>0, <1>5, <3>2
  <2>2. rec'[h] = rec[h] /\ page'[p] = page[p]
    BY <1>5, <2>1, ViewElsewhere
  <2>3. QED  BY <1>1, <2>2
<1>6. ASSUME NEW y \in Pages, PageNext(y), page[y].slot # h PROVE Idles
  BY <1>0, <1>1, <1>6, PageElsewhere
<1>7. ASSUME Start \/ ShutdownEnds \/ UNCHANGED cefVars PROVE Idles
  BY <1>1, <1>7 DEF Start, ShutdownEnds, cefVars
<1>8. ASSUME Shutdown PROVE Idles
  <2>1. PICK g \in PageRecords : g = page[p]
    BY <1>0
  <2>2. page'[p] = g \/ page'[p] = [g EXCEPT !.asked = TRUE]
    BY <1>8, <2>1 DEF Shutdown
  <2>3. QED  BY <1>8, <2>1, <2>2 DEF Shutdown, SameSaid, SameOpened, SameWindow, PageRecords
<1>9. QED
  BY <1>2, <1>3, <1>4, <1>5, <1>6, <1>7, <1>8 DEF CefNext

\* A record that was not alive is given to the page of a view.
LEMMA AliveBefore ==
    ASSUME CefShape, [CefNext]_cefVars, NEW s \in 1..Slots, Alive(s)', ~Alive(s)
    PROVE  \E v \in Views, p \in Pages, x \in Places, told \in BOOLEAN :
              CreateAt(v, s, p, x, told)
<1>1. ~SameRecord(s)
  BY RecordStates
<1>2. ~SameHold /\ ~UNCHANGED rec
  BY <1>1, SameEach, AllSame DEF SameHold
<1>3. ASSUME NEW v \in Views, Create(v)
      PROVE  \E p \in Pages, x \in Places, told \in BOOLEAN : CreateAt(v, s, p, x, told)
  <2>1. PICK t \in 1..Slots, p \in Pages, x \in Places, told \in BOOLEAN :
           CreateAt(v, t, p, x, told)
    BY <1>3 DEF Create
  <2>2. t = s
    BY <1>1, <2>1, MadeElsewhere DEF SameRecord
  <2>3. QED  BY <2>1, <2>2
<1>4. ASSUME NEW v \in Views, CreateFails(v) PROVE FALSE
  BY <1>1, <1>4, FailsMakesNone DEF MakesNone, Alive, Unused
<1>5. ASSUME NEW v \in Views, Destroyed(v) PROVE FALSE
  BY <1>2, <1>5 DEF Destroyed
<1>6. ASSUME NEW y \in Pages, PageNext(y) PROVE FALSE
  <2>1. \A o \in Pages : ~Pops(y, o)
    BY DEF Pops, Alive
  <2>2. ~Closes(y)
    BY <1>1 DEF Closes, Alive
  <2>3. QED  BY <1>2, <1>6, <2>1, <2>2, PageHolds
<1>7. ASSUME Start \/ Shutdown \/ ShutdownEnds \/ UNCHANGED cefVars PROVE FALSE
  BY <1>2, <1>7 DEF Start, Shutdown, ShutdownEnds, cefVars
<1>8. QED
  BY <1>2, <1>3, <1>4, <1>5, <1>6, <1>7, ViewHolds DEF CefNext

LEMMA ViewSteps ==
    ASSUME CefShape, [CefNext]_cefVars, NEW v \in Views
    PROVE  view'[v] = view[v] \/ ViewNext(v)
<1>1. ASSUME NEW w \in Views, ViewNext(w), w # v PROVE view'[v] = view[v]
  <2>1. CASE Create(w)
    BY <1>1, <2>1, MadeElsewhere DEF Create
  <2>2. CASE CreateFails(w)
    BY <1>1, <2>2, FailsElsewhere
  <2>3. CASE ~Create(w) /\ ~CreateFails(w)
    BY <1>1, <2>3, ViewElsewhere
  <2>4. QED  BY <2>1, <2>2, <2>3
<1>2. ASSUME NEW y \in Pages, PageNext(y) PROVE UNCHANGED view
  BY <1>2, PageElsewhere
<1>3. Start \/ Shutdown \/ ShutdownEnds \/ UNCHANGED cefVars => UNCHANGED view
  BY DEF Start, Shutdown, ShutdownEnds, cefVars
<1>4. QED  BY <1>1, <1>2, <1>3 DEF CefNext


\* A page that was opened stays one that was.
LEMMA NeverNone ==
    ASSUME CefShape, [CefNext]_cefVars, NEW x \in Pages, page[x].state # "none"
    PROVE  page'[x].state # "none"
<1>1. SamePage(x) => page'[x].state # "none"
  BY PageStates
<1>2. SamePages => SamePage(x)
  BY SameEach
<1>3. SameHold \/ (\E v \in Views : MakesNone(v) \/ GivesUp(v)) => SamePage(x)
  BY <1>2, Zenon DEF SameHold, MakesNone, GivesUp
<1>4. ASSUME NEW v \in Views, NEW s \in 1..Slots, NEW p \in Pages, Makes(v, s, p)
      PROVE  page'[x].state # "none"
  BY <1>1, <1>4 DEF Makes
<1>5. ASSUME NEW p \in Pages, NEW o \in Pages, Pops(p, o) PROVE page'[x].state # "none"
  BY <1>1, <1>5 DEF Pops
<1>6. ASSUME NEW p \in Pages, Closes(p) PROVE page'[x].state # "none"
  BY <1>1, <1>6 DEF Closes
<1>7. QED  BY <1>1, <1>3, <1>4, <1>5, <1>6, HoldSteps

\* The steps that change what is said between the record s and its page p: a
\* view sends or takes, the page says something.
SameQueue(d, r) == /\ d.observed = r.observed /\ d.queue = r.queue /\ d.head = r.head
                   /\ d.count = r.count /\ d.dropped = r.dropped
Sends(w, s, p) ==
    /\ view[w].handle = s
    /\ SameQueue(rec'[s], rec[s]) /\ rec'[s].id = rec[s].id + 1
    /\ page'[p].owed = page[p].owed \cup {rec[s].id + 1} /\ page'[p].said = page[p].said
    /\ page'[p].taken = page[p].taken /\ page'[p].astray = page[p].astray
    /\ view'[w].waiting = Append(view[w].waiting, [id |-> rec[s].id + 1, page |-> p])
TakesOne(w, s, p) ==
    /\ view[w].handle = s /\ rec[s].count > 0 /\ rec'[s] = TakenOne(rec[s])
    /\ \E id \in Nat, lost \in BOOLEAN :
          /\ id = Kept(rec[s], 0).id
          /\ lost = (id # 0 /\ ~Heard(view[w].waiting, id, p))
          /\ page'[p] = Took(page[p], id, lost)
          /\ view'[w].waiting = Answered(view[w].waiting, id)
SaysOne(s, p) ==
    /\ UNCHANGED view
    /\ \E id \in {0} \cup page[p].owed :
          /\ rec'[s] = Push(rec[s], [n |-> page[p].said + 1, id |-> id])
          /\ page'[p].said = page[p].said + 1 /\ page'[p].owed = page[p].owed \ {id}
          /\ page'[p].taken = page[p].taken /\ page'[p].astray = page[p].astray

LEMMA SendsHome ==
    ASSUME CefShape, NEW v \in Views, Send(v), NEW h \in 1..Slots, NEW p \in Pages,
           h = view[v].handle, p = rec[h].page
    PROVE  Sends(v, h, p)
<1>0. /\ rec \in [1..Slots -> Records] /\ view \in [Views -> Controls]
      /\ page \in [Pages -> PageRecords]
  BY DEF CefShape, CefTypeOK
<1>1. PICK r \in Records, g \in PageRecords, c \in Controls :
         r = rec[h] /\ g = page[p] /\ c = view[v] /\ r = Mine(v) /\ p = PageOf(v)
  BY <1>0 DEF Mine, PageOf
<1>2. PICK n, k : n = r.id + 1 /\ k = [id |-> n, page |-> p]
  OBVIOUS
<1>3. PICK d, f, b : /\ d = [r EXCEPT !.id = n] /\ f = [g EXCEPT !.owed = @ \cup {n}]
                     /\ b = [c EXCEPT !.waiting = Append(@, k)]
  OBVIOUS
<1>4. /\ rec' = [rec EXCEPT ![h] = d] /\ page' = [page EXCEPT ![p] = f]
      /\ view' = [view EXCEPT ![v] = b]
  <2>1. /\ rec' = [rec EXCEPT ![h].id = n] /\ page' = [page EXCEPT ![p].owed = @ \cup {n}]
        /\ view' = [view EXCEPT ![v].waiting = Append(@, k)]
    BY <1>1, <1>2 DEF Send
  <2>2. QED  BY <1>0, <1>1, <1>3, <2>1
<1>5. rec'[h] = d /\ page'[p] = f /\ view'[v] = b
  BY <1>0, <1>4
<1>6. SameQueue(d, r) /\ d.id = n
  BY <1>3 DEF Records, SameQueue
<1>7. f.owed = g.owed \cup {n} /\ f.said = g.said /\ f.taken = g.taken /\ f.astray = g.astray
  BY <1>3 DEF PageRecords
<1>8. b.waiting = Append(c.waiting, k)
  BY <1>3 DEF Controls
<1>9. QED  BY <1>1, <1>2, <1>5, <1>6, <1>7, <1>8 DEF Sends

LEMMA TakesHome ==
    ASSUME CefShape, NEW v \in Views, TakeMessage(v), NEW h \in 1..Slots, NEW p \in Pages,
           h = view[v].handle, p = rec[h].page
    PROVE  TakesOne(v, h, p)
<1>0. /\ rec \in [1..Slots -> Records] /\ view \in [Views -> Controls]
      /\ page \in [Pages -> PageRecords] /\ CefTypeOK
  BY DEF CefShape, CefTypeOK
<1>1. PICK r \in Records, g \in PageRecords, c \in Controls :
         r = rec[h] /\ g = page[p] /\ c = view[v] /\ p = r.page
  BY <1>0
<1>2. PICK id \in Nat, lost \in BOOLEAN :
         /\ lost = (id # 0 /\ ~Heard(c.waiting, id, p)) /\ id = Kept(r, 0).id /\ r.count > 0
         /\ rec' = [rec EXCEPT ![h] = TakenOne(r)]
         /\ view' = [view EXCEPT ![v] = [c EXCEPT !.waiting = Answered(c.waiting, id)]]
         /\ page' = [page EXCEPT ![p] = Took(g, id, lost)]
  BY <1>0, <1>1, Takes
<1>3. PICK b : b = [c EXCEPT !.waiting = Answered(c.waiting, id)]
  OBVIOUS
<1>4. rec'[h] = TakenOne(r) /\ page'[p] = Took(g, id, lost) /\ view'[v] = b
  BY <1>0, <1>2, <1>3
<1>5. b.waiting = Answered(c.waiting, id)
  BY <1>3 DEF Controls
<1>6. QED  BY <1>1, <1>2, <1>4, <1>5 DEF TakesOne

LEMMA SaysHome ==
    ASSUME CefShape, NEW p \in Pages, Says(p), NEW h \in 1..Slots, h = page[p].slot
    PROVE  SaysOne(h, p)
<1>0. rec \in [1..Slots -> Records] /\ page \in [Pages -> PageRecords]
  BY DEF CefShape, CefTypeOK
<1>1. PICK id \in {0} \cup page[p].owed :
         /\ page' = [page EXCEPT ![p].said = @ + 1, ![p].owed = @ \ {id}]
         /\ Tell(p, Push(Told(p), [n |-> page[p].said + 1, id |-> id])) /\ UNCHANGED view
  BY DEF Says
<1>2. PICK g \in PageRecords : g = page[p]
  BY <1>0
<1>3. PICK f : f = [g EXCEPT !.said = @ + 1, !.owed = @ \ {id}]
  OBVIOUS
<1>4. page'[p] = f
  BY <1>0, <1>1, <1>2, <1>3
<1>5. f.said = g.said + 1 /\ f.owed = g.owed \ {id} /\ f.taken = g.taken /\ f.astray = g.astray
  BY <1>3 DEF PageRecords
<1>6. rec'[h] = Push(rec[h], [n |-> page[p].said + 1, id |-> id])
  BY <1>0, <1>1 DEF Tell, Told
<1>7. QED  BY <1>1, <1>2, <1>4, <1>5, <1>6 DEF SaysOne

\* The steps at a record that stays alive.
LEMMA RecordSteps ==
    ASSUME CefShape, [CefNext]_cefVars, NEW s \in 1..Slots, Alive(s), Alive(s)',
           NEW p \in Pages, p = rec[s].page
    PROVE  /\ IsOpen(p) /\ page[p].slot = s /\ rec'[s].page = p
           /\ \/ SameTalk(rec'[s], rec[s]) /\ SameSaid(page'[p], page[p])
              \/ \E w \in Views : Sends(w, s, p) \/ TakesOne(w, s, p)
              \/ SaysOne(s, p)
           /\ \/ PopupsKept(s, p)
              \/ \E w \in Views : view[w].handle = s /\ TakePopup(w)
              \/ \E y \in Pages : page[y].slot = s /\ OpensPopup(y)
<1> DEFINE Talk == \/ SameTalk(rec'[s], rec[s]) /\ SameSaid(page'[p], page[p])
                   \/ \E w \in Views : Sends(w, s, p) \/ TakesOne(w, s, p)
                   \/ SaysOne(s, p)
           Offer == \/ PopupsKept(s, p)
                    \/ \E w \in Views : view[w].handle = s /\ TakePopup(w)
                    \/ \E y \in Pages : page[y].slot = s /\ OpensPopup(y)
<1>1. IsOpen(p) /\ page[p].slot = s /\ rec'[s].page = p
  BY AliveRecord, AliveKeeps
<1>2. ASSUME rec'[s] = rec[s], SameSaid(page'[p], page[p]), SameOpened(page'[p], page[p])
      PROVE  Talk /\ Offer
  BY <1>2 DEF SameTalk, PopupsKept, SameOffer
<1>3. ASSUME NEW w \in Views, view[w].handle = s, ViewNext(w), ~Create(w), ~CreateFails(w),
             ~Destroyed(w)
      PROVE  Talk /\ Offer
  <2>1. /\ TalkKept(w, s, p) \/ Send(w) \/ TakeMessage(w)
        /\ PopupsKept(s, p) \/ TakePopup(w)
    BY <1>3, ViewHome
  <2>2. Talk
    BY <1>3, <2>1, SendsHome, TakesHome DEF TalkKept
  <2>3. QED  BY <1>3, <2>1, <2>2
<1>4. ASSUME NEW y \in Pages, page[y].slot = s, PageNext(y) PROVE Talk /\ Offer
  <2>1. /\ TalkKept(y, s, p) \/ (Says(y) /\ y = p)
        /\ PopupsKept(s, p) \/ OpensPopup(y)
    BY <1>4, PageHome
  <2>2. Talk
    BY <1>1, <2>1, SaysHome DEF TalkKept
  <2>3. QED  BY <1>4, <2>1, <2>2
<1>5. Talk /\ Offer
  BY <1>2, <1>3, <1>4, StepAt
<1>6. QED  BY <1>1, <1>5

\* The callbacks that wait in a view change when it sends and when it takes.
LEMMA WaitingSteps ==
    ASSUME CefShape, Unmade, [CefNext]_cefVars, NEW v \in Views
    PROVE  \/ view'[v].waiting = view[v].waiting
           \/ /\ \A w \in Views \ {v} : view'[w] = view[w]
              /\ \E h \in 1..Slots, p \in Pages :
                    /\ Alive(h) /\ rec[h].page = p /\ IsOpen(p) /\ page[p].slot = h
                    /\ Sends(v, h, p) \/ TakesOne(v, h, p)
<1>0. view \in [Views -> Controls]
  BY DEF CefShape, CefTypeOK
<1>1. PICK c \in Controls : c = view[v]
  BY <1>0
<1>2. ASSUME Send(v) \/ TakeMessage(v)
      PROVE  /\ \A w \in Views \ {v} : view'[w] = view[w]
             /\ \E h \in 1..Slots, p \in Pages :
                   /\ Alive(h) /\ rec[h].page = p /\ IsOpen(p) /\ page[p].slot = h
                   /\ Sends(v, h, p) \/ TakesOne(v, h, p)
  <2>1. Reaches(v)
    BY <1>2 DEF Send, TakeMessage
  <2>2. PICK h \in 1..Slots, p \in Pages :
           h = view[v].handle /\ p = rec[h].page /\ Alive(h) /\ IsOpen(p) /\ page[p].slot = h
    BY <2>1, Reached
  <2>3. ViewNext(v)
    BY <1>2 DEF ViewNext
  <2>4. view[v].created
    BY <2>2, CefAssumption DEF Unmade
  <2>5. \A w \in Views \ {v} : view'[w] = view[w]
    BY <2>3, <2>4, ViewElsewhere DEF Create, CreateFails
  <2>6. QED  BY <1>2, <2>2, <2>5, SendsHome, TakesHome
<1>3. ASSUME ViewNext(v), ~Send(v), ~TakeMessage(v) PROVE view'[v].waiting = view[v].waiting
  <2>1. UNCHANGED view => view'[v].waiting = view[v].waiting
    OBVIOUS
  <2>2. CASE Create(v)
    <3>1. PICK s \in 1..Slots, p \in Pages, x \in Places, told \in BOOLEAN :
             CreateAt(v, s, p, x, told)
      BY <2>2 DEF Create
    <3>2. PICK b : b = Unheard(v, s)
      OBVIOUS
    <3>3. PICK d : d = [c EXCEPT !.created = TRUE, !.handle = s, !.page = p, !.clear = b]
      OBVIOUS
    <3>4. view' = [view EXCEPT ![v] = d]
      BY <1>1, <3>1, <3>2, <3>3, Zenon DEF CreateAt
    <3>5. view'[v] = d
      BY <1>0, <3>4
    <3>6. d.waiting = c.waiting
      BY <3>3, Zenon DEF Controls
    <3>7. QED  BY <1>1, <3>5, <3>6
  <2>3. CASE CreateFails(v)
    <3>1. view'[v] = [c EXCEPT !.created = TRUE]
      BY <1>0, <1>1, <2>3 DEF CreateFails
    <3>2. QED  BY <1>1, <3>1 DEF Controls
  <2>4. CASE Destroyed(v)
    <3>1. view'[v] = [c EXCEPT !.handle = 0, !.created = FALSE]
      BY <1>0, <1>1, <2>4 DEF Destroyed
    <3>2. QED  BY <1>1, <3>1 DEF Controls
  <2>5. CASE Poll(v)
    <3>1. PICK a, b : view'[v] = [c EXCEPT !.seq = a, !.url = b]
      BY <1>0, <1>1, <2>5 DEF Poll
    <3>2. QED  BY <1>1, <3>1 DEF Controls
  <2>6. Destroy(v) \/ TakePopup(v) => UNCHANGED view
    BY DEF Destroy, TakePopup
  <2>7. (\E x \in Places : SetBounds(v, x)) \/ (\E k \in Regions \cup {None} : SetClip(v, k))
           => UNCHANGED view
    BY DEF SetBounds, SetClip
  <2>8. QED  BY <1>3, <2>1, <2>2, <2>3, <2>4, <2>5, <2>6, <2>7, Zenon DEF ViewNext
<1>4. QED  BY <1>2, <1>3, ViewSteps

\* Where a callback that waits comes from.
LEMMA EntryBefore ==
    ASSUME CefShape, Unmade, [CefNext]_cefVars, NEW v \in Views, NEW j \in DOMAIN view'[v].waiting
    PROVE  \/ \E i \in DOMAIN view[v].waiting : view'[v].waiting[j] = view[v].waiting[i]
           \/ \E h \in 1..Slots, p \in Pages :
                 /\ Alive(h) /\ rec[h].page = p /\ IsOpen(p) /\ page[p].slot = h
                 /\ Sends(v, h, p) /\ view'[v].waiting[j] = [id |-> rec[h].id + 1, page |-> p]
<1>1. PICK w : w = view[v].waiting /\ w \in Seq(Callbacks)
  BY DEF CefShape, CefTypeOK, Controls
<1>2. ASSUME NEW h \in 1..Slots, NEW p \in Pages, Sends(v, h, p)
      PROVE  \/ \E i \in DOMAIN w : view'[v].waiting[j] = w[i]
             \/ view'[v].waiting[j] = [id |-> rec[h].id + 1, page |-> p]
  <2>1. PICK k : k = [id |-> rec[h].id + 1, page |-> p] /\ view'[v].waiting = Append(w, k)
    BY <1>1, <1>2 DEF Sends
  <2>2. \A i \in DOMAIN Append(w, k) :
           (i \in DOMAIN w /\ Append(w, k)[i] = w[i]) \/ Append(w, k)[i] = k
    BY <1>1
  <2>3. QED  BY <2>1, <2>2
<1>3. ASSUME NEW h \in 1..Slots, NEW p \in Pages, TakesOne(v, h, p)
      PROVE  \E i \in DOMAIN w : view'[v].waiting[j] = w[i]
  <2>1. PICK id : view'[v].waiting = Answered(w, id)
    BY <1>1, <1>3 DEF TakesOne
  <2>2. CASE Awaits(w, id)
    BY <1>1, <2>1, <2>2, AnsweredOne
  <2>3. CASE ~Awaits(w, id)
    BY <2>1, <2>3 DEF Answered
  <2>4. QED  BY <2>2, <2>3
<1>4. QED  BY <1>1, <1>2, <1>3, WaitingSteps

\* A page that was just made has said nothing, and its record was told nothing.
LEMMA MadeRecord ==
    ASSUME CefShape, NEW v \in Views, NEW s \in 1..Slots, NEW p \in Pages, NEW x \in Places,
           NEW told \in BOOLEAN, CreateAt(v, s, p, x, told)
    PROVE  /\ rec'[s].page = p /\ rec'[s].count = 0 /\ rec'[s].dropped = 0
           /\ rec'[s].missed = 0 /\ rec'[s].popup = None
           /\ page'[p].said = 0 /\ page'[p].owed = {} /\ page'[p].taken = 0
           /\ page'[p].astray = {} /\ page'[p].opened = 0 /\ page'[p].handed = 0
           /\ page'[p].blank = 0 /\ page[p].state = "none"
           /\ view'[v].handle = s /\ view'[v].waiting = view[v].waiting
           /\ view'[v].clear => view[v].waiting = <<>>
           /\ \A w \in Views : view'[w].waiting = view[w].waiting
<1>0. /\ rec \in [1..Slots -> Records] /\ view \in [Views -> Controls]
      /\ page \in [Pages -> PageRecords]
  BY DEF CefShape, CefTypeOK
<1>a. PICK c \in Controls : c = view[v]
  BY <1>0
<1>1. PICK g, r :
         /\ g = [Unopened EXCEPT !.state = "open", !.slot = s, !.place = x,
                                 !.shown = TRUE, !.held = HeldAfter(Unused.page, p, told)]
         /\ r = [Unused EXCEPT !.used = TRUE, !.page = p, !.observed = TRUE,
                               !.place = x, !.policy = view[v].policy]
  OBVIOUS
<1>2. PICK b : b = Unheard(v, s)
  OBVIOUS
<1>3. PICK d : d = [c EXCEPT !.created = TRUE, !.handle = s, !.page = p, !.clear = b]
  OBVIOUS
<1>4. /\ g.said = 0 /\ g.owed = {} /\ g.taken = 0 /\ g.astray = {} /\ g.opened = 0
      /\ g.handed = 0 /\ g.blank = 0
  BY <1>1 DEF Unopened
<1>5. r.count = 0 /\ r.dropped = 0 /\ r.page = p /\ r.missed = 0 /\ r.popup = None
  BY <1>1 DEF Unused
<1>6. d.handle = s /\ d.clear = b /\ d.waiting = c.waiting
  BY <1>3, Zenon DEF Controls
<1>7. /\ page' = [page EXCEPT ![p] = g] /\ rec' = [rec EXCEPT ![s] = r]
      /\ view' = [view EXCEPT ![v] = d] /\ page[p].state = "none"
  BY <1>a, <1>1, <1>2, <1>3, Zenon DEF CreateAt
<1>8. /\ page'[p] = g /\ rec'[s] = r /\ view'[v] = d
      /\ \A w \in Views : w # v => view'[w] = view[w]
  BY <1>0, <1>7
<1>9. b => view[v].waiting = <<>>
  BY <1>2 DEF Unheard
<1>10. QED  BY <1>a, <1>4, <1>5, <1>6, <1>7, <1>8, <1>9

\* The steps of an owner: it makes its page, or its page says something, or it
\* sends or takes a message.
LEMMA OwnerSteps ==
    ASSUME CefShape, Unmade, OneOwner, [CefNext]_cefVars, NEW v \in Views, Owner(v)'
    PROVE  \/ \E s \in 1..Slots, p \in Pages, x \in Places, told \in BOOLEAN :
                 CreateAt(v, s, p, x, told)
           \/ \E h \in 1..Slots, p \in Pages :
                 /\ Owner(v) /\ h = view[v].handle /\ view'[v].handle = h
                 /\ rec[h].page = p /\ rec'[h].page = p
                 /\ \/ /\ SameTalk(rec'[h], rec[h]) /\ SameSaid(page'[p], page[p])
                       /\ view'[v].waiting = view[v].waiting
                    \/ Sends(v, h, p) \/ TakesOne(v, h, p) \/ SaysOne(h, p)
<1>1. CASE Create(v)
  BY <1>1 DEF Create
<1>2. ASSUME ~Create(v)
      PROVE  \E h \in 1..Slots, p \in Pages :
                 /\ Owner(v) /\ h = view[v].handle /\ view'[v].handle = h
                 /\ rec[h].page = p /\ rec'[h].page = p
                 /\ \/ /\ SameTalk(rec'[h], rec[h]) /\ SameSaid(page'[p], page[p])
                       /\ view'[v].waiting = view[v].waiting
                    \/ Sends(v, h, p) \/ TakesOne(v, h, p) \/ SaysOne(h, p)
  <2>1. Owner(v) /\ view'[v].handle = view[v].handle
        /\ rec'[view[v].handle].page = rec[view[v].handle].page
    <3>1. ASSUME NEW s \in 1..Slots, NEW p \in Pages, Makes(v, s, p) PROVE FALSE
      <4>1. ~view[v].created /\ view'[v].created /\ view'[v].handle = s /\ s # 0
        BY <3>1, CefAssumption DEF Makes
      <4>2. view[v].handle = 0
        BY <4>1 DEF Unmade
      <4>3. view'[v] # view[v]
        BY <4>1, <4>2
      <4>4. ~CreateFails(v)
        BY <4>1, <4>2, FailsMakesNone DEF MakesNone
      <4>5. ~Destroyed(v)
        BY <4>1, DestroyedGivesUp DEF GivesUp
      <4>6. QED  BY <1>2, <4>2, <4>3, <4>4, <4>5, ViewSteps, ActsWithHandle
    <3>2. QED  BY <3>1, OwnerBefore
  <2>2. view[v].handle \in 0..Slots /\ Alive(view[v].handle)
    BY <2>1 DEF CefShape, CefTypeOK, Controls, Owner
  <2>3. PICK h \in 1..Slots, p \in Pages :
           /\ h = view[v].handle /\ p = rec[h].page /\ Alive(h)
           /\ IsOpen(p) /\ page[p].slot = h
    BY <2>2, AliveRecord
  <2>4. view'[v].handle = h /\ rec'[h].page = p
    BY <2>1, <2>3
  <2>5. Alive(h)'
    BY <2>4 DEF Owner, Alive
  <2>6. \A w \in Views : view[w].handle = h => w = v
    BY <2>1, <2>3 DEF OneOwner
  <2>7. \/ SameTalk(rec'[h], rec[h]) /\ SameSaid(page'[p], page[p])
        \/ Sends(v, h, p) \/ TakesOne(v, h, p) \/ SaysOne(h, p)
    <3>1. ASSUME NEW w \in Views, Sends(w, h, p) \/ TakesOne(w, h, p)
          PROVE  Sends(v, h, p) \/ TakesOne(v, h, p)
      <4>1. w = v
        BY <2>6, <3>1 DEF Sends, TakesOne
      <4>2. QED  BY <3>1, <4>1
    <3>2. QED  BY <2>3, <2>5, <3>1, RecordSteps
  <2>8. view'[v].waiting = view[v].waiting \/ Sends(v, h, p) \/ TakesOne(v, h, p)
    <3>1. ASSUME NEW k \in 1..Slots, NEW o \in Pages, rec[k].page = o,
                 Sends(v, k, o) \/ TakesOne(v, k, o)
          PROVE  Sends(v, h, p) \/ TakesOne(v, h, p)
      <4>1. k = h
        BY <2>3, <3>1 DEF Sends, TakesOne
      <4>2. o = p
        BY <2>3, <3>1, <4>1
      <4>3. QED  BY <3>1, <4>1, <4>2
    <3>2. QED  BY <3>1, WaitingSteps
  <2>9. QED  BY <2>1, <2>3, <2>4, <2>7, <2>8
<1>3. QED  BY <1>1, <1>2

(***************************************************************************)
(* The messages of a page are queued in the order it said them.            *)
(***************************************************************************)
InOrder(r, g) ==
    /\ \A i \in 0..(r.count - 1) : Kept(r, i).n = g.said - r.count + 1 + i
    /\ g.taken + r.dropped + r.count = g.said
AllInOrder ==
    \A s \in 1..Slots : Alive(s) /\ rec[s].observed => InOrder(rec[s], page[rec[s].page])

LEMMA OrderOf == AllInOrder => QueueInOrder
BY Zenon DEF AllInOrder, QueueInOrder, InOrder, Kept

LEMMA SameKept ==
    ASSUME NEW r, NEW d, SameQueue(d, r)
    PROVE  d.count = r.count /\ d.dropped = r.dropped /\ \A i : Kept(d, i) = Kept(r, i)
BY DEF SameQueue, Kept

LEMMA OrderSame ==
    ASSUME NEW r, NEW g, NEW d, NEW e, InOrder(r, g), SameQueue(d, r), e.said = g.said,
           e.taken = g.taken
    PROVE  InOrder(d, e)
BY SameKept DEF InOrder

LEMMA OrderTaken ==
    ASSUME NEW r \in Records, NEW g \in PageRecords, InOrder(r, g), r.count > 0,
           NEW id \in Nat, NEW b
    PROVE  InOrder(TakenOne(r), Took(g, id, b))
<1>1. PICK d, e :
         /\ d = TakenOne(r) /\ d.dropped = r.dropped /\ d.count = r.count - 1
         /\ \A i \in 0..(r.count - 2) : Kept(d, i) = Kept(r, i + 1)
         /\ e = Took(g, id, b) /\ e.said = g.said /\ e.taken = g.taken + 1
  <2>1. PICK d : d = TakenOne(r)
    OBVIOUS
  <2>2. /\ d.dropped = r.dropped /\ d.count = r.count - 1
        /\ \A i \in 0..(r.count - 2) : Kept(d, i) = Kept(r, i + 1)
    BY <2>1, TookMessage
  <2>3. PICK e : e = Took(g, id, b)
    OBVIOUS
  <2>4. e.said = g.said
    BY <2>3, TookFields
  <2>5. e.taken = g.taken + 1
    BY <2>3, TookFields
  <2>6. QED  BY <2>1, <2>2, <2>3, <2>4, <2>5
<1>2. PICK k \in Nat, a \in Nat, l \in Nat, z \in Nat :
         k = r.count /\ a = g.taken /\ l = r.dropped /\ z = g.said
  <2>1. r.count \in Nat /\ r.dropped \in Nat
    BY CefAssumption DEF Records
  <2>2. g.taken \in Nat /\ g.said \in Nat
    BY DEF PageRecords
  <2>3. QED  BY <2>1, <2>2
<1>3. ASSUME NEW i \in 0..(d.count - 1) PROVE Kept(d, i).n = e.said - d.count + 1 + i
  <2>1. i \in 0..(k - 2) /\ i + 1 \in 0..(k - 1)
    BY <1>1, <1>2
  <2>2. Kept(d, i).n = z - k + 1 + (i + 1)
    BY <1>1, <1>2, <2>1 DEF InOrder
  <2>3. QED  BY <1>1, <1>2, <2>1, <2>2
<1>4. e.taken + d.dropped + d.count = e.said
  <2>1. a + l + k = z
    BY <1>2 DEF InOrder
  <2>2. QED  BY <1>1, <1>2, <2>1
<1>5. QED  BY <1>1, <1>3, <1>4 DEF InOrder

\* What a page says joins the queue, which loses its first message if it is full.
LEMMA SaidKept ==
    ASSUME NEW r \in Records, NEW g \in PageRecords, NEW id \in Nat
    PROVE  LET d == Push(r, [n |-> g.said + 1, id |-> id])
           IN  /\ d \in Records /\ d.observed = r.observed /\ d.id = r.id
               /\ r.count < QueueMax =>
                     /\ d.count = r.count + 1 /\ d.dropped = r.dropped
                     /\ \A i \in 0..(r.count - 1) : Kept(d, i) = Kept(r, i)
                     /\ Kept(d, r.count).n = g.said + 1 /\ Kept(d, r.count).id = id
               /\ r.count = QueueMax =>
                     /\ d.count = r.count /\ d.dropped = r.dropped + 1
                     /\ \A i \in 0..(r.count - 2) : Kept(d, i) = Kept(r, i + 1)
                     /\ Kept(d, r.count - 1).n = g.said + 1 /\ Kept(d, r.count - 1).id = id
<1>1. PICK n \in Nat : n = g.said + 1
  BY DEF PageRecords
<1>2. PICK m \in Stored : m = [n |-> n, id |-> id] /\ m.n = n /\ m.id = id
  <2>1. [n |-> n, id |-> id] \in Stored
    BY DEF Stored
  <2>2. QED  BY <2>1
<1>3. QED  BY <1>1, <1>2, Pushed

LEMMA OrderSaid ==
    ASSUME NEW r \in Records, NEW g \in PageRecords, InOrder(r, g), NEW id \in Nat,
           NEW e, e.said = g.said + 1, e.taken = g.taken
    PROVE  InOrder(Push(r, [n |-> g.said + 1, id |-> id]), e)
<1>1. PICK d \in Records :
         /\ d = Push(r, [n |-> g.said + 1, id |-> id])
         /\ r.count < QueueMax =>
               /\ d.count = r.count + 1 /\ d.dropped = r.dropped
               /\ \A i \in 0..(r.count - 1) : Kept(d, i) = Kept(r, i)
               /\ Kept(d, r.count).n = g.said + 1
         /\ r.count = QueueMax =>
               /\ d.count = r.count /\ d.dropped = r.dropped + 1
               /\ \A i \in 0..(r.count - 2) : Kept(d, i) = Kept(r, i + 1)
               /\ Kept(d, r.count - 1).n = g.said + 1
  BY SaidKept
<1>2. PICK k \in Nat, a \in Nat, l \in Nat, z \in Nat :
         k = r.count /\ a = g.taken /\ l = r.dropped /\ z = g.said
  <2>1. r.count \in Nat /\ r.dropped \in Nat
    BY CefAssumption DEF Records
  <2>2. g.taken \in Nat /\ g.said \in Nat
    BY DEF PageRecords
  <2>3. QED  BY <2>1, <2>2
<1>3. a + l + k = z
  BY <1>2 DEF InOrder
<1>4. ASSUME NEW i \in 0..(k - 1) PROVE Kept(r, i).n = z - k + 1 + i
  BY <1>2, <1>4 DEF InOrder
<1>5. k < QueueMax \/ (k = QueueMax /\ k > 0)
  BY <1>2, CefAssumption, SMTT(30) DEF Records
<1>6. CASE k < QueueMax
  <2>1. ASSUME NEW i \in 0..(d.count - 1) PROVE Kept(d, i).n = e.said - d.count + 1 + i
    <3>1. CASE i = k
      BY <1>1, <1>2, <1>6, <3>1
    <3>2. ASSUME i # k PROVE Kept(d, i).n = e.said - d.count + 1 + i
      <4>1. i \in 0..(k - 1) /\ i \in Int
        BY <1>1, <1>2, <1>6, <3>2
      <4>2. Kept(d, i).n = z - k + 1 + i
        BY <1>1, <1>2, <1>4, <1>6, <4>1
      <4>3. QED  BY <1>1, <1>2, <1>6, <4>1, <4>2
    <3>3. QED  BY <3>1, <3>2
  <2>2. e.taken + d.dropped + d.count = e.said
    BY <1>1, <1>2, <1>3, <1>6
  <2>3. QED  BY <1>1, <2>1, <2>2 DEF InOrder
<1>7. CASE k = QueueMax /\ k > 0
  <2>1. ASSUME NEW i \in 0..(d.count - 1) PROVE Kept(d, i).n = e.said - d.count + 1 + i
    <3>1. CASE i = k - 1
      BY <1>1, <1>2, <1>7, <3>1
    <3>2. ASSUME i # k - 1 PROVE Kept(d, i).n = e.said - d.count + 1 + i
      <4>1. i \in 0..(k - 2) /\ i + 1 \in 0..(k - 1) /\ i \in Int
        BY <1>1, <1>2, <1>7, <3>2
      <4>2. Kept(d, i).n = z - k + 1 + (i + 1)
        BY <1>1, <1>2, <1>4, <1>7, <4>1
      <4>3. QED  BY <1>1, <1>2, <1>7, <4>1, <4>2
    <3>3. QED  BY <3>1, <3>2
  <2>2. e.taken + d.dropped + d.count = e.said
    BY <1>1, <1>2, <1>3, <1>7
  <2>3. QED  BY <1>1, <2>1, <2>2 DEF InOrder
<1>8. QED  BY <1>5, <1>6, <1>7

LEMMA OrderStep ==
    ASSUME CefShape, AllInOrder, [CefNext]_cefVars
    PROVE  AllInOrder'
<1>1. SUFFICES ASSUME NEW s \in 1..Slots, Alive(s)', rec'[s].observed
               PROVE  InOrder(rec'[s], page'[rec'[s].page])
  BY DEF AllInOrder
<1>2. ASSUME NEW v \in Views, NEW p \in Pages, NEW x \in Places, NEW told \in BOOLEAN,
             CreateAt(v, s, p, x, told)
      PROVE  InOrder(rec'[s], page'[rec'[s].page])
  BY <1>2, MadeRecord DEF InOrder
<1>3. ASSUME Alive(s) PROVE InOrder(rec'[s], page'[rec'[s].page])
  <2>1. PICK p \in Pages, r \in Records, g \in PageRecords :
           p = rec[s].page /\ r = rec[s] /\ g = page[p]
    BY <1>3, AliveRecord
  <2>2. /\ rec'[s].page = p
        /\ \/ SameTalk(rec'[s], rec[s]) /\ SameSaid(page'[p], page[p])
           \/ \E w \in Views : Sends(w, s, p) \/ TakesOne(w, s, p)
           \/ SaysOne(s, p)
    BY <1>1, <1>3, <2>1, RecordSteps
  <2>3. ASSUME r.observed PROVE InOrder(r, g)
    BY <1>3, <2>1, <2>3 DEF AllInOrder
  <2>4. CASE SameTalk(rec'[s], rec[s]) /\ SameSaid(page'[p], page[p])
    <3>1. /\ SameQueue(rec'[s], r) /\ r.observed /\ page'[p].said = g.said
          /\ page'[p].taken = g.taken
      BY <1>1, <2>1, <2>4 DEF SameTalk, SameQueue, SameSaid
    <3>2. QED  BY <2>2, <2>3, <3>1, OrderSame
  <2>5. ASSUME NEW w \in Views, Sends(w, s, p) PROVE InOrder(rec'[s], page'[p])
    <3>1. /\ SameQueue(rec'[s], r) /\ r.observed /\ page'[p].said = g.said
          /\ page'[p].taken = g.taken
      BY <1>1, <2>1, <2>5 DEF Sends, SameQueue
    <3>2. QED  BY <2>3, <3>1, OrderSame
  <2>6. ASSUME NEW w \in Views, TakesOne(w, s, p) PROVE InOrder(rec'[s], page'[p])
    <3>1. PICK id \in Nat, b \in BOOLEAN :
             r.count > 0 /\ rec'[s] = TakenOne(r) /\ page'[p] = Took(g, id, b)
      BY <2>1, <2>6 DEF TakesOne
    <3>2. r.observed
      BY <1>1, <3>1, TookMessage
    <3>3. QED  BY <2>3, <3>1, <3>2, OrderTaken
  <2>7. ASSUME SaysOne(s, p) PROVE InOrder(rec'[s], page'[p])
    <3>1. PICK id \in {0} \cup g.owed :
             /\ rec'[s] = Push(r, [n |-> g.said + 1, id |-> id])
             /\ page'[p].said = g.said + 1 /\ page'[p].taken = g.taken
      BY <2>1, <2>7 DEF SaysOne
    <3>2. id \in Nat
      BY DEF PageRecords
    <3>3. r.observed
      BY <1>1, <3>1, <3>2, SaidKept
    <3>4. QED  BY <2>3, <3>1, <3>2, <3>3, OrderSaid
  <2>8. QED  BY <2>2, <2>4, <2>5, <2>6, <2>7
<1>4. QED  BY <1>1, <1>2, <1>3, AliveBefore

(***************************************************************************)
(* The callbacks that wait.                                                *)
(***************************************************************************)
\* A callback waits once, in one view, for a command its page was given.
OnceEach ==
    \A v \in Views : Distinct(view[v].waiting) /\ Ordered(Len(view[v].waiting))
Apart ==
    \A v, w \in Views : v # w =>
        \A i \in DOMAIN view[v].waiting : \A j \in DOMAIN view[w].waiting :
            view[v].waiting[i] # view[w].waiting[j]
WasSent(c) ==
    /\ c.id # 0 /\ page[c.page].state # "none"
    /\ \A s \in 1..Slots : Alive(s) /\ rec[s].page = c.page => c.id <= rec[s].id
Numbered == \A v \in Views : \A i \in DOMAIN view[v].waiting : WasSent(view[v].waiting[i])
WaitingOnce == OnceEach /\ Apart /\ Numbered

LEMMA SameCallback ==
    ASSUME NEW a \in Callbacks, NEW b \in Callbacks, a.id = b.id, a.page = b.page
    PROVE  a = b
BY DEF Callbacks

\* A callback made for the next command is none of those that wait.
LEMMA NewCallback ==
    ASSUME CefShape, Numbered, NEW v \in Views, NEW i \in DOMAIN view[v].waiting,
           NEW h \in 1..Slots, NEW p \in Pages, Alive(h), rec[h].page = p
    PROVE  view[v].waiting[i] # [id |-> rec[h].id + 1, page |-> p]
<1>1. rec[h].id \in Nat
  BY DEF CefShape, CefTypeOK, Records
<1>2. view[v].waiting[i].page = p => view[v].waiting[i].id <= rec[h].id
  BY DEF Numbered, WasSent
<1>3. SUFFICES ASSUME NEW c, c = view[v].waiting[i], c = [id |-> rec[h].id + 1, page |-> p]
               PROVE  FALSE
  OBVIOUS
<1>4. c.id = rec[h].id + 1 /\ c.page = p
  BY <1>3
<1>5. QED  BY <1>1, <1>2, <1>3, <1>4

LEMMA NumberedStep ==
    ASSUME CefShape, Unmade, Numbered, [CefNext]_cefVars
    PROVE  Numbered'
<1>0. /\ rec \in [1..Slots -> Records] /\ view \in [Views -> Controls]
  BY DEF CefShape, CefTypeOK
<1>1. SUFFICES ASSUME NEW v \in Views, NEW j \in DOMAIN view'[v].waiting, NEW c,
                      c = view'[v].waiting[j]
               PROVE  /\ c.id # 0 /\ page'[c.page].state # "none"
                      /\ \A s \in 1..Slots : Alive(s)' /\ rec'[s].page = c.page =>
                            c.id <= rec'[s].id
  BY Zenon DEF Numbered, WasSent
<1>2. ASSUME NEW s \in 1..Slots, Alive(s)', ~Alive(s) PROVE page[rec'[s].page].state = "none"
  BY <1>2, AliveBefore, MadeRecord
<1>3. ASSUME NEW s \in 1..Slots, Alive(s)', Alive(s)
      PROVE  rec'[s].page = rec[s].page /\ rec[s].id <= rec'[s].id
  <2>1. PICK p \in Pages, r \in Records, g \in PageRecords :
           p = rec[s].page /\ r = rec[s] /\ g = page[p]
    BY <1>3, AliveRecord
  <2>2. r.id \in Nat /\ g.owed \subseteq Nat
    BY DEF Records, PageRecords
  <2>3. ASSUME NEW w \in Views, TakesOne(w, s, p) PROVE rec'[s].id = r.id
    BY <2>1, <2>3, TookMessage DEF TakesOne
  <2>4. ASSUME SaysOne(s, p) PROVE rec'[s].id = r.id
    BY <2>1, <2>2, <2>4, SaidKept DEF SaysOne
  <2>5. ASSUME NEW w \in Views, Sends(w, s, p) PROVE rec'[s].id = r.id + 1
    BY <2>1, <2>5 DEF Sends
  <2>6. SameTalk(rec'[s], rec[s]) => rec'[s].id = r.id
    BY <2>1 DEF SameTalk
  <2>7. QED  BY <1>3, <2>1, <2>2, <2>3, <2>4, <2>5, <2>6, RecordSteps
<1>4. ASSUME NEW i \in DOMAIN view[v].waiting, c = view[v].waiting[i]
      PROVE  /\ c.id # 0 /\ page'[c.page].state # "none"
             /\ \A s \in 1..Slots : Alive(s)' /\ rec'[s].page = c.page => c.id <= rec'[s].id
  <2>1. WasSent(c)
    BY <1>4 DEF Numbered
  <2>2. c.page \in Pages /\ c.id \in Nat
    <3>1. PICK w \in Seq(Callbacks) : w = view[v].waiting
      BY <1>0 DEF Controls
    <3>2. w[i] \in Callbacks /\ c = w[i]
      BY <1>4, <3>1
    <3>3. QED  BY <3>2 DEF Callbacks
  <2>3. page'[c.page].state # "none"
    BY <2>1, <2>2, NeverNone DEF WasSent
  <2>4. ASSUME NEW s \in 1..Slots, Alive(s)', rec'[s].page = c.page PROVE c.id <= rec'[s].id
    <3>1. Alive(s)
      BY <1>2, <2>1, <2>4 DEF WasSent
    <3>2. c.id <= rec[s].id /\ rec[s].id <= rec'[s].id
      BY <1>3, <2>1, <2>4, <3>1 DEF WasSent
    <3>3. rec[s].id \in Nat /\ rec'[s].id \in Nat
      BY <1>0, CefTypedStep DEF CefTypeOK, Records
    <3>4. QED  BY <2>2, <3>2, <3>3
  <2>5. QED  BY <2>1, <2>3, <2>4 DEF WasSent
<1>5. ASSUME NEW h \in 1..Slots, NEW p \in Pages, Alive(h), rec[h].page = p, IsOpen(p),
             page[p].slot = h, Sends(v, h, p), c = [id |-> rec[h].id + 1, page |-> p]
      PROVE  /\ c.id # 0 /\ page'[c.page].state # "none"
             /\ \A s \in 1..Slots : Alive(s)' /\ rec'[s].page = c.page => c.id <= rec'[s].id
  <2>1. c.id = rec[h].id + 1 /\ c.page = p /\ rec[h].id \in Nat
    BY <1>0, <1>5 DEF Records
  <2>2. page[p].state # "none"
    BY <1>5 DEF IsOpen
  <2>3. page'[p].state # "none"
    BY <2>2, NeverNone
  <2>4. ASSUME NEW s \in 1..Slots, Alive(s)', rec'[s].page = p PROVE c.id <= rec'[s].id
    <3>1. Alive(s)
      BY <1>2, <2>2, <2>4
    <3>2. rec[s].page = p
      BY <1>3, <2>4, <3>1
    <3>3. s = h
      BY <1>5, <3>1, <3>2, AliveRecord
    <3>4. QED  BY <1>5, <2>1, <3>3 DEF Sends
  <2>5. QED  BY <2>1, <2>3, <2>4
<1>6. QED  BY <1>1, <1>4, <1>5, EntryBefore

LEMMA AppendDistinct ==
    ASSUME NEW w \in Seq(Callbacks), NEW c, Distinct(w), \A i \in DOMAIN w : w[i] # c
    PROVE  Distinct(Append(w, c))
<1>a. PICK k \in Nat : k = Len(w)
  OBVIOUS
<1>1. PICK u : u = Append(w, c)
  OBVIOUS
<1>2. DOMAIN w = 1..k /\ DOMAIN u = 1..(k + 1) /\ u[k + 1] = c /\ \A i \in 1..k : u[i] = w[i]
  BY <1>a, <1>1
<1>3. \A i \in 1..(k + 1) : i \in 1..k \/ i = k + 1
  OBVIOUS
<1>4. \A i, j \in 1..k : u[i] = u[j] => i = j
  BY <1>2 DEF Distinct
<1>5. \A i \in 1..k : u[i] # u[k + 1]
  BY <1>2
<1>6. Distinct(u)
  BY <1>2, <1>3, <1>4, <1>5 DEF Distinct
<1>7. QED  BY <1>1, <1>6

LEMMA OnceEachStep ==
    ASSUME CefShape, Unmade, WaitingOnce, [CefNext]_cefVars
    PROVE  OnceEach'
<1>1. SUFFICES ASSUME NEW v \in Views
               PROVE  Distinct(view'[v].waiting) /\ Ordered(Len(view'[v].waiting))
  BY Zenon DEF OnceEach, Distinct, Ordered
<1>2. PICK w \in Seq(Callbacks) : w = view[v].waiting
  BY DEF CefShape, CefTypeOK, Controls
<1>3. Distinct(w) /\ Ordered(Len(w)) /\ Len(w) \in Nat
  BY <1>2 DEF WaitingOnce, OnceEach
<1>4. ASSUME NEW h \in 1..Slots, NEW p \in Pages, Alive(h), rec[h].page = p, Sends(v, h, p)
      PROVE  Distinct(view'[v].waiting) /\ Ordered(Len(view'[v].waiting))
  <2>1. PICK c : c = [id |-> rec[h].id + 1, page |-> p]
    OBVIOUS
  <2>2. view'[v].waiting = Append(w, c)
    BY <1>2, <1>4, <2>1 DEF Sends
  <2>3. \A i \in DOMAIN w : w[i] # c
    BY <1>2, <1>4, <2>1, NewCallback DEF WaitingOnce
  <2>4. Distinct(Append(w, c))
    BY <1>3, <2>3, AppendDistinct
  <2>5. Len(Append(w, c)) = Len(w) + 1
    OBVIOUS
  <2>6. QED  BY <1>3, <2>2, <2>4, <2>5, OrderedNext
<1>5. ASSUME NEW h \in 1..Slots, NEW p \in Pages, TakesOne(v, h, p)
      PROVE  Distinct(view'[v].waiting) /\ Ordered(Len(view'[v].waiting))
  <2>1. PICK id : view'[v].waiting = Answered(w, id)
    BY <1>2, <1>5 DEF TakesOne
  <2>2. CASE Awaits(w, id)
    <3>1. /\ Distinct(Answered(w, id)) /\ Len(Answered(w, id)) = Len(w) - 1
          /\ Answered(w, id) \in Seq(Callbacks)
      BY <1>3, <2>2, AnsweredOne
    <3>2. Len(Answered(w, id)) \in Nat /\ Len(Answered(w, id)) <= Len(w)
      BY <1>3, <3>1
    <3>3. QED  BY <1>3, <2>1, <3>1, <3>2, OrderedLess
  <2>3. CASE ~Awaits(w, id)
    BY <1>3, <2>1, <2>3 DEF Answered
  <2>4. QED  BY <2>2, <2>3
<1>6. QED  BY <1>2, <1>3, <1>4, <1>5, WaitingSteps

LEMMA ApartStep ==
    ASSUME CefShape, Unmade, WaitingOnce, [CefNext]_cefVars
    PROVE  Apart'
<1>1. SUFFICES ASSUME NEW v \in Views, NEW w \in Views, v # w,
                      NEW i \in DOMAIN view'[v].waiting, NEW j \in DOMAIN view'[w].waiting,
                      view'[v].waiting[i] = view'[w].waiting[j]
               PROVE  FALSE
  BY Zenon DEF Apart
<1>2. ASSUME NEW a \in Views, NEW b \in Views, a # b, NEW x \in DOMAIN view[a].waiting,
             NEW y \in DOMAIN view'[b].waiting, view[a].waiting[x] = view'[b].waiting[y]
      PROVE  FALSE
  <2>1. ASSUME NEW z \in DOMAIN view[b].waiting, view'[b].waiting[y] = view[b].waiting[z]
        PROVE  FALSE
    BY <1>2, <2>1 DEF WaitingOnce, Apart
  <2>2. ASSUME NEW h \in 1..Slots, NEW p \in Pages, Alive(h), rec[h].page = p,
               view'[b].waiting[y] = [id |-> rec[h].id + 1, page |-> p]
        PROVE  FALSE
    <3>a. PICK c : c = [id |-> rec[h].id + 1, page |-> p] /\ view'[b].waiting[y] = c
      BY <2>2
    <3>1. view[a].waiting[x] # c
      BY <2>2, <3>a, NewCallback DEF WaitingOnce
    <3>2. QED  BY Zenon, <1>2, <3>a, <3>1
  <2>3. \/ \E z \in DOMAIN view[b].waiting : view'[b].waiting[y] = view[b].waiting[z]
        \/ \E h \in 1..Slots, p \in Pages :
              /\ Alive(h) /\ rec[h].page = p
              /\ view'[b].waiting[y] = [id |-> rec[h].id + 1, page |-> p]
    BY <1>2, EntryBefore
  <2>4. QED  BY Zenon, <2>1, <2>2, <2>3
<1>3. view'[v].waiting = view[v].waiting \/ view'[w] = view[w]
  BY <1>1, WaitingSteps
<1>4. CASE view'[v].waiting = view[v].waiting
  BY <1>1, <1>2, <1>4
<1>5. CASE view'[w] = view[w]
  BY <1>1, <1>2, <1>5
<1>6. QED  BY <1>3, <1>4, <1>5

LEMMA WaitingStep ==
    ASSUME CefShape, Unmade, WaitingOnce, [CefNext]_cefVars
    PROVE  WaitingOnce'
<1>1. OnceEach' /\ Apart'
  BY OnceEachStep, ApartStep
<1>2. Numbered'
  BY NumberedStep DEF WaitingOnce
<1>3. QED  BY <1>1, <1>2 DEF WaitingOnce

(***************************************************************************)
(* Every callback that waits has its reply to come, while nothing is       *)
(* dropped, unless the reply went astray.                                  *)
(***************************************************************************)
Comes(r, g, id) ==
    id \in g.owed \cup g.astray \/ \E k \in 0..(r.count - 1) : Kept(r, k).id = id
AllComing ==
    \A s \in 1..Slots : (Alive(s) /\ rec[s].observed /\ rec[s].dropped = 0) =>
        \A v \in Views : \A i \in DOMAIN view[v].waiting :
            view[v].waiting[i].page = rec[s].page =>
                Comes(rec[s], page[rec[s].page], view[v].waiting[i].id)

LEMMA ComingOf == AllComing => ReplyToCome
BY Zenon DEF AllComing, ReplyToCome, Comes, Kept

LEMMA ComesSame ==
    ASSUME NEW r, NEW g, NEW d, NEW e, NEW id, Comes(r, g, id), SameQueue(d, r),
           g.owed \subseteq e.owed, e.astray = g.astray
    PROVE  Comes(d, e, id)
BY SameKept DEF Comes

LEMMA ComesTaken ==
    ASSUME NEW r \in Records, NEW g \in PageRecords, NEW id, Comes(r, g, id), r.count > 0,
           NEW m \in Nat, m = Kept(r, 0).id, NEW lost \in BOOLEAN, id = m => lost
    PROVE  Comes(TakenOne(r), Took(g, m, lost), id)
<1>a. PICK d : /\ d = TakenOne(r) /\ d.count = r.count - 1
               /\ \A i \in 0..(r.count - 2) : Kept(d, i) = Kept(r, i + 1)
  BY TookMessage
<1>b. PICK e : e = Took(g, m, lost)
  OBVIOUS
<1>1. e.owed = g.owed /\ e.astray = g.astray \cup (IF lost THEN {m} ELSE {})
  BY <1>b, TookPage
<1>2. r.count \in Nat
  BY CefAssumption DEF Records
<1>3. ASSUME id = m PROVE Comes(d, e, id)
  BY <1>1, <1>3 DEF Comes
<1>4. ASSUME id \in g.owed \cup g.astray PROVE Comes(d, e, id)
  BY <1>1, <1>4 DEF Comes
<1>5. ASSUME id # m, NEW k \in 0..(r.count - 1), Kept(r, k).id = id PROVE Comes(d, e, id)
  <2>1. k # 0
    BY <1>5
  <2>2. k - 1 \in 0..(r.count - 2) /\ k - 1 \in 0..(d.count - 1) /\ (k - 1) + 1 = k
    BY <1>a, <1>2, <2>1
  <2>3. Kept(d, k - 1).id = id
    BY <1>a, <1>5, <2>2
  <2>4. QED  BY <2>2, <2>3 DEF Comes
<1>6. QED  BY <1>a, <1>b, <1>3, <1>4, <1>5 DEF Comes

LEMMA ComesSaid ==
    ASSUME NEW r \in Records, NEW g \in PageRecords, NEW x, Comes(r, g, x), NEW id \in Nat,
           NEW e, e.owed = g.owed \ {id}, e.astray = g.astray,
           Push(r, [n |-> g.said + 1, id |-> id]).dropped = 0
    PROVE  Comes(Push(r, [n |-> g.said + 1, id |-> id]), e, x) /\ r.dropped = 0
<1>1. PICK d \in Records :
         /\ d = Push(r, [n |-> g.said + 1, id |-> id]) /\ d.dropped = 0
         /\ r.count < QueueMax =>
               /\ d.count = r.count + 1 /\ d.dropped = r.dropped
               /\ \A i \in 0..(r.count - 1) : Kept(d, i) = Kept(r, i)
               /\ Kept(d, r.count).id = id
         /\ r.count = QueueMax => d.dropped = r.dropped + 1
  BY SaidKept
<1>2. r.count \in Nat /\ r.dropped \in Nat /\ (r.count < QueueMax \/ r.count = QueueMax)
  BY CefAssumption, SMTT(30) DEF Records
<1>3. r.count < QueueMax /\ r.dropped = 0 /\ d.count = r.count + 1
  BY <1>1, <1>2
<1>4. CASE x = id
  <2>1. Kept(d, r.count).id = x /\ r.count \in 0..(d.count - 1)
    BY <1>1, <1>2, <1>3, <1>4
  <2>2. QED  BY <1>1, <1>3, <2>1 DEF Comes
<1>5. ASSUME x # id, x \in g.owed \cup g.astray PROVE Comes(d, e, x)
  BY <1>5 DEF Comes
<1>6. ASSUME NEW k \in 0..(r.count - 1), Kept(r, k).id = x PROVE Comes(d, e, x)
  <2>1. Kept(d, k).id = x /\ k \in 0..(d.count - 1)
    BY <1>1, <1>2, <1>3, <1>6
  <2>2. QED  BY <2>1 DEF Comes
<1>7. QED  BY <1>1, <1>3, <1>4, <1>5, <1>6 DEF Comes

\* A reply that is heard takes the callback that waits for it away.
LEMMA HeardGoes ==
    ASSUME CefShape, WaitingOnce, NEW w \in Views, NEW v \in Views, NEW id, NEW p,
           NEW i \in DOMAIN view[v].waiting, NEW j \in DOMAIN view'[v].waiting,
           view'[v].waiting[j] = view[v].waiting[i],
           view'[w].waiting = Answered(view[w].waiting, id),
           view[v].waiting[i].page = p, Heard(view[w].waiting, id, p)
    PROVE  view[v].waiting[i].id # id
<1>1. PICK a \in Seq(Callbacks), b \in Seq(Callbacks) : a = view[w].waiting /\ b = view[v].waiting
  BY DEF CefShape, CefTypeOK, Controls
<1>2. SUFFICES ASSUME b[i].id = id PROVE FALSE
  BY <1>1
<1>3. PICK f : f = FirstFor(a, id)
  OBVIOUS
<1>4. Awaits(a, id) /\ a[f].page = b[i].page
  BY <1>1, <1>3 DEF Heard
<1>5. /\ f \in DOMAIN a /\ a[f].id = id
      /\ \A k \in DOMAIN Answered(a, id) : Answered(a, id)[k] # a[f]
  BY <1>1, <1>3, <1>4, AnsweredOne DEF WaitingOnce, OnceEach
<1>6. a[f] \in Callbacks /\ b[i] \in Callbacks
  BY <1>1, <1>5
<1>7. a[f] = b[i]
  BY <1>2, <1>4, <1>5, <1>6, SameCallback
<1>8. CASE v = w
  BY <1>1, <1>5, <1>7, <1>8
<1>9. CASE v # w
  BY <1>1, <1>5, <1>7, <1>9 DEF WaitingOnce, Apart
<1>10. QED  BY <1>8, <1>9

LEMMA ComingStep ==
    ASSUME CefShape, Unmade, WaitingOnce, AllComing, [CefNext]_cefVars
    PROVE  AllComing'
<1>1. SUFFICES ASSUME NEW s \in 1..Slots, Alive(s)', rec'[s].observed, rec'[s].dropped = 0,
                      NEW v \in Views, NEW j \in DOMAIN view'[v].waiting,
                      view'[v].waiting[j].page = rec'[s].page
               PROVE  Comes(rec'[s], page'[rec'[s].page], view'[v].waiting[j].id)
  BY Zenon DEF AllComing, Comes, Kept
<1>c. PICK c : c = view'[v].waiting[j] /\ c.page = rec'[s].page
  BY <1>1
<1>2. ASSUME NEW x \in Views, NEW p \in Pages, NEW y \in Places, NEW told \in BOOLEAN,
             CreateAt(x, s, p, y, told)
      PROVE  FALSE
  <2>1. /\ rec'[s].page = p /\ page[p].state = "none"
        /\ view'[v].waiting = view[v].waiting
    BY <1>2, MadeRecord
  <2>2. WasSent(c)
    BY <1>c, <2>1 DEF WaitingOnce, Numbered
  <2>3. QED  BY <1>c, <2>1, <2>2 DEF WasSent
<1>3. ASSUME Alive(s) PROVE Comes(rec'[s], page'[rec'[s].page], c.id)
  <2>1. PICK p \in Pages, r \in Records, g \in PageRecords :
           p = rec[s].page /\ r = rec[s] /\ g = page[p]
    BY <1>3, AliveRecord
  <2>2. /\ rec'[s].page = p /\ page[p].slot = s
        /\ \/ SameTalk(rec'[s], rec[s]) /\ SameSaid(page'[p], page[p])
           \/ \E w \in Views : Sends(w, s, p) \/ TakesOne(w, s, p)
           \/ SaysOne(s, p)
    BY <1>1, <1>3, <2>1, RecordSteps
  <2>3. ASSUME NEW h \in 1..Slots, NEW o \in Pages, Alive(h), rec[h].page = o, page[o].slot = h,
               Sends(v, h, o), c = [id |-> rec[h].id + 1, page |-> o]
        PROVE  Comes(rec'[s], page'[p], c.id)
    <3>1. c.id = rec[h].id + 1 /\ c.page = o
      BY <2>3
    <3>2. o = p /\ h = s
      BY <1>c, <2>2, <2>3, <3>1
    <3>3. QED  BY <2>3, <3>1, <3>2 DEF Sends, Comes
  <2>4. ASSUME NEW i \in DOMAIN view[v].waiting, c = view[v].waiting[i]
        PROVE  Comes(rec'[s], page'[p], c.id)
    <3>1. ASSUME r.observed, r.dropped = 0 PROVE Comes(r, g, c.id)
      BY <1>c, <1>3, <2>1, <2>2, <2>4, <3>1 DEF AllComing
    <3>2. CASE SameTalk(rec'[s], rec[s]) /\ SameSaid(page'[p], page[p])
      <4>1. /\ SameQueue(rec'[s], r) /\ r.observed /\ r.dropped = 0
            /\ page'[p].owed = g.owed /\ page'[p].astray = g.astray
        BY <1>1, <2>1, <3>2 DEF SameTalk, SameQueue, SameSaid
      <4>2. QED  BY <3>1, <4>1, ComesSame
    <3>3. ASSUME NEW w \in Views, Sends(w, s, p) PROVE Comes(rec'[s], page'[p], c.id)
      <4>1. /\ SameQueue(rec'[s], r) /\ r.observed /\ r.dropped = 0
            /\ g.owed \subseteq page'[p].owed /\ page'[p].astray = g.astray
        BY <1>1, <2>1, <3>3 DEF Sends, SameQueue
      <4>2. QED  BY <3>1, <4>1, ComesSame
    <3>4. ASSUME NEW w \in Views, TakesOne(w, s, p) PROVE Comes(rec'[s], page'[p], c.id)
      <4>1. PICK m \in Nat, lost \in BOOLEAN :
               /\ r.count > 0 /\ rec'[s] = TakenOne(r) /\ page'[p] = Took(g, m, lost)
               /\ m = Kept(r, 0).id /\ lost = (m # 0 /\ ~Heard(view[w].waiting, m, p))
               /\ view'[w].waiting = Answered(view[w].waiting, m)
        BY <2>1, <3>4 DEF TakesOne
      <4>2. r.observed /\ r.dropped = 0
        BY <1>1, <4>1, TookMessage
      <4>3. c.id = m => lost
        <5>1. c.id # 0
          BY <2>4 DEF WaitingOnce, Numbered, WasSent
        <5>2. c.page = p
          BY <1>c, <2>2
        <5>3. Heard(view[w].waiting, m, p) => c.id # m
          BY <1>c, <2>4, <4>1, <5>2, HeardGoes
        <5>4. QED  BY <4>1, <5>1, <5>3
      <4>4. QED  BY <3>1, <4>1, <4>2, <4>3, ComesTaken
    <3>5. ASSUME SaysOne(s, p) PROVE Comes(rec'[s], page'[p], c.id)
      <4>1. PICK id \in {0} \cup g.owed :
               /\ rec'[s] = Push(r, [n |-> g.said + 1, id |-> id])
               /\ page'[p].owed = g.owed \ {id} /\ page'[p].astray = g.astray
        BY <2>1, <3>5 DEF SaysOne
      <4>2. id \in Nat
        BY DEF PageRecords
      <4>3. r.observed /\ r.dropped = 0
        <5>1. /\ rec'[s].observed = r.observed
              /\ r.count < QueueMax => rec'[s].dropped = r.dropped
              /\ r.count = QueueMax => rec'[s].dropped = r.dropped + 1
          BY <4>1, <4>2, SaidKept
        <5>2. r.count \in 0..QueueMax /\ r.dropped \in Nat
          BY DEF Records
        <5>3. QED  BY <1>1, <5>1, <5>2, CefAssumption
      <4>4. QED  BY <1>1, <3>1, <4>1, <4>2, <4>3, ComesSaid
    <3>6. QED  BY <2>2, <3>2, <3>3, <3>4, <3>5
  <2>5. QED  BY <1>c, <2>2, <2>3, <2>4, EntryBefore
<1>4. QED  BY <1>1, <1>c, <1>2, <1>3, AliveBefore

(***************************************************************************)
(* A view that made its page clear of former ones hears every reply to it. *)
(***************************************************************************)
\* No reply went astray, the callbacks that wait are for this page, and every
\* reply that is to come, once, and every reply that is queued, once, has one.
Attended(r, p, g, w) ==
    /\ g.astray = {}
    /\ \A i \in DOMAIN w : w[i].page = p
    /\ \A id \in g.owed : id \in 1..r.id /\ Awaits(w, id)
    /\ \A k \in 0..(r.count - 1) : Kept(r, k).id # 0 =>
          /\ Kept(r, k).id \in 1..r.id /\ Kept(r, k).id \notin g.owed
          /\ Awaits(w, Kept(r, k).id)
          /\ \A l \in 0..(r.count - 1) : Kept(r, l).id = Kept(r, k).id => l = k
AllAttended ==
    \A v \in Views : Owner(v) =>
        Attended(Mine(v), PageOf(v), page[PageOf(v)], view[v].waiting)

LEMMA AttendedOf ==
    ASSUME AllAttended
    PROVE  \A v \in Views : Owner(v) => AllHeard(PageOf(v))
BY Zenon DEF AllAttended, Attended, AllHeard

LEMMA AttendedSame ==
    ASSUME NEW r, NEW p, NEW g, NEW w, NEW d, NEW e, Attended(r, p, g, w), SameQueue(d, r),
           d.id = r.id, e.owed = g.owed, e.astray = g.astray
    PROVE  Attended(d, p, e, w)
<1>1. d.count = r.count /\ \A i : Kept(d, i) = Kept(r, i)
  BY SameKept
<1>2. \A id \in e.owed : id \in 1..d.id /\ Awaits(w, id)
  BY DEF Attended
<1>3. ASSUME NEW k \in 0..(d.count - 1), Kept(d, k).id # 0
      PROVE  /\ Kept(d, k).id \in 1..d.id /\ Kept(d, k).id \notin e.owed
             /\ Awaits(w, Kept(d, k).id)
             /\ \A l \in 0..(d.count - 1) : Kept(d, l).id = Kept(d, k).id => l = k
  BY <1>1, <1>3 DEF Attended
<1>4. e.astray = {} /\ \A i \in DOMAIN w : w[i].page = p
  BY DEF Attended
<1>5. QED  BY <1>2, <1>3, <1>4 DEF Attended

LEMMA AttendedSent ==
    ASSUME NEW r \in Records, NEW p \in Pages, NEW g \in PageRecords, NEW w \in Seq(Callbacks),
           Attended(r, p, g, w), NEW d, NEW e, SameQueue(d, r), d.id = r.id + 1,
           e.owed = g.owed \cup {r.id + 1}, e.astray = g.astray
    PROVE  Attended(d, p, e, Append(w, [id |-> r.id + 1, page |-> p]))
<1>1. PICK n \in Nat : n = r.id
  BY DEF Records
<1>b. PICK c : c = [id |-> n + 1, page |-> p]
  OBVIOUS
<1>2. c.id = n + 1 /\ c.page = p
  BY <1>b
<1>3. PICK u : u = Append(w, c)
  OBVIOUS
<1>a. PICK k \in Nat : k = Len(w)
  OBVIOUS
<1>4. /\ DOMAIN w = 1..k /\ DOMAIN u = 1..(k + 1) /\ u[k + 1] = c
      /\ \A i \in 1..k : u[i] = w[i]
  BY <1>3, <1>a
<1>5. \A id : Awaits(w, id) => Awaits(u, id)
  BY <1>4 DEF Awaits
<1>6. Awaits(u, n + 1)
  BY <1>2, <1>4 DEF Awaits
<1>7. \A i \in DOMAIN u : u[i].page = p
  <2>1. \A i \in 1..(k + 1) : i \in 1..k \/ i = k + 1
    OBVIOUS
  <2>2. \A i \in 1..k : w[i].page = p
    BY <1>4 DEF Attended
  <2>3. QED  BY <1>2, <1>4, <2>1, <2>2
<1>8. \A id \in e.owed : id \in 1..d.id /\ Awaits(u, id)
  BY <1>1, <1>5, <1>6 DEF Attended
<1>9. ASSUME NEW i \in 0..(d.count - 1), Kept(d, i).id # 0
      PROVE  /\ Kept(d, i).id \in 1..d.id /\ Kept(d, i).id \notin e.owed
             /\ Awaits(u, Kept(d, i).id)
             /\ \A l \in 0..(d.count - 1) : Kept(d, l).id = Kept(d, i).id => l = i
  <2>1. d.count = r.count /\ \A l : Kept(d, l) = Kept(r, l)
    BY SameKept
  <2>2. PICK x : x = Kept(r, i).id /\ x = Kept(d, i).id
    BY <2>1
  <2>3. /\ x \in 1..n /\ x \notin g.owed /\ Awaits(w, x)
        /\ \A l \in 0..(r.count - 1) : Kept(r, l).id = x => l = i
    BY <1>1, <1>9, <2>1, <2>2 DEF Attended
  <2>4. x \in 1..d.id /\ x \notin e.owed
    BY <1>1, <2>3
  <2>5. QED  BY <1>5, <2>1, <2>2, <2>3, <2>4
<1>10. e.astray = {}
  BY DEF Attended
<1>11. Attended(d, p, e, u)
  BY <1>7, <1>8, <1>9, <1>10 DEF Attended
<1>12. QED  BY <1>1, <1>b, <1>3, <1>11

LEMMA AttendedTaken ==
    ASSUME NEW r \in Records, NEW p \in Pages, NEW g \in PageRecords, NEW w \in Seq(Callbacks),
           Attended(r, p, g, w), Ordered(Len(w)), r.count > 0,
           NEW m \in Nat, m = Kept(r, 0).id, NEW lost \in BOOLEAN,
           lost = (m # 0 /\ ~Heard(w, m, p))
    PROVE  Attended(TakenOne(r), p, Took(g, m, lost), Answered(w, m))
<1>a. PICK d : /\ d = TakenOne(r) /\ d.count = r.count - 1 /\ d.id = r.id
               /\ \A i \in 0..(r.count - 2) : Kept(d, i) = Kept(r, i + 1)
  BY TookMessage
<1>b. PICK e : /\ e = Took(g, m, lost) /\ e.owed = g.owed
               /\ e.astray = g.astray \cup (IF lost THEN {m} ELSE {})
  <2>1. PICK e : e = Took(g, m, lost)
    OBVIOUS
  <2>2. e.owed = g.owed
    BY <2>1, TookFields
  <2>3. e.astray = g.astray \cup (IF lost THEN {m} ELSE {})
    BY <2>1, TookPage
  <2>4. QED  BY <2>1, <2>2, <2>3
<1>c. PICK u : u = Answered(w, m)
  OBVIOUS
<1>d. PICK n \in Nat : n = r.count /\ 0 \in 0..(n - 1) /\ 0..(d.count - 1) = 0..(n - 2)
  BY <1>a, CefAssumption DEF Records
<1>1. m # 0 => /\ m \notin g.owed /\ Awaits(w, m)
               /\ \A l \in 0..(n - 1) : Kept(r, l).id = m => l = 0
  BY <1>d DEF Attended
<1>2. lost = FALSE
  <2>1. ASSUME m # 0 PROVE Heard(w, m, p)
    <3>1. FirstFor(w, m) \in DOMAIN w
      BY <1>1, <2>1, AnsweredOne
    <3>2. w[FirstFor(w, m)].page = p
      BY <3>1 DEF Attended
    <3>3. QED  BY <1>1, <2>1, <3>2 DEF Heard
  <2>2. QED  BY <2>1
<1>3. ASSUME NEW id, id # m, Awaits(w, id) PROVE Awaits(u, id)
  <2>1. PICK i \in DOMAIN w : w[i].id = id
    BY <1>3 DEF Awaits
  <2>2. CASE Awaits(w, m)
    <3>1. PICK j \in DOMAIN u : u[j] = w[i]
      BY <1>3, <1>c, <2>1, <2>2, AnsweredOne
    <3>2. QED  BY <2>1, <3>1 DEF Awaits
  <2>3. CASE ~Awaits(w, m)
    BY <1>3, <1>c, <2>3 DEF Answered
  <2>4. QED  BY <2>2, <2>3
<1>4. \A j \in DOMAIN u : u[j].page = p
  <2>1. CASE Awaits(w, m)
    <3>1. \A j \in DOMAIN u : \E i \in DOMAIN w : u[j] = w[i]
      BY <1>c, <2>1, AnsweredOne
    <3>2. QED  BY <3>1 DEF Attended
  <2>2. CASE ~Awaits(w, m)
    BY <1>c, <2>2 DEF Answered, Attended
  <2>3. QED  BY <2>1, <2>2
<1>5. ASSUME NEW id \in g.owed PROVE id \in 1..d.id /\ Awaits(u, id)
  <2>1. id \in 1..r.id /\ Awaits(w, id)
    BY DEF Attended
  <2>2. id # m
    BY <1>1, <2>1
  <2>3. QED  BY <1>3, <1>a, <2>1, <2>2
<1>6. ASSUME NEW k \in 0..(d.count - 1), Kept(d, k).id # 0
      PROVE  /\ Kept(d, k).id \in 1..d.id /\ Kept(d, k).id \notin g.owed
             /\ Awaits(u, Kept(d, k).id)
             /\ \A l \in 0..(d.count - 1) : Kept(d, l).id = Kept(d, k).id => l = k
  <2>1. \A l \in 0..(n - 2) : l + 1 \in 0..(n - 1) /\ l + 1 # 0 /\ l \in Int
    OBVIOUS
  <2>2. PICK x : x = Kept(r, k + 1).id /\ x = Kept(d, k).id
    BY <1>a, <1>d
  <2>3. /\ x \in 1..r.id /\ x \notin g.owed /\ Awaits(w, x)
        /\ \A l \in 0..(n - 1) : Kept(r, l).id = x => l = k + 1
    BY <1>6, <1>d, <2>1, <2>2 DEF Attended
  <2>4. x # m
    BY <1>d, <2>1, <2>3
  <2>5. ASSUME NEW l \in 0..(n - 2), Kept(d, l).id = x PROVE l = k
    <3>1. Kept(r, l + 1).id = x
      BY <1>a, <1>d, <2>5
    <3>2. l + 1 = k + 1
      BY <2>1, <2>3, <3>1
    <3>3. QED  BY <1>d, <2>1, <3>2
  <2>6. QED  BY <1>3, <1>a, <1>d, <2>2, <2>3, <2>4, <2>5
<1>7. e.astray = {}
  BY <1>2, <1>b DEF Attended
<1>8. Attended(d, p, e, u)
  BY <1>4, <1>5, <1>6, <1>7, <1>b DEF Attended
<1>9. QED  BY <1>8, <1>a, <1>b, <1>c

LEMMA AttendedSaid ==
    ASSUME NEW r \in Records, NEW p \in Pages, NEW g \in PageRecords, NEW w,
           Attended(r, p, g, w), NEW id \in {0} \cup g.owed, NEW e,
           e.owed = g.owed \ {id}, e.astray = g.astray
    PROVE  Attended(Push(r, [n |-> g.said + 1, id |-> id]), p, e, w)
<1>0. id \in Nat
  BY DEF PageRecords
<1>1. PICK d \in Records :
         /\ d = Push(r, [n |-> g.said + 1, id |-> id]) /\ d.id = r.id
         /\ r.count < QueueMax =>
               /\ d.count = r.count + 1
               /\ \A i \in 0..(r.count - 1) : Kept(d, i) = Kept(r, i)
               /\ Kept(d, r.count).id = id
         /\ r.count = QueueMax =>
               /\ d.count = r.count
               /\ \A i \in 0..(r.count - 2) : Kept(d, i) = Kept(r, i + 1)
               /\ Kept(d, r.count - 1).id = id
  BY <1>0, SaidKept
<1>2. PICK n \in Nat : n = r.count /\ (n < QueueMax \/ (n = QueueMax /\ n > 0))
  BY CefAssumption, SMTT(30) DEF Records
\* The last message is the new one, the others are s places further in what was.
<1>3. PICK s \in {0, 1}, z \in Nat :
         /\ d.count = z + 1 /\ Kept(d, z).id = id /\ z + s <= n
         /\ \A i \in 0..(z - 1) : i + s \in 0..(n - 1) /\ Kept(d, i) = Kept(r, i + s)
  <2>1. CASE n < QueueMax
    <3>1. /\ d.count = n + 1 /\ Kept(d, n).id = id /\ n + 0 <= n
          /\ \A i \in 0..(n - 1) : i + 0 \in 0..(n - 1) /\ i + 0 = i /\ Kept(d, i) = Kept(r, i)
      BY <1>1, <1>2, <2>1
    <3>2. \A i \in 0..(n - 1) : i + 0 \in 0..(n - 1) /\ Kept(d, i) = Kept(r, i + 0)
      BY <3>1
    <3>3. QED  BY <3>1, <3>2
  <2>2. CASE n = QueueMax /\ n > 0
    <3>1. PICK z \in Nat : z = n - 1
      BY <2>2
    <3>2. d.count = z + 1 /\ Kept(d, z).id = id /\ z + 1 <= n
      BY <1>1, <1>2, <2>2, <3>1
    <3>3. \A i \in 0..(z - 1) : i \in 0..(n - 2) /\ i + 1 \in 0..(n - 1)
      BY <3>1
    <3>4. \A i \in 0..(z - 1) : Kept(d, i) = Kept(r, i + 1)
      BY <1>1, <1>2, <2>2, <3>3
    <3>5. QED  BY <3>2, <3>3, <3>4
  <2>3. QED  BY <1>2, <2>1, <2>2
<1>4. 0..(d.count - 1) = 0..z /\ \A i \in 0..z : i = z \/ i \in 0..(z - 1)
  BY <1>3
<1>5. ASSUME NEW x, x # 0, NEW k \in 0..(z - 1), Kept(d, k).id = x
      PROVE  /\ x \in 1..d.id /\ x \notin g.owed /\ Awaits(w, x)
             /\ \A l \in 0..(z - 1) : Kept(d, l).id = x => l = k
  <2>1. Kept(r, k + s).id = x /\ k + s \in 0..(n - 1)
    BY <1>3, <1>5
  <2>2. /\ x \in 1..r.id /\ x \notin g.owed /\ Awaits(w, x)
        /\ \A l \in 0..(n - 1) : Kept(r, l).id = x => l = k + s
    BY <1>2, <1>5, <2>1 DEF Attended
  <2>3. ASSUME NEW l \in 0..(z - 1), Kept(d, l).id = x PROVE l = k
    <3>1. Kept(r, l + s).id = x /\ l + s \in 0..(n - 1)
      BY <1>3, <2>3
    <3>2. l + s = k + s
      BY <2>2, <3>1
    <3>3. QED  BY <1>3, <3>2
  <2>4. QED  BY <1>1, <2>2, <2>3
<1>6. ASSUME id # 0 PROVE id \in g.owed /\ id \in 1..d.id /\ Awaits(w, id)
  BY <1>1, <1>6 DEF Attended
<1>7. ASSUME NEW k \in 0..z, NEW x, x = Kept(d, k).id, x # 0
      PROVE  /\ x \in 1..d.id /\ x \notin e.owed /\ Awaits(w, x)
             /\ \A l \in 0..z : Kept(d, l).id = x => l = k
  <2>1. CASE k = z
    <3>1. x = id
      BY <1>3, <1>7, <2>1
    <3>2. \A l \in 0..(z - 1) : Kept(d, l).id # id
      BY <1>5, <1>6, <1>7, <3>1
    <3>3. QED  BY <1>4, <1>6, <1>7, <2>1, <3>1, <3>2
  <2>2. CASE k \in 0..(z - 1)
    <3>1. /\ x \in 1..d.id /\ x \notin g.owed /\ Awaits(w, x)
          /\ \A l \in 0..(z - 1) : Kept(d, l).id = x => l = k
      BY <1>5, <1>7, <2>2
    <3>2. Kept(d, z).id # x
      BY <1>3, <1>6, <1>7, <3>1
    <3>3. QED  BY <1>4, <3>1, <3>2
  <2>3. QED  BY <1>4, <2>1, <2>2
<1>8. \A x \in e.owed : x \in 1..d.id /\ Awaits(w, x)
  BY <1>1 DEF Attended
<1>9. e.astray = {} /\ \A i \in DOMAIN w : w[i].page = p
  BY DEF Attended
<1>10. Attended(d, p, e, w)
  BY <1>4, <1>7, <1>8, <1>9 DEF Attended
<1>11. QED  BY <1>1, <1>10

LEMMA AttendedStep ==
    ASSUME CefShape, Unmade, OneOwner, WaitingOnce, AllAttended, [CefNext]_cefVars
    PROVE  AllAttended'
<1>0. /\ rec \in [1..Slots -> Records] /\ view \in [Views -> Controls]
      /\ page \in [Pages -> PageRecords]
  BY DEF CefShape, CefTypeOK
<1>a. SUFFICES ASSUME NEW v \in Views, Owner(v)'
               PROVE  Attended(rec'[view'[v].handle], rec'[view'[v].handle].page,
                               page'[rec'[view'[v].handle].page], view'[v].waiting)
  BY Zenon DEF AllAttended, Attended, Mine, PageOf, Awaits, Kept
<1>1. PICK r, p : r = rec'[view'[v].handle] /\ p = r.page
  OBVIOUS
<1>2. ASSUME NEW s \in 1..Slots, NEW o \in Pages, NEW x \in Places, NEW told \in BOOLEAN,
             CreateAt(v, s, o, x, told)
      PROVE  Attended(r, p, page'[p], view'[v].waiting)
  <2>1. view'[v].clear
    BY <1>a DEF Owner
  <2>2. /\ r = rec'[s] /\ p = o /\ r.count = 0 /\ page'[p].owed = {} /\ page'[p].astray = {}
        /\ view'[v].waiting = <<>>
    BY <1>1, <1>2, <2>1, MadeRecord
  <2>3. DOMAIN view'[v].waiting = {}
    BY <2>2
  <2>4. 0..(r.count - 1) = {}
    BY <2>2
  <2>5. QED  BY <2>2, <2>3, <2>4 DEF Attended
<1>3. ASSUME NEW h \in 1..Slots, NEW o \in Pages, Owner(v), h = view[v].handle,
             view'[v].handle = h, rec[h].page = o, rec'[h].page = o,
             \/ /\ SameTalk(rec'[h], rec[h]) /\ SameSaid(page'[o], page[o])
                /\ view'[v].waiting = view[v].waiting
             \/ Sends(v, h, o) \/ TakesOne(v, h, o) \/ SaysOne(h, o)
      PROVE  Attended(r, p, page'[p], view'[v].waiting)
  <2>1. PICK b \in Records, g \in PageRecords, w \in Seq(Callbacks) :
           b = rec[h] /\ g = page[o] /\ w = view[v].waiting
    BY <1>0 DEF Controls
  <2>2. Attended(b, o, g, w) /\ Ordered(Len(w))
    BY <1>3, <2>1 DEF AllAttended, Mine, PageOf, WaitingOnce, OnceEach
  <2>3. r = rec'[h] /\ p = o
    BY <1>1, <1>3
  <2>4. CASE /\ SameTalk(rec'[h], rec[h]) /\ SameSaid(page'[o], page[o])
             /\ view'[v].waiting = view[v].waiting
    <3>1. /\ SameQueue(r, b) /\ r.id = b.id /\ page'[p].owed = g.owed
          /\ page'[p].astray = g.astray /\ view'[v].waiting = w
      BY <2>1, <2>3, <2>4 DEF SameTalk, SameQueue, SameSaid
    <3>2. QED  BY <2>2, <2>3, <3>1, AttendedSame
  <2>5. CASE Sends(v, h, o)
    <3>1. /\ SameQueue(r, b) /\ r.id = b.id + 1 /\ page'[p].owed = g.owed \cup {b.id + 1}
          /\ page'[p].astray = g.astray
          /\ view'[v].waiting = Append(w, [id |-> b.id + 1, page |-> o])
      BY <2>1, <2>3, <2>5 DEF Sends
    <3>2. QED  BY <2>2, <2>3, <3>1, AttendedSent
  <2>6. CASE TakesOne(v, h, o)
    <3>1. PICK m \in Nat, lost \in BOOLEAN :
             /\ b.count > 0 /\ r = TakenOne(b) /\ page'[p] = Took(g, m, lost)
             /\ m = Kept(b, 0).id /\ lost = (m # 0 /\ ~Heard(w, m, o))
             /\ view'[v].waiting = Answered(w, m)
      BY <2>1, <2>3, <2>6 DEF TakesOne
    <3>2. QED  BY <2>2, <2>3, <3>1, AttendedTaken
  <2>7. CASE SaysOne(h, o)
    <3>1. PICK id \in {0} \cup g.owed :
             /\ r = Push(b, [n |-> g.said + 1, id |-> id])
             /\ page'[p].owed = g.owed \ {id} /\ page'[p].astray = g.astray
             /\ view'[v].waiting = w
      BY <2>1, <2>3, <2>7 DEF SaysOne
    <3>2. QED  BY <2>2, <2>3, <3>1, AttendedSaid
  <2>8. QED  BY <1>3, <2>4, <2>5, <2>6, <2>7
<1>4. \/ \E s \in 1..Slots, o \in Pages, x \in Places, told \in BOOLEAN :
            CreateAt(v, s, o, x, told)
      \/ \E h \in 1..Slots, o \in Pages :
            /\ Owner(v) /\ h = view[v].handle /\ view'[v].handle = h
            /\ rec[h].page = o /\ rec'[h].page = o
            /\ \/ /\ SameTalk(rec'[h], rec[h]) /\ SameSaid(page'[o], page[o])
                  /\ view'[v].waiting = view[v].waiting
               \/ Sends(v, h, o) \/ TakesOne(v, h, o) \/ SaysOne(h, o)
  BY <1>a, OwnerSteps
<1>5. Attended(r, p, page'[p], view'[v].waiting)
  BY Zenon, <1>2, <1>3, <1>4
<1>6. QED  BY <1>1, <1>5

(***************************************************************************)
(* The window of a page.                                                   *)
(***************************************************************************)
\* What a record says of the window of its page is so.
InForce(r, g) ==
    /\ g.place = r.place
    /\ r.clip # None => g.region = r.clip - r.place
    /\ r.shown # -1 => g.shown = (r.shown = 1)
AllInForce == \A s \in 1..Slots : Alive(s) => InForce(rec[s], page[rec[s].page])

LEMMA ForceOf == AllInForce => ClipInForce
BY Zenon DEF AllInForce, InForce, ClipInForce

LEMMA ForceHidden ==
    ASSUME NEW r \in Records, NEW g \in PageRecords, NEW n \in {0, 1}, InForce(r, g)
    PROVE  InForce(ShownTo(r, n), PageShown(r, g, n))
<1>1. PICK d, e : d = ShownTo(r, n) /\ e = PageShown(r, g, n)
  OBVIOUS
<1>2. /\ d.shown = n /\ d.place = r.place /\ d.clip = r.clip
      /\ e.place = g.place /\ e.region = g.region
      /\ e.shown = IF r.shown = n THEN g.shown ELSE n = 1
  BY <1>1, ShownRecord
<1>3. r.shown = n => g.shown = (n = 1)
  BY DEF InForce
<1>4. e.shown = (d.shown = 1)
  BY <1>2, <1>3, Zenon
<1>5. d.clip # None => e.region = d.clip - d.place
  BY <1>2 DEF InForce
<1>6. e.place = d.place
  BY <1>2 DEF InForce
<1>7. InForce(d, e)
  BY <1>4, <1>5, <1>6 DEF InForce
<1>8. QED  BY <1>1, <1>7

LEMMA ForceStep ==
    ASSUME CefShape, AllInForce, [CefNext]_cefVars
    PROVE  AllInForce'
<1>0. /\ rec \in [1..Slots -> Records] /\ view \in [Views -> Controls]
      /\ page \in [Pages -> PageRecords]
  BY DEF CefShape, CefTypeOK
<1>1. SUFFICES ASSUME NEW s \in 1..Slots, Alive(s)'
               PROVE  InForce(rec'[s], page'[rec'[s].page])
  BY DEF AllInForce
<1>2. ASSUME NEW v \in Views, NEW p \in Pages, NEW x \in Places, NEW told \in BOOLEAN,
             CreateAt(v, s, p, x, told)
      PROVE  InForce(rec'[s], page'[rec'[s].page])
  <2>1. PICK g, r :
           /\ g = [Unopened EXCEPT !.state = "open", !.slot = s, !.place = x,
                                   !.shown = TRUE, !.held = HeldAfter(Unused.page, p, told)]
           /\ r = [Unused EXCEPT !.used = TRUE, !.page = p, !.observed = TRUE,
                                 !.place = x, !.policy = view[v].policy]
    OBVIOUS
  <2>2. g.place = x
    BY <2>1 DEF Unopened
  <2>3. r.place = x /\ r.clip = None /\ r.shown = -1 /\ r.page = p
    BY <2>1 DEF Unused
  <2>4. page' = [page EXCEPT ![p] = g] /\ rec' = [rec EXCEPT ![s] = r]
    BY <1>2, <2>1, Zenon DEF CreateAt
  <2>5. page'[p] = g /\ rec'[s] = r
    BY <1>0, <2>4
  <2>6. QED  BY <2>2, <2>3, <2>5 DEF InForce
<1>3. ASSUME Alive(s), NEW p \in Pages, p = rec[s].page, rec'[s].page = p
      PROVE  InForce(rec'[s], page'[p])
  <2>1. PICK r \in Records, g \in PageRecords : r = rec[s] /\ g = page[p] /\ r.page = p
    BY <1>0, <1>3
  <2>2. InForce(r, g)
    BY <1>3, <2>1 DEF AllInForce
  <2>3. ASSUME WindowKept(s, p) PROVE InForce(rec'[s], page'[p])
    BY <2>1, <2>2, <2>3 DEF WindowKept, SamePlace, SameWindow, InForce
  <2>4. ASSUME NEW v \in Views, view[v].handle = s, Destroy(v) PROVE InForce(rec'[s], page'[p])
    <3>1. PICK d \in Records, e \in PageRecords : d = ShownTo(r, 0) /\ e = PageShown(r, g, 0)
      BY ShownRecord
    <3>2. PICK f : f = [e EXCEPT !.asked = TRUE]
      OBVIOUS
    <3>3. rec'[s] = d /\ page'[p] = f
      BY <1>0, <1>3, <2>1, <2>4, <3>1, <3>2 DEF Destroy
    <3>4. InForce(d, e)
      BY <2>2, <3>1, ForceHidden
    <3>5. f.place = e.place /\ f.region = e.region /\ f.shown = e.shown
      BY <3>2 DEF PageRecords
    <3>6. QED  BY <3>3, <3>4, <3>5 DEF InForce
  <2>5. ASSUME NEW v \in Views, view[v].handle = s, NEW x \in Places, SetBounds(v, x)
        PROVE  InForce(rec'[s], page'[p])
    <3>1. PICK d, e : d = [r EXCEPT !.place = x, !.clip = None] /\ e = [g EXCEPT !.place = x]
      OBVIOUS
    <3>2. rec'[s] = d /\ page'[p] = e
      BY <1>0, <1>3, <2>1, <2>5, <3>1 DEF SetBounds, Moved, PageOf, Mine
    <3>3. d.place = x /\ d.clip = None /\ d.shown = r.shown /\ e.place = x /\ e.shown = g.shown
      BY <3>1 DEF Records, PageRecords
    <3>4. QED  BY <2>2, <3>2, <3>3 DEF InForce
  <2>6. ASSUME NEW v \in Views, view[v].handle = s, NEW c \in Regions \cup {None}, SetClip(v, c)
        PROVE  InForce(rec'[s], page'[p])
    <3>a. PICK b : b = IF c # None /\ r.clip # c THEN [g EXCEPT !.region = c - r.place] ELSE g
      OBVIOUS
    <3>1. PICK n \in {0, 1} : n = IF c = None THEN 0 ELSE 1
      OBVIOUS
    <3>2. r.place \in Int
      BY DEF Records
    <3>3. /\ b \in PageRecords /\ b.place = g.place /\ b.shown = g.shown
          /\ b.region = IF c # None /\ r.clip # c THEN c - r.place ELSE g.region
      BY <3>a, <3>2, CefAssumption DEF PageRecords
    <3>4. PICK d \in Records, e \in PageRecords : d = ShownTo(r, n) /\ e = PageShown(r, b, n)
      BY <3>1, <3>3, ShownRecord
    <3>5. PICK f : f = [d EXCEPT !.clip = IF c = None THEN @ ELSE c]
      OBVIOUS
    <3>6. rec'[s] = f /\ page'[p] = e
      BY <1>0, <1>3, <2>1, <2>6, <3>a, <3>1, <3>4, <3>5 DEF SetClip, PageOf, Mine
    <3>7. /\ f.place = d.place /\ f.shown = d.shown
          /\ f.clip = IF c = None THEN d.clip ELSE c
      BY <3>5 DEF Records
    <3>8. /\ d.place = r.place /\ d.shown = n /\ d.clip = r.clip
          /\ e.place = b.place /\ e.region = b.region
          /\ e.shown = IF r.shown = n THEN b.shown ELSE n = 1
      BY <3>1, <3>3, <3>4, ShownRecord
    <3>9. e.shown = (f.shown = 1)
      <4>1. r.shown = n => g.shown = (n = 1)
        BY <2>2, <3>1 DEF InForce
      <4>2. QED  BY <3>3, <3>7, <3>8, <4>1, Zenon
    <3>10. f.clip # None => e.region = f.clip - f.place
      BY <2>2, <3>3, <3>7, <3>8 DEF InForce
    <3>11. QED  BY <2>2, <3>3, <3>6, <3>7, <3>8, <3>9, <3>10 DEF InForce
  <2>7. ASSUME NEW w \in Views, view[w].handle = s, ViewNext(w), ~Create(w), ~CreateFails(w),
               ~Destroyed(w)
        PROVE  InForce(rec'[s], page'[p])
    BY <1>3, <2>3, <2>4, <2>5, <2>6, <2>7, ViewHome
  <2>8. ASSUME NEW y \in Pages, page[y].slot = s, PageNext(y) PROVE InForce(rec'[s], page'[p])
    BY <1>1, <1>3, <2>3, <2>8, PageHome
  <2>9. ASSUME rec'[s] = rec[s], SameWindow(page'[p], page[p]) PROVE InForce(rec'[s], page'[p])
    BY <2>3, <2>9 DEF WindowKept, SamePlace
  <2>10. QED  BY <1>1, <1>3, <2>7, <2>8, <2>9, StepAt
<1>4. QED
  <2>1. CASE Alive(s)
    <3>1. PICK p \in Pages : p = rec[s].page /\ rec'[s].page = p
      BY <1>1, <2>1, AliveKeeps
    <3>2. QED  BY <1>3, <2>1, <3>1
  <2>2. CASE ~Alive(s)
    BY <1>1, <1>2, <2>2, AliveBefore
  <2>3. QED  BY <2>1, <2>2


(***************************************************************************)
(* The popups of a page.                                                   *)
(***************************************************************************)
\* The popups of a page that hands them to its host are all accounted for.
Booked(r, g) ==
    r.policy = 2 =>
        g.opened = g.handed + r.missed + g.blank + (IF r.popup = None THEN 0 ELSE 1)

LEMMA BookedOf ==
    PopupsAccounted <=>
        \A s \in 1..Slots : Alive(s) /\ Sole(s) => Booked(rec[s], page[rec[s].page])
BY Zenon DEF PopupsAccounted, Booked

\* A page of a former view that calls into a record goes with it.
LEMMA SoleBefore ==
    ASSUME CefShape, [CefNext]_cefVars, NEW h \in 1..Slots, NEW p \in Pages,
           Alive(h)', rec[h].page = p, rec'[h].page = p,
           \A y \in Pages : IsOpen(y)' /\ page'[y].slot = h => p = y
    PROVE  Sole(h)
<1>1. SUFFICES ASSUME NEW y \in Pages, IsOpen(y), page[y].slot = h, y # p
               PROVE  FALSE
  BY DEF Sole
<1>2. ~SamePage(y)
  BY <1>1, PageStates
<1>3. page[y].state # "none"
  BY <1>1 DEF IsOpen
<1>4. ~SameHold
  BY <1>2, SameEach DEF SameHold
<1>5. \A v \in Views : ~MakesNone(v) /\ ~GivesUp(v)
  BY <1>2, SameEach DEF MakesNone, GivesUp
<1>6. \A v \in Views, s \in 1..Slots, x \in Pages : ~Makes(v, s, x)
  BY <1>2, <1>3 DEF Makes
<1>7. \A x, o \in Pages : ~Pops(x, o)
  BY <1>2, <1>3 DEF Pops
<1>8. \A x \in Pages : ~Closes(x)
  BY <1>1, <1>2 DEF Closes, Alive
<1>9. QED  BY <1>4, <1>5, <1>6, <1>7, <1>8, HoldSteps

\* A popup is handed over, and the next one may wait.
LEMMA BookedTaken ==
    ASSUME NEW r \in Records, NEW g \in PageRecords, Booked(r, g), r.popup # None
    PROVE  Booked([r EXCEPT !.popup = None], [g EXCEPT !.handed = @ + 1])
<1>1. PICK d, e : d = [r EXCEPT !.popup = None] /\ e = [g EXCEPT !.handed = @ + 1]
  OBVIOUS
<1>2. /\ d.policy = r.policy /\ d.popup = None /\ d.missed = r.missed
      /\ e.opened = g.opened /\ e.handed = g.handed + 1 /\ e.blank = g.blank
  BY <1>1 DEF Records, PageRecords
<1>3. r.missed \in Nat /\ g.handed \in Nat /\ g.blank \in Nat /\ g.opened \in Nat
  BY DEF Records, PageRecords
<1>4. Booked(d, e)
  BY <1>2, <1>3 DEF Booked
<1>5. QED  BY <1>1, <1>4

\* A popup that is opened waits, is counted or is blank.
LEMMA BookedOpened ==
    ASSUME NEW r \in Records, NEW g \in PageRecords, Booked(r, g), r.policy = 2,
           NEW y \in Pages, NEW u \in {y, None}
    PROVE  Booked(Handed(r, u), Opened(g, r.popup = None /\ u = None))
<1>1. PICK b \in BOOLEAN : b = (r.popup = None /\ u = None)
  OBVIOUS
<1>2. PICK d \in Records :
         /\ d = Handed(r, u)
         /\ d.missed + (IF d.popup = None THEN 0 ELSE 1)
               = r.missed + (IF r.popup = None THEN 0 ELSE 1) + (IF b THEN 0 ELSE 1)
  BY <1>1, HandedRecord
<1>3. PICK e : /\ e = Opened(g, b) /\ e.opened = g.opened + 1 /\ e.handed = g.handed
               /\ e.blank = g.blank + (IF b THEN 1 ELSE 0)
  BY OpenedPage
<1>4. /\ r.missed \in Nat /\ d.missed \in Nat
      /\ g.handed \in Nat /\ g.blank \in Nat /\ g.opened \in Nat
  BY DEF Records, PageRecords
<1>5. g.opened = g.handed + r.missed + g.blank + (IF r.popup = None THEN 0 ELSE 1)
  BY DEF Booked
<1>6. e.opened = e.handed + d.missed + e.blank + (IF d.popup = None THEN 0 ELSE 1)
  BY <1>2, <1>3, <1>4, <1>5
<1>7. Booked(d, e)
  BY <1>6 DEF Booked
<1>8. QED  BY <1>1, <1>2, <1>3, <1>7

LEMMA PopupsStep ==
    ASSUME CefShape, PopupsAccounted, [CefNext]_cefVars
    PROVE  PopupsAccounted'
<1>0. /\ rec \in [1..Slots -> Records] /\ view \in [Views -> Controls]
      /\ page \in [Pages -> PageRecords]
  BY DEF CefShape, CefTypeOK
<1>1. SUFFICES ASSUME NEW s \in 1..Slots, Alive(s)', Sole(s)'
               PROVE  Booked(rec'[s], page'[rec'[s].page])
  BY Zenon DEF PopupsAccounted, Booked
<1>2. \A y \in Pages : IsOpen(y)' /\ page'[y].slot = s => rec'[s].page = y
  BY <1>1 DEF Sole, IsOpen
<1>3. ASSUME NEW v \in Views, NEW p \in Pages, NEW x \in Places, NEW told \in BOOLEAN,
             CreateAt(v, s, p, x, told)
      PROVE  Booked(rec'[s], page'[rec'[s].page])
  BY <1>3, MadeRecord DEF Booked
<1>4. ASSUME Alive(s) PROVE Booked(rec'[s], page'[rec'[s].page])
  <2>1. PICK p \in Pages, r \in Records, g \in PageRecords :
           p = rec[s].page /\ r = rec[s] /\ g = page[p] /\ r.page = p
    BY <1>4, AliveRecord
  <2>2. /\ rec'[s].page = p /\ page[p].slot = s
        /\ \/ PopupsKept(s, p)
           \/ \E w \in Views : view[w].handle = s /\ TakePopup(w)
           \/ \E y \in Pages : page[y].slot = s /\ OpensPopup(y)
    BY <1>1, <1>4, <2>1, RecordSteps
  <2>3. Sole(s)
    BY <1>1, <1>2, <2>1, <2>2, SoleBefore
  <2>4. Booked(r, g)
    BY <1>4, <2>1, <2>3, BookedOf
  <2>5. CASE PopupsKept(s, p)
    <3>1. SameOffer(rec'[s], r) /\ SameOpened(page'[p], g)
      BY <2>1, <2>5 DEF PopupsKept
    <3>2. Booked(rec'[s], page'[p])
      BY <2>4, <3>1 DEF SameOffer, SameOpened, Booked
    <3>3. QED  BY <2>2, <3>2
  <2>6. ASSUME NEW w \in Views, view[w].handle = s, TakePopup(w)
        PROVE  Booked(rec'[s], page'[rec'[s].page])
    <3>1. Mine(w) = r /\ PageOf(w) = p
      BY <2>1, <2>6 DEF Mine, PageOf
    <3>2. PICK d, e : d = [r EXCEPT !.popup = None] /\ e = [g EXCEPT !.handed = @ + 1]
      OBVIOUS
    <3>3. rec'[s] = d /\ page'[p] = e /\ r.popup # None
      BY <1>0, <2>1, <2>6, <3>1, <3>2 DEF TakePopup
    <3>4. Booked(d, e)
      BY <2>4, <3>2, <3>3, BookedTaken
    <3>5. QED  BY <2>2, <3>3, <3>4
  <2>7. ASSUME NEW y \in Pages, page[y].slot = s, OpensPopup(y)
        PROVE  Booked(rec'[s], page'[rec'[s].page])
    <3>1. IsOpen(y)
      BY <2>7 DEF OpensPopup, IsOpen
    <3>2. y = p /\ Told(p) = r
      BY <2>1, <2>3, <2>7, <3>1 DEF Sole, Told
    <3>3. CASE r.policy = 2
      <4>1. PICK u \in {p, None} :
               /\ page' = [page EXCEPT ![p] = Opened(@, Told(p).popup = None /\ u = None)]
               /\ Tell(p, Handed(Told(p), u))
        <5>1. OpensPopup(p) /\ Told(p).policy = 2
          BY <2>7, <3>2, <3>3
        <5>2. ~(Told(p).policy = 0) /\ ~(Told(p).policy = 1)
          BY <5>1
        <5>3. QED  BY <5>1, <5>2, Zenon DEF OpensPopup
      <4>2. PICK b : b = (Told(p).popup = None /\ u = None)
        OBVIOUS
      <4>3. PICK d, e : d = Handed(r, u) /\ e = Opened(g, b)
        OBVIOUS
      <4>4. rec'[s] = d /\ page'[p] = e
        BY <1>0, <2>1, <2>2, <3>2, <4>1, <4>2, <4>3 DEF Tell
      <4>5. Booked(d, e)
        BY <2>4, <3>2, <3>3, <4>2, <4>3, BookedOpened
      <4>6. QED  BY <2>2, <4>4, <4>5
    <3>4. CASE r.policy # 2
      <4>1. rec'[s].policy = r.policy
        <5>1. \/ UNCHANGED rec
              \/ \E o \in Pages : Tell(p, [r EXCEPT !.page = IF @ = None THEN o ELSE @])
          BY <2>7, <3>2, <3>4, Zenon DEF OpensPopup
        <5>2. ASSUME NEW o \in Pages, Tell(p, [r EXCEPT !.page = IF @ = None THEN o ELSE @])
              PROVE  rec'[s].policy = r.policy
          <6>1. rec'[s] = [r EXCEPT !.page = IF @ = None THEN o ELSE @]
            BY <1>0, <2>2, <5>2 DEF Tell
          <6>2. QED  BY <6>1 DEF Records
        <5>3. QED  BY <2>1, <5>1, <5>2
      <4>2. QED  BY <3>4, <4>1 DEF Booked
    <3>5. QED  BY <3>3, <3>4
  <2>8. QED  BY <2>2, <2>5, <2>6, <2>7
<1>5. QED  BY <1>1, <1>3, <1>4, AliveBefore

CefInv ==
    /\ CefShape /\ Unmade /\ OneOwner /\ OwnRecord /\ AskedToGo /\ PagesOwned
    /\ AllInOrder /\ WaitingOnce /\ AllComing /\ AllAttended /\ AllInForce
    /\ PopupsAccounted

LEMMA CefStarts == CefInit => CefInv
<1>1. SUFFICES ASSUME CefInit PROVE CefInv
  OBVIOUS
<1>2. /\ rec = [s \in 1..Slots |-> Unused] /\ page = [p \in Pages |-> Unopened]
      /\ running = "down"
  BY <1>1 DEF CefInit
<1>3. view \in [Views -> [handle : {0}, created : {FALSE}, page : {None}, clear : {TRUE},
                          seq : {0}, url : {0}, waiting : {<<>>}, policy : Policies]]
  BY <1>1 DEF CefInit
<1>4. \A v \in Views : /\ view[v].handle = 0 /\ view[v].created = FALSE /\ view[v].page = None
                       /\ view[v].waiting = <<>>
  BY <1>3
<1>5. \A s \in 1..Slots : rec[s].page = None /\ ~rec[s].used
  BY <1>2 DEF Unused
<1>6. \A p \in Pages : /\ page[p].state = "none" /\ ~page[p].popup /\ page[p].held = 0
  BY <1>2 DEF Unopened
<1>7. CefTypeOK
  <2>1. rec \in [1..Slots -> Records] /\ page \in [Pages -> PageRecords]
    BY <1>2, UnusedRecord, UnopenedPage
  <2>2. view \in [Views -> Controls]
    <3>1. /\ 0 \in 0..Slots /\ <<>> \in Seq(Callbacks) /\ None \in Pages \cup {None}
          /\ Policies \subseteq 0..2 /\ 0 \in Nat
      BY CefAssumption
    <3>2. [handle : {0}, created : {FALSE}, page : {None}, clear : {TRUE},
           seq : {0}, url : {0}, waiting : {<<>>}, policy : Policies] \subseteq Controls
      BY <3>1 DEF Controls
    <3>3. QED  BY <1>3, <3>2
  <2>3. QED  BY <1>2, <2>1, <2>2 DEF CefTypeOK
<1>8. /\ \A s \in 1..Slots : ~Alive(s)
      /\ \A v \in Views : ~Alive(view[v].handle)
      /\ \A p \in Pages : ~IsOpen(p)
  BY <1>4, <1>5, <1>6 DEF Alive, IsOpen
<1>9. CefShape
  BY <1>5, <1>7, <1>8 DEF CefShape, Recorded
<1>10. Unmade
  BY <1>4 DEF Unmade
<1>11. OneOwner /\ AllInOrder /\ AllComing /\ AllAttended /\ PopupsAccounted
  BY <1>8 DEF OneOwner, AllInOrder, AllComing, AllAttended, PopupsAccounted, Owner
<1>12. OwnRecord /\ AllInForce
  BY <1>6, <1>8 DEF OwnRecord, AllInForce
<1>13. AskedToGo
  BY <1>8 DEF AskedToGo
<1>14. PagesOwned
  <2>1. \A p \in Pages, s \in 1..Slots : rec[s].page # p
    BY <1>5, CefAssumption
  <2>2. QED  BY <1>6, <2>1 DEF PagesOwned, NoStrayPage, OneReference
<1>15. WaitingOnce
  <2>1. \A v \in Views : DOMAIN view[v].waiting = {} /\ Len(view[v].waiting) = 0
    BY <1>4
  <2>2. Ordered(0)
    <3>1. \A T \in SUBSET (1..0) : T = {}
      OBVIOUS
    <3>2. QED  BY <3>1 DEF Ordered
  <2>3. \A v \in Views : Distinct(view[v].waiting) /\ Ordered(Len(view[v].waiting))
    BY <2>1, <2>2 DEF Distinct
  <2>4. QED  BY <2>1, <2>3 DEF WaitingOnce, OnceEach, Apart, Numbered
<1>16. QED
  BY <1>9, <1>10, <1>11, <1>12, <1>13, <1>14, <1>15 DEF CefInv

LEMMA CefStep == CefInv /\ [CefNext]_cefVars => CefInv'
<1>1. SUFFICES ASSUME CefInv, [CefNext]_cefVars PROVE CefInv'
  OBVIOUS
<1>2. /\ CefShape /\ Unmade /\ OneOwner /\ OwnRecord /\ AskedToGo /\ PagesOwned
      /\ AllInOrder /\ WaitingOnce /\ AllComing /\ AllAttended /\ AllInForce
      /\ PopupsAccounted
  BY <1>1 DEF CefInv
<1>3. CefShape' /\ Unmade'
  BY <1>1, <1>2, ShapeStep, UnmadeStep
<1>4. OneOwner' /\ OwnRecord' /\ AskedToGo'
  BY <1>1, <1>2, OneOwnerStep, OwnRecordStep, AskedToGoStep
<1>5. PagesOwned'
  BY <1>1, <1>2, PagesOwnedStep
<1>6. AllInOrder'
  BY <1>1, <1>2, OrderStep
<1>7. WaitingOnce' /\ AllComing'
  BY <1>1, <1>2, WaitingStep, ComingStep
<1>8. AllAttended'
  BY <1>1, <1>2, AttendedStep
<1>9. AllInForce'
  BY <1>1, <1>2, ForceStep
<1>10. PopupsAccounted'
  BY <1>1, <1>2, PopupsStep
<1>11. QED
  BY <1>3, <1>4, <1>5, <1>6, <1>7, <1>8, <1>9, <1>10 DEF CefInv

\* The invariant the theorems below share.
LEMMA CefInvariant == CefSpec => []CefInv
BY CefStarts, CefStep, PTL DEF CefSpec

\* The array of records, the views and the pages of the browser driver keep to
\* what their fields hold; the handle of a view is 0 or the number of a record,
\* and the ring of a record stays within its bound.
THEOREM CefTypeCorrect == CefSpec => []CefTypeOK
<1>1. CefInv => CefTypeOK
  BY DEF CefInv, CefShape
<1>2. QED  BY <1>1, CefInvariant, PTL

\* zan_cef_create, zan_cef_close and zc_on_before_close, with any number of
\* records given back and reused: an open page has a view or is on its way out,
\* and the driver keeps one reference on it until it has closed.
THEOREM PagesAreOwned == CefSpec => []PagesOwned
<1>1. CefInv => PagesOwned
  BY DEF CefInv
<1>2. QED  BY <1>1, CefInvariant, PTL

\* zc_queue_push and zan_cef_cdp_take, for a ring of any length and any views
\* that reach the record, by a handle of their own or a stale one: the messages
\* of its page are taken in the order the page said them, and each was taken, is
\* queued or is counted as dropped.
THEOREM MessagesInOrder == CefSpec => []QueueInOrder
<1>1. CefInv => QueueInOrder
  BY OrderOf DEF CefInv
<1>2. QED  BY <1>1, CefInvariant, PTL

\* CefCdp.Send and Dispatch.  In any view, while nothing was dropped: a callback
\* of an open page that waits has its reply to come, or queued, or taken by a
\* Dispatch that called another callback, or none.  That never happened to the
\* page of a view that made it with no callbacks of a former page waiting and
\* with nobody else holding the handle: its replies called their own callbacks.
THEOREM CallbacksAreAnswered == CefSpec => []WaitersAnswered
<1>1. CefInv => WaitersAnswered
  BY ComingOf, AttendedOf DEF CefInv, WaitersAnswered
<1>2. QED  BY <1>1, CefInvariant, PTL

\* zan_cef_set_bounds, set_clip and set_visible: the work they skip was not
\* needed.
THEOREM ClipsAreInForce == CefSpec => []ClipInForce
<1>1. CefInv => ClipInForce
  BY ForceOf DEF CefInv
<1>2. QED  BY <1>1, CefInvariant, PTL

\* on_before_popup with policy 2, and zan_cef_take_popup_url: each popup of a page
\* that alone calls into its record was handed over, waits, is counted as missed,
\* or is one of those without a URL that came when none waited and of which
\* nobody is told.
THEOREM PopupsAreAccounted == CefSpec => []PopupsAccounted
<1>1. CefInv => PopupsAccounted
  BY DEF CefInv
<1>2. QED  BY <1>1, CefInvariant, PTL
=============================================================================
