----------------------------- MODULE DispatchRing -----------------------------
(***************************************************************************)
(* The UI-thread dispatch queue of the runtime: a ring that doubles when   *)
(* it is full.  Every operation runs from end to end under one lock, a     *)
(* pthread mutex in the C lane and a spin lock in the Zan lane, so each is *)
(* one step here; the two lanes run the same algorithm.                    *)
(***************************************************************************)
EXTENDS Integers, Sequences

CONSTANTS Handlers,     \* the delegates posted
          Null,         \* no delegate; also a slot malloc left unset
          Cap0, CapMax  \* the first and the last size of the ring

ASSUME CapType == Cap0 \in Nat \ {0} /\ CapMax \in Nat /\ Cap0 <= CapMax
ASSUME NullType == Null \notin Handlers

VARIABLES q,        \* [ring, cap, head, tail]; tail is the slot written next
          answer    \* what the last call answered

After(r, i) == (i + 1) % r.cap
Count(r) == (r.tail + r.cap - r.head) % r.cap
At(r, i) == r.ring[(r.head + i) % r.cap]

InitRing ==
    /\ q = [ring |-> [i \in 0..Cap0 - 1 |-> Null], cap |-> Cap0,
            head |-> 0, tail |-> 0]
    /\ answer = Null

\* Faulty: the slots are copied to the places they had.
GrowInPlace(r) ==
    [ring |-> [i \in 0..2 * r.cap - 1 |-> IF i < r.cap THEN r.ring[i] ELSE Null],
     cap |-> 2 * r.cap, head |-> 0, tail |-> Count(r)]

\* The ring twice as large, the live slots moved to its start.
Grow(r) ==
    [ring |-> [i \in 0..2 * r.cap - 1 |-> IF i < Count(r) THEN At(r, i) ELSE Null],
     cap |-> 2 * r.cap, head |-> 0, tail |-> Count(r)]

\* The ring dispatch_post writes to: grown when it is full, unless it has its
\* last size or malloc fails.
Rings == IF After(q, q.tail) # q.head THEN {q}
         ELSE {q} \cup {Grow(r) : r \in {s \in {q} : s.cap < CapMax}}

Post(fn) ==
    \E r \in Rings :
        LET full == After(r, r.tail) = r.head
        IN  /\ q' = IF full THEN r
                    ELSE [r EXCEPT !.ring[r.tail] = fn, !.tail = After(r, r.tail)]
            /\ answer' = IF full THEN "refused" ELSE "accepted"

\* The handler at the head, or Null.
Take ==
    IF q.head # q.tail
    THEN answer' = q.ring[q.head] /\ q' = [q EXCEPT !.head = After(q, q.head)]
    ELSE answer' = Null /\ UNCHANGED q

\* dispatch_clear, and dispatch_init, which does the same.
Clear == q' = [q EXCEPT !.head = 0, !.tail = 0] /\ answer' = Null

NextRing == Take \/ Clear \/ \E fn \in Handlers : Post(fn)

SpecRing == InitRing /\ [][NextRing]_<<q, answer>>

----------------------------------------------------------------------------
\* Head and tail stay inside the ring, and every slot between them holds a
\* delegate: none malloc left unset, none lost by a move to a larger ring.
RingOK ==
    /\ q.cap \in Cap0..2 * CapMax
    /\ q.head \in 0..q.cap - 1
    /\ q.tail \in 0..q.cap - 1
    /\ q.ring \in [0..q.cap - 1 -> Handlers \cup {Null}]
    /\ \A i \in 0..Count(q) - 1 : At(q, i) \in Handlers

\* The ring is a bounded first-in first-out queue, through wrap-around and
\* growth, and it refuses a post only when the smallest ring would be full.
Waiting == [i \in 1..Count(q) |-> At(q, i - 1)]
Fifo == INSTANCE DispatchFifo WITH queue <- Waiting, Room <- Cap0 - 1
ImplementsFifo == Fifo!Spec
===============================================================================
