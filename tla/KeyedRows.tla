----------------------------- MODULE KeyedRows -----------------------------
(***************************************************************************)
(* What a SharedTable promises: a map from keys to rows.  A key that was   *)
(* written has its row until it is deleted, cleared or expired; an expired *)
(* row may linger, and disappears at the latest when it has to; a row that *)
(* is not there is refused only when the table is full.                    *)
(***************************************************************************)
EXTENDS Integers, FiniteSets

CONSTANTS Keys, Vals, MaxRows, MaxTime

Absent == [value |-> 0, expires |-> -1]

VARIABLES store,    \* the row of each key, or Absent
          now       \* the wall clock

vars == <<store, now>>

Present(s) == {k \in Keys : s[k] # Absent}

\* What is left of s once the expired rows of D are gone.
Without(s, D) == [k \in Keys |-> IF k \in D THEN Absent ELSE s[k]]

Remains ==
    {Without(store, D) : D \in SUBSET {k \in Present(store) :
                        store[k].expires # 0 /\ store[k].expires <= now}}

Init == store = [k \in Keys |-> Absent] /\ now = 1

Purge == store' \in Remains /\ UNCHANGED now

Write(k, v) ==
    \E s \in Remains :
        /\ store' = IF s[k] # Absent THEN [s EXCEPT ![k].value = v]
                    ELSE IF Cardinality(Present(s)) < MaxRows
                         THEN [s EXCEPT ![k] = [value |-> v, expires |-> 0]]
                         ELSE s
        /\ UNCHANGED now

Add(k, d) ==
    \E s \in Remains :
        /\ store' = IF s[k] # Absent THEN [s EXCEPT ![k].value = @ + d]
                    ELSE IF Cardinality(Present(s)) < MaxRows
                         THEN [s EXCEPT ![k] = [value |-> d, expires |-> 0]]
                         ELSE s
        /\ UNCHANGED now

Expire(k, at) ==
    \E s \in Remains :
        /\ store' = IF s[k] # Absent THEN [s EXCEPT ![k].expires = at] ELSE s
        /\ UNCHANGED now

Delete(k) == \E s \in Remains : store' = Without(s, {k}) /\ UNCHANGED now

Clear == store' = [k \in Keys |-> Absent] /\ UNCHANGED now

Tick == now' = now + 1 /\ UNCHANGED store

Next ==
    \/ Purge \/ Clear \/ Tick
    \/ \E k \in Keys :
          \/ Delete(k)
          \/ \E v \in Vals : Write(k, v) \/ Add(k, v)
          \/ \E at \in 0..MaxTime : Expire(k, at)

Spec == Init /\ [][Next]_vars
============================================================================
