---------------------------- MODULE MCBlockingQueue ----------------------------
(* Two producers and two consumers around a queue of two places and a list    *)
(* that is compacted as soon as two of its items are consumed.                *)
EXTENDS BlockingQueue

CONSTANTS p1, p2, c1, c2
MCProducers == {p1, p2}
MCConsumers == {c1, c2}
===============================================================================
