------------------------------ MODULE MCNeRing ------------------------------
(* NeRing with small sets of threads; the counters wrap every Modulus operations. *)
EXTENDS NeRing, TLC

CONSTANTS p1, p2, c1, c2, x1, x2

MCItems == {x1, x2}
TwoProducers == {p1, p2}
TwoConsumers == {c1, c2}

==============================================================================
