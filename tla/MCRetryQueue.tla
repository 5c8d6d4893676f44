---------------------------- MODULE MCRetryQueue ----------------------------
(* Small instances of RetryQueue for TLC.                                  *)
EXTENDS RetryQueue, TLC

CONSTANTS n1, p1, x1, i1, o1, o2, o3, u1, c1, c2, c3

None == {}
JustNormal == {n1}
JustPoison == {p1}
JustCrash == {x1}
JustIdempotent == {i1}
ThreeOrdered == {o1, o2, o3}
JustUnknown == {u1}
ThreeConsumers == {c1, c2, c3}

\* Ordered messages and consumers are each interchangeable.
Symmetry == Permutations(Ordered) \cup Permutations(Consumers)
=============================================================================
