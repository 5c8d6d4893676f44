----------------------------- MODULE MCFailover -----------------------------
(* A small instance of Failover for TLC.                                   *)
EXTENDS Failover

CONSTANTS n1, n2, n3, w1, w2

ThreeNodes == {n1, n2, n3}
TwoWrites == {w1, w2}
=============================================================================
