--------------------------- MODULE MCOrderStatus ----------------------------
(* A small instance of OrderStatus for TLC.                                *)
EXTENDS OrderStatus

CONSTANTS o1, k1, k2

OneOrder == {o1}
TwoClients == {k1, k2}
=============================================================================
