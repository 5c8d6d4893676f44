----------------------------- MODULE MCCheckout -----------------------------
(* A small instance of Checkout for TLC.                                   *)
EXTENDS Checkout

CONSTANTS r1, r2, x1, c1, c2

TwoRequests == {r1, r2}
OneMalformed == {x1}
TwoConsumers == {c1, c2}
=============================================================================
