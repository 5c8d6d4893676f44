-------------------------- MODULE MCOrderPipeline ---------------------------
(* A small instance of OrderPipeline for TLC.                              *)
EXTENDS OrderPipeline

CONSTANTS v1, b1, c1, c2

OneValid == {v1}
OneInvalid == {b1}
TwoConsumers == {c1, c2}
=============================================================================
