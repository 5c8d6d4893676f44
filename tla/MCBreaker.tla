----------------------------- MODULE MCBreaker ------------------------------
(* A small instance of Breaker for TLC.                                    *)
EXTENDS Breaker

CONSTANTS t1, t2, t3

ThreeThreads == {t1, t2, t3}
=============================================================================
