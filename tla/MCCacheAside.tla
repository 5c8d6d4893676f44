---------------------------- MODULE MCCacheAside ----------------------------
(* A small instance of CacheAside for TLC.                                 *)
EXTENDS CacheAside

CONSTANTS t1, t2, t3

ThreeThreads == {t1, t2, t3}
=============================================================================
