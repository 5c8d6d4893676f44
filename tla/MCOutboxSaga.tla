---------------------------- MODULE MCOutboxSaga ----------------------------
(* Small instances of OutboxSaga for TLC.                                  *)
EXTENDS OutboxSagaProofs

CONSTANTS o1, p1, p2, c1, c2

OneOrder == {o1}
OnePayer == {p1}
TwoPayers == {p1, p2}
OneConfirmer == {c1}
TwoConfirmers == {c1, c2}
=============================================================================
