----------------------------- MODULE MCTaskApi ------------------------------
(* A small instance of TaskApi for TLC.                                    *)
EXTENDS TaskApi, TLC

CONSTANTS t1, k1, k2, k3, x, y, f, g

OneTask == {t1}
ThreeClients == {k1, k2, k3}
TwoTitles == {x, y}
TwoKeys == {f, g}

\* Tasks, clients, titles and keys are each interchangeable.
Symmetry ==
  Permutations(Tasks) \cup Permutations(Clients)
    \cup Permutations(Titles) \cup Permutations(Keys)
=============================================================================
