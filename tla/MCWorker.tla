------------------------------ MODULE MCWorker ------------------------------
(* Small instances of Worker for TLC. *)
EXTENDS Worker, TLC

CONSTANTS n1, n2, g1, g2, s1, s2   \* two names, two handlers, two syncconfs

TwoNames == {n1, n2}
TwoHandlers == {g1, g2}
OneSync == {s1}
TwoSyncs == {s1, s2}

Interchangeable == Permutations(Names) \cup Permutations(Handlers) \cup Permutations(Syncs)
=============================================================================
