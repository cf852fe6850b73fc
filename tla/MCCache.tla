------------------------------ MODULE MCCache -------------------------------
(* An instance of the query cache for TLC: few selects, threads and seconds. *)
EXTENDS Cache, TLC

CONSTANTS k1, k2, r1, r2, v1

TwoKeys == {k1, k2}
TwoReaders == {r1, r2}
OneWriter == {v1}
Threads == Permutations(TwoKeys) \cup Permutations(TwoReaders)
=============================================================================
