--------------------------- MODULE MCRequestTimer ---------------------------
(* Instances of the request timer for TLC: two workers, few requests.       *)
EXTENDS RequestTimer, TLC

CONSTANTS w1, w2

Two == {w1, w2}
Contexts == Permutations(Workers)
=============================================================================
