----------------------------- MODULE MCHashWal ------------------------------
(* Small key sets whose probe chains collide.  In a space of four slots 1   *)
(* and 5 start at slot 1 and 4 at slot 0; 0 and 8 start at slot 0 of every  *)
(* space of up to eight slots, where a search with the hash value of a      *)
(* blank entry starts as well; 17, 21 and 25 all start at slot 1 of four    *)
(* slots, and 17 and 25 at slot 1 of eight.  These three are larger than    *)
(* every record identifier: the word of a deleted record, the next one of   *)
(* the garbage list, is then no key's hash value.                           *)
EXTENDS HashWal

MCHash(keys) == [k \in keys |-> k]

MCFourSlotKeys == {1, 4, 5}
MCFourSlotHash == MCHash(MCFourSlotKeys)
MCZeroKeys == {0, 8}
MCZeroHash == MCHash(MCZeroKeys)
MCManyKeys == {17, 21, 25}
MCManyHash == MCHash(MCManyKeys)
=============================================================================
