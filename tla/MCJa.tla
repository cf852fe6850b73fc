-------------------------------- MODULE MCJa --------------------------------
(* Segments of 16 bytes: values of 1 byte are tiny, of 2 to 4 bytes in chunks, *)
(* of 5 to 14 bytes sequential, larger ones huge.  The element infos of record *)
(* 1 are in segment 0, those of record 2 in a segment of their own, made with  *)
(* its first value.  The workloads: every kind of value; chunks of one size    *)
(* for long; a value that fills all segments but the first beside tiny ones.   *)
EXTENDS Ja, TLC

MCLseg == [i \in Ids |-> i - 1]
MCAll == {0, 4, 5, 17}
MCChunks == {4}
MCFull == {1, 65}
MCWorkloads == {MCAll, MCChunks, MCFull}
MCMaxAppended == (MCAll :> 17) @@ (MCChunks :> 0) @@ (MCFull :> 14)
MCMaxPuts == (MCAll :> 4) @@ (MCChunks :> 10) @@ (MCFull :> 4)
MCSymmetry == Permutations(Writers)
=============================================================================
