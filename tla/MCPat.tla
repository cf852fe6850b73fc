-------------------------------- MODULE MCPat --------------------------------
(* An instance of the patricia trie for TLC: bytes of two bits, and four    *)
(* keys of which one is an extension of another.  The small ring makes      *)
(* nodes come back from the garbage, the large one lets deletions pile up.  *)
EXTENDS Pat, TLC

MCKeys == {<<0>>, <<1>>, <<2>>, <<0, 1>>}
MCMaxDeletes == 4 :> 4 @@ 8 :> 3
MCMaxNodes == 4 :> 4 @@ 8 :> 5
=============================================================================
