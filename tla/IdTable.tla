------------------------------ MODULE IdTable -------------------------------
(***************************************************************************)
(* What a table of keys promises its users, whatever it is made of: a key  *)
(* that is added gets an identifier no other key has, keeps it until the   *)
(* key is deleted, and no operation on one key shows on another.           *)
(***************************************************************************)
EXTENDS Naturals

CONSTANTS
    Keys,
    Ids    \* the identifiers, without 0

VARIABLE table   \* the identifier of each key; 0 (GRN_ID_NIL) if it has none

Init == table = [k \in Keys |-> 0]

Add(k) ==
    /\ table[k] = 0
    /\ \E id \in Ids \ {table[j] : j \in Keys} : table' = [table EXCEPT ![k] = id]

Delete(k) ==
    /\ table[k] # 0
    /\ table' = [table EXCEPT ![k] = 0]

Next == \E k \in Keys : Add(k) \/ Delete(k)

Spec == Init /\ [][Next]_table
=============================================================================
