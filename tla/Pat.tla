-------------------------------- MODULE Pat ---------------------------------
(***************************************************************************)
(* The patricia trie in use: one writer, who holds the table's io lock,    *)
(* adds and deletes keys, and what its readers find is compared with what  *)
(* a table of keys has to have.                                            *)
(***************************************************************************)
EXTENDS PatSearch

CONSTANTS
    MaxDeletes,   \* bound: calls of grn_pat_delete, for each of Rings
    MaxNodes      \* bound: nodes in use, pending or garbage, for each of Rings

VARIABLES
    pat,       \* the mapped file
    table,     \* what grn_pat_get finds in it for each key
    deletes    \* calls of grn_pat_delete

vars == <<pat, table, deletes>>

\* What the nodes that are out of the tree have besides their keys is not read
\* again: NotInTree says that no search comes across them.
Forget(p) ==
    LET out == {p.delinfos[i].d : i \in {j \in 1..Len(p.delinfos) : p.delinfos[j].stat = "phase2"}}
    IN  [p EXCEPT !.node = [i \in 0..MaxId |->
            IF i \in out THEN [EmptyNode EXCEPT !.key = KeyOf(p, i)] ELSE p.node[i]]]

Becomes(p) ==
    /\ pat' = p
    /\ table' = [k \in Keys |-> get(p, k)]

Init ==
    /\ \E ring \in Rings : pat = EmptyPat(ring)
    /\ table = [k \in Keys |-> NIL]
    /\ deletes = 0

Add(k) ==
    /\ table[k] # NIL \/ next_id(pat, k) <= MaxNodes[pat.ring]
    /\ Becomes(add(pat, k))
    /\ UNCHANGED deletes

Delete(k) ==
    /\ deletes < MaxDeletes[pat.ring]
    /\ deletes' = deletes + 1
    /\ Becomes(Forget(del(pat, k)))

\* A callback of the caller refuses the deletion once the key is found.
DeleteRefused(k) ==
    /\ deletes < MaxDeletes[pat.ring]
    /\ deletes' = deletes + 1
    /\ table[k] # NIL
    /\ Becomes(Forget(delinfo_new(pat)))

Next == \E k \in Keys : Add(k) \/ Delete(k) \/ DeleteRefused(k)

Spec == Init /\ [][Next]_vars

-----------------------------------------------------------------------------
Live == {table[k] : k \in Keys} \ {NIL}
Pending(p) == {i \in 1..Len(p.delinfos) : p.delinfos[i].stat # "empty"}

RECURSIVE GarbageFrom(_, _)
GarbageFrom(p, id) ==
    IF id = NIL THEN <<>> ELSE <<id>> \o GarbageFrom(p, p.node[id].lr[Left])

\* The tree is a table of keys: an addition or a deletion changes what is found
\* for its own key only, and identifiers stay.
Table == INSTANCE IdTable WITH Keys <- Keys, Ids <- Ids, table <- table
IsTable == Table!Spec

\* A key can be added to every tree that can come about, and is found then: the
\* check of its new node is never refused, and its place is on the way to it.
AddSucceeds ==
    \A k \in Keys : next_id(pat, k) <= MaxNodes[pat.ring] => get(add(pat, k), k) # NIL

\* The cursor without bounds returns every key once, in order.
CursorIsExact ==
    LET c == cursor(pat, Left)
    IN  /\ {c[i] : i \in 1..Len(c)} = Live
        /\ \A i \in 1..(Len(c) - 1) : Before(KeyOf(pat, c[i]), KeyOf(pat, c[i + 1]))
        /\ cursor(pat, Right) = [i \in 1..Len(c) |-> c[Len(c) + 1 - i]]

Below == [k \in Keys |-> {j \in Keys : Before(j, k)}]
Above == [k \in Keys |-> {j \in Keys : Before(k, j)}]

\* A cursor, without a bound, with one or with two, returns every key within them
\* once and in order, also if they leave none.
RangesAreExact ==
    LET all == cursor(pat, Left)
        rev == cursor(pat, Right)
        without(ids, keys) == SelectSeq(ids, LAMBDA id : KeyOf(pat, id) \notin keys)
        from(min) == without(all, Below[min])
        to(max) == without(rev, Above[max])
    IN  /\ CursorIsExact
        /\ \A k \in Keys : ascend(pat, k) = from(k) /\ descend(pat, k) = to(k)
        /\ \A min, max \in Keys :
            /\ between(pat, Left, from(min), to(max)) = without(from(min), Above[max])
            /\ between(pat, Right, from(min), to(max)) = without(to(max), Below[min])

\* The nodes a descent from a node can come across.
RECURSIVE Reached(_, _, _)
Reached(p, id, check) ==
    IF id = NIL THEN {}
    ELSE IF Check(p, id) <= check THEN {id}
    ELSE {id} \cup UNION {Reached(p, p.node[id].lr[d], Check(p, id)) : d \in {Left, Right}}

\* The search for the longest key that is a prefix finds it, in every tree in
\* which a node that tests for the end of a key has the key that ends there.
LongestPrefixIsFound ==
    LET dangling == \E id \in Reached(pat, At(pat, Root), -1) :
                        IsTerminated(Check(pat, id)) /\ pat.node[id].lr[Left] = NIL
        longest(k) ==
            LET shorter == {id \in Live : IsPrefixOf(KeyOf(pat, id), k)}
            IN  IF shorter = {} THEN NIL
                ELSE CHOOSE id \in shorter : \A i \in shorter :
                         IsPrefixOf(KeyOf(pat, i), KeyOf(pat, id))
    IN  dangling \/ \A k \in Keys : lcp_search(pat, k) = {longest(k)}

\* The prefix search finds exactly the keys with the prefix, and the search for
\* the longest prefix the longest.
PrefixesAreExact ==
    /\ \A k \in Keys :
        prefix_search(pat, k) = {id \in Live : IsPrefixOf(k, KeyOf(pat, id))}
    /\ LongestPrefixIsFound

\* Whoever reads the tree meets no node that has been taken out of it: only
\* nodes in use and the ones whose deletion is in its first phase.
NotInTree ==
    LET first == {pat.delinfos[i].d : i \in {j \in Pending(pat) : pat.delinfos[j].stat = "phase1"}}
    IN  Reached(pat, At(pat, Root), -1) \subseteq Live \cup first

\* Every node is in use, or owed to one deletion, or in one garbage list, and
\* the tree has none that has been taken out of it.
NodesArePartitioned ==
    LET lists == {GarbageFrom(pat, pat.garbages[s]) : s \in DOMAIN pat.garbages}
        garbage == UNION {{l[i] : i \in 1..Len(l)} : l \in lists}
        owed == {pat.delinfos[i].d : i \in Pending(pat)}
    IN  /\ NotInTree
        /\ Live \cup owed \cup garbage = 1..pat.curr_rec
        /\ Live \cap (owed \cup garbage) = {} /\ owed \cap garbage = {}
        /\ Cardinality(owed) = Cardinality(Pending(pat))
        /\ pat.n_entries = Cardinality(Live)
        /\ pat.n_garbages = Cardinality(owed \cup garbage)
=============================================================================
