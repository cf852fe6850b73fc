----------------------------- MODULE PatSearch ------------------------------
(***************************************************************************)
(* The searches of the patricia trie besides the one for a key: the        *)
(* cursors in the order of the keys, the prefix search and the search for  *)
(* the longest key that is a prefix.                                       *)
(***************************************************************************)
EXTENDS PatTree

\* The identifiers below a node that was reached from one with this check, in
\* order, or in reverse with first = Right.  grn_pat_cursor_next.
RECURSIVE Visit(_, _, _, _)
Visit(p, first, id, check) ==
    IF id = NIL THEN <<>>
    ELSE IF Check(p, id) <= check THEN <<id>>
    ELSE Visit(p, first, p.node[id].lr[first], Check(p, id))
           \o Visit(p, first, p.node[id].lr[1 - first], Check(p, id))

\* The stack of a cursor has nodes with the check before them; a whole node is
\* both its sides.
Entry(id, check) == <<[id |-> id, check |-> check]>>
Whole(p, first, id) ==
    Entry(p.node[id].lr[first], Check(p, id)) \o Entry(p.node[id].lr[1 - first], Check(p, id))

RECURSIVE VisitAll(_, _, _)
VisitAll(p, first, stack) ==
    IF stack = <<>> THEN <<>>
    ELSE Visit(p, first, stack[1].id, stack[1].check) \o VisitAll(p, first, Tail(stack))

\* grn_pat_cursor_open without bounds, and grn_pat_cursor_next to the end.
cursor(p, first) ==
    IF At(p, Root) = NIL THEN <<>> ELSE VisitAll(p, first, Whole(p, first, At(p, Root)))

\* memcmp, the shorter key first.
IsPrefixOf(a, b) == Len(a) <= Len(b) /\ \A i \in 1..Len(a) : a[i] = b[i]
Before(a, b) ==
    \/ a # b /\ IsPrefixOf(a, b)
    \/ \E i \in 1..Len(a) : i <= Len(b) /\ a[i] < b[i] /\ \A j \in 1..(i - 1) : a[j] = b[j]

\* bitcmp of the bits from..(to - 1).
BitCmp(a, b, from, to) ==
    LET differ == {n \in from..(to - 1) : nth_bit(a, 2 * n) # nth_bit(b, 2 * n)}
        n == CHOOSE m \in differ : \A o \in differ : m <= o
    IN  IF differ = {} THEN 0 ELSE nth_bit(a, 2 * n) - nth_bit(b, 2 * n)

\* Mutant: the skipped bits are not compared.
SkippedNot(p, key, id, check) == 0

\* What the loops of set_cursor_ascend and set_cursor_descend compare before they
\* go below a node: the bits of the key since the last check.
Skipped(p, key, id, check) ==
    LET c2 == IF check_max(key) < Check(p, id) THEN check_max(key) ELSE Check(p, id)
    IN  IF check + 2 < c2
        THEN BitCmp(key, KeyOf(p, id), (check + 2) \div 2, (c2 + 1) \div 2)
        ELSE 0

\* The stack of an ascending cursor that begins at key, the next entry first.
RECURSIVE AscendFrom(_, _, _, _)
AscendFrom(p, key, id, check) ==
    LET k == KeyOf(p, id)
        c == Check(p, id)
        skipped == Skipped(p, key, id, check)
    IN  CASE id = NIL -> <<>>
          [] id # NIL /\ c <= check ->
               IF key = k \/ Before(key, k) THEN Entry(id, check) ELSE <<>>
          [] id # NIL /\ c > check /\ skipped # 0 ->
               IF skipped < 0 THEN Whole(p, Left, id) ELSE <<>>
          [] id # NIL /\ c > check /\ skipped = 0 ->
               IF check_max(key) <= c THEN Whole(p, Left, id)
               ELSE IF Side(key, c) = Right THEN AscendFrom(p, key, p.node[id].lr[Right], c)
               ELSE AscendFrom(p, key, p.node[id].lr[Left], c) \o Entry(p.node[id].lr[Right], c)

ascend(p, key) == VisitAll(p, Left, AscendFrom(p, key, At(p, Root), -1))

\* The stack of a descending cursor that begins at key.
RECURSIVE DescendFrom(_, _, _, _)
DescendFrom(p, key, id, check) ==
    LET k == KeyOf(p, id)
        c == Check(p, id)
        skipped == Skipped(p, key, id, check)
    IN  CASE id = NIL -> <<>>
          [] id # NIL /\ c <= check ->
               IF key = k \/ Before(k, key) THEN Entry(id, check) ELSE <<>>
          [] id # NIL /\ c > check /\ skipped # 0 ->
               IF skipped > 0 THEN Whole(p, Right, id) ELSE <<>>
          [] id # NIL /\ c > check /\ skipped = 0 ->
               IF check_max(key) <= c THEN <<>>
               ELSE IF Side(key, c) = Left THEN DescendFrom(p, key, p.node[id].lr[Left], c)
               ELSE DescendFrom(p, key, p.node[id].lr[Right], c) \o Entry(p.node[id].lr[Left], c)

descend(p, key) == VisitAll(p, Right, DescendFrom(p, key, At(p, Root), -1))

\* grn_pat_cursor_next of a cursor with a tail, the node to end with: the first
\* node may be beyond it.
Until(p, first, ids, tail) ==
    LET k == KeyOf(p, ids[1])
        beyond == IF first = Left THEN ~Before(k, KeyOf(p, tail)) ELSE ~Before(KeyOf(p, tail), k)
        ends == {i \in 1..Len(ids) : ids[i] = tail}
        last == CHOOSE i \in ends : \A j \in ends : i <= j
    IN  IF ids[1] # tail /\ beyond THEN <<>>
        ELSE IF ends = {} THEN ids ELSE SubSeq(ids, 1, last)

\* grn_pat_cursor_open with two bounds, given what the cursors with one of them
\* return: the tail is the first node of the other one.
between(p, first, up, down) ==
    IF up = <<>> \/ down = <<>> THEN <<>>
    ELSE IF first = Left THEN Until(p, Left, up, down[1])
    ELSE Until(p, Right, down, up[1])

\* get_tc: the keys below a node, whatever it was reached from.
get_tc(p, id) == LET v == VisitAll(p, Left, Whole(p, Left, id)) IN {v[i] : i \in 1..Len(v)}

\* Mutant: the test for the end of the key itself is followed too.
RECURSIVE PrefixFromEnd(_, _, _, _)
PrefixFromEnd(p, key, id, c0) ==
    LET c == Check(p, id)
    IN  IF id = NIL THEN {}
        ELSE IF c0 < c /\ c < check_max(key)
             THEN PrefixFromEnd(p, key, p.node[id].lr[Side(key, c)], c)
        ELSE IF ~IsPrefixOf(key, KeyOf(p, id)) THEN {}
        ELSE IF c >= check_max(key) - 1 THEN get_tc(p, id) ELSE {id}

\* grn_pat_prefix_search.
RECURSIVE PrefixFrom(_, _, _, _)
PrefixFrom(p, key, id, c0) ==
    LET c == Check(p, id)
    IN  IF id = NIL THEN {}
        ELSE IF c0 < c /\ c < check_max(key) - 1
             THEN PrefixFrom(p, key, p.node[id].lr[Side(key, c)], c)
        ELSE IF ~IsPrefixOf(key, KeyOf(p, id)) THEN {}
        ELSE IF c >= check_max(key) - 1 THEN get_tc(p, id) ELSE {id}

prefix_search(p, key) == PrefixFrom(p, key, At(p, Root), -1)

\* grn_pat_lcp_search; best is the longest prefix so far.  It returns the set of
\* possible answers: without a left side node 0 is read for its key, which is
\* the first byte of the key storage, or none, which ends the search.
RECURSIVE LcpFrom(_, _, _, _, _)
LcpFrom(p, key, id, c0, best) ==
    LET c == Check(p, id)
        shorter == p.node[id].lr[Left]
        next(b) == LcpFrom(p, key, p.node[id].lr[Side(key, c)], c, b)
    IN  IF id = NIL THEN {best}
        ELSE IF c <= c0 THEN {IF IsPrefixOf(KeyOf(p, id), key) THEN id ELSE best}
        ELSE IF check_max(key) <= c THEN {best}
        ELSE IF ~IsTerminated(c) THEN next(best)
        ELSE IF shorter = NIL THEN {best} \cup next(best) \cup next(NIL)
        ELSE next(IF IsPrefixOf(KeyOf(p, shorter), key) THEN shorter ELSE best)

lcp_search(p, key) == LcpFrom(p, key, At(p, Root), -1, NIL)
=============================================================================
