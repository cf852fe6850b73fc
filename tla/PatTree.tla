------------------------------ MODULE PatTree -------------------------------
(***************************************************************************)
(* The patricia trie (lib/pat.c): additions, deletions and the ring of     *)
(* deletion infos that lets a deleted node stay in the tree, and then out  *)
(* of use, for a while.  Every operator takes the mapped file p.           *)
(*                                                                         *)
(* A key is a sequence of bytes and a byte one of Bits bits.  A node is an *)
(* inner node where its check is above the check of the node before it,    *)
(* and stands for its key where it is not.                                 *)
(***************************************************************************)
EXTENDS Integers, Sequences, FiniteSets

CONSTANTS
    Bits,            \* bits of a byte (8)
    Keys,            \* the keys used
    EmbeddableSize,  \* the longest key that is kept in its node
    Rings,           \* values of GRN_PAT_NDELINFOS (256), powers of 2
    MaxId            \* bound: the nodes of the file

ASSUME BitsAssumption == Bits \in Nat \ {0}
ASSUME KeysAssumption ==
    \A k \in Keys : k # <<>> /\ \A i \in 1..Len(k) : k[i] \in 0..(2^Bits - 1)
ASSUME RingAssumption == \A r \in Rings : \E n \in 1..8 : r = 2^n

NIL == 0
Left == 0
Right == 1
Ids == 1..MaxId
Root == <<0, Right>>   \* node 0 has the first node as its right child

EmptyNode == [lr |-> [d \in {Left, Right} |-> NIL], check |-> 0, deleting |-> FALSE,
              key |-> <<>>]
EmptyInfo == [stat |-> "empty", d |-> NIL, ld |-> NIL]
Phase1(id, parent) == [stat |-> "phase1", d |-> id, ld |-> parent]
Phase2(id) == [stat |-> "phase2", d |-> id, ld |-> NIL]

EmptyPat(ring) ==
    [ring |-> ring, node |-> [i \in 0..MaxId |-> EmptyNode], curr_rec |-> 0,
     n_entries |-> 0, n_garbages |-> 0, garbages |-> [s \in {0} \cup {Len(k) : k \in Keys} |-> NIL],
     delinfos |-> <<>>, n2 |-> 0]

-----------------------------------------------------------------------------
(***************************************************************************)
(* Checks.  A check names a bit of a key, twice its number, or with 1      *)
(* added the end of a byte: whether the key goes on after it.              *)
(***************************************************************************)
PAT_CHECK_PACK(byte, bit, terminated) == 2 * (Bits * byte + bit) + terminated
IsTerminated(check) == check % 2 = 1
check_max(key) == PAT_CHECK_PACK(Len(key), 0, 0)

nth_bit(key, check) ==
    LET n == check \div 2
    IN  (key[n \div Bits + 1] \div 2^(Bits - 1 - (n % Bits))) % 2

\* grn_pat_next_location: the side of a node with this check.
Side(key, check) ==
    IF IsTerminated(check)
    THEN IF check + 1 < check_max(key) THEN Right ELSE Left
    ELSE nth_bit(key, check)

\* The first check at which two keys differ.
Difference(k1, k2) ==
    LET min == IF Len(k1) < Len(k2) THEN Len(k1) ELSE Len(k2)
        same == {n \in 0..min : \A i \in 1..n : k1[i] = k2[i]}
        byte == CHOOSE n \in same : \A m \in same : m <= n
        differs(n) == nth_bit(<<k1[byte + 1]>>, 2 * n) # nth_bit(<<k2[byte + 1]>>, 2 * n)
        bit == CHOOSE n \in 0..(Bits - 1) :
                   differs(n) /\ \A m \in 0..(n - 1) : ~differs(m)
    IN  IF byte = min THEN PAT_CHECK_PACK(byte - 1, Bits - 1, 1)
        ELSE PAT_CHECK_PACK(byte, bit, 0)

-----------------------------------------------------------------------------
(***************************************************************************)
(* Reading.  A location is a node and a side.                              *)
(***************************************************************************)
At(p, loc) == p.node[loc[1]].lr[loc[2]]
Check(p, id) == p.node[id].check
KeyOf(p, id) == p.node[id].key

\* _grn_pat_get.
RECURSIVE GetFrom(_, _, _, _)
GetFrom(p, key, id, c0) ==
    IF id = NIL \/ check_max(key) <= Check(p, id) THEN NIL
    ELSE IF Check(p, id) <= c0 THEN (IF KeyOf(p, id) = key THEN id ELSE NIL)
    ELSE GetFrom(p, key, At(p, <<id, Side(key, Check(p, id))>>), Check(p, id))

get(p, key) == GetFrom(p, key, At(p, Root), -1)

\* Where a descent for a key has come to: the location it is at and its node,
\* those before, and the checks of the last two inner nodes.
Start == [loc |-> Root, id |-> 0, check |-> -1, prevLoc |-> Root, prevCheck |-> -1]

Down(p, key, w) ==
    [loc |-> <<At(p, w.loc), Side(key, Check(p, At(p, w.loc)))>>, id |-> At(p, w.loc),
     check |-> Check(p, At(p, w.loc)), prevLoc |-> w.loc, prevCheck |-> w.check]

\* The first loop of grn_pat_add_internal_find.
RECURSIVE Descend(_, _, _)
Descend(p, key, w) ==
    LET id == At(p, w.loc)
    IN  IF id # NIL /\ w.check < Check(p, id) /\ Check(p, id) < check_max(key)
        THEN Descend(p, key, Down(p, key, w))
        ELSE w

\* Its second: from the root to the node the new one goes above.
RECURSIVE DescendTo(_, _, _, _)
DescendTo(p, key, check, loc) ==
    LET id == At(p, loc)
    IN  IF id = NIL \/ check < Check(p, id) THEN loc
        ELSE DescendTo(p, key, check, <<id, Side(key, Check(p, id))>>)

-----------------------------------------------------------------------------
(***************************************************************************)
(* Writing.                                                                *)
(***************************************************************************)
SetAt(p, loc, id) == [p EXCEPT !.node[loc[1]].lr[loc[2]] = id]

\* Mutant: the check goes on to the next bit even at the end of the key.
add_find_beyond(p, key) ==
    LET w == Descend(p, key, Start)
        id == At(p, w.loc)
        found == KeyOf(p, IF id = NIL THEN w.id ELSE id)
        c == Difference(key, found)
        same == c = w.check /\ id = NIL
    IN  IF At(p, Root) = NIL
        THEN [id |-> NIL, loc |-> Root, check |-> PAT_CHECK_PACK(Len(key) - 1, Bits - 1, 0)]
        ELSE IF id # NIL /\ found = key THEN [id |-> id]
        ELSE [id |-> NIL,
              check |-> IF same THEN c + 2 ELSE c,
              loc |-> IF same \/ c >= w.check THEN w.loc
                      ELSE IF c > w.prevCheck THEN w.prevLoc
                      ELSE DescendTo(p, key, c, Root)]

\* grn_pat_add_internal_find: the location and the check of a new node, or the
\* node that has the key.
add_find(p, key) ==
    LET w == Descend(p, key, Start)
        id == At(p, w.loc)
        found == KeyOf(p, IF id = NIL THEN w.id ELSE id)
        c == Difference(key, found)
        same == c = w.check /\ id = NIL
    IN  IF At(p, Root) = NIL
        THEN [id |-> NIL, loc |-> Root, check |-> PAT_CHECK_PACK(Len(key) - 1, Bits - 1, 0)]
        ELSE IF id # NIL /\ found = key THEN [id |-> id]
        ELSE [id |-> NIL,
              check |-> IF same /\ c < check_max(key) - 2 THEN c + 2 ELSE c,
              loc |-> IF same \/ c >= w.check THEN w.loc
                      ELSE IF c > w.prevCheck THEN w.prevLoc
                      ELSE DescendTo(p, key, c, Root)]

\* grn_pat_enable_node.
enable_node(p, id, key, check, loc) ==
    LET side == Side(key, check)
        n == [lr |-> [d \in {Left, Right} |-> IF d = side THEN id ELSE At(p, loc)],
              check |-> check, deleting |-> FALSE, key |-> key]
    IN  SetAt([p EXCEPT !.node[id] = n], loc, id)

key_storage_size(key) == IF Len(key) <= EmbeddableSize THEN 0 ELSE Len(key)

\* grn_pat_nextid.
next_id(p, key) ==
    LET g == p.garbages[key_storage_size(key)] IN IF g # NIL THEN g ELSE p.curr_rec + 1

\* grn_pat_add_internal.  A check beyond the key is refused as a bug.
add(p, key) ==
    LET f == add_find(p, key)
        id == next_id(p, key)
        size == key_storage_size(key)
        q == IF p.garbages[size] # NIL
             THEN [p EXCEPT !.garbages[size] = p.node[id].lr[Left], !.n_garbages = @ - 1]
             ELSE [p EXCEPT !.curr_rec = id]
    IN  IF f.id # NIL \/ f.check >= check_max(key) THEN p
        ELSE enable_node([q EXCEPT !.n_entries = @ + 1], id, key, f.check, f.loc)

-----------------------------------------------------------------------------
(***************************************************************************)
(* The ring of deletion infos, as the sequence of those in it, the newest  *)
(* first: curr_del and curr_del3 are its ends and curr_del2 is n2 from the *)
(* newest.                                                                 *)
(***************************************************************************)

\* delinfo_search; 0 if there is none.
delinfo_search(p, id) ==
    LET found == {i \in 1..p.n2 : /\ p.delinfos[i].stat = "phase1"
                                  /\ p.delinfos[i].ld = id \/ p.delinfos[i].d = id}
    IN  IF found = {} THEN 0 ELSE CHOOSE i \in found : \A j \in found : j <= i

\* Where the tree refers to d, on the way to d's key.
Nowhere == <<0, Left>>
RECURSIVE LocationOf(_, _, _, _)
LocationOf(p, d, loc, c0) ==
    LET r == At(p, loc)
        key == KeyOf(p, d)
    IN  IF r = NIL THEN Nowhere
        ELSE IF r = d THEN loc
        ELSE IF Check(p, r) <= c0 \/ check_max(key) <= Check(p, r) THEN Nowhere
        ELSE LocationOf(p, d, <<r, Side(key, Check(p, r))>>, Check(p, r))

\* delinfo_turn_2: ld takes the place of d in the tree.
delinfo_turn_2(p, i) ==
    LET di == p.delinfos[i]
        q == [p EXCEPT !.node[di.ld].deleting = FALSE, !.node[di.d].deleting = FALSE,
                       !.delinfos[i] = Phase2(di.d)]
        loc == LocationOf(q, di.d, Root, -1)
        moved == [q EXCEPT !.node[di.ld].check = Check(q, di.d),
                           !.node[di.ld].lr = q.node[di.d].lr]
    IN  IF di.stat # "phase1" THEN p
        ELSE IF loc = Nowhere THEN q
        ELSE SetAt(moved, loc, di.ld)

\* delinfo_turn_3: d goes to the garbage; what else is in its node is not read
\* again.
delinfo_turn_3(p, i) ==
    LET d == p.delinfos[i].d
        size == key_storage_size(KeyOf(p, d))
    IN  IF p.delinfos[i].stat # "phase2" THEN p
        ELSE [p EXCEPT !.garbages[size] = d,
                       !.node[d] = [EmptyNode EXCEPT !.lr[Left] = p.garbages[size]]]

\* Mutant: the info after the oldest is turned.
SecondTurnOfNext(p) ==
    IF p.n2 + 1 > p.ring \div 2
    THEN [delinfo_turn_2(p, p.n2 - 1) EXCEPT !.n2 = @ - 1] ELSE p

\* All but half of the ring is past its second turn.
SecondTurn(p) ==
    IF p.n2 + 1 > p.ring \div 2
    THEN [delinfo_turn_2(p, p.n2) EXCEPT !.n2 = @ - 1] ELSE p

\* The oldest leaves a full ring.
ThirdTurn(p) ==
    IF Len(p.delinfos) + 1 = p.ring
    THEN [delinfo_turn_3(p, p.ring - 1) EXCEPT !.delinfos = SubSeq(@, 1, p.ring - 2)]
    ELSE p

delinfo_new(p) ==
    [ThirdTurn(SecondTurn(p)) EXCEPT !.delinfos = <<EmptyInfo>> \o @, !.n2 = @ + 1]

-----------------------------------------------------------------------------
(***************************************************************************)
(* Deletion.                                                               *)
(***************************************************************************)
\* The loop of _grn_pat_del stops where the key's node is an output, or fails.
RECURSIVE DescendToOutput(_, _, _)
DescendToOutput(p, key, w) ==
    LET id == At(p, w.loc)
    IN  IF id # NIL /\ Check(p, id) < check_max(key) /\ w.check < Check(p, id)
        THEN DescendToOutput(p, key, Down(p, key, w))
        ELSE w

\* Mutant: the check of the other side is left as it is.
KeepOutputNot(p, o, w, check0) == p

\* The other side, otherside, stands in for the node before: it has to stay an
\* output, and to point to itself if it is the first node.
KeepOutput(p, o, w, check0) ==
    LET c == Check(p, o)
    IN  IF check0 < c /\ c <= w.check THEN [p EXCEPT !.node[o].check = 0] ELSE p

FirstNode(p, o, w) ==
    LET side == nth_bit(KeyOf(p, o), 0)
    IN  IF w.prevLoc = Root /\ Check(p, o) = 0
        THEN [p EXCEPT !.node[o].lr = [d \in {Left, Right} |-> IF d = side THEN o ELSE NIL]]
        ELSE p

\* The other side takes the place of the node before.  check0 is a uint16_t.
PutOtherSide(p, o, w) ==
    LET check0 == w.prevCheck % 65536
    IN  SetAt(IF o = NIL THEN p ELSE FirstNode(KeepOutput(p, o, w, check0), o, w),
              w.prevLoc, o)

\* The new deletion info, and those of the node and of the node before it.
SetInfos(p, id, previous) ==
    LET ldi == IF p.node[id].deleting THEN delinfo_search(p, id) ELSE 0
        ddi == IF p.node[previous].deleting THEN delinfo_search(p, previous) ELSE 0
        deleting(q, a, b) == [q EXCEPT !.node[id].deleting = a, !.node[previous].deleting = b]
        retire(q) == [q EXCEPT !.delinfos[ddi] = Phase2(@.d)]
        info(q, di) == [q EXCEPT !.delinfos[1] = di]
    IN  CASE ldi # 0 /\ ddi = ldi -> info(retire(deleting(p, FALSE, FALSE)), Phase2(id))
          [] ldi # 0 /\ ddi \notin {0, ldi} ->
               [info(retire(deleting(p, FALSE, FALSE)), Phase2(id))
                   EXCEPT !.delinfos[ldi].ld = p.delinfos[ddi].ld]
          [] ldi # 0 /\ ddi = 0 ->
               [info(deleting(p, FALSE, TRUE), Phase2(id)) EXCEPT !.delinfos[ldi].ld = previous]
          [] ldi = 0 /\ ddi # 0 ->
               info(retire(deleting(p, TRUE, FALSE)), Phase1(id, p.delinfos[ddi].ld))
          [] ldi = 0 /\ ddi = 0 -> info(deleting(p, TRUE, TRUE), Phase1(id, previous))

\* grn_pat_del_internal.
del_internal(p, id, w) ==
    LET previous == w.id
        lr == p.node[previous].lr
        o == IF lr[Right] = id THEN lr[Left] ELSE lr[Right]
        alone == \E d \in {Left, Right} : p.node[id].lr[d] = NIL /\ p.node[id].lr[1 - d] = id
        gone(q) == [q EXCEPT !.delinfos[1] = Phase2(id)]
        marked == SetInfos(p, id, previous)
        q == CASE id = previous -> PutOtherSide(gone(p), o, w)
               [] id # previous /\ alone -> SetAt(gone(p), w.loc, NIL)
               [] id # previous /\ ~alone /\ previous = o ->
                    FirstNode([marked EXCEPT !.node[o].check = 0], o, w)
               [] OTHER -> PutOtherSide(marked, o, w)
    IN  [q EXCEPT !.n_garbages = @ + 1, !.n_entries = @ - 1]

\* _grn_pat_del: the ring turns whether or not the key is found.
del(p, key) ==
    LET q == delinfo_new(p)
        w == DescendToOutput(q, key, Start)
        id == At(q, w.loc)
        found == id # NIL /\ Check(q, id) < check_max(key) /\ KeyOf(q, id) = key
        same == q.node[w.id].lr[Left] = q.node[w.id].lr[Right]
    IN  IF found /\ ~same THEN del_internal(q, id, w) ELSE q
=============================================================================
