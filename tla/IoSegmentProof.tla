--------------------------- MODULE IoSegmentProof ----------------------------
(***************************************************************************)
(* Proofs about IoSegment for any number of references and expirers and    *)
(* any range of the counter that they cannot exhaust.                      *)
(***************************************************************************)
EXTENDS IoSegment, FiniteSetTheorems, TLAPS

FirstPc == {"look_first", "map", "x_claim"} \cup ClaimingPc
ExpiringPc == {"x_unmap", "x_clear", "x_release"}
InUsePc == {"look_first", "look", "back_map", "map", "count", "hold"}

\* At most one thread is working on what it saw at nref = 0.
OneFirst == \A s, t \in All : pc[s] \in FirstPc /\ pc[t] \in FirstPc => s = t

\* A claim that succeeded excludes every reference that did not see it.
ExpiringAlone ==
    \A s, t \in All : pc[s] \in ExpiringPc => pc[t] \notin InUsePc

\* info->map points nowhere only between GRN_MUNMAP and the assignment after it.
DanglingIsCleared == map = "dangling" => \E e \in All : pc[e] = "x_clear"

\* The inductive invariant.
IInv ==
    /\ TypeOK
    /\ NrefCounts
    /\ ~astray => OneFirst /\ ExpiringAlone /\ DanglingIsCleared
    /\ OneMapper
    /\ RefIsMapped

-----------------------------------------------------------------------------
(***************************************************************************)
(* Counting.                                                               *)
(***************************************************************************)
\* Arithmetic of the counter modulo its width, at most one wrap away.
LEMMA WordMod ==
    ASSUME NEW m \in Nat, NEW x \in Nat, x < 2 * m
    PROVE  x % m = IF x < m THEN x ELSE x - m
  <1>1. CASE x < m
    BY <1>1
  <1>2. CASE x >= m
    <2>1. x - m \in Nat /\ x - m < m
      BY <1>2
    <2> QED
      BY <1>2, <2>1
  <1> QED
    BY <1>1, <1>2

LEMMA PlusIs ==
    ASSUME NEW n \in Nat, nref \in Nat, Word \in Nat, nref + n < 2 * Word
    PROVE  Plus(n) = IF nref + n < Word THEN nref + n ELSE nref + n - Word
  <1>1. PICK x \in Nat : x = nref + n
    OBVIOUS
  <1>2. x % Word = IF x < Word THEN x ELSE x - Word
    BY <1>1, WordMod
  <1> QED
    BY <1>1, <1>2 DEF Plus

LEMMA AllFinite ==
    /\ IsFiniteSet(All)
    /\ Cardinality(All) \in Nat
    /\ Cardinality(All) < MaxRef
  <1>1. IsFiniteSet(Threads \cap Expirers) /\ Cardinality(Threads \cap Expirers) = 0
    BY ThreadsAssumption, FS_EmptySet
  <1>2. /\ IsFiniteSet(All)
        /\ Cardinality(All) = Cardinality(Threads) + Cardinality(Expirers)
                                - Cardinality(Threads \cap Expirers)
    BY ThreadsAssumption, FS_Union DEF All
  <1>3. Cardinality(Threads) \in Nat /\ Cardinality(Expirers) \in Nat
    BY ThreadsAssumption, FS_CardinalityType
  <1> QED
    BY <1>1, <1>2, <1>3, MaxRefAssumption

LEMMA CountType ==
    ASSUME NEW S \in SUBSET All
    PROVE  /\ IsFiniteSet(S)
           /\ Cardinality(S) \in Nat
           /\ Cardinality(S) <= Cardinality(All)
  BY AllFinite, FS_Subset, FS_CardinalityType

\* How many are at a set of places after one has moved.
LEMMA Moved ==
    ASSUME TypeOK, NEW S, NEW t \in All, NEW p, Goto(t, p)
    PROVE  Cardinality(At(S))' = Cardinality(At(S)) + (IF p \in S THEN 1 ELSE 0)
                                    - (IF pc[t] \in S THEN 1 ELSE 0)
  <1> DEFINE A == At(S)
  <1>1. A \in SUBSET All
    BY DEF At
  <1>2. A' = IF p \in S THEN A \cup {t} ELSE A \ {t}
    BY DEF At, Goto, TypeOK
  <1>3. t \in A <=> pc[t] \in S
    BY DEF At
  <1>4. IsFiniteSet(A) /\ Cardinality(A) \in Nat
    BY <1>1, CountType
  <1> HIDE DEF A
  <1>5. CASE p \in S /\ pc[t] \in S
    <2>1. A' = A
      BY <1>2, <1>3, <1>5
    <2> QED
      BY <2>1, <1>4, <1>5 DEF A
  <1>6. CASE p \notin S /\ pc[t] \notin S
    <2>1. A' = A
      BY <1>2, <1>3, <1>6
    <2> QED
      BY <2>1, <1>4, <1>6 DEF A
  <1>7. CASE p \in S /\ pc[t] \notin S
    <2>1. Cardinality(A') = Cardinality(A) + 1
      BY <1>2, <1>3, <1>4, <1>7, FS_AddElement
    <2> QED
      BY <2>1, <1>4, <1>7 DEF A
  <1>8. CASE p \notin S /\ pc[t] \in S
    <2>1. Cardinality(A') = Cardinality(A) - 1
      BY <1>2, <1>3, <1>4, <1>8, FS_RemoveElement
    <2> QED
      BY <2>1, <1>4, <1>8 DEF A
  <1> QED
    BY <1>5, <1>6, <1>7, <1>8

\* At most one claims, and the counter shows it: it is 0 when nobody is
\* counted, and at least GRN_IO_MAX_REF when somebody claims.
LEMMA Counts ==
    ASSUME IInv, ~astray
    PROVE  /\ Cardinality(Counted) \in Nat /\ Cardinality(Counted) < MaxRef
           /\ Cardinality(Claiming) \in {0, 1}
           /\ Claiming = {} <=> Cardinality(Claiming) = 0
           /\ nref = Cardinality(Counted)
                        + (IF Cardinality(Claiming) = 0 THEN 0 ELSE MaxRef)
           /\ nref = 0 => Counted = {}
           /\ nref < MaxRef => Claiming = {}
  <1>1. Counted \in SUBSET All /\ Claiming \in SUBSET All
    BY DEF Counted, Claiming, At
  <1>2. /\ Cardinality(Counted) \in Nat
        /\ Cardinality(Counted) < MaxRef
        /\ IsFiniteSet(Counted)
        /\ IsFiniteSet(Claiming)
    BY <1>1, CountType, AllFinite, MaxRefAssumption
  <1>3. /\ Cardinality(Claiming) \in {0, 1}
        /\ Claiming = {} <=> Cardinality(Claiming) = 0
    <2>1. CASE Claiming = {}
      BY <2>1, FS_EmptySet
    <2>2. CASE Claiming # {}
      <3>1. PICK e : e \in Claiming
        BY <2>2
      <3>2. Claiming = {e}
        BY <3>1 DEF IInv, OneFirst, FirstPc, Claiming, At
      <3>3. Cardinality({e}) = 1
        BY FS_Singleton
      <3> QED
        BY <2>2, <3>2, <3>3
    <2> QED
      BY <2>1, <2>2
  <1>4. nref = Cardinality(Counted) + (IF Cardinality(Claiming) = 0 THEN 0 ELSE MaxRef)
    <2>1. nref = Cardinality(Counted) + MaxRef * Cardinality(Claiming)
      BY DEF IInv, NrefCounts
    <2>2. MaxRef * 0 = 0 /\ MaxRef * 1 = MaxRef
      BY MaxRefAssumption
    <2> QED
      BY <1>2, <1>3, <2>1, <2>2, MaxRefAssumption
  <1>5. nref = 0 => Counted = {}
    <2>1. Cardinality(Counted) = 0 => Counted = {}
      BY <1>2, FS_EmptySet
    <2> QED
      BY <1>2, <1>4, <2>1, MaxRefAssumption
  <1>6. nref < MaxRef => Claiming = {}
    BY <1>2, <1>3, <1>4, MaxRefAssumption
  <1> QED
    BY <1>2, <1>3, <1>4, <1>5, <1>6

LEMMA CountsNext ==
    /\ Cardinality(Counted)' \in Nat
    /\ Cardinality(Counted)' < MaxRef
  <1>1. Counted' \in SUBSET All
    BY DEF Counted, At
  <1> QED
    BY <1>1, CountType, AllFinite, MaxRefAssumption

\* What an addition to nref does, by where the thread moves: the five ways in
\* which every action moves a thread.
LEMMA Keeps ==
    ASSUME IInv, ~astray, NEW t \in All, NEW p, Goto(t, p), nref' = nref,
           pc[t] \in CountedPc <=> p \in CountedPc,
           pc[t] \in ClaimingPc <=> p \in ClaimingPc
    PROVE  nref' \in 0 .. Word - 1 /\ NrefCounts'
  <1>1. TypeOK
    BY DEF IInv
  <1>2. Cardinality(Counted)' = Cardinality(Counted)
    BY <1>1, Moved, Counts DEF Counted
  <1>3. Cardinality(Claiming)' = Cardinality(Claiming)
    BY <1>1, Moved, Counts DEF Claiming
  <1>4. nref' \in 0 .. Word - 1
    BY <1>1 DEF TypeOK
  <1> QED
    BY <1>2, <1>3, <1>4 DEF IInv, NrefCounts

LEMMA Gains ==
    ASSUME IInv, ~astray, NEW t \in All, NEW p, Goto(t, p), nref' = Plus(1),
           pc[t] \notin CountedPc, p \in CountedPc, p \notin ClaimingPc
    PROVE  nref' \in 0 .. Word - 1 /\ NrefCounts'
  <1>1. TypeOK
    BY DEF IInv
  <1>2. Cardinality(Counted)' = Cardinality(Counted) + 1
    <2>1. /\ pc[t] \in ClaimingPc => pc[t] \in CountedPc
          /\ p \in ClaimingPc => p \in CountedPc
      BY DEF CountedPc, ClaimingPc
    <2> QED
      BY <1>1, <2>1, Moved, Counts DEF Counted
  <1>3. Cardinality(Claiming) \in {0, 1} /\ pc[t] \notin ClaimingPc
    BY Counts DEF Claiming, At, CountedPc, ClaimingPc
  <1>4. Cardinality(Claiming)' = Cardinality(Claiming)
    BY <1>1, <1>3, Moved, Counts DEF Claiming
  <1>5. /\ 1 \in Nat /\ nref \in Nat /\ Word \in Nat
        /\ nref + 1 < 2 * Word
    BY Counts, MaxRefAssumption DEF Word
  <1>6. nref' = IF nref + 1 < Word THEN nref + 1 ELSE nref + 1 - Word
    BY <1>5, PlusIs
  <1>7. nref' = Cardinality(Counted)' + (IF Cardinality(Claiming)' = 0 THEN 0 ELSE MaxRef)
    BY <1>2, <1>3, <1>4, <1>6, Counts, CountsNext, MaxRefAssumption DEF Word
  <1>8. MaxRef * 0 = 0 /\ MaxRef * 1 = MaxRef
    BY MaxRefAssumption
  <1>9. nref' \in 0 .. Word - 1
    BY <1>7, CountsNext, MaxRefAssumption DEF Word
  <1>10. Cardinality(Claiming)' \in {0, 1}
    BY <1>3, <1>4, Counts
  <1> QED
    BY <1>7, <1>8, <1>9, <1>10, CountsNext, MaxRefAssumption DEF NrefCounts

LEMMA Loses ==
    ASSUME IInv, ~astray, NEW t \in All, NEW p, Goto(t, p), nref' = Plus((Word - 1)),
           pc[t] \in CountedPc, pc[t] \notin ClaimingPc, p \notin CountedPc
    PROVE  nref' \in 0 .. Word - 1 /\ NrefCounts'
  <1>1. TypeOK
    BY DEF IInv
  <1>2. Cardinality(Counted)' = Cardinality(Counted) - 1
    <2>1. /\ pc[t] \in ClaimingPc => pc[t] \in CountedPc
          /\ p \in ClaimingPc => p \in CountedPc
      BY DEF CountedPc, ClaimingPc
    <2> QED
      BY <1>1, <2>1, Moved, Counts DEF Counted
  <1>3. Cardinality(Claiming) \in {0, 1} /\ p \notin ClaimingPc
    BY Counts DEF Claiming, At, CountedPc, ClaimingPc
  <1>4. Cardinality(Claiming)' = Cardinality(Claiming)
    BY <1>1, <1>3, Moved, Counts DEF Claiming
  <1>5. /\ (Word - 1) \in Nat /\ nref \in Nat /\ Word \in Nat
        /\ nref + (Word - 1) < 2 * Word
    BY Counts, MaxRefAssumption DEF Word
  <1>6. nref' = IF nref + (Word - 1) < Word THEN nref + (Word - 1) ELSE nref + (Word - 1) - Word
    BY <1>5, PlusIs
  <1>7. nref' = Cardinality(Counted)' + (IF Cardinality(Claiming)' = 0 THEN 0 ELSE MaxRef)
    BY <1>2, <1>3, <1>4, <1>6, Counts, CountsNext, MaxRefAssumption DEF Word
  <1>8. MaxRef * 0 = 0 /\ MaxRef * 1 = MaxRef
    BY MaxRefAssumption
  <1>9. nref' \in 0 .. Word - 1
    BY <1>7, CountsNext, MaxRefAssumption DEF Word
  <1>10. Cardinality(Claiming)' \in {0, 1}
    BY <1>3, <1>4, Counts
  <1> QED
    BY <1>7, <1>8, <1>9, <1>10, CountsNext, MaxRefAssumption DEF NrefCounts

LEMMA Claims ==
    ASSUME IInv, ~astray, NEW t \in All, NEW p, Goto(t, p), nref' = Plus(MaxRef),
           pc[t] \in CountedPc, pc[t] \notin ClaimingPc, p \in ClaimingPc, Claiming = {}
    PROVE  nref' \in 0 .. Word - 1 /\ NrefCounts'
  <1>1. TypeOK
    BY DEF IInv
  <1>2. Cardinality(Counted)' = Cardinality(Counted)
    <2>1. /\ pc[t] \in ClaimingPc => pc[t] \in CountedPc
          /\ p \in ClaimingPc => p \in CountedPc
      BY DEF CountedPc, ClaimingPc
    <2> QED
      BY <1>1, <2>1, Moved, Counts DEF Counted
  <1>3. Cardinality(Claiming) = 0
    BY Counts DEF Claiming, At, CountedPc, ClaimingPc
  <1>4. Cardinality(Claiming)' = 1
    BY <1>1, <1>3, Moved, Counts DEF Claiming
  <1>5. /\ MaxRef \in Nat /\ nref \in Nat /\ Word \in Nat
        /\ nref + MaxRef < 2 * Word
    BY Counts, MaxRefAssumption DEF Word
  <1>6. nref' = IF nref + MaxRef < Word THEN nref + MaxRef ELSE nref + MaxRef - Word
    BY <1>5, PlusIs
  <1>7. nref' = Cardinality(Counted)' + (IF Cardinality(Claiming)' = 0 THEN 0 ELSE MaxRef)
    BY <1>2, <1>3, <1>4, <1>6, Counts, CountsNext, MaxRefAssumption DEF Word
  <1>8. MaxRef * 0 = 0 /\ MaxRef * 1 = MaxRef
    BY MaxRefAssumption
  <1>9. nref' \in 0 .. Word - 1
    BY <1>7, CountsNext, MaxRefAssumption DEF Word
  <1>10. Cardinality(Claiming)' \in {0, 1}
    BY <1>3, <1>4, Counts
  <1> QED
    BY <1>7, <1>8, <1>9, <1>10, CountsNext, MaxRefAssumption DEF NrefCounts

LEMMA Releases ==
    ASSUME IInv, ~astray, NEW t \in All, NEW p, Goto(t, p), nref' = Plus((MaxRef - 1)),
           pc[t] \in ClaimingPc, p \notin CountedPc
    PROVE  nref' \in 0 .. Word - 1 /\ NrefCounts'
  <1>1. TypeOK
    BY DEF IInv
  <1>2. Cardinality(Counted)' = Cardinality(Counted) - 1
    <2>1. /\ pc[t] \in ClaimingPc => pc[t] \in CountedPc
          /\ p \in ClaimingPc => p \in CountedPc
      BY DEF CountedPc, ClaimingPc
    <2> QED
      BY <1>1, <2>1, Moved, Counts DEF Counted
  <1>3. Cardinality(Claiming) = 1 /\ p \notin ClaimingPc
    BY Counts DEF Claiming, At, CountedPc, ClaimingPc
  <1>4. Cardinality(Claiming)' = 0
    BY <1>1, <1>3, Moved, Counts DEF Claiming
  <1>5. /\ (MaxRef - 1) \in Nat /\ nref \in Nat /\ Word \in Nat
        /\ nref + (MaxRef - 1) < 2 * Word
    BY Counts, MaxRefAssumption DEF Word
  <1>6. nref' = IF nref + (MaxRef - 1) < Word THEN nref + (MaxRef - 1) ELSE nref + (MaxRef - 1) - Word
    BY <1>5, PlusIs
  <1>7. nref' = Cardinality(Counted)' + (IF Cardinality(Claiming)' = 0 THEN 0 ELSE MaxRef)
    BY <1>2, <1>3, <1>4, <1>6, Counts, CountsNext, MaxRefAssumption DEF Word
  <1>8. MaxRef * 0 = 0 /\ MaxRef * 1 = MaxRef
    BY MaxRefAssumption
  <1>9. nref' \in 0 .. Word - 1
    BY <1>7, CountsNext, MaxRefAssumption DEF Word
  <1>10. Cardinality(Claiming)' \in {0, 1}
    BY <1>3, <1>4, Counts
  <1> QED
    BY <1>7, <1>8, <1>9, <1>10, CountsNext, MaxRefAssumption DEF NrefCounts

-----------------------------------------------------------------------------
(***************************************************************************)
(* What one thread's move has to respect for the invariant to be kept.     *)
(***************************************************************************)
NrefOK == nref \in 0 .. Word - 1

\* t may go to p: nobody else is where p or the mapping would not allow it.
MayGo(t, p) ==
    /\ p \in FirstPc => \A u \in All \ {t} : pc[u] \notin FirstPc
    /\ p \in ExpiringPc => \A u \in All \ {t} : pc[u] \notin InUsePc
    /\ p \in InUsePc => \A u \in All \ {t} : pc[u] \notin ExpiringPc

\* The mapping suits t at p, and everyone else where he is.
MapSuits(t, p) ==
    /\ map' \in {"null", "mapped", "dangling"}
    /\ map' = "dangling" => p = "x_clear" \/ (map = "dangling" /\ pc[t] # "x_clear")
    /\ p = "map" => map' = "null"
    /\ p \in {"count", "hold"} => map' = "mapped"
    /\ \A u \in All \ {t} : /\ pc[u] = "map" => map' = "null"
                            /\ pc[u] \in {"count", "hold"} => map' = "mapped"

\* The fields the invariant says little about keep their types.
RestOK == nmaps \in Int /\ retry \in [All -> Nat] /\ astray \in BOOLEAN

PcFits(t, p) == (t \in Threads /\ p \in RefPc) \/ (t \in Expirers /\ p \in ExpirePc)

LEMMA Move ==
    ASSUME IInv, ~astray, NEW t \in All, NEW p, Goto(t, p),
           PcFits(t, p), RestOK', NrefOK', NrefCounts', ~astray',
           MayGo(t, p), MapSuits(t, p)
    PROVE  IInv'
  <1>1. \A u \in All : pc'[u] = IF u = t THEN p ELSE pc[u]
    BY DEF IInv, TypeOK, Goto
  <1>2. TypeOK'
    <2>1. pc' \in [All -> RefPc \cup ExpirePc]
      BY DEF IInv, TypeOK, Goto, PcFits
    <2>2. \A u \in Threads : pc'[u] \in RefPc
      BY <1>1, ThreadsAssumption DEF IInv, TypeOK, All, PcFits
    <2>3. \A u \in Expirers : pc'[u] \in ExpirePc
      BY <1>1, ThreadsAssumption DEF IInv, TypeOK, All, PcFits
    <2> QED
      BY <2>1, <2>2, <2>3 DEF TypeOK, NrefOK, RestOK, MapSuits
  <1>3. OneFirst'
    BY <1>1 DEF IInv, OneFirst, MayGo
  <1>4. ExpiringAlone'
    <2>1. p \in ExpiringPc => p \notin InUsePc
      BY DEF ExpiringPc, InUsePc
    <2> QED
      BY <1>1, <2>1 DEF IInv, ExpiringAlone, MayGo
  <1>5. DanglingIsCleared'
    BY <1>1 DEF IInv, DanglingIsCleared, MapSuits
  <1>6. \A u \in All : /\ pc'[u] = "map" => map' = "null"
                       /\ pc'[u] \in {"count", "hold"} => map' = "mapped"
    BY <1>1 DEF MapSuits
  <1>7. OneMapper'
    <2>1. \A u \in Threads : pc'[u] = "map" => map' = "null"
      BY <1>6 DEF All
    <2>2. \A u, v \in Threads : pc'[u] = "map" /\ pc'[v] = "map" => u = v
      BY <1>3 DEF OneFirst, FirstPc, All
    <2> QED
      BY <2>1, <2>2 DEF OneMapper
  <1>8. RefIsMapped'
    BY <1>6 DEF RefIsMapped, All
  <1> QED
    BY <1>2, <1>3, <1>4, <1>5, <1>7, <1>8 DEF IInv, NrefCounts

\* A step that leads astray only has to keep the types.
LEMMA MoveAstray ==
    ASSUME IInv, NEW t \in Threads, NEW p \in RefPc, Goto(t, p), RestOK', NrefOK',
           map' = map, astray' = TRUE
    PROVE  IInv'
  <1>1. pc' \in [All -> RefPc \cup ExpirePc]
    BY DEF IInv, TypeOK, Goto, All
  <1>2. /\ \A u \in Threads : pc'[u] \in RefPc
        /\ \A u \in Expirers : pc'[u] \in ExpirePc
    BY ThreadsAssumption DEF IInv, TypeOK, Goto, All
  <1>3. TypeOK'
    BY <1>1, <1>2 DEF IInv, TypeOK, RestOK, NrefOK
  <1> QED
    BY <1>3 DEF IInv, NrefCounts, OneMapper, RefIsMapped

\* The others, seen from a counter that is 0 or that shows no claim.
LEMMA NobodyCounted ==
    ASSUME IInv, ~astray, nref = 0
    PROVE  \A u \in All : pc[u] \notin CountedPc
  BY Counts DEF Counted, At

LEMMA NobodyClaims ==
    ASSUME IInv, ~astray, nref < MaxRef
    PROVE  \A u \in All : pc[u] \notin ClaimingPc
  BY Counts DEF Claiming, At

\* The mapping suits everyone where he is.
LEMMA MapNow ==
    ASSUME IInv, ~astray
    PROVE  /\ map \in {"null", "mapped", "dangling"}
           /\ map = "dangling" => \E e \in All : pc[e] = "x_clear"
           /\ \A u \in All : /\ pc[u] = "map" => map = "null"
                             /\ pc[u] \in {"count", "hold"} => map = "mapped"
  <1>1. \A u \in Expirers : pc[u] \notin {"map", "count", "hold"}
    BY DEF IInv, TypeOK, ExpirePc
  <1>2. \A u \in All : /\ pc[u] = "map" => map = "null"
                       /\ pc[u] \in {"count", "hold"} => map = "mapped"
    BY <1>1 DEF IInv, OneMapper, RefIsMapped, All
  <1>3. map \in {"null", "mapped", "dangling"}
    BY DEF IInv, TypeOK
  <1>4. map = "dangling" => \E e \in All : pc[e] = "x_clear"
    BY DEF IInv, DanglingIsCleared
  <1> QED
    BY <1>2, <1>3, <1>4

\* A mapping that does not change suits everyone if it suits t.
LEMMA MapStays ==
    ASSUME IInv, ~astray, NEW t \in All, NEW p, map' = map, pc[t] # "x_clear",
           p = "map" => map = "null",
           p \in {"count", "hold"} => map = "mapped"
    PROVE  MapSuits(t, p)
  BY MapNow DEF MapSuits

-----------------------------------------------------------------------------
(***************************************************************************)
(* Every action keeps the invariant.                                       *)
(***************************************************************************)
LEMMA RefKeeps ==
    ASSUME IInv, ~astray, NEW t \in Threads, Ref(t)
    PROVE  IInv'
  <1>1. t \in All /\ PcFits(t, "add") /\ Goto(t, "add") /\ ~astray'
    BY DEF Ref, All, PcFits, RefPc
  <1>2. NrefOK' /\ NrefCounts'
    BY <1>1, Keeps DEF Ref, NrefOK, CountedPc, ClaimingPc
  <1>3. RestOK'
    BY <1>1 DEF Ref, IInv, TypeOK, RestOK
  <1>4. MayGo(t, "add")
    BY <1>1 DEF Ref, MayGo, IInv, OneFirst, ExpiringAlone, CountedPc, ClaimingPc, FirstPc, ExpiringPc, InUsePc
  <1>5. MapSuits(t, "add")
    BY <1>1, MapNow, MapStays DEF Ref
  <1> QED
    BY <1>1, <1>2, <1>3, <1>4, <1>5, Move

LEMMA RefCountKeeps ==
    ASSUME IInv, ~astray, NEW t \in Threads, RefCount(t)
    PROVE  IInv'
  <1>1. t \in All /\ PcFits(t, "hold") /\ Goto(t, "hold") /\ ~astray'
    BY DEF RefCount, All, PcFits, RefPc
  <1>2. NrefOK' /\ NrefCounts'
    BY <1>1, Keeps DEF RefCount, NrefOK, CountedPc, ClaimingPc
  <1>3. RestOK'
    BY <1>1 DEF RefCount, IInv, TypeOK, RestOK
  <1>4. MayGo(t, "hold")
    BY <1>1 DEF RefCount, MayGo, IInv, OneFirst, ExpiringAlone, CountedPc, ClaimingPc, FirstPc, ExpiringPc, InUsePc
  <1>5. MapSuits(t, "hold")
    BY <1>1, MapNow, MapStays DEF RefCount
  <1> QED
    BY <1>1, <1>2, <1>3, <1>4, <1>5, Move

LEMMA UnrefKeeps ==
    ASSUME IInv, ~astray, NEW t \in Threads, Unref(t)
    PROVE  IInv'
  <1>1. t \in All /\ PcFits(t, "idle") /\ Goto(t, "idle") /\ ~astray'
    BY DEF Unref, All, PcFits, RefPc
  <1>2. NrefOK' /\ NrefCounts'
    BY <1>1, Loses DEF Unref, NrefOK, CountedPc, ClaimingPc
  <1>3. RestOK'
    BY <1>1 DEF Unref, IInv, TypeOK, RestOK
  <1>4. MayGo(t, "idle")
    BY <1>1 DEF Unref, MayGo, IInv, OneFirst, ExpiringAlone, CountedPc, ClaimingPc, FirstPc, ExpiringPc, InUsePc
  <1>5. MapSuits(t, "idle")
    BY <1>1, MapNow, MapStays DEF Unref
  <1> QED
    BY <1>1, <1>2, <1>3, <1>4, <1>5, Move

LEMMA ExpireKeeps ==
    ASSUME IInv, ~astray, NEW e \in Expirers, Expire(e)
    PROVE  IInv'
  <1>1. e \in All /\ PcFits(e, "x_add") /\ Goto(e, "x_add") /\ ~astray'
    BY DEF Expire, All, PcFits, ExpirePc
  <1>2. NrefOK' /\ NrefCounts'
    BY <1>1, Keeps DEF Expire, NrefOK, CountedPc, ClaimingPc
  <1>3. RestOK'
    BY <1>1 DEF Expire, IInv, TypeOK, RestOK
  <1>4. MayGo(e, "x_add")
    BY <1>1 DEF Expire, MayGo, IInv, OneFirst, ExpiringAlone, CountedPc, ClaimingPc, FirstPc, ExpiringPc, InUsePc
  <1>5. MapSuits(e, "x_add")
    BY <1>1, MapNow, MapStays DEF Expire
  <1> QED
    BY <1>1, <1>2, <1>3, <1>4, <1>5, Move

LEMMA ExpireBackKeeps ==
    ASSUME IInv, ~astray, NEW e \in Expirers, ExpireBack(e)
    PROVE  IInv'
  <1>1. e \in All /\ PcFits(e, "idle") /\ Goto(e, "idle") /\ ~astray'
    BY DEF ExpireBack, All, PcFits, ExpirePc
  <1>2. NrefOK' /\ NrefCounts'
    BY <1>1, Loses DEF ExpireBack, NrefOK, CountedPc, ClaimingPc
  <1>3. RestOK'
    BY <1>1 DEF ExpireBack, IInv, TypeOK, RestOK
  <1>4. MayGo(e, "idle")
    BY <1>1 DEF ExpireBack, MayGo, IInv, OneFirst, ExpiringAlone, CountedPc, ClaimingPc, FirstPc, ExpiringPc, InUsePc
  <1>5. MapSuits(e, "idle")
    BY <1>1, MapNow, MapStays DEF ExpireBack
  <1> QED
    BY <1>1, <1>2, <1>3, <1>4, <1>5, Move

LEMMA ExpireUndoKeeps ==
    ASSUME IInv, ~astray, NEW e \in Expirers, ExpireUndo(e)
    PROVE  IInv'
  <1>1. e \in All /\ PcFits(e, "idle") /\ Goto(e, "idle") /\ ~astray'
    BY DEF ExpireUndo, All, PcFits, ExpirePc
  <1>2. NrefOK' /\ NrefCounts'
    BY <1>1, Releases DEF ExpireUndo, NrefOK, CountedPc, ClaimingPc
  <1>3. RestOK'
    BY <1>1 DEF ExpireUndo, IInv, TypeOK, RestOK
  <1>4. MayGo(e, "idle")
    BY <1>1 DEF ExpireUndo, MayGo, IInv, OneFirst, ExpiringAlone, CountedPc, ClaimingPc, FirstPc, ExpiringPc, InUsePc
  <1>5. MapSuits(e, "idle")
    BY <1>1, MapNow, MapStays DEF ExpireUndo
  <1> QED
    BY <1>1, <1>2, <1>3, <1>4, <1>5, Move

LEMMA ExpireReleaseKeeps ==
    ASSUME IInv, ~astray, NEW e \in Expirers, ExpireRelease(e)
    PROVE  IInv'
  <1>1. e \in All /\ PcFits(e, "x_count") /\ Goto(e, "x_count") /\ ~astray'
    BY DEF ExpireRelease, All, PcFits, ExpirePc
  <1>2. NrefOK' /\ NrefCounts'
    BY <1>1, Releases DEF ExpireRelease, NrefOK, CountedPc, ClaimingPc
  <1>3. RestOK'
    BY <1>1 DEF ExpireRelease, IInv, TypeOK, RestOK
  <1>4. MayGo(e, "x_count")
    BY <1>1 DEF ExpireRelease, MayGo, IInv, OneFirst, ExpiringAlone, CountedPc, ClaimingPc, FirstPc, ExpiringPc, InUsePc
  <1>5. MapSuits(e, "x_count")
    BY <1>1, MapNow, MapStays DEF ExpireRelease
  <1> QED
    BY <1>1, <1>2, <1>3, <1>4, <1>5, Move

LEMMA ExpireCountKeeps ==
    ASSUME IInv, ~astray, NEW e \in Expirers, ExpireCount(e)
    PROVE  IInv'
  <1>1. e \in All /\ PcFits(e, "idle") /\ Goto(e, "idle") /\ ~astray'
    BY DEF ExpireCount, All, PcFits, ExpirePc
  <1>2. NrefOK' /\ NrefCounts'
    BY <1>1, Keeps DEF ExpireCount, NrefOK, CountedPc, ClaimingPc
  <1>3. RestOK'
    BY <1>1 DEF ExpireCount, IInv, TypeOK, RestOK
  <1>4. MayGo(e, "idle")
    BY <1>1 DEF ExpireCount, MayGo, IInv, OneFirst, ExpiringAlone, CountedPc, ClaimingPc, FirstPc, ExpiringPc, InUsePc
  <1>5. MapSuits(e, "idle")
    BY <1>1, MapNow, MapStays DEF ExpireCount
  <1> QED
    BY <1>1, <1>2, <1>3, <1>4, <1>5, Move

LEMMA RefAddKeeps ==
    ASSUME IInv, ~astray, NEW t \in Threads, RefAdd(t)
    PROVE  IInv'
  <1>0. nref \in Nat /\ MaxRef \in Nat /\ MaxRef > 0
    BY AllFinite, MaxRefAssumption DEF IInv, TypeOK, Word
  <1>1. CASE nref >= MaxRef
    <2>1. t \in All /\ PcFits(t, "back_max") /\ Goto(t, "back_max") /\ ~astray'
      BY <1>0, <1>1 DEF RefAdd, All, PcFits, RefPc
    <2>2. NrefOK' /\ NrefCounts'
      BY <1>0, <1>1, <2>1, Gains DEF RefAdd, NrefOK, CountedPc, ClaimingPc
    <2>3. RestOK'
      BY <1>0, <1>1, <2>1 DEF RefAdd, IInv, TypeOK, RestOK
    <2>4. MayGo(t, "back_max")
      BY <1>0, <1>1, <2>1, NobodyCounted DEF RefAdd, MayGo, IInv, OneFirst, ExpiringAlone, CountedPc, ClaimingPc, FirstPc, ExpiringPc, InUsePc
    <2>5. MapSuits(t, "back_max")
      BY <1>0, <1>1, <2>1, MapNow, MapStays DEF RefAdd
    <2> QED
      BY <2>1, <2>2, <2>3, <2>4, <2>5, Move
  <1>2. CASE nref = 0
    <2>1. t \in All /\ PcFits(t, "look_first") /\ Goto(t, "look_first") /\ ~astray'
      BY <1>0, <1>2 DEF RefAdd, All, PcFits, RefPc
    <2>2. NrefOK' /\ NrefCounts'
      BY <1>0, <1>2, <2>1, Gains DEF RefAdd, NrefOK, CountedPc, ClaimingPc
    <2>3. RestOK'
      BY <1>0, <1>2, <2>1 DEF RefAdd, IInv, TypeOK, RestOK
    <2>4. MayGo(t, "look_first")
      BY <1>0, <1>2, <2>1, NobodyCounted DEF RefAdd, MayGo, IInv, OneFirst, ExpiringAlone, CountedPc, ClaimingPc, FirstPc, ExpiringPc, InUsePc
    <2>5. MapSuits(t, "look_first")
      BY <1>0, <1>2, <2>1, MapNow, MapStays DEF RefAdd
    <2> QED
      BY <2>1, <2>2, <2>3, <2>4, <2>5, Move
  <1>3. CASE nref < MaxRef /\ nref # 0
    <2>1. t \in All /\ PcFits(t, "look") /\ Goto(t, "look") /\ ~astray'
      BY <1>0, <1>3 DEF RefAdd, All, PcFits, RefPc
    <2>2. NrefOK' /\ NrefCounts'
      BY <1>0, <1>3, <2>1, NobodyClaims, Gains DEF RefAdd, NrefOK, CountedPc, ClaimingPc
    <2>3. RestOK'
      BY <1>0, <1>3, <2>1 DEF RefAdd, IInv, TypeOK, RestOK
    <2>4. MayGo(t, "look")
      BY <1>0, <1>3, <2>1, NobodyClaims, NobodyCounted DEF RefAdd, MayGo, IInv, OneFirst, ExpiringAlone, CountedPc, ClaimingPc, FirstPc, ExpiringPc, InUsePc
    <2>5. MapSuits(t, "look")
      BY <1>0, <1>3, <2>1, MapNow, MapStays DEF RefAdd
    <2> QED
      BY <2>1, <2>2, <2>3, <2>4, <2>5, Move
  <1> QED
    BY <1>0, <1>1, <1>2, <1>3

LEMMA RefBackMaxKeeps ==
    ASSUME IInv, ~astray, NEW t \in Threads, RefBackMax(t)
    PROVE  IInv'
  <1>0. retry[t] \in Nat /\ MaxRetry \in Nat /\ t \in All
    BY MaxRetryAssumption DEF IInv, TypeOK, All
  <1>1. CASE retry[t] >= MaxRetry
    <2>1. /\ nref' = 0 /\ astray' = TRUE /\ Goto(t, "ret")
          /\ retry' = retry /\ map' = map /\ nmaps' = nmaps
      BY <1>0, <1>1 DEF RefBackMax
    <2>2. NrefOK'
      BY <2>1, AllFinite, MaxRefAssumption DEF NrefOK, Word
    <2>3. RestOK'
      BY <2>1 DEF IInv, TypeOK, RestOK
    <2>4. "ret" \in RefPc
      BY DEF RefPc
    <2> QED
      BY <2>1, <2>2, <2>3, <2>4, MoveAstray
  <1>2. CASE retry[t] < MaxRetry
    <2>1. t \in All /\ PcFits(t, "add") /\ Goto(t, "add") /\ ~astray'
      BY <1>0, <1>2 DEF RefBackMax, All, PcFits, RefPc, TryAgain
    <2>2. NrefOK' /\ NrefCounts'
      BY <1>0, <1>2, <2>1, Loses DEF RefBackMax, NrefOK, CountedPc, ClaimingPc
    <2>3. RestOK'
      BY <1>0, <1>2, <2>1 DEF RefBackMax, IInv, TypeOK, RestOK, TryAgain
    <2>4. MayGo(t, "add")
      BY <1>0, <1>2, <2>1 DEF RefBackMax, MayGo, IInv, OneFirst, ExpiringAlone, CountedPc, ClaimingPc, FirstPc, ExpiringPc, InUsePc
    <2>5. MapSuits(t, "add")
      BY <1>0, <1>2, <2>1, MapNow, MapStays DEF RefBackMax
    <2> QED
      BY <2>1, <2>2, <2>3, <2>4, <2>5, Move
  <1> QED
    BY <1>0, <1>1, <1>2

LEMMA RefLookKeeps ==
    ASSUME IInv, ~astray, NEW t \in Threads, RefLook(t)
    PROVE  IInv'
  <1>1. CASE map # "null"
    <2>1. t \in All /\ PcFits(t, "hold") /\ Goto(t, "hold") /\ ~astray'
      BY <1>1 DEF RefLook, All, PcFits, RefPc
    <2>2. NrefOK' /\ NrefCounts'
      BY <1>1, <2>1, Keeps DEF RefLook, NrefOK, CountedPc, ClaimingPc
    <2>3. RestOK'
      BY <1>1, <2>1 DEF RefLook, IInv, TypeOK, RestOK
    <2>4. MayGo(t, "hold")
      BY <1>1, <2>1 DEF RefLook, MayGo, IInv, OneFirst, ExpiringAlone, CountedPc, ClaimingPc, FirstPc, ExpiringPc, InUsePc
    <2>5. map = "mapped"
      <3>1. \A e \in All : pc[e] # "x_clear"
        BY <2>1 DEF RefLook, IInv, ExpiringAlone, ExpiringPc, InUsePc
      <3> QED
        BY <1>1, <3>1, MapNow
    <2>6. MapSuits(t, "hold")
      BY <1>1, <2>1, <2>5, MapStays DEF RefLook
    <2> QED
      BY <2>1, <2>2, <2>3, <2>4, <2>6, Move
  <1>2. CASE map = "null" /\ pc[t] = "look_first"
    <2>1. t \in All /\ PcFits(t, "map") /\ Goto(t, "map") /\ ~astray'
      BY <1>2 DEF RefLook, All, PcFits, RefPc
    <2>2. NrefOK' /\ NrefCounts'
      BY <1>2, <2>1, Keeps DEF RefLook, NrefOK, CountedPc, ClaimingPc
    <2>3. RestOK'
      BY <1>2, <2>1 DEF RefLook, IInv, TypeOK, RestOK
    <2>4. MayGo(t, "map")
      BY <1>2, <2>1 DEF RefLook, MayGo, IInv, OneFirst, ExpiringAlone, CountedPc, ClaimingPc, FirstPc, ExpiringPc, InUsePc
    <2>5. MapSuits(t, "map")
      BY <1>2, <2>1, MapNow, MapStays DEF RefLook
    <2> QED
      BY <2>1, <2>2, <2>3, <2>4, <2>5, Move
  <1>3. CASE map = "null" /\ pc[t] = "look"
    <2>1. t \in All /\ PcFits(t, "back_map") /\ Goto(t, "back_map") /\ ~astray'
      BY <1>3 DEF RefLook, All, PcFits, RefPc
    <2>2. NrefOK' /\ NrefCounts'
      BY <1>3, <2>1, Keeps DEF RefLook, NrefOK, CountedPc, ClaimingPc
    <2>3. RestOK'
      BY <1>3, <2>1 DEF RefLook, IInv, TypeOK, RestOK
    <2>4. MayGo(t, "back_map")
      BY <1>3, <2>1 DEF RefLook, MayGo, IInv, OneFirst, ExpiringAlone, CountedPc, ClaimingPc, FirstPc, ExpiringPc, InUsePc
    <2>5. MapSuits(t, "back_map")
      BY <1>3, <2>1, MapNow, MapStays DEF RefLook
    <2> QED
      BY <2>1, <2>2, <2>3, <2>4, <2>5, Move
  <1> QED
    BY <1>1, <1>2, <1>3 DEF RefLook

LEMMA RefBackMapKeeps ==
    ASSUME IInv, ~astray, NEW t \in Threads, RefBackMap(t)
    PROVE  IInv'
  <1>0. retry[t] \in Nat /\ MaxRetry \in Nat /\ t \in All
    BY MaxRetryAssumption DEF IInv, TypeOK, All
  <1>1. CASE retry[t] >= MaxRetry
    <2>1. t \in All /\ PcFits(t, "ret") /\ Goto(t, "ret") /\ ~astray'
      BY <1>0, <1>1 DEF RefBackMap, All, PcFits, RefPc, TryAgain
    <2>2. NrefOK' /\ NrefCounts'
      BY <1>0, <1>1, <2>1, Loses DEF RefBackMap, NrefOK, CountedPc, ClaimingPc
    <2>3. RestOK'
      BY <1>0, <1>1, <2>1 DEF RefBackMap, IInv, TypeOK, RestOK, TryAgain
    <2>4. MayGo(t, "ret")
      BY <1>0, <1>1, <2>1 DEF RefBackMap, MayGo, IInv, OneFirst, ExpiringAlone, CountedPc, ClaimingPc, FirstPc, ExpiringPc, InUsePc
    <2>5. MapSuits(t, "ret")
      BY <1>0, <1>1, <2>1, MapNow, MapStays DEF RefBackMap
    <2> QED
      BY <2>1, <2>2, <2>3, <2>4, <2>5, Move
  <1>2. CASE retry[t] < MaxRetry
    <2>1. t \in All /\ PcFits(t, "add") /\ Goto(t, "add") /\ ~astray'
      BY <1>0, <1>2 DEF RefBackMap, All, PcFits, RefPc, TryAgain
    <2>2. NrefOK' /\ NrefCounts'
      BY <1>0, <1>2, <2>1, Loses DEF RefBackMap, NrefOK, CountedPc, ClaimingPc
    <2>3. RestOK'
      BY <1>0, <1>2, <2>1 DEF RefBackMap, IInv, TypeOK, RestOK, TryAgain
    <2>4. MayGo(t, "add")
      BY <1>0, <1>2, <2>1 DEF RefBackMap, MayGo, IInv, OneFirst, ExpiringAlone, CountedPc, ClaimingPc, FirstPc, ExpiringPc, InUsePc
    <2>5. MapSuits(t, "add")
      BY <1>0, <1>2, <2>1, MapNow, MapStays DEF RefBackMap
    <2> QED
      BY <2>1, <2>2, <2>3, <2>4, <2>5, Move
  <1> QED
    BY <1>0, <1>1, <1>2

LEMMA RefMapKeeps ==
    ASSUME IInv, ~astray, NEW t \in Threads, RefMap(t)
    PROVE  IInv'
  <1>1. CASE map' = "mapped" /\ Goto(t, "count") /\ UNCHANGED nref
    <2>1. t \in All /\ PcFits(t, "count") /\ Goto(t, "count") /\ ~astray'
      BY <1>1 DEF RefMap, All, PcFits, RefPc
    <2>2. NrefOK' /\ NrefCounts'
      BY <1>1, <2>1, Keeps DEF RefMap, NrefOK, CountedPc, ClaimingPc
    <2>3. RestOK'
      BY <1>1, <2>1 DEF RefMap, IInv, TypeOK, RestOK
    <2>4. MayGo(t, "count")
      BY <1>1, <2>1 DEF RefMap, MayGo, IInv, OneFirst, ExpiringAlone, CountedPc, ClaimingPc, FirstPc, ExpiringPc, InUsePc
    <2>5. MapSuits(t, "count")
      <3>1. \A u \in All \ {t} : pc[u] # "map"
        BY <2>1 DEF RefMap, IInv, OneFirst, FirstPc
      <3> QED
        BY <1>1, <3>1 DEF MapSuits
    <2> QED
      BY <2>1, <2>2, <2>3, <2>4, <2>5, Move
  <1>2. CASE nref' = Plus(Word - 1) /\ Goto(t, "ret") /\ UNCHANGED map
    <2>1. t \in All /\ PcFits(t, "ret") /\ Goto(t, "ret") /\ ~astray'
      BY <1>2 DEF RefMap, All, PcFits, RefPc
    <2>2. NrefOK' /\ NrefCounts'
      BY <1>2, <2>1, Loses DEF RefMap, NrefOK, CountedPc, ClaimingPc
    <2>3. RestOK'
      BY <1>2, <2>1 DEF RefMap, IInv, TypeOK, RestOK
    <2>4. MayGo(t, "ret")
      BY <1>2, <2>1 DEF RefMap, MayGo, IInv, OneFirst, ExpiringAlone, CountedPc, ClaimingPc, FirstPc, ExpiringPc, InUsePc
    <2>5. MapSuits(t, "ret")
      BY <1>2, <2>1, MapNow, MapStays DEF RefMap
    <2> QED
      BY <2>1, <2>2, <2>3, <2>4, <2>5, Move
  <1> QED
    BY <1>1, <1>2 DEF RefMap

LEMMA RefReturnKeeps ==
    ASSUME IInv, ~astray, NEW t \in Threads, RefReturn(t)
    PROVE  IInv'
  <1>1. CASE map = "null"
    <2>1. t \in All /\ PcFits(t, "idle") /\ Goto(t, "idle") /\ ~astray'
      BY <1>1 DEF RefReturn, All, PcFits, RefPc
    <2>2. NrefOK' /\ NrefCounts'
      BY <1>1, <2>1, Keeps DEF RefReturn, NrefOK, CountedPc, ClaimingPc
    <2>3. RestOK'
      BY <1>1, <2>1 DEF RefReturn, IInv, TypeOK, RestOK
    <2>4. MayGo(t, "idle")
      BY <1>1, <2>1 DEF RefReturn, MayGo, IInv, OneFirst, ExpiringAlone, CountedPc, ClaimingPc, FirstPc, ExpiringPc, InUsePc
    <2>5. MapSuits(t, "idle")
      BY <1>1, <2>1, MapNow, MapStays DEF RefReturn
    <2> QED
      BY <2>1, <2>2, <2>3, <2>4, <2>5, Move
  <1>2. CASE map # "null"
    <2>1. /\ nref' = nref /\ astray' = TRUE /\ Goto(t, "hold") /\ "hold" \in RefPc
          /\ retry' = retry /\ map' = map /\ nmaps' = nmaps
      BY <1>2 DEF RefReturn, RefPc
    <2>2. NrefOK'
      BY <2>1 DEF NrefOK, IInv, TypeOK
    <2>3. RestOK'
      BY <2>1 DEF IInv, TypeOK, RestOK
    <2> QED
      BY <2>1, <2>2, <2>3, MoveAstray
  <1> QED
    BY <1>1, <1>2

LEMMA ExpireAddKeeps ==
    ASSUME IInv, ~astray, NEW e \in Expirers, ExpireAdd(e)
    PROVE  IInv'
  <1>1. CASE nref # 0
    <2>1. e \in All /\ PcFits(e, "x_back") /\ Goto(e, "x_back") /\ ~astray'
      BY <1>1 DEF ExpireAdd, All, PcFits, ExpirePc
    <2>2. NrefOK' /\ NrefCounts'
      BY <1>1, <2>1, Gains DEF ExpireAdd, NrefOK, CountedPc, ClaimingPc
    <2>3. RestOK'
      BY <1>1, <2>1 DEF ExpireAdd, IInv, TypeOK, RestOK
    <2>4. MayGo(e, "x_back")
      BY <1>1, <2>1, NobodyCounted DEF ExpireAdd, MayGo, IInv, OneFirst, ExpiringAlone, CountedPc, ClaimingPc, FirstPc, ExpiringPc, InUsePc
    <2>5. MapSuits(e, "x_back")
      BY <1>1, <2>1, MapNow, MapStays DEF ExpireAdd
    <2> QED
      BY <2>1, <2>2, <2>3, <2>4, <2>5, Move
  <1>2. CASE nref = 0
    <2>1. e \in All /\ PcFits(e, "x_claim") /\ Goto(e, "x_claim") /\ ~astray'
      BY <1>2 DEF ExpireAdd, All, PcFits, ExpirePc
    <2>2. NrefOK' /\ NrefCounts'
      BY <1>2, <2>1, Gains DEF ExpireAdd, NrefOK, CountedPc, ClaimingPc
    <2>3. RestOK'
      BY <1>2, <2>1 DEF ExpireAdd, IInv, TypeOK, RestOK
    <2>4. MayGo(e, "x_claim")
      BY <1>2, <2>1, NobodyCounted DEF ExpireAdd, MayGo, IInv, OneFirst, ExpiringAlone, CountedPc, ClaimingPc, FirstPc, ExpiringPc, InUsePc
    <2>5. MapSuits(e, "x_claim")
      BY <1>2, <2>1, MapNow, MapStays DEF ExpireAdd
    <2> QED
      BY <2>1, <2>2, <2>3, <2>4, <2>5, Move
  <1> QED
    BY <1>1, <1>2

LEMMA ExpireClaimKeeps ==
    ASSUME IInv, ~astray, NEW e \in Expirers, ExpireClaim(e)
    PROVE  IInv'
  <1>0. /\ nref \in Nat /\ e \in All /\ Claiming = {}
        /\ nref <= 1 => \A u \in All \ {e} : pc[u] \notin CountedPc
    <2>1. nref \in Nat /\ e \in All
      BY MaxRefAssumption DEF IInv, TypeOK, Word, All
    <2>2. Claiming = {}
      BY <2>1 DEF ExpireClaim, IInv, OneFirst, FirstPc, Claiming, At, ClaimingPc
    <2>3. ASSUME nref <= 1, NEW u \in All \ {e}, pc[u] \in CountedPc
          PROVE  FALSE
      <3>1. {e, u} \in SUBSET Counted
        BY <2>1, <2>3 DEF ExpireClaim, Counted, At, CountedPc
      <3>2. Cardinality({e, u}) = 2
        <4>1. IsFiniteSet({e}) /\ Cardinality({e}) = 1
          BY FS_Singleton
        <4>2. Cardinality({e} \cup {u}) = Cardinality({e}) + 1
          BY <2>3, <4>1, FS_AddElement
        <4>3. {e} \cup {u} = {e, u}
          OBVIOUS
        <4> QED
          BY <4>1, <4>2, <4>3
      <3>3. IsFiniteSet(Counted)
        <4>1. Counted \in SUBSET All
          BY DEF Counted, At
        <4> QED
          BY <4>1, CountType
      <3>4. Cardinality({e, u}) <= Cardinality(Counted)
        BY <3>1, <3>3, FS_Subset
      <3>5. Cardinality(Claiming) = 0
        BY <2>2, FS_EmptySet
      <3>6. nref = Cardinality(Counted) /\ Cardinality(Counted) \in Nat
        BY <3>5, Counts
      <3> QED
        BY <2>3, <3>2, <3>4, <3>6
    <2> QED
      BY <2>1, <2>2, <2>3
  <1>1. CASE nref > 1
    <2>1. e \in All /\ PcFits(e, "x_undo") /\ Goto(e, "x_undo") /\ ~astray'
      BY <1>0, <1>1 DEF ExpireClaim, All, PcFits, ExpirePc
    <2>2. NrefOK' /\ NrefCounts'
      BY <1>0, <1>1, <2>1, Claims DEF ExpireClaim, NrefOK, CountedPc, ClaimingPc
    <2>3. RestOK'
      BY <1>0, <1>1, <2>1 DEF ExpireClaim, IInv, TypeOK, RestOK
    <2>4. MayGo(e, "x_undo")
      BY <1>0, <1>1, <2>1 DEF ExpireClaim, MayGo, IInv, OneFirst, ExpiringAlone, CountedPc, ClaimingPc, FirstPc, ExpiringPc, InUsePc
    <2>5. MapSuits(e, "x_undo")
      BY <1>1, <2>1, MapNow, MapStays DEF ExpireClaim
    <2> QED
      BY <2>1, <2>2, <2>3, <2>4, <2>5, Move
  <1>2. CASE nref <= 1
    <2>1. e \in All /\ PcFits(e, "x_unmap") /\ Goto(e, "x_unmap") /\ ~astray'
      BY <1>0, <1>2 DEF ExpireClaim, All, PcFits, ExpirePc
    <2>2. NrefOK' /\ NrefCounts'
      BY <1>0, <1>2, <2>1, Claims DEF ExpireClaim, NrefOK, CountedPc, ClaimingPc
    <2>3. RestOK'
      BY <1>0, <1>2, <2>1 DEF ExpireClaim, IInv, TypeOK, RestOK
    <2>4. MayGo(e, "x_unmap")
      BY <1>0, <1>2, <2>1 DEF ExpireClaim, MayGo, IInv, OneFirst, ExpiringAlone, CountedPc, ClaimingPc, FirstPc, ExpiringPc, InUsePc
    <2>5. MapSuits(e, "x_unmap")
      BY <1>2, <2>1, MapNow, MapStays DEF ExpireClaim
    <2> QED
      BY <2>1, <2>2, <2>3, <2>4, <2>5, Move
  <1> QED
    BY <1>0, <1>1, <1>2

LEMMA ExpireUnmapKeeps ==
    ASSUME IInv, ~astray, NEW e \in Expirers, ExpireUnmap(e)
    PROVE  IInv'
  <1>1. CASE map' = (IF map = "null" THEN map ELSE "dangling") /\ Goto(e, "x_clear")
    <2>1. e \in All /\ PcFits(e, "x_clear") /\ Goto(e, "x_clear") /\ ~astray'
      BY <1>1 DEF ExpireUnmap, All, PcFits, ExpirePc
    <2>2. NrefOK' /\ NrefCounts'
      BY <1>1, <2>1, Keeps DEF ExpireUnmap, NrefOK, CountedPc, ClaimingPc
    <2>3. RestOK'
      BY <1>1, <2>1 DEF ExpireUnmap, IInv, TypeOK, RestOK
    <2>4. MayGo(e, "x_clear")
      BY <1>1, <2>1 DEF ExpireUnmap, MayGo, IInv, OneFirst, ExpiringAlone, CountedPc, ClaimingPc, FirstPc, ExpiringPc, InUsePc
    <2>5. MapSuits(e, "x_clear")
      <3>1. \A u \in All \ {e} : pc[u] \notin {"map", "count", "hold"}
        BY <2>1 DEF ExpireUnmap, IInv, ExpiringAlone, ExpiringPc, InUsePc
      <3> QED
        BY <1>1, <3>1, MapNow DEF MapSuits
    <2> QED
      BY <2>1, <2>2, <2>3, <2>4, <2>5, Move
  <1>2. CASE UNCHANGED map /\ Goto(e, "x_undo")
    <2>1. e \in All /\ PcFits(e, "x_undo") /\ Goto(e, "x_undo") /\ ~astray'
      BY <1>2 DEF ExpireUnmap, All, PcFits, ExpirePc
    <2>2. NrefOK' /\ NrefCounts'
      BY <1>2, <2>1, Keeps DEF ExpireUnmap, NrefOK, CountedPc, ClaimingPc
    <2>3. RestOK'
      BY <1>2, <2>1 DEF ExpireUnmap, IInv, TypeOK, RestOK
    <2>4. MayGo(e, "x_undo")
      BY <1>2, <2>1 DEF ExpireUnmap, MayGo, IInv, OneFirst, ExpiringAlone, CountedPc, ClaimingPc, FirstPc, ExpiringPc, InUsePc
    <2>5. MapSuits(e, "x_undo")
      BY <1>2, <2>1, MapNow, MapStays DEF ExpireUnmap
    <2> QED
      BY <2>1, <2>2, <2>3, <2>4, <2>5, Move
  <1> QED
    BY <1>1, <1>2 DEF ExpireUnmap

LEMMA ExpireClearKeeps ==
    ASSUME IInv, ~astray, NEW e \in Expirers, ExpireClear(e)
    PROVE  IInv'
  <1>1. e \in All /\ PcFits(e, "x_release") /\ Goto(e, "x_release") /\ ~astray'
    BY DEF ExpireClear, All, PcFits, ExpirePc
  <1>2. NrefOK' /\ NrefCounts'
    BY <1>1, Keeps DEF ExpireClear, NrefOK, CountedPc, ClaimingPc
  <1>3. RestOK'
    BY <1>1 DEF ExpireClear, IInv, TypeOK, RestOK
  <1>4. MayGo(e, "x_release")
    BY <1>1 DEF ExpireClear, MayGo, IInv, OneFirst, ExpiringAlone, CountedPc, ClaimingPc, FirstPc, ExpiringPc, InUsePc
  <1>5. MapSuits(e, "x_release")
    <2>1. \A u \in All \ {e} : pc[u] \notin {"map", "count", "hold"}
      BY <1>1 DEF ExpireClear, IInv, ExpiringAlone, ExpiringPc, InUsePc
    <2> QED
      BY <2>1 DEF ExpireClear, MapSuits
  <1> QED
    BY <1>1, <1>2, <1>3, <1>4, <1>5, Move

-----------------------------------------------------------------------------
LEMMA InitIInv == Init => IInv
  <1> SUFFICES ASSUME Init PROVE IInv
    OBVIOUS
  <1>1. TypeOK
    <2>1. nref \in 0 .. Word - 1
      BY AllFinite, MaxRefAssumption DEF Init, Word
    <2>2. pc \in [All -> RefPc \cup ExpirePc] /\ "idle" \in RefPc /\ "idle" \in ExpirePc
      BY DEF Init, RefPc, ExpirePc
    <2>3. /\ \A t \in Threads : pc[t] \in RefPc
          /\ \A e \in Expirers : pc[e] \in ExpirePc
      BY <2>2 DEF Init, All
    <2>4. retry \in [All -> Nat] /\ nmaps \in Int
      BY DEF Init
    <2>5. map \in {"null", "mapped", "dangling"}
      BY DEF Init
    <2>6. astray \in BOOLEAN
      BY DEF Init
    <2> QED
      BY <2>1, <2>2, <2>3, <2>4, <2>5, <2>6 DEF TypeOK
  <1>2. NrefCounts
    <2>1. Counted = {} /\ Claiming = {}
      BY DEF Init, Counted, Claiming, At, CountedPc, ClaimingPc
    <2>2. MaxRef * 0 = 0
      BY MaxRefAssumption
    <2> QED
      BY <2>1, <2>2, FS_EmptySet DEF Init, NrefCounts
  <1>3. OneFirst /\ ExpiringAlone /\ DanglingIsCleared
    BY DEF Init, OneFirst, ExpiringAlone, DanglingIsCleared, CountedPc, ClaimingPc, FirstPc, ExpiringPc, InUsePc
  <1>4. OneMapper /\ RefIsMapped
    BY DEF Init, OneMapper, RefIsMapped, All
  <1> QED
    BY <1>1, <1>2, <1>3, <1>4 DEF IInv

LEMMA NextIInv == IInv /\ [Next]_vars => IInv'
  <1> SUFFICES ASSUME IInv, [Next]_vars PROVE IInv'
    OBVIOUS
  <1>1. ASSUME ~astray, NEW t \in Threads, Reference(t) PROVE IInv'
    BY <1>1, RefKeeps, RefAddKeeps, RefBackMaxKeeps, RefLookKeeps, RefBackMapKeeps,
       RefMapKeeps, RefCountKeeps, RefReturnKeeps, UnrefKeeps DEF Reference
  <1>2. ASSUME ~astray, NEW e \in Expirers, Expiry(e) PROVE IInv'
    BY <1>2, ExpireKeeps, ExpireAddKeeps, ExpireBackKeeps, ExpireClaimKeeps,
       ExpireUndoKeeps, ExpireUnmapKeeps, ExpireClearKeeps, ExpireReleaseKeeps,
       ExpireCountKeeps DEF Expiry
  <1>3. CASE UNCHANGED vars
    BY <1>3 DEF vars, IInv, TypeOK, NrefCounts, OneFirst, ExpiringAlone,
       DanglingIsCleared, OneMapper, RefIsMapped, Counted, Claiming, At
  <1> QED
    BY <1>1, <1>2, <1>3 DEF Next

LEMMA Inductive == Spec => []IInv
  BY InitIInv, NextIInv, PTL DEF Spec

\* The counter never leaves the range of its word: reset_max_ref_by_overflow
\* really takes back GRN_IO_MAX_REF and 1.
THEOREM SegmentTypeCorrect == Spec => []TypeOK
  BY Inductive, PTL DEF IInv

\* However many threads reference and expire, no increment of grn_io_seg_ref or
\* grn_io_seg_expire is lost or left behind in nref.
THEOREM NrefCorrect == Spec => []NrefCounts
  BY Inductive, PTL DEF IInv

\* grn_io_seg_map_ is never called by two threads at once, nor over a mapping.
THEOREM MappedOnce == Spec => []OneMapper
  BY Inductive, PTL DEF IInv

\* However many threads expire it, a segment that grn_io_seg_ref returned stays
\* mapped until grn_io_seg_unref.
THEOREM NeverUnmappedInUse == Spec => []RefIsMapped
  BY Inductive, PTL DEF IInv

-----------------------------------------------------------------------------
(***************************************************************************)
(* The number of mappings.  One expirer is enough to keep it exact: what   *)
(* it saw at its first look at info->map is still there when it unmaps.    *)
(***************************************************************************)
Mappings == IF map = "null" THEN 0 ELSE 1
Uncounted == Cardinality(At({"count"}))
Unmapped == Cardinality(At({"x_release", "x_count"}))

NmapsSum == nmaps = Mappings - Uncounted + Unmapped

\* The expirer found a mapping, and has not removed it.
ExpirerSeesMap ==
    \A e \in Expirers :
        pc[e] \in {"x_add", "x_back", "x_claim", "x_undo", "x_unmap", "x_clear"}
            => map # "null"

NmapsInv == ~astray => ExpirerSeesMap /\ NmapsSum

LEMMA SumOf ==
    ASSUME NEW n \in Int, NEW n1 \in Int, NEW m \in Int, NEW m1 \in Int, NEW a \in Int,
           NEW b \in Int, NEW c \in Int, NEW d \in Int,
           n = m - a + b, n1 - n = m1 - m - c + d
    PROVE  n1 = m1 - (a + c) + (b + d)
  OBVIOUS

\* What moving one thread does to the sum.
LEMMA NmapsMoved ==
    ASSUME TypeOK, NmapsSum, NEW t \in All, NEW p, Goto(t, p), nmaps' \in Int,
           nmaps' - nmaps = Mappings' - Mappings
                - ((IF p = "count" THEN 1 ELSE 0) - (IF pc[t] = "count" THEN 1 ELSE 0))
                + ((IF p \in {"x_release", "x_count"} THEN 1 ELSE 0)
                    - (IF pc[t] \in {"x_release", "x_count"} THEN 1 ELSE 0))
    PROVE  NmapsSum'
  <1>1. Uncounted' = Uncounted + (IF p = "count" THEN 1 ELSE 0)
                        - (IF pc[t] = "count" THEN 1 ELSE 0)
    <2>1. \A x : x \in {"count"} <=> x = "count"
      OBVIOUS
    <2> QED
      BY <2>1, Moved DEF Uncounted
  <1>2. Unmapped' = Unmapped + (IF p \in {"x_release", "x_count"} THEN 1 ELSE 0)
                        - (IF pc[t] \in {"x_release", "x_count"} THEN 1 ELSE 0)
    BY Moved DEF Unmapped
  <1>3. Uncounted \in Nat /\ Unmapped \in Nat
    <2>1. At({"count"}) \in SUBSET All /\ At({"x_release", "x_count"}) \in SUBSET All
      BY DEF At
    <2> QED
      BY <2>1, CountType DEF Uncounted, Unmapped
  <1>4. nmaps \in Int /\ Mappings \in Int /\ Mappings' \in Int
    BY DEF TypeOK, Mappings
  <1> DEFINE dc == (IF p = "count" THEN 1 ELSE 0) - (IF pc[t] = "count" THEN 1 ELSE 0)
             dr == (IF p \in {"x_release", "x_count"} THEN 1 ELSE 0)
                    - (IF pc[t] \in {"x_release", "x_count"} THEN 1 ELSE 0)
  <1>5. dc \in Int /\ dr \in Int
    OBVIOUS
  <1>6. Uncounted' = Uncounted + dc
    BY <1>1, <1>3
  <1>7. Unmapped' = Unmapped + dr
    BY <1>2, <1>3
  <1>8. nmaps' - nmaps = Mappings' - Mappings - dc + dr
    OBVIOUS
  <1> HIDE DEF dc, dr
  <1>9. nmaps' = Mappings' - (Uncounted + dc) + (Unmapped + dr)
    <2>1. nmaps = Mappings - Uncounted + Unmapped /\ Uncounted \in Int /\ Unmapped \in Int
      BY <1>3 DEF NmapsSum
    <2>2. PICK n \in Int, m \in Int, m1 \in Int, a \in Int, b \in Int, c \in Int, d \in Int :
            /\ n = nmaps /\ m = Mappings /\ m1 = Mappings'
            /\ a = Uncounted /\ b = Unmapped /\ c = dc /\ d = dr
      BY <1>4, <1>5, <2>1
    <2>3. PICK n1 \in Int : n1 = nmaps'
      OBVIOUS
    <2>4. n = m - a + b /\ n1 - n = m1 - m - c + d
      BY <1>8, <2>1, <2>2, <2>3
    <2>5. n1 = m1 - (a + c) + (b + d)
      BY <2>4, SumOf
    <2> QED
      BY <2>2, <2>3, <2>5
  <1> QED
    BY <1>6, <1>7, <1>9 DEF NmapsSum

\* A move that neither maps, unmaps nor counts.
LEMMA NmapsKept ==
    ASSUME TypeOK, NmapsSum, NEW t \in All, NEW p, Goto(t, p), nmaps' = nmaps,
           map' = "null" <=> map = "null",
           p = "count" <=> pc[t] = "count",
           p \in {"x_release", "x_count"} <=> pc[t] \in {"x_release", "x_count"}
    PROVE  NmapsSum'
  <1>1. nmaps \in Int /\ Mappings' = Mappings /\ Mappings \in Int
    BY DEF TypeOK, Mappings
  <1>2. nmaps' - nmaps = Mappings' - Mappings
                - ((IF p = "count" THEN 1 ELSE 0) - (IF pc[t] = "count" THEN 1 ELSE 0))
                + ((IF p \in {"x_release", "x_count"} THEN 1 ELSE 0)
                    - (IF pc[t] \in {"x_release", "x_count"} THEN 1 ELSE 0))
    BY <1>1
  <1> QED
    BY <1>1, <1>2, NmapsMoved

LEMMA ReferenceNmaps ==
    ASSUME IInv, ~astray, ExpirerSeesMap, NmapsSum, NEW t \in Threads, Reference(t)
    PROVE  ~astray' => ExpirerSeesMap' /\ NmapsSum'
  <1> SUFFICES ASSUME ~astray' PROVE ExpirerSeesMap' /\ NmapsSum'
    OBVIOUS
  <1>0. TypeOK /\ t \in All /\ t \notin Expirers
    BY ThreadsAssumption DEF IInv, All
  <1>1. PICK p : Goto(t, p)
    BY DEF Reference, Ref, RefAdd, RefBackMax, RefLook, RefBackMap, RefMap, RefCount,
           RefReturn, Unref, TryAgain
  <1>2. ExpirerSeesMap'
    <2>1. map' # "null" \/ map' = map
      BY DEF Reference, Ref, RefAdd, RefBackMax, RefLook, RefBackMap, RefMap, RefCount,
             RefReturn, Unref
    <2>2. \A e \in Expirers : pc'[e] = pc[e]
      BY <1>0, <1>1 DEF Goto, TypeOK, All
    <2> QED
      BY <2>1, <2>2 DEF ExpirerSeesMap
  <1> SUFFICES NmapsSum'
    BY <1>2
  <1>3. CASE Ref(t)
    BY <1>0, <1>3, NmapsKept DEF Ref
  <1>4. CASE RefAdd(t)
    BY <1>0, <1>4, NmapsKept DEF RefAdd
  <1>5. CASE RefBackMax(t)
    BY <1>0, <1>5, NmapsKept DEF RefBackMax, TryAgain
  <1>6. CASE RefLook(t)
    BY <1>0, <1>6, NmapsKept DEF RefLook
  <1>7. CASE RefBackMap(t)
    BY <1>0, <1>7, NmapsKept DEF RefBackMap, TryAgain
  <1>8. CASE RefMap(t)
    <2>1. CASE map' = "mapped" /\ Goto(t, "count") /\ UNCHANGED nref
      <3>1. map = "null" /\ pc[t] = "map" /\ nmaps' = nmaps /\ nmaps \in Int
        BY <1>8 DEF RefMap, IInv, OneMapper, TypeOK
      <3>2. Mappings = 0 /\ Mappings' = 1
        BY <2>1, <3>1 DEF Mappings
      <3> QED
        BY <1>0, <2>1, <3>1, <3>2, NmapsMoved
    <2>2. CASE nref' = Plus(Word - 1) /\ Goto(t, "ret") /\ UNCHANGED map
      BY <1>0, <1>8, <2>2, NmapsKept DEF RefMap
    <2> QED
      BY <1>8, <2>1, <2>2 DEF RefMap
  <1>9. CASE RefCount(t)
    <2>1. pc[t] = "count" /\ nmaps' = nmaps + 1 /\ nmaps \in Int /\ Goto(t, "hold")
      BY <1>9 DEF RefCount, IInv, TypeOK
    <2>2. Mappings' = Mappings /\ Mappings \in Int
      BY <1>9 DEF RefCount, Mappings
    <2> QED
      BY <1>0, <2>1, <2>2, NmapsMoved
  <1>10. CASE RefReturn(t)
    BY <1>0, <1>10, NmapsKept DEF RefReturn
  <1>11. CASE Unref(t)
    BY <1>0, <1>11, NmapsKept DEF Unref
  <1> QED
    BY <1>3, <1>4, <1>5, <1>6, <1>7, <1>8, <1>9, <1>10, <1>11 DEF Reference

LEMMA ExpiryNmaps ==
    ASSUME IInv, ~astray, ExpirerSeesMap, NmapsSum, NEW e, Expirers = {e}, Expiry(e)
    PROVE  ExpirerSeesMap' /\ NmapsSum'
  <1>0. TypeOK /\ e \in All /\ e \in Expirers
    BY DEF IInv, All
  <1>1. CASE Expire(e)
    <2>1. map' # "null"
      BY <1>1 DEF Expire
    <2> QED
      BY <1>0, <1>1, <2>1, NmapsKept DEF Expire, ExpirerSeesMap
  <1>2. CASE ExpireAdd(e)
    <2>1. map' # "null"
      BY <1>0, <1>2 DEF ExpireAdd, ExpirerSeesMap
    <2> QED
      BY <1>0, <1>2, <2>1, NmapsKept DEF ExpireAdd, ExpirerSeesMap
  <1>3. CASE ExpireBack(e)
    <2>1. map' # "null"
      BY <1>0, <1>3 DEF ExpireBack, ExpirerSeesMap
    <2> QED
      BY <1>0, <1>3, <2>1, NmapsKept DEF ExpireBack, ExpirerSeesMap
  <1>4. CASE ExpireClaim(e)
    <2>1. map' # "null"
      BY <1>0, <1>4 DEF ExpireClaim, ExpirerSeesMap
    <2> QED
      BY <1>0, <1>4, <2>1, NmapsKept DEF ExpireClaim, ExpirerSeesMap
  <1>5. CASE ExpireUndo(e)
    <2>1. map' # "null"
      BY <1>0, <1>5 DEF ExpireUndo, ExpirerSeesMap
    <2> QED
      BY <1>0, <1>5, <2>1, NmapsKept DEF ExpireUndo, ExpirerSeesMap
  <1>6. CASE ExpireUnmap(e)
    <2>1. map # "null" /\ map' # "null"
      BY <1>0, <1>6 DEF ExpireUnmap, ExpirerSeesMap
    <2> QED
      BY <1>0, <1>6, <2>1, NmapsKept DEF ExpireUnmap, ExpirerSeesMap
  <1>7. CASE ExpireClear(e)
    <2>1. /\ map # "null" /\ map' = "null" /\ nmaps' = nmaps /\ nmaps \in Int
          /\ pc[e] = "x_clear" /\ Goto(e, "x_release")
      BY <1>0, <1>7 DEF ExpireClear, ExpirerSeesMap, TypeOK
    <2>2. Mappings = 1 /\ Mappings' = 0
      BY <2>1 DEF Mappings
    <2>3. NmapsSum'
      BY <1>0, <2>1, <2>2, NmapsMoved
    <2>4. pc'[e] = "x_release"
      BY <1>0, <2>1 DEF Goto, TypeOK
    <2> QED
      BY <2>3, <2>4 DEF ExpirerSeesMap
  <1>8. CASE ExpireRelease(e)
    <2>1. Goto(e, "x_count") /\ pc[e] = "x_release" /\ map' = map /\ nmaps' = nmaps
      BY <1>8 DEF ExpireRelease
    <2>2. NmapsSum'
      BY <1>0, <2>1, NmapsKept
    <2>3. pc'[e] = "x_count"
      BY <1>0, <2>1 DEF Goto, TypeOK
    <2> QED
      BY <2>2, <2>3 DEF ExpirerSeesMap
  <1>9. CASE ExpireCount(e)
    <2>1. /\ pc[e] = "x_count" /\ nmaps' = nmaps - 1 /\ nmaps \in Int
          /\ Goto(e, "idle")
      BY <1>9 DEF ExpireCount, IInv, TypeOK
    <2>2. Mappings' = Mappings /\ Mappings \in Int
      BY <1>9 DEF ExpireCount, Mappings
    <2>3. NmapsSum'
      BY <1>0, <2>1, <2>2, NmapsMoved
    <2>4. pc'[e] = "idle"
      BY <1>0, <2>1 DEF Goto, TypeOK
    <2> QED
      BY <2>3, <2>4 DEF ExpirerSeesMap
  <1> QED
    BY <1>1, <1>2, <1>3, <1>4, <1>5, <1>6, <1>7, <1>8, <1>9 DEF Expiry

LEMMA NmapsInit == Init => NmapsInv
  <1> SUFFICES ASSUME Init PROVE NmapsInv
    OBVIOUS
  <1>1. At({"count"}) = {} /\ At({"x_release", "x_count"}) = {}
    BY DEF Init, At
  <1>2. NmapsSum
    BY <1>1, FS_EmptySet DEF Init, NmapsSum, Mappings, Uncounted, Unmapped
  <1>3. ExpirerSeesMap
    BY DEF Init, ExpirerSeesMap, All
  <1> QED
    BY <1>2, <1>3 DEF NmapsInv

LEMMA NmapsStep ==
    ASSUME NEW e, Expirers = {e}
    PROVE  IInv /\ NmapsInv /\ [Next]_vars => NmapsInv'
  <1> SUFFICES ASSUME IInv, NmapsInv, [Next]_vars PROVE NmapsInv'
    OBVIOUS
  <1>1. ASSUME ~astray, NEW t \in Threads, Reference(t) PROVE NmapsInv'
    BY <1>1, ReferenceNmaps DEF NmapsInv
  <1>2. ASSUME ~astray, NEW x \in Expirers, Expiry(x) PROVE NmapsInv'
    BY <1>2, ExpiryNmaps DEF NmapsInv
  <1>3. CASE UNCHANGED vars
    BY <1>3 DEF vars, NmapsInv, ExpirerSeesMap, NmapsSum, Mappings, Uncounted, Unmapped, At
  <1> QED
    BY <1>1, <1>2, <1>3 DEF Next

\* However many threads reference a segment, io->nmaps is exactly the mapping
\* there is, but for who is about to count: with a single expirer, as under the
\* lock of the index.
THEOREM NmapsCorrect == Spec => []NmapsExact
  <1>1. CASE Cardinality(Expirers) = 1
    <2>1. PICK e : Expirers = {e}
      BY <1>1, ThreadsAssumption, FS_Singleton
    <2>2. Spec => []NmapsInv
      BY <2>1, NmapsInit, NmapsStep, Inductive, PTL DEF Spec
    <2>3. NmapsInv => NmapsExact
      BY DEF NmapsInv, NmapsExact, NmapsSum, Mappings, Uncounted, Unmapped
    <2> QED
      BY <2>2, <2>3, PTL
  <1>2. CASE Cardinality(Expirers) # 1
    <2>1. NmapsExact
      BY <1>2 DEF NmapsExact
    <2> QED
      BY <2>1, PTL
  <1> QED
    BY <1>1, <1>2
=============================================================================
