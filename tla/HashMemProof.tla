--------------------------- MODULE HashMemProof -----------------------------
(***************************************************************************)
(* What the stores of one operation of a hash table (HashMem) lead to, as  *)
(* long as the process lives.  Three parts: the probe of a search visits   *)
(* every slot of the space in use once; a search in a space that is laid   *)
(* out properly finds exactly the records that have the key; and the       *)
(* programs of the operations, store by store.                             *)
(***************************************************************************)
EXTENDS HashMem, SequenceTheorems, FiniteSetTheorems, NaturalsInduction,
        WellFoundedInduction, TLAPS

-----------------------------------------------------------------------------
(* Naturals.                                                               *)

\* A set of naturals that is not empty has a least element.
LEMMA LeastNatural ==
    ASSUME NEW S \in SUBSET Nat, S # {}
    PROVE  \E x \in S : \A y \in S : x <= y
  <1>1. IsWellFoundedOn(OpToRel(<, Nat), Nat)
    BY NatLessThanWellFounded
  <1>2. PICK x \in S : \A y \in S : <<y, x>> \notin OpToRel(<, Nat)
    BY <1>1, WFMin
  <1>3. \A y \in S : ~(y < x)
    BY <1>2 DEF OpToRel
  <1> QED
    BY <1>3

\* Min chooses it.
LEMMA MinOfNaturals ==
    ASSUME NEW S \in SUBSET Nat, S # {}
    PROVE  Min(S) \in S /\ \A y \in S : Min(S) <= y
  <1>1. \E x \in S : \A y \in S : x <= y
    BY LeastNatural
  <1> QED
    BY <1>1 DEF Min

\* Induction up to a bound, for a set of naturals.
LEMMA UpTo ==
    ASSUME NEW n \in Nat, NEW S, 0 \in S, \A i \in 0 .. n - 1 : i \in S => i + 1 \in S
    PROVE  n \in S
  <1>1. SUFFICES ASSUME n \notin S PROVE FALSE
    OBVIOUS
  <1> DEFINE T == {i \in 0 .. n : i \notin S}
  <1>2. T \in SUBSET Nat /\ n \in T
    BY <1>1
  <1>3. PICK x \in T : \A y \in T : x <= y
    BY <1>2, LeastNatural
  <1>4. x \in 0 .. n /\ x \notin S /\ x # 0
    BY <1>3
  <1>5. x - 1 \in 0 .. n - 1 /\ x - 1 \in 0 .. n /\ ~(x <= x - 1)
    BY <1>4
  <1>6. x - 1 \notin T
    BY <1>3, <1>5
  <1>7. x - 1 \in S
    BY <1>5, <1>6
  <1>8. (x - 1) + 1 \in S
    BY <1>5, <1>7
  <1> QED
    BY <1>4, <1>8

-----------------------------------------------------------------------------
(* The probe.                                                              *)

Divides(z, x) == \E q \in Nat : x = z * q

\* Only a multiple of z has a multiple of z as its product with an odd number.
OddCancels(z) ==
    \A s \in Nat, d \in Nat, x \in Nat :
        (s % 2 = 1 /\ x = d * s /\ Divides(z, x)) => Divides(z, d)

LEMMA Doubling ==
    ASSUME NEW z \in Nat, OddCancels(z), NEW y \in Nat, y = 2 * z
    PROVE  OddCancels(y)
  <1> SUFFICES ASSUME NEW s \in Nat, NEW d \in Nat, NEW x \in Nat,
                      s % 2 = 1, x = d * s, Divides(y, x)
               PROVE  Divides(y, d)
    BY DEF OddCancels
  <1>1. PICK r \in Nat : s = 2 * r + 1
    <2>1. s = 2 * (s \div 2) + 1 /\ s \div 2 \in Nat
      OBVIOUS
    <2> QED
      BY <2>1
  <1>2. PICK p \in Nat : p = d * r
    OBVIOUS
  <1>3. PICK q \in Nat : x = y * q
    BY DEF Divides
  <1>4. PICK u \in Nat : u = z * q
    OBVIOUS
  <1>5. x = 2 * u
    BY <1>3, <1>4
  <1>6. x = 2 * p + d
    BY <1>1, <1>2
  <1>7. PICK e \in Nat : d = 2 * e
    <2>1. d = 2 * (u - p) /\ u - p \in Int
      BY <1>5, <1>6
    <2>2. u - p \in Nat
      BY <2>1
    <2> QED
      BY <2>1, <2>2, Zenon
  <1>8. PICK w \in Nat : w = e * s
    OBVIOUS
  <1>9. x = 2 * w
    BY <1>7, <1>8
  <1>10. w = u
    BY <1>5, <1>9
  <1>11. Divides(z, w)
    BY <1>4, <1>10 DEF Divides
  <1>12. Divides(z, e)
    BY <1>8, <1>11 DEF OddCancels
  <1>13. PICK f \in Nat : e = z * f
    BY <1>12 DEF Divides
  <1>14. d = y * f
    BY <1>7, <1>13
  <1> QED
    BY <1>14 DEF Divides

LEMMA OddCancelsSizes ==
    \A z \in IndexSizes : OddCancels(z)
  <1>1. OddCancels(1)
    <2>1. \A d \in Nat : d = 1 * d
      OBVIOUS
    <2>2. \A d \in Nat : Divides(1, d)
      BY <2>1 DEF Divides
    <2> QED
      BY <2>2 DEF OddCancels
  <1>2. OddCancels(2)
    <2>1. 2 = 2 * 1
      OBVIOUS
    <2> QED
      BY <1>1, <2>1, Doubling
  <1>3. OddCancels(4)
    <2>1. 4 = 2 * 2
      OBVIOUS
    <2> QED
      BY <1>2, <2>1, Doubling
  <1>4. OddCancels(8)
    <2>1. 8 = 2 * 4
      OBVIOUS
    <2> QED
      BY <1>3, <2>1, Doubling
  <1>5. OddCancels(16)
    <2>1. 16 = 2 * 8
      OBVIOUS
    <2> QED
      BY <1>4, <2>1, Doubling
  <1>6. OddCancels(32)
    <2>1. 32 = 2 * 16
      OBVIOUS
    <2> QED
      BY <1>5, <2>1, Doubling
  <1>7. OddCancels(64)
    <2>1. 64 = 2 * 32
      OBVIOUS
    <2> QED
      BY <1>6, <2>1, Doubling
  <1>8. OddCancels(128)
    <2>1. 128 = 2 * 64
      OBVIOUS
    <2> QED
      BY <1>7, <2>1, Doubling
  <1>9. OddCancels(256)
    <2>1. 256 = 2 * 128
      OBVIOUS
    <2> QED
      BY <1>8, <2>1, Doubling
  <1>10. OddCancels(512)
    <2>1. 512 = 2 * 256
      OBVIOUS
    <2> QED
      BY <1>9, <2>1, Doubling
  <1>11. OddCancels(1024)
    <2>1. 1024 = 2 * 512
      OBVIOUS
    <2> QED
      BY <1>10, <2>1, Doubling
  <1>12. OddCancels(2048)
    <2>1. 2048 = 2 * 1024
      OBVIOUS
    <2> QED
      BY <1>11, <2>1, Doubling
  <1>13. OddCancels(4096)
    <2>1. 4096 = 2 * 2048
      OBVIOUS
    <2> QED
      BY <1>12, <2>1, Doubling
  <1>14. OddCancels(8192)
    <2>1. 8192 = 2 * 4096
      OBVIOUS
    <2> QED
      BY <1>13, <2>1, Doubling
  <1>15. OddCancels(16384)
    <2>1. 16384 = 2 * 8192
      OBVIOUS
    <2> QED
      BY <1>14, <2>1, Doubling
  <1>16. OddCancels(32768)
    <2>1. 32768 = 2 * 16384
      OBVIOUS
    <2> QED
      BY <1>15, <2>1, Doubling
  <1>17. OddCancels(65536)
    <2>1. 65536 = 2 * 32768
      OBVIOUS
    <2> QED
      BY <1>16, <2>1, Doubling
  <1>18. OddCancels(131072)
    <2>1. 131072 = 2 * 65536
      OBVIOUS
    <2> QED
      BY <1>17, <2>1, Doubling
  <1>19. OddCancels(262144)
    <2>1. 262144 = 2 * 131072
      OBVIOUS
    <2> QED
      BY <1>18, <2>1, Doubling
  <1>20. OddCancels(524288)
    <2>1. 524288 = 2 * 262144
      OBVIOUS
    <2> QED
      BY <1>19, <2>1, Doubling
  <1>21. OddCancels(1048576)
    <2>1. 1048576 = 2 * 524288
      OBVIOUS
    <2> QED
      BY <1>20, <2>1, Doubling
  <1>22. OddCancels(2097152)
    <2>1. 2097152 = 2 * 1048576
      OBVIOUS
    <2> QED
      BY <1>21, <2>1, Doubling
  <1>23. OddCancels(4194304)
    <2>1. 4194304 = 2 * 2097152
      OBVIOUS
    <2> QED
      BY <1>22, <2>1, Doubling
  <1>24. OddCancels(8388608)
    <2>1. 8388608 = 2 * 4194304
      OBVIOUS
    <2> QED
      BY <1>23, <2>1, Doubling
  <1>25. OddCancels(16777216)
    <2>1. 16777216 = 2 * 8388608
      OBVIOUS
    <2> QED
      BY <1>24, <2>1, Doubling
  <1>26. OddCancels(33554432)
    <2>1. 33554432 = 2 * 16777216
      OBVIOUS
    <2> QED
      BY <1>25, <2>1, Doubling
  <1>27. OddCancels(67108864)
    <2>1. 67108864 = 2 * 33554432
      OBVIOUS
    <2> QED
      BY <1>26, <2>1, Doubling
  <1>28. OddCancels(134217728)
    <2>1. 134217728 = 2 * 67108864
      OBVIOUS
    <2> QED
      BY <1>27, <2>1, Doubling
  <1>29. OddCancels(268435456)
    <2>1. 268435456 = 2 * 134217728
      OBVIOUS
    <2> QED
      BY <1>28, <2>1, Doubling
  <1>30. OddCancels(536870912)
    <2>1. 536870912 = 2 * 268435456
      OBVIOUS
    <2> QED
      BY <1>29, <2>1, Doubling
  <1> QED
    BY <1>1, <1>2, <1>3, <1>4, <1>5, <1>6, <1>7, <1>8, <1>9, <1>10, <1>11, <1>12,
       <1>13, <1>14, <1>15, <1>16, <1>17, <1>18, <1>19, <1>20, <1>21, <1>22, <1>23,
       <1>24, <1>25, <1>26, <1>27, <1>28, <1>29, <1>30 DEF IndexSizes

LEMMA SizesArePositive ==
    ASSUME NEW z \in IndexSizes
    PROVE  z \in Nat /\ z >= 1
  BY DEF IndexSizes

LEMMA WithBitType ==
    ASSUME NEW x \in Nat, NEW bit \in Nat
    PROVE  WithBit(x, bit) \in Nat
  BY DEF WithBit

\* Every step is odd.
LEMMA StepIsOdd ==
    ASSUME NEW h \in Nat
    PROVE  calculate_step(h) \in Nat /\ calculate_step(h) % 2 = 1
  <1>1. \A x, bit \in Nat : WithBit(x, bit) \in Nat
    BY WithBitType
  <1>2. PICK q \in Nat : calculate_step(h) = WithBit(q, 1)
    <2>1. PICK x \in Nat : x = h \div 4
      OBVIOUS
    <2>2. PICK y \in Nat : y = WithBit(x, 16777216)
      BY <1>1, SMT
    <2>3. PICK w \in Nat : w = WithBit(y, 65536)
      BY <1>1, SMT
    <2>4. PICK q \in Nat : q = WithBit(w, 256)
      BY <1>1, SMT
    <2> QED
      BY <2>1, <2>2, <2>3, <2>4, SMT DEF calculate_step
  <1>3. q \div 1 = q
    BY <1>2
  <1>4. CASE q % 2 = 1
    BY <1>2, <1>3, <1>4 DEF WithBit
  <1>5. CASE q % 2 # 1
    <2>1. (q + 1) % 2 = 1
      BY <1>2, <1>5
    <2> QED
      BY <1>2, <1>3, <1>5, <2>1 DEF WithBit
  <1> QED
    BY <1>4, <1>5

LEMMA ProbeHashType ==
    ASSUME NEW h \in Nat, NEW n \in Nat
    PROVE  ProbeHash(h, n) \in Nat
  <1>1. PICK s \in Nat : s = calculate_step(h)
    BY StepIsOdd
  <1>2. n * s \in Nat
    OBVIOUS
  <1> QED
    BY <1>1, <1>2 DEF ProbeHash

\* The slot of the n-th try in a space of z slots from off.
Slot(off, z, h, n) == off + (ProbeHash(h, n) % z)
SpaceOf(off, z) == off .. off + z - 1

\* Two numbers with the same remainder differ by a multiple.
LEMMA SameRemainder ==
    ASSUME NEW z \in Nat, z >= 1, NEW x \in Nat, NEW y \in Nat, x % z = y % z, x <= y
    PROVE  Divides(z, y - x)
  <1>1. x = z * (x \div z) + (x % z) /\ y = z * (y \div z) + (y % z)
    OBVIOUS
  <1>2. PICK a \in Nat, b \in Nat : a = x \div z /\ b = y \div z
    OBVIOUS
  <1>3. y - x = z * b - z * a
    <2>1. PICK u \in Nat : u = z * a
      OBVIOUS
    <2>2. PICK v \in Nat : v = z * b
      OBVIOUS
    <2>3. PICK r \in Nat : r = x % z
      OBVIOUS
    <2>4. x = u + r /\ y = v + r
      BY <1>1, <1>2, <2>1, <2>2, <2>3
    <2> QED
      BY <2>1, <2>2, <2>4
  <1>4. z * b - z * a = z * (b - a)
    BY <1>2
  <1>5. b - a >= 0
    <2>1. SUFFICES ASSUME b - a <= -1 PROVE FALSE
      OBVIOUS
    <2>2. z * (b - a) <= -1
      <3>1. a - b >= 1 /\ a - b \in Nat
        BY <2>1
      <3>2. z * (a - b) >= 1
        BY <3>1
      <3> QED
        BY <3>2
    <2> QED
      BY <1>3, <1>4, <2>2
  <1>6. b - a \in Nat /\ y - x = z * (b - a)
    BY <1>3, <1>4, <1>5
  <1> QED
    BY <1>6, Zenon DEF Divides

\* No two tries of a probe look at the same slot.
LEMMA ProbeInjective ==
    ASSUME NEW z \in IndexSizes, NEW h \in Nat, NEW off \in Nat,
           NEW a \in 0 .. z - 1, NEW b \in 0 .. z - 1,
           Slot(off, z, h, a) = Slot(off, z, h, b)
    PROVE  a = b
  <1>1. z \in Nat /\ z >= 1
    BY SizesArePositive
  <1>2. ASSUME NEW i \in 0 .. z - 1, NEW j \in 0 .. z - 1, i < j,
               ProbeHash(h, i) % z = ProbeHash(h, j) % z
        PROVE  FALSE
    <2>1. PICK s \in Nat : s = calculate_step(h) /\ s % 2 = 1
      BY StepIsOdd
    <2>2. i \in Nat /\ j \in Nat /\ ProbeHash(h, i) \in Nat /\ ProbeHash(h, j) \in Nat
      <3>1. i \in Nat /\ j \in Nat
        BY <1>1
      <3> QED
        BY <3>1, ProbeHashType
    <2>3. ProbeHash(h, i) = h + i * s /\ ProbeHash(h, j) = h + j * s
      BY <2>1 DEF ProbeHash
    <2>4. PICK d \in Nat : d = j - i
      BY <1>2, <1>1
    <2>5. j * s = i * s + d * s
      BY <2>4, <1>1
    <2>6. PICK u \in Nat, v \in Nat : u = i * s /\ v = d * s
      BY <1>1
    <2>7. ProbeHash(h, j) - ProbeHash(h, i) = d * s /\ ProbeHash(h, i) <= ProbeHash(h, j)
      BY <2>3, <2>5, <2>6
    <2>8. Divides(z, v)
      <3>1. PICK x \in Nat : x = ProbeHash(h, i)
        BY <2>2
      <3>2. PICK y \in Nat : y = ProbeHash(h, j)
        BY <2>2
      <3>3. x % z = y % z /\ x <= y /\ y - x = v
        BY <1>2, <2>6, <2>7, <3>1, <3>2
      <3>4. Divides(z, y - x)
        BY <1>1, <3>3, SameRemainder
      <3> QED
        BY <3>3, <3>4
    <2>9. PICK e \in Nat : d = z * e
      <3>1. OddCancels(z)
        BY OddCancelsSizes
      <3>2. Divides(z, d)
        BY <2>1, <2>6, <2>8, <3>1 DEF OddCancels
      <3> QED
        BY <3>2 DEF Divides
    <2>10. d \in 1 .. z - 1
      BY <1>1, <1>2, <2>4
    <2>11. e # 0
      BY <2>9, <2>10, <1>1
    <2>12. z * e >= z
      BY <2>11, <1>1
    <2> QED
      BY <2>9, <2>10, <2>12, <1>1
  <1>3. ProbeHash(h, a) % z = ProbeHash(h, b) % z
    <2>1. ProbeHash(h, a) \in Nat /\ ProbeHash(h, b) \in Nat
      BY <1>1, ProbeHashType
    <2>2. PICK x \in Nat, y \in Nat : x = ProbeHash(h, a) % z /\ y = ProbeHash(h, b) % z
      BY <1>1, <2>1
    <2>3. off + x = off + y
      BY <2>2 DEF Slot
    <2> QED
      BY <2>2, <2>3
  <1> QED
    BY <1>1, <1>2, <1>3

LEMMA SlotType ==
    ASSUME NEW z \in IndexSizes, NEW h \in Nat, NEW off \in Nat, NEW n \in Nat
    PROVE  Slot(off, z, h, n) \in SpaceOf(off, z)
  <1>1. z \in Nat /\ z >= 1 /\ ProbeHash(h, n) \in Nat
    BY SizesArePositive, ProbeHashType
  <1>2. PICK x \in Nat : x = ProbeHash(h, n) % z /\ x < z
    BY <1>1
  <1> QED
    BY <1>1, <1>2 DEF Slot, SpaceOf

\* Each slot is looked at by some try.
LEMMA ProbeSurjective ==
    ASSUME NEW z \in IndexSizes, NEW h \in Nat, NEW off \in Nat, NEW p \in SpaceOf(off, z)
    PROVE  \E n \in 0 .. z - 1 : Slot(off, z, h, n) = p
  <1> DEFINE f == [n \in 0 .. z - 1 |-> Slot(off, z, h, n)]
  <1>1. z \in Nat /\ z >= 1
    BY SizesArePositive
  <1>2. f \in Injection(0 .. z - 1, SpaceOf(off, z))
    <2>1. \A n \in 0 .. z - 1 : f[n] \in SpaceOf(off, z)
      <3>1. \A n \in 0 .. z - 1 : n \in Nat
        BY <1>1
      <3> QED
        BY <3>1, SlotType
    <2>2. f \in [0 .. z - 1 -> SpaceOf(off, z)]
      BY <2>1
    <2>3. \A a, b \in 0 .. z - 1 : f[a] = f[b] => a = b
      BY ProbeInjective
    <2> QED
      BY <2>2, <2>3 DEF Injection, IsInjective
  <1>3. /\ IsFiniteSet(0 .. z - 1) /\ Cardinality(0 .. z - 1) = z
        /\ IsFiniteSet(SpaceOf(off, z)) /\ Cardinality(SpaceOf(off, z)) = z
    <2>1. /\ IsFiniteSet(0 .. z - 1)
          /\ Cardinality(0 .. z - 1) = IF 0 > z - 1 THEN 0 ELSE (z - 1) - 0 + 1
      BY <1>1, FS_Interval
    <2>2. /\ IsFiniteSet(off .. off + z - 1)
          /\ Cardinality(off .. off + z - 1)
               = IF off > off + z - 1 THEN 0 ELSE (off + z - 1) - off + 1
      BY <1>1, FS_Interval
    <2> QED
      BY <1>1, <2>1, <2>2 DEF SpaceOf
  <1> HIDE DEF f
  <1>4. f \in Surjection(0 .. z - 1, SpaceOf(off, z))
    BY <1>2, <1>3, FS_Injection
  <1>5. PICK n \in 0 .. z - 1 : f[n] = p
    BY <1>4 DEF Surjection
  <1> QED
    BY <1>5 DEF f

-----------------------------------------------------------------------------
(* A space that is laid out properly.                                      *)

\* The records L of a space of z slots from off: each has one slot, and no
\* slot on its probe before that one is empty.
Placed(index, word, off, z, L) ==
    /\ \A p, q \in SpaceOf(off, z) : (index[p] \in L /\ index[p] = index[q]) => p = q
    /\ \A id \in L : \E n \in 0 .. z - 1 :
          /\ index[Slot(off, z, word[id], n)] = id
          /\ \A t \in 0 .. n - 1 : index[Slot(off, z, word[id], t)] # NIL

\* A record is added to the first free slot of its probe.
LEMMA PlacedAdd ==
    ASSUME NEW z \in IndexSizes, NEW off \in Nat, NEW L \in SUBSET Ids,
           NEW index \in [Slots -> Ids \cup {NIL, GARBAGE}], SpaceOf(off, z) \subseteq Slots,
           NEW word \in [Ids -> Nat], NEW word1 \in [Ids -> Nat],
           Placed(index, word, off, z, L),
           \A i \in L : word1[i] = word[i],
           NEW id \in Ids \ L, \A q \in SpaceOf(off, z) : index[q] # id,
           NEW n \in 0 .. z - 1,
           index[Slot(off, z, word1[id], n)] \in {NIL, GARBAGE},
           \A t \in 0 .. n - 1 : index[Slot(off, z, word1[id], t)] # NIL
    PROVE  Placed([index EXCEPT ![Slot(off, z, word1[id], n)] = id], word1, off, z, L \cup {id})
  <1> DEFINE p == Slot(off, z, word1[id], n)
             new == [index EXCEPT ![p] = id]
  <1>1. z \in Nat /\ z >= 1 /\ n \in Nat
    BY SizesArePositive
  <1>2. p \in SpaceOf(off, z)
    BY <1>1, SlotType
  <1>3. index[p] \in {NIL, GARBAGE}
    OBVIOUS
  <1>4. new[p] = id /\ \A q \in SpaceOf(off, z) : q # p => new[q] = index[q]
    BY <1>2
  <1>5. \A i \in Ids : i # NIL /\ i # GARBAGE
    BY FlagsAssumption DEF Ids, NIL, GARBAGE
  <1>6. \A i \in Ids, t \in 0 .. z - 1 : Slot(off, z, word1[i], t) \in SpaceOf(off, z)
    <2>1. \A t \in 0 .. z - 1 : t \in Nat
      BY <1>1
    <2> QED
      BY <2>1, SlotType
  <1>7. \A t \in 0 .. n - 1 : new[Slot(off, z, word1[id], t)] # NIL
    <2> TAKE t \in 0 .. n - 1
    <2>1. t \in 0 .. z - 1 /\ index[Slot(off, z, word1[id], t)] # NIL
      BY <1>1
    <2> HIDE DEF new, p
    <2> QED
      BY <1>4, <1>5, <1>6, <2>1
  <1> HIDE DEF new, p
  <1>8. ASSUME NEW a \in SpaceOf(off, z), NEW b \in SpaceOf(off, z),
               new[a] \in L \cup {id}, new[a] = new[b]
        PROVE  a = b
    <2>1. \A i, j \in SpaceOf(off, z) : (index[i] \in L /\ index[i] = index[j]) => i = j
      BY DEF Placed
    <2>2. CASE a = p \/ b = p
      BY <1>4, <1>8, <2>2
    <2>3. CASE a # p /\ b # p
      BY <1>4, <1>8, <2>1, <2>3
    <2> QED
      BY <2>2, <2>3
  <1>9. ASSUME NEW i \in L
        PROVE  \E s \in 0 .. z - 1 :
                  /\ new[Slot(off, z, word1[i], s)] = i
                  /\ \A t \in 0 .. s - 1 : new[Slot(off, z, word1[i], t)] # NIL
    <2>1. PICK s \in 0 .. z - 1 :
             /\ index[Slot(off, z, word[i], s)] = i
             /\ \A t \in 0 .. s - 1 : index[Slot(off, z, word[i], t)] # NIL
      BY DEF Placed
    <2>2. word1[i] = word[i] /\ i \in Ids
      OBVIOUS
    <2>3. Slot(off, z, word1[i], s) # p
      BY <1>3, <1>5, <2>1, <2>2
    <2>4. new[Slot(off, z, word1[i], s)] = i
      BY <1>4, <1>6, <2>1, <2>2, <2>3
    <2>5. ASSUME NEW t \in 0 .. s - 1
          PROVE  new[Slot(off, z, word1[i], t)] # NIL
      <3>1. t \in 0 .. z - 1
        BY <1>1
      <3> QED
        BY <1>4, <1>5, <1>6, <2>1, <2>2, <3>1
    <2> QED
      BY <2>4, <2>5
  <1>10. new[Slot(off, z, word1[id], n)] = id
    BY <1>4 DEF p
  <1>11. \A i \in L \cup {id} : \E s \in 0 .. z - 1 :
            /\ new[Slot(off, z, word1[i], s)] = i
            /\ \A t \in 0 .. s - 1 : new[Slot(off, z, word1[i], t)] # NIL
    BY <1>7, <1>9, <1>10
  <1>12. Placed(new, word1, off, z, L \cup {id})
    BY <1>8, <1>11 DEF Placed
  <1> QED
    BY <1>12 DEF new, p

\* The records stay where they are when a slot that holds none of them gets
\* something else that is not empty.
LEMMA PlacedKeep ==
    ASSUME NEW z \in IndexSizes, NEW off \in Nat, NEW L \in SUBSET Ids,
           NEW index \in [Slots -> Ids \cup {NIL, GARBAGE}], SpaceOf(off, z) \subseteq Slots,
           NEW word \in [Ids -> Nat], NEW word1 \in [Ids -> Nat],
           NEW M \in SUBSET L, \A i \in M : word1[i] = word[i],
           Placed(index, word, off, z, L),
           NEW p \in SpaceOf(off, z), index[p] \notin M,
           NEW x, x \notin M, x # NIL
    PROVE  Placed([index EXCEPT ![p] = x], word1, off, z, M)
  <1> DEFINE new == [index EXCEPT ![p] = x]
  <1>1. z \in Nat /\ z >= 1
    BY SizesArePositive
  <1>2. new[p] = x /\ \A q \in SpaceOf(off, z) : q # p => new[q] = index[q]
    OBVIOUS
  <1>3. \A i \in Ids, t \in 0 .. z - 1 : Slot(off, z, word1[i], t) \in SpaceOf(off, z)
    <2>1. \A t \in 0 .. z - 1 : t \in Nat
      BY <1>1
    <2> QED
      BY <2>1, SlotType
  <1> HIDE DEF new
  <1>4. ASSUME NEW a \in SpaceOf(off, z), NEW b \in SpaceOf(off, z),
               new[a] \in M, new[a] = new[b]
        PROVE  a = b
    <2>1. \A i, j \in SpaceOf(off, z) : (index[i] \in L /\ index[i] = index[j]) => i = j
      BY DEF Placed
    <2> QED
      BY <1>2, <1>4, <2>1
  <1>5. ASSUME NEW i \in M
        PROVE  \E s \in 0 .. z - 1 :
                  /\ new[Slot(off, z, word1[i], s)] = i
                  /\ \A t \in 0 .. s - 1 : new[Slot(off, z, word1[i], t)] # NIL
    <2>1. PICK s \in 0 .. z - 1 :
             /\ index[Slot(off, z, word[i], s)] = i
             /\ \A t \in 0 .. s - 1 : index[Slot(off, z, word[i], t)] # NIL
      BY DEF Placed
    <2>2. word1[i] = word[i] /\ i \in Ids
      OBVIOUS
    <2>3. new[Slot(off, z, word1[i], s)] = i
      BY <1>2, <1>3, <2>1, <2>2
    <2>4. ASSUME NEW t \in 0 .. s - 1
          PROVE  new[Slot(off, z, word1[i], t)] # NIL
      <3>1. t \in 0 .. z - 1
        BY <1>1
      <3> QED
        BY <1>2, <1>3, <2>1, <2>2, <3>1
    <2> QED
      BY <2>3, <2>4
  <1>6. Placed(new, word1, off, z, M)
    BY <1>4, <1>5 DEF Placed
  <1> QED
    BY <1>6 DEF new

\* The parts of the memory a search reads have their types.
Shape(m) ==
    /\ m.index \in [Slots -> Ids \cup {NIL, GARBAGE}]
    /\ m.idx_offset \in {0, MaxIndexSize}
    /\ m.max_offset \in Nat /\ m.max_offset + 1 \in IndexSizes /\ m.max_offset < MaxIndexSize
    /\ m.word \in [Ids -> Nat]

Space(m) == SpaceOf(m.idx_offset, m.max_offset + 1)

\* The space in use holds the records L, and besides them only records no key
\* matches; no two of L match the same key.
Layout(m, L) ==
    /\ Placed(m.index, m.word, m.idx_offset, m.max_offset + 1, L)
    /\ \A p \in Space(m) :
          \/ m.index[p] \in L \cup {NIL, GARBAGE}
          \/ \A k \in Keys : ~compare_key(m, m.index[p], k)
    /\ \A i, j \in L, k \in Keys : (compare_key(m, i, k) /\ compare_key(m, j, k)) => i = j

LEMMA IdsAreRecords ==
    \A i \in Ids : i # NIL /\ i # GARBAGE /\ i \in Nat
  BY FlagsAssumption DEF Ids, NIL, GARBAGE

LEMMA MaxSizeType ==
    MaxIndexSize \in Nat /\ MaxIndexSize \in IndexSizes /\ MaxIndexSize >= 2
  BY SizeAssumption, SMT DEF IndexSizes

\* Both spaces lie inside the index.
LEMMA SpacesInside ==
    ASSUME NEW off \in {0, MaxIndexSize}, NEW z \in IndexSizes, z <= MaxIndexSize
    PROVE  off \in Nat /\ SpaceOf(off, z) \subseteq Slots
  <1>1. z \in Nat /\ z >= 1 /\ MaxIndexSize \in Nat
    BY SizesArePositive, MaxSizeType
  <1> QED
    BY <1>1 DEF SpaceOf, Slots

\* What Shape says of the space in use.
LEMMA ShapeFacts ==
    ASSUME NEW m, Shape(m)
    PROVE  /\ m.idx_offset \in Nat /\ m.max_offset \in Nat
           /\ m.max_offset + 1 \in IndexSizes
           /\ Space(m) \subseteq Slots
           /\ Tries(m) = 0 .. (m.max_offset + 1) - 1
           /\ \A h \in Nat, n \in Tries(m) :
                 /\ Probed(m, h, n) = m.index[Slot(m.idx_offset, m.max_offset + 1, h, n)]
                 /\ Slot(m.idx_offset, m.max_offset + 1, h, n) \in Space(m)
  <1>1. /\ m.max_offset \in Nat /\ m.max_offset + 1 \in IndexSizes
        /\ m.max_offset + 1 <= MaxIndexSize /\ m.idx_offset \in {0, MaxIndexSize}
    BY MaxSizeType DEF Shape
  <1>2. m.idx_offset \in Nat /\ Space(m) \subseteq Slots
    BY <1>1, SpacesInside DEF Space
  <1>3. Tries(m) = 0 .. (m.max_offset + 1) - 1
    BY <1>1 DEF Tries
  <1>4. ASSUME NEW h \in Nat, NEW n \in Tries(m)
        PROVE  /\ Probed(m, h, n) = m.index[Slot(m.idx_offset, m.max_offset + 1, h, n)]
               /\ Slot(m.idx_offset, m.max_offset + 1, h, n) \in Space(m)
    <2>1. n \in Nat
      BY <1>1, <1>3
    <2>2. ProbeHash(h, n) \in Nat
      BY <2>1, ProbeHashType
    <2>3. PICK x \in Nat : x = ProbeHash(h, n) % (m.max_offset + 1)
      BY <1>1, <2>2
    <2>4. idx_at(m, ProbeHash(h, n)) = Slot(m.idx_offset, m.max_offset + 1, h, n)
      BY <1>2, <2>3 DEF idx_at, Slot
    <2> QED
      BY <1>1, <1>2, <2>1, <2>4, SlotType DEF Probed, Space
  <1> QED
    BY <1>1, <1>2, <1>3, <1>4

\* A search finds the record that has the key.
LEMMA GetFinds ==
    ASSUME NEW m, Shape(m), NEW L \in SUBSET Ids, Layout(m, L),
           NEW k \in Keys, NEW id \in L, compare_key(m, id, k)
    PROVE  /\ get(m, k) = id
           /\ Ends(m, k) # {} /\ Ends(m, k) \subseteq Tries(m)
           /\ Min(Ends(m, k)) \in Tries(m)
           /\ Probed(m, HashOf[k], Min(Ends(m, k))) = id
  <1> DEFINE h == HashOf[k]
             at(n) == Slot(m.idx_offset, m.max_offset + 1, h, n)
  <1>1. h \in Nat /\ m.word[id] = h
    BY HashAssumption DEF compare_key
  <1>2. PICK n \in 0 .. (m.max_offset + 1) - 1 :
           m.index[at(n)] = id /\ \A t \in 0 .. n - 1 : m.index[at(t)] # NIL
    BY <1>1 DEF Layout, Placed
  <1> HIDE DEF h, at
  <1>3. n \in Tries(m) /\ Tries(m) \subseteq Nat /\ \A t \in Tries(m) : t < n => t \in 0 .. n - 1
    BY ShapeFacts
  <1>4. \A t \in Tries(m) : Probed(m, h, t) = m.index[at(t)] /\ at(t) \in Space(m)
    BY <1>1, ShapeFacts DEF at
  <1>5. id \in Ids /\ id # NIL /\ id # GARBAGE
    BY IdsAreRecords
  <1>6. Probed(m, h, n) = id /\ Matches(m, k, n)
    BY <1>2, <1>3, <1>4, <1>5 DEF Matches, h
  <1>7. n \in Ends(m, k) /\ Ends(m, k) \subseteq Tries(m) /\ Ends(m, k) \in SUBSET Nat
    BY <1>3, <1>6 DEF Ends
  <1>8. PICK e \in Nat : /\ e = Min(Ends(m, k)) /\ e \in Ends(m, k)
                         /\ \A y \in Ends(m, k) : e <= y
    BY <1>7, MinOfNaturals
  <1>9. Probed(m, h, e) = id
    <2>1. e \in Tries(m) /\ (Probed(m, h, e) = NIL \/ Matches(m, k, e))
      BY <1>8 DEF Ends, h
    <2>2. CASE Probed(m, h, e) = NIL
      <3>1. e # n
        BY <1>5, <1>6, <2>2
      <3>2. e < n
        BY <1>3, <1>7, <1>8, <3>1
      <3>3. m.index[at(e)] # NIL
        BY <1>2, <1>3, <2>1, <3>2
      <3> QED
        BY <1>4, <2>1, <2>2, <3>3
    <2>3. CASE Matches(m, k, e)
      <3>1. /\ Probed(m, h, e) \notin {NIL, GARBAGE}
            /\ compare_key(m, Probed(m, h, e), k)
        BY <2>3 DEF Matches, h
      <3>2. Probed(m, h, e) = m.index[at(e)] /\ at(e) \in Space(m)
        BY <1>4, <2>1
      <3>3. Probed(m, h, e) \in L
        BY <3>1, <3>2 DEF Layout
      <3> QED
        BY <3>1, <3>3 DEF Layout
    <2> QED
      BY <2>1, <2>2, <2>3
  <1>10. Matches(m, k, e)
    BY <1>5, <1>9 DEF Matches, h
  <1>11. get(m, k) = id
    BY <1>7, <1>8, <1>9, <1>10 DEF get, h
  <1> QED
    BY <1>7, <1>8, <1>9, <1>11 DEF h

\* A search for a key no record has does not find one.
LEMMA GetMisses ==
    ASSUME NEW m, Shape(m), NEW L \in SUBSET Ids, Layout(m, L),
           NEW k \in Keys, \A id \in L : ~compare_key(m, id, k)
    PROVE  get(m, k) = NIL /\ \A n \in Tries(m) : ~Matches(m, k, n)
  <1>1. HashOf[k] \in Nat
    BY HashAssumption
  <1>2. ASSUME NEW n \in Tries(m), Matches(m, k, n) PROVE FALSE
    <2>1. PICK p \in Space(m) : Probed(m, HashOf[k], n) = m.index[p]
      BY <1>1, ShapeFacts
    <2>2. m.index[p] \notin {NIL, GARBAGE} /\ compare_key(m, m.index[p], k)
      BY <1>2, <2>1 DEF Matches
    <2> QED
      BY <2>1, <2>2 DEF Layout
  <1>3. CASE Ends(m, k) = {}
    BY <1>2, <1>3 DEF get
  <1>4. CASE Ends(m, k) # {}
    <2>1. Ends(m, k) \subseteq Tries(m) /\ Ends(m, k) \in SUBSET Nat
      BY ShapeFacts DEF Ends
    <2>2. Min(Ends(m, k)) \in Tries(m)
      BY <1>4, <2>1, MinOfNaturals
    <2> QED
      BY <1>2, <1>4, <2>2 DEF get
  <1> QED
    BY <1>2, <1>3, <1>4

-----------------------------------------------------------------------------
(* What a table contains.                                                  *)

\* An entry has at most one key.
LEMMA OneKey ==
    ASSUME NEW m, NEW i, NEW j \in Keys, NEW k \in Keys,
           compare_key(m, i, j), compare_key(m, i, k)
    PROVE  j = k
  BY HashAssumption DEF compare_key

LEMMA ContentAt ==
    ASSUME NEW m, Shape(m), NEW L \in SUBSET Ids, Layout(m, L), NEW k \in Keys
    PROVE  /\ \A id \in L : compare_key(m, id, k) => Content(m)[k] = m.value[id]
           /\ (\A id \in L : ~compare_key(m, id, k)) => Content(m)[k] = Absent
           /\ Content(m) = [j \in Keys |-> Content(m)[j]]
  <1>1. ASSUME NEW id \in L, compare_key(m, id, k)
        PROVE  Content(m)[k] = m.value[id]
    <2>1. get(m, k) = id
      BY <1>1, GetFinds
    <2>2. id # NIL
      BY IdsAreRecords
    <2> QED
      BY <2>1, <2>2 DEF Content
  <1>2. ASSUME \A id \in L : ~compare_key(m, id, k)
        PROVE  Content(m)[k] = Absent
    <2>1. get(m, k) = NIL
      BY <1>2, GetMisses
    <2> QED
      BY <2>1 DEF Content
  <1>3. Content(m) = [j \in Keys |-> Content(m)[j]]
    BY DEF Content
  <1> QED
    BY <1>1, <1>2, <1>3

\* The records L of m1 have the key, and the value, they have in m.
SameOn(m, m1, L) ==
    \A i \in L :
        /\ m1.word[i] = m.word[i] /\ m1.value[i] = m.value[i]
        /\ m1.key_size[i] = m.key_size[i] /\ m1.key_offset[i] = m.key_offset[i]
        /\ VarSize => m1.keys[m.key_offset[i]] = m.keys[m.key_offset[i]]

LEMMA SameKeys ==
    ASSUME NEW m, NEW m1, NEW L, SameOn(m, m1, L), NEW i \in L, NEW k
    PROVE  compare_key(m1, i, k) <=> compare_key(m, i, k)
  BY DEF SameOn, compare_key

LEMMA ContentSame ==
    ASSUME NEW m, NEW m1, Shape(m), Shape(m1), NEW L \in SUBSET Ids,
           Layout(m, L), Layout(m1, L), SameOn(m, m1, L)
    PROVE  Content(m1) = Content(m)
  <1>1. ASSUME NEW k \in Keys PROVE Content(m1)[k] = Content(m)[k]
    <2>1. CASE \E id \in L : compare_key(m, id, k)
      <3>1. PICK id \in L : compare_key(m, id, k)
        BY <2>1
      <3>2. compare_key(m1, id, k)
        BY <3>1, SameKeys
      <3>3. Content(m)[k] = m.value[id] /\ Content(m1)[k] = m1.value[id]
        BY <3>1, <3>2, ContentAt
      <3> QED
        BY <3>3 DEF SameOn
    <2>2. CASE ~\E id \in L : compare_key(m, id, k)
      <3>1. \A id \in L : ~compare_key(m, id, k) /\ ~compare_key(m1, id, k)
        BY <2>2, SameKeys
      <3> QED
        BY <3>1, ContentAt
    <2> QED
      BY <2>1, <2>2
  <1> QED
    BY <1>1 DEF Content

LEMMA ContentAdd ==
    ASSUME NEW m, NEW m1, Shape(m), Shape(m1), NEW L \in SUBSET Ids, NEW id \in Ids,
           Layout(m, L), Layout(m1, L \cup {id}), SameOn(m, m1, L),
           NEW k \in Keys, \A i \in L : ~compare_key(m, i, k), compare_key(m1, id, k)
    PROVE  Content(m1) = [Content(m) EXCEPT ![k] = m1.value[id]]
  <1>1. L \cup {id} \in SUBSET Ids
    OBVIOUS
  <1>2. Content(m1)[k] = m1.value[id]
    BY <1>1, ContentAt
  <1>3. ASSUME NEW j \in Keys, j # k PROVE Content(m1)[j] = Content(m)[j]
    <2>1. CASE \E i \in L : compare_key(m, i, j)
      <3>1. PICK i \in L : compare_key(m, i, j)
        BY <2>1
      <3>2. compare_key(m1, i, j)
        BY <3>1, SameKeys
      <3>3. Content(m)[j] = m.value[i] /\ Content(m1)[j] = m1.value[i]
        BY <1>1, <3>1, <3>2, ContentAt
      <3> QED
        BY <3>3 DEF SameOn
    <2>2. CASE ~\E i \in L : compare_key(m, i, j)
      <3>1. \A i \in L : ~compare_key(m, i, j) /\ ~compare_key(m1, i, j)
        BY <2>2, SameKeys
      <3>2. ~compare_key(m1, id, j)
        BY <1>3, OneKey
      <3> QED
        BY <1>1, <3>1, <3>2, ContentAt
    <2> QED
      BY <2>1, <2>2
  <1> QED
    BY <1>2, <1>3 DEF Content

LEMMA ContentRemove ==
    ASSUME NEW m, NEW m1, Shape(m), Shape(m1), NEW L \in SUBSET Ids, NEW id \in L,
           Layout(m, L), Layout(m1, L \ {id}), SameOn(m, m1, L \ {id}),
           NEW k \in Keys, compare_key(m, id, k)
    PROVE  Content(m1) = [Content(m) EXCEPT ![k] = Absent]
  <1>1. L \ {id} \in SUBSET Ids
    OBVIOUS
  <1>2. Content(m1)[k] = Absent
    <2>1. \A i \in L \ {id} : ~compare_key(m, i, k)
      BY DEF Layout
    <2>2. \A i \in L \ {id} : ~compare_key(m1, i, k)
      BY <2>1, SameKeys
    <2> QED
      BY <1>1, <2>2, ContentAt
  <1>3. ASSUME NEW j \in Keys, j # k PROVE Content(m1)[j] = Content(m)[j]
    <2>1. ~compare_key(m, id, j)
      BY <1>3, OneKey
    <2>2. CASE \E i \in L : compare_key(m, i, j)
      <3>1. PICK i \in L \ {id} : compare_key(m, i, j)
        BY <2>1, <2>2
      <3>2. compare_key(m1, i, j)
        BY <3>1, SameKeys
      <3>3. Content(m)[j] = m.value[i] /\ Content(m1)[j] = m1.value[i]
        BY <1>1, <3>1, <3>2, ContentAt
      <3> QED
        BY <3>3 DEF SameOn
    <2>3. CASE ~\E i \in L : compare_key(m, i, j)
      <3>1. \A i \in L \ {id} : ~compare_key(m1, i, j)
        BY <2>3, SameKeys
      <3> QED
        BY <1>1, <2>3, <3>1, ContentAt
    <2> QED
      BY <2>2, <2>3
  <1> QED
    BY <1>2, <1>3 DEF Content

-----------------------------------------------------------------------------
(* Programs: the stores and appends of an operation, one after another.    *)

Program(P) == \E S : P \in Seq(S)

LEMMA EmptyProgram ==
    Program(<<>>) /\ Len(<<>>) = 0
  <1>1. <<>> \in Seq({})
    OBVIOUS
  <1> QED
    BY <1>1 DEF Program

LEMMA OneStep ==
    ASSUME NEW s
    PROVE  Program(<<s>>) /\ Len(<<s>>) = 1 /\ <<s>>[1] = s
  <1>1. <<s>> \in Seq({s})
    OBVIOUS
  <1> QED
    BY <1>1 DEF Program

LEMMA Concatenation ==
    ASSUME NEW P, NEW Q, Program(P), Program(Q)
    PROVE  /\ Program(P \o Q) /\ Len(P) \in Nat /\ Len(Q) \in Nat
           /\ Len(P \o Q) = Len(P) + Len(Q)
           /\ \A i \in 1 .. Len(P) : (P \o Q)[i] = P[i]
           /\ \A i \in 1 .. Len(Q) : (P \o Q)[Len(P) + i] = Q[i]
  <1>1. PICK S : P \in Seq(S)
    BY DEF Program
  <1>2. PICK T : Q \in Seq(T)
    BY DEF Program
  <1>3. P \in Seq(S \cup T) /\ Q \in Seq(S \cup T)
    BY <1>1, <1>2
  <1>4. P \o Q \in Seq(S \cup T)
    BY <1>3
  <1> QED
    BY <1>3, <1>4 DEF Program

LEMMA AfterHead ==
    ASSUME NEW P, Program(P), P # <<>>
    PROVE  /\ Program(Tail(P)) /\ Len(P) \in Nat \ {0} /\ Head(P) = P[1]
           /\ Len(Tail(P)) = Len(P) - 1
           /\ \A i \in 1 .. Len(P) - 1 : Tail(P)[i] = P[i + 1]
  <1>1. PICK S : P \in Seq(S)
    BY DEF Program
  <1>2. Tail(P) \in Seq(S)
    BY <1>1
  <1> QED
    BY <1>1, <1>2 DEF Program

\* One step of a program.
After(m, s) == IF "log" \in DOMAIN s THEN m ELSE Execute(m, s)

\* No hash value is the identifier of a record, nor 0.
HashesApart == \A k \in Keys : HashOf[k] > MaxId

\* The stores of a rehash before which the space in use is not a space.
Switches(s) == "to" \in DOMAIN s /\ s.to \in {"n_garbages", "idx_offset"}

\* The program P leads from m to last.  A search that comes between two of its
\* steps finds one of the contents C, or comes, in a rehash, while it switches.
Leads(m, P, C, rehashing, last) ==
    \E h :
        /\ h[0] = m /\ h[Len(P)] = last
        /\ \A i \in 1 .. Len(P) : h[i] = After(h[i - 1], P[i])
        /\ \A i \in 0 .. Len(P) :
              \/ Content(h[i]) \in C
              \/ ~HashesApart
              \/ rehashing /\ i < Len(P) /\ Switches(P[i + 1])

LEMMA LeadsNowhere ==
    ASSUME NEW m, NEW C, NEW b, HashesApart => Content(m) \in C
    PROVE  Leads(m, <<>>, C, b, m)
  <1> DEFINE h == [i \in {0} |-> m]
  <1>1. Len(<<>>) = 0
    BY EmptyProgram
  <1>2. /\ h[0] = m /\ h[Len(<<>>)] = m
        /\ \A i \in 1 .. Len(<<>>) : h[i] = After(h[i - 1], <<>>[i])
        /\ \A i \in 0 .. Len(<<>>) : Content(h[i]) \in C \/ ~HashesApart
    BY <1>1
  <1> QED
    BY <1>2 DEF Leads

LEMMA LeadsOne ==
    ASSUME NEW m, NEW C, NEW b, NEW s, NEW m1, m1 = After(m, s),
           HashesApart => Content(m) \in C /\ Content(m1) \in C
    PROVE  Leads(m, <<s>>, C, b, m1)
  <1> DEFINE h == [i \in 0 .. 1 |-> IF i = 0 THEN m ELSE m1]
  <1>1. Len(<<s>>) = 1 /\ <<s>>[1] = s
    BY OneStep
  <1>2. h[0] = m /\ h[1] = m1
    OBVIOUS
  <1>3. \A i \in 1 .. Len(<<s>>) : h[i] = After(h[i - 1], <<s>>[i])
    <2>1. \A i \in 1 .. Len(<<s>>) : i = 1
      BY <1>1
    <2>2. h[1] = After(h[1 - 1], <<s>>[1])
      BY <1>1, <1>2
    <2> QED
      BY <2>1, <2>2
  <1>4. \A i \in 0 .. Len(<<s>>) : Content(h[i]) \in C \/ ~HashesApart
    BY <1>1, <1>2
  <1> QED
    BY <1>1, <1>2, <1>3, <1>4 DEF Leads

LEMMA LeadsOn ==
    ASSUME NEW m, NEW P, NEW Q, NEW C, NEW b, NEW m1, NEW m2, Program(P), Program(Q),
           Leads(m, P, C, b, m1), Leads(m1, Q, C, b, m2)
    PROVE  Leads(m, P \o Q, C, b, m2) /\ Program(P \o Q)
  <1>1. PICK f :
           /\ f[0] = m /\ f[Len(P)] = m1
           /\ \A i \in 1 .. Len(P) : f[i] = After(f[i - 1], P[i])
           /\ \A i \in 0 .. Len(P) :
                 \/ Content(f[i]) \in C
                 \/ ~HashesApart
                 \/ b /\ i < Len(P) /\ Switches(P[i + 1])
    BY DEF Leads
  <1>2. PICK g :
           /\ g[0] = m1 /\ g[Len(Q)] = m2
           /\ \A i \in 1 .. Len(Q) : g[i] = After(g[i - 1], Q[i])
           /\ \A i \in 0 .. Len(Q) :
                 \/ Content(g[i]) \in C
                 \/ ~HashesApart
                 \/ b /\ i < Len(Q) /\ Switches(Q[i + 1])
    BY DEF Leads
  <1>3. PICK x \in Nat : x = Len(P)
    BY Concatenation
  <1>4. PICK y \in Nat : y = Len(Q)
    BY Concatenation
  <1>5. /\ Program(P \o Q) /\ Len(P \o Q) = x + y
        /\ \A i \in 1 .. x : (P \o Q)[i] = P[i]
        /\ \A i \in 1 .. y : (P \o Q)[x + i] = Q[i]
    BY <1>3, <1>4, Concatenation
  <1> DEFINE h == [i \in 0 .. x + y |-> IF i <= x THEN f[i] ELSE g[i - x]]
  <1>6. \A i \in 0 .. x : h[i] = f[i]
    OBVIOUS
  <1>7. \A i \in 0 .. y : h[x + i] = g[i]
    <2> TAKE i \in 0 .. y
    <2>1. CASE i = 0
      <3>1. h[x] = f[x]
        BY <1>6
      <3>2. f[x] = g[0]
        BY <1>1, <1>2, <1>3
      <3> QED
        BY <2>1, <3>1, <3>2
    <2>2. CASE i # 0
      <3>1. x + i \in 0 .. x + y /\ ~(x + i <= x) /\ (x + i) - x = i
        BY <2>2
      <3> QED
        BY <3>1
    <2> QED
      BY <2>1, <2>2
  <1> HIDE DEF h
  <1>8. h[0] = m /\ h[x + y] = m2
    <2>1. 0 \in 0 .. x /\ y \in 0 .. y
      OBVIOUS
    <2> QED
      BY <1>1, <1>2, <1>4, <1>6, <1>7, <2>1
  <1>9. ASSUME NEW i \in 1 .. x + y
        PROVE  h[i] = After(h[i - 1], (P \o Q)[i])
    <2>1. CASE i <= x
      <3>1. i \in 1 .. x /\ i \in 0 .. x /\ i - 1 \in 0 .. x
        BY <2>1
      <3> QED
        BY <1>1, <1>3, <1>5, <1>6, <3>1
    <2>2. CASE i > x
      <3>1. PICK j \in 1 .. y : i = x + j
        <4>1. i - x \in 1 .. y /\ i = x + (i - x)
          BY <2>2
        <4> QED
          BY <4>1
      <3>2. j \in 0 .. y /\ j - 1 \in 0 .. y /\ i - 1 = x + (j - 1)
        BY <3>1
      <3>3. h[i] = g[j] /\ h[i - 1] = g[j - 1] /\ (P \o Q)[i] = Q[j]
        BY <1>5, <1>7, <3>1, <3>2
      <3> QED
        BY <1>2, <1>4, <3>1, <3>3
    <2>3. i <= x \/ i > x
      OBVIOUS
    <2> QED
      BY <2>1, <2>2, <2>3, Zenon
  <1>10. ASSUME NEW i \in 0 .. x + y
         PROVE  \/ Content(h[i]) \in C
                \/ ~HashesApart
                \/ b /\ i < x + y /\ Switches((P \o Q)[i + 1])
    <2>1. CASE i < x
      <3>1. i \in 0 .. x /\ i + 1 \in 1 .. x /\ i < x + y
        BY <2>1
      <3> QED
        BY <1>1, <1>3, <1>5, <1>6, <3>1
    <2>2. CASE i >= x
      <3>1. PICK j \in 0 .. y : i = x + j
        <4>1. i - x \in 0 .. y /\ i = x + (i - x)
          BY <2>2
        <4> QED
          BY <4>1
      <3>2. h[i] = g[j]
        BY <1>7, <3>1
      <3>3. j < y => /\ i < x + y /\ j + 1 \in 1 .. y
                     /\ i + 1 = x + (j + 1)
        BY <3>1
      <3>4. j < y => i < x + y /\ (P \o Q)[i + 1] = Q[j + 1]
        BY <1>5, <3>3
      <3> QED
        BY <1>2, <1>4, <3>1, <3>2, <3>4
    <2>3. i < x \/ i >= x
      OBVIOUS
    <2> QED
      BY <2>1, <2>2, <2>3, Zenon
  <1> QED
    BY <1>5, <1>8, <1>9, <1>10 DEF Leads

\* The first step is done.
LEMMA LeadsStep ==
    ASSUME NEW m, NEW P, NEW C, NEW b, NEW last, Program(P), P # <<>>,
           Leads(m, P, C, b, last)
    PROVE  Leads(After(m, Head(P)), Tail(P), C, b, last) /\ Program(Tail(P))
  <1>1. PICK f :
           /\ f[0] = m /\ f[Len(P)] = last
           /\ \A i \in 1 .. Len(P) : f[i] = After(f[i - 1], P[i])
           /\ \A i \in 0 .. Len(P) :
                 \/ Content(f[i]) \in C
                 \/ ~HashesApart
                 \/ b /\ i < Len(P) /\ Switches(P[i + 1])
    BY DEF Leads
  <1>2. PICK x \in Nat \ {0} : x = Len(P)
    BY AfterHead
  <1>3. /\ Program(Tail(P)) /\ Head(P) = P[1] /\ Len(Tail(P)) = x - 1
        /\ \A i \in 1 .. x - 1 : Tail(P)[i] = P[i + 1]
    BY <1>2, AfterHead
  <1> DEFINE h == [i \in 0 .. x - 1 |-> f[i + 1]]
  <1>4. \A i \in 0 .. x - 1 : h[i] = f[i + 1]
    OBVIOUS
  <1> HIDE DEF h
  <1>5. h[0] = After(m, Head(P)) /\ h[x - 1] = last
    <2>1. 1 \in 1 .. x /\ 0 \in 0 .. x - 1 /\ x - 1 \in 0 .. x - 1 /\ (x - 1) + 1 = x
      OBVIOUS
    <2>2. h[0] = f[1] /\ h[x - 1] = f[x]
      BY <1>4, <2>1
    <2>3. f[1] = After(f[1 - 1], P[1])
      BY <1>1, <1>2, <2>1
    <2> QED
      BY <1>1, <1>2, <1>3, <2>2, <2>3
  <1>6. ASSUME NEW i \in 1 .. x - 1
        PROVE  h[i] = After(h[i - 1], Tail(P)[i])
    <2>1. /\ i \in 0 .. x - 1 /\ i - 1 \in 0 .. x - 1 /\ i + 1 \in 1 .. x
          /\ (i - 1) + 1 = i /\ (i + 1) - 1 = i
      OBVIOUS
    <2>2. h[i] = f[i + 1] /\ h[i - 1] = f[i]
      BY <1>4, <2>1
    <2>3. f[i + 1] = After(f[(i + 1) - 1], P[i + 1])
      BY <1>1, <1>2, <2>1
    <2> QED
      BY <1>3, <2>1, <2>2, <2>3
  <1>7. ASSUME NEW i \in 0 .. x - 1
        PROVE  \/ Content(h[i]) \in C
               \/ ~HashesApart
               \/ b /\ i < x - 1 /\ Switches(Tail(P)[i + 1])
    <2>1. /\ i + 1 \in 0 .. x /\ (i + 1 < x => i < x - 1 /\ i + 1 \in 1 .. x - 1)
      OBVIOUS
    <2>2. h[i] = f[i + 1]
      BY <1>4
    <2>3. \/ Content(f[i + 1]) \in C
          \/ ~HashesApart
          \/ b /\ i + 1 < x /\ Switches(P[(i + 1) + 1])
      BY <1>1, <1>2, <2>1
    <2>4. i + 1 < x => Tail(P)[i + 1] = P[(i + 1) + 1]
      BY <1>3, <2>1
    <2> QED
      BY <2>1, <2>2, <2>3, <2>4
  <1> QED
    BY <1>3, <1>5, <1>6, <1>7 DEF Leads

\* What holds now, and when nothing is left.
LEMMA LeadsNow ==
    ASSUME NEW m, NEW P, NEW C, NEW b, NEW last, Program(P), Leads(m, P, C, b, last)
    PROVE  /\ \/ Content(m) \in C
              \/ ~HashesApart
              \/ b /\ P # <<>> /\ Switches(Head(P))
           /\ P = <<>> => m = last
  <1>1. PICK h :
           /\ h[0] = m /\ h[Len(P)] = last
           /\ \A i \in 0 .. Len(P) :
                 \/ Content(h[i]) \in C
                 \/ ~HashesApart
                 \/ b /\ i < Len(P) /\ Switches(P[i + 1])
    BY DEF Leads
  <1>2. CASE P = <<>>
    <2>1. Len(P) = 0
      BY <1>2, EmptyProgram
    <2>2. Content(h[0]) \in C \/ ~HashesApart
      <3>1. 0 \in 0 .. Len(P) /\ ~(0 < Len(P))
        BY <2>1
      <3> QED
        BY <1>1, <3>1
    <2> QED
      BY <1>1, <2>1, <2>2
  <1>3. CASE P # <<>>
    <2>1. Len(P) \in Nat \ {0} /\ Head(P) = P[1]
      BY <1>3, AfterHead
    <2>2. 0 \in 0 .. Len(P) /\ 0 + 1 = 1
      BY <2>1
    <2>3. \/ Content(h[0]) \in C
          \/ ~HashesApart
          \/ b /\ Switches(P[0 + 1])
      BY <1>1, <2>2
    <2> QED
      BY <1>1, <1>3, <2>1, <2>2, <2>3
  <1> QED
    BY <1>2, <1>3

LEMMA LeadsMore ==
    ASSUME NEW m, NEW P, NEW C, NEW b, NEW last, Leads(m, P, C, b, last),
           NEW D, C \subseteq D
    PROVE  Leads(m, P, D, b, last)
  BY DEF Leads

\* An append to the log changes nothing that a search reads.
LEMMA LeadsLog ==
    ASSUME NEW m, NEW e, NEW C, NEW b, HashesApart => Content(m) \in C
    PROVE  Leads(m, Log(e), C, b, m) /\ Program(Log(e))
  <1>1. After(m, [log |-> e]) = m
    BY DEF After
  <1>2. CASE NeedWal
    BY <1>1, <1>2, LeadsOne, OneStep DEF Log
  <1>3. CASE ~NeedWal
    BY <1>3, LeadsNowhere, EmptyProgram DEF Log
  <1> QED
    BY <1>2, <1>3

-----------------------------------------------------------------------------
(* The memory between two operations.                                      *)

Fields == {"index", "idx_offset", "max_offset", "n_entries", "n_garbages", "garbage",
           "curr_rec", "curr_key", "bits", "word", "value", "key_size", "key_offset", "keys"}

\* What an operation may rely on of the parts a search does not read.
Typed(m) ==
    /\ DOMAIN m = Fields
    /\ m.n_entries \in Nat /\ m.n_garbages \in Nat
    /\ m.garbage \in 0 .. MaxId /\ m.curr_rec \in 0 .. MaxId /\ m.curr_key \in Nat
    /\ m.bits \in SUBSET (1 .. m.curr_rec)
    /\ m.value \in [Ids -> Values]
    /\ m.key_size \in [Ids -> {0, 1}] /\ m.key_offset \in [Ids -> Nat]
    /\ m.keys \in [0 .. MaxId - 1 -> Nat]

\* The records that were deleted and not used again.
Free(m) == (1 .. m.curr_rec) \ m.bits

\* g lists them, from the head of the garbage list to its end.
Chained(m, g, n) ==
    /\ g[0] = m.garbage /\ g[n] = NIL
    /\ \A i \in 0 .. n - 1 : g[i] \in Free(m) /\ m.word[g[i]] = g[i + 1]
    /\ \A i, j \in 0 .. n - 1 : g[i] = g[j] => i = j
    /\ \A x \in Free(m) : \E i \in 0 .. n - 1 : g[i] = x

GarbageListed(m) == \E n \in Nat : \E g : Chained(m, g, n)

\* Each record ever made has its own place in the key area, in the order in
\* which they were made, and the rest is blank.
KeyArea(m) ==
    /\ VarSize => /\ m.curr_key = m.curr_rec
                  /\ \A i \in 1 .. m.curr_rec : m.key_size[i] = 1 /\ m.key_offset[i] = i - 1
    /\ \A i \in Ids : i > m.curr_rec => m.key_size[i] = 0 /\ m.value[i] = 0 /\ m.word[i] = 0

\* The space in use holds the live records, each of which has a key.
Owned(m) ==
    /\ \A p \in Space(m) : m.index[p] \in m.bits \cup {NIL, GARBAGE}
    /\ \A i \in m.bits : \E k \in Keys : compare_key(m, i, k)

\* The counters.  An addition that takes a garbage slot for a new record does
\* not count it off: n_garbages may exceed the number of garbage slots.
GarbageSlots(m) == {p \in Space(m) : m.index[p] = GARBAGE}
Counted(m) ==
    /\ m.n_entries = Cardinality(m.bits)
    /\ Cardinality(GarbageSlots(m)) <= m.n_garbages

\* A table that can grow and whose keys are not references has an empty slot.
Roomy(m) ==
    /\ m.max_offset >= 1
    /\ \/ IsReference
       \/ m.max_offset = MaxIndexSize - 1
       \/ m.n_entries + m.n_garbages <= m.max_offset

Sound(m) ==
    /\ Shape(m)
    /\ Typed(m)
    /\ Layout(m, m.bits)
    /\ Owned(m)
    /\ Counted(m)
    /\ Roomy(m)
    /\ KeyArea(m)
    /\ GarbageListed(m)

LEMMA BitsAreIds ==
    ASSUME NEW m, Typed(m)
    PROVE  /\ m.bits \in SUBSET Ids /\ IsFiniteSet(m.bits) /\ Cardinality(m.bits) \in Nat
           /\ 1 .. m.curr_rec \subseteq Ids
  <1>1. m.curr_rec \in 0 .. MaxId /\ MaxId \in Nat
    BY FlagsAssumption DEF Typed
  <1>2. 1 .. m.curr_rec \subseteq Ids
    BY <1>1 DEF Ids
  <1>3. m.bits \in SUBSET Ids
    BY <1>2 DEF Typed
  <1>4. IsFiniteSet(1 .. m.curr_rec)
    BY <1>1, FS_Interval
  <1>5. IsFiniteSet(m.bits)
    BY <1>4, FS_Subset DEF Typed
  <1> QED
    BY <1>2, <1>3, <1>5, FS_CardinalityType

-----------------------------------------------------------------------------
(* One store.                                                              *)

Stored(m, f, v) == [m EXCEPT ![f] = v]

LEMMA StoredFields ==
    ASSUME NEW m, DOMAIN m = Fields, NEW f \in Fields, NEW v
    PROVE  /\ DOMAIN Stored(m, f, v) = Fields
           /\ Stored(m, f, v)[f] = v
           /\ \A g \in Fields : g # f => Stored(m, f, v)[g] = m[g]
  BY DEF Stored

LEMMA LeadsSet ==
    ASSUME NEW m, NEW f, NEW v, NEW C, NEW b,
           HashesApart => Content(m) \in C /\ Content(Stored(m, f, v)) \in C
    PROVE  Leads(m, Set(f, v), C, b, Stored(m, f, v)) /\ Program(Set(f, v))
  <1>1. After(m, [to |-> f, v |-> v]) = Stored(m, f, v)
    BY DEF After, Execute, Stored
  <1>2. Leads(m, <<[to |-> f, v |-> v]>>, C, b, Stored(m, f, v))
    BY <1>1, LeadsOne
  <1> QED
    BY <1>2, OneStep DEF Set

LEMMA LeadsPut ==
    ASSUME NEW m, NEW a, NEW i, NEW v, NEW C, NEW b,
           NEW w, w = [m[a] EXCEPT ![i] = v],
           HashesApart => Content(m) \in C /\ Content(Stored(m, a, w)) \in C
    PROVE  Leads(m, Put(a, i, v), C, b, Stored(m, a, w)) /\ Program(Put(a, i, v))
  <1>1. After(m, [to |-> a, at |-> i, v |-> v]) = Stored(m, a, w)
    BY DEF After, Execute, Stored
  <1>2. Leads(m, <<[to |-> a, at |-> i, v |-> v]>>, C, b, Stored(m, a, w))
    BY <1>1, LeadsOne
  <1> QED
    BY <1>2, OneStep DEF Put

-----------------------------------------------------------------------------
(* An addition on its way: m1 is m with some stores that concern only the  *)
(* record id, its slot p and the counters; no key matches the record yet.  *)

Dead(m, id) == m.word[id] \in 0 .. MaxId \/ (VarSize /\ m.key_size[id] = 0)

Midway(m, m1, id, p) ==
    /\ DOMAIN m1 = Fields
    /\ m1.idx_offset = m.idx_offset /\ m1.max_offset = m.max_offset
    /\ m1.index \in {m.index, [m.index EXCEPT ![p] = id]}
    /\ m1.word \in [Ids -> Nat] /\ m1.value \in [Ids -> Values]
    /\ m1.key_size \in [Ids -> {0, 1}] /\ m1.key_offset \in [Ids -> Nat]
    /\ m1.keys \in [0 .. MaxId - 1 -> Nat]
    /\ \A i \in Ids : i # id =>
          /\ m1.word[i] = m.word[i] /\ m1.value[i] = m.value[i]
          /\ m1.key_size[i] = m.key_size[i] /\ m1.key_offset[i] = m.key_offset[i]
    /\ \A j \in 0 .. MaxId - 1 : j # id - 1 => m1.keys[j] = m.keys[j]

\* A slot of the space in use that an addition may take.
FreeSlot(m, p) == p \in Space(m) /\ m.index[p] \in {NIL, GARBAGE}

LEMMA MidwayStart ==
    ASSUME NEW m, Sound(m), NEW id, NEW p
    PROVE  Midway(m, m, id, p)
  BY DEF Midway, Sound, Shape, Typed

LEMMA MidwayShape ==
    ASSUME NEW m, Sound(m), NEW id \in Ids \ m.bits, NEW p, FreeSlot(m, p),
           NEW m1, Midway(m, m1, id, p)
    PROVE  Shape(m1) /\ SameOn(m, m1, m.bits) /\ Space(m1) = Space(m)
  <1>1. /\ m1.idx_offset = m.idx_offset /\ m1.max_offset = m.max_offset
        /\ m1.word \in [Ids -> Nat]
    BY DEF Midway
  <1>2. m1.index \in [Slots -> Ids \cup {NIL, GARBAGE}]
    <2>1. m.index \in [Slots -> Ids \cup {NIL, GARBAGE}]
      BY DEF Sound, Shape
    <2>2. m1.index = m.index \/ m1.index = [m.index EXCEPT ![p] = id]
      BY DEF Midway
    <2>3. CASE m1.index = m.index
      BY <2>1, <2>3
    <2>4. CASE m1.index = [m.index EXCEPT ![p] = id]
      BY <2>1, <2>4
    <2> QED
      BY <2>2, <2>3, <2>4
  <1>3. Shape(m1)
    BY <1>1, <1>2 DEF Sound, Shape
  <1>4. ASSUME NEW i \in m.bits
        PROVE  /\ m1.word[i] = m.word[i] /\ m1.value[i] = m.value[i]
               /\ m1.key_size[i] = m.key_size[i] /\ m1.key_offset[i] = m.key_offset[i]
               /\ VarSize => m1.keys[m.key_offset[i]] = m.keys[m.key_offset[i]]
    <2>1. i \in Ids /\ i # id /\ i \in 1 .. m.curr_rec
      BY BitsAreIds DEF Sound, Typed
    <2>2. /\ m1.word[i] = m.word[i] /\ m1.value[i] = m.value[i]
          /\ m1.key_size[i] = m.key_size[i] /\ m1.key_offset[i] = m.key_offset[i]
      BY <2>1 DEF Midway
    <2>3. ASSUME VarSize PROVE m1.keys[m.key_offset[i]] = m.keys[m.key_offset[i]]
      <3>1. m.key_offset[i] = i - 1
        BY <2>1, <2>3 DEF Sound, KeyArea
      <3>2. i - 1 \in 0 .. MaxId - 1 /\ i - 1 # id - 1
        BY <2>1, FlagsAssumption DEF Ids
      <3> QED
        BY <3>1, <3>2 DEF Midway
    <2> QED
      BY <2>2, <2>3
  <1> QED
    BY <1>1, <1>3, <1>4 DEF SameOn, Space

\* Until the record has its key a search finds what it found before.
LEMMA MidwayContent ==
    ASSUME NEW m, Sound(m), NEW id \in Ids \ m.bits, NEW p, FreeSlot(m, p),
           NEW m1, Midway(m, m1, id, p), Dead(m1, id), HashesApart
    PROVE  Content(m1) = Content(m)
  <1>1. Shape(m) /\ Shape(m1) /\ SameOn(m, m1, m.bits) /\ Space(m1) = Space(m)
    BY MidwayShape DEF Sound
  <1>2. m.bits \in SUBSET Ids
    BY BitsAreIds DEF Sound
  <1>3. \A k \in Keys : ~compare_key(m1, id, k)
    <2> TAKE k \in Keys
    <2>1. HashOf[k] \in Nat /\ HashOf[k] > MaxId /\ MaxId \in Nat
      BY HashAssumption, FlagsAssumption DEF HashesApart
    <2>2. m1.word[id] = HashOf[k] => m1.word[id] \notin 0 .. MaxId
      BY <2>1
    <2> QED
      BY <2>2 DEF Dead, compare_key
  <1>4. \A q \in Space(m) : m1.index[q] = m.index[q] \/ m1.index[q] = id
    <2>1. m.index \in [Slots -> Ids \cup {NIL, GARBAGE}] /\ Space(m) \subseteq Slots
      BY <1>1, ShapeFacts DEF Shape
    <2>2. m1.index = m.index \/ m1.index = [m.index EXCEPT ![p] = id]
      BY DEF Midway
    <2>3. CASE m1.index = m.index
      BY <2>3
    <2>4. CASE m1.index = [m.index EXCEPT ![p] = id]
      BY <2>1, <2>4
    <2> QED
      BY <2>2, <2>3, <2>4
  <1>5. Placed(m1.index, m1.word, m1.idx_offset, m1.max_offset + 1, m.bits)
    <2>1. /\ m1.idx_offset = m.idx_offset /\ m1.max_offset = m.max_offset
          /\ \A i \in m.bits : m1.word[i] = m.word[i]
          /\ m1.word \in [Ids -> Nat] /\ m.word \in [Ids -> Nat]
          /\ m.index \in [Slots -> Ids \cup {NIL, GARBAGE}]
      BY <1>1 DEF Midway, SameOn, Shape
    <2>2. /\ m.max_offset + 1 \in IndexSizes /\ m.idx_offset \in Nat
          /\ Space(m) \subseteq Slots
      BY <1>1, ShapeFacts
    <2>3. Placed(m.index, m.word, m.idx_offset, m.max_offset + 1, m.bits)
      BY DEF Sound, Layout
    <2>4. CASE m1.index = m.index
      BY <2>1, <2>3, <2>4 DEF Placed
    <2>5. CASE m1.index = [m.index EXCEPT ![p] = id]
      <3>1. /\ p \in SpaceOf(m.idx_offset, m.max_offset + 1) /\ m.index[p] \notin m.bits
            /\ id \notin m.bits /\ id # NIL
        BY <1>2, IdsAreRecords DEF FreeSlot, Space
      <3>2. SpaceOf(m.idx_offset, m.max_offset + 1) \subseteq Slots
        BY <2>2 DEF Space
      <3>3. m.bits \in SUBSET m.bits
        OBVIOUS
      <3>4. Placed([m.index EXCEPT ![p] = id], m1.word, m.idx_offset, m.max_offset + 1, m.bits)
        BY <1>2, <2>1, <2>2, <2>3, <3>1, <3>2, <3>3, PlacedKeep
      <3> QED
        BY <2>1, <2>5, <3>4
    <2> QED
      BY <2>4, <2>5 DEF Midway
  <1>6. Layout(m1, m.bits)
    <2>1. \A q \in Space(m1) :
             \/ m1.index[q] \in m.bits \cup {NIL, GARBAGE}
             \/ \A k \in Keys : ~compare_key(m1, m1.index[q], k)
      BY <1>1, <1>3, <1>4 DEF Sound, Owned
    <2>2. \A i, j \in m.bits, k \in Keys :
             (compare_key(m1, i, k) /\ compare_key(m1, j, k)) => i = j
      <3>1. \A i \in m.bits, k \in Keys : compare_key(m1, i, k) <=> compare_key(m, i, k)
        BY <1>1, SameKeys
      <3> QED
        BY <3>1 DEF Sound, Layout
    <2> QED
      BY <1>5, <2>1, <2>2 DEF Layout
  <1> QED
    BY <1>1, <1>2, <1>6, ContentSame DEF Sound

\* A store to a counter, the head of the garbage list or the bitmap.
HeaderFields == {"n_entries", "n_garbages", "garbage", "curr_rec", "curr_key", "bits"}

LEMMA MidwaySet ==
    ASSUME NEW m, NEW id, NEW p, NEW m1, Midway(m, m1, id, p),
           NEW f \in HeaderFields, NEW v
    PROVE  /\ Midway(m, Stored(m1, f, v), id, p)
           /\ Dead(m1, id) => Dead(Stored(m1, f, v), id)
  <1> DEFINE m2 == Stored(m1, f, v)
  <1>1. f \in Fields /\ DOMAIN m1 = Fields
    BY DEF HeaderFields, Fields, Midway
  <1>2. DOMAIN m2 = Fields /\ \A g \in Fields : g # f => m2[g] = m1[g]
    BY <1>1, StoredFields
  <1> HIDE DEF m2
  <1>3. /\ m2.index = m1.index /\ m2.idx_offset = m1.idx_offset
        /\ m2.max_offset = m1.max_offset /\ m2.word = m1.word /\ m2.value = m1.value
        /\ m2.key_size = m1.key_size /\ m2.key_offset = m1.key_offset /\ m2.keys = m1.keys
    BY <1>2 DEF HeaderFields, Fields
  <1>4. Midway(m, m2, id, p)
    BY <1>2, <1>3 DEF Midway
  <1>5. Dead(m1, id) => Dead(m2, id)
    BY <1>3 DEF Dead
  <1> QED
    BY <1>4, <1>5 DEF m2

\* A store to an array of the entries, at the record, to its slot, or to its
\* place in the key area.
LEMMA MidwayPut ==
    ASSUME NEW m, Sound(m), NEW id \in Ids, NEW p, NEW m1, Midway(m, m1, id, p), NEW v
    PROVE  /\ v \in Nat => Midway(m, Stored(m1, "word", [m1.word EXCEPT ![id] = v]), id, p)
           /\ v \in Values => Midway(m, Stored(m1, "value", [m1.value EXCEPT ![id] = v]), id, p)
           /\ v \in {0, 1} =>
                 Midway(m, Stored(m1, "key_size", [m1.key_size EXCEPT ![id] = v]), id, p)
           /\ v \in Nat =>
                 Midway(m, Stored(m1, "key_offset", [m1.key_offset EXCEPT ![id] = v]), id, p)
           /\ v \in Nat => Midway(m, Stored(m1, "keys", [m1.keys EXCEPT ![id - 1] = v]), id, p)
           /\ m1.index = m.index =>
                 Midway(m, Stored(m1, "index", [m1.index EXCEPT ![p] = id]), id, p)
  <1>1. DOMAIN m1 = Fields
    BY DEF Midway
  <1>2. ASSUME NEW a \in {"word", "value", "key_size", "key_offset", "keys", "index"}, NEW w
        PROVE  /\ DOMAIN Stored(m1, a, w) = Fields /\ Stored(m1, a, w)[a] = w
               /\ \A g \in Fields : g # a => Stored(m1, a, w)[g] = m1[g]
    <2>1. a \in Fields
      BY DEF Fields
    <2> QED
      BY <1>1, <2>1, StoredFields
  <1>3. ASSUME v \in Nat
        PROVE  Midway(m, Stored(m1, "word", [m1.word EXCEPT ![id] = v]), id, p)
    <2> DEFINE w == [m1.word EXCEPT ![id] = v]
               m2 == Stored(m1, "word", w)
    <2>1. m1.word \in [Ids -> Nat]
      BY DEF Midway
    <2>2. w \in [Ids -> Nat] /\ \A i \in Ids : i # id => w[i] = m1.word[i]
      BY <1>3, <2>1
    <2>3. DOMAIN m2 = Fields /\ m2.word = w /\ \A g \in Fields : g # "word" => m2[g] = m1[g]
      BY <1>2
    <2> HIDE DEF m2, w
    <2>4. /\ m2.index = m1.index /\ m2.idx_offset = m1.idx_offset
          /\ m2.max_offset = m1.max_offset /\ m2.value = m1.value
          /\ m2.key_size = m1.key_size /\ m2.key_offset = m1.key_offset /\ m2.keys = m1.keys
      BY <2>3 DEF Fields
    <2>5. Midway(m, m2, id, p)
      BY <2>2, <2>3, <2>4 DEF Midway
    <2> QED
      BY <2>5 DEF m2, w
  <1>4. ASSUME v \in Values
        PROVE  Midway(m, Stored(m1, "value", [m1.value EXCEPT ![id] = v]), id, p)
    <2> DEFINE w == [m1.value EXCEPT ![id] = v]
               m2 == Stored(m1, "value", w)
    <2>1. m1.value \in [Ids -> Values]
      BY DEF Midway
    <2>2. w \in [Ids -> Values] /\ \A i \in Ids : i # id => w[i] = m1.value[i]
      BY <1>4, <2>1
    <2>3. DOMAIN m2 = Fields /\ m2.value = w /\ \A g \in Fields : g # "value" => m2[g] = m1[g]
      BY <1>2
    <2> HIDE DEF m2, w
    <2>4. /\ m2.index = m1.index /\ m2.idx_offset = m1.idx_offset
          /\ m2.max_offset = m1.max_offset /\ m2.word = m1.word
          /\ m2.key_size = m1.key_size /\ m2.key_offset = m1.key_offset /\ m2.keys = m1.keys
      BY <2>3 DEF Fields
    <2>5. Midway(m, m2, id, p)
      BY <2>2, <2>3, <2>4 DEF Midway
    <2> QED
      BY <2>5 DEF m2, w
  <1>5. ASSUME v \in {0, 1}
        PROVE  Midway(m, Stored(m1, "key_size", [m1.key_size EXCEPT ![id] = v]), id, p)
    <2> DEFINE w == [m1.key_size EXCEPT ![id] = v]
               m2 == Stored(m1, "key_size", w)
    <2>1. m1.key_size \in [Ids -> {0, 1}]
      BY DEF Midway
    <2>2. w \in [Ids -> {0, 1}] /\ \A i \in Ids : i # id => w[i] = m1.key_size[i]
      BY <1>5, <2>1
    <2>3. /\ DOMAIN m2 = Fields /\ m2.key_size = w
          /\ \A g \in Fields : g # "key_size" => m2[g] = m1[g]
      BY <1>2
    <2> HIDE DEF m2, w
    <2>4. /\ m2.index = m1.index /\ m2.idx_offset = m1.idx_offset
          /\ m2.max_offset = m1.max_offset /\ m2.word = m1.word
          /\ m2.value = m1.value /\ m2.key_offset = m1.key_offset /\ m2.keys = m1.keys
      BY <2>3 DEF Fields
    <2>5. Midway(m, m2, id, p)
      BY <2>2, <2>3, <2>4 DEF Midway
    <2> QED
      BY <2>5 DEF m2, w
  <1>6. ASSUME v \in Nat
        PROVE  Midway(m, Stored(m1, "key_offset", [m1.key_offset EXCEPT ![id] = v]), id, p)
    <2> DEFINE w == [m1.key_offset EXCEPT ![id] = v]
               m2 == Stored(m1, "key_offset", w)
    <2>1. m1.key_offset \in [Ids -> Nat]
      BY DEF Midway
    <2>2. w \in [Ids -> Nat] /\ \A i \in Ids : i # id => w[i] = m1.key_offset[i]
      BY <1>6, <2>1
    <2>3. /\ DOMAIN m2 = Fields /\ m2.key_offset = w
          /\ \A g \in Fields : g # "key_offset" => m2[g] = m1[g]
      BY <1>2
    <2> HIDE DEF m2, w
    <2>4. /\ m2.index = m1.index /\ m2.idx_offset = m1.idx_offset
          /\ m2.max_offset = m1.max_offset /\ m2.word = m1.word
          /\ m2.value = m1.value /\ m2.key_size = m1.key_size /\ m2.keys = m1.keys
      BY <2>3 DEF Fields
    <2>5. Midway(m, m2, id, p)
      BY <2>2, <2>3, <2>4 DEF Midway
    <2> QED
      BY <2>5 DEF m2, w
  <1>7. ASSUME v \in Nat
        PROVE  Midway(m, Stored(m1, "keys", [m1.keys EXCEPT ![id - 1] = v]), id, p)
    <2> DEFINE w == [m1.keys EXCEPT ![id - 1] = v]
               m2 == Stored(m1, "keys", w)
    <2>1. m1.keys \in [0 .. MaxId - 1 -> Nat]
      BY DEF Midway
    <2>2. /\ w \in [0 .. MaxId - 1 -> Nat]
          /\ \A j \in 0 .. MaxId - 1 : j # id - 1 => w[j] = m1.keys[j]
      BY <1>7, <2>1
    <2>3. /\ DOMAIN m2 = Fields /\ m2.keys = w
          /\ \A g \in Fields : g # "keys" => m2[g] = m1[g]
      BY <1>2
    <2> HIDE DEF m2, w
    <2>4. /\ m2.index = m1.index /\ m2.idx_offset = m1.idx_offset
          /\ m2.max_offset = m1.max_offset /\ m2.word = m1.word
          /\ m2.value = m1.value /\ m2.key_size = m1.key_size
          /\ m2.key_offset = m1.key_offset
      BY <2>3 DEF Fields
    <2>5. Midway(m, m2, id, p)
      BY <2>2, <2>3, <2>4 DEF Midway
    <2> QED
      BY <2>5 DEF m2, w
  <1>8. ASSUME m1.index = m.index
        PROVE  Midway(m, Stored(m1, "index", [m1.index EXCEPT ![p] = id]), id, p)
    <2> DEFINE w == [m1.index EXCEPT ![p] = id]
               m2 == Stored(m1, "index", w)
    <2>1. w = [m.index EXCEPT ![p] = id]
      BY <1>8
    <2>2. /\ DOMAIN m2 = Fields /\ m2.index = w
          /\ \A g \in Fields : g # "index" => m2[g] = m1[g]
      BY <1>2
    <2> HIDE DEF m2, w
    <2>3. /\ m2.idx_offset = m1.idx_offset
          /\ m2.max_offset = m1.max_offset /\ m2.word = m1.word
          /\ m2.value = m1.value /\ m2.key_size = m1.key_size
          /\ m2.key_offset = m1.key_offset /\ m2.keys = m1.keys
      BY <2>2 DEF Fields
    <2>4. Midway(m, m2, id, p)
      BY <2>1, <2>2, <2>3 DEF Midway
    <2> QED
      BY <2>4 DEF m2, w
  <1> QED
    BY <1>3, <1>4, <1>5, <1>6, <1>7, <1>8

\* Each such store leads from one memory on the way to the next.
LEMMA MidwayLeads ==
    ASSUME NEW m, Sound(m), NEW id \in Ids \ m.bits, NEW p, FreeSlot(m, p),
           NEW C, Content(m) \in C, NEW b,
           NEW m1, Midway(m, m1, id, p), Dead(m1, id),
           NEW m2, Midway(m, m2, id, p), Dead(m2, id)
    PROVE  /\ \A f, v : m2 = Stored(m1, f, v) =>
                 Leads(m1, Set(f, v), C, b, m2) /\ Program(Set(f, v))
           /\ \A a, i, v : m2 = Stored(m1, a, [m1[a] EXCEPT ![i] = v]) =>
                 Leads(m1, Put(a, i, v), C, b, m2) /\ Program(Put(a, i, v))
           /\ \A e : Leads(m1, Log(e), C, b, m1) /\ Program(Log(e))
  <1>1. HashesApart => Content(m1) \in C /\ Content(m2) \in C
    <2>1. ASSUME HashesApart PROVE Content(m1) = Content(m) /\ Content(m2) = Content(m)
      BY <2>1, MidwayContent
    <2> QED
      BY <2>1
  <1>2. ASSUME NEW f, NEW v, m2 = Stored(m1, f, v)
        PROVE  Leads(m1, Set(f, v), C, b, m2) /\ Program(Set(f, v))
    BY <1>1, <1>2, LeadsSet
  <1>3. ASSUME NEW a, NEW i, NEW v, m2 = Stored(m1, a, [m1[a] EXCEPT ![i] = v])
        PROVE  Leads(m1, Put(a, i, v), C, b, m2) /\ Program(Put(a, i, v))
    BY <1>1, <1>3, LeadsPut
  <1>4. ASSUME NEW e PROVE Leads(m1, Log(e), C, b, m1) /\ Program(Log(e))
    BY <1>1, LeadsLog
  <1> QED
    BY <1>2, <1>3, <1>4

-----------------------------------------------------------------------------
(* Where an addition goes.                                                 *)

LEMMA SpaceSize ==
    ASSUME NEW off \in Nat, NEW z \in IndexSizes
    PROVE  IsFiniteSet(SpaceOf(off, z)) /\ Cardinality(SpaceOf(off, z)) = z
  <1>1. z \in Nat /\ z >= 1
    BY SizesArePositive
  <1>2. /\ IsFiniteSet(off .. off + z - 1)
        /\ Cardinality(off .. off + z - 1)
             = IF off > off + z - 1 THEN 0 ELSE (off + z - 1) - off + 1
    BY <1>1, FS_Interval
  <1> QED
    BY <1>1, <1>2 DEF SpaceOf

\* A space has room for the records it holds, and is full when every slot
\* holds one.
LEMMA RecordsFit ==
    ASSUME NEW z \in IndexSizes, NEW off \in Nat, NEW L \in SUBSET Ids, IsFiniteSet(L),
           NEW index, NEW word \in [Ids -> Nat], Placed(index, word, off, z, L)
    PROVE  /\ Cardinality(L) <= z
           /\ (\A p \in SpaceOf(off, z) : index[p] \in L) => Cardinality(L) = z
           /\ \A i \in L : \E p \in SpaceOf(off, z) : index[p] = i
  <1>1. IsFiniteSet(SpaceOf(off, z)) /\ Cardinality(SpaceOf(off, z)) = z
    BY SpaceSize
  <1>2. Cardinality(L) \in Nat /\ z \in Nat
    BY FS_CardinalityType, SizesArePositive
  <1>3. \A i \in L : \E p \in SpaceOf(off, z) : index[p] = i
    <2> TAKE i \in L
    <2>1. PICK n \in 0 .. z - 1 : index[Slot(off, z, word[i], n)] = i
      BY DEF Placed
    <2>2. n \in Nat /\ word[i] \in Nat
      BY <1>2
    <2> QED
      BY <2>1, <2>2, SlotType
  <1>4. Cardinality(L) <= z
    <2> DEFINE f == [i \in L |-> CHOOSE p \in SpaceOf(off, z) : index[p] = i]
    <2>1. \A i \in L : f[i] \in SpaceOf(off, z) /\ index[f[i]] = i
      BY <1>3
    <2>2. f \in [L -> SpaceOf(off, z)]
      BY <2>1
    <2>3. \A i, j \in L : f[i] = f[j] => i = j
      BY <2>1
    <2>4. f \in Injection(L, SpaceOf(off, z))
      BY <2>2, <2>3 DEF Injection, IsInjective
    <2> QED
      BY <1>1, <2>4, FS_Injection
  <1>5. ASSUME \A p \in SpaceOf(off, z) : index[p] \in L
        PROVE  Cardinality(L) = z
    <2> DEFINE f == [p \in SpaceOf(off, z) |-> index[p]]
    <2>1. f \in [SpaceOf(off, z) -> L]
      BY <1>5
    <2>2. \A p, q \in SpaceOf(off, z) : f[p] = f[q] => p = q
      BY <1>5 DEF Placed
    <2>3. f \in Injection(SpaceOf(off, z), L)
      BY <2>1, <2>2 DEF Injection, IsInjective
    <2>4. z <= Cardinality(L)
      BY <1>1, <2>3, FS_Injection
    <2> QED
      BY <1>2, <1>4, <2>4
  <1> QED
    BY <1>3, <1>4, <1>5

LEMMA SoundPlaced ==
    ASSUME NEW m, Sound(m)
    PROVE  /\ Shape(m) /\ Typed(m)
           /\ m.bits \in SUBSET Ids /\ IsFiniteSet(m.bits)
           /\ m.index \in [Slots -> Ids \cup {NIL, GARBAGE}] /\ m.word \in [Ids -> Nat]
           /\ m.idx_offset \in Nat /\ m.max_offset \in Nat /\ m.max_offset + 1 \in IndexSizes
           /\ Space(m) = SpaceOf(m.idx_offset, m.max_offset + 1) /\ Space(m) \subseteq Slots
           /\ Placed(m.index, m.word, m.idx_offset, m.max_offset + 1, m.bits)
           /\ m.n_entries = Cardinality(m.bits) /\ m.n_entries \in Nat
           /\ m.n_entries <= m.max_offset + 1
  <1>1. /\ Shape(m) /\ Typed(m)
        /\ Placed(m.index, m.word, m.idx_offset, m.max_offset + 1, m.bits)
        /\ m.n_entries = Cardinality(m.bits) /\ m.n_entries \in Nat
    BY DEF Sound, Layout, Counted, Typed
  <1>2. m.bits \in SUBSET Ids /\ IsFiniteSet(m.bits)
    BY <1>1, BitsAreIds
  <1>3. /\ m.index \in [Slots -> Ids \cup {NIL, GARBAGE}] /\ m.word \in [Ids -> Nat]
        /\ m.idx_offset \in Nat /\ m.max_offset \in Nat /\ m.max_offset + 1 \in IndexSizes
        /\ Space(m) = SpaceOf(m.idx_offset, m.max_offset + 1) /\ Space(m) \subseteq Slots
    BY <1>1, ShapeFacts DEF Shape, Space
  <1>4. Cardinality(m.bits) <= m.max_offset + 1
    BY <1>1, <1>2, <1>3, RecordsFit
  <1> QED
    BY <1>1, <1>2, <1>3, <1>4

\* A table without a free slot is full, or one that needs a rehash.
LEMMA FullTable ==
    ASSUME NEW m, Sound(m), \A p \in Space(m) : m.index[p] \in m.bits
    PROVE  needs_rehash(m) \/ m.n_entries = MaxIndexSize
  <1>1. m.n_entries = m.max_offset + 1
    BY SoundPlaced, RecordsFit
  <1>2. /\ m.n_entries \in Nat /\ m.n_garbages \in Nat /\ m.max_offset \in Nat
        /\ m.max_offset < MaxIndexSize /\ MaxIndexSize \in Nat
    BY MaxSizeType DEF Sound, Typed, Shape
  <1>3. rehash_threshold(m) > m.max_offset
    BY <1>1, <1>2 DEF rehash_threshold
  <1>4. CASE m.max_offset = MaxIndexSize - 1
    BY <1>1, <1>2, <1>4
  <1>5. CASE m.max_offset # MaxIndexSize - 1
    BY <1>3, <1>5 DEF needs_rehash
  <1> QED
    BY <1>4, <1>5

\* grn_hash_add_entry takes a free slot of the probe of its key, and no slot
\* before it on the probe is empty.
LEMMA TargetSlot ==
    ASSUME NEW m, Sound(m), NEW k \in Keys, get(m, k) = NIL,
           ~TableIsFull(m, k), ~needs_rehash(m),
           NEW n, n = TargetTry(m, k),
           NEW p, p = idx_at(m, ProbeHash(HashOf[k], n))
    PROVE  /\ n \in Tries(m) /\ FreeSlot(m, p)
           /\ p = Slot(m.idx_offset, m.max_offset + 1, HashOf[k], n)
           /\ m.index[p] = IF GarbageTries(m, k) # {} THEN GARBAGE ELSE NIL
           /\ \A t \in 0 .. n - 1 :
                 m.index[Slot(m.idx_offset, m.max_offset + 1, HashOf[k], t)] # NIL
           /\ \A i \in m.bits : ~compare_key(m, i, k)
  <1> DEFINE at(t) == Slot(m.idx_offset, m.max_offset + 1, HashOf[k], t)
  <1>1. HashOf[k] \in Nat
    BY HashAssumption
  <1>2. /\ Shape(m) /\ Layout(m, m.bits) /\ m.bits \in SUBSET Ids /\ Tries(m) \subseteq Nat
        /\ Tries(m) = 0 .. m.max_offset /\ m.max_offset \in Nat
    BY SoundPlaced DEF Sound, Tries
  <1>3. \A t \in Tries(m) : Probed(m, HashOf[k], t) = m.index[at(t)] /\ at(t) \in Space(m)
    BY <1>1, <1>2, ShapeFacts
  <1>4. \A i \in m.bits : ~compare_key(m, i, k)
    <2>1. ASSUME NEW i \in m.bits, compare_key(m, i, k) PROVE FALSE
      <3>1. get(m, k) = i
        BY <1>2, <2>1, GetFinds
      <3> QED
        BY <1>2, <3>1, IdsAreRecords
    <2> QED
      BY <2>1
  <1>5. \A t \in Tries(m) : ~Matches(m, k, t)
    BY <1>2, <1>4, GetMisses
  <1>6. Ends(m, k) = {t \in Tries(m) : Probed(m, HashOf[k], t) = NIL}
    BY <1>5 DEF Ends
  <1>7. Ends(m, k) \in SUBSET Nat /\ GarbageTries(m, k) \in SUBSET Nat
    BY <1>2, <1>6 DEF GarbageTries
  <1>8. /\ n \in Tries(m)
        /\ Probed(m, HashOf[k], n) = IF GarbageTries(m, k) # {} THEN GARBAGE ELSE NIL
        /\ \A t \in Tries(m) : t < n => Probed(m, HashOf[k], t) # NIL
    <2>1. CASE GarbageTries(m, k) # {}
      <3>1. n = Min(GarbageTries(m, k))
        BY <2>1 DEF TargetTry
      <3>2. n \in GarbageTries(m, k)
        BY <1>7, <2>1, <3>1, MinOfNaturals
      <3>3. /\ n \in Tries(m) /\ Probed(m, HashOf[k], n) = GARBAGE
            /\ \A e \in Ends(m, k) : n < e
        BY <3>2 DEF GarbageTries
      <3>4. ASSUME NEW t \in Tries(m), t < n PROVE Probed(m, HashOf[k], t) # NIL
        <4>1. t \notin Ends(m, k)
          BY <1>2, <3>3, <3>4
        <4> QED
          BY <1>6, <4>1
      <3> QED
        BY <2>1, <3>3, <3>4
    <2>2. CASE GarbageTries(m, k) = {} /\ Ends(m, k) # {}
      <3>1. n = Min(Ends(m, k))
        BY <2>2 DEF TargetTry
      <3>2. n \in Ends(m, k) /\ \A y \in Ends(m, k) : n <= y
        BY <1>7, <2>2, <3>1, MinOfNaturals
      <3>3. n \in Tries(m) /\ Probed(m, HashOf[k], n) = NIL
        BY <1>6, <3>2
      <3>4. ASSUME NEW t \in Tries(m), t < n PROVE Probed(m, HashOf[k], t) # NIL
        <4>1. t \notin Ends(m, k)
          BY <1>2, <3>2, <3>3, <3>4
        <4> QED
          BY <1>6, <4>1
      <3> QED
        BY <2>2, <3>3, <3>4
    <2>3. CASE GarbageTries(m, k) = {} /\ Ends(m, k) = {}
      <3>1. ASSUME NEW q \in Space(m) PROVE m.index[q] \in m.bits
        <4>1. PICK t \in 0 .. (m.max_offset + 1) - 1 : at(t) = q
          BY <1>1, SoundPlaced, ProbeSurjective
        <4>2. t \in Tries(m)
          BY <1>2, <4>1
        <4>3. Probed(m, HashOf[k], t) = m.index[q]
          BY <1>3, <4>1, <4>2
        <4>4. Probed(m, HashOf[k], t) # NIL
          BY <1>6, <2>3, <4>2
        <4>5. Probed(m, HashOf[k], t) # GARBAGE
          BY <2>3, <4>2 DEF GarbageTries
        <4> QED
          BY <4>3, <4>4, <4>5 DEF Sound, Owned
      <3>2. m.n_entries = MaxIndexSize
        BY <3>1, FullTable
      <3> QED
        BY <2>3, <3>2 DEF TableIsFull
    <2> QED
      BY <2>1, <2>2, <2>3
  <1>9. p = at(n)
    <2>1. n \in Nat
      BY <1>2, <1>8
    <2>2. ProbeHash(HashOf[k], n) \in Nat
      BY <1>1, <2>1, ProbeHashType
    <2>3. /\ m.max_offset + 1 \in Nat /\ m.max_offset + 1 >= 1 /\ m.idx_offset \in Nat
      BY <1>2, ShapeFacts
    <2>4. PICK x \in Nat : x = ProbeHash(HashOf[k], n) % (m.max_offset + 1)
      BY <2>2, <2>3
    <2> QED
      BY <2>3, <2>4 DEF idx_at, Slot
  <1>10. \A t \in 0 .. n - 1 : t \in Tries(m) /\ t < n
    BY <1>2, <1>8
  <1>11. p \in Space(m) /\ m.index[p] = Probed(m, HashOf[k], n)
    BY <1>3, <1>8, <1>9
  <1>12. FreeSlot(m, p)
    BY <1>8, <1>11 DEF FreeSlot
  <1>13. \A t \in 0 .. n - 1 : m.index[at(t)] # NIL
    BY <1>3, <1>8, <1>10
  <1> QED
    BY <1>4, <1>8, <1>9, <1>11, <1>12, <1>13

-----------------------------------------------------------------------------
(* grn_io_hash_add.                                                        *)

\* The memory once all stores of an addition are done.
Added(m, m1, id, p, k) ==
    /\ DOMAIN m1 = Fields
    /\ m1.idx_offset = m.idx_offset /\ m1.max_offset = m.max_offset
    /\ m1.index = [m.index EXCEPT ![p] = id]
    /\ m1.word = [m.word EXCEPT ![id] = HashOf[k]]
    /\ m1.value = [m.value EXCEPT ![id] = 0]
    /\ m1.bits = m.bits \cup {id}
    /\ m1.n_entries = m.n_entries + 1
    /\ m1.key_size = IF VarSize THEN [m.key_size EXCEPT ![id] = 1] ELSE m.key_size
    /\ m1.key_offset = IF VarSize THEN [m.key_offset EXCEPT ![id] = id - 1] ELSE m.key_offset
    /\ m1.keys = IF VarSize THEN [m.keys EXCEPT ![id - 1] = k] ELSE m.keys

\* The slot p an addition of k may take: the n-th of its probe.
Target(m, k, n, p) ==
    /\ n \in Tries(m) /\ FreeSlot(m, p)
    /\ p = Slot(m.idx_offset, m.max_offset + 1, HashOf[k], n)
    /\ \A t \in 0 .. n - 1 :
          m.index[Slot(m.idx_offset, m.max_offset + 1, HashOf[k], t)] # NIL
    /\ \A i \in m.bits : ~compare_key(m, i, k)

LEMMA AddedIsMidway ==
    ASSUME NEW m, Sound(m), NEW id \in Ids, NEW p, NEW k \in Keys, NEW m1,
           Added(m, m1, id, p, k)
    PROVE  Midway(m, m1, id, p)
  <1>1. /\ m.word \in [Ids -> Nat] /\ m.value \in [Ids -> Values]
        /\ m.key_size \in [Ids -> {0, 1}] /\ m.key_offset \in [Ids -> Nat]
        /\ m.keys \in [0 .. MaxId - 1 -> Nat]
    BY DEF Sound, Typed, Shape
  <1>2. HashOf[k] \in Nat /\ k \in Nat /\ 0 \in Values /\ id - 1 \in Nat
    BY HashAssumption, ValuesAssumption, FlagsAssumption DEF Ids
  <1>3. /\ m1.word \in [Ids -> Nat] /\ m1.value \in [Ids -> Values]
        /\ \A i \in Ids : i # id => m1.word[i] = m.word[i] /\ m1.value[i] = m.value[i]
    BY <1>1, <1>2 DEF Added
  <1>4. /\ m1.key_size \in [Ids -> {0, 1}]
        /\ \A i \in Ids : i # id => m1.key_size[i] = m.key_size[i]
    BY <1>1, <1>2 DEF Added
  <1>5. /\ m1.key_offset \in [Ids -> Nat]
        /\ \A i \in Ids : i # id => m1.key_offset[i] = m.key_offset[i]
    BY <1>1, <1>2 DEF Added
  <1>6. /\ m1.keys \in [0 .. MaxId - 1 -> Nat]
        /\ \A j \in 0 .. MaxId - 1 : j # id - 1 => m1.keys[j] = m.keys[j]
    <2>1. CASE VarSize
      <3>1. m1.keys = [m.keys EXCEPT ![id - 1] = k]
        BY <2>1 DEF Added
      <3> QED
        BY <1>1, <1>2, <3>1
    <2>2. CASE ~VarSize
      <3>1. m1.keys = m.keys
        BY <2>2 DEF Added
      <3> QED
        BY <1>1, <3>1
    <2> QED
      BY <2>1, <2>2
  <1> QED
    BY <1>3, <1>4, <1>5, <1>6 DEF Added, Midway

\* A search now finds the new record, and everything else as before.
LEMMA AddedLayout ==
    ASSUME NEW m, Sound(m), NEW id \in Ids \ m.bits, NEW k \in Keys, NEW n, NEW p,
           Target(m, k, n, p), NEW m1, Added(m, m1, id, p, k)
    PROVE  /\ Shape(m1) /\ Layout(m1, m1.bits) /\ Owned(m1)
           /\ Content(m1) = [Content(m) EXCEPT ![k] = 0]
  <1>1. FreeSlot(m, p) /\ Midway(m, m1, id, p)
    BY AddedIsMidway DEF Target
  <1>2. Shape(m1) /\ SameOn(m, m1, m.bits) /\ Space(m1) = Space(m)
    BY <1>1, MidwayShape
  <1>3. m1.bits = m.bits \cup {id} /\ m1.bits \in SUBSET Ids
    BY SoundPlaced DEF Added
  <1>4. m1.word[id] = HashOf[k] /\ m1.value[id] = 0
    <2>1. m.word \in [Ids -> Nat] /\ m.value \in [Ids -> Values] /\ id \in Ids
      BY DEF Sound, Shape, Typed
    <2> QED
      BY <2>1 DEF Added
  <1>5. compare_key(m1, id, k)
    <2>1. ASSUME VarSize PROVE m1.key_size[id] = 1 /\ m1.keys[m1.key_offset[id]] = k
      <3>1. /\ m.key_size \in [Ids -> {0, 1}] /\ m.key_offset \in [Ids -> Nat]
            /\ m.keys \in [0 .. MaxId - 1 -> Nat]
        BY DEF Sound, Typed
      <3>2. id - 1 \in 0 .. MaxId - 1
        BY FlagsAssumption DEF Ids
      <3>3. m1.key_size[id] = 1 /\ m1.key_offset[id] = id - 1 /\ m1.keys[id - 1] = k
        BY <2>1, <3>1, <3>2 DEF Added
      <3> QED
        BY <3>3
    <2> QED
      BY <1>4, <2>1 DEF compare_key
  <1>6. \A i \in m.bits, j \in Keys : compare_key(m1, i, j) <=> compare_key(m, i, j)
    BY <1>2, SameKeys
  <1>7. \A q \in Space(m) : m1.index[q] = m.index[q] \/ m1.index[q] = id
    BY SoundPlaced DEF Added
  <1>8. Placed(m1.index, m1.word, m1.idx_offset, m1.max_offset + 1, m1.bits)
    <2>1. /\ \A i \in m.bits : m1.word[i] = m.word[i]
          /\ m1.word \in [Ids -> Nat]
      BY <1>2 DEF SameOn, Shape
    <2>2. \A q \in SpaceOf(m.idx_offset, m.max_offset + 1) : m.index[q] # id
      <3>1. id # NIL /\ id # GARBAGE
        BY IdsAreRecords
      <3> QED
        BY <3>1, SoundPlaced DEF Sound, Owned
    <2>3. n \in 0 .. (m.max_offset + 1) - 1
      BY SoundPlaced, ShapeFacts DEF Target
    <2>4. /\ p = Slot(m.idx_offset, m.max_offset + 1, m1.word[id], n)
          /\ m.index[p] \in {NIL, GARBAGE}
          /\ \A t \in 0 .. n - 1 :
                m.index[Slot(m.idx_offset, m.max_offset + 1, m1.word[id], t)] # NIL
      BY <1>4 DEF Target, FreeSlot
    <2>5. Placed([m.index EXCEPT ![p] = id], m1.word, m.idx_offset, m.max_offset + 1,
                 m.bits \cup {id})
      BY <2>1, <2>2, <2>3, <2>4, SoundPlaced, PlacedAdd
    <2> QED
      BY <1>3, <2>5 DEF Added
  <1>9. Layout(m1, m1.bits)
    <2>1. \A q \in Space(m1) : m1.index[q] \in m1.bits \cup {NIL, GARBAGE}
      BY <1>2, <1>3, <1>7 DEF Sound, Owned
    <2>2. \A i, j \in m1.bits, l \in Keys :
             (compare_key(m1, i, l) /\ compare_key(m1, j, l)) => i = j
      <3>1. \A i, j \in m.bits, l \in Keys :
               (compare_key(m1, i, l) /\ compare_key(m1, j, l)) => i = j
        BY <1>6 DEF Sound, Layout
      <3>2. \A i \in m.bits, l \in Keys :
               ~(compare_key(m1, i, l) /\ compare_key(m1, id, l))
        <4>1. SUFFICES ASSUME NEW i \in m.bits, NEW l \in Keys,
                              compare_key(m1, i, l), compare_key(m1, id, l)
                       PROVE  FALSE
          OBVIOUS
        <4>2. l = k
          BY <1>5, <4>1, OneKey
        <4> QED
          BY <1>6, <4>1, <4>2 DEF Target
      <3> QED
        BY <1>3, <3>1, <3>2
    <2> QED
      BY <1>8, <2>1, <2>2 DEF Layout
  <1>10. Owned(m1)
    <2>1. \A q \in Space(m1) : m1.index[q] \in m1.bits \cup {NIL, GARBAGE}
      BY <1>2, <1>3, <1>7 DEF Sound, Owned
    <2>2. \A i \in m1.bits : \E j \in Keys : compare_key(m1, i, j)
      BY <1>3, <1>5, <1>6 DEF Sound, Owned
    <2> QED
      BY <2>1, <2>2 DEF Owned
  <1>11. Content(m1) = [Content(m) EXCEPT ![k] = m1.value[id]]
    <2>1. \A i \in m.bits : ~compare_key(m, i, k)
      BY DEF Target
    <2>2. Shape(m) /\ Layout(m, m.bits) /\ m.bits \in SUBSET Ids
      BY SoundPlaced DEF Sound
    <2>3. Layout(m1, m.bits \cup {id})
      BY <1>3, <1>9
    <2> QED
      BY <1>2, <1>5, <2>1, <2>2, <2>3, ContentAdd
  <1> QED
    BY <1>2, <1>4, <1>9, <1>10, <1>11

\* The head of the garbage list is a record that may be used again.
LEMMA GarbageHead ==
    ASSUME NEW m, Sound(m)
    PROVE  /\ m.garbage # NIL => /\ m.garbage \in Free(m) /\ m.garbage \in Ids \ m.bits
                                 /\ m.word[m.garbage] \in 0 .. MaxId
           /\ m.garbage = NIL => Free(m) = {}
  <1>1. PICK n \in Nat : \E f : Chained(m, f, n)
    BY DEF Sound, GarbageListed
  <1>2. PICK g : Chained(m, g, n)
    BY <1>1
  <1>3. Free(m) \subseteq Ids \ m.bits
    BY SoundPlaced, BitsAreIds DEF Free
  <1>4. ASSUME m.garbage # NIL
        PROVE  /\ m.garbage \in Free(m) /\ m.garbage \in Ids \ m.bits
               /\ m.word[m.garbage] \in 0 .. MaxId
    <2>1. n # 0
      BY <1>2, <1>4 DEF Chained
    <2>2. 0 \in 0 .. n - 1 /\ 0 + 1 = 1 /\ (1 = n \/ 1 \in 0 .. n - 1)
      BY <2>1
    <2>3. g[0] \in Free(m) /\ m.word[g[0]] = g[1]
      BY <1>2, <2>2 DEF Chained
    <2>4. g[1] = NIL \/ g[1] \in Free(m)
      BY <1>2, <2>2 DEF Chained
    <2>5. g[1] \in 0 .. MaxId
      BY <1>3, <2>4, FlagsAssumption DEF NIL, Ids
    <2> QED
      BY <1>2, <1>3, <2>3, <2>5 DEF Chained
  <1>5. ASSUME m.garbage = NIL PROVE Free(m) = {}
    <2>1. n = 0
      <3>1. ASSUME n # 0 PROVE FALSE
        <4>1. 0 \in 0 .. n - 1
          BY <3>1
        <4>2. g[0] \in Ids
          BY <1>2, <1>3, <4>1 DEF Chained
        <4> QED
          BY <1>2, <1>5, <4>2, IdsAreRecords DEF Chained
      <3> QED
        BY <3>1
    <2>2. \A i : i \notin 0 .. n - 1
      BY <2>1
    <2> QED
      BY <1>2, <2>2 DEF Chained
  <1> QED
    BY <1>4, <1>5

\* The record an addition uses, and what it does to the list and the counters.
Reused(m, m1, id, p) ==
    /\ m.garbage # NIL /\ id = m.garbage
    /\ m1.garbage = m.word[id]
    /\ m1.curr_rec = m.curr_rec /\ m1.curr_key = m.curr_key
    /\ m1.n_garbages = IF m.index[p] = GARBAGE THEN m.n_garbages - 1 ELSE m.n_garbages

Made(m, m1, id) ==
    /\ m.garbage = NIL /\ m.curr_rec < MaxId /\ id = m.curr_rec + 1
    /\ m1.garbage = m.garbage /\ m1.n_garbages = m.n_garbages
    /\ m1.curr_rec = id
    /\ m1.curr_key = IF VarSize THEN m.curr_key + 1 ELSE m.curr_key

LEMMA NewRecord ==
    ASSUME NEW m, Sound(m), NEW m1, NEW id, NEW p, Reused(m, m1, id, p) \/ Made(m, m1, id)
    PROVE  id \in Ids \ m.bits
  <1>1. CASE Reused(m, m1, id, p)
    BY <1>1, GarbageHead DEF Reused
  <1>2. CASE Made(m, m1, id)
    <2>1. m.curr_rec \in Nat /\ m.bits \in SUBSET (1 .. m.curr_rec) /\ m.curr_rec < MaxId
          /\ id = m.curr_rec + 1 /\ MaxId \in Nat
      BY <1>2, FlagsAssumption DEF Made, Sound, Typed
    <2> QED
      BY <2>1 DEF Ids
  <1> QED
    BY <1>1, <1>2

LEMMA AddedCounted ==
    ASSUME NEW m, Sound(m), NEW id \in Ids \ m.bits, NEW k \in Keys, NEW p, FreeSlot(m, p),
           NEW m1, Added(m, m1, id, p, k)
    PROVE  /\ m1.n_entries = Cardinality(m1.bits)
           /\ GarbageSlots(m1) = GarbageSlots(m) \ {p}
           /\ IsFiniteSet(GarbageSlots(m)) /\ Cardinality(GarbageSlots(m)) \in Nat
           /\ Cardinality(GarbageSlots(m1)) <= Cardinality(GarbageSlots(m))
           /\ m.index[p] = GARBAGE =>
                 Cardinality(GarbageSlots(m1)) = Cardinality(GarbageSlots(m)) - 1
  <1>1. m1.n_entries = Cardinality(m1.bits)
    <2>1. IsFiniteSet(m.bits) /\ m.n_entries = Cardinality(m.bits)
      BY SoundPlaced
    <2>2. Cardinality(m.bits \cup {id}) = Cardinality(m.bits) + 1
      BY <2>1, FS_AddElement
    <2> QED
      BY <2>1, <2>2 DEF Added
  <1>2. Space(m1) = Space(m)
    BY DEF Added, Space
  <1>3. m.index \in [Slots -> Ids \cup {NIL, GARBAGE}] /\ Space(m) \subseteq Slots
    BY SoundPlaced
  <1>4. GarbageSlots(m1) = GarbageSlots(m) \ {p}
    <2>1. m1.index = [m.index EXCEPT ![p] = id]
      BY DEF Added
    <2>2. id # GARBAGE
      BY IdsAreRecords
    <2> QED
      BY <1>2, <1>3, <2>1, <2>2 DEF GarbageSlots
  <1>5. IsFiniteSet(GarbageSlots(m))
    <2>1. IsFiniteSet(Space(m))
      BY SoundPlaced, SpaceSize
    <2>2. GarbageSlots(m) \subseteq Space(m)
      BY DEF GarbageSlots
    <2> QED
      BY <2>1, <2>2, FS_Subset
  <1>6. /\ IsFiniteSet(GarbageSlots(m) \ {p})
        /\ Cardinality(GarbageSlots(m) \ {p})
             = IF p \in GarbageSlots(m) THEN Cardinality(GarbageSlots(m)) - 1
                                        ELSE Cardinality(GarbageSlots(m))
    BY <1>5, FS_RemoveElement
  <1>7. Cardinality(GarbageSlots(m)) \in Nat
    BY <1>5, FS_CardinalityType
  <1>8. m.index[p] = GARBAGE => p \in GarbageSlots(m)
    BY DEF FreeSlot, GarbageSlots
  <1> QED
    BY <1>1, <1>4, <1>5, <1>6, <1>7, <1>8

\* The garbage list once its head, or nothing, is taken off.
LEMMA AddedGarbage ==
    ASSUME NEW m, Sound(m), NEW id, NEW k, NEW p, NEW m1, Added(m, m1, id, p, k),
           Reused(m, m1, id, p) \/ Made(m, m1, id)
    PROVE  GarbageListed(m1)
  <1>1. PICK n \in Nat : \E f : Chained(m, f, n)
    BY DEF Sound, GarbageListed
  <1>2. PICK g : Chained(m, g, n)
    BY <1>1
  <1>3. id \in Ids \ m.bits /\ m1.bits = m.bits \cup {id} /\ m.word \in [Ids -> Nat]
        /\ m1.word = [m.word EXCEPT ![id] = HashOf[k]]
    BY NewRecord, SoundPlaced DEF Added
  <1>4. Free(m) \subseteq Ids
    BY SoundPlaced, BitsAreIds DEF Free
  <1>5. CASE Reused(m, m1, id, p)
    <2> DEFINE f == [i \in 0 .. n - 1 |-> g[i + 1]]
    <2>1. n # 0 /\ id = g[0] /\ id # NIL
      BY <1>2, <1>5 DEF Chained, Reused
    <2>2. n - 1 \in Nat /\ 0 \in 0 .. n - 1
      BY <2>1
    <2>3. Free(m1) = Free(m) \ {id}
      BY <1>3, <1>5 DEF Reused, Free
    <2>4. \A i \in 0 .. n - 1 : f[i] = g[i + 1]
      OBVIOUS
    <2> HIDE DEF f
    <2>5. f[0] = m1.garbage /\ f[n - 1] = NIL
      <3>1. f[0] = g[1] /\ f[n - 1] = g[n] /\ 0 + 1 = 1
        BY <2>2, <2>4
      <3>2. m.word[g[0]] = g[0 + 1]
        BY <1>2, <2>2 DEF Chained
      <3> QED
        BY <1>2, <1>5, <2>1, <3>1, <3>2 DEF Chained, Reused
    <2>6. ASSUME NEW i \in 0 .. (n - 1) - 1
          PROVE  f[i] \in Free(m1) /\ m1.word[f[i]] = f[i + 1]
      <3>1. /\ i \in 0 .. n - 1 /\ i + 1 \in 0 .. n - 1 /\ i + 1 # 0
        BY <2>2
      <3>2. g[i + 1] \in Free(m) /\ m.word[g[i + 1]] = g[(i + 1) + 1] /\ g[i + 1] # g[0]
        BY <1>2, <2>2, <3>1 DEF Chained
      <3>3. f[i] = g[i + 1] /\ f[i + 1] = g[(i + 1) + 1]
        BY <2>4, <3>1
      <3>4. m1.word[g[i + 1]] = m.word[g[i + 1]]
        BY <1>3, <1>4, <2>1, <3>2
      <3> QED
        BY <2>1, <2>3, <3>2, <3>3, <3>4
    <2>7. ASSUME NEW i \in 0 .. (n - 1) - 1, NEW j \in 0 .. (n - 1) - 1, f[i] = f[j]
          PROVE  i = j
      <3>1. /\ i \in 0 .. n - 1 /\ i + 1 \in 0 .. n - 1
            /\ j \in 0 .. n - 1 /\ j + 1 \in 0 .. n - 1
        BY <2>2
      <3>2. g[i + 1] = g[j + 1]
        BY <2>4, <2>7, <3>1
      <3>3. i + 1 = j + 1
        BY <1>2, <3>1, <3>2 DEF Chained
      <3> QED
        BY <3>3
    <2>8. ASSUME NEW x \in Free(m1) PROVE \E i \in 0 .. (n - 1) - 1 : f[i] = x
      <3>1. x \in Free(m) /\ x # g[0]
        BY <2>1, <2>3
      <3>2. PICK j \in 0 .. n - 1 : g[j] = x
        BY <1>2, <3>1 DEF Chained
      <3>3. j # 0
        BY <3>1, <3>2
      <3>4. j - 1 \in 0 .. (n - 1) - 1 /\ j - 1 \in 0 .. n - 1 /\ (j - 1) + 1 = j
        BY <3>3
      <3>5. f[j - 1] = x
        BY <2>4, <3>2, <3>4
      <3> QED
        BY <3>4, <3>5
    <2>9. Chained(m1, f, n - 1)
      BY <2>5, <2>6, <2>7, <2>8 DEF Chained
    <2> QED
      BY <2>2, <2>9 DEF GarbageListed
  <1>6. CASE Made(m, m1, id)
    <2>1. Free(m) = {} /\ m.garbage = NIL
      BY <1>6, GarbageHead DEF Made
    <2>2. Free(m1) = {}
      <3>1. m.curr_rec \in Nat /\ m1.curr_rec = m.curr_rec + 1 /\ id = m.curr_rec + 1
        BY <1>6 DEF Made, Sound, Typed
      <3>2. ASSUME NEW x \in Free(m1) PROVE FALSE
        <4>1. x \in 1 .. m.curr_rec + 1 /\ x # id /\ x \notin m.bits
          BY <1>3, <3>1, <3>2 DEF Free
        <4>2. x \in 1 .. m.curr_rec
          BY <3>1, <4>1
        <4> QED
          BY <2>1, <4>1, <4>2 DEF Free
      <3> QED
        BY <3>2
    <2> DEFINE f == [i \in {0} |-> NIL]
    <2>3. \A i : i \notin 0 .. 0 - 1
      OBVIOUS
    <2>4. f[0] = m1.garbage /\ f[0] = NIL
      BY <1>6, <2>1 DEF Made
    <2> HIDE DEF f
    <2>5. Chained(m1, f, 0)
      BY <2>2, <2>3, <2>4 DEF Chained
    <2> QED
      BY <2>5 DEF GarbageListed
  <1> QED
    BY <1>5, <1>6

LEMMA AddedSound ==
    ASSUME NEW m, Sound(m), ~needs_rehash(m), NEW k \in Keys, NEW n, NEW p,
           Target(m, k, n, p), NEW id, NEW m1, Added(m, m1, id, p, k),
           Reused(m, m1, id, p) \/ Made(m, m1, id)
    PROVE  Sound(m1) /\ Content(m1) = [Content(m) EXCEPT ![k] = 0]
  <1>1. id \in Ids \ m.bits /\ FreeSlot(m, p)
    BY NewRecord DEF Target
  <1>2. /\ Shape(m1) /\ Layout(m1, m1.bits) /\ Owned(m1)
        /\ Content(m1) = [Content(m) EXCEPT ![k] = 0]
    BY <1>1, AddedLayout
  <1>3. /\ m1.n_entries = Cardinality(m1.bits)
        /\ Cardinality(GarbageSlots(m)) \in Nat
        /\ Cardinality(GarbageSlots(m1)) <= Cardinality(GarbageSlots(m))
        /\ m.index[p] = GARBAGE =>
              Cardinality(GarbageSlots(m1)) = Cardinality(GarbageSlots(m)) - 1
        /\ IsFiniteSet(GarbageSlots(m1))
    <2>1. /\ m1.n_entries = Cardinality(m1.bits)
          /\ GarbageSlots(m1) = (GarbageSlots(m) \ {p})
          /\ IsFiniteSet(GarbageSlots(m)) /\ Cardinality(GarbageSlots(m)) \in Nat
          /\ Cardinality(GarbageSlots(m1)) <= Cardinality(GarbageSlots(m))
          /\ m.index[p] = GARBAGE =>
                Cardinality(GarbageSlots(m1)) = Cardinality(GarbageSlots(m)) - 1
      BY <1>1, AddedCounted
    <2>2. IsFiniteSet(GarbageSlots(m) \ {p})
      BY <2>1, FS_RemoveElement
    <2> QED
      BY <2>1, <2>2
  <1>4. Cardinality(GarbageSlots(m1)) \in Nat
    BY <1>3, FS_CardinalityType
  <1>5. m.n_garbages \in Nat /\ Cardinality(GarbageSlots(m)) <= m.n_garbages
    BY DEF Sound, Typed, Counted
  <1>6. /\ m1.n_garbages \in Nat /\ Cardinality(GarbageSlots(m1)) <= m1.n_garbages
        /\ m1.n_garbages <= m.n_garbages
    <2>1. \/ m1.n_garbages = m.n_garbages
          \/ m1.n_garbages = m.n_garbages - 1 /\ m.index[p] = GARBAGE
      BY DEF Reused, Made
    <2> QED
      BY <1>3, <1>4, <1>5, <2>1
  <1>7. Counted(m1)
    BY <1>3, <1>6 DEF Counted
  <1>8. m.n_entries \in Nat /\ m.max_offset \in Nat /\ m1.n_entries = m.n_entries + 1
        /\ m1.max_offset = m.max_offset
    BY DEF Sound, Typed, Shape, Added
  <1>9. Roomy(m1)
    <2>1. m.max_offset >= 1
      BY DEF Sound, Roomy
    <2>2. \/ IsReference
          \/ m.max_offset = MaxIndexSize - 1
          \/ (m.n_entries + m.n_garbages) * 2 <= m.max_offset
      BY <1>5, <1>8 DEF needs_rehash, rehash_threshold
    <2> QED
      BY <1>5, <1>6, <1>8, <2>1, <2>2 DEF Roomy
  <1>10. /\ m.garbage \in 0 .. MaxId /\ m.curr_rec \in 0 .. MaxId /\ m.curr_key \in Nat
         /\ m.bits \in SUBSET (1 .. m.curr_rec) /\ MaxId \in Nat
    BY FlagsAssumption DEF Sound, Typed
  <1>11. /\ m1.garbage \in 0 .. MaxId /\ m1.curr_rec \in 0 .. MaxId /\ m1.curr_key \in Nat
         /\ m1.bits \in SUBSET (1 .. m1.curr_rec)
    <2>1. m1.bits = m.bits \cup {id}
      BY DEF Added
    <2>2. CASE Reused(m, m1, id, p)
      <3>1. /\ m1.garbage \in 0 .. MaxId /\ m1.curr_rec = m.curr_rec
            /\ m1.curr_key = m.curr_key /\ id \in 1 .. m.curr_rec
        BY <2>2, GarbageHead DEF Reused, Free
      <3> QED
        BY <1>10, <2>1, <3>1
    <2>3. CASE Made(m, m1, id)
      <3>1. /\ m1.garbage = m.garbage /\ m1.curr_rec = m.curr_rec + 1 /\ id = m.curr_rec + 1
            /\ m1.curr_key \in {m.curr_key, m.curr_key + 1} /\ m.curr_rec < MaxId
        BY <2>3 DEF Made
      <3> QED
        BY <1>10, <2>1, <3>1
    <2> QED
      BY <2>2, <2>3
  <1>12. Midway(m, m1, id, p)
    BY <1>1, AddedIsMidway
  <1>13. Typed(m1)
    BY <1>6, <1>8, <1>11, <1>12 DEF Typed, Midway
  <1>14. KeyArea(m1)
    <2>1. \A i \in Ids : i # id =>
             /\ m1.word[i] = m.word[i] /\ m1.value[i] = m.value[i]
             /\ m1.key_size[i] = m.key_size[i] /\ m1.key_offset[i] = m.key_offset[i]
      BY <1>12 DEF Midway
    <2>2. m1.curr_rec \in {m.curr_rec, m.curr_rec + 1} /\ id <= m1.curr_rec
          /\ (m1.curr_rec = m.curr_rec + 1 => id = m.curr_rec + 1)
          /\ (VarSize /\ m.curr_key = m.curr_rec => m1.curr_key = m1.curr_rec)
      <3>1. CASE Reused(m, m1, id, p)
        <4>1. m1.curr_rec = m.curr_rec /\ id \in 1 .. m.curr_rec /\ m1.curr_key = m.curr_key
          BY <3>1, GarbageHead DEF Reused, Free
        <4> QED
          BY <1>10, <4>1
      <3>2. CASE Made(m, m1, id)
        BY <1>10, <3>2 DEF Made
      <3> QED
        BY <3>1, <3>2
    <2>3. VarSize => m1.key_size[id] = 1 /\ m1.key_offset[id] = id - 1
      <3>1. m.key_size \in [Ids -> {0, 1}] /\ m.key_offset \in [Ids -> Nat] /\ id \in Ids
        BY <1>1 DEF Sound, Typed
      <3> QED
        BY <3>1 DEF Added
    <2>4. ASSUME VarSize, NEW i \in 1 .. m1.curr_rec
          PROVE  m1.key_size[i] = 1 /\ m1.key_offset[i] = i - 1
      <3>1. CASE i = id
        BY <2>3, <2>4, <3>1
      <3>2. CASE i # id
        <4>1. i \in 1 .. m.curr_rec
          BY <1>10, <2>2, <3>2
        <4>2. i \in Ids
          BY <1>10, <4>1 DEF Ids
        <4>3. m.key_size[i] = 1 /\ m.key_offset[i] = i - 1
          BY <2>4, <4>1 DEF Sound, KeyArea
        <4> QED
          BY <2>1, <3>2, <4>2, <4>3
      <3> QED
        BY <3>1, <3>2
    <2>5. ASSUME NEW i \in Ids, i > m1.curr_rec
          PROVE  m1.key_size[i] = 0 /\ m1.value[i] = 0 /\ m1.word[i] = 0
      <3>1. i # id /\ i > m.curr_rec
        BY <1>1, <1>10, <2>2, <2>5 DEF Ids
      <3> QED
        BY <2>1, <3>1 DEF Sound, KeyArea
    <2>6. VarSize => m1.curr_key = m1.curr_rec
      BY <2>2 DEF Sound, KeyArea
    <2> QED
      BY <2>4, <2>5, <2>6 DEF KeyArea
  <1>15. GarbageListed(m1)
    BY AddedGarbage
  <1> QED
    BY <1>2, <1>7, <1>9, <1>13, <1>14, <1>15 DEF Sound

-----------------------------------------------------------------------------
(* The stores of an addition, up to the one that gives the record its key. *)

\* The program P leads from x, a memory on the way of the addition, to y, which
\* is another one.
Goes(m, id, p, C, x, P, y) ==
    /\ Leads(x, P, C, FALSE, y) /\ Program(P)
    /\ Midway(m, y, id, p) /\ Dead(y, id)

LEMMA GoesOn ==
    ASSUME NEW m, NEW id, NEW p, NEW C, NEW x, NEW P, NEW y, NEW Q, NEW z,
           Goes(m, id, p, C, x, P, y), Goes(m, id, p, C, y, Q, z)
    PROVE  Goes(m, id, p, C, x, P \o Q, z)
  BY LeadsOn DEF Goes

LEMMA GoesStore ==
    ASSUME NEW m, Sound(m), NEW id \in Ids \ m.bits, NEW p, FreeSlot(m, p),
           NEW C, Content(m) \in C, NEW x, Midway(m, x, id, p), Dead(x, id)
    PROVE  /\ \A e : Goes(m, id, p, C, x, Log(e), x)
           /\ Goes(m, id, p, C, x, <<>>, x)
           /\ \A f \in HeaderFields : \A v : Goes(m, id, p, C, x, Set(f, v), Stored(x, f, v))
           /\ Goes(m, id, p, C, x, Put("value", id, 0),
                   Stored(x, "value", [x.value EXCEPT ![id] = 0]))
           /\ \A v \in Nat : Goes(m, id, p, C, x, Put("key_offset", id, v),
                                  Stored(x, "key_offset", [x.key_offset EXCEPT ![id] = v]))
           /\ \A v \in Nat : Goes(m, id, p, C, x, Put("keys", id - 1, v),
                                  Stored(x, "keys", [x.keys EXCEPT ![id - 1] = v]))
           /\ x.index = m.index =>
                 Goes(m, id, p, C, x, Put("index", p, id),
                      Stored(x, "index", [x.index EXCEPT ![p] = id]))
           /\ \A v \in Nat : v = 0 \/ (VarSize /\ x.key_size[id] = 0) =>
                 Goes(m, id, p, C, x, Put("word", id, v),
                      Stored(x, "word", [x.word EXCEPT ![id] = v]))
  <1>1. /\ DOMAIN x = Fields /\ x.word \in [Ids -> Nat] /\ id \in Ids /\ 0 \in Values
        /\ 0 \in Nat
    BY ValuesAssumption DEF Midway
  <1>2. ASSUME NEW e PROVE Goes(m, id, p, C, x, Log(e), x)
    BY MidwayLeads DEF Goes
  <1>3. Goes(m, id, p, C, x, <<>>, x)
    <2>1. HashesApart => Content(x) \in C
      BY MidwayContent
    <2> QED
      BY <2>1, LeadsNowhere, EmptyProgram DEF Goes
  <1>4. ASSUME NEW f \in HeaderFields, NEW v
        PROVE  Goes(m, id, p, C, x, Set(f, v), Stored(x, f, v))
    <2>1. Midway(m, Stored(x, f, v), id, p) /\ Dead(Stored(x, f, v), id)
      BY MidwaySet
    <2> QED
      BY <2>1, MidwayLeads DEF Goes
  <1>5. ASSUME NEW a \in {"value", "key_offset", "keys", "index", "word"}, NEW i, NEW v, NEW w,
               w = [x[a] EXCEPT ![i] = v], Midway(m, Stored(x, a, w), id, p),
               a # "word" \/ (v = 0 /\ i = id) \/ (VarSize /\ x.key_size[id] = 0)
        PROVE  Goes(m, id, p, C, x, Put(a, i, v), Stored(x, a, w))
    <2> DEFINE y == Stored(x, a, w)
    <2>1. a \in Fields
      BY DEF Fields
    <2>2. y[a] = w /\ \A g \in Fields : g # a => y[g] = x[g]
      BY <1>1, <2>1, StoredFields
    <2> HIDE DEF y
    <2>3. y.key_size = x.key_size /\ (a # "word" => y.word = x.word)
      BY <2>2 DEF Fields
    <2>4. Dead(y, id)
      <3>1. CASE a # "word"
        BY <2>3, <3>1 DEF Dead
      <3>2. CASE a = "word" /\ v = 0 /\ i = id
        <4>1. y.word[id] = 0
          BY <1>1, <1>5, <2>2, <3>2
        <4>2. 0 \in 0 .. MaxId
          BY FlagsAssumption
        <4> QED
          BY <4>1, <4>2 DEF Dead
      <3>3. CASE VarSize /\ x.key_size[id] = 0
        BY <2>3, <3>3 DEF Dead
      <3> QED
        BY <1>5, <3>1, <3>2, <3>3
    <2>5. Leads(x, Put(a, i, v), C, FALSE, y) /\ Program(Put(a, i, v))
      <3>1. Midway(m, y, id, p) /\ y = Stored(x, a, [x[a] EXCEPT ![i] = v])
        BY <1>5 DEF y
      <3> QED
        BY <2>4, <3>1, MidwayLeads
    <2> QED
      BY <1>5, <2>4, <2>5 DEF Goes, y
  <1>6. Goes(m, id, p, C, x, Put("value", id, 0),
             Stored(x, "value", [x.value EXCEPT ![id] = 0]))
    BY <1>1, <1>5, MidwayPut
  <1>7. ASSUME NEW v \in Nat
        PROVE  Goes(m, id, p, C, x, Put("key_offset", id, v),
                    Stored(x, "key_offset", [x.key_offset EXCEPT ![id] = v]))
    BY <1>1, <1>5, MidwayPut
  <1>8. ASSUME NEW v \in Nat
        PROVE  Goes(m, id, p, C, x, Put("keys", id - 1, v),
                    Stored(x, "keys", [x.keys EXCEPT ![id - 1] = v]))
    <2>1. Midway(m, Stored(x, "keys", [x.keys EXCEPT ![id - 1] = v]), id, p)
      BY <1>1, MidwayPut
    <2> QED
      BY <1>5, <2>1
  <1>9. ASSUME x.index = m.index
        PROVE  Goes(m, id, p, C, x, Put("index", p, id),
                    Stored(x, "index", [x.index EXCEPT ![p] = id]))
    <2>1. Midway(m, Stored(x, "index", [x.index EXCEPT ![p] = id]), id, p)
      BY <1>1, <1>9, MidwayPut
    <2> QED
      BY <1>5, <2>1
  <1>10. ASSUME NEW v \in Nat, v = 0 \/ (VarSize /\ x.key_size[id] = 0)
         PROVE  Goes(m, id, p, C, x, Put("word", id, v),
                     Stored(x, "word", [x.word EXCEPT ![id] = v]))
    BY <1>1, <1>5, <1>10, MidwayPut
  <1> QED
    BY <1>2, <1>3, <1>4, <1>6, <1>7, <1>8, <1>9, <1>10

\* The memory before the record gets its key.
Begun(m, x, id, p) ==
    /\ DOMAIN x = Fields
    /\ x.idx_offset = m.idx_offset /\ x.max_offset = m.max_offset
    /\ x.index = [m.index EXCEPT ![p] = id]
    /\ x.word \in {m.word, [m.word EXCEPT ![id] = 0]}
    /\ x.value = [m.value EXCEPT ![id] = 0]
    /\ x.n_entries = m.n_entries + 1
    /\ x.key_size = m.key_size /\ x.key_offset = m.key_offset /\ x.keys = m.keys
    /\ x.curr_key = m.curr_key

LEMMA ReuseLeads ==
    ASSUME NEW m, Sound(m), m.garbage # NIL, NEW id, id = m.garbage, NEW p, FreeSlot(m, p),
           NEW C, Content(m) \in C, NEW found, found = (m.index[p] = GARBAGE), NEW e1, NEW e2
    PROVE  \E x : /\ Goes(m, id, p, C, m,
                          Log(e1) \o reuse_entry(m, id, p, found)
                            \o Log(e2) \o reset_entry(id, m.word[id]), x)
                  /\ Begun(m, x, id, p) /\ Reused(m, x, id, p)
  <1>1. id \in Ids \ m.bits /\ m.word[id] \in 0 .. MaxId /\ DOMAIN m = Fields
    BY GarbageHead DEF Sound, Typed
  <1>2. Midway(m, m, id, p) /\ Dead(m, id)
    BY <1>1, MidwayStart DEF Dead
  <1> DEFINE G(x, P, y) == Goes(m, id, p, C, x, P, y)
  <1>3. G(m, Log(e1), m)
    BY <1>1, <1>2, GoesStore
  <1> DEFINE m1 == Stored(m, "index", [m.index EXCEPT ![p] = id])
  <1>4. /\ G(m, Put("index", p, id), m1) /\ DOMAIN m1 = Fields
        /\ m1.index = [m.index EXCEPT ![p] = id]
        /\ \A g \in Fields \ {"index"} : m1[g] = m[g]
    <2>1. "index" \in Fields
      BY DEF Fields
    <2>2. G(m, Put("index", p, id), m1)
      BY <1>1, <1>2, <2>1, GoesStore
    <2>3. /\ DOMAIN m1 = Fields
          /\ m1.index = [m.index EXCEPT ![p] = id]
          /\ \A g \in Fields \ {"index"} : m1[g] = m[g]
      BY <1>1, <1>2, <2>1, StoredFields
    <2> QED
      BY <2>2, <2>3
  <1> HIDE DEF m1
  <1> DEFINE P2 == IF found THEN Set("n_garbages", m.n_garbages - 1) ELSE <<>>
             m2 == IF found THEN Stored(m1, "n_garbages", m.n_garbages - 1) ELSE m1
  <1>5. /\ G(m1, P2, m2) /\ DOMAIN m2 = Fields /\ m2.index = [m.index EXCEPT ![p] = id]
        /\ m2.n_garbages = IF found THEN m.n_garbages - 1 ELSE m.n_garbages
        /\ \A g \in Fields \ {"index", "n_garbages"} : m2[g] = m[g]
    <2>1. "n_garbages" \in Fields /\ "index" \in Fields /\ "n_garbages" \in HeaderFields
      BY DEF Fields, HeaderFields
    <2>2. Midway(m, m1, id, p) /\ Dead(m1, id)
      BY <1>4 DEF Goes
    <2>3. CASE found
      <3>1. G(m1, P2, m2)
        BY <1>1, <2>1, <2>2, <2>3, GoesStore
      <3>2. /\ DOMAIN m2 = Fields /\ m2.n_garbages = m.n_garbages - 1
            /\ \A g \in Fields : g # "n_garbages" => m2[g] = m1[g]
        BY <1>4, <2>1, <2>3, StoredFields
      <3> HIDE DEF m2, P2
      <3> QED
        BY <1>4, <2>1, <2>3, <3>1, <3>2
    <2>4. CASE ~found
      <3>1. P2 = <<>> /\ m2 = m1
        BY <2>4
      <3>2. G(m1, <<>>, m1)
        BY <1>1, <2>2, GoesStore
      <3> HIDE DEF m2, P2
      <3> QED
        BY <1>4, <2>1, <2>4, <3>1, <3>2
    <2> QED
      BY <2>3, <2>4
  <1> HIDE DEF m2, P2
  <1> DEFINE m3 == Stored(m2, "n_entries", m.n_entries + 1)
  <1>6. /\ G(m2, Set("n_entries", m.n_entries + 1), m3) /\ DOMAIN m3 = Fields
        /\ m3.n_entries = m.n_entries + 1 /\ \A g \in Fields \ {"n_entries"} : m3[g] = m2[g]
    <2>1. "n_entries" \in Fields /\ "n_entries" \in HeaderFields
      BY DEF Fields, HeaderFields
    <2>2. Midway(m, m2, id, p) /\ Dead(m2, id)
      BY <1>5 DEF Goes
    <2>3. G(m2, Set("n_entries", m.n_entries + 1), m3)
      BY <1>1, <1>5, <2>1, <2>2, GoesStore
    <2>4. /\ DOMAIN m3 = Fields
          /\ m3.n_entries = m.n_entries + 1 /\ \A g \in Fields \ {"n_entries"} : m3[g] = m2[g]
      BY <1>1, <1>5, <2>1, <2>2, StoredFields
    <2> QED
      BY <2>3, <2>4
  <1> HIDE DEF m3
  <1>7. G(m3, Log(e2), m3)
    <2>1. Midway(m, m3, id, p) /\ Dead(m3, id)
      BY <1>6 DEF Goes
    <2> QED
      BY <1>1, <2>1, GoesStore
  <1> DEFINE m4 == Stored(m3, "garbage", m.word[id])
  <1>8. /\ G(m3, Set("garbage", m.word[id]), m4) /\ DOMAIN m4 = Fields
        /\ m4.garbage = m.word[id] /\ \A g \in Fields \ {"garbage"} : m4[g] = m3[g]
    <2>1. "garbage" \in Fields /\ "garbage" \in HeaderFields
      BY DEF Fields, HeaderFields
    <2>2. Midway(m, m3, id, p) /\ Dead(m3, id)
      BY <1>6 DEF Goes
    <2>3. G(m3, Set("garbage", m.word[id]), m4)
      BY <1>1, <1>6, <2>1, <2>2, GoesStore
    <2>4. /\ DOMAIN m4 = Fields
          /\ m4.garbage = m.word[id] /\ \A g \in Fields \ {"garbage"} : m4[g] = m3[g]
      BY <1>1, <1>6, <2>1, <2>2, StoredFields
    <2> QED
      BY <2>3, <2>4
  <1> HIDE DEF m4
  <1> DEFINE P5 == IF VarSize THEN <<>> ELSE Put("word", id, 0)
             m5 == IF VarSize THEN m4 ELSE Stored(m4, "word", [m4.word EXCEPT ![id] = 0])
  <1>9. m4.word = m.word
    BY <1>5, <1>6, <1>8 DEF Fields
  <1>10. /\ G(m4, P5, m5) /\ DOMAIN m5 = Fields
         /\ m5.word \in {m.word, [m.word EXCEPT ![id] = 0]}
         /\ \A g \in Fields \ {"word"} : m5[g] = m4[g]
    <2>1. "word" \in Fields
      BY DEF Fields
    <2>2. Midway(m, m4, id, p) /\ Dead(m4, id)
      BY <1>8 DEF Goes
    <2>3. CASE VarSize
      <3>1. P5 = <<>> /\ m5 = m4
        BY <2>3
      <3>2. G(m4, <<>>, m4)
        BY <1>1, <2>2, GoesStore
      <3> HIDE DEF m5, P5
      <3> QED
        BY <1>8, <1>9, <3>1, <3>2
    <2>4. CASE ~VarSize
      <3>1. G(m4, P5, m5)
        <4>1. 0 \in Nat
          OBVIOUS
        <4> QED
          BY <1>1, <2>2, <2>4, <4>1, GoesStore
      <3>2. /\ DOMAIN m5 = Fields /\ m5.word = [m4.word EXCEPT ![id] = 0]
            /\ \A g \in Fields : g # "word" => m5[g] = m4[g]
        BY <1>8, <2>1, <2>4, StoredFields
      <3> HIDE DEF m5, P5
      <3> QED
        BY <1>9, <3>1, <3>2
    <2> QED
      BY <2>3, <2>4
  <1> HIDE DEF m5, P5
  <1> DEFINE m6 == Stored(m5, "value", [m5.value EXCEPT ![id] = 0])
  <1>11. /\ G(m5, Put("value", id, 0), m6) /\ DOMAIN m6 = Fields
         /\ m6.value = [m5.value EXCEPT ![id] = 0]
         /\ \A g \in Fields \ {"value"} : m6[g] = m5[g]
    <2>1. "value" \in Fields
      BY DEF Fields
    <2>2. Midway(m, m5, id, p) /\ Dead(m5, id)
      BY <1>10 DEF Goes
    <2>3. G(m5, Put("value", id, 0), m6)
      BY <1>1, <1>10, <2>1, <2>2, GoesStore
    <2>4. /\ DOMAIN m6 = Fields
          /\ m6.value = [m5.value EXCEPT ![id] = 0]
          /\ \A g \in Fields \ {"value"} : m6[g] = m5[g]
      BY <1>1, <1>10, <2>1, <2>2, StoredFields
    <2> QED
      BY <2>3, <2>4
  <1> HIDE DEF m6
  <1>12. G(m, reuse_entry(m, id, p, found), m3)
    BY <1>4, <1>5, <1>6, GoesOn DEF reuse_entry, P2
  <1>13. G(m3, reset_entry(id, m.word[id]), m6)
    BY <1>8, <1>10, <1>11, GoesOn DEF reset_entry, P5
  <1>14. G(m, Log(e1) \o reuse_entry(m, id, p, found)
                \o Log(e2) \o reset_entry(id, m.word[id]), m6)
    BY <1>3, <1>7, <1>12, <1>13, GoesOn
  <1>15. /\ m6.idx_offset = m.idx_offset /\ m6.max_offset = m.max_offset
         /\ m6.index = [m.index EXCEPT ![p] = id]
         /\ m6.word \in {m.word, [m.word EXCEPT ![id] = 0]}
         /\ m6.value = [m.value EXCEPT ![id] = 0]
         /\ m6.bits = m.bits /\ m6.n_entries = m.n_entries + 1
         /\ m6.key_size = m.key_size /\ m6.key_offset = m.key_offset /\ m6.keys = m.keys
         /\ m6.curr_key = m.curr_key /\ m6.curr_rec = m.curr_rec
         /\ m6.garbage = m.word[id]
         /\ m6.n_garbages = IF found THEN m.n_garbages - 1 ELSE m.n_garbages
    BY <1>5, <1>6, <1>8, <1>10, <1>11 DEF Fields
  <1>16. Begun(m, m6, id, p) /\ Reused(m, m6, id, p)
    BY <1>11, <1>15 DEF Begun, Reused
  <1> QED
    BY <1>14, <1>16

Making(m, x, id) ==
    /\ m.garbage = NIL /\ m.curr_rec < MaxId /\ id = m.curr_rec + 1
    /\ x.garbage = m.garbage /\ x.n_garbages = m.n_garbages
    /\ x.curr_rec = id

LEMMA FreshRecord ==
    ASSUME NEW m, Sound(m), m.curr_rec < MaxId, NEW id, id = m.curr_rec + 1
    PROVE  /\ id \in Ids \ m.bits
           /\ m.word[id] = 0 /\ m.value[id] = 0 /\ m.key_size[id] = 0 /\ Dead(m, id)
           /\ VarSize => m.curr_key = id - 1
  <1>1. m.curr_rec \in 0 .. MaxId /\ MaxId \in Nat /\ m.bits \in SUBSET (1 .. m.curr_rec)
    BY FlagsAssumption DEF Sound, Typed
  <1>2. id \in Ids \ m.bits /\ id > m.curr_rec
    BY <1>1 DEF Ids
  <1>3. m.word[id] = 0 /\ m.value[id] = 0 /\ m.key_size[id] = 0
    BY <1>2 DEF Sound, KeyArea
  <1>4. 0 \in 0 .. MaxId
    BY <1>1
  <1>5. VarSize => m.curr_key = id - 1
    BY <1>1 DEF Sound, KeyArea
  <1> QED
    BY <1>2, <1>3, <1>4, <1>5 DEF Dead

LEMMA MakeLeads ==
    ASSUME NEW m, Sound(m), m.garbage = NIL, m.curr_rec < MaxId,
           NEW id, id = m.curr_rec + 1, NEW p, FreeSlot(m, p),
           NEW C, Content(m) \in C, NEW e1
    PROVE  \E x : /\ Goes(m, id, p, C, m, Log(e1) \o add_entry(m, id, p), x)
                  /\ Begun(m, x, id, p) /\ Making(m, x, id)
  <1>1. id \in Ids \ m.bits /\ DOMAIN m = Fields /\ Dead(m, id) /\ m.value[id] = 0
    BY FreshRecord DEF Sound, Typed
  <1>2. Midway(m, m, id, p)
    BY <1>1, MidwayStart
  <1> DEFINE G(x, P, y) == Goes(m, id, p, C, x, P, y)
  <1>3. G(m, Log(e1), m)
    BY <1>1, <1>2, GoesStore
  <1> DEFINE m1 == Stored(m, "curr_rec", id)
  <1>4. /\ G(m, Set("curr_rec", id), m1) /\ DOMAIN m1 = Fields
        /\ m1.curr_rec = id /\ \A g \in Fields \ {"curr_rec"} : m1[g] = m[g]
    <2>1. "curr_rec" \in Fields /\ "curr_rec" \in HeaderFields
      BY DEF Fields, HeaderFields
    <2>2. G(m, Set("curr_rec", id), m1)
      BY <1>1, <1>2, <2>1, GoesStore
    <2>3. /\ DOMAIN m1 = Fields
          /\ m1.curr_rec = id /\ \A g \in Fields \ {"curr_rec"} : m1[g] = m[g]
      BY <1>1, <2>1, StoredFields
    <2> QED
      BY <2>2, <2>3
  <1> HIDE DEF m1
  <1> DEFINE m2 == Stored(m1, "index", [m1.index EXCEPT ![p] = id])
  <1>5. m1.index = m.index
    BY <1>4 DEF Fields
  <1>6. /\ G(m1, Put("index", p, id), m2) /\ DOMAIN m2 = Fields
        /\ m2.index = [m.index EXCEPT ![p] = id]
        /\ \A g \in Fields \ {"index"} : m2[g] = m1[g]
    <2>1. "index" \in Fields
      BY DEF Fields
    <2>2. Midway(m, m1, id, p) /\ Dead(m1, id)
      BY <1>4 DEF Goes
    <2>3. G(m1, Put("index", p, id), m2)
      BY <1>1, <1>5, <2>2, GoesStore
    <2>4. /\ DOMAIN m2 = Fields /\ m2.index = [m1.index EXCEPT ![p] = id]
          /\ \A g \in Fields \ {"index"} : m2[g] = m1[g]
      BY <1>4, <2>1, StoredFields
    <2> QED
      BY <1>5, <2>3, <2>4
  <1> HIDE DEF m2
  <1> DEFINE m3 == Stored(m2, "n_entries", m.n_entries + 1)
  <1>7. /\ G(m2, Set("n_entries", m.n_entries + 1), m3) /\ DOMAIN m3 = Fields
        /\ m3.n_entries = m.n_entries + 1 /\ \A g \in Fields \ {"n_entries"} : m3[g] = m2[g]
    <2>1. "n_entries" \in Fields /\ "n_entries" \in HeaderFields
      BY DEF Fields, HeaderFields
    <2>2. Midway(m, m2, id, p) /\ Dead(m2, id)
      BY <1>6 DEF Goes
    <2>3. G(m2, Set("n_entries", m.n_entries + 1), m3)
      BY <1>1, <2>1, <2>2, GoesStore
    <2>4. /\ DOMAIN m3 = Fields
          /\ m3.n_entries = m.n_entries + 1 /\ \A g \in Fields \ {"n_entries"} : m3[g] = m2[g]
      BY <1>6, <2>1, StoredFields
    <2> QED
      BY <2>3, <2>4
  <1> HIDE DEF m3
  <1>8. G(m, add_entry(m, id, p), m3)
    BY <1>4, <1>6, <1>7, GoesOn DEF add_entry
  <1>9. G(m, Log(e1) \o add_entry(m, id, p), m3)
    BY <1>3, <1>8, GoesOn
  <1>10. /\ m3.idx_offset = m.idx_offset /\ m3.max_offset = m.max_offset
         /\ m3.index = [m.index EXCEPT ![p] = id]
         /\ m3.word = m.word /\ m3.value = m.value
         /\ m3.bits = m.bits /\ m3.n_entries = m.n_entries + 1
         /\ m3.key_size = m.key_size /\ m3.key_offset = m.key_offset /\ m3.keys = m.keys
         /\ m3.curr_key = m.curr_key /\ m3.curr_rec = id
         /\ m3.garbage = m.garbage /\ m3.n_garbages = m.n_garbages
    BY <1>4, <1>6, <1>7 DEF Fields
  <1>11. m.value = [m.value EXCEPT ![id] = 0]
    <2>1. m.value \in [Ids -> Values]
      BY DEF Sound, Typed
    <2> QED
      BY <1>1, <2>1
  <1>12. Begun(m, m3, id, p) /\ Making(m, m3, id)
    BY <1>7, <1>10, <1>11 DEF Begun, Making
  <1> QED
    BY <1>9, <1>12

\* The store that gives the record its key.
LEMMA LastStore ==
    ASSUME NEW m, Sound(m), ~needs_rehash(m), NEW k \in Keys, NEW n, NEW p,
           Target(m, k, n, p), NEW id \in Ids, NEW x, Midway(m, x, id, p), Dead(x, id),
           NEW a, NEW i, NEW v, NEW y, y = Stored(x, a, [x[a] EXCEPT ![i] = v]),
           Added(m, y, id, p, k), Reused(m, y, id, p) \/ Made(m, y, id)
    PROVE  LET C == {Content(m), [Content(m) EXCEPT ![k] = 0]}
           IN  Leads(x, Put(a, i, v), C, FALSE, y) /\ Program(Put(a, i, v))
  <1> DEFINE C == {Content(m), [Content(m) EXCEPT ![k] = 0]}
  <1>1. Content(y) \in C
    BY AddedSound
  <1>2. HashesApart => Content(x) \in C
    <2>1. id \in Ids \ m.bits /\ FreeSlot(m, p)
      BY NewRecord DEF Target
    <2> QED
      BY <2>1, MidwayContent
  <1> HIDE DEF C
  <1>3. Leads(x, Put(a, i, v), C, FALSE, y) /\ Program(Put(a, i, v))
    BY <1>1, <1>2, LeadsPut
  <1> QED
    BY <1>3 DEF C

LEMMA PutKeyFixed ==
    ASSUME NEW m, Sound(m), ~needs_rehash(m), NEW k \in Keys, NEW n, NEW p,
           Target(m, k, n, p), NEW id \in Ids, NEW x, Midway(m, x, id, p), Dead(x, id),
           Begun(m, x, id, p), x.bits = m.bits \cup {id},
           Reused(m, x, id, p) \/ Making(m, x, id), ~VarSize,
           NEW C, C = {Content(m), [Content(m) EXCEPT ![k] = 0]}
    PROVE  \E y : /\ Leads(x, put_key(m, id, k), C, FALSE, y) /\ Program(put_key(m, id, k))
                  /\ Added(m, y, id, p, k) /\ (Reused(m, y, id, p) \/ Made(m, y, id))
  <1> DEFINE y == Stored(x, "word", [x.word EXCEPT ![id] = HashOf[k]])
  <1>1. DOMAIN x = Fields /\ "word" \in Fields
    BY DEF Midway, Fields
  <1>2. /\ DOMAIN y = Fields /\ y.word = [x.word EXCEPT ![id] = HashOf[k]]
        /\ \A g \in Fields : g # "word" => y[g] = x[g]
    BY <1>1, StoredFields
  <1>3. y = Stored(x, "word", [x["word"] EXCEPT ![id] = HashOf[k]])
    OBVIOUS
  <1> HIDE DEF y
  <1>4. y.word = [m.word EXCEPT ![id] = HashOf[k]]
    <2>1. m.word \in [Ids -> Nat] /\ x.word \in {m.word, [m.word EXCEPT ![id] = 0]}
      BY SoundPlaced DEF Begun
    <2>2. CASE x.word = m.word
      BY <1>2, <2>2
    <2>3. CASE x.word = [m.word EXCEPT ![id] = 0]
      BY <1>2, <2>1, <2>3
    <2> QED
      BY <2>1, <2>2, <2>3
  <1>5. /\ y.idx_offset = x.idx_offset /\ y.max_offset = x.max_offset /\ y.index = x.index
        /\ y.value = x.value /\ y.bits = x.bits /\ y.n_entries = x.n_entries
        /\ y.key_size = x.key_size /\ y.key_offset = x.key_offset /\ y.keys = x.keys
        /\ y.curr_key = x.curr_key /\ y.curr_rec = x.curr_rec
        /\ y.garbage = x.garbage /\ y.n_garbages = x.n_garbages
    BY <1>2 DEF Fields
  <1>6. Added(m, y, id, p, k)
    BY <1>2, <1>4, <1>5 DEF Added, Begun
  <1>7. Reused(m, y, id, p) \/ Made(m, y, id)
    BY <1>5 DEF Reused, Making, Made, Begun
  <1>8. put_key(m, id, k) = Put("word", id, HashOf[k])
    BY DEF put_key
  <1>9. Leads(x, Put("word", id, HashOf[k]), C, FALSE, y) /\ Program(Put("word", id, HashOf[k]))
    BY <1>3, <1>6, <1>7, LastStore
  <1> QED
    BY <1>6, <1>7, <1>8, <1>9

LEMMA PutKeyReused ==
    ASSUME NEW m, Sound(m), ~needs_rehash(m), NEW k \in Keys, NEW n, NEW p,
           Target(m, k, n, p), NEW id \in Ids, NEW x, Midway(m, x, id, p), Dead(x, id),
           Begun(m, x, id, p), x.bits = m.bits \cup {id}, Reused(m, x, id, p), VarSize,
           NEW C, C = {Content(m), [Content(m) EXCEPT ![k] = 0]}
    PROVE  \E y : /\ Leads(x, put_key(m, id, k), C, FALSE, y) /\ Program(put_key(m, id, k))
                  /\ Added(m, y, id, p, k) /\ Reused(m, y, id, p)
  <1>1. /\ DOMAIN x = Fields /\ "word" \in Fields /\ "keys" \in Fields /\ "key_size" \in Fields
        /\ k \in Nat /\ FreeSlot(m, p) /\ Content(m) \in C
    BY HashAssumption DEF Midway, Fields, Target
  <1>2. /\ id \in Ids \ m.bits /\ m.key_size[id] = 1 /\ m.key_offset[id] = id - 1
    <2>1. id \in Free(m) /\ id \in Ids \ m.bits
      BY GarbageHead DEF Reused
    <2> QED
      BY <2>1 DEF Free, Sound, KeyArea
  <1>3. put_key(m, id, k) = <<>> \o Put("keys", id - 1, k) \o Put("word", id, HashOf[k])
                              \o Put("key_size", id, 1)
    BY <1>2 DEF put_key
  <1>4. Goes(m, id, p, C, x, <<>>, x)
    BY <1>1, <1>2, GoesStore
  <1> DEFINE x1 == Stored(x, "keys", [x.keys EXCEPT ![id - 1] = k])
  <1>5. Goes(m, id, p, C, x, Put("keys", id - 1, k), x1)
    BY <1>1, <1>2, GoesStore
  <1>6. /\ DOMAIN x1 = Fields /\ x1.keys = [x.keys EXCEPT ![id - 1] = k]
        /\ \A g \in Fields : g # "keys" => x1[g] = x[g]
    BY <1>1, StoredFields
  <1> HIDE DEF x1
  <1>7. Midway(m, x1, id, p) /\ Dead(x1, id) /\ x1.word = x.word
    BY <1>5, <1>6 DEF Goes, Fields
  <1> DEFINE y == Stored(x1, "word", [x1.word EXCEPT ![id] = HashOf[k]])
  <1>8. /\ DOMAIN y = Fields /\ y.word = [x1.word EXCEPT ![id] = HashOf[k]]
        /\ \A g \in Fields : g # "word" => y[g] = x1[g]
    BY <1>1, <1>6, StoredFields
  <1>9. y = Stored(x1, "word", [x1["word"] EXCEPT ![id] = HashOf[k]])
    OBVIOUS
  <1> HIDE DEF y
  <1>10. y.word = [m.word EXCEPT ![id] = HashOf[k]]
    <2>1. m.word \in [Ids -> Nat] /\ x.word \in {m.word, [m.word EXCEPT ![id] = 0]}
      BY SoundPlaced DEF Begun
    <2>2. CASE x.word = m.word
      BY <1>7, <1>8, <2>2
    <2>3. CASE x.word = [m.word EXCEPT ![id] = 0]
      BY <1>7, <1>8, <2>1, <2>3
    <2> QED
      BY <2>1, <2>2, <2>3
  <1>11. /\ y.idx_offset = x.idx_offset /\ y.max_offset = x.max_offset /\ y.index = x.index
         /\ y.value = x.value /\ y.bits = x.bits /\ y.n_entries = x.n_entries
         /\ y.key_size = x.key_size /\ y.key_offset = x.key_offset
         /\ y.keys = [x.keys EXCEPT ![id - 1] = k]
         /\ y.curr_key = x.curr_key /\ y.curr_rec = x.curr_rec
         /\ y.garbage = x.garbage /\ y.n_garbages = x.n_garbages
    BY <1>6, <1>8 DEF Fields
  <1>12. /\ m.key_size = [m.key_size EXCEPT ![id] = 1]
         /\ m.key_offset = [m.key_offset EXCEPT ![id] = id - 1]
    <2>1. m.key_size \in [Ids -> {0, 1}] /\ m.key_offset \in [Ids -> Nat]
      BY DEF Sound, Typed
    <2> QED
      BY <1>2, <2>1
  <1>13. Added(m, y, id, p, k)
    BY <1>8, <1>10, <1>11, <1>12 DEF Added, Begun
  <1>14. Reused(m, y, id, p)
    BY <1>11 DEF Reused
  <1>15. /\ Leads(x1, Put("word", id, HashOf[k]), C, FALSE, y)
         /\ Program(Put("word", id, HashOf[k]))
    BY <1>7, <1>9, <1>13, <1>14, LastStore
  <1>16. Leads(y, Put("key_size", id, 1), C, FALSE, y) /\ Program(Put("key_size", id, 1))
    <2>1. [y["key_size"] EXCEPT ![id] = 1] = y["key_size"]
      BY <1>11, <1>12 DEF Begun
    <2>2. Stored(y, "key_size", y["key_size"]) = y
      <3> DEFINE z == Stored(y, "key_size", y["key_size"])
      <3>1. z = [y EXCEPT !["key_size"] = y["key_size"]]
        BY DEF Stored
      <3>2. z = [g \in DOMAIN y |-> y[g]]
        BY <3>1
      <3>3. y = [g \in DOMAIN y |-> y[g]]
        BY DEF y, Stored
      <3> QED
        BY <3>2, <3>3
    <2>3. Content(y) \in C
      BY <1>13, <1>14, AddedSound
    <2>4. \A w : w = [y["key_size"] EXCEPT ![id] = 1] => Stored(y, "key_size", w) = y
      BY <2>1, <2>2
    <2>5. PICK w : w = [y["key_size"] EXCEPT ![id] = 1]
      OBVIOUS
    <2>6. Stored(y, "key_size", w) = y
      BY <2>4, <2>5
    <2>7. /\ Leads(y, Put("key_size", id, 1), C, FALSE, Stored(y, "key_size", w))
          /\ Program(Put("key_size", id, 1))
      BY <2>3, <2>5, <2>6, LeadsPut
    <2> QED
      BY <2>6, <2>7
  <1>17. /\ Leads(x, <<>> \o Put("keys", id - 1, k), C, FALSE, x1)
         /\ Program(<<>> \o Put("keys", id - 1, k))
    <2>1. Goes(m, id, p, C, x, <<>> \o Put("keys", id - 1, k), x1)
      BY <1>4, <1>5, GoesOn
    <2> QED
      BY <2>1 DEF Goes
  <1>18. Leads(x, put_key(m, id, k), C, FALSE, y) /\ Program(put_key(m, id, k))
    <2> DEFINE P == <<>> \o Put("keys", id - 1, k)
               Q == Put("word", id, HashOf[k])
               R == Put("key_size", id, 1)
    <2>1. put_key(m, id, k) = (P \o Q) \o R
      BY <1>3
    <2>2. /\ Leads(x, P, C, FALSE, x1) /\ Program(P)
          /\ Leads(x1, Q, C, FALSE, y) /\ Program(Q)
          /\ Leads(y, R, C, FALSE, y) /\ Program(R)
      BY <1>15, <1>16, <1>17
    <2> HIDE DEF P, Q, R
    <2>3. Leads(x, P \o Q, C, FALSE, y) /\ Program(P \o Q)
      BY <2>2, LeadsOn
    <2>4. Leads(x, (P \o Q) \o R, C, FALSE, y) /\ Program((P \o Q) \o R)
      BY <2>2, <2>3, LeadsOn
    <2> QED
      BY <2>1, <2>4, Zenon
  <1> QED
    BY <1>13, <1>14, <1>18

LEMMA PutKeyMade ==
    ASSUME NEW m, Sound(m), ~needs_rehash(m), NEW k \in Keys, NEW n, NEW p,
           Target(m, k, n, p), NEW id \in Ids, NEW x, Midway(m, x, id, p), Dead(x, id),
           Begun(m, x, id, p), x.bits = m.bits \cup {id}, Making(m, x, id), VarSize,
           NEW C, C = {Content(m), [Content(m) EXCEPT ![k] = 0]}
    PROVE  \E y : /\ Leads(x, put_key(m, id, k), C, FALSE, y) /\ Program(put_key(m, id, k))
                  /\ Added(m, y, id, p, k) /\ Made(m, y, id)
  <1>1. /\ DOMAIN x = Fields /\ "word" \in Fields /\ "keys" \in Fields /\ "key_size" \in Fields
        /\ "curr_key" \in Fields /\ "key_offset" \in Fields /\ "curr_key" \in HeaderFields
        /\ k \in Nat /\ HashOf[k] \in Nat /\ FreeSlot(m, p) /\ Content(m) \in C
    BY HashAssumption DEF Midway, Fields, HeaderFields, Target
  <1>2. /\ id \in Ids \ m.bits /\ m.key_size[id] = 0 /\ m.curr_key = id - 1 /\ id - 1 \in Nat
    BY FreshRecord, FlagsAssumption DEF Making, Ids
  <1>3. put_key(m, id, k) = (Set("curr_key", m.curr_key + 1) \o Put("key_offset", id, id - 1))
                              \o Put("keys", id - 1, k) \o Put("word", id, HashOf[k])
                              \o Put("key_size", id, 1)
    BY <1>2 DEF put_key
  <1> DEFINE x1 == Stored(x, "curr_key", m.curr_key + 1)
  <1>4. Goes(m, id, p, C, x, Set("curr_key", m.curr_key + 1), x1)
    BY <1>1, <1>2, GoesStore
  <1>5. /\ DOMAIN x1 = Fields /\ x1.curr_key = m.curr_key + 1
        /\ \A g \in Fields : g # "curr_key" => x1[g] = x[g]
    BY <1>1, StoredFields
  <1> HIDE DEF x1
  <1>6. Midway(m, x1, id, p) /\ Dead(x1, id)
    BY <1>4 DEF Goes
  <1> DEFINE x2 == Stored(x1, "key_offset", [x1.key_offset EXCEPT ![id] = id - 1])
  <1>7. Goes(m, id, p, C, x1, Put("key_offset", id, id - 1), x2)
    BY <1>1, <1>2, <1>6, GoesStore
  <1>8. /\ DOMAIN x2 = Fields /\ x2.key_offset = [x1.key_offset EXCEPT ![id] = id - 1]
        /\ \A g \in Fields : g # "key_offset" => x2[g] = x1[g]
    BY <1>1, <1>5, StoredFields
  <1> HIDE DEF x2
  <1>9. Midway(m, x2, id, p) /\ Dead(x2, id)
    BY <1>7 DEF Goes
  <1> DEFINE x3 == Stored(x2, "keys", [x2.keys EXCEPT ![id - 1] = k])
  <1>10. Goes(m, id, p, C, x2, Put("keys", id - 1, k), x3)
    BY <1>1, <1>2, <1>9, GoesStore
  <1>11. /\ DOMAIN x3 = Fields /\ x3.keys = [x2.keys EXCEPT ![id - 1] = k]
         /\ \A g \in Fields : g # "keys" => x3[g] = x2[g]
    BY <1>1, <1>8, StoredFields
  <1> HIDE DEF x3
  <1>12. Midway(m, x3, id, p) /\ Dead(x3, id)
    BY <1>10 DEF Goes
  <1>13. x3.key_size = m.key_size /\ x3.word = x.word
    BY <1>5, <1>8, <1>11 DEF Fields, Begun
  <1> DEFINE x4 == Stored(x3, "word", [x3.word EXCEPT ![id] = HashOf[k]])
  <1>14. Goes(m, id, p, C, x3, Put("word", id, HashOf[k]), x4)
    BY <1>1, <1>2, <1>12, <1>13, GoesStore
  <1>15. /\ DOMAIN x4 = Fields /\ x4.word = [x3.word EXCEPT ![id] = HashOf[k]]
         /\ \A g \in Fields : g # "word" => x4[g] = x3[g]
    BY <1>1, <1>11, StoredFields
  <1> HIDE DEF x4
  <1>16. Midway(m, x4, id, p) /\ Dead(x4, id)
    BY <1>14 DEF Goes
  <1> DEFINE y == Stored(x4, "key_size", [x4.key_size EXCEPT ![id] = 1])
  <1>17. /\ DOMAIN y = Fields /\ y.key_size = [x4.key_size EXCEPT ![id] = 1]
         /\ \A g \in Fields : g # "key_size" => y[g] = x4[g]
    BY <1>1, <1>15, StoredFields
  <1>18. y = Stored(x4, "key_size", [x4["key_size"] EXCEPT ![id] = 1])
    OBVIOUS
  <1> HIDE DEF y
  <1>19. y.word = [m.word EXCEPT ![id] = HashOf[k]]
    <2>1. m.word \in [Ids -> Nat] /\ x.word \in {m.word, [m.word EXCEPT ![id] = 0]}
      BY SoundPlaced DEF Begun
    <2>2. y.word = [x.word EXCEPT ![id] = HashOf[k]]
      BY <1>13, <1>15, <1>17 DEF Fields
    <2>3. CASE x.word = m.word
      BY <2>2, <2>3
    <2>4. CASE x.word = [m.word EXCEPT ![id] = 0]
      BY <2>1, <2>2, <2>4
    <2> QED
      BY <2>1, <2>3, <2>4
  <1>20. /\ y.idx_offset = x.idx_offset /\ y.max_offset = x.max_offset /\ y.index = x.index
         /\ y.value = x.value /\ y.bits = x.bits /\ y.n_entries = x.n_entries
         /\ y.curr_key = m.curr_key + 1 /\ y.curr_rec = x.curr_rec
         /\ y.garbage = x.garbage /\ y.n_garbages = x.n_garbages
         /\ x4.key_size = x.key_size
    BY <1>5, <1>8, <1>11, <1>15, <1>17 DEF Fields
  <1>21. /\ y.key_offset = [x.key_offset EXCEPT ![id] = id - 1]
         /\ y.keys = [x.keys EXCEPT ![id - 1] = k]
    BY <1>5, <1>8, <1>11, <1>15, <1>17 DEF Fields
  <1>22. Added(m, y, id, p, k)
    BY <1>17, <1>19, <1>20, <1>21 DEF Added, Begun
  <1>23. Made(m, y, id)
    BY <1>20 DEF Making, Made
  <1>24. /\ Leads(x4, Put("key_size", id, 1), C, FALSE, y)
         /\ Program(Put("key_size", id, 1))
    BY <1>16, <1>18, <1>22, <1>23, LastStore
  <1> DEFINE P == Set("curr_key", m.curr_key + 1) \o Put("key_offset", id, id - 1)
                    \o Put("keys", id - 1, k) \o Put("word", id, HashOf[k])
             R == Put("key_size", id, 1)
  <1>25. Leads(x, P, C, FALSE, x4) /\ Program(P)
    <2>1. Goes(m, id, p, C, x, Set("curr_key", m.curr_key + 1) \o Put("key_offset", id, id - 1), x2)
      BY <1>4, <1>7, GoesOn
    <2>2. Goes(m, id, p, C, x2, Put("keys", id - 1, k), x3)
      BY <1>10
    <2>3. Goes(m, id, p, C, x, (Set("curr_key", m.curr_key + 1) \o Put("key_offset", id, id - 1))
                                 \o Put("keys", id - 1, k), x3)
      BY <2>1, <2>2, GoesOn
    <2>4. Goes(m, id, p, C, x, P, x4)
      BY <1>14, <2>3, GoesOn
    <2> QED
      BY <2>4 DEF Goes
  <1>26. put_key(m, id, k) = P \o R
    BY <1>3
  <1> HIDE DEF P
  <1>27. Leads(x, P \o R, C, FALSE, y) /\ Program(P \o R)
    BY <1>24, <1>25, LeadsOn
  <1>28. Leads(x, put_key(m, id, k), C, FALSE, y) /\ Program(put_key(m, id, k))
    BY <1>26, <1>27, Zenon
  <1> QED
    BY <1>22, <1>23, <1>28

LEMMA PutKeyLeads ==
    ASSUME NEW m, Sound(m), ~needs_rehash(m), NEW k \in Keys, NEW n, NEW p,
           Target(m, k, n, p), NEW id \in Ids, NEW x, Midway(m, x, id, p), Dead(x, id),
           Begun(m, x, id, p), x.bits = m.bits \cup {id},
           Reused(m, x, id, p) \/ Making(m, x, id),
           NEW C, C = {Content(m), [Content(m) EXCEPT ![k] = 0]}
    PROVE  \E y : /\ Leads(x, put_key(m, id, k), C, FALSE, y) /\ Program(put_key(m, id, k))
                  /\ Added(m, y, id, p, k) /\ (Reused(m, y, id, p) \/ Made(m, y, id))
  <1>1. CASE ~VarSize
    BY <1>1, PutKeyFixed
  <1>2. CASE VarSize /\ Reused(m, x, id, p)
    BY <1>2, PutKeyReused
  <1>3. CASE VarSize /\ Making(m, x, id)
    BY <1>3, PutKeyMade
  <1> QED
    BY <1>1, <1>2, <1>3

\* grn_io_hash_add: a search finds the table without the key, or with it and
\* value 0, all the way, and the table is sound at the end.
LEMMA AddLeads ==
    ASSUME NEW m, Sound(m), NEW k \in Keys, get(m, k) = NIL,
           ~TableIsFull(m, k), ~needs_rehash(m), m.garbage # NIL \/ m.curr_rec < MaxId,
           NEW C, C = {Content(m), [Content(m) EXCEPT ![k] = 0]}
    PROVE  \E y : /\ Leads(m, io_hash_add(m, k), C, FALSE, y) /\ Program(io_hash_add(m, k))
                  /\ Sound(y) /\ Content(y) = [Content(m) EXCEPT ![k] = 0]
  <1> DEFINE n == TargetTry(m, k)
             ihv == ProbeHash(HashOf[k], TargetTry(m, k))
             p == idx_at(m, ProbeHash(HashOf[k], TargetTry(m, k)))
             found == GarbageTries(m, k) # {}
             reusing == m.garbage # NIL
             id == IF m.garbage # NIL THEN m.garbage ELSE m.curr_rec + 1
             e1 == [event |-> "REUSE_ENTRY", record_id |-> id, index_hash_value |-> ihv,
                    n_garbages |-> m.n_garbages, n_entries |-> m.n_entries,
                    found_garbage |-> found]
             e2 == [event |-> "RESET_ENTRY", record_id |-> id,
                    next_garbage_record_id |-> m.word[id]]
             e3 == [event |-> "ADD_ENTRY", record_id |-> id, index_hash_value |-> ihv,
                    n_entries |-> m.n_entries]
             e4 == [event |-> "ENABLE_ENTRY", record_id |-> id]
             e5 == [event |-> "SET_ENTRY_KEY", record_id |-> id, key_offset |-> m.curr_key,
                    key |-> k]
             X == IF reusing THEN Log(e1) \o reuse_entry(m, id, p, found)
                                    \o Log(e2) \o reset_entry(id, m.word[id])
                  ELSE Log(e3) \o add_entry(m, id, p)
  <1>1. io_hash_add(m, k) = X \o Log(e4) \o Log(e5) \o enable_entry(m, id) \o put_key(m, id, k)
    BY DEF io_hash_add
  <1> HIDE DEF e1, e2, e3, e4, e5
  <1>2. /\ n \in Tries(m) /\ FreeSlot(m, p)
        /\ p = Slot(m.idx_offset, m.max_offset + 1, HashOf[k], n)
        /\ m.index[p] = IF GarbageTries(m, k) # {} THEN GARBAGE ELSE NIL
        /\ \A t \in 0 .. n - 1 :
              m.index[Slot(m.idx_offset, m.max_offset + 1, HashOf[k], t)] # NIL
        /\ \A i \in m.bits : ~compare_key(m, i, k)
    <2> HIDE DEF p, n
    <2>1. n = TargetTry(m, k) /\ p = idx_at(m, ProbeHash(HashOf[k], n))
      BY DEF p, n
    <2> QED
      BY <2>1, TargetSlot
  <1> HIDE DEF n, ihv, p
  <1>3. Target(m, k, n, p)
    BY <1>2 DEF Target
  <1>4. found = (m.index[p] = GARBAGE)
    BY <1>2 DEF NIL, GARBAGE
  <1> HIDE DEF found
  <1>5. Content(m) \in C
    OBVIOUS
  <1>6. PICK x : /\ Goes(m, id, p, C, m, X, x) /\ Begun(m, x, id, p)
                 /\ (Reused(m, x, id, p) \/ Making(m, x, id))
    <2>1. CASE reusing
      <3>1. id = m.garbage /\ m.garbage # NIL
        BY <2>1
      <3>2. X = Log(e1) \o reuse_entry(m, id, p, found) \o Log(e2) \o reset_entry(id, m.word[id])
        BY <2>1
      <3> HIDE DEF X, id
      <3>3. PICK x : /\ Goes(m, id, p, C, m,
                             Log(e1) \o reuse_entry(m, id, p, found)
                               \o Log(e2) \o reset_entry(id, m.word[id]), x)
                     /\ Begun(m, x, id, p) /\ Reused(m, x, id, p)
        BY <1>2, <1>4, <1>5, <3>1, ReuseLeads
      <3> QED
        BY <3>2, <3>3
    <2>2. CASE ~reusing
      <3>1. id = m.curr_rec + 1 /\ m.garbage = NIL /\ m.curr_rec < MaxId
        BY <2>2
      <3>2. X = Log(e3) \o add_entry(m, id, p)
        BY <2>2
      <3> HIDE DEF X, id
      <3>3. PICK x : /\ Goes(m, id, p, C, m, Log(e3) \o add_entry(m, id, p), x)
                     /\ Begun(m, x, id, p) /\ Making(m, x, id)
        BY <1>2, <1>5, <3>1, MakeLeads
      <3> QED
        BY <3>2, <3>3
    <2> QED
      BY <2>1, <2>2
  <1> HIDE DEF X, id
  <1>7. id \in Ids \ m.bits
    <2>1. CASE Reused(m, x, id, p)
      BY <2>1, NewRecord
    <2>2. CASE Making(m, x, id)
      BY <2>2, FreshRecord DEF Making
    <2> QED
      BY <1>6, <2>1, <2>2
  <1>8. Midway(m, x, id, p) /\ Dead(x, id)
    BY <1>6 DEF Goes
  <1> DEFINE x1 == Stored(x, "bits", m.bits \cup {id})
  <1>9. Goes(m, id, p, C, x, Log(e4), x) /\ Goes(m, id, p, C, x, Log(e5), x)
    BY <1>2, <1>5, <1>7, <1>8, GoesStore
  <1>10. Goes(m, id, p, C, x, enable_entry(m, id), x1)
    <2>1. "bits" \in HeaderFields
      BY DEF HeaderFields
    <2>2. Goes(m, id, p, C, x, Set("bits", m.bits \cup {id}), x1)
      BY <1>2, <1>5, <1>7, <1>8, <2>1, GoesStore
    <2> QED
      BY <2>2 DEF enable_entry
  <1>11. x1.bits = m.bits \cup {id} /\ \A g \in Fields : g # "bits" => x1[g] = x[g]
    <2>1. DOMAIN x = Fields /\ "bits" \in Fields
      BY <1>8 DEF Midway, Fields
    <2> QED
      BY <2>1, StoredFields
  <1>12. DOMAIN x1 = Fields /\ Midway(m, x1, id, p) /\ Dead(x1, id)
    BY <1>10 DEF Goes, Midway
  <1> HIDE DEF x1
  <1>13. Begun(m, x1, id, p) /\ (Reused(m, x1, id, p) \/ Making(m, x1, id))
    <2>1. /\ x1.idx_offset = x.idx_offset /\ x1.max_offset = x.max_offset /\ x1.index = x.index
          /\ x1.word = x.word /\ x1.value = x.value /\ x1.n_entries = x.n_entries
          /\ x1.key_size = x.key_size /\ x1.key_offset = x.key_offset /\ x1.keys = x.keys
          /\ x1.curr_key = x.curr_key /\ x1.curr_rec = x.curr_rec
          /\ x1.garbage = x.garbage /\ x1.n_garbages = x.n_garbages
      BY <1>11 DEF Fields
    <2> QED
      BY <1>6, <1>12, <2>1 DEF Begun, Reused, Making
  <1>14. PICK y : /\ Leads(x1, put_key(m, id, k), C, FALSE, y) /\ Program(put_key(m, id, k))
                  /\ Added(m, y, id, p, k) /\ (Reused(m, y, id, p) \/ Made(m, y, id))
    BY <1>3, <1>7, <1>11, <1>12, <1>13, PutKeyLeads
  <1> DEFINE P == X \o Log(e4) \o Log(e5) \o enable_entry(m, id)
  <1>15. Leads(m, P, C, FALSE, x1) /\ Program(P)
    <2>1. Goes(m, id, p, C, m, X \o Log(e4), x)
      BY <1>6, <1>9, GoesOn
    <2>2. Goes(m, id, p, C, m, (X \o Log(e4)) \o Log(e5), x)
      BY <1>9, <2>1, GoesOn
    <2>3. Goes(m, id, p, C, m, P, x1)
      BY <1>10, <2>2, GoesOn
    <2> QED
      BY <2>3 DEF Goes
  <1>16. io_hash_add(m, k) = P \o put_key(m, id, k)
    BY <1>1
  <1> HIDE DEF P
  <1>17. /\ Leads(m, P \o put_key(m, id, k), C, FALSE, y)
         /\ Program(P \o put_key(m, id, k))
    BY <1>14, <1>15, LeadsOn
  <1>18. Leads(m, io_hash_add(m, k), C, FALSE, y) /\ Program(io_hash_add(m, k))
    BY <1>16, <1>17, Zenon
  <1>19. Sound(y) /\ Content(y) = [Content(m) EXCEPT ![k] = 0]
    BY <1>3, <1>14, AddedSound
  <1> QED
    BY <1>18, <1>19

-----------------------------------------------------------------------------
(* grn_hash_delete.                                                        *)

\* The memory once the slot p of the record id is garbage.
Undone(m, x, id, p) ==
    /\ DOMAIN x = Fields
    /\ x.idx_offset = m.idx_offset /\ x.max_offset = m.max_offset
    /\ x.index = [m.index EXCEPT ![p] = GARBAGE]
    /\ x.word \in [Ids -> Nat] /\ \A i \in Ids : i # id => x.word[i] = m.word[i]
    /\ x.value = m.value /\ x.key_size = m.key_size /\ x.key_offset = m.key_offset
    /\ x.keys = m.keys

LEMMA UndoneLayout ==
    ASSUME NEW m, Sound(m), NEW k \in Keys, NEW id \in m.bits, compare_key(m, id, k),
           NEW p \in Space(m), m.index[p] = id, NEW x, Undone(m, x, id, p)
    PROVE  /\ Shape(x) /\ Layout(x, m.bits \ {id})
           /\ \A q \in Space(x) : x.index[q] \in (m.bits \ {id}) \cup {NIL, GARBAGE}
           /\ \A i \in m.bits \ {id} : \E l \in Keys : compare_key(x, i, l)
           /\ Content(x) = [Content(m) EXCEPT ![k] = Absent]
  <1>1. /\ m.bits \in SUBSET Ids /\ m.index \in [Slots -> Ids \cup {NIL, GARBAGE}]
        /\ m.word \in [Ids -> Nat] /\ m.idx_offset \in Nat /\ m.max_offset + 1 \in IndexSizes
        /\ Space(m) = SpaceOf(m.idx_offset, m.max_offset + 1) /\ Space(m) \subseteq Slots
        /\ Placed(m.index, m.word, m.idx_offset, m.max_offset + 1, m.bits)
        /\ Shape(m) /\ Layout(m, m.bits)
    BY SoundPlaced DEF Sound
  <1>2. /\ x.index = [m.index EXCEPT ![p] = GARBAGE] /\ x.word \in [Ids -> Nat]
        /\ x.idx_offset = m.idx_offset /\ x.max_offset = m.max_offset /\ Space(x) = Space(m)
        /\ \A i \in m.bits \ {id} : x.word[i] = m.word[i]
    BY <1>1 DEF Undone, Space
  <1>3. Shape(x)
    BY <1>1, <1>2 DEF Shape
  <1>4. SameOn(m, x, m.bits \ {id})
    BY <1>1 DEF SameOn, Undone
  <1>5. \A i \in m.bits \ {id}, l \in Keys : compare_key(x, i, l) <=> compare_key(m, i, l)
    BY <1>4, SameKeys
  <1>6. ASSUME NEW q \in Space(x) PROVE x.index[q] \in (m.bits \ {id}) \cup {NIL, GARBAGE}
    <2>1. CASE q = p
      BY <1>1, <1>2, <2>1
    <2>2. CASE q # p
      <3>1. x.index[q] = m.index[q] /\ m.index[q] \in m.bits \cup {NIL, GARBAGE}
        BY <1>1, <1>2, <2>2 DEF Sound, Owned
      <3>2. m.index[q] # id
        BY <1>1, <1>2, <2>2 DEF Placed
      <3> QED
        BY <3>1, <3>2
    <2> QED
      BY <2>1, <2>2
  <1>7. Placed(x.index, x.word, x.idx_offset, x.max_offset + 1, m.bits \ {id})
    <2>1. PICK M : M = m.bits \ {id}
      OBVIOUS
    <2>2. /\ M \in SUBSET m.bits /\ m.index[p] \notin M
          /\ GARBAGE \notin M /\ GARBAGE # NIL
          /\ p \in SpaceOf(m.idx_offset, m.max_offset + 1)
          /\ SpaceOf(m.idx_offset, m.max_offset + 1) \subseteq Slots
          /\ \A i \in M : x.word[i] = m.word[i]
      BY <1>1, <1>2, <2>1, IdsAreRecords DEF NIL, GARBAGE
    <2>3. Placed([m.index EXCEPT ![p] = GARBAGE], x.word, m.idx_offset, m.max_offset + 1, M)
      BY <1>1, <1>2, <2>2, PlacedKeep
    <2> QED
      BY <1>2, <2>1, <2>3
  <1>8. Layout(x, m.bits \ {id})
    <2>1. \A i, j \in m.bits \ {id}, l \in Keys :
             (compare_key(x, i, l) /\ compare_key(x, j, l)) => i = j
      BY <1>1, <1>5 DEF Layout
    <2> QED
      BY <1>6, <1>7, <2>1 DEF Layout
  <1>9. \A i \in m.bits \ {id} : \E l \in Keys : compare_key(x, i, l)
    BY <1>5 DEF Sound, Owned
  <1>10. Content(x) = [Content(m) EXCEPT ![k] = Absent]
    BY <1>1, <1>3, <1>4, <1>8, ContentRemove
  <1> QED
    BY <1>3, <1>6, <1>8, <1>9, <1>10

\* The memory once all stores of a deletion are done.
Deleted(m, y, id, p) ==
    /\ Undone(m, y, id, p)
    /\ y.word = [m.word EXCEPT ![id] = m.garbage]
    /\ y.garbage = id /\ y.bits = m.bits \ {id}
    /\ y.n_garbages = m.n_garbages + 1 /\ y.n_entries = m.n_entries - 1
    /\ y.curr_rec = m.curr_rec /\ y.curr_key = m.curr_key

LEMMA DeletedGarbage ==
    ASSUME NEW m, Sound(m), NEW id \in m.bits, NEW p, NEW y, Deleted(m, y, id, p)
    PROVE  GarbageListed(y)
  <1>1. PICK n \in Nat : \E f : Chained(m, f, n)
    BY DEF Sound, GarbageListed
  <1>2. PICK g : Chained(m, g, n)
    BY <1>1
  <1>3. /\ id \in Ids /\ id \in 1 .. m.curr_rec /\ m.word \in [Ids -> Nat]
        /\ y.word = [m.word EXCEPT ![id] = m.garbage] /\ y.garbage = id
        /\ m.bits \in SUBSET Ids
    BY SoundPlaced DEF Deleted, Typed
  <1>4. Free(y) = Free(m) \cup {id} /\ id \notin Free(m) /\ Free(m) \subseteq Ids
    BY <1>3, SoundPlaced, BitsAreIds DEF Deleted, Free
  <1> DEFINE f == [i \in 0 .. n + 1 |-> IF i = 0 THEN id ELSE g[i - 1]]
  <1>5. f[0] = id /\ \A i \in 1 .. n + 1 : f[i] = g[i - 1]
    OBVIOUS
  <1> HIDE DEF f
  <1>6. f[0] = y.garbage /\ f[n + 1] = NIL
    <2>1. n + 1 \in 1 .. n + 1 /\ (n + 1) - 1 = n
      OBVIOUS
    <2>2. f[n + 1] = g[n]
      BY <1>5, <2>1
    <2> QED
      BY <1>2, <1>3, <1>5, <2>2 DEF Chained
  <1>7. ASSUME NEW i \in 0 .. (n + 1) - 1
        PROVE  f[i] \in Free(y) /\ y.word[f[i]] = f[i + 1]
    <2>1. CASE i = 0
      <3>1. 1 \in 1 .. n + 1 /\ 1 - 1 = 0 /\ 0 + 1 = 1
        OBVIOUS
      <3>2. f[1] = g[0]
        BY <1>5, <3>1
      <3>3. y.word[id] = m.garbage
        BY <1>3
      <3> QED
        BY <1>2, <1>4, <1>5, <2>1, <3>1, <3>2, <3>3 DEF Chained
    <2>2. CASE i # 0
      <3>1. /\ i \in 1 .. n + 1 /\ i + 1 \in 1 .. n + 1 /\ i - 1 \in 0 .. n - 1
            /\ (i + 1) - 1 = i /\ (i - 1) + 1 = i
        BY <2>2
      <3>2. f[i] = g[i - 1] /\ f[i + 1] = g[i]
        BY <1>5, <3>1
      <3>3. g[i - 1] \in Free(m) /\ m.word[g[i - 1]] = g[i]
        BY <1>2, <3>1 DEF Chained
      <3>4. y.word[g[i - 1]] = m.word[g[i - 1]]
        BY <1>3, <1>4, <3>3
      <3> QED
        BY <1>4, <3>2, <3>3, <3>4
    <2> QED
      BY <2>1, <2>2
  <1>8. ASSUME NEW i \in 0 .. (n + 1) - 1, NEW j \in 0 .. (n + 1) - 1, f[i] = f[j]
        PROVE  i = j
    <2>1. ASSUME NEW a \in 0 .. (n + 1) - 1, a # 0
          PROVE  /\ a - 1 \in 0 .. n - 1 /\ f[a] = g[a - 1] /\ f[a] \in Free(m)
      <3>1. a \in 1 .. n + 1 /\ a - 1 \in 0 .. n - 1
        BY <2>1
      <3>2. f[a] = g[a - 1]
        BY <1>5, <3>1
      <3>3. g[a - 1] \in Free(m)
        BY <1>2, <3>1 DEF Chained
      <3> QED
        BY <3>1, <3>2, <3>3
    <2>2. CASE i = 0 \/ j = 0
      BY <1>4, <1>5, <1>8, <2>1, <2>2
    <2>3. CASE i # 0 /\ j # 0
      <3>1. /\ i - 1 \in 0 .. n - 1 /\ j - 1 \in 0 .. n - 1 /\ g[i - 1] = g[j - 1]
        BY <1>8, <2>1, <2>3
      <3>2. i - 1 = j - 1
        BY <1>2, <3>1 DEF Chained
      <3> QED
        BY <3>2
    <2> QED
      BY <2>2, <2>3
  <1>9. ASSUME NEW z \in Free(y) PROVE \E i \in 0 .. (n + 1) - 1 : f[i] = z
    <2>1. CASE z = id
      <3>1. 0 \in 0 .. (n + 1) - 1
        OBVIOUS
      <3> QED
        BY <1>5, <2>1, <3>1
    <2>2. CASE z # id
      <3>1. PICK j \in 0 .. n - 1 : g[j] = z
        BY <1>2, <1>4, <2>2 DEF Chained
      <3>2. j + 1 \in 1 .. n + 1 /\ j + 1 \in 0 .. (n + 1) - 1 /\ (j + 1) - 1 = j
        OBVIOUS
      <3>3. f[j + 1] = z
        BY <1>5, <3>1, <3>2
      <3> QED
        BY <3>2, <3>3
    <2> QED
      BY <2>1, <2>2
  <1>10. Chained(y, f, n + 1)
    BY <1>6, <1>7, <1>8, <1>9 DEF Chained
  <1>11. n + 1 \in Nat
    OBVIOUS
  <1> QED
    BY <1>10, <1>11 DEF GarbageListed

LEMMA DeletedSound ==
    ASSUME NEW m, Sound(m), NEW k \in Keys, NEW id \in m.bits, compare_key(m, id, k),
           NEW p \in Space(m), m.index[p] = id, NEW y, Deleted(m, y, id, p)
    PROVE  Sound(y)
  <1>1. Undone(m, y, id, p)
    BY DEF Deleted
  <1>2. /\ Shape(y) /\ Layout(y, m.bits \ {id})
        /\ \A q \in Space(y) : y.index[q] \in (m.bits \ {id}) \cup {NIL, GARBAGE}
        /\ \A i \in m.bits \ {id} : \E l \in Keys : compare_key(y, i, l)
    BY <1>1, UndoneLayout
  <1>3. /\ y.bits = m.bits \ {id} /\ y.garbage = id /\ y.n_garbages = m.n_garbages + 1
        /\ y.n_entries = m.n_entries - 1 /\ y.curr_rec = m.curr_rec
        /\ y.curr_key = m.curr_key /\ y.max_offset = m.max_offset
        /\ y.index = [m.index EXCEPT ![p] = GARBAGE] /\ Space(y) = Space(m)
        /\ y.word = [m.word EXCEPT ![id] = m.garbage]
    BY DEF Deleted, Undone, Space
  <1>4. Layout(y, y.bits) /\ Owned(y)
    BY <1>2, <1>3 DEF Owned
  <1>5. /\ m.bits \in SUBSET Ids /\ IsFiniteSet(m.bits) /\ m.n_entries = Cardinality(m.bits)
        /\ m.n_entries \in Nat /\ m.n_garbages \in Nat /\ m.max_offset \in Nat
        /\ m.index \in [Slots -> Ids \cup {NIL, GARBAGE}] /\ Space(m) \subseteq Slots
        /\ m.word \in [Ids -> Nat] /\ id \in Ids
    BY SoundPlaced DEF Typed
  <1>6. Cardinality(y.bits) = m.n_entries - 1 /\ Cardinality(y.bits) \in Nat
    <2>1. IsFiniteSet(m.bits \ {id}) /\ Cardinality(m.bits \ {id}) = Cardinality(m.bits) - 1
      BY <1>5, FS_RemoveElement
    <2>2. Cardinality(m.bits \ {id}) \in Nat
      BY <2>1, FS_CardinalityType
    <2> QED
      BY <1>3, <1>5, <2>1, <2>2
  <1>7. Counted(y)
    <2>1. GarbageSlots(y) = GarbageSlots(m) \cup {p}
      BY <1>3, <1>5 DEF GarbageSlots
    <2>2. IsFiniteSet(GarbageSlots(m))
      <3>1. IsFiniteSet(Space(m))
        BY SoundPlaced, SpaceSize
      <3> QED
        BY <3>1, FS_Subset DEF GarbageSlots
    <2>3. p \notin GarbageSlots(m)
      BY <1>5, IdsAreRecords DEF GarbageSlots
    <2>4. Cardinality(GarbageSlots(y)) = Cardinality(GarbageSlots(m)) + 1
      BY <2>1, <2>2, <2>3, FS_AddElement
    <2>5. Cardinality(GarbageSlots(m)) \in Nat /\ Cardinality(GarbageSlots(m)) <= m.n_garbages
      BY <2>2, FS_CardinalityType DEF Sound, Counted
    <2> QED
      BY <1>3, <1>5, <1>6, <2>4, <2>5 DEF Counted
  <1>8. Roomy(y)
    <2>1. y.n_entries + y.n_garbages = m.n_entries + m.n_garbages
      BY <1>3, <1>5
    <2> QED
      BY <1>3, <2>1 DEF Sound, Roomy
  <1>9. Typed(y)
    <2>1. /\ m.garbage \in 0 .. MaxId /\ m.curr_rec \in 0 .. MaxId /\ m.curr_key \in Nat
          /\ m.bits \in SUBSET (1 .. m.curr_rec) /\ m.value \in [Ids -> Values]
          /\ m.key_size \in [Ids -> {0, 1}] /\ m.key_offset \in [Ids -> Nat]
          /\ m.keys \in [0 .. MaxId - 1 -> Nat] /\ MaxId \in Nat
      BY FlagsAssumption DEF Sound, Typed
    <2>2. y.garbage \in 0 .. MaxId /\ y.n_entries \in Nat /\ y.n_garbages \in Nat
      <3>1. id \in 0 .. MaxId
        BY <1>5, <2>1 DEF Ids
      <3>2. m.n_entries - 1 \in Nat /\ m.n_garbages + 1 \in Nat
        BY <1>5, <1>6
      <3> QED
        BY <1>3, <3>1, <3>2
    <2>3. y.bits \in SUBSET (1 .. y.curr_rec)
      BY <1>3, <2>1
    <2> QED
      BY <1>1, <1>3, <2>1, <2>2, <2>3 DEF Typed, Undone
  <1>10. KeyArea(y)
    <2>1. id \in 1 .. m.curr_rec /\ m.curr_rec \in Nat
      BY DEF Sound, Typed
    <2>2. \A i \in Ids : i > m.curr_rec => y.word[i] = m.word[i]
      BY <1>3, <1>5, <2>1
    <2> QED
      BY <1>1, <1>3, <2>2 DEF Sound, KeyArea, Undone
  <1>11. GarbageListed(y)
    BY DeletedGarbage
  <1> QED
    BY <1>2, <1>4, <1>7, <1>8, <1>9, <1>10, <1>11 DEF Sound

LEMMA IdxAt ==
    ASSUME NEW m, Shape(m), NEW h \in Nat, NEW n \in Tries(m)
    PROVE  /\ idx_at(m, ProbeHash(h, n)) = Slot(m.idx_offset, m.max_offset + 1, h, n)
           /\ idx_at(m, ProbeHash(h, n)) \in Space(m)
  <1>1. /\ m.max_offset \in Nat /\ m.max_offset + 1 >= 1 /\ m.idx_offset \in Nat /\ n \in Nat
        /\ Slot(m.idx_offset, m.max_offset + 1, h, n) \in Space(m)
    BY ShapeFacts DEF Tries
  <1>2. ProbeHash(h, n) \in Nat
    BY <1>1, ProbeHashType
  <1>3. PICK x \in Nat : x = ProbeHash(h, n) % (m.max_offset + 1)
    BY <1>1, <1>2
  <1> QED
    BY <1>1, <1>3 DEF idx_at, Slot

\* What a search that finds something has found.
LEMMA Found ==
    ASSUME NEW m, Sound(m), NEW k \in Keys, get(m, k) # NIL, NEW id, id = get(m, k)
    PROVE  /\ id \in m.bits /\ compare_key(m, id, k)
           /\ Min(Ends(m, k)) \in Tries(m)
           /\ Probed(m, HashOf[k], Min(Ends(m, k))) = id
           /\ idx_at(m, ProbeHash(HashOf[k], Min(Ends(m, k)))) \in Space(m)
           /\ m.index[idx_at(m, ProbeHash(HashOf[k], Min(Ends(m, k))))] = id
  <1>1. Shape(m) /\ Layout(m, m.bits) /\ m.bits \in SUBSET Ids /\ HashOf[k] \in Nat
    BY SoundPlaced, HashAssumption DEF Sound
  <1>2. \E i \in m.bits : compare_key(m, i, k)
    BY <1>1, GetMisses
  <1>3. PICK i \in m.bits : compare_key(m, i, k)
    BY <1>2
  <1>4. /\ get(m, k) = i /\ Min(Ends(m, k)) \in Tries(m)
        /\ Probed(m, HashOf[k], Min(Ends(m, k))) = i
    BY <1>1, <1>3, GetFinds
  <1>5. idx_at(m, ProbeHash(HashOf[k], Min(Ends(m, k)))) \in Space(m)
    BY <1>1, <1>4, IdxAt
  <1> QED
    BY <1>3, <1>4, <1>5 DEF Probed

\* grn_hash_delete: a search finds the table with the key or without it all the
\* way, and the table is sound at the end.
LEMMA DeleteLeads ==
    ASSUME NEW m, Sound(m), NEW k \in Keys, get(m, k) # NIL,
           NEW C, C = {Content(m), [Content(m) EXCEPT ![k] = Absent]}
    PROVE  \E y : /\ Leads(m, delete(m, k), C, FALSE, y) /\ Program(delete(m, k))
                  /\ Sound(y) /\ Content(y) = [Content(m) EXCEPT ![k] = Absent]
  <1> DEFINE n == Min(Ends(m, k))
             id == Probed(m, HashOf[k], Min(Ends(m, k)))
             ihv == ProbeHash(HashOf[k], Min(Ends(m, k)))
             p == idx_at(m, ProbeHash(HashOf[k], Min(Ends(m, k))))
             e == [event |-> "DELETE_ENTRY", record_id |-> id, index_hash_value |-> ihv,
                   garbage_record_id |-> m.garbage, n_garbages |-> m.n_garbages,
                   n_entries |-> m.n_entries]
  <1>1. delete(m, k) = Log(e) \o delete_entry(m, id, p)
    BY DEF delete, delete_internal
  <1>2. id \in m.bits /\ compare_key(m, id, k) /\ p \in Space(m) /\ m.index[p] = id
    BY Found
  <1> HIDE DEF n, id, ihv, p, e
  <1>3. /\ DOMAIN m = Fields /\ m.word \in [Ids -> Nat] /\ id \in Ids /\ m.garbage \in Nat
        /\ Content(m) \in C
    <2>1. m.garbage \in 0 .. MaxId
      BY DEF Sound, Typed
    <2> QED
      BY <1>2, <2>1, SoundPlaced, FlagsAssumption DEF Typed
  <1>4. ASSUME NEW x, Undone(m, x, id, p)
        PROVE  Content(x) \in C /\ Content(x) = [Content(m) EXCEPT ![k] = Absent]
    BY <1>2, <1>4, UndoneLayout
  <1>5. ASSUME NEW x, Undone(m, x, id, p), NEW f \in HeaderFields, NEW v
        PROVE  /\ Undone(m, Stored(x, f, v), id, p)
               /\ Leads(x, Set(f, v), C, FALSE, Stored(x, f, v)) /\ Program(Set(f, v))
               /\ Stored(x, f, v)[f] = v
               /\ \A g \in Fields : g # f => Stored(x, f, v)[g] = x[g]
    <2> DEFINE y == Stored(x, f, v)
    <2>1. f \in Fields /\ DOMAIN x = Fields
      BY <1>5 DEF HeaderFields, Fields, Undone
    <2>2. DOMAIN y = Fields /\ y[f] = v /\ \A g \in Fields : g # f => y[g] = x[g]
      BY <2>1, StoredFields
    <2> HIDE DEF y
    <2>3. /\ y.index = x.index /\ y.idx_offset = x.idx_offset /\ y.max_offset = x.max_offset
          /\ y.word = x.word /\ y.value = x.value /\ y.key_size = x.key_size
          /\ y.key_offset = x.key_offset /\ y.keys = x.keys
      BY <2>2 DEF HeaderFields, Fields
    <2>4. Undone(m, y, id, p)
      BY <1>5, <2>2, <2>3 DEF Undone
    <2>5. Content(x) \in C /\ Content(y) \in C
      BY <1>4, <1>5, <2>4
    <2>6. Leads(x, Set(f, v), C, FALSE, y) /\ Program(Set(f, v))
      BY <2>5, LeadsSet DEF y
    <2> QED
      BY <2>2, <2>4, <2>6 DEF y
  <1> DEFINE x1 == Stored(m, "index", [m.index EXCEPT ![p] = GARBAGE])
  <1>6. /\ DOMAIN x1 = Fields /\ x1.index = [m.index EXCEPT ![p] = GARBAGE]
        /\ \A g \in Fields : g # "index" => x1[g] = m[g]
    <2>1. "index" \in Fields
      BY DEF Fields
    <2> QED
      BY <1>3, <2>1, StoredFields
  <1>7. x1 = Stored(m, "index", [m["index"] EXCEPT ![p] = GARBAGE])
    OBVIOUS
  <1> HIDE DEF x1
  <1>8. /\ x1.idx_offset = m.idx_offset /\ x1.max_offset = m.max_offset
        /\ x1.word = m.word /\ x1.value = m.value /\ x1.key_size = m.key_size
        /\ x1.key_offset = m.key_offset /\ x1.keys = m.keys
        /\ x1.curr_rec = m.curr_rec /\ x1.curr_key = m.curr_key
    BY <1>6 DEF Fields
  <1>9. Undone(m, x1, id, p)
    BY <1>3, <1>6, <1>8 DEF Undone
  <1>10. Leads(m, Put("index", p, GARBAGE), C, FALSE, x1) /\ Program(Put("index", p, GARBAGE))
    <2>1. Content(x1) \in C
      BY <1>4, <1>9
    <2> QED
      BY <1>3, <1>7, <2>1, LeadsPut
  <1> DEFINE x2 == Stored(x1, "word", [x1.word EXCEPT ![id] = m.garbage])
  <1>11. /\ DOMAIN x2 = Fields /\ x2.word = [x1.word EXCEPT ![id] = m.garbage]
         /\ \A g \in Fields : g # "word" => x2[g] = x1[g]
    <2>1. "word" \in Fields
      BY DEF Fields
    <2> QED
      BY <1>6, <2>1, StoredFields
  <1>12. x2 = Stored(x1, "word", [x1["word"] EXCEPT ![id] = m.garbage])
    OBVIOUS
  <1> HIDE DEF x2
  <1>13. /\ x2.idx_offset = m.idx_offset /\ x2.max_offset = m.max_offset
         /\ x2.index = [m.index EXCEPT ![p] = GARBAGE]
         /\ x2.word = [m.word EXCEPT ![id] = m.garbage]
         /\ x2.value = m.value /\ x2.key_size = m.key_size
         /\ x2.key_offset = m.key_offset /\ x2.keys = m.keys
         /\ x2.curr_rec = m.curr_rec /\ x2.curr_key = m.curr_key
    BY <1>6, <1>8, <1>11 DEF Fields
  <1>14. Undone(m, x2, id, p)
    <2>1. x2.word \in [Ids -> Nat] /\ \A i \in Ids : i # id => x2.word[i] = m.word[i]
      BY <1>3, <1>13
    <2> QED
      BY <1>11, <1>13, <2>1 DEF Undone
  <1>15. Leads(x1, Put("word", id, m.garbage), C, FALSE, x2) /\ Program(Put("word", id, m.garbage))
    <2>1. Content(x1) \in C /\ Content(x2) \in C
      BY <1>4, <1>9, <1>14
    <2> QED
      BY <1>12, <2>1, LeadsPut
  <1> DEFINE x3 == Stored(x2, "garbage", id)
             x4 == Stored(x3, "bits", m.bits \ {id})
             x5 == Stored(x4, "n_garbages", m.n_garbages + 1)
             y == Stored(x5, "n_entries", m.n_entries - 1)
  <1>16. /\ "garbage" \in HeaderFields /\ "bits" \in HeaderFields
         /\ "n_garbages" \in HeaderFields /\ "n_entries" \in HeaderFields
    BY DEF HeaderFields
  <1>17. /\ Undone(m, x3, id, p) /\ Leads(x2, Set("garbage", id), C, FALSE, x3)
         /\ Program(Set("garbage", id))
         /\ x3.garbage = id /\ \A g \in Fields : g # "garbage" => x3[g] = x2[g]
    <2>1. /\ Undone(m, x3, id, p) /\ Leads(x2, Set("garbage", id), C, FALSE, x3)
          /\ Program(Set("garbage", id))
      BY <1>5, <1>14, <1>16
    <2>2. DOMAIN x2 = Fields /\ "garbage" \in Fields
      BY <1>14 DEF Undone, Fields
    <2>3. x3["garbage"] = id /\ \A g \in Fields : g # "garbage" => x3[g] = x2[g]
      BY <2>2, StoredFields
    <2> HIDE DEF x3
    <2> QED
      BY <2>1, <2>3
  <1> HIDE DEF x3
  <1>18. /\ Undone(m, x4, id, p) /\ Leads(x3, Set("bits", m.bits \ {id}), C, FALSE, x4)
         /\ Program(Set("bits", m.bits \ {id}))
         /\ x4.bits = m.bits \ {id} /\ \A g \in Fields : g # "bits" => x4[g] = x3[g]
    <2>1. /\ Undone(m, x4, id, p) /\ Leads(x3, Set("bits", m.bits \ {id}), C, FALSE, x4)
          /\ Program(Set("bits", m.bits \ {id}))
      BY <1>5, <1>17, <1>16
    <2>2. DOMAIN x3 = Fields /\ "bits" \in Fields
      BY <1>17 DEF Undone, Fields
    <2>3. x4["bits"] = m.bits \ {id} /\ \A g \in Fields : g # "bits" => x4[g] = x3[g]
      BY <2>2, StoredFields
    <2> HIDE DEF x4
    <2> QED
      BY <2>1, <2>3
  <1> HIDE DEF x4
  <1>19. /\ Undone(m, x5, id, p) /\ Leads(x4, Set("n_garbages", m.n_garbages + 1), C, FALSE, x5)
         /\ Program(Set("n_garbages", m.n_garbages + 1))
         /\ x5.n_garbages = m.n_garbages + 1 /\ \A g \in Fields : g # "n_garbages" => x5[g] = x4[g]
    <2>1. /\ Undone(m, x5, id, p) /\ Leads(x4, Set("n_garbages", m.n_garbages + 1), C, FALSE, x5)
          /\ Program(Set("n_garbages", m.n_garbages + 1))
      BY <1>5, <1>18, <1>16
    <2>2. DOMAIN x4 = Fields /\ "n_garbages" \in Fields
      BY <1>18 DEF Undone, Fields
    <2>3. x5["n_garbages"] = m.n_garbages + 1 /\ \A g \in Fields : g # "n_garbages" => x5[g] = x4[g]
      BY <2>2, StoredFields
    <2> HIDE DEF x5
    <2> QED
      BY <2>1, <2>3
  <1> HIDE DEF x5
  <1>20. /\ Undone(m, y, id, p) /\ Leads(x5, Set("n_entries", m.n_entries - 1), C, FALSE, y)
         /\ Program(Set("n_entries", m.n_entries - 1))
         /\ y.n_entries = m.n_entries - 1 /\ \A g \in Fields : g # "n_entries" => y[g] = x5[g]
    <2>1. /\ Undone(m, y, id, p) /\ Leads(x5, Set("n_entries", m.n_entries - 1), C, FALSE, y)
          /\ Program(Set("n_entries", m.n_entries - 1))
      BY <1>5, <1>19, <1>16
    <2>2. DOMAIN x5 = Fields /\ "n_entries" \in Fields
      BY <1>19 DEF Undone, Fields
    <2>3. y["n_entries"] = m.n_entries - 1 /\ \A g \in Fields : g # "n_entries" => y[g] = x5[g]
      BY <2>2, StoredFields
    <2> HIDE DEF y
    <2> QED
      BY <2>1, <2>3
  <1> HIDE DEF y
  <1>21. /\ y.word = [m.word EXCEPT ![id] = m.garbage]
         /\ y.garbage = id /\ y.bits = m.bits \ {id}
         /\ y.n_garbages = m.n_garbages + 1 /\ y.n_entries = m.n_entries - 1
         /\ y.curr_rec = m.curr_rec /\ y.curr_key = m.curr_key
    BY <1>13, <1>17, <1>18, <1>19, <1>20 DEF Fields
  <1>22. Deleted(m, y, id, p)
    BY <1>20, <1>21 DEF Deleted
  <1> DEFINE P1 == Put("index", p, GARBAGE)
             P2 == Put("word", id, m.garbage)
             P3 == Set("garbage", id)
             P4 == Set("bits", m.bits \ {id})
             P5 == Set("n_garbages", m.n_garbages + 1)
             P6 == Set("n_entries", m.n_entries - 1)
             Q2 == P1 \o P2
             Q3 == Q2 \o P3
             Q4 == Q3 \o P4
             Q5 == Q4 \o P5
             Q6 == Q5 \o P6
  <1>23. delete_entry(m, id, p) = Q6
    BY DEF delete_entry
  <1>24. /\ Leads(m, P1, C, FALSE, x1) /\ Program(P1)
         /\ Leads(x1, P2, C, FALSE, x2) /\ Program(P2)
         /\ Leads(x2, P3, C, FALSE, x3) /\ Program(P3)
         /\ Leads(x3, P4, C, FALSE, x4) /\ Program(P4)
         /\ Leads(x4, P5, C, FALSE, x5) /\ Program(P5)
         /\ Leads(x5, P6, C, FALSE, y) /\ Program(P6)
    BY <1>10, <1>15, <1>17, <1>18, <1>19, <1>20
  <1> HIDE DEF P1, P2, P3, P4, P5, P6
  <1>25. Leads(m, Q2, C, FALSE, x2) /\ Program(Q2)
    BY <1>24, LeadsOn
  <1> HIDE DEF Q2
  <1>26. Leads(m, Q3, C, FALSE, x3) /\ Program(Q3)
    BY <1>24, <1>25, LeadsOn
  <1> HIDE DEF Q3
  <1>27. Leads(m, Q4, C, FALSE, x4) /\ Program(Q4)
    BY <1>24, <1>26, LeadsOn
  <1> HIDE DEF Q4
  <1>28. Leads(m, Q5, C, FALSE, x5) /\ Program(Q5)
    BY <1>24, <1>27, LeadsOn
  <1> HIDE DEF Q5
  <1>29. Leads(m, Q6, C, FALSE, y) /\ Program(Q6)
    BY <1>24, <1>28, LeadsOn
  <1> HIDE DEF Q6
  <1>30. Leads(m, delete_entry(m, id, p), C, FALSE, y) /\ Program(delete_entry(m, id, p))
    BY <1>23, <1>29, Zenon
  <1>31. Leads(m, Log(e), C, FALSE, m) /\ Program(Log(e))
    BY <1>3, LeadsLog
  <1>32. /\ Leads(m, Log(e) \o delete_entry(m, id, p), C, FALSE, y)
         /\ Program(Log(e) \o delete_entry(m, id, p))
    BY <1>30, <1>31, LeadsOn
  <1>33. Leads(m, delete(m, k), C, FALSE, y) /\ Program(delete(m, k))
    BY <1>1, <1>32, Zenon
  <1>34. Sound(y)
    BY <1>2, <1>22, DeletedSound
  <1>35. Content(y) = [Content(m) EXCEPT ![k] = Absent]
    BY <1>4, <1>20
  <1> QED
    BY <1>33, <1>34, <1>35

-----------------------------------------------------------------------------
(* grn_hash_set_value.                                                     *)

Changed(content, k, v) == [content EXCEPT ![k] = v]
Promised(m, P, C, c) ==
    \E y : Leads(m, P, C, FALSE, y) /\ Program(P) /\ Sound(y) /\ Content(y) = c

LEMMA SetValueLeads ==
    ASSUME NEW m, Sound(m), NEW k \in Keys, get(m, k) # NIL, NEW v \in Values,
           NEW id, id = get(m, k),
           NEW C, Content(m) \in C, Changed(Content(m), k, v) \in C
    PROVE  Promised(m, set_value(id, v), C, Changed(Content(m), k, v))
  <1> DEFINE w == [m.value EXCEPT ![id] = v]
             y == Stored(m, "value", w)
             e == [event |-> "SET_VALUE", record_id |-> id, value |-> v]
  <1>1. id \in m.bits /\ compare_key(m, id, k)
    BY Found
  <1>2. /\ DOMAIN m = Fields /\ m.value \in [Ids -> Values] /\ m.bits \in SUBSET Ids
        /\ id \in 1 .. m.curr_rec /\ m.curr_rec \in Nat /\ "value" \in Fields
        /\ Shape(m) /\ Layout(m, m.bits)
    <2>1. /\ DOMAIN m = Fields /\ m.value \in [Ids -> Values]
          /\ m.curr_rec \in 0 .. MaxId /\ m.bits \in SUBSET (1 .. m.curr_rec)
          /\ Layout(m, m.bits)
      BY DEF Sound, Typed
    <2>2. m.bits \in SUBSET Ids /\ Shape(m)
      BY SoundPlaced
    <2>3. "value" \in Fields
      BY DEF Fields
    <2> QED
      BY <1>1, <2>1, <2>2, <2>3
  <1>3. w \in [Ids -> Values] /\ w[id] = v /\ \A i \in Ids : i # id => w[i] = m.value[i]
    BY <1>1, <1>2
  <1>4. DOMAIN y = Fields /\ y.value = w /\ \A g \in Fields : g # "value" => y[g] = m[g]
    BY <1>2, StoredFields
  <1>5. y = Stored(m, "value", [m["value"] EXCEPT ![id] = v])
    OBVIOUS
  <1> HIDE DEF w, y, e
  <1>6. /\ y.index = m.index /\ y.idx_offset = m.idx_offset /\ y.max_offset = m.max_offset
        /\ y.word = m.word /\ y.key_size = m.key_size /\ y.key_offset = m.key_offset
        /\ y.keys = m.keys /\ y.n_entries = m.n_entries /\ y.n_garbages = m.n_garbages
        /\ y.garbage = m.garbage /\ y.curr_rec = m.curr_rec /\ y.curr_key = m.curr_key
        /\ y.bits = m.bits
    BY <1>4 DEF Fields
  <1>7. /\ \A i, j : compare_key(y, i, j) <=> compare_key(m, i, j)
        /\ Space(y) = Space(m) /\ Free(y) = Free(m)
    BY <1>6 DEF compare_key, Space, Free
  <1>8. Shape(y) /\ Layout(y, y.bits)
    BY <1>2, <1>6, <1>7 DEF Shape, Layout
  <1>9. Owned(y) /\ Counted(y) /\ Roomy(y)
    <2>1. GarbageSlots(y) = GarbageSlots(m)
      BY <1>6, <1>7 DEF GarbageSlots
    <2> QED
      BY <1>6, <1>7, <2>1 DEF Sound, Owned, Counted, Roomy
  <1>10. Typed(y)
    BY <1>3, <1>4, <1>6 DEF Sound, Typed
  <1>11. KeyArea(y)
    <2>1. \A i \in Ids : i > m.curr_rec => y.value[i] = m.value[i]
      BY <1>2, <1>3, <1>4
    <2> QED
      BY <1>6, <2>1 DEF Sound, KeyArea
  <1>12. GarbageListed(y)
    <2>1. PICK n \in Nat : \E f : Chained(m, f, n)
      BY DEF Sound, GarbageListed
    <2>2. PICK g : Chained(m, g, n)
      BY <2>1
    <2>3. Chained(y, g, n)
      BY <1>6, <1>7, <2>2 DEF Chained
    <2> QED
      BY <2>3 DEF GarbageListed
  <1>13. Sound(y)
    BY <1>8, <1>9, <1>10, <1>11, <1>12 DEF Sound
  <1>14. Content(y) = [Content(m) EXCEPT ![k] = v]
    <2>1. Content(y)[k] = v
      BY <1>1, <1>2, <1>3, <1>4, <1>6, <1>7, <1>8, ContentAt
    <2>2. ASSUME NEW j \in Keys, j # k PROVE Content(y)[j] = Content(m)[j]
      <3>1. CASE \E i \in m.bits : compare_key(m, i, j)
        <4>1. PICK i \in m.bits : compare_key(m, i, j)
          BY <3>1
        <4>2. i # id /\ i \in Ids
          BY <1>1, <1>2, <2>2, <4>1, OneKey
        <4>3. Content(m)[j] = m.value[i] /\ Content(y)[j] = y.value[i]
          BY <1>2, <1>6, <1>7, <1>8, <4>1, ContentAt
        <4> QED
          BY <1>3, <1>4, <4>2, <4>3
      <3>2. CASE ~\E i \in m.bits : compare_key(m, i, j)
        <4>1. Content(m)[j] = Absent
          BY <1>2, <3>2, ContentAt
        <4>2. Content(y)[j] = Absent
          BY <1>2, <1>6, <1>7, <1>8, <3>2, ContentAt
        <4> QED
          BY <4>1, <4>2
      <3> QED
        BY <3>1, <3>2
    <2> QED
      BY <2>1, <2>2 DEF Content
  <1>15. Content(m) \in C /\ Content(y) \in C /\ Content(y) = Changed(Content(m), k, v)
    BY <1>14 DEF Changed
  <1>16. Leads(m, Put("value", id, v), C, FALSE, y) /\ Program(Put("value", id, v))
    BY <1>5, <1>15, LeadsPut
  <1>17. Leads(m, Log(e), C, FALSE, m) /\ Program(Log(e))
    BY <1>15, LeadsLog
  <1>18. /\ Leads(m, Log(e) \o Put("value", id, v), C, FALSE, y)
         /\ Program(Log(e) \o Put("value", id, v))
    BY <1>16, <1>17, LeadsOn
  <1>19. set_value(id, v) = Log(e) \o Put("value", id, v)
    BY DEF set_value, e
  <1>20. Leads(m, set_value(id, v), C, FALSE, y) /\ Program(set_value(id, v))
    BY <1>18, <1>19, Zenon
  <1> QED
    BY <1>13, <1>15, <1>20 DEF Promised

-----------------------------------------------------------------------------
(* grn_hash_rehash.                                                        *)

LEMMA LargerOfTwo ==
    ASSUME NEW a \in Nat, NEW b \in Nat
    PROVE  Max({a, b}) \in {a, b} /\ Max({a, b}) >= a /\ Max({a, b}) >= b
  <1>1. \E x \in {a, b} : \A y \in {a, b} : x >= y
    <2>1. CASE a >= b
      BY <2>1
    <2>2. CASE b >= a
      BY <2>2
    <2>3. a >= b \/ b >= a
      OBVIOUS
    <2> QED
      BY <2>1, <2>2, <2>3, Zenon
  <1> QED
    BY <1>1 DEF Max

\* The new space is large enough for the records.
LEMMA NewSize ==
    ASSUME NEW m, Sound(m), needs_rehash(m), expected_n_entries(m) < MaxIndexSize,
           NEW z, z = new_index_size(expected_n_entries(m))
    PROVE  z \in IndexSizes /\ z \in Nat /\ z >= 2 /\ z <= MaxIndexSize /\ m.n_entries < z
  <1>1. /\ m.n_entries \in Nat /\ m.max_offset \in Nat /\ m.n_entries <= m.max_offset + 1
        /\ m.max_offset < MaxIndexSize /\ m.max_offset # MaxIndexSize - 1
        /\ MaxIndexSize \in Nat /\ MaxIndexSize >= 2 /\ SourceSize \in Nat
    BY SoundPlaced, MaxSizeType, FlagsAssumption DEF Shape, needs_rehash
  <1>2. m.n_entries <= MaxIndexSize - 1
    BY <1>1
  <1> DEFINE doubled == Min({m.n_entries * 2, MaxIndexSize - 1})
  <1>3. doubled \in Nat /\ m.n_entries <= doubled
    <2>1. {m.n_entries * 2, MaxIndexSize - 1} \in SUBSET Nat
      BY <1>1
    <2>2. doubled \in {m.n_entries * 2, MaxIndexSize - 1}
      BY <2>1, MinOfNaturals
    <2> HIDE DEF doubled
    <2> QED
      BY <1>1, <1>2, <2>2
  <1> HIDE DEF doubled
  <1>4. PICK e \in Nat : e = expected_n_entries(m) /\ doubled <= e
    <2>1. CASE IsReference
      <3>1. expected_n_entries(m) = Max({doubled, SourceSize + 1})
        BY <2>1 DEF expected_n_entries, doubled
      <3>2. SourceSize + 1 \in Nat
        BY <1>1
      <3>3. /\ Max({doubled, SourceSize + 1}) \in {doubled, SourceSize + 1}
            /\ Max({doubled, SourceSize + 1}) >= doubled
        BY <1>3, <3>2, LargerOfTwo
      <3>4. PICK e \in Nat : e = Max({doubled, SourceSize + 1})
        BY <1>3, <3>2, <3>3
      <3>5. doubled <= e
        BY <1>3, <3>3, <3>4
      <3> QED
        BY <3>1, <3>4, <3>5
    <2>2. CASE ~IsReference
      <3>1. expected_n_entries(m) = doubled
        BY <2>2 DEF expected_n_entries, doubled
      <3>2. doubled <= doubled
        BY <1>3
      <3> QED
        BY <1>3, <3>1, <3>2
    <2> QED
      BY <2>1, <2>2
  <1> DEFINE S == {s \in IndexSizes : s >= InitialIndexSize /\ s > e}
  <1>5. S \in SUBSET Nat /\ MaxIndexSize \in S
    <2>1. MaxIndexSize \in IndexSizes /\ MaxIndexSize >= InitialIndexSize
      BY SizeAssumption, SMT DEF IndexSizes
    <2>2. IndexSizes \subseteq Nat
      BY SizesArePositive
    <2> QED
      BY <1>1, <1>4, <2>1, <2>2
  <1>6. z = Min(S)
    BY <1>4 DEF new_index_size
  <1>7. z \in S /\ z <= MaxIndexSize
    BY <1>5, <1>6, MinOfNaturals
  <1>8. z \in IndexSizes /\ z \in Nat /\ z >= InitialIndexSize /\ z > e
    BY <1>5, <1>7
  <1>9. InitialIndexSize >= 2 /\ InitialIndexSize \in Nat
    BY SizeAssumption, SMT DEF IndexSizes
  <1>10. z >= 2 /\ m.n_entries < z
    BY <1>1, <1>3, <1>4, <1>8, <1>9
  <1> QED
    BY <1>7, <1>8, <1>10

\* The records of the first n slots of the space in use.
Copied(m, n) == {m.index[m.idx_offset + j] : j \in 0 .. n - 1} \ {NIL, GARBAGE}

LEMMA CopiedFacts ==
    ASSUME NEW m, Sound(m)
    PROVE  /\ Copied(m, 0) = {} /\ Copied(m, m.max_offset + 1) = m.bits
           /\ \A n \in 0 .. m.max_offset :
                 /\ m.idx_offset + n \in Space(m) /\ Copied(m, n) \subseteq m.bits
                 /\ m.index[m.idx_offset + n] \in {NIL, GARBAGE} =>
                       Copied(m, n + 1) = Copied(m, n)
                 /\ m.index[m.idx_offset + n] \notin {NIL, GARBAGE} =>
                       /\ Copied(m, n + 1) = Copied(m, n) \cup {m.index[m.idx_offset + n]}
                       /\ m.index[m.idx_offset + n] \in m.bits \ Copied(m, n)
  <1>1. /\ m.idx_offset \in Nat /\ m.max_offset \in Nat /\ m.max_offset + 1 \in IndexSizes
        /\ Space(m) = m.idx_offset .. m.idx_offset + m.max_offset
        /\ Placed(m.index, m.word, m.idx_offset, m.max_offset + 1, m.bits)
        /\ m.bits \in SUBSET Ids /\ IsFiniteSet(m.bits) /\ m.word \in [Ids -> Nat]
        /\ Space(m) = SpaceOf(m.idx_offset, m.max_offset + 1)
    <2>1. /\ m.idx_offset \in Nat /\ m.max_offset \in Nat /\ m.max_offset + 1 \in IndexSizes
          /\ Space(m) = SpaceOf(m.idx_offset, m.max_offset + 1)
          /\ Placed(m.index, m.word, m.idx_offset, m.max_offset + 1, m.bits)
          /\ m.bits \in SUBSET Ids /\ IsFiniteSet(m.bits) /\ m.word \in [Ids -> Nat]
      BY SoundPlaced
    <2>2. SpaceOf(m.idx_offset, m.max_offset + 1) = m.idx_offset .. m.idx_offset + m.max_offset
      BY <2>1 DEF SpaceOf
    <2> QED
      BY <2>1, <2>2
  <1>2. \A j \in 0 .. m.max_offset : m.idx_offset + j \in Space(m)
    BY <1>1
  <1>3. \A q \in Space(m) : m.index[q] \in m.bits \cup {NIL, GARBAGE}
    BY DEF Sound, Owned
  <1>4. Copied(m, 0) = {}
    <2>1. 0 .. 0 - 1 = {}
      OBVIOUS
    <2> QED
      BY <2>1 DEF Copied
  <1>5. Copied(m, m.max_offset + 1) = m.bits
    <2>1. Copied(m, m.max_offset + 1) \subseteq m.bits
      <3>1. 0 .. (m.max_offset + 1) - 1 = 0 .. m.max_offset
        BY <1>1
      <3> QED
        BY <1>2, <1>3, <3>1 DEF Copied
    <2>2. ASSUME NEW i \in m.bits PROVE i \in Copied(m, m.max_offset + 1)
      <3>1. PICK q \in Space(m) : m.index[q] = i
        BY <1>1, RecordsFit
      <3>2. /\ q - m.idx_offset \in 0 .. (m.max_offset + 1) - 1
            /\ m.idx_offset + (q - m.idx_offset) = q
        BY <1>1, <3>1
      <3>3. i \notin {NIL, GARBAGE}
        BY <1>1, IdsAreRecords
      <3> QED
        BY <3>1, <3>2, <3>3 DEF Copied
    <2> QED
      BY <2>1, <2>2
  <1>6. ASSUME NEW n \in 0 .. m.max_offset
        PROVE  /\ m.idx_offset + n \in Space(m) /\ Copied(m, n) \subseteq m.bits
               /\ m.index[m.idx_offset + n] \in {NIL, GARBAGE} =>
                     Copied(m, n + 1) = Copied(m, n)
               /\ m.index[m.idx_offset + n] \notin {NIL, GARBAGE} =>
                     /\ Copied(m, n + 1) = Copied(m, n) \cup {m.index[m.idx_offset + n]}
                     /\ m.index[m.idx_offset + n] \in m.bits \ Copied(m, n)
    <2>1. /\ 0 .. (n + 1) - 1 = (0 .. n - 1) \cup {n} /\ 0 .. n - 1 \subseteq 0 .. m.max_offset
          /\ m.idx_offset + n \in Space(m)
      BY <1>1, <1>2
    <2>2. Copied(m, n) \subseteq m.bits
      BY <1>2, <1>3, <2>1 DEF Copied
    <2>3. Copied(m, n + 1) = (Copied(m, n) \cup {m.index[m.idx_offset + n]}) \ {NIL, GARBAGE}
      BY <2>1 DEF Copied
    <2>4. Copied(m, n) \cap {NIL, GARBAGE} = {}
      BY DEF Copied
    <2>5. ASSUME m.index[m.idx_offset + n] \notin {NIL, GARBAGE}
          PROVE  m.index[m.idx_offset + n] \in m.bits \ Copied(m, n)
      <3>1. m.index[m.idx_offset + n] \in m.bits
        BY <1>3, <2>1, <2>5
      <3>2. ASSUME m.index[m.idx_offset + n] \in Copied(m, n) PROVE FALSE
        <4>1. PICK j \in 0 .. n - 1 : m.index[m.idx_offset + j] = m.index[m.idx_offset + n]
          BY <3>2 DEF Copied
        <4>2. m.idx_offset + j \in Space(m)
          BY <1>2, <2>1, <4>1
        <4>3. m.idx_offset + j = m.idx_offset + n
          BY <1>1, <2>1, <3>1, <4>1, <4>2 DEF Placed
        <4> QED
          BY <1>1, <4>1, <4>3
      <3> QED
        BY <3>1, <3>2
    <2> QED
      BY <2>1, <2>2, <2>3, <2>4, <2>5
  <1> QED
    BY <1>4, <1>5, <1>6

\* The memory x, a rehash of m, once n slots have been copied.
Copying(m, x, dest, z, n) ==
    /\ DOMAIN x = Fields /\ \A g \in Fields : g # "index" => x[g] = m[g]
    /\ x.index \in [Slots -> Ids \cup {NIL, GARBAGE}]
    /\ \A q \in Space(m) : x.index[q] = m.index[q]
    /\ Placed(x.index, m.word, dest, z, Copied(m, n))
    /\ \A q \in SpaceOf(dest, z) : x.index[q] \in Copied(m, n) \cup {NIL}

\* The space a rehash fills is not the one in use.
OtherSpace(m, dest, z) ==
    /\ dest = MaxIndexSize - m.idx_offset
    /\ z \in IndexSizes /\ z <= MaxIndexSize /\ m.n_entries < z /\ z >= 2

LEMMA OtherSpaceFacts ==
    ASSUME NEW m, Sound(m), NEW dest, NEW z, OtherSpace(m, dest, z)
    PROVE  /\ dest \in {0, MaxIndexSize} /\ dest \in Nat /\ z \in Nat
           /\ SpaceOf(dest, z) \subseteq Slots
           /\ SpaceOf(dest, MaxIndexSize) \subseteq Slots
           /\ SpaceOf(dest, z) \subseteq SpaceOf(dest, MaxIndexSize)
           /\ Space(m) \cap SpaceOf(dest, MaxIndexSize) = {}
  <1>1. /\ m.idx_offset \in {0, MaxIndexSize} /\ m.max_offset \in Nat
        /\ m.max_offset < MaxIndexSize
    BY DEF Sound, Shape
  <1>2. MaxIndexSize \in Nat /\ MaxIndexSize \in IndexSizes
    BY MaxSizeType
  <1>3. dest \in {0, MaxIndexSize} /\ z \in Nat
    BY <1>1, <1>2, SizesArePositive DEF OtherSpace
  <1>4. dest \in Nat /\ SpaceOf(dest, z) \subseteq Slots
    BY <1>3, SpacesInside DEF OtherSpace
  <1>5. SpaceOf(dest, MaxIndexSize) \subseteq Slots
    BY <1>2, <1>3, SpacesInside
  <1>6. SpaceOf(dest, z) \subseteq SpaceOf(dest, MaxIndexSize)
    BY <1>2, <1>3, <1>4 DEF SpaceOf, OtherSpace
  <1>7. Space(m) \cap SpaceOf(dest, MaxIndexSize) = {}
    <2>1. ASSUME NEW q \in Space(m), q \in SpaceOf(dest, MaxIndexSize) PROVE FALSE
      <3>1. /\ q \in m.idx_offset .. m.idx_offset + (m.max_offset + 1) - 1
            /\ q \in dest .. dest + MaxIndexSize - 1 /\ dest = MaxIndexSize - m.idx_offset
        BY <2>1 DEF Space, SpaceOf, OtherSpace
      <3> QED
        BY <1>1, <1>2, <1>4, <3>1
    <2> QED
      BY <2>1
  <1> QED
    BY <1>3, <1>4, <1>5, <1>6, <1>7

\* A search goes on in the space in use.
LEMMA CopyingContent ==
    ASSUME NEW m, Sound(m), NEW x, NEW dest, NEW z, NEW n, Copying(m, x, dest, z, n)
    PROVE  Content(x) = Content(m)
  <1>1. /\ x.idx_offset = m.idx_offset /\ x.max_offset = m.max_offset /\ x.word = m.word
        /\ x.value = m.value /\ x.key_size = m.key_size /\ x.key_offset = m.key_offset
        /\ x.keys = m.keys
    BY DEF Copying, Fields
  <1>2. Space(x) = Space(m) /\ \A q \in Space(m) : x.index[q] = m.index[q]
    BY <1>1 DEF Copying, Space
  <1>3. \A i, k : compare_key(x, i, k) <=> compare_key(m, i, k)
    BY <1>1 DEF compare_key
  <1>4. Shape(m) /\ Layout(m, m.bits) /\ m.bits \in SUBSET Ids /\ m.word \in [Ids -> Nat]
    BY SoundPlaced DEF Sound
  <1>5. Shape(x) /\ SameOn(m, x, m.bits)
    BY <1>1, <1>4 DEF Shape, SameOn, Copying
  <1>6. Placed(x.index, x.word, x.idx_offset, x.max_offset + 1, m.bits)
    <2>1. /\ Placed(m.index, m.word, m.idx_offset, m.max_offset + 1, m.bits)
          /\ Space(m) = SpaceOf(m.idx_offset, m.max_offset + 1)
          /\ m.idx_offset \in Nat /\ m.max_offset \in Nat /\ m.max_offset + 1 \in IndexSizes
      BY SoundPlaced
    <2>2. \A i \in m.bits, t \in 0 .. (m.max_offset + 1) - 1 :
             x.index[Slot(m.idx_offset, m.max_offset + 1, m.word[i], t)]
               = m.index[Slot(m.idx_offset, m.max_offset + 1, m.word[i], t)]
      <3> TAKE i \in m.bits, t \in 0 .. (m.max_offset + 1) - 1
      <3>1. m.word[i] \in Nat /\ t \in Nat
        BY <1>4, <2>1
      <3>2. Slot(m.idx_offset, m.max_offset + 1, m.word[i], t) \in Space(m)
        BY <2>1, <3>1, SlotType
      <3> QED
        BY <1>2, <3>2
    <2>3. \A p, q \in SpaceOf(m.idx_offset, m.max_offset + 1) :
             (x.index[p] \in m.bits /\ x.index[p] = x.index[q]) => p = q
      BY <1>2, <2>1 DEF Placed
    <2>4. ASSUME NEW i \in m.bits
          PROVE  \E s \in 0 .. (m.max_offset + 1) - 1 :
                    /\ x.index[Slot(m.idx_offset, m.max_offset + 1, m.word[i], s)] = i
                    /\ \A t \in 0 .. s - 1 :
                          x.index[Slot(m.idx_offset, m.max_offset + 1, m.word[i], t)] # NIL
      <3>1. PICK s \in 0 .. (m.max_offset + 1) - 1 :
               /\ m.index[Slot(m.idx_offset, m.max_offset + 1, m.word[i], s)] = i
               /\ \A t \in 0 .. s - 1 :
                     m.index[Slot(m.idx_offset, m.max_offset + 1, m.word[i], t)] # NIL
        BY <2>1 DEF Placed
      <3>2. \A t \in 0 .. s - 1 : t \in 0 .. (m.max_offset + 1) - 1
        BY <2>1, <3>1
      <3> QED
        BY <2>2, <3>1, <3>2
    <2> QED
      BY <1>1, <2>3, <2>4 DEF Placed
  <1>7. Layout(x, m.bits)
    BY <1>2, <1>3, <1>4, <1>6 DEF Layout
  <1> QED
    BY <1>4, <1>5, <1>7, ContentSame

\* Not all records have been copied: some slot of the new space is empty.
LEMMA CopyRoom ==
    ASSUME NEW m, Sound(m), NEW dest, NEW z, OtherSpace(m, dest, z),
           NEW L \in SUBSET m.bits, NEW id \in m.bits \ L, NEW index,
           Placed(index, m.word, dest, z, L),
           \A q \in SpaceOf(dest, z) : index[q] \in L \cup {NIL}
    PROVE  /\ Cardinality({q \in SpaceOf(dest, z) : index[q] # NIL}) < m.n_entries
           /\ \E t \in 0 .. z - 1 : index[Slot(dest, z, m.word[id], t)] = NIL
  <1>1. /\ m.bits \in SUBSET Ids /\ IsFiniteSet(m.bits) /\ m.n_entries = Cardinality(m.bits)
        /\ m.word \in [Ids -> Nat] /\ m.n_entries \in Nat
        /\ z \in IndexSizes /\ z \in Nat /\ m.n_entries < z /\ dest \in Nat
    BY SoundPlaced, OtherSpaceFacts DEF OtherSpace
  <1>2. IsFiniteSet(L) /\ Cardinality(L) \in Nat
    BY <1>1, FS_Subset, FS_CardinalityType
  <1>3. Cardinality(L) < m.n_entries
    <2>1. IsFiniteSet(L \cup {id}) /\ Cardinality(L \cup {id}) = Cardinality(L) + 1
      BY <1>2, FS_AddElement
    <2>2. L \cup {id} \subseteq m.bits
      OBVIOUS
    <2>3. Cardinality(L \cup {id}) <= Cardinality(m.bits)
      BY <1>1, <2>2, FS_Subset
    <2> QED
      BY <1>1, <1>2, <2>1, <2>3
  <1> DEFINE F == {q \in SpaceOf(dest, z) : index[q] # NIL}
  <1>4. Cardinality(F) <= Cardinality(L) /\ Cardinality(F) \in Nat
    <2> DEFINE f == [q \in F |-> index[q]]
    <2>1. \A q \in F : f[q] \in L
      OBVIOUS
    <2>2. f \in [F -> L]
      BY <2>1
    <2>3. \A p, q \in F : f[p] = f[q] => p = q
      BY DEF Placed
    <2>4. f \in Injection(F, L)
      BY <2>2, <2>3 DEF Injection, IsInjective
    <2>5. IsFiniteSet(F)
      <3>1. IsFiniteSet(SpaceOf(dest, z))
        BY <1>1, SpaceSize
      <3> QED
        BY <3>1, FS_Subset
    <2> HIDE DEF f, F
    <2> QED
      BY <1>2, <2>4, <2>5, FS_Injection, FS_CardinalityType
  <1>5. \E t \in 0 .. z - 1 : index[Slot(dest, z, m.word[id], t)] = NIL
    <2>1. SUFFICES ASSUME \A t \in 0 .. z - 1 : index[Slot(dest, z, m.word[id], t)] # NIL
                   PROVE  FALSE
      OBVIOUS
    <2>2. ASSUME NEW q \in SpaceOf(dest, z) PROVE index[q] \in L
      <3>1. m.word[id] \in Nat
        BY <1>1
      <3>2. PICK t \in 0 .. z - 1 : Slot(dest, z, m.word[id], t) = q
        BY <1>1, <3>1, ProbeSurjective
      <3> QED
        BY <2>1, <3>2
    <2>3. L \in SUBSET Ids
      BY <1>1
    <2>4. Cardinality(L) = z
      BY <1>1, <1>2, <2>2, <2>3, RecordsFit
    <2> QED
      BY <1>1, <1>2, <1>3, <2>4
  <1> QED
    BY <1>1, <1>2, <1>3, <1>4, <1>5

LEMMA CopyStep ==
    ASSUME NEW m, Sound(m), NEW dest, NEW z, OtherSpace(m, dest, z),
           NEW n \in 0 .. m.max_offset, NEW x, Copying(m, x, dest, z, n),
           NEW s, s = CopyLoop(m, dest, z)[n + 1]
    PROVE  Copying(m, After(x, s), dest, z, n + 1)
  <1> DEFINE L == Copied(m, n)
             slot == m.idx_offset + n
             id == m.index[slot]
             F == {q \in SpaceOf(dest, z) : x.index[q] # NIL}
  <1>1. /\ m.idx_offset \in Nat /\ m.max_offset \in Nat /\ n \in Nat
        /\ m.bits \in SUBSET Ids /\ m.word \in [Ids -> Nat]
    BY SoundPlaced
  <1>2. /\ s = [copy |-> slot, dest |-> dest, size |-> z, n_entries |-> m.n_entries]
    <2>1. n + 1 \in 1 .. m.max_offset + 1 /\ m.idx_offset + (n + 1) - 1 = slot
      BY <1>1
    <2> QED
      BY <2>1 DEF CopyLoop
  <1>3. /\ s.copy = slot /\ s.dest = dest /\ s.size = z /\ s.n_entries = m.n_entries
        /\ After(x, s) = CopySlot(x, s)
    BY <1>2 DEF After, Execute
  <1>4. /\ slot \in Space(m) /\ L \subseteq m.bits
        /\ id \in {NIL, GARBAGE} => Copied(m, n + 1) = L
        /\ id \notin {NIL, GARBAGE} => Copied(m, n + 1) = L \cup {id} /\ id \in m.bits \ L
    BY CopiedFacts
  <1>5. /\ x.word = m.word /\ x.index[slot] = id
        /\ x.index \in [Slots -> Ids \cup {NIL, GARBAGE}] /\ DOMAIN x = Fields
        /\ Placed(x.index, m.word, dest, z, L)
        /\ \A q \in SpaceOf(dest, z) : x.index[q] \in L \cup {NIL}
        /\ \A q \in Space(m) : x.index[q] = m.index[q]
        /\ \A g \in Fields : g # "index" => x[g] = m[g]
    BY <1>4 DEF Copying, Fields
  <1>6. F = {q \in s.dest .. s.dest + s.size - 1 : x.index[q] # NIL}
    BY <1>3 DEF SpaceOf
  <1> HIDE DEF L, id, slot, F
  <1>7. CASE id \in {NIL, GARBAGE}
    <2>1. CopySlot(x, s) = x
      BY <1>3, <1>5, <1>7 DEF CopySlot
    <2>2. Copied(m, n + 1) = Copied(m, n)
      BY <1>4, <1>7 DEF L
    <2> QED
      BY <1>3, <2>1, <2>2 DEF Copying
  <1>8. CASE id \notin {NIL, GARBAGE}
    <2>1. /\ Cardinality(F) < m.n_entries /\ m.n_entries \in Nat /\ Cardinality(F) \in Nat
          /\ \E t \in 0 .. z - 1 : x.index[Slot(dest, z, m.word[id], t)] = NIL
      <3>1. /\ Cardinality(F) < m.n_entries
            /\ \E t \in 0 .. z - 1 : x.index[Slot(dest, z, m.word[id], t)] = NIL
        <4>1. L \in SUBSET m.bits /\ id \in m.bits \ L
          BY <1>4, <1>8
        <4>2. PICK index : index = x.index
          OBVIOUS
        <4>3. /\ Placed(index, m.word, dest, z, L)
              /\ \A q \in SpaceOf(dest, z) : index[q] \in L \cup {NIL}
          BY <1>5, <4>2
        <4>4. /\ Cardinality({q \in SpaceOf(dest, z) : index[q] # NIL}) < m.n_entries
              /\ \E t \in 0 .. z - 1 : index[Slot(dest, z, m.word[id], t)] = NIL
          BY <4>1, <4>3, CopyRoom
        <4> QED
          BY <4>2, <4>4 DEF F
      <3>2. IsFiniteSet(F)
        <4>1. IsFiniteSet(SpaceOf(dest, z))
          BY SpaceSize, OtherSpaceFacts DEF OtherSpace
        <4> QED
          BY <4>1, FS_Subset DEF F
      <3>3. Cardinality(F) \in Nat
        BY <3>2, FS_CardinalityType
      <3> QED
        BY <3>1, <3>3, SoundPlaced
    <2> DEFINE T == {t \in 0 .. z - 1 : x.index[Slot(dest, z, m.word[id], t)] = NIL}
               t0 == Min(T)
               p == Slot(dest, z, m.word[id], t0)
               w == [x.index EXCEPT ![p] = id]
    <2>2. T \in SUBSET Nat /\ T # {}
      BY <2>1, OtherSpaceFacts
    <2>3. t0 \in T /\ \A t \in T : t0 <= t
      BY <2>2, MinOfNaturals
    <2>4. CopySlot(x, s) = [x EXCEPT !.index = w]
      <3>1. ~(Cardinality({q \in s.dest .. s.dest + s.size - 1 : x.index[q] # NIL}) >= s.n_entries)
        <4>1. ~(Cardinality(F) >= s.n_entries)
          BY <1>3, <2>1
        <4> QED
          BY <1>6, <4>1
      <3>2. CopySlot(x, s) =
              [x EXCEPT !.index =
                 [@ EXCEPT ![s.dest + (ProbeHash(x.word[id],
                    Min({t \in 0 .. s.size - 1 :
                           x.index[s.dest + (ProbeHash(x.word[id], t) % s.size)] = NIL})) % s.size)] = id]]
        BY <1>3, <1>5, <1>8, <3>1 DEF CopySlot
      <3> QED
        BY <1>3, <1>5, <3>2 DEF Slot
    <2> HIDE DEF t0
    <2>5. /\ t0 \in 0 .. z - 1 /\ x.index[p] = NIL
          /\ \A t \in 0 .. t0 - 1 : x.index[Slot(dest, z, m.word[id], t)] # NIL
      <3>1. \A t \in 0 .. t0 - 1 : t \in 0 .. z - 1 /\ ~(t0 <= t)
        BY <2>3, OtherSpaceFacts
      <3> QED
        BY <2>3, <3>1
    <2>6. p \in SpaceOf(dest, z) /\ p \in Slots /\ p \notin Space(m)
      <3>1. z \in IndexSizes /\ dest \in Nat /\ z \in Nat /\ t0 \in Nat /\ m.word[id] \in Nat
        BY <1>1, <1>4, <1>8, <2>5, OtherSpaceFacts DEF OtherSpace
      <3>2. p \in SpaceOf(dest, z)
        BY <3>1, SlotType
      <3> QED
        BY <3>2, OtherSpaceFacts
    <2>7. id \in Ids \ L /\ id \in Ids
      BY <1>1, <1>4, <1>8
    <2>8. Placed(w, m.word, dest, z, L \cup {id})
      <3>1. z \in IndexSizes /\ dest \in Nat /\ SpaceOf(dest, z) \subseteq Slots /\ L \in SUBSET Ids
        BY <1>1, <1>4, OtherSpaceFacts DEF OtherSpace
      <3>2. \A q \in SpaceOf(dest, z) : x.index[q] # id
        BY <1>5, <1>8, <2>7
      <3>3. x.index[Slot(dest, z, m.word[id], t0)] \in {NIL, GARBAGE}
        BY <2>5
      <3> QED
        BY <1>1, <1>5, <2>5, <2>7, <3>1, <3>2, <3>3, PlacedAdd
    <2>9. /\ w \in [Slots -> Ids \cup {NIL, GARBAGE}]
          /\ \A q \in Slots : q # p => w[q] = x.index[q]
          /\ w[p] = id
      BY <1>5, <2>6, <2>7
    <2> HIDE DEF w
    <2> DEFINE y == [x EXCEPT !.index = w]
    <2>10. DOMAIN y = Fields /\ y.index = w /\ \A g \in Fields : g # "index" => y[g] = x[g]
      <3>1. "index" \in Fields
        BY DEF Fields
      <3> QED
        BY <1>5, <3>1
    <2> HIDE DEF y
    <2>11. \A q \in Space(m) : w[q] = m.index[q]
      BY <1>5, <2>6, <2>9, SoundPlaced
    <2>12. \A q \in SpaceOf(dest, z) : w[q] \in (L \cup {id}) \cup {NIL}
      BY <1>5, <2>9, OtherSpaceFacts
    <2>13. Copied(m, n + 1) = L \cup {id}
      BY <1>4, <1>8
    <2>14. Copying(m, y, dest, z, n + 1)
      BY <1>5, <2>8, <2>9, <2>10, <2>11, <2>12, <2>13 DEF Copying
    <2> QED
      BY <1>3, <2>4, <2>14 DEF y
  <1> QED
    BY <1>7, <1>8

LEMMA CopyLoopLeads ==
    ASSUME NEW m, Sound(m), NEW dest, NEW z, OtherSpace(m, dest, z),
           NEW m1, Copying(m, m1, dest, z, 0), NEW C, Content(m) \in C, NEW b
    PROVE  /\ Program(CopyLoop(m, dest, z))
           /\ \E x : /\ Leads(m1, CopyLoop(m, dest, z), C, b, x)
                     /\ Copying(m, x, dest, z, m.max_offset + 1)
  <1> DEFINE P == CopyLoop(m, dest, z)
  <1>1. PICK N \in Nat : N = m.max_offset + 1
    BY SoundPlaced
  <1>2. Program(P) /\ Len(P) = N
    <2>1. P \in [1 .. N -> {P[i] : i \in 1 .. N}]
      BY <1>1 DEF CopyLoop
    <2>2. P \in Seq({P[i] : i \in 1 .. N})
      BY <2>1
    <2> HIDE DEF P
    <2> QED
      BY <2>1, <2>2 DEF Program
  <1> HIDE DEF P
  <1> DEFINE Reached(i, f) ==
                /\ f[0] = m1
                /\ \A j \in 1 .. i : f[j] = After(f[j - 1], P[j])
                /\ \A j \in 0 .. i : Copying(m, f[j], dest, z, j)
             S == {i \in 0 .. N : \E f : Reached(i, f)}
  <1>3. 0 \in S
    <2> DEFINE f == [i \in {0} |-> m1]
    <2>1. f[0] = m1
      OBVIOUS
    <2> HIDE DEF f
    <2>2. Reached(0, f)
      <3>1. \A j \in 0 .. 0 : j = 0
        OBVIOUS
      <3>2. \A j : j \notin 1 .. 0
        OBVIOUS
      <3> QED
        BY <2>1, <3>1, <3>2
    <2> QED
      BY <2>2
  <1>4. ASSUME NEW i \in 0 .. N - 1, i \in S PROVE i + 1 \in S
    <2>1. PICK f : Reached(i, f)
      <3> HIDE DEF Reached
      <3> QED
        BY <1>4
    <2>2. i \in Nat /\ i + 1 \in 0 .. N /\ i \in 0 .. m.max_offset
      <3>1. m.max_offset \in Nat
        BY SoundPlaced
      <3> HIDE DEF S
      <3> QED
        BY <1>1, <3>1
    <2> DEFINE next == After(f[i], P[i + 1])
               g == [j \in 0 .. i + 1 |-> IF j <= i THEN f[j] ELSE next]
    <2>3. (\A j \in 0 .. i : g[j] = f[j]) /\ g[i + 1] = next
      <3> HIDE DEF next
      <3>1. \A j \in 0 .. i : j \in 0 .. i + 1 /\ j <= i
        BY <2>2
      <3>2. i + 1 \in 0 .. i + 1 /\ ~(i + 1 <= i)
        BY <2>2
      <3> QED
        BY <3>1, <3>2
    <2>4. Copying(m, next, dest, z, i + 1)
      <3>1. Copying(m, f[i], dest, z, i)
        BY <2>1, <2>2
      <3>2. P[i + 1] = CopyLoop(m, dest, z)[i + 1]
        BY DEF P
      <3> QED
        BY <2>2, <3>1, <3>2, CopyStep
    <2> HIDE DEF g
    <2>5. g[0] = m1
      <3>1. 0 \in 0 .. i
        BY <2>2
      <3> QED
        BY <2>1, <2>3, <3>1
    <2>6. ASSUME NEW j \in 1 .. i + 1 PROVE g[j] = After(g[j - 1], P[j])
      <3>1. CASE j = i + 1
        <4>1. j - 1 = i /\ i \in 0 .. i
          BY <2>2, <3>1
        <4> QED
          BY <2>3, <3>1, <4>1
      <3>2. CASE j # i + 1
        <4>1. j \in 1 .. i /\ j \in 0 .. i /\ j - 1 \in 0 .. i
          BY <2>2, <3>2
        <4> QED
          BY <2>1, <2>3, <4>1
      <3> QED
        BY <3>1, <3>2
    <2> HIDE DEF next
    <2>7. ASSUME NEW j \in 0 .. i + 1 PROVE Copying(m, g[j], dest, z, j)
      <3>1. CASE j = i + 1
        BY <2>3, <2>4, <3>1
      <3>2. CASE j # i + 1
        <4>1. j \in 0 .. i
          BY <2>2, <3>2
        <4> QED
          BY <2>1, <2>3, <4>1
      <3> QED
        BY <3>1, <3>2
    <2>8. Reached(i + 1, g)
      BY <2>5, <2>6, <2>7
    <2> HIDE DEF Reached
    <2> QED
      BY <2>2, <2>8
  <1> HIDE DEF S
  <1>5. N \in S
    BY <1>3, <1>4, UpTo
  <1>6. PICK f : Reached(N, f)
    BY <1>5 DEF S
  <1>7. Copying(m, f[N], dest, z, m.max_offset + 1)
    <2>1. N \in 0 .. N
      OBVIOUS
    <2> QED
      BY <1>1, <1>6, <2>1
  <1>8. \A j \in 0 .. N : Content(f[j]) \in C
    <2> TAKE j \in 0 .. N
    <2>1. Copying(m, f[j], dest, z, j)
      BY <1>6
    <2> QED
      BY <2>1, CopyingContent
  <1>9. Leads(m1, P, C, b, f[N])
    BY <1>2, <1>6, <1>8 DEF Leads
  <1> QED
    BY <1>2, <1>7, <1>9 DEF P

\* The space that is not in use, cleared.
LEMMA CopyStart ==
    ASSUME NEW m, Sound(m), NEW dest, NEW z, OtherSpace(m, dest, z)
    PROVE  Copying(m, Stored(m, "index", Cleared(m, dest)), dest, z, 0)
  <1> DEFINE x == Stored(m, "index", Cleared(m, dest))
             w == Cleared(m, dest)
  <1>1. DOMAIN m = Fields /\ "index" \in Fields
    BY DEF Sound, Typed, Fields
  <1>2. DOMAIN x = Fields /\ x.index = w /\ \A g \in Fields : g # "index" => x[g] = m[g]
    BY <1>1, StoredFields
  <1>3. /\ m.index \in [Slots -> Ids \cup {NIL, GARBAGE}] /\ Space(m) \subseteq Slots
        /\ SpaceOf(dest, z) \subseteq Slots
        /\ SpaceOf(dest, z) \subseteq SpaceOf(dest, MaxIndexSize)
        /\ Space(m) \cap SpaceOf(dest, MaxIndexSize) = {}
    BY SoundPlaced, OtherSpaceFacts
  <1>4. \A q \in Slots : w[q] = IF q \in SpaceOf(dest, MaxIndexSize) THEN NIL ELSE m.index[q]
    BY DEF Cleared, SpaceOf
  <1>5. w \in [Slots -> Ids \cup {NIL, GARBAGE}]
    <2>1. w = [s \in Slots |-> w[s]]
      BY DEF Cleared
    <2>2. \A q \in Slots : w[q] \in Ids \cup {NIL, GARBAGE}
      BY <1>3, <1>4
    <2> HIDE DEF w
    <2> QED
      BY <2>1, <2>2
  <1> HIDE DEF w, x
  <1>6. \A q \in Space(m) : w[q] = m.index[q]
    BY <1>3, <1>4
  <1>7. \A q \in SpaceOf(dest, z) : w[q] = NIL
    BY <1>3, <1>4
  <1>8. Copied(m, 0) = {}
    BY CopiedFacts
  <1>9. Placed(w, m.word, dest, z, Copied(m, 0))
    BY <1>8 DEF Placed
  <1>10. Copying(m, x, dest, z, 0)
    BY <1>2, <1>5, <1>6, <1>7, <1>9 DEF Copying
  <1> QED
    BY <1>10 DEF x

\* The memory of a rehash that is done.
Rehashed(m, y, dest, z) ==
    /\ \E x : Copying(m, x, dest, z, m.max_offset + 1) /\ y.index = x.index
    /\ DOMAIN y = Fields
    /\ y.idx_offset = dest /\ y.max_offset = z - 1 /\ y.n_garbages = 0
    /\ \A g \in Fields \ {"index", "idx_offset", "max_offset", "n_garbages"} : y[g] = m[g]

LEMMA RehashedSound ==
    ASSUME NEW m, Sound(m), NEW dest, NEW z, OtherSpace(m, dest, z),
           NEW y, Rehashed(m, y, dest, z)
    PROVE  /\ Sound(y) /\ Content(y) = Content(m)
           /\ y.garbage = m.garbage /\ y.curr_rec = m.curr_rec
  <1>1. PICK x : Copying(m, x, dest, z, m.max_offset + 1) /\ y.index = x.index
    BY DEF Rehashed
  <1>2. /\ y.n_entries = m.n_entries /\ y.garbage = m.garbage /\ y.curr_rec = m.curr_rec
        /\ y.curr_key = m.curr_key /\ y.bits = m.bits /\ y.word = m.word /\ y.value = m.value
        /\ y.key_size = m.key_size /\ y.key_offset = m.key_offset /\ y.keys = m.keys
        /\ y.idx_offset = dest /\ y.max_offset = z - 1 /\ y.n_garbages = 0
        /\ DOMAIN y = Fields
    BY DEF Rehashed, Fields
  <1>3. /\ z \in Nat /\ z \in IndexSizes /\ z <= MaxIndexSize /\ z >= 2 /\ m.n_entries < z
        /\ dest \in {0, MaxIndexSize} /\ MaxIndexSize \in Nat /\ dest \in Nat
        /\ m.n_entries \in Nat
    BY OtherSpaceFacts, MaxSizeType, SoundPlaced DEF OtherSpace
  <1>4. /\ y.max_offset \in Nat /\ y.max_offset + 1 = z
    BY <1>2, <1>3
  <1>5. Copied(m, m.max_offset + 1) = m.bits
    BY CopiedFacts
  <1>6. /\ y.index \in [Slots -> Ids \cup {NIL, GARBAGE}]
        /\ Placed(y.index, m.word, dest, z, m.bits)
        /\ \A q \in SpaceOf(dest, z) : y.index[q] \in m.bits \cup {NIL}
    BY <1>1, <1>5 DEF Copying
  <1>7. Space(y) = SpaceOf(dest, z)
    BY <1>2, <1>4 DEF Space
  <1>8. \A i, k : compare_key(y, i, k) <=> compare_key(m, i, k)
    BY <1>2 DEF compare_key
  <1>9. Shape(y)
    <2>1. m.word \in [Ids -> Nat]
      BY SoundPlaced
    <2> QED
      BY <1>2, <1>3, <1>4, <1>6, <2>1 DEF Shape
  <1>10. Layout(y, m.bits) /\ Layout(m, m.bits)
    <2>1. Layout(m, m.bits)
      BY DEF Sound
    <2>2. Placed(y.index, y.word, y.idx_offset, y.max_offset + 1, m.bits)
      BY <1>2, <1>4, <1>6
    <2>3. \A q \in Space(y) : y.index[q] \in m.bits \cup {NIL, GARBAGE}
      BY <1>6, <1>7
    <2> QED
      BY <1>8, <2>1, <2>2, <2>3 DEF Layout
  <1>11. Owned(y)
    BY <1>2, <1>6, <1>7, <1>8 DEF Sound, Owned
  <1>12. Counted(y)
    <2>1. GarbageSlots(y) = {}
      <3>1. \A i \in m.bits : i # GARBAGE
        BY SoundPlaced, IdsAreRecords
      <3>2. NIL # GARBAGE
        BY DEF NIL, GARBAGE
      <3> QED
        BY <1>6, <1>7, <3>1, <3>2 DEF GarbageSlots
    <2>2. Cardinality(GarbageSlots(y)) = 0
      BY <2>1, FS_EmptySet
    <2> QED
      BY <1>2, <2>2, SoundPlaced DEF Counted
  <1>13. Roomy(y)
    BY <1>2, <1>3 DEF Roomy
  <1>14. Typed(y)
    <2>1. 0 \in Nat
      OBVIOUS
    <2> QED
      BY <1>2, <2>1 DEF Sound, Typed
  <1>15. KeyArea(y)
    BY <1>2 DEF Sound, KeyArea
  <1>16. GarbageListed(y)
    <2>1. PICK n \in Nat : \E f : Chained(m, f, n)
      BY DEF Sound, GarbageListed
    <2>2. PICK g : Chained(m, g, n)
      BY <2>1
    <2>3. Free(y) = Free(m)
      BY <1>2 DEF Free
    <2>4. Chained(y, g, n)
      BY <1>2, <2>2, <2>3 DEF Chained
    <2> QED
      BY <2>4 DEF GarbageListed
  <1>17. Sound(y)
    BY <1>2, <1>9, <1>10, <1>11, <1>12, <1>13, <1>14, <1>15, <1>16 DEF Sound
  <1>18. Content(y) = Content(m)
    <2>1. SameOn(m, y, m.bits)
      BY <1>2 DEF SameOn
    <2> QED
      BY <1>9, <1>10, <2>1, SoundPlaced, ContentSame
  <1> QED
    BY <1>2, <1>17, <1>18

\* Concatenation is associative.
LEMMA Associative ==
    ASSUME NEW P, NEW Q, NEW R, Program(P), Program(Q), Program(R)
    PROVE  (P \o Q) \o R = P \o (Q \o R)
  <1>1. PICK S : P \in Seq(S)
    BY DEF Program
  <1>2. PICK T : Q \in Seq(T)
    BY DEF Program
  <1>3. PICK U : R \in Seq(U)
    BY DEF Program
  <1>4. PICK V : V = S \cup T \cup U
    OBVIOUS
  <1>5. P \in Seq(V) /\ Q \in Seq(V) /\ R \in Seq(V)
    BY <1>1, <1>2, <1>3, <1>4
  <1> QED
    BY <1>5, ConcatAssociative

LEMMA ThreePrograms ==
    ASSUME NEW A, NEW B, NEW D, Program(A), Program(B), Program(D)
    PROVE  Len(A) = 1 /\ Len(B) = 1 /\ Len(D) = 1 =>
             /\ Program((A \o B) \o D) /\ Len((A \o B) \o D) = 3
             /\ ((A \o B) \o D)[1] = A[1] /\ ((A \o B) \o D)[2] = B[1]
             /\ ((A \o B) \o D)[3] = D[1]
  <1>1. PICK Q : Q = A \o B
    OBVIOUS
  <1>2. /\ Program(Q) /\ Len(Q) = Len(A) + Len(B)
        /\ \A i \in 1 .. Len(A) : Q[i] = A[i]
        /\ \A i \in 1 .. Len(B) : Q[Len(A) + i] = B[i]
    <2>1. /\ Program(A \o B) /\ Len(A) \in Nat /\ Len(B) \in Nat
          /\ Len(A \o B) = Len(A) + Len(B)
          /\ \A i \in 1 .. Len(A) : (A \o B)[i] = A[i]
          /\ \A i \in 1 .. Len(B) : (A \o B)[Len(A) + i] = B[i]
      BY Concatenation
    <2> QED
      BY <1>1, <2>1, Zenon
  <1>4. PICK P : P = Q \o D
    OBVIOUS
  <1>5. /\ Program(P) /\ Len(P) = Len(Q) + Len(D)
        /\ \A i \in 1 .. Len(Q) : P[i] = Q[i]
        /\ \A i \in 1 .. Len(D) : P[Len(Q) + i] = D[i]
    <2>1. /\ Program(Q \o D) /\ Len(Q) \in Nat /\ Len(D) \in Nat
          /\ Len(Q \o D) = Len(Q) + Len(D)
          /\ \A i \in 1 .. Len(Q) : (Q \o D)[i] = Q[i]
          /\ \A i \in 1 .. Len(D) : (Q \o D)[Len(Q) + i] = D[i]
      BY <1>2, Concatenation
    <2> QED
      BY <1>4, <2>1, Zenon
  <1> HAVE Len(A) = 1 /\ Len(B) = 1 /\ Len(D) = 1
  <1>3. Len(Q) = 2 /\ Q[1] = A[1] /\ Q[2] = B[1]
    <2>1. 1 \in 1 .. Len(A) /\ 1 \in 1 .. Len(B) /\ Len(A) + 1 = 2 /\ Len(A) + Len(B) = 2
      OBVIOUS
    <2> QED
      BY <1>2, <2>1
  <1>6. Program(P) /\ Len(P) = 3 /\ P[1] = A[1] /\ P[2] = B[1] /\ P[3] = D[1]
    <2>1. /\ 1 \in 1 .. Len(Q) /\ 2 \in 1 .. Len(Q) /\ 1 \in 1 .. Len(D)
          /\ Len(Q) + 1 = 3 /\ Len(Q) + Len(D) = 3
      BY <1>3
    <2> QED
      BY <1>3, <1>5, <2>1
  <1> QED
    BY <1>1, <1>4, <1>6, Zenon

LEMMA ThreeSteps ==
    ASSUME NEW a, NEW b, NEW c
    PROVE  \E P : /\ P = (<<a>> \o <<b>>) \o <<c>>
                 /\ Program(P) /\ Len(P) = 3 /\ P[1] = a /\ P[2] = b /\ P[3] = c
  <1>1. PICK A : A = <<a>> /\ Program(A) /\ Len(A) = 1 /\ A[1] = a
    BY OneStep
  <1>2. PICK B : B = <<b>> /\ Program(B) /\ Len(B) = 1 /\ B[1] = b
    BY OneStep
  <1>3. PICK D : D = <<c>> /\ Program(D) /\ Len(D) = 1 /\ D[1] = c
    BY OneStep
  <1>4. PICK P : P = (A \o B) \o D
    OBVIOUS
  <1>5. Program(P) /\ Len(P) = 3 /\ P[1] = A[1] /\ P[2] = B[1] /\ P[3] = D[1]
    <2>1. /\ Program((A \o B) \o D) /\ Len((A \o B) \o D) = 3
          /\ ((A \o B) \o D)[1] = A[1] /\ ((A \o B) \o D)[2] = B[1]
          /\ ((A \o B) \o D)[3] = D[1]
      BY <1>1, <1>2, <1>3, ThreePrograms
    <2> QED
      BY <1>4, <2>1, Zenon
  <1> QED
    BY <1>1, <1>2, <1>3, <1>4, <1>5, Zenon

\* The last three stores of a rehash.
LEMMA LeadsSwitching ==
    ASSUME NEW x, NEW C, Content(x) \in C, NEW a, NEW b, NEW c, NEW x1, NEW x2, NEW y,
           x1 = After(x, a), x2 = After(x1, b), y = After(x2, c),
           Switches(b), Switches(c), Content(y) \in C
    PROVE  /\ Leads(x, (<<a>> \o <<b>>) \o <<c>>, C, TRUE, y)
           /\ Program((<<a>> \o <<b>>) \o <<c>>)
  <1>3. PICK P : /\ P = (<<a>> \o <<b>>) \o <<c>>
                 /\ Program(P) /\ Len(P) = 3 /\ P[1] = a /\ P[2] = b /\ P[3] = c
    BY ThreeSteps
  <1> DEFINE h == [i \in 0 .. 3 |-> IF i = 0 THEN x ELSE IF i = 1 THEN x1
                                    ELSE IF i = 2 THEN x2 ELSE y]
  <1>4. h[0] = x /\ h[1] = x1 /\ h[2] = x2 /\ h[3] = y
    OBVIOUS
  <1> HIDE DEF h
  <1>5. ASSUME NEW i \in 1 .. Len(P) PROVE h[i] = After(h[i - 1], P[i])
    <2>1. i = 1 \/ i = 2 \/ i = 3
      BY <1>3
    <2>2. CASE i = 1
      <3>1. i - 1 = 0
        BY <2>2
      <3> QED
        BY <1>3, <1>4, <2>2, <3>1
    <2>3. CASE i = 2
      <3>1. i - 1 = 1
        BY <2>3
      <3> QED
        BY <1>3, <1>4, <2>3, <3>1
    <2>4. CASE i = 3
      <3>1. i - 1 = 2
        BY <2>4
      <3> QED
        BY <1>3, <1>4, <2>4, <3>1
    <2> QED
      BY <2>1, <2>2, <2>3, <2>4
  <1>6. ASSUME NEW i \in 0 .. Len(P)
        PROVE  Content(h[i]) \in C \/ (i < Len(P) /\ Switches(P[i + 1]))
    <2>1. i = 0 \/ i = 1 \/ i = 2 \/ i = 3
      BY <1>3
    <2>2. CASE i = 0
      BY <1>4, <2>2
    <2>3. CASE i = 1
      <3>1. i + 1 = 2 /\ i < Len(P)
        BY <1>3, <2>3
      <3> QED
        BY <1>3, <3>1
    <2>4. CASE i = 2
      <3>1. i + 1 = 3 /\ i < Len(P)
        BY <1>3, <2>4
      <3> QED
        BY <1>3, <3>1
    <2>5. CASE i = 3
      BY <1>4, <2>5
    <2> QED
      BY <2>1, <2>2, <2>3, <2>4, <2>5
  <1>7. h[0] = x /\ h[Len(P)] = y
    BY <1>3, <1>4
  <1>8. Leads(x, P, C, TRUE, y)
    BY <1>5, <1>6, <1>7 DEF Leads
  <1> QED
    BY <1>3, <1>8, Zenon

\* The memory after the last three stores.
LEMMA RehashedMemory ==
    ASSUME NEW m, Sound(m), NEW dest, NEW z, NEW x, Copying(m, x, dest, z, m.max_offset + 1),
           NEW x1, NEW x2, NEW y, x1 = Stored(x, "max_offset", z - 1),
           x2 = Stored(x1, "n_garbages", 0), y = Stored(x2, "idx_offset", dest)
    PROVE  Rehashed(m, y, dest, z)
  <1> USE DEF Fields
  <1>1. DOMAIN x = Fields /\ \A g \in Fields : g # "index" => x[g] = m[g]
    BY DEF Copying
  <1>2. /\ DOMAIN x1 = Fields /\ x1["max_offset"] = z - 1
        /\ \A g \in Fields : g # "max_offset" => x1[g] = x[g]
    BY <1>1, StoredFields
  <1>3. /\ DOMAIN x2 = Fields /\ x2["n_garbages"] = 0
        /\ \A g \in Fields : g # "n_garbages" => x2[g] = x1[g]
    BY <1>2, StoredFields
  <1>4. /\ DOMAIN y = Fields /\ y["idx_offset"] = dest
        /\ \A g \in Fields : g # "idx_offset" => y[g] = x2[g]
    BY <1>3, StoredFields
  <1>5. y.index = x.index
    BY <1>2, <1>3, <1>4
  <1>6. y.idx_offset = dest /\ y.max_offset = z - 1 /\ y.n_garbages = 0
    BY <1>2, <1>3, <1>4
  <1>7. \A g \in Fields \ {"index", "idx_offset", "max_offset", "n_garbages"} : y[g] = m[g]
    BY <1>1, <1>2, <1>3, <1>4
  <1> QED
    BY <1>4, <1>5, <1>6, <1>7 DEF Rehashed

LEMMA ExpectedNat ==
    ASSUME NEW m, Sound(m)
    PROVE  expected_n_entries(m) \in Nat
  <1>1. m.n_entries * 2 \in Nat /\ MaxIndexSize - 1 \in Nat /\ SourceSize + 1 \in Nat
    BY SoundPlaced, MaxSizeType, FlagsAssumption
  <1>2. PICK a \in Nat : a = Min({m.n_entries * 2, MaxIndexSize - 1})
    <2>1. PICK S : S = {m.n_entries * 2, MaxIndexSize - 1} /\ S \in SUBSET Nat /\ S # {}
      BY <1>1
    <2>2. Min(S) \in S
      BY <2>1, MinOfNaturals
    <2> QED
      BY <2>1, <2>2
  <1>3. Max({a, SourceSize + 1}) \in {a, SourceSize + 1}
    BY <1>1, LargerOfTwo
  <1>4. Max({a, SourceSize + 1}) \in Nat
    BY <1>1, <1>3
  <1> QED
    BY <1>2, <1>4 DEF expected_n_entries

LEMMA RehashProgram ==
    ASSUME NEW m, Sound(m), NEW C, Content(m) \in C, NEW dest, NEW z, OtherSpace(m, dest, z),
           dest = MaxIndexSize - m.idx_offset, z = new_index_size(expected_n_entries(m))
    PROVE  /\ Program(rehash(m))
           /\ \E y : Leads(m, rehash(m), C, TRUE, y) /\ Rehashed(m, y, dest, z)
  <1>1. PICK P1 : P1 = Set("index", Cleared(m, dest))
    OBVIOUS
  <1>2. PICK P2 : P2 = CopyLoop(m, dest, z)
    OBVIOUS
  <1>3. PICK a : a = [to |-> "max_offset", v |-> z - 1]
    OBVIOUS
  <1>4. PICK b : b = [to |-> "n_garbages", v |-> 0]
    OBVIOUS
  <1>5. PICK c : c = [to |-> "idx_offset", v |-> dest]
    OBVIOUS
  <1>6. rehash(m) = (((P1 \o P2) \o <<a>>) \o <<b>>) \o <<c>>
    BY <1>1, <1>2, <1>3, <1>4, <1>5 DEF rehash, Set
  <1>7. PICK x0 : x0 = Stored(m, "index", Cleared(m, dest))
    OBVIOUS
  <1>8. Copying(m, x0, dest, z, 0)
    BY <1>7, CopyStart
  <1>9. Content(x0) \in C
    BY <1>8, CopyingContent
  <1>10. Leads(m, P1, C, TRUE, x0) /\ Program(P1)
    BY <1>1, <1>7, <1>9, LeadsSet
  <1>11. Program(P2) /\ \E x : Leads(x0, P2, C, TRUE, x) /\ Copying(m, x, dest, z, m.max_offset + 1)
    BY <1>2, <1>8, CopyLoopLeads
  <1>12. PICK x : Leads(x0, P2, C, TRUE, x) /\ Copying(m, x, dest, z, m.max_offset + 1)
    BY <1>11
  <1>13. PICK Q : Q = P1 \o P2
    OBVIOUS
  <1>14. Leads(m, Q, C, TRUE, x) /\ Program(Q)
    BY <1>10, <1>11, <1>12, <1>13, LeadsOn
  <1>15. PICK x1 : x1 = Stored(x, "max_offset", z - 1)
    OBVIOUS
  <1>16. PICK x2 : x2 = Stored(x1, "n_garbages", 0)
    OBVIOUS
  <1>17. PICK y : y = Stored(x2, "idx_offset", dest)
    OBVIOUS
  <1>18. x1 = After(x, a) /\ x2 = After(x1, b) /\ y = After(x2, c)
    <2>1. x1 = After(x, a)
      BY <1>3, <1>15 DEF After, Execute, Stored
    <2>2. x2 = After(x1, b)
      BY <1>4, <1>16 DEF After, Execute, Stored
    <2>3. y = After(x2, c)
      BY <1>5, <1>17 DEF After, Execute, Stored
    <2> QED
      BY <2>1, <2>2, <2>3
  <1>19. Switches(b) /\ Switches(c)
    BY <1>4, <1>5 DEF Switches
  <1>20. Rehashed(m, y, dest, z)
    BY <1>12, <1>15, <1>16, <1>17, RehashedMemory
  <1>21. Content(x) \in C /\ Content(y) \in C
    <2>1. Content(x) = Content(m)
      BY <1>12, CopyingContent
    <2>2. Content(y) = Content(m)
      BY <1>20, RehashedSound
    <2> QED
      BY <2>1, <2>2
  <1>22. PICK T : T = (<<a>> \o <<b>>) \o <<c>>
    OBVIOUS
  <1>23. Leads(x, T, C, TRUE, y) /\ Program(T)
    BY <1>18, <1>19, <1>21, <1>22, LeadsSwitching
  <1>24. Leads(m, Q \o T, C, TRUE, y) /\ Program(Q \o T)
    BY <1>14, <1>23, LeadsOn
  <1>25. rehash(m) = Q \o T
    <2>1. PICK A : A = <<a>> /\ Program(A)
      BY OneStep
    <2>2. PICK B : B = <<b>> /\ Program(B)
      BY OneStep
    <2>3. PICK D : D = <<c>> /\ Program(D)
      BY OneStep
    <2>4. Program(A \o B)
      BY <2>1, <2>2, Concatenation
    <2>5. (Q \o A) \o B = Q \o (A \o B)
      BY <1>14, <2>1, <2>2, Associative
    <2>6. (Q \o (A \o B)) \o D = Q \o ((A \o B) \o D)
      BY <1>14, <2>3, <2>4, Associative
    <2> QED
      BY <1>6, <1>13, <1>22, <2>1, <2>2, <2>3, <2>5, <2>6, Zenon
  <1> QED
    BY <1>20, <1>24, <1>25, Zenon

\* A rehash changes nothing that a search finds, and no search goes astray but
\* while it switches.
LEMMA RehashLeads ==
    ASSUME NEW m, Sound(m), needs_rehash(m), NEW C, Content(m) \in C
    PROVE  /\ Program(ensure_rehash(m))
           /\ \E y : /\ Leads(m, ensure_rehash(m), C, TRUE, y) /\ Sound(y)
                     /\ Content(y) = Content(m)
                     /\ y.garbage = m.garbage /\ y.curr_rec = m.curr_rec
  <1>1. PICK e : e = [event |-> "REHASH", n_entries |-> m.n_entries, max_offset |-> m.max_offset]
    OBVIOUS
  <1>2. PICK L : L = Log(e) /\ Leads(m, L, C, TRUE, m) /\ Program(L)
    BY LeadsLog
  <1>3. expected_n_entries(m) \in Nat /\ MaxIndexSize \in Nat
    BY ExpectedNat, MaxSizeType
  <1>4. CASE expected_n_entries(m) >= MaxIndexSize
    <2>1. PICK R : R = <<>> /\ Program(R) /\ Leads(m, R, C, TRUE, m)
      BY EmptyProgram, LeadsNowhere
    <2>2. ensure_rehash(m) = L \o R
      BY <1>1, <1>2, <1>4, <2>1 DEF ensure_rehash
    <2>3. Leads(m, L \o R, C, TRUE, m) /\ Program(L \o R)
      BY <1>2, <2>1, LeadsOn
    <2> QED
      BY <2>2, <2>3, Zenon
  <1>5. CASE ~(expected_n_entries(m) >= MaxIndexSize)
    <2>1. expected_n_entries(m) < MaxIndexSize
      BY <1>3, <1>5
    <2>2. PICK z : z = new_index_size(expected_n_entries(m))
      OBVIOUS
    <2>3. PICK dest : dest = MaxIndexSize - m.idx_offset
      OBVIOUS
    <2>4. OtherSpace(m, dest, z)
      BY <2>1, <2>2, <2>3, NewSize DEF OtherSpace
    <2>5. PICK R : R = rehash(m)
      OBVIOUS
    <2>6. /\ Program(R)
          /\ \E y : Leads(m, R, C, TRUE, y) /\ Rehashed(m, y, dest, z)
      BY <2>2, <2>3, <2>4, <2>5, RehashProgram
    <2>7. PICK y : Leads(m, R, C, TRUE, y) /\ Rehashed(m, y, dest, z)
      BY <2>6
    <2>8. /\ Sound(y) /\ Content(y) = Content(m)
          /\ y.garbage = m.garbage /\ y.curr_rec = m.curr_rec
      BY <2>4, <2>7, RehashedSound
    <2>9. ensure_rehash(m) = L \o R
      BY <1>1, <1>2, <1>5, <2>5 DEF ensure_rehash
    <2>10. Leads(m, L \o R, C, TRUE, y) /\ Program(L \o R)
      BY <1>2, <2>6, <2>7, LeadsOn
    <2> QED
      BY <2>8, <2>9, <2>10, Zenon
  <1> QED
    BY <1>4, <1>5

=============================================================================
