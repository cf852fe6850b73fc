------------------------------- MODULE JaProof -------------------------------
(***************************************************************************)
(* Proofs about the space of a variable size column, for any number of     *)
(* records and writers and any sizes of values, segments and chunks.       *)
(***************************************************************************)
EXTENDS Ja, FiniteSetTheorems, NaturalsInduction, WellFoundedInduction, TLAPS

-----------------------------------------------------------------------------
(***************************************************************************)
(* Arithmetic.  Powers of two are the cardinalities of powersets.          *)
(***************************************************************************)
LEMMA IntervalSize ==
    ASSUME NEW a \in Int, NEW b \in Int, a <= b + 1
    PROVE  IsFiniteSet(a .. b) /\ Cardinality(a .. b) = b - a + 1
  BY FS_Interval

LEMMA UpTo ==
    ASSUME NEW n \in Nat
    PROVE  IsFiniteSet(1 .. n) /\ Cardinality(1 .. n) = n
  <1>1. 1 \in Int /\ n \in Int /\ 1 <= n + 1 /\ n - 1 + 1 = n
    OBVIOUS
  <1>2. IsFiniteSet(1 .. n) /\ Cardinality(1 .. n) = n - 1 + 1
    BY <1>1, IntervalSize, Zenon
  <1> QED
    BY <1>1, <1>2, Zenon

LEMMA PowIsCardinality ==
    ASSUME NEW a \in Int, NEW b \in Int, a <= b + 1
    PROVE  /\ IsFiniteSet(SUBSET (a .. b))
           /\ Cardinality(SUBSET (a .. b)) = 2 ^ (b - a + 1)
  <1>1. IsFiniteSet(a .. b) /\ Cardinality(a .. b) = b - a + 1
    BY IntervalSize
  <1> QED
    BY <1>1, FS_SUBSET

LEMMA PowOfNat ==
    ASSUME NEW n \in Nat
    PROVE  IsFiniteSet(SUBSET (1 .. n)) /\ Cardinality(SUBSET (1 .. n)) = 2 ^ n
  <1>1. 1 \in Int /\ n \in Int /\ 1 <= n + 1 /\ n - 1 + 1 = n
    OBVIOUS
  <1>2. /\ IsFiniteSet(SUBSET (1 .. n))
        /\ Cardinality(SUBSET (1 .. n)) = 2 ^ (n - 1 + 1)
    BY <1>1, PowIsCardinality, Zenon
  <1> QED
    BY <1>1, <1>2, Zenon

LEMMA PowNat ==
    ASSUME NEW n \in Nat
    PROVE  2 ^ n \in Nat \ {0}
  <1>1. IsFiniteSet(SUBSET (1 .. n))
    BY PowOfNat
  <1>2. Cardinality(SUBSET (1 .. n)) = 2 ^ n
    BY PowOfNat
  <1>3. SUBSET (1 .. n) # {}
    BY Zenon
  <1> QED
    BY <1>1, <1>2, <1>3, FS_CardinalityType, FS_EmptySet

LEMMA PowGrows ==
    ASSUME NEW m \in Nat, NEW n \in Nat, m < n
    PROVE  2 ^ m < 2 ^ n
  <1>1. IsFiniteSet(SUBSET (1 .. n))
    BY PowOfNat
  <1>2. Cardinality(SUBSET (1 .. n)) = 2 ^ n /\ Cardinality(SUBSET (1 .. m)) = 2 ^ m
    BY PowOfNat
  <1>3. n \in 1 .. n /\ n \notin 1 .. m /\ (1 .. m) \subseteq (1 .. n)
    OBVIOUS
  <1>4. SUBSET (1 .. m) \in SUBSET SUBSET (1 .. n) /\ SUBSET (1 .. m) # SUBSET (1 .. n)
    <2>1. {n} \in SUBSET (1 .. n) /\ {n} \notin SUBSET (1 .. m)
      BY <1>3
    <2>2. SUBSET (1 .. m) \in SUBSET SUBSET (1 .. n)
      BY <1>3, Zenon
    <2> QED
      BY <2>1, <2>2, Zenon
  <1>5. 2 ^ m <= 2 ^ n /\ 2 ^ m # 2 ^ n
    <2>1. /\ Cardinality(SUBSET (1 .. m)) <= Cardinality(SUBSET (1 .. n))
          /\ Cardinality(SUBSET (1 .. n)) = Cardinality(SUBSET (1 .. m)) =>
                SUBSET (1 .. n) = SUBSET (1 .. m)
      BY <1>1, <1>4, FS_Subset, Zenon
    <2> QED
      BY <1>2, <1>4, <2>1, Zenon
  <1> QED
    BY <1>5, PowNat

\* A larger power is a multiple of a smaller one: the subsets of 1 .. n are the pairs
\* of one of 1 .. m and one of the rest.
LEMMA PowDivides ==
    ASSUME NEW m \in Nat, NEW n \in Nat, m <= n
    PROVE  2 ^ n = 2 ^ m * 2 ^ (n - m)
  <1> DEFINE A == SUBSET (1 .. m)
             B == SUBSET (m + 1 .. n)
             C == SUBSET (1 .. n)
             f == [p \in A \X B |-> p[1] \cup p[2]]
  <1>1. /\ IsFiniteSet(A) /\ Cardinality(A) = 2 ^ m
        /\ IsFiniteSet(C) /\ Cardinality(C) = 2 ^ n
    BY PowOfNat
  <1>2. IsFiniteSet(B) /\ Cardinality(B) = 2 ^ (n - m)
    <2>1. m + 1 \in Int /\ n \in Int /\ m + 1 <= n + 1 /\ n - (m + 1) + 1 = n - m
      OBVIOUS
    <2>2. IsFiniteSet(B) /\ Cardinality(B) = 2 ^ (n - (m + 1) + 1)
      BY <2>1, PowIsCardinality, Zenon
    <2> QED
      BY <2>1, <2>2, Zenon
  <1>3. IsFiniteSet(A \X B) /\ Cardinality(A \X B) = 2 ^ m * 2 ^ (n - m)
    <2> HIDE DEF A, B
    <2>1. IsFiniteSet(A \X B) /\ Cardinality(A \X B) = Cardinality(A) * Cardinality(B)
      BY <1>1, <1>2, FS_Product, Zenon
    <2> QED
      BY <1>1, <1>2, <2>1, Zenon
  <1>4. /\ (1 .. m) \cup (m + 1 .. n) = 1 .. n
        /\ (1 .. m) \cap (m + 1 .. n) = {}
    OBVIOUS
  <1>5. f \in [A \X B -> C]
    BY <1>4
  <1>6. ASSUME NEW p \in A \X B, NEW q \in A \X B, p[1] \cup p[2] = q[1] \cup q[2]
        PROVE  p = q
    <2>1. p[1] = q[1] /\ p[2] = q[2]
      BY <1>4, <1>6
    <2> QED
      BY <2>1
  <1>7. ASSUME NEW c \in C
        PROVE  \E p \in A \X B : p[1] \cup p[2] = c
    <2>1. <<c \cap (1 .. m), c \cap (m + 1 .. n)>> \in A \X B
      OBVIOUS
    <2>2. (c \cap (1 .. m)) \cup (c \cap (m + 1 .. n)) = c
      BY <1>4
    <2> QED
      BY <2>1, <2>2
  <1>8. f \in Bijection(A \X B, C)
    BY <1>5, <1>6, <1>7 DEF Bijection, Injection, Surjection, IsInjective
  <1>9. Cardinality(C) = Cardinality(A \X B)
    BY <1>3, <1>8, FS_Bijection DEF ExistsBijection
  <1> QED
    BY <1>1, <1>3, <1>9

LEMMA DivMod ==
    ASSUME NEW a \in Int, NEW c \in Nat \ {0}
    PROVE  /\ a \div c \in Int /\ a % c \in 0 .. c - 1
           /\ a = c * (a \div c) + (a % c)
           /\ a \in Nat => a \div c \in Nat
  <1>1. a \div c \in Int
    OBVIOUS
  <1>2. a % c \in 0 .. c - 1
    OBVIOUS
  <1>3. a = c * (a \div c) + (a % c)
    OBVIOUS
  <1>4. ASSUME a \in Nat PROVE a \div c \in Nat
    BY <1>1, <1>2, <1>3, <1>4
  <1> QED
    BY <1>1, <1>2, <1>3, <1>4

LEMMA Multiple ==
    ASSUME NEW c \in Nat \ {0}, NEW k \in Int
    PROVE  (c * k) % c = 0 /\ (k * c) % c = 0
  OBVIOUS

LEMMA IsMultiple ==
    ASSUME NEW a \in Int, NEW c \in Nat \ {0}, a % c = 0
    PROVE  \E k \in Int : a = c * k
  <1>1. PICK k \in Int : k = a \div c
    BY DivMod
  <1>2. a = c * (a \div c) + (a % c)
    BY DivMod
  <1>3. a = c * k
    BY <1>1, <1>2
  <1> QED
    BY <1>3

LEMMA LessTimes ==
    ASSUME NEW c \in Nat \ {0}, NEW k \in Int, NEW l \in Int, c * k < c * l
    PROVE  c * k + c <= c * l
  <1>1. k < l
    OBVIOUS
  <1>2. c * (k + 1) <= c * l
    BY <1>1
  <1> QED
    BY <1>2

\* Two multiples of c that are not the same are c apart.
LEMMA Apart ==
    ASSUME NEW a \in Int, NEW b \in Int, NEW c \in Nat \ {0}, a % c = 0, b % c = 0, a < b
    PROVE  a + c <= b
  <1>1. PICK k \in Int : a = c * k
    BY IsMultiple
  <1>2. PICK l \in Int : b = c * l
    BY IsMultiple
  <1> QED
    BY <1>1, <1>2, LessTimes

LEMMA SumOfMultiples ==
    ASSUME NEW a \in Int, NEW b \in Int, NEW c \in Nat \ {0}, a % c = 0, b % c = 0
    PROVE  (a + b) % c = 0
  <1>1. PICK k \in Int : a = c * k
    BY IsMultiple
  <1>2. PICK l \in Int : b = c * l
    BY IsMultiple
  <1>3. a + b = c * (k + l)
    BY <1>1, <1>2
  <1> QED
    BY <1>3, Multiple

\* A set of naturals that is not empty has a least element, and one that is
\* bounded a greatest.
LEMMA LeastNat ==
    ASSUME NEW S \in SUBSET Nat, S # {}
    PROVE  \E x \in S : \A y \in S : x <= y
  <1>1. IsWellFoundedOn(OpToRel(<, Nat), Nat)
    BY NatLessThanWellFounded
  <1>2. PICK x \in S : \A y \in S : <<y, x>> \notin OpToRel(<, Nat)
    BY <1>1, WFMin
  <1>3. \A y \in S : ~(y < x)
    BY <1>2 DEF OpToRel
  <1> QED
    BY <1>3

LEMMA MinType ==
    ASSUME NEW S \in SUBSET Nat, S # {}
    PROVE  Min(S) \in S /\ \A y \in S : Min(S) <= y
  <1>1. \E x \in S : \A y \in S : x <= y
    BY LeastNat
  <1> QED
    BY <1>1 DEF Min

LEMMA MaxType ==
    ASSUME NEW n \in Nat, NEW S \in SUBSET (0 .. n), S # {}
    PROVE  Max(S) \in S /\ \A y \in S : Max(S) >= y
  <1> DEFINE T == {n - x : x \in S}
  <1>1. T \subseteq Nat /\ T # {}
    <2>1. \A x \in S : x \in 0 .. n
      OBVIOUS
    <2>2. \A x \in S : n - x \in Nat
      BY <2>1
    <2>3. PICK x : x \in S
      OBVIOUS
    <2>4. n - x \in T
      BY <2>3
    <2> QED
      BY <2>2, <2>4
  <1>2. PICK t \in T : \A y \in T : t <= y
    BY <1>1, LeastNat
  <1>3. PICK x \in S : t = n - x
    OBVIOUS
  <1>4. \A y \in S : x >= y
    BY <1>2, <1>3
  <1> QED
    BY <1>4 DEF Max

LEMMA SizesType ==
    /\ NSegments \in Nat \ {0} /\ SegmentSize \in Nat \ {0} /\ IdSize \in Nat \ {0}
    /\ GarbagesInSegment \in Nat \ {0} /\ GarbageThreshold \in Nat
    /\ EinfoWidth \in Nat /\ ChunkThreshold \in Nat /\ EinfoWidth <= ChunkThreshold
    /\ SegmentSize % IdSize = 0
    /\ VOID \notin Segments /\ 0 \in Segments
  BY SizesAssumption DEF VOID, Segments

\* The chunks of a segment fill it.
LEMMA ChunkSizes ==
    ASSUME NEW v \in Variations
    PROVE  chunk_size(v) \in Nat \ {0} /\ SegmentSize % chunk_size(v) = 0
  <1>1. v \in Nat /\ v + EinfoWidth \in Nat /\ v + EinfoWidth <= ChunkThreshold
    BY SizesType DEF Variations
  <1>2. PICK c \in Nat \ {0} : c = 2 ^ (v + EinfoWidth)
    BY <1>1, PowNat
  <1>3. ChunkThreshold - (v + EinfoWidth) \in Nat
    BY <1>1, SizesType
  <1>4. PICK d \in Nat \ {0} : d = 2 ^ (ChunkThreshold - (v + EinfoWidth))
    BY <1>3, PowNat
  <1>5. 2 ^ ChunkThreshold = c * d
    BY <1>1, <1>2, <1>4, SizesType, PowDivides
  <1>6. PICK t \in Nat \ {0} : t = 2 ^ ChunkThreshold
    BY SizesType, PowNat
  <1>7. PICK k \in Int : SegmentSize = t * k
    BY <1>6, SizesType, SizesAssumption, IsMultiple
  <1>8. SegmentSize = c * (d * k)
    BY <1>5, <1>6, <1>7
  <1>9. (c * (d * k)) % c = 0
    <2>1. d * k \in Int
      OBVIOUS
    <2> QED
      BY <2>1, Multiple
  <1> QED
    BY <1>2, <1>8, <1>9 DEF chunk_size

LEMMA VariationType ==
    ASSUME NEW size \in Nat, element_type(size) = "chunk"
    PROVE  variation(size) \in Variations /\ size # 0
  <1>1. PICK t \in Nat : t = 2 ^ ChunkThreshold
    BY SizesType, PowNat
  <1>2. PICK w \in Nat \ {0} : w = 2 ^ EinfoWidth
    BY SizesType, PowNat
  <1>3. w <= size /\ size <= t
    BY <1>1, <1>2 DEF element_type
  <1> DEFINE B == {b \in 0 .. ChunkThreshold : size <= 2 ^ b}
             m == compute_chunk_msb(size)
  <1>4. ChunkThreshold \in B
    BY <1>1, <1>3, SizesType
  <1>5. B \subseteq Nat
    OBVIOUS
  <1>6. m \in B
    BY <1>4, <1>5, MinType DEF compute_chunk_msb
  <1>7. ~(m < EinfoWidth)
    <2>1. m \in Nat
      BY <1>6
    <2>2. PICK x \in Nat : x = 2 ^ m
      BY <2>1, PowNat
    <2>3. ASSUME m < EinfoWidth PROVE x < w
      BY <1>2, <2>1, <2>2, <2>3, SizesType, PowGrows
    <2> QED
      BY <1>3, <1>6, <2>2, <2>3
  <1> QED
    BY <1>2, <1>3, <1>6, <1>7, SizesType DEF Variations, variation

LEMMA AlignedSize ==
    ASSUME NEW size \in Nat
    PROVE  /\ aligned_element_size(size) \in Nat
           /\ aligned_element_size(size) % IdSize = 0
           /\ size <= aligned_element_size(size)
           /\ aligned_element_size(size) < size + IdSize
           /\ aligned_data_size(size) = aligned_element_size(size) + IdSize
  <1>1. size + IdSize - 1 \in Nat
    BY SizesType
  <1>2. PICK q \in Nat : q = (size + IdSize - 1) \div IdSize
    BY <1>1, SizesType, DivMod
  <1>3. PICK r \in 0 .. IdSize - 1 : r = (size + IdSize - 1) % IdSize
    BY <1>1, SizesType, DivMod
  <1>4. size + IdSize - 1 = IdSize * q + r
    BY <1>1, <1>2, <1>3, SizesType, DivMod
  <1>5. aligned_element_size(size) = q * IdSize
    BY <1>2 DEF aligned_element_size
  <1>6. PICK a \in Nat : a = IdSize * q
    BY SizesType
  <1>7. aligned_element_size(size) = a /\ size + IdSize - 1 = a + r
    BY <1>4, <1>5, <1>6, SizesType
  <1>8. a % IdSize = 0
    BY <1>6, SizesType, Multiple
  <1> QED
    BY <1>3, <1>7, <1>8, SizesType DEF aligned_data_size, data_size

\* What a value takes in a sequential segment is a multiple of the size of an id, so
\* that the room checked for it without the padding is enough with it.
LEMMA RoomIsEnough ==
    ASSUME NEW size \in Nat, NEW pos \in Nat, pos % IdSize = 0,
           pos + data_size(size) <= SegmentSize
    PROVE  /\ pos + aligned_data_size(size) <= SegmentSize
           /\ (pos + aligned_data_size(size)) % IdSize = 0
           /\ aligned_data_size(size) \in Nat \ {0}
  <1>1. PICK a \in Nat : /\ a = aligned_element_size(size) /\ a % IdSize = 0
                         /\ size <= a /\ a < size + IdSize
                         /\ aligned_data_size(size) = a + IdSize
    BY AlignedSize
  <1> DEFINE x == pos + a
  <1>2. x % IdSize = 0 /\ x \in Nat
    <2>1. pos \in Int /\ a \in Int /\ IdSize \in Nat \ {0}
      BY <1>1, SizesType
    <2>2. (pos + a) % IdSize = 0
      BY <1>1, <2>1, SumOfMultiples, Zenon
    <2> QED
      BY <2>2
  <1> HIDE DEF x
  <1>3. IdSize % IdSize = 0
    <2>1. (IdSize * 1) % IdSize = 0
      BY SizesType, Multiple
    <2> QED
      BY <2>1, SizesType
  <1>4. (x + IdSize) % IdSize = 0
    <2>1. x \in Int /\ IdSize \in Int /\ IdSize \in Nat \ {0}
      BY <1>2, SizesType
    <2> QED
      BY <1>2, <1>3, <2>1, SumOfMultiples, Zenon
  <1>5. pos + size + IdSize <= SegmentSize
    BY SizesType DEF data_size
  <1>6. x < SegmentSize
    BY <1>1, <1>5, SizesType DEF x
  <1>7. x + IdSize <= SegmentSize
    <2>1. x \in Int /\ SegmentSize \in Int /\ IdSize \in Nat \ {0} /\ SegmentSize % IdSize = 0
      BY <1>2, SizesType
    <2> QED
      BY <1>2, <1>6, <2>1, Apart, Zenon
  <1>8. pos + aligned_data_size(size) = x + IdSize
    BY <1>1, SizesType DEF x
  <1> QED
    BY <1>1, <1>4, <1>7, <1>8, SizesType

LEMMA HugeSize ==
    ASSUME NEW size \in Nat, size # 0
    PROVE  huge_n_segments(size) \in Nat \ {0}
  <1>1. size + SegmentSize - 1 \in Nat /\ size + SegmentSize - 1 >= SegmentSize
    BY SizesType
  <1>2. PICK q \in Nat : q = (size + SegmentSize - 1) \div SegmentSize
    BY <1>1, SizesType, DivMod
  <1>3. PICK r \in 0 .. SegmentSize - 1 : r = (size + SegmentSize - 1) % SegmentSize
    BY <1>1, SizesType, DivMod
  <1>4. size + SegmentSize - 1 = SegmentSize * q + r
    BY <1>1, <1>2, <1>3, SizesType, DivMod
  <1>5. q # 0
    BY <1>1, <1>3, <1>4, SizesType
  <1> QED
    BY <1>2, <1>5 DEF huge_n_segments

-----------------------------------------------------------------------------
(***************************************************************************)
(* The lists of garbage infos.                                             *)
(***************************************************************************)
\* The segments of l are linked in this order, end there, and are all there are.
IsList(j, v, l) ==
    /\ l \in Seq(Segments \ {0})
    /\ \A m, n \in 1 .. Len(l) : l[m] = l[n] => m = n
    /\ \A s \in Segments \ {0} :
        j.info[s] = Info("ginfo", v) <=> \E n \in 1 .. Len(l) : l[n] = s
    /\ j.garbages[v] = IF Len(l) = 0 THEN 0 ELSE l[1]
    /\ \A n \in 1 .. Len(l) : j.ginfo[l[n]].next = IF n = Len(l) THEN 0 ELSE l[n + 1]

LEMMA ListIsShort ==
    ASSUME NEW l \in Seq(Segments \ {0}), \A m, n \in 1 .. Len(l) : l[m] = l[n] => m = n
    PROVE  Len(l) < NSegments
  <1>1. PICK k \in Nat : k = NSegments - 1
    BY SizesType
  <1>2. Segments \ {0} = 1 .. k
    BY <1>1, SizesType DEF Segments
  <1>3. l \in [1 .. Len(l) -> 1 .. k] /\ Len(l) \in Nat
    BY <1>2
  <1>4. l \in Injection(1 .. Len(l), 1 .. k)
    BY <1>3 DEF Injection, IsInjective
  <1>5. IsFiniteSet(1 .. k) /\ Cardinality(1 .. k) = k /\ Cardinality(1 .. Len(l)) = Len(l)
    BY <1>3, UpTo, Zenon
  <1>6. Cardinality(1 .. Len(l)) <= Cardinality(1 .. k)
    BY <1>4, <1>5, FS_Injection, Zenon
  <1> QED
    BY <1>1, <1>3, <1>5, <1>6, SizesType

\* What Garbage computes: the recursion has the list as its only solution.
LEMMA GarbageIs ==
    ASSUME NEW j, NEW v, NEW l, IsList(j, v, l)
    PROVE  Garbage(j, v) = l
  <1> DEFINE D == 0 .. NSegments
             Step(f) == [n \in D |-> IF n = 0 THEN j.garbages[v]
                                     ELSE IF f[n - 1] = 0 THEN 0 ELSE j.ginfo[f[n - 1]].next]
             nth == CHOOSE f : f = Step(f)
             g == [n \in D |-> IF n < Len(l) THEN l[n + 1] ELSE 0]
             Listed == {n \in 0 .. NSegments - 1 : nth[n] # 0}
  <1>1. Garbage(j, v) = [n \in 1 .. Cardinality(Listed) |-> nth[n - 1]]
    BY DEF Garbage
  <1>2. /\ l \in Seq(Segments \ {0}) /\ Len(l) \in Nat /\ Len(l) < NSegments
        /\ \A n \in 1 .. Len(l) : l[n] \in Segments /\ l[n] # 0
        /\ NSegments \in Nat
    BY ListIsShort, SizesType DEF IsList
  <1>3. g = Step(g)
    <2>1. ASSUME NEW n \in D
          PROVE  g[n] = IF n = 0 THEN j.garbages[v]
                        ELSE IF g[n - 1] = 0 THEN 0 ELSE j.ginfo[g[n - 1]].next
      <3>1. CASE n = 0
        BY <1>2, <3>1 DEF IsList
      <3>2. CASE n # 0 /\ n <= Len(l)
        <4>1. n - 1 \in D /\ g[n - 1] = l[n] /\ n \in 1 .. Len(l)
          BY <1>2, <3>2
        <4>2. j.ginfo[l[n]].next = IF n = Len(l) THEN 0 ELSE l[n + 1]
          BY <4>1 DEF IsList
        <4> QED
          BY <1>2, <3>2, <4>1, <4>2
      <3>3. CASE n > Len(l)
        <4>1. n - 1 \in D /\ g[n - 1] = 0 /\ n # 0 /\ g[n] = 0
          BY <1>2, <3>3
        <4> QED
          BY <4>1
      <3> QED
        BY <1>2, <3>1, <3>2, <3>3
    <2> QED
      BY <2>1
  <1>4. nth = Step(nth)
    <2> HIDE DEF g, Step
    <2> QED
      BY <1>3
  <1>5. \A n \in D : nth[n] = g[n]
    <2> DEFINE Bad == {n \in D : nth[n] # g[n]}
    <2>1. SUFFICES ASSUME Bad # {} PROVE FALSE
      OBVIOUS
    <2>2. Bad \in SUBSET Nat
      BY <1>2
    <2>3. PICK n \in Bad : \A m \in Bad : n <= m
      BY <2>1, <2>2, LeastNat
    <2>4. n \in D /\ nth[n] # g[n]
      BY <2>3
    <2>5. CASE n = 0
      BY <1>3, <1>4, <2>4, <2>5
    <2>6. CASE n # 0
      <3>1. n - 1 \in D /\ n - 1 \notin Bad
        BY <1>2, <2>3, <2>4, <2>6
      <3>2. nth[n - 1] = g[n - 1]
        BY <3>1
      <3> HIDE DEF g, nth
      <3>3. g[n] = IF g[n - 1] = 0 THEN 0 ELSE j.ginfo[g[n - 1]].next
        BY <1>3, <2>4, <2>6
      <3>4. nth[n] = IF nth[n - 1] = 0 THEN 0 ELSE j.ginfo[nth[n - 1]].next
        BY <1>4, <2>4, <2>6
      <3> QED
        BY <2>4, <3>2, <3>3, <3>4
    <2> QED
      BY <2>5, <2>6
  <1> HIDE DEF nth
  <1>6. Listed = 0 .. Len(l) - 1
    <2>1. ASSUME NEW n \in 0 .. NSegments - 1
          PROVE  nth[n] # 0 <=> n < Len(l)
      <3>1. nth[n] = IF n < Len(l) THEN l[n + 1] ELSE 0
        BY <1>2, <1>5
      <3>2. n < Len(l) => n + 1 \in 1 .. Len(l)
        BY <1>2
      <3> QED
        BY <1>2, <3>1, <3>2
    <2> QED
      BY <1>2, <2>1
  <1>7. Cardinality(Listed) = Len(l)
    <2>1. 0 \in Int /\ Len(l) - 1 \in Int /\ 0 <= (Len(l) - 1) + 1
          /\ (Len(l) - 1) - 0 + 1 = Len(l)
      BY <1>2
    <2>2. Cardinality(0 .. (Len(l) - 1)) = (Len(l) - 1) - 0 + 1
      BY <2>1, IntervalSize, Zenon
    <2> HIDE DEF Listed
    <2> QED
      BY <1>6, <2>1, <2>2, Zenon
  <1>8. \A n \in 1 .. Len(l) : nth[n - 1] = l[n]
    BY <1>2, <1>5
  <1>9. Garbage(j, v) = [n \in 1 .. Len(l) |-> l[n]]
    BY <1>1, <1>7, <1>8
  <1> QED
    BY <1>2, <1>9

-----------------------------------------------------------------------------
(***************************************************************************)
(* The invariant of a column j whose values are E, a function from owners  *)
(* to element infos.                                                       *)
(***************************************************************************)
Kinds == {"off", "chunk", "sequential", "huge", "einfo", "ginfo"}
Places == [seg : Segments, pos : 0 .. SegmentSize]

Einfos ==
    {e \in [type : {"tiny", "huge", "normal"}, seg : Segments, pos : 0 .. SegmentSize, size : Nat] :
        HasSpace(e) => IF e.type = "huge" THEN element_type(e.size) = "huge"
                       ELSE element_type(e.size) \in {"chunk", "sequential"}}

Columns ==
    [info : [Segments -> [type : Kinds, value : Nat]],
     element_segs : [Lsegs -> Segments \cup {VOID}],
     einfo : [Ids -> Einfos],
     curr_seg : Segments, curr_pos : 0 .. SegmentSize,
     free_elements : [Variations -> Places],
     garbages : [Variations -> Segments],
     n_garbages : [Variations -> Int],
     ginfo : [Segments -> [recs : Seq(Places), next : Segments]]]

IsChunk(e, v) ==
    HasSpace(e) /\ e.type = "normal" /\ element_type(e.size) = "chunk" /\ variation(e.size) = v
IsSequential(e) == HasSpace(e) /\ e.type = "normal" /\ element_type(e.size) = "sequential"
IsHuge(e) == HasSpace(e) /\ e.type = "huge"

\* Chunks: every chunk of a value and every garbage chunk is in a segment of its size,
\* has been handed out, and no two are at the same place.
InRest(j, v, p) ==
    /\ j.free_elements[v].seg # 0
    /\ p.seg = j.free_elements[v].seg /\ p.pos >= j.free_elements[v].pos
ChunkAt(j, v, p) ==
    /\ j.info[p.seg] = ChunkInfo(v)
    /\ p.pos % chunk_size(v) = 0
    /\ p.pos + chunk_size(v) <= SegmentSize
IsRecord(j, v, s, n) == j.info[s] = Info("ginfo", v) /\ n \in 1 .. Len(j.ginfo[s].recs)
Same(p, q) == p.seg = q.seg /\ p.pos = q.pos

ChunksInPlace(j, E, v) ==
    /\ \A o \in Owners : IsChunk(E[o], v) => ChunkAt(j, v, E[o]) /\ ~InRest(j, v, E[o])
    /\ \A s \in Segments, n \in Nat :
        IsRecord(j, v, s, n) =>
            ChunkAt(j, v, j.ginfo[s].recs[n]) /\ ~InRest(j, v, j.ginfo[s].recs[n])
    /\ j.free_elements[v].seg # 0 => ChunkAt(j, v, j.free_elements[v])
ChunksApart(j, E, v) ==
    /\ \A o, p \in Owners :
        IsChunk(E[o], v) /\ IsChunk(E[p], v) /\ o # p => ~Same(E[o], E[p])
    /\ \A o \in Owners, s \in Segments, n \in Nat :
        IsChunk(E[o], v) /\ IsRecord(j, v, s, n) => ~Same(E[o], j.ginfo[s].recs[n])
    /\ \A s, t \in Segments, m, n \in Nat :
        IsRecord(j, v, s, m) /\ IsRecord(j, v, t, n) /\ <<s, m>> # <<t, n>> =>
            ~Same(j.ginfo[s].recs[m], j.ginfo[t].recs[n])
ChunksKept(j, E, v) ==
    \A q \in [seg : Segments \ {0}, pos : 0 .. SegmentSize - 1] :
        j.info[q.seg] = ChunkInfo(v) /\ q.pos % chunk_size(v) = 0 =>
            \/ InRest(j, v, q)
            \/ \E o \in Owners : IsChunk(E[o], v) /\ Same(E[o], q)
            \/ \E s \in Segments, n \in Nat :
                    IsRecord(j, v, s, n) /\ Same(j.ginfo[s].recs[n], q)
Chunks(j, E) ==
    \A v \in Variations : ChunksInPlace(j, E, v) /\ ChunksApart(j, E, v) /\ ChunksKept(j, E, v)

\* Sequential segments: values lie behind each other, in the current segment before the
\* current position, and the segment counts their bytes.
Start(e) == e.pos - IdSize
Stop(e) == e.pos + aligned_element_size(e.size)
Taken(E, s) ==
    {p \in Bytes : \E o \in Owners : /\ IsSequential(E[o]) /\ E[o].seg = s
                                     /\ Start(E[o]) <= p /\ p < Stop(E[o])}
Sequentials(j, E) ==
    /\ \A o \in Owners :
        IsSequential(E[o]) =>
            /\ j.info[E[o].seg].type = "sequential"
            /\ 0 <= Start(E[o]) /\ Stop(E[o]) <= SegmentSize
            /\ E[o].seg = j.curr_seg => Stop(E[o]) <= j.curr_pos
    /\ \A o, p \in Owners :
        IsSequential(E[o]) /\ IsSequential(E[p]) /\ o # p /\ E[o].seg = E[p].seg =>
            Stop(E[o]) <= Start(E[p]) \/ Stop(E[p]) <= Start(E[o])
    /\ j.curr_pos % IdSize = 0
    /\ j.curr_pos < SegmentSize => j.info[j.curr_seg].type = "sequential"
    /\ \A s \in Segments :
        j.info[s].type = "sequential" => j.info[s].value = Cardinality(Taken(E, s))

\* Huge values have whole segments, each one value.
Last(e) == e.seg + huge_n_segments(e.size) - 1
Huges(j, E) ==
    /\ \A o \in Owners :
        IsHuge(E[o]) => \A s \in E[o].seg .. Last(E[o]) : s \in Segments /\ j.info[s].type = "huge"
    /\ \A o, p \in Owners :
        IsHuge(E[o]) /\ IsHuge(E[p]) /\ o # p => Last(E[o]) < E[p].seg \/ Last(E[p]) < E[o].seg
    /\ \A s \in Segments :
        j.info[s].type = "huge" => \E o \in Owners : IsHuge(E[o]) /\ s \in E[o].seg .. Last(E[o])

\* Garbage: the segments of a variation are a list, and n_garbages counts what is in them.
Lists(j) ==
    /\ \A v \in Variations :
        /\ \E l : IsList(j, v, l)
        /\ IsFiniteSet(Records(j, v)) /\ j.n_garbages[v] = Cardinality(Records(j, v))
    /\ \A s \in Segments :
        j.info[s].type = "ginfo" => Len(j.ginfo[s].recs) <= GarbagesInSegment
NoneIsEmpty(j) ==
    \A s \in Segments : j.info[s].type = "ginfo" => Len(j.ginfo[s].recs) # 0

\* The kinds of segments.  The first one has element infos.
Infos(j) ==
    /\ j.info[0].type = "einfo"
    /\ \A s \in Segments :
        /\ j.info[s].type = "einfo" =>
                j.info[s].value \in Lsegs /\ j.element_segs[j.info[s].value] = s
        /\ j.info[s].type = "chunk" => \E v \in Variations : j.info[s] = ChunkInfo(v)

Sound(j, E) ==
    /\ j \in Columns /\ E \in [Owners -> Einfos]
    /\ Chunks(j, E) /\ Sequentials(j, E) /\ Huges(j, E) /\ Lists(j) /\ Infos(j)
Good(j, E) == Sound(j, E) /\ NoneIsEmpty(j)

\* The chunks in use and the garbage chunks that are listed (all of them: NotInFirst).
ChunkOwners(E, v) == {o \in Owners : IsChunk(E[o], v)}
ListedRecords(j, v) == {r \in Records(j, v) : r[1] # 0}
Bounded(j, E) ==
    \A v \in Variations :
        Cardinality(ChunkOwners(E, v)) + Cardinality(ListedRecords(j, v))
            <= Cardinality(Ids) + Cardinality(Writers) + GarbageThreshold

\* The inductive invariant.
WriterStates ==
    {Idle} \cup [pc : {"append"}, id : Ids, size : Nat, had : BOOLEAN]
           \cup [pc : {"defrag"}, id : Ids, einfo : Einfos]
           \cup [pc : {"allocated", "failed"}, id : Ids, einfo : Einfos, cas : Einfos \cup {NoCas}]
Values == [o \in Owners |-> Held(o)]
JaInv ==
    /\ writer \in [Writers -> WriterStates] /\ sizes \in Workloads
    /\ Ready => Good(ja, Values) /\ Bounded(ja, Values)

-----------------------------------------------------------------------------
(***************************************************************************)
(* Parts of the invariant that a change does not touch.                    *)
(***************************************************************************)
\* The garbage and the values with chunks of a variation are the same in both.
SameChunks(j, k, E, F, v) ==
    /\ \A s \in Segments : k.info[s] = ChunkInfo(v) <=> j.info[s] = ChunkInfo(v)
    /\ \A s \in Segments, n \in Nat :
        /\ IsRecord(k, v, s, n) <=> IsRecord(j, v, s, n)
        /\ IsRecord(j, v, s, n) => k.ginfo[s].recs[n] = j.ginfo[s].recs[n]
    /\ \A o \in Owners : F[o] = E[o] \/ (~IsChunk(F[o], v) /\ ~IsChunk(E[o], v))

LEMMA RecordType ==
    ASSUME NEW j \in Columns, NEW v, NEW s \in Segments, NEW n \in Nat, IsRecord(j, v, s, n)
    PROVE  j.ginfo[s].recs[n] \in Places /\ j.ginfo[s].recs \in Seq(Places)
  <1>1. j.ginfo[s].recs \in Seq(Places)
    BY DEF Columns
  <1>2. n \in 1 .. Len(j.ginfo[s].recs)
    BY DEF IsRecord
  <1> QED
    BY <1>1, <1>2

LEMMA ChunksFrame ==
    ASSUME NEW j \in Columns, NEW k \in Columns,
           NEW E \in [Owners -> Einfos], NEW F \in [Owners -> Einfos],
           NEW v \in Variations, SameChunks(j, k, E, F, v),
           k.free_elements[v] = j.free_elements[v],
           ChunksInPlace(j, E, v), ChunksApart(j, E, v), ChunksKept(j, E, v)
    PROVE  ChunksInPlace(k, F, v) /\ ChunksApart(k, F, v) /\ ChunksKept(k, F, v)
  <1>1. \A s \in Segments, n \in Nat :
            /\ IsRecord(k, v, s, n) <=> IsRecord(j, v, s, n)
            /\ IsRecord(j, v, s, n) => k.ginfo[s].recs[n] = j.ginfo[s].recs[n]
    BY DEF SameChunks
  <1>2. \A p : p.seg \in Segments => (ChunkAt(k, v, p) <=> ChunkAt(j, v, p))
    BY DEF ChunkAt, SameChunks
  <1>3. \A p : InRest(k, v, p) <=> InRest(j, v, p)
    BY DEF InRest
  <1>4. \A o \in Owners : E[o].seg \in Segments
    BY DEF Einfos
  <1>5. \A s \in Segments, n \in Nat :
            IsRecord(j, v, s, n) => j.ginfo[s].recs[n].seg \in Segments
    BY RecordType DEF Places
  <1>6. \A o \in Owners : IsChunk(F[o], v) => F[o] = E[o] /\ IsChunk(E[o], v)
    BY DEF SameChunks
  <1>7. \A o \in Owners : IsChunk(E[o], v) => F[o] = E[o] /\ IsChunk(F[o], v)
    BY DEF SameChunks
  <1>8. j.free_elements[v].seg \in Segments
    BY DEF Columns, Places
  <1>9. ChunksInPlace(k, F, v)
    BY <1>1, <1>2, <1>3, <1>4, <1>5, <1>6, <1>8 DEF ChunksInPlace
  <1>10. ChunksApart(k, F, v)
    BY <1>1, <1>6 DEF ChunksApart
  <1>11. ChunksKept(k, F, v)
    <2> SUFFICES ASSUME NEW q \in [seg : Segments \ {0}, pos : 0 .. SegmentSize - 1],
                        k.info[q.seg] = ChunkInfo(v), q.pos % chunk_size(v) = 0
                 PROVE  \/ InRest(k, v, q)
                        \/ \E o \in Owners : IsChunk(F[o], v) /\ Same(F[o], q)
                        \/ \E s \in Segments, n \in Nat :
                                IsRecord(k, v, s, n) /\ Same(k.ginfo[s].recs[n], q)
      BY DEF ChunksKept
    <2>1. j.info[q.seg] = ChunkInfo(v)
      BY DEF SameChunks
    <2>2. \/ InRest(j, v, q)
          \/ \E o \in Owners : IsChunk(E[o], v) /\ Same(E[o], q)
          \/ \E s \in Segments, n \in Nat :
                    IsRecord(j, v, s, n) /\ Same(j.ginfo[s].recs[n], q)
      BY <2>1 DEF ChunksKept
    <2> QED
      BY <1>1, <1>3, <1>7, <2>2
  <1> QED
    BY <1>9, <1>10, <1>11

\* The sequential segments and the values in them are the same in both.
SameSequentials(j, k, E, F) ==
    /\ k.curr_seg = j.curr_seg /\ k.curr_pos = j.curr_pos
    /\ \A s \in Segments :
        (k.info[s].type = "sequential" \/ j.info[s].type = "sequential") => k.info[s] = j.info[s]
    /\ \A o \in Owners : F[o] = E[o] \/ (~IsSequential(F[o]) /\ ~IsSequential(E[o]))

LEMMA SequentialsFrame ==
    ASSUME NEW j \in Columns, NEW k \in Columns,
           NEW E \in [Owners -> Einfos], NEW F \in [Owners -> Einfos],
           SameSequentials(j, k, E, F), Sequentials(j, E)
    PROVE  Sequentials(k, F)
  <1>1. \A o \in Owners : IsSequential(F[o]) <=> IsSequential(E[o])
    BY DEF SameSequentials
  <1>2. \A o \in Owners : IsSequential(F[o]) => F[o] = E[o]
    BY DEF SameSequentials
  <1>3. \A s : Taken(F, s) = Taken(E, s)
    BY <1>1, <1>2 DEF Taken
  <1>4. \A o \in Owners : E[o].seg \in Segments
    BY DEF Einfos
  <1>5. j.curr_seg \in Segments
    BY DEF Columns
  <1> QED
    BY <1>1, <1>2, <1>3, <1>4, <1>5 DEF Sequentials, SameSequentials

\* The segments of huge values are the same in both.
SameHuges(j, k, E, F) ==
    /\ \A s \in Segments : k.info[s].type = "huge" <=> j.info[s].type = "huge"
    /\ \A o \in Owners : F[o] = E[o] \/ (~IsHuge(F[o]) /\ ~IsHuge(E[o]))

LEMMA HugesFrame ==
    ASSUME NEW j, NEW k, NEW E, NEW F, SameHuges(j, k, E, F), Huges(j, E)
    PROVE  Huges(k, F)
  <1>1. \A o \in Owners : IsHuge(F[o]) <=> IsHuge(E[o])
    BY DEF SameHuges
  <1>2. \A o \in Owners : IsHuge(F[o]) => F[o] = E[o]
    BY DEF SameHuges
  <1> QED
    BY <1>1, <1>2 DEF Huges, SameHuges

\* The garbage info segments are the same in both.
SameLists(j, k) ==
    /\ k.garbages = j.garbages /\ k.n_garbages = j.n_garbages /\ k.ginfo = j.ginfo
    /\ \A s \in Segments :
        (k.info[s].type = "ginfo" \/ j.info[s].type = "ginfo") => k.info[s] = j.info[s]

LEMMA ListsFrame ==
    ASSUME NEW j \in Columns, NEW k \in Columns, SameLists(j, k), Lists(j)
    PROVE  Lists(k)
  <1>1. \A v : \A s \in Segments : k.info[s] = Info("ginfo", v) <=> j.info[s] = Info("ginfo", v)
    BY DEF SameLists, Info
  <1>2. \A v, l : IsList(j, v, l) => IsList(k, v, l)
    BY <1>1 DEF IsList, SameLists
  <1>3. \A v : GinfosOf(k, v) = GinfosOf(j, v)
    BY <1>1 DEF GinfosOf
  <1>4. \A v : Records(k, v) = Records(j, v)
    BY <1>3 DEF Records, SameLists
  <1> QED
    BY <1>2, <1>4 DEF Lists, SameLists

\* The segments of element infos and the widths of chunks are the same in both.
SameInfos(j, k) ==
    /\ k.element_segs = j.element_segs
    /\ \A s \in Segments : k.info[s].type \in {"einfo", "chunk"} => k.info[s] = j.info[s]
    /\ \A s \in Segments : j.info[s].type = "einfo" => k.info[s] = j.info[s]

LEMMA InfosFrame ==
    ASSUME NEW j \in Columns, NEW k \in Columns, Infos(j), SameInfos(j, k)
    PROVE  Infos(k)
  BY SizesType DEF Infos, SameInfos

-----------------------------------------------------------------------------
(***************************************************************************)
(* The values change their owners.                                         *)
(***************************************************************************)
LEMMA Renamed ==
    ASSUME NEW j, NEW E, Sound(j, E),
           NEW p \in [Owners -> Owners], \A o \in Owners : p[p[o]] = o
    PROVE  Sound(j, [o \in Owners |-> E[p[o]]])
  <1> DEFINE F == [o \in Owners |-> E[p[o]]]
  <1>1. /\ \A o \in Owners : F[o] = E[p[o]] /\ p[o] \in Owners
        /\ \A o \in Owners : E[o] = F[p[o]]
        /\ \A o, q \in Owners : o # q => p[o] # p[q]
    OBVIOUS
  <1>2. F \in [Owners -> Einfos] /\ j \in Columns
    BY DEF Sound
  <1> HIDE DEF F
  <1>3. Chunks(j, F)
    <2> SUFFICES ASSUME NEW v \in Variations
                 PROVE  ChunksInPlace(j, F, v) /\ ChunksApart(j, F, v) /\ ChunksKept(j, F, v)
      BY DEF Chunks
    <2>1. ChunksInPlace(j, E, v) /\ ChunksApart(j, E, v) /\ ChunksKept(j, E, v)
      BY DEF Sound, Chunks
    <2>2. ChunksInPlace(j, F, v)
      BY <1>1, <2>1 DEF ChunksInPlace
    <2>3. ChunksApart(j, F, v)
      BY <1>1, <2>1 DEF ChunksApart
    <2>4. ChunksKept(j, F, v)
      <3>1. ASSUME NEW q, \E o \in Owners : IsChunk(E[o], v) /\ Same(E[o], q)
            PROVE  \E o \in Owners : IsChunk(F[o], v) /\ Same(F[o], q)
        <4>1. PICK o \in Owners : IsChunk(E[o], v) /\ Same(E[o], q)
          BY <3>1
        <4>2. p[o] \in Owners /\ IsChunk(F[p[o]], v) /\ Same(F[p[o]], q)
          BY <1>1, <4>1
        <4> QED
          BY <4>2
      <3> QED
        BY <2>1, <3>1 DEF ChunksKept
    <2> QED
      BY <2>2, <2>3, <2>4
  <1>4. Sequentials(j, F)
    <2>1. \A s : Taken(F, s) = Taken(E, s)
      BY <1>1 DEF Taken
    <2> QED
      BY <1>1, <2>1 DEF Sound, Sequentials
  <1>5. Huges(j, F)
    <2>1. ASSUME NEW s \in Segments, j.info[s].type = "huge"
          PROVE  \E o \in Owners : IsHuge(F[o]) /\ s \in F[o].seg .. Last(F[o])
      <3>1. PICK o \in Owners : IsHuge(E[o]) /\ s \in E[o].seg .. Last(E[o])
        BY <2>1 DEF Sound, Huges
      <3> QED
        BY <1>1, <3>1
    <2>2. \A o \in Owners :
            IsHuge(F[o]) => \A s \in F[o].seg .. Last(F[o]) : s \in Segments /\ j.info[s].type = "huge"
      BY <1>1 DEF Sound, Huges
    <2>3. \A o, q \in Owners :
            IsHuge(F[o]) /\ IsHuge(F[q]) /\ o # q => Last(F[o]) < F[q].seg \/ Last(F[q]) < F[o].seg
      BY <1>1 DEF Sound, Huges
    <2> QED
      BY <2>1, <2>2, <2>3 DEF Huges
  <1> QED
    BY <1>2, <1>3, <1>4, <1>5 DEF Sound, F

LEMMA Exchanged ==
    ASSUME NEW j, NEW E, Sound(j, E), NEW a \in Owners, NEW b \in Owners
    PROVE  Sound(j, [E EXCEPT ![a] = E[b], ![b] = E[a]])
  <1> DEFINE p == [o \in Owners |-> IF o = a THEN b ELSE IF o = b THEN a ELSE o]
  <1>1. p \in [Owners -> Owners] /\ \A o \in Owners : p[p[o]] = o
    OBVIOUS
  <1>2. [o \in Owners |-> E[p[o]]] = [E EXCEPT ![a] = E[b], ![b] = E[a]]
    BY DEF Sound
  <1>3. Sound(j, [o \in Owners |-> E[p[o]]])
    <2> HIDE DEF p
    <2> QED
      BY <1>1, Renamed
  <1> QED
    BY <1>2, <1>3

-----------------------------------------------------------------------------
(***************************************************************************)
(* Each change of the header and the segments keeps the column sound.      *)
(***************************************************************************)
LEMMA InfoKinds ==
    /\ Off.type = "off" /\ Off \in [type : Kinds, value : Nat]
    /\ \A v : ChunkInfo(v).type = "chunk"
    /\ \A t, v : Info(t, v).type = t /\ Info(t, v).value = v
    /\ \A v \in Variations : ChunkInfo(v) \in [type : Kinds, value : Nat]
    /\ \A t \in Kinds, v \in Nat : Info(t, v) \in [type : Kinds, value : Nat]
    /\ \A u, v \in Variations : ChunkInfo(u) = ChunkInfo(v) => u = v
  <1>1. Variations \subseteq Nat
    BY SizesType DEF Variations
  <1> QED
    BY <1>1, SizesType DEF Off, ChunkInfo, Info, Kinds

\* A free segment becomes one of element infos.
LEMMA EinfoSegment ==
    ASSUME NEW j, NEW E, Sound(j, E), NEW lseg \in Lsegs, j.element_segs[lseg] = VOID,
           NEW seg \in Segments, j.info[seg] = Off
    PROVE  Sound(einfo_segment_new(j, lseg, seg), E)
  <1> DEFINE k == einfo_segment_new(j, lseg, seg)
  <1>1. Empty \in Einfos /\ lseg \in Nat
    BY SizesType, SizesAssumption DEF Empty, Einfo, Einfos, HasSpace, Segments, Lsegs
  <1>2. j \in Columns /\ E \in [Owners -> Einfos]
    BY DEF Sound
  <1>3. /\ k.info = [j.info EXCEPT ![seg] = Info("einfo", lseg)]
        /\ k.element_segs = [j.element_segs EXCEPT ![lseg] = seg]
        /\ k.curr_seg = j.curr_seg /\ k.curr_pos = j.curr_pos
        /\ k.free_elements = j.free_elements /\ k.garbages = j.garbages
        /\ k.n_garbages = j.n_garbages /\ k.ginfo = j.ginfo
    BY <1>2 DEF einfo_segment_new, Columns
  <1>4. k \in Columns
    <2>1. Info("einfo", lseg) \in [type : Kinds, value : Nat]
      BY <1>1, InfoKinds DEF Kinds
    <2> QED
      BY <1>1, <1>2, <2>1 DEF einfo_segment_new, Columns
  <1> HIDE DEF k
  <1>5. /\ \A s \in Segments : k.info[s] = IF s = seg THEN Info("einfo", lseg) ELSE j.info[s]
        /\ Info("einfo", lseg).type = "einfo" /\ Info("einfo", lseg).value = lseg
        /\ j.info[seg].type = "off"
    BY <1>2, <1>3, InfoKinds DEF Columns
  <1>6. Chunks(k, E)
    <2> SUFFICES ASSUME NEW v \in Variations
                 PROVE  ChunksInPlace(k, E, v) /\ ChunksApart(k, E, v) /\ ChunksKept(k, E, v)
      BY DEF Chunks
    <2>1. SameChunks(j, k, E, E, v)
      BY <1>3, <1>5, InfoKinds DEF SameChunks, IsRecord
    <2> QED
      BY <1>2, <1>3, <1>4, <2>1, ChunksFrame DEF Sound, Chunks
  <1>7. Sequentials(k, E)
    <2>1. SameSequentials(j, k, E, E)
      BY <1>3, <1>5 DEF SameSequentials
    <2> QED
      BY <1>2, <1>4, <2>1, SequentialsFrame DEF Sound
  <1>8. Huges(k, E)
    <2>1. SameHuges(j, k, E, E)
      BY <1>5 DEF SameHuges
    <2> QED
      BY <2>1, HugesFrame DEF Sound
  <1>9. Lists(k)
    <2>1. SameLists(j, k)
      BY <1>3, <1>5 DEF SameLists
    <2> QED
      BY <1>2, <1>4, <2>1, ListsFrame DEF Sound
  <1>10. Infos(k)
    <2>1. \A s \in Segments : j.info[s].type = "einfo" => j.info[s].value # lseg
      BY SizesType DEF Sound, Infos
    <2> QED
      BY <1>2, <1>3, <1>5, <2>1, SizesType DEF Sound, Infos, Columns
  <1> QED
    BY <1>2, <1>4, <1>6, <1>7, <1>8, <1>9, <1>10 DEF Sound, k

\* A free segment becomes the current one for sequential values.
LEMMA SequentialSegment ==
    ASSUME NEW j, NEW E, Sound(j, E), NEW seg \in Segments, j.info[seg] = Off
    PROVE  Sound(sequential_segment_new(j, seg), E)
  <1> DEFINE k == sequential_segment_new(j, seg)
  <1>1. j \in Columns /\ E \in [Owners -> Einfos]
    BY DEF Sound
  <1>2. /\ k.info = [j.info EXCEPT ![seg] = Info("sequential", 0)]
        /\ k.element_segs = j.element_segs
        /\ k.curr_seg = seg /\ k.curr_pos = 0
        /\ k.free_elements = j.free_elements /\ k.garbages = j.garbages
        /\ k.n_garbages = j.n_garbages /\ k.ginfo = j.ginfo
    BY <1>1 DEF sequential_segment_new, Columns
  <1>3. k \in Columns
    <2>1. Info("sequential", 0) \in [type : Kinds, value : Nat] /\ 0 \in 0 .. SegmentSize
      BY SizesType, InfoKinds DEF Kinds
    <2> QED
      BY <1>1, <2>1 DEF sequential_segment_new, Columns
  <1> HIDE DEF k
  <1>4. /\ \A s \in Segments : k.info[s] = IF s = seg THEN Info("sequential", 0) ELSE j.info[s]
        /\ Info("sequential", 0).type = "sequential" /\ Info("sequential", 0).value = 0
        /\ j.info[seg].type = "off"
    BY <1>1, <1>2, InfoKinds DEF Columns
  <1>5. Chunks(k, E)
    <2> SUFFICES ASSUME NEW v \in Variations
                 PROVE  ChunksInPlace(k, E, v) /\ ChunksApart(k, E, v) /\ ChunksKept(k, E, v)
      BY DEF Chunks
    <2>1. SameChunks(j, k, E, E, v)
      BY <1>2, <1>4, InfoKinds DEF SameChunks, IsRecord
    <2> QED
      BY <1>1, <1>2, <1>3, <2>1, ChunksFrame DEF Sound, Chunks
  <1>6. Sequentials(k, E)
    <2>1. \A o \in Owners : IsSequential(E[o]) => E[o].seg # seg /\ E[o].seg \in Segments
      BY <1>1, <1>4 DEF Sound, Sequentials, Einfos
    <2>2. Taken(E, seg) = {}
      BY <2>1 DEF Taken
    <2>3. Cardinality(Taken(E, seg)) = 0
      BY <2>2, FS_EmptySet
    <2>4. 0 % IdSize = 0
      BY SizesType
    <2> QED
      BY <1>2, <1>4, <2>1, <2>3, <2>4 DEF Sound, Sequentials
  <1>7. Huges(k, E)
    <2>1. SameHuges(j, k, E, E)
      BY <1>4 DEF SameHuges
    <2> QED
      BY <2>1, HugesFrame DEF Sound
  <1>8. Lists(k)
    <2>1. SameLists(j, k)
      BY <1>2, <1>4 DEF SameLists
    <2> QED
      BY <1>1, <1>3, <2>1, ListsFrame DEF Sound
  <1>9. Infos(k)
    <2>1. SameInfos(j, k)
      BY <1>1, <1>2, <1>3, <1>4 DEF SameInfos
    <2> QED
      BY <1>1, <1>2, <1>3, <1>4, <2>1, InfosFrame DEF Sound
  <1> QED
    BY <1>1, <1>3, <1>5, <1>6, <1>7, <1>8, <1>9 DEF Sound, k

\* A free segment becomes the one that chunks are taken from next.
NextFrom(j, k, E, u, seg) ==
    /\ Sound(k, E)
    /\ k.free_elements[u] = [seg |-> seg, pos |-> 0]
    /\ k.info[seg] = ChunkInfo(u)
    /\ k.ginfo = j.ginfo
    /\ \A s \in Segments : k.info[s].type = "ginfo" => k.info[s] = j.info[s]
    /\ \A o \in Owners : IsChunk(E[o], u) => E[o].seg # seg
    /\ \A s \in Segments, n \in Nat : IsRecord(k, u, s, n) => j.ginfo[s].recs[n].seg # seg

LEMMA ChunkSegment ==
    ASSUME NEW j, NEW E, Sound(j, E), NEW u \in Variations, j.free_elements[u].seg = 0,
           NEW seg \in Segments, j.info[seg] = Off
    PROVE  NextFrom(j, chunk_segment_new(j, u, seg), E, u, seg)
  <1> DEFINE k == chunk_segment_new(j, u, seg)
  <1>1. j \in Columns /\ E \in [Owners -> Einfos]
    BY DEF Sound
  <1>2. /\ k.info = [j.info EXCEPT ![seg] = ChunkInfo(u)]
        /\ k.element_segs = j.element_segs
        /\ k.curr_seg = j.curr_seg /\ k.curr_pos = j.curr_pos
        /\ k.free_elements = [j.free_elements EXCEPT ![u] = [seg |-> seg, pos |-> 0]]
        /\ k.garbages = j.garbages
        /\ k.n_garbages = j.n_garbages /\ k.ginfo = j.ginfo
    BY <1>1 DEF chunk_segment_new, chunk_segment_use, Columns
  <1>3. k \in Columns
    <2>1. ChunkInfo(u) \in [type : Kinds, value : Nat] /\ [seg |-> seg, pos |-> 0] \in Places
      BY SizesType, InfoKinds DEF Places
    <2> QED
      BY <1>1, <2>1 DEF chunk_segment_new, chunk_segment_use, Columns
  <1> HIDE DEF k
  <1>4. /\ \A s \in Segments : k.info[s] = IF s = seg THEN ChunkInfo(u) ELSE j.info[s]
        /\ ChunkInfo(u).type = "chunk"
        /\ j.info[seg].type = "off"
    BY <1>1, <1>2, InfoKinds DEF Columns
  <1>5. k.free_elements[u] = [seg |-> seg, pos |-> 0]
    BY <1>1, <1>2 DEF Columns
  <1>6. ChunksInPlace(j, E, u) /\ ChunksApart(j, E, u) /\ ChunksKept(j, E, u)
    BY DEF Sound, Chunks
  <1>7. \A o \in Owners : IsChunk(E[o], u) => E[o].seg # seg /\ E[o].seg \in Segments
    BY <1>1, <1>4, <1>6, InfoKinds DEF ChunksInPlace, ChunkAt, Einfos
  <1>8. \A s \in Segments, n \in Nat : IsRecord(k, u, s, n) <=> IsRecord(j, u, s, n)
    BY <1>2, <1>4, InfoKinds DEF IsRecord
  <1>9. \A s \in Segments, n \in Nat :
            IsRecord(j, u, s, n) => /\ j.ginfo[s].recs[n].seg # seg
                                    /\ j.ginfo[s].recs[n].seg \in Segments
    <2>1. \A s \in Segments, n \in Nat :
            IsRecord(j, u, s, n) => j.ginfo[s].recs[n].seg \in Segments
      BY <1>1, RecordType DEF Places
    <2> QED
      BY <1>4, <1>6, <2>1, InfoKinds DEF ChunksInPlace, ChunkAt
  <1>10. Chunks(k, E)
    <2> SUFFICES ASSUME NEW v \in Variations
                 PROVE  ChunksInPlace(k, E, v) /\ ChunksApart(k, E, v) /\ ChunksKept(k, E, v)
      BY DEF Chunks
    <2>1. CASE v # u
      <3>1. SameChunks(j, k, E, E, v)
        BY <1>2, <1>4, <2>1, InfoKinds DEF SameChunks, IsRecord
      <3>2. k.free_elements[v] = j.free_elements[v]
        BY <1>1, <1>2, <2>1 DEF Columns
      <3> QED
        BY <1>1, <1>3, <3>1, <3>2, ChunksFrame DEF Sound, Chunks
    <2>2. CASE v = u
      <3>1. \A p : p.seg # seg => ~InRest(k, u, p)
        BY <1>5 DEF InRest
      <3>2. \A p : p.seg # seg /\ p.seg \in Segments /\ ChunkAt(j, u, p) => ChunkAt(k, u, p)
        BY <1>4 DEF ChunkAt
      <3>3. ChunkAt(k, u, [seg |-> seg, pos |-> 0])
        <4>1. chunk_size(u) \in Nat \ {0} /\ SegmentSize % chunk_size(u) = 0
          BY ChunkSizes
        <4>2. 0 % chunk_size(u) = 0 /\ 0 \in Int /\ SegmentSize \in Int /\ 0 < SegmentSize
          BY <4>1, SizesType
        <4>3. 0 + chunk_size(u) <= SegmentSize
          BY <4>1, <4>2, Apart, Zenon
        <4> QED
          BY <1>4, <4>2, <4>3 DEF ChunkAt
      <3>4. ChunksInPlace(k, E, u)
        BY <1>2, <1>5, <1>6, <1>7, <1>8, <1>9, <3>1, <3>2, <3>3 DEF ChunksInPlace
      <3>5. ChunksApart(k, E, u)
        BY <1>2, <1>6, <1>8 DEF ChunksApart
      <3>6. ChunksKept(k, E, u)
        <4> SUFFICES ASSUME NEW q \in [seg : Segments \ {0}, pos : 0 .. SegmentSize - 1],
                            k.info[q.seg] = ChunkInfo(u), q.pos % chunk_size(u) = 0
                     PROVE  \/ InRest(k, u, q)
                            \/ \E o \in Owners : IsChunk(E[o], u) /\ Same(E[o], q)
                            \/ \E s \in Segments, n \in Nat :
                                    IsRecord(k, u, s, n) /\ Same(k.ginfo[s].recs[n], q)
          BY DEF ChunksKept
        <4>1. CASE q.seg = seg
          BY <1>5, <4>1 DEF InRest
        <4>2. CASE q.seg # seg
          <5>1. j.info[q.seg] = ChunkInfo(u)
            BY <1>4, <4>2
          <5>2. ~InRest(j, u, q)
            BY DEF InRest
          <5> QED
            BY <1>2, <1>6, <1>8, <5>1, <5>2 DEF ChunksKept
        <4> QED
          BY <4>1, <4>2
      <3> QED
        BY <2>2, <3>4, <3>5, <3>6
    <2> QED
      BY <2>1, <2>2
  <1>11. Sequentials(k, E)
    <2>1. SameSequentials(j, k, E, E)
      BY <1>2, <1>4 DEF SameSequentials
    <2> QED
      BY <1>1, <1>3, <2>1, SequentialsFrame DEF Sound
  <1>12. Huges(k, E)
    <2>1. SameHuges(j, k, E, E)
      BY <1>4 DEF SameHuges
    <2> QED
      BY <2>1, HugesFrame DEF Sound
  <1>13. Lists(k)
    <2>1. SameLists(j, k)
      BY <1>2, <1>4 DEF SameLists
    <2> QED
      BY <1>1, <1>3, <2>1, ListsFrame DEF Sound
  <1>14. Infos(k)
    <2>1. \A s \in Segments : k.info[s].type = "einfo" => k.info[s] = j.info[s]
      BY <1>4
    <2> QED
      BY <1>2, <1>4, <2>1, SizesType DEF Sound, Infos
  <1>15. Sound(k, E)
    BY <1>1, <1>3, <1>10, <1>11, <1>12, <1>13, <1>14 DEF Sound
  <1>16. \A s \in Segments : k.info[s].type = "ginfo" => k.info[s] = j.info[s]
    BY <1>4
  <1> QED
    BY <1>2, <1>4, <1>5, <1>7, <1>8, <1>9, <1>15, <1>16 DEF k, NextFrom

\* The value of o is now r.einfo, and the garbage is as it was.
Handed(j, E, o, r) ==
    /\ Sound(r.ja, [E EXCEPT ![o] = r.einfo]) /\ r.einfo \in Einfos
    /\ r.ja.ginfo = j.ginfo
    /\ \A s \in Segments : r.ja.info[s].type = "ginfo" => r.ja.info[s] = j.info[s]

\* A value gets the next chunk.
LEMMA NextChunk ==
    ASSUME NEW j, NEW E, Sound(j, E), NEW o \in Owners, ~HasSpace(E[o]),
           NEW size \in Nat, element_type(size) = "chunk",
           NEW u, u = variation(size), ChunkAt(j, u, j.free_elements[u]),
           \A p \in Owners : IsChunk(E[p], u) =>
                ~(E[p].seg = j.free_elements[u].seg /\ E[p].pos >= j.free_elements[u].pos),
           \A s \in Segments, n \in Nat : IsRecord(j, u, s, n) =>
                ~(/\ j.ginfo[s].recs[n].seg = j.free_elements[u].seg
                  /\ j.ginfo[s].recs[n].pos >= j.free_elements[u].pos),
           NEW r, r = alloc_chunk_free(j, u, size)
    PROVE  Handed(j, E, o, r)
  <1> DEFINE f == j.free_elements[u]
             c == chunk_size(u)
             next == f.pos + c
             k == r.ja
             e == r.einfo
             F == [E EXCEPT ![o] = e]
  <1>1. j \in Columns /\ E \in [Owners -> Einfos] /\ u \in Variations /\ size # 0
    BY VariationType DEF Sound
  <1>2. f \in Places /\ f.seg \in Segments /\ f.pos \in Nat
    BY <1>1 DEF Columns, Places
  <1>3. c \in Nat \ {0} /\ SegmentSize % c = 0 /\ SegmentSize \in Nat
    BY <1>1, ChunkSizes, SizesType
  <1>4. f.pos % c = 0 /\ next <= SegmentSize /\ j.info[f.seg] = ChunkInfo(u)
    BY DEF ChunkAt
  <1>5. next % c = 0 /\ (next # SegmentSize => next + c <= SegmentSize)
    <2>1. c % c = 0
      BY <1>3
    <2>2. next % c = 0
      BY <1>2, <1>3, <1>4, <2>1, SumOfMultiples
    <2>3. next \in Int
      BY <1>2, <1>3
    <2> QED
      BY <1>3, <1>4, <2>2, <2>3, Apart
  <1>6. e = Normal(f.seg, f.pos, size)
    BY DEF alloc_chunk_free, Result
  <1>7. e.seg = f.seg /\ e.pos = f.pos /\ e.size = size /\ e.type = "normal"
    BY <1>6 DEF Normal, Einfo
  <1>8. IsChunk(e, u) /\ e \in Einfos
    BY <1>1, <1>2, <1>6 DEF Normal, Einfo, Einfos, IsChunk, HasSpace, Places
  <1>9. /\ k.info = j.info /\ k.element_segs = j.element_segs
        /\ k.curr_seg = j.curr_seg /\ k.curr_pos = j.curr_pos
        /\ k.free_elements = [j.free_elements EXCEPT ![u] =
                                IF next = SegmentSize THEN [seg |-> 0, pos |-> 0]
                                ELSE [seg |-> f.seg, pos |-> next]]
        /\ k.garbages = j.garbages
        /\ k.n_garbages = j.n_garbages /\ k.ginfo = j.ginfo
    BY <1>1 DEF alloc_chunk_free, Result, chunk_segment_use, Columns
  <1>10. k \in Columns
    <2>1. [seg |-> 0, pos |-> 0] \in Places /\ [seg |-> f.seg, pos |-> next] \in Places
      BY <1>2, <1>3, <1>4, SizesType DEF Places
    <2> QED
      BY <1>1, <2>1 DEF alloc_chunk_free, Result, chunk_segment_use, Columns
  <1>11. k.free_elements[u] = IF next = SegmentSize THEN [seg |-> 0, pos |-> 0]
                              ELSE [seg |-> f.seg, pos |-> next]
    BY <1>1, <1>9 DEF Columns
  <1>12. \A p \in Owners : p # o => F[p] = E[p]
    BY <1>1
  <1>13. F[o] = e /\ F \in [Owners -> Einfos]
    BY <1>1, <1>8
  <1>14. \A v : ~IsChunk(E[o], v) /\ ~IsSequential(E[o]) /\ ~IsHuge(E[o])
    BY DEF IsChunk, IsSequential, IsHuge
  <1>15. ~IsSequential(e) /\ ~IsHuge(e) /\ \A v : IsChunk(e, v) => v = u
    BY <1>7 DEF IsChunk, IsSequential, IsHuge
  <1> HIDE DEF k, e, F, f, c
  <1>16. Chunks(k, F)
    <2> SUFFICES ASSUME NEW v \in Variations
                 PROVE  ChunksInPlace(k, F, v) /\ ChunksApart(k, F, v) /\ ChunksKept(k, F, v)
      BY DEF Chunks
    <2>1. CASE v # u
      <3>1. SameChunks(j, k, E, F, v)
        BY <1>9, <1>12, <1>13, <1>14, <1>15, <2>1 DEF SameChunks, IsRecord
      <3>2. k.free_elements[v] = j.free_elements[v]
        BY <1>1, <1>9, <2>1 DEF Columns
      <3> QED
        BY <1>1, <1>10, <1>13, <3>1, <3>2, ChunksFrame DEF Sound, Chunks
    <2>2. CASE v = u
      <3>1. ChunksInPlace(j, E, u) /\ ChunksApart(j, E, u) /\ ChunksKept(j, E, u)
        BY <1>1 DEF Sound, Chunks
      <3>2. \A s \in Segments, n \in Nat : IsRecord(k, u, s, n) <=> IsRecord(j, u, s, n)
        BY <1>9 DEF IsRecord
      <3>3. \A p : ChunkAt(k, u, p) <=> ChunkAt(j, u, p)
        BY <1>9 DEF ChunkAt
      <3>4. \A p : p.pos \in Nat /\ ~(p.seg = f.seg /\ p.pos >= f.pos) => ~InRest(k, u, p)
        BY <1>2, <1>3, <1>11 DEF InRest
      <3>5. ~InRest(k, u, e)
        BY <1>2, <1>3, <1>7, <1>11 DEF InRest
      <3>6. ChunkAt(k, u, e)
        BY <1>7, <3>3 DEF ChunkAt, f
      <3>7. \A p \in Owners : E[p].pos \in Nat
        BY <1>1 DEF Einfos
      <3>8. \A s \in Segments, n \in Nat :
                IsRecord(j, u, s, n) => j.ginfo[s].recs[n].pos \in Nat
        BY <1>1, RecordType DEF Places
      <3>9. ChunksInPlace(k, F, u)
        <4>1. \A p \in Owners : IsChunk(F[p], u) => ChunkAt(k, u, F[p]) /\ ~InRest(k, u, F[p])
          BY <1>12, <1>13, <3>1, <3>3, <3>4, <3>5, <3>6, <3>7 DEF ChunksInPlace, f
        <4>2. \A s \in Segments, n \in Nat : IsRecord(k, u, s, n) =>
                ChunkAt(k, u, k.ginfo[s].recs[n]) /\ ~InRest(k, u, k.ginfo[s].recs[n])
          BY <1>9, <3>1, <3>2, <3>3, <3>4, <3>8 DEF ChunksInPlace, f
        <4>3. k.free_elements[u].seg # 0 => ChunkAt(k, u, k.free_elements[u])
          BY <1>4, <1>5, <1>9, <1>11 DEF ChunkAt, c
        <4> QED
          BY <4>1, <4>2, <4>3 DEF ChunksInPlace
      <3>10. ChunksApart(k, F, u)
        <4>1. \A p \in Owners : p # o /\ IsChunk(F[p], u) => ~Same(F[p], e) /\ ~Same(e, F[p])
          BY <1>2, <1>7, <1>12, <3>7 DEF Same, f
        <4>2. \A s \in Segments, n \in Nat : IsRecord(k, u, s, n) => ~Same(e, k.ginfo[s].recs[n])
          BY <1>2, <1>7, <1>9, <3>2, <3>8 DEF Same, f
        <4>3. \A p, q \in Owners :
                IsChunk(F[p], u) /\ IsChunk(F[q], u) /\ p # q => ~Same(F[p], F[q])
          BY <1>12, <1>13, <3>1, <4>1 DEF ChunksApart
        <4>4. \A p \in Owners, s \in Segments, n \in Nat :
                IsChunk(F[p], u) /\ IsRecord(k, u, s, n) => ~Same(F[p], k.ginfo[s].recs[n])
          BY <1>9, <1>12, <1>13, <3>1, <3>2, <4>2 DEF ChunksApart
        <4>5. \A s, t \in Segments, m, n \in Nat :
                IsRecord(k, u, s, m) /\ IsRecord(k, u, t, n) /\ <<s, m>> # <<t, n>> =>
                    ~Same(k.ginfo[s].recs[m], k.ginfo[t].recs[n])
          BY <1>9, <3>1, <3>2 DEF ChunksApart
        <4> QED
          BY <4>3, <4>4, <4>5 DEF ChunksApart
      <3>11. ChunksKept(k, F, u)
        <4> SUFFICES ASSUME NEW q \in [seg : Segments \ {0}, pos : 0 .. SegmentSize - 1],
                            k.info[q.seg] = ChunkInfo(u), q.pos % chunk_size(u) = 0
                     PROVE  \/ InRest(k, u, q)
                            \/ \E p \in Owners : IsChunk(F[p], u) /\ Same(F[p], q)
                            \/ \E s \in Segments, n \in Nat :
                                    IsRecord(k, u, s, n) /\ Same(k.ginfo[s].recs[n], q)
          BY DEF ChunksKept
        <4>1. CASE InRest(j, u, q) /\ q.pos = f.pos
          BY <1>7, <1>8, <1>13, <4>1 DEF InRest, Same, f
        <4>2. CASE InRest(j, u, q) /\ q.pos # f.pos
          <5>1. f.seg # 0 /\ q.seg = f.seg /\ f.pos < q.pos /\ q.pos \in Int /\ q.pos < SegmentSize
            BY <1>2, <4>2, SizesType DEF InRest, f
          <5>2. next <= q.pos
            BY <1>2, <1>3, <1>4, <5>1, Apart DEF c
          <5> QED
            BY <1>2, <1>3, <1>11, <5>1, <5>2 DEF InRest
        <4>3. CASE \E p \in Owners : IsChunk(E[p], u) /\ Same(E[p], q)
          BY <1>12, <1>14, <4>3
        <4>4. CASE \E s \in Segments, n \in Nat :
                        IsRecord(j, u, s, n) /\ Same(j.ginfo[s].recs[n], q)
          BY <1>9, <3>2, <4>4
        <4> QED
          BY <1>9, <3>1, <4>1, <4>2, <4>3, <4>4 DEF ChunksKept
      <3> QED
        BY <2>2, <3>9, <3>10, <3>11
    <2> QED
      BY <2>1, <2>2
  <1>17. Sequentials(k, F)
    <2>1. SameSequentials(j, k, E, F)
      BY <1>9, <1>12, <1>13, <1>14, <1>15 DEF SameSequentials
    <2> QED
      BY <1>1, <1>10, <1>13, <2>1, SequentialsFrame DEF Sound
  <1>18. Huges(k, F)
    <2>1. SameHuges(j, k, E, F)
      BY <1>9, <1>12, <1>13, <1>14, <1>15 DEF SameHuges
    <2> QED
      BY <2>1, HugesFrame DEF Sound
  <1>19. Lists(k)
    <2>1. SameLists(j, k)
      BY <1>9 DEF SameLists
    <2> QED
      BY <1>1, <1>10, <2>1, ListsFrame DEF Sound
  <1>20. Infos(k)
    <2>1. SameInfos(j, k)
      BY <1>1, <1>9, <1>10 DEF SameInfos
    <2> QED
      BY <1>1, <1>9, <1>10, <2>1, InfosFrame DEF Sound
  <1> QED
    BY <1>8, <1>9, <1>10, <1>13, <1>16, <1>17, <1>18, <1>19, <1>20 DEF Sound, k, e, F, Handed

LEMMA RecordsAre ==
    ASSUME NEW j \in Columns, NEW v
    PROVE  \A r : r \in Records(j, v) <=>
                    \E s \in Segments, n \in Nat : r = <<s, n>> /\ IsRecord(j, v, s, n)
  <1>1. \A s \in Segments : DOMAIN j.ginfo[s].recs = 1 .. Len(j.ginfo[s].recs)
    BY DEF Columns
  <1>2. \A s \in Segments : Len(j.ginfo[s].recs) \in Nat
    BY DEF Columns
  <1>3. \A s \in Segments : s \in GinfosOf(j, v) <=> j.info[s] = Info("ginfo", v)
    BY DEF GinfosOf
  <1>4. \A r : r \in Records(j, v) <=>
                \E s \in GinfosOf(j, v) : \E n \in DOMAIN j.ginfo[s].recs : r = <<s, n>>
    BY DEF Records
  <1>5. \A s \in GinfosOf(j, v) : s \in Segments
    BY DEF GinfosOf
  <1> QED
    BY <1>1, <1>2, <1>3, <1>4, <1>5 DEF IsRecord

LEMMA SameRecords ==
    ASSUME NEW j \in Columns, NEW k \in Columns, NEW v,
           \A s \in Segments, n \in Nat : IsRecord(k, v, s, n) <=> IsRecord(j, v, s, n)
    PROVE  Records(k, v) = Records(j, v)
  <1>1. \A r : r \in Records(k, v) <=> r \in Records(j, v)
    BY RecordsAre
  <1> QED
    BY <1>1

LEMMA SameList ==
    ASSUME NEW j, NEW k, NEW v, NEW l, IsList(j, v, l),
           k.garbages[v] = j.garbages[v],
           \A s \in Segments : k.info[s] = Info("ginfo", v) <=> j.info[s] = Info("ginfo", v),
           \A s \in Segments : j.info[s] = Info("ginfo", v) => k.ginfo[s].next = j.ginfo[s].next
    PROVE  IsList(k, v, l)
  <1>1. \A n \in 1 .. Len(l) : l[n] \in Segments /\ l[n] # 0 /\ j.info[l[n]] = Info("ginfo", v)
    BY DEF IsList
  <1> QED
    BY <1>1 DEF IsList

\* A free segment is added at the end of a list of garbage infos.
LEMMA GinfoSegment ==
    ASSUME NEW j, NEW E, Sound(j, E), NEW u \in Variations,
           NEW seg \in Segments, j.info[seg] = Off,
           NEW k, k = ginfo_segment_new(j, u, Garbage(j, u), seg)
    PROVE  /\ Sound(k, E)
           /\ k.info[seg] = Info("ginfo", u) /\ k.ginfo[seg].recs = <<>>
           /\ \A s \in Segments \ {seg} :
                k.info[s] = j.info[s] /\ k.ginfo[s].recs = j.ginfo[s].recs
  <1>1. j \in Columns /\ E \in [Owners -> Einfos]
    BY DEF Sound
  <1>2. PICK l : IsList(j, u, l)
    BY DEF Sound, Lists
  <1>3. Garbage(j, u) = l
    BY <1>2, GarbageIs
  <1>4. /\ l \in Seq(Segments \ {0}) /\ Len(l) \in Nat
        /\ \A n \in 1 .. Len(l) : /\ l[n] \in Segments /\ l[n] # 0
                                  /\ j.info[l[n]] = Info("ginfo", u) /\ l[n] # seg
    BY <1>2, InfoKinds DEF IsList
  <1> DEFINE i == [j.info EXCEPT ![seg] = Info("ginfo", u)]
             g == [j.ginfo EXCEPT ![seg] = NoGarbage]
             a == [j EXCEPT !.info[seg] = Info("ginfo", u), !.ginfo[seg] = NoGarbage]
  <1>5. Info("ginfo", u) \in [type : Kinds, value : Nat]
    BY SizesType, InfoKinds DEF Variations, Kinds
  <1>6. NoGarbage \in [recs : Seq(Places), next : Segments]
    BY SizesType DEF NoGarbage
  <1>7. a \in Columns /\ a.info = i /\ a.ginfo = g /\ a.garbages = j.garbages
        /\ a.element_segs = j.element_segs /\ a.curr_seg = j.curr_seg /\ a.curr_pos = j.curr_pos
        /\ a.free_elements = j.free_elements /\ a.n_garbages = j.n_garbages
    BY <1>1, <1>5, <1>6 DEF Columns
  <1>8. k = IF Len(l) = 0 THEN [a EXCEPT !.garbages[u] = seg]
            ELSE [a EXCEPT !.ginfo[l[Len(l)]].next = seg]
    <2>1. k = IF Len(l) + 1 = 1 THEN [a EXCEPT !.garbages[u] = seg]
              ELSE [a EXCEPT !.ginfo[l[Len(l) + 1 - 1]].next = seg]
      BY <1>3 DEF ginfo_segment_new, link
    <2>2. Len(l) + 1 - 1 = Len(l) /\ (Len(l) + 1 = 1 <=> Len(l) = 0)
      BY <1>4
    <2> QED
      BY <2>1, <2>2
  <1>9. Len(l) # 0 => Len(l) \in 1 .. Len(l) /\ l[Len(l)] \in Segments
    BY <1>4
  <1> DEFINE Ginfos == [recs : Seq(Places), next : Segments]
  <1>9a. /\ i \in [Segments -> [type : Kinds, value : Nat]]
         /\ \A s \in Segments : i[s] = IF s = seg THEN Info("ginfo", u) ELSE j.info[s]
    BY <1>1, <1>5 DEF Columns
  <1>9b. /\ g \in [Segments -> Ginfos]
         /\ \A s \in Segments : g[s] = IF s = seg THEN NoGarbage ELSE j.ginfo[s]
    BY <1>1, <1>6 DEF Columns
  <1>9c. j.garbages \in [Variations -> Segments] /\ \A s \in Segments : j.ginfo[s] \in Ginfos
    BY <1>1 DEF Columns
  <1> HIDE DEF a, i, g
  <1>10. /\ k \in Columns /\ k.info = i
         /\ k.garbages = IF Len(l) = 0 THEN [j.garbages EXCEPT ![u] = seg] ELSE j.garbages
         /\ k.ginfo = IF Len(l) = 0 THEN g ELSE [g EXCEPT ![l[Len(l)]].next = seg]
         /\ k.element_segs = j.element_segs /\ k.curr_seg = j.curr_seg
         /\ k.curr_pos = j.curr_pos
         /\ k.free_elements = j.free_elements /\ k.n_garbages = j.n_garbages
    <2>1. CASE Len(l) = 0
      <3>1. k = [a EXCEPT !.garbages[u] = seg]
        BY <1>8, <2>1
      <3>2. [a.garbages EXCEPT ![u] = seg] \in [Variations -> Segments]
        BY <1>7, <1>9c
      <3>3. k = [a EXCEPT !.garbages = [a.garbages EXCEPT ![u] = seg]]
        BY <3>1
      <3> QED
        BY <1>7, <2>1, <3>2, <3>3 DEF Columns
    <2>2. CASE Len(l) # 0
      <3>1. k = [a EXCEPT !.ginfo[l[Len(l)]].next = seg]
        BY <1>8, <2>2
      <3> DEFINE h == [g EXCEPT ![l[Len(l)]].next = seg]
      <3>2. h \in [Segments -> Ginfos]
        BY <1>9, <1>9b, <2>2
      <3>3. k = [a EXCEPT !.ginfo = h]
        BY <1>7, <3>1
      <3>4. k.ginfo = h
        BY <1>7, <3>3 DEF Columns
      <3> HIDE DEF h
      <3>5. k \in Columns
        BY <1>7, <3>2, <3>3 DEF Columns
      <3>6. /\ k.info = i /\ k.garbages = j.garbages
            /\ k.element_segs = j.element_segs /\ k.curr_seg = j.curr_seg
            /\ k.curr_pos = j.curr_pos
            /\ k.free_elements = j.free_elements /\ k.n_garbages = j.n_garbages
        BY <1>7, <3>3 DEF Columns
      <3> QED
        BY <2>2, <3>4, <3>5, <3>6 DEF h
    <2> QED
      BY <2>1, <2>2
  <1>11. /\ \A s \in Segments : k.info[s] = IF s = seg THEN Info("ginfo", u) ELSE j.info[s]
         /\ Info("ginfo", u).type = "ginfo" /\ j.info[seg].type = "off"
    BY <1>10, <1>9a, InfoKinds
  <1>12. \A s \in Segments :
            /\ k.ginfo[s].recs = IF s = seg THEN <<>> ELSE j.ginfo[s].recs
            /\ k.ginfo[s].next = IF Len(l) # 0 /\ s = l[Len(l)] THEN seg
                                 ELSE IF s = seg THEN 0 ELSE j.ginfo[s].next
    <2> SUFFICES ASSUME NEW s \in Segments
                 PROVE  /\ k.ginfo[s].recs = IF s = seg THEN <<>> ELSE j.ginfo[s].recs
                        /\ k.ginfo[s].next = IF Len(l) # 0 /\ s = l[Len(l)] THEN seg
                                             ELSE IF s = seg THEN 0 ELSE j.ginfo[s].next
      OBVIOUS
    <2>1. /\ g[s].recs = IF s = seg THEN <<>> ELSE j.ginfo[s].recs
          /\ g[s].next = IF s = seg THEN 0 ELSE j.ginfo[s].next
      BY <1>9b DEF NoGarbage
    <2>2. CASE Len(l) = 0
      BY <1>10, <2>1, <2>2
    <2>3. CASE Len(l) # 0 /\ s # l[Len(l)]
      <3>1. k.ginfo[s] = g[s]
        BY <1>9, <1>10, <1>9b, <2>3
      <3> QED
        BY <2>1, <2>3, <3>1
    <2>4. CASE Len(l) # 0 /\ s = l[Len(l)]
      <3>1. k.ginfo[s] = [g[s] EXCEPT !.next = seg] /\ s # seg
        BY <1>4, <1>9, <1>10, <1>9b, <2>4
      <3>2. g[s] \in Ginfos
        BY <1>9b
      <3> QED
        BY <2>1, <2>4, <3>1, <3>2
    <2> QED
      BY <2>2, <2>3, <2>4
  <1>13. \A v \in Variations : \A s \in Segments, n \in Nat :
            /\ IsRecord(k, v, s, n) <=> IsRecord(j, v, s, n)
            /\ IsRecord(j, v, s, n) => k.ginfo[s].recs[n] = j.ginfo[s].recs[n]
    <2> SUFFICES ASSUME NEW v \in Variations, NEW s \in Segments, NEW n \in Nat
                 PROVE  /\ IsRecord(k, v, s, n) <=> IsRecord(j, v, s, n)
                        /\ IsRecord(j, v, s, n) => k.ginfo[s].recs[n] = j.ginfo[s].recs[n]
      OBVIOUS
    <2>1. CASE s = seg
      <3>1. ~IsRecord(j, v, s, n)
        BY <2>1, InfoKinds DEF IsRecord
      <3>2. Len(k.ginfo[s].recs) = 0
        BY <1>12, <2>1
      <3> QED
        BY <3>1, <3>2 DEF IsRecord
    <2>2. CASE s # seg
      BY <1>11, <1>12, <2>2 DEF IsRecord
    <2> QED
      BY <2>1, <2>2
  <1>14. Chunks(k, E)
    <2> SUFFICES ASSUME NEW v \in Variations
                 PROVE  ChunksInPlace(k, E, v) /\ ChunksApart(k, E, v) /\ ChunksKept(k, E, v)
      BY DEF Chunks
    <2>1. SameChunks(j, k, E, E, v)
      BY <1>11, <1>13, InfoKinds DEF SameChunks
    <2> QED
      BY <1>1, <1>10, <2>1, ChunksFrame DEF Sound, Chunks
  <1>15. Sequentials(k, E)
    <2>1. SameSequentials(j, k, E, E)
      BY <1>10, <1>11 DEF SameSequentials
    <2> QED
      BY <1>1, <1>10, <2>1, SequentialsFrame DEF Sound
  <1>16. Huges(k, E)
    <2>1. SameHuges(j, k, E, E)
      BY <1>11 DEF SameHuges
    <2> QED
      BY <2>1, HugesFrame DEF Sound
  <1>17. Lists(k)
    <2>1. ASSUME NEW v \in Variations
          PROVE  /\ IsFiniteSet(Records(k, v)) /\ k.n_garbages[v] = Cardinality(Records(k, v))
      <3>1. Records(k, v) = Records(j, v)
        BY <1>1, <1>10, <1>13, SameRecords
      <3> QED
        BY <1>10, <3>1 DEF Sound, Lists
    <2>2. ASSUME NEW v \in Variations, v # u
          PROVE  \E m : IsList(k, v, m)
      <3>1. PICK m : IsList(j, v, m)
        BY DEF Sound, Lists
      <3>2. k.garbages[v] = j.garbages[v]
        BY <1>1, <1>10, <2>2 DEF Columns
      <3>3. \A s \in Segments : k.info[s] = Info("ginfo", v) <=> j.info[s] = Info("ginfo", v)
        BY <1>11, <2>2, InfoKinds
      <3>4. \A s \in Segments : j.info[s] = Info("ginfo", v) => k.ginfo[s].next = j.ginfo[s].next
        BY <1>4, <1>9, <1>11, <1>12, <2>2, InfoKinds
      <3> QED
        BY <3>1, <3>2, <3>3, <3>4, SameList
    <2>3. \E m : IsList(k, u, m)
      <3>1. CASE seg = 0
        <4>1. k.garbages[u] = j.garbages[u]
          BY <1>1, <1>2, <1>10, <3>1 DEF IsList, Columns
        <4>2. \A n \in 1 .. Len(l) : k.ginfo[l[n]].next = j.ginfo[l[n]].next
          BY <1>2, <1>4, <1>9, <1>12, <3>1 DEF IsList
        <4> QED
          BY <1>2, <1>4, <1>11, <3>1, <4>1, <4>2 DEF IsList
      <3>2. CASE seg # 0
        <4> DEFINE m == Append(l, seg)
        <4>1. /\ m \in Seq(Segments \ {0}) /\ Len(m) = Len(l) + 1
              /\ \A n \in 1 .. Len(l) : m[n] = l[n]
              /\ m[Len(l) + 1] = seg
          BY <1>4, <3>2
        <4> HIDE DEF m
        <4>2. \A n, p \in 1 .. Len(m) : m[n] = m[p] => n = p
          BY <1>2, <1>4, <4>1 DEF IsList
        <4>3. ASSUME NEW s \in Segments \ {0}
              PROVE  k.info[s] = Info("ginfo", u) <=> \E n \in 1 .. Len(m) : m[n] = s
          <5>1. CASE s = seg
            BY <1>4, <1>11, <4>1, <5>1
          <5>2. CASE s # seg
            <6>1. (\E n \in 1 .. Len(m) : m[n] = s) <=> (\E n \in 1 .. Len(l) : l[n] = s)
              BY <1>4, <4>1, <5>2
            <6> QED
              BY <1>2, <1>11, <5>2, <6>1 DEF IsList
          <5> QED
            BY <5>1, <5>2
        <4>4. k.garbages[u] = m[1] /\ Len(m) # 0
          <5>1. CASE Len(l) = 0
            BY <1>10, <1>9c, <4>1, <5>1
          <5>2. CASE Len(l) # 0
            BY <1>2, <1>4, <1>10, <4>1, <5>2 DEF IsList
          <5> QED
            BY <5>1, <5>2
        <4>5. ASSUME NEW n \in 1 .. Len(m)
              PROVE  k.ginfo[m[n]].next = IF n = Len(m) THEN 0 ELSE m[n + 1]
          <5>1. CASE n = Len(l) + 1
            <6>1. m[n] = seg /\ (Len(l) # 0 => seg # l[Len(l)])
              BY <1>4, <1>9, <4>1, <5>1
            <6> QED
              BY <1>12, <4>1, <5>1, <6>1
          <5>2. CASE n = Len(l)
            BY <1>4, <1>12, <4>1, <5>2
          <5>3. CASE n < Len(l)
            <6>1. n \in 1 .. Len(l) /\ l[n] # l[Len(l)] /\ n + 1 \in 1 .. Len(l)
              BY <1>2, <1>4, <5>3 DEF IsList
            <6>2. j.ginfo[l[n]].next = l[n + 1]
              BY <1>2, <5>3, <6>1 DEF IsList
            <6>3. k.ginfo[l[n]].next = j.ginfo[l[n]].next
              BY <1>4, <1>12, <6>1
            <6>4. m[n] = l[n] /\ m[n + 1] = l[n + 1] /\ n # Len(m)
              BY <1>4, <4>1, <5>3, <6>1
            <6> QED
              BY <6>2, <6>3, <6>4
          <5> QED
            BY <1>4, <4>1, <5>1, <5>2, <5>3
        <4>6. IsList(k, u, m)
          BY <4>1, <4>2, <4>3, <4>4, <4>5 DEF IsList
        <4> QED
          BY <4>6
      <3> QED
        BY <3>1, <3>2
    <2>4. \A s \in Segments :
            k.info[s].type = "ginfo" => Len(k.ginfo[s].recs) <= GarbagesInSegment
      BY <1>11, <1>12, SizesType DEF Sound, Lists
    <2> QED
      BY <2>1, <2>2, <2>3, <2>4 DEF Lists
  <1>18. Infos(k)
    <2>1. SameInfos(j, k)
      BY <1>1, <1>10, <1>11 DEF SameInfos
    <2> QED
      BY <1>1, <1>10, <1>11, <2>1, InfosFrame DEF Sound
  <1>19. Sound(k, E)
    BY <1>1, <1>10, <1>14, <1>15, <1>16, <1>17, <1>18 DEF Sound
  <1> QED
    BY <1>11, <1>12, <1>19

\* The chunk of a value becomes garbage.
With(E, o, x) == [E EXCEPT ![o] = x]

LEMMA Discarded ==
    ASSUME NEW j, NEW E, Sound(j, E), NEW u \in Variations,
           NEW o \in Owners, IsChunk(E[o], u), NEW x \in Einfos, ~HasSpace(x),
           NEW seg \in Segments, j.info[seg] = Info("ginfo", u),
           Len(j.ginfo[seg].recs) < GarbagesInSegment,
           NEW place, place = [seg |-> E[o].seg, pos |-> E[o].pos],
           NEW k, k = ginfo_segment_use(j, u, seg, place)
    PROVE  /\ Sound(k, With(E, o, x))
           /\ k.info = j.info /\ Len(k.ginfo[seg].recs) # 0
           /\ Len(k.ginfo[seg].recs) = Len(j.ginfo[seg].recs) + 1
           /\ \A s \in Segments \ {seg} : k.ginfo[s].recs = j.ginfo[s].recs
  <1> DEFINE F == With(E, o, x)
             recs == j.ginfo[seg].recs
             Ginfos == [recs : Seq(Places), next : Segments]
             h == [j.ginfo EXCEPT ![seg].recs = Append(@, place)]
             c == [j.n_garbages EXCEPT ![u] = @ + 1]
  <1>1. j \in Columns /\ E \in [Owners -> Einfos]
    BY DEF Sound
  <1>2. place \in Places /\ place.seg = E[o].seg /\ place.pos = E[o].pos
    BY <1>1 DEF Places, Einfos
  <1>3. j.ginfo \in [Segments -> Ginfos] /\ j.n_garbages \in [Variations -> Int]
    BY <1>1 DEF Columns
  <1>4. /\ recs \in Seq(Places) /\ Append(recs, place) \in Seq(Places)
        /\ Len(recs) \in Nat /\ Len(Append(recs, place)) = Len(recs) + 1
        /\ \A n \in 1 .. Len(recs) : Append(recs, place)[n] = recs[n]
        /\ Append(recs, place)[Len(recs) + 1] = place
    <2>1. recs \in Seq(Places)
      BY <1>3
    <2> HIDE DEF recs
    <2> QED
      BY <1>2, <2>1
  <1>5. h \in [Segments -> Ginfos]
    BY <1>3, <1>4
  <1>6. \A s \in Segments : /\ h[s].recs = IF s = seg THEN Append(recs, place) ELSE j.ginfo[s].recs
                            /\ h[s].next = j.ginfo[s].next
    BY <1>3
  <1>7. k = [j EXCEPT !.ginfo = h, !.n_garbages = c]
    BY <1>1 DEF ginfo_segment_use, Columns
  <1>8. c \in [Variations -> Int] /\ \A v \in Variations :
            c[v] = IF v = u THEN j.n_garbages[u] + 1 ELSE j.n_garbages[v]
    BY <1>3
  <1> HIDE DEF h, c, recs
  <1>9. /\ k \in Columns /\ k.info = j.info /\ k.element_segs = j.element_segs
        /\ k.curr_seg = j.curr_seg /\ k.curr_pos = j.curr_pos
        /\ k.free_elements = j.free_elements /\ k.garbages = j.garbages
        /\ k.n_garbages = c /\ k.ginfo = h
    BY <1>1, <1>5, <1>7, <1>8 DEF Columns
  <1>10. \A p \in Owners : p # o => F[p] = E[p]
    BY <1>1 DEF With
  <1>11. F[o] = x /\ F \in [Owners -> Einfos]
    BY <1>1 DEF With
  <1> HIDE DEF F
  <1>12. \A v : ~IsChunk(x, v) /\ ~IsSequential(x) /\ ~IsHuge(x)
    BY DEF IsChunk, IsSequential, IsHuge
  <1>13. ~IsSequential(E[o]) /\ ~IsHuge(E[o]) /\ \A v : IsChunk(E[o], v) => v = u
    BY DEF IsChunk, IsSequential, IsHuge
  <1>14. \A v \in Variations : v # u =>
            \A s \in Segments, n \in Nat :
                /\ IsRecord(k, v, s, n) <=> IsRecord(j, v, s, n)
                /\ IsRecord(j, v, s, n) => k.ginfo[s].recs[n] = j.ginfo[s].recs[n]
    <2> SUFFICES ASSUME NEW v \in Variations, v # u, NEW s \in Segments, NEW n \in Nat
                 PROVE  /\ IsRecord(k, v, s, n) <=> IsRecord(j, v, s, n)
                        /\ IsRecord(j, v, s, n) => k.ginfo[s].recs[n] = j.ginfo[s].recs[n]
      OBVIOUS
    <2>1. CASE s = seg
      <3>1. j.info[s] # Info("ginfo", v)
        BY <2>1, InfoKinds
      <3> QED
        BY <1>9, <3>1 DEF IsRecord
    <2>2. CASE s # seg
      BY <1>6, <1>9, <2>2 DEF IsRecord
    <2> QED
      BY <2>1, <2>2
  <1>15. \A s \in Segments, n \in Nat :
            /\ IsRecord(k, u, s, n) <=>
                    IsRecord(j, u, s, n) \/ (s = seg /\ n = Len(recs) + 1)
            /\ IsRecord(j, u, s, n) =>
                    /\ k.ginfo[s].recs[n] = j.ginfo[s].recs[n]
                    /\ ~(s = seg /\ n = Len(recs) + 1)
    <2> SUFFICES ASSUME NEW s \in Segments, NEW n \in Nat
                 PROVE  /\ IsRecord(k, u, s, n) <=>
                                IsRecord(j, u, s, n) \/ (s = seg /\ n = Len(recs) + 1)
                        /\ IsRecord(j, u, s, n) =>
                                /\ k.ginfo[s].recs[n] = j.ginfo[s].recs[n]
                                /\ ~(s = seg /\ n = Len(recs) + 1)
      OBVIOUS
    <2>1. CASE s = seg
      <3>1. k.ginfo[s].recs = Append(recs, place) /\ j.ginfo[s].recs = recs
        BY <1>6, <1>9, <2>1 DEF recs
      <3> QED
        BY <1>4, <1>9, <2>1, <3>1 DEF IsRecord
    <2>2. CASE s # seg
      BY <1>6, <1>9, <2>2 DEF IsRecord
    <2> QED
      BY <2>1, <2>2
  <1>16. k.ginfo[seg].recs[Len(recs) + 1] = place
    BY <1>4, <1>6, <1>9
  <1>17. Chunks(k, F)
    <2> SUFFICES ASSUME NEW v \in Variations
                 PROVE  ChunksInPlace(k, F, v) /\ ChunksApart(k, F, v) /\ ChunksKept(k, F, v)
      BY DEF Chunks
    <2>1. CASE v # u
      <3>1. SameChunks(j, k, E, F, v)
        BY <1>9, <1>10, <1>11, <1>12, <1>13, <1>14, <2>1 DEF SameChunks
      <3> QED
        BY <1>1, <1>9, <1>11, <3>1, ChunksFrame DEF Sound, Chunks
    <2>2. CASE v = u
      <3>1. ChunksInPlace(j, E, u) /\ ChunksApart(j, E, u) /\ ChunksKept(j, E, u)
        BY DEF Sound, Chunks
      <3>2. \A p : (ChunkAt(k, u, p) <=> ChunkAt(j, u, p)) /\ (InRest(k, u, p) <=> InRest(j, u, p))
        BY <1>9 DEF ChunkAt, InRest
      <3>3. ChunkAt(j, u, place) /\ ~InRest(j, u, place)
        BY <1>2, <3>1 DEF ChunksInPlace, ChunkAt, InRest
      <3>4. \A p \in Owners : IsChunk(F[p], u) => p # o /\ F[p] = E[p]
        BY <1>10, <1>11, <1>12
      <3>5. ChunksInPlace(k, F, u)
        <4>1. \A p \in Owners : IsChunk(F[p], u) => ChunkAt(k, u, F[p]) /\ ~InRest(k, u, F[p])
          BY <3>1, <3>2, <3>4 DEF ChunksInPlace
        <4>2. \A s \in Segments, n \in Nat : IsRecord(k, u, s, n) =>
                ChunkAt(k, u, k.ginfo[s].recs[n]) /\ ~InRest(k, u, k.ginfo[s].recs[n])
          BY <1>15, <1>16, <3>1, <3>2, <3>3 DEF ChunksInPlace
        <4>3. k.free_elements[u].seg # 0 => ChunkAt(k, u, k.free_elements[u])
          BY <1>9, <3>1, <3>2 DEF ChunksInPlace
        <4> QED
          BY <4>1, <4>2, <4>3 DEF ChunksInPlace
      <3>6. ChunksApart(k, F, u)
        <4>1. \A p \in Owners : IsChunk(F[p], u) => ~Same(F[p], place)
          BY <1>2, <3>1, <3>4 DEF ChunksApart, Same
        <4>2. \A s \in Segments, n \in Nat :
                IsRecord(j, u, s, n) => /\ ~Same(j.ginfo[s].recs[n], place)
                                        /\ ~Same(place, j.ginfo[s].recs[n])
          BY <1>2, <3>1 DEF ChunksApart, Same
        <4>3. \A p, q \in Owners :
                IsChunk(F[p], u) /\ IsChunk(F[q], u) /\ p # q => ~Same(F[p], F[q])
          BY <3>1, <3>4 DEF ChunksApart
        <4>4. \A p \in Owners, s \in Segments, n \in Nat :
                IsChunk(F[p], u) /\ IsRecord(k, u, s, n) => ~Same(F[p], k.ginfo[s].recs[n])
          BY <1>15, <1>16, <3>1, <3>4, <4>1 DEF ChunksApart
        <4>5. \A s, t \in Segments, m, n \in Nat :
                IsRecord(k, u, s, m) /\ IsRecord(k, u, t, n) /\ <<s, m>> # <<t, n>> =>
                    ~Same(k.ginfo[s].recs[m], k.ginfo[t].recs[n])
          BY <1>15, <1>16, <3>1, <4>2 DEF ChunksApart
        <4> QED
          BY <4>3, <4>4, <4>5 DEF ChunksApart
      <3>7. ChunksKept(k, F, u)
        <4> SUFFICES ASSUME NEW q \in [seg : Segments \ {0}, pos : 0 .. SegmentSize - 1],
                            k.info[q.seg] = ChunkInfo(u), q.pos % chunk_size(u) = 0
                     PROVE  \/ InRest(k, u, q)
                            \/ \E p \in Owners : IsChunk(F[p], u) /\ Same(F[p], q)
                            \/ \E s \in Segments, n \in Nat :
                                    IsRecord(k, u, s, n) /\ Same(k.ginfo[s].recs[n], q)
          BY DEF ChunksKept
        <4>1. CASE InRest(j, u, q)
          BY <3>2, <4>1
        <4>2. CASE \E p \in Owners : IsChunk(E[p], u) /\ Same(E[p], q)
          <5>1. PICK p \in Owners : IsChunk(E[p], u) /\ Same(E[p], q)
            BY <4>2
          <5>2. CASE p = o
            <6>1. Same(place, q) /\ Len(recs) + 1 \in Nat
              BY <1>2, <1>4, <5>1, <5>2 DEF Same
            <6> QED
              BY <1>15, <1>16, <6>1
          <5>3. CASE p # o
            BY <1>10, <5>1, <5>3
          <5> QED
            BY <5>2, <5>3
        <4>3. CASE \E s \in Segments, n \in Nat :
                        IsRecord(j, u, s, n) /\ Same(j.ginfo[s].recs[n], q)
          BY <1>15, <4>3
        <4> QED
          BY <1>9, <3>1, <4>1, <4>2, <4>3 DEF ChunksKept
      <3> QED
        BY <2>2, <3>5, <3>6, <3>7
    <2> QED
      BY <2>1, <2>2
  <1>18. Sequentials(k, F)
    <2>1. SameSequentials(j, k, E, F)
      BY <1>9, <1>10, <1>11, <1>12, <1>13 DEF SameSequentials
    <2> QED
      BY <1>1, <1>9, <1>11, <2>1, SequentialsFrame DEF Sound
  <1>19. Huges(k, F)
    <2>1. SameHuges(j, k, E, F)
      BY <1>9, <1>10, <1>11, <1>12, <1>13 DEF SameHuges
    <2> QED
      BY <2>1, HugesFrame DEF Sound
  <1>20. Lists(k)
    <2>1. ASSUME NEW v \in Variations
          PROVE  \E l : IsList(k, v, l)
      <3>1. PICK l : IsList(j, v, l)
        BY DEF Sound, Lists
      <3> QED
        BY <1>6, <1>9, <3>1, SameList
    <2>2. ASSUME NEW v \in Variations, v # u
          PROVE  IsFiniteSet(Records(k, v)) /\ k.n_garbages[v] = Cardinality(Records(k, v))
      <3>1. Records(k, v) = Records(j, v)
        BY <1>1, <1>9, <1>14, <2>2, SameRecords
      <3> QED
        BY <1>8, <1>9, <2>2, <3>1 DEF Sound, Lists
    <2>3. IsFiniteSet(Records(k, u)) /\ k.n_garbages[u] = Cardinality(Records(k, u))
      <3> DEFINE r == <<seg, Len(recs) + 1>>
      <3>1. IsFiniteSet(Records(j, u)) /\ j.n_garbages[u] = Cardinality(Records(j, u))
        BY DEF Sound, Lists
      <3>2. r \notin Records(j, u)
        <4>1. ASSUME NEW s \in Segments, NEW n \in Nat, r = <<s, n>>, IsRecord(j, u, s, n)
              PROVE  FALSE
          BY <1>15, <4>1
        <4> QED
          BY <1>1, <4>1, RecordsAre
      <3>3. Records(k, u) = Records(j, u) \cup {r}
        <4>1. Len(recs) + 1 \in Nat
          BY <1>4
        <4>2. ASSUME NEW y
              PROVE  y \in Records(k, u) <=> y \in Records(j, u) \/ y = r
          <5>1. y \in Records(k, u) <=>
                    \E s \in Segments, n \in Nat : y = <<s, n>> /\ IsRecord(k, u, s, n)
            BY <1>9, RecordsAre
          <5>2. y \in Records(j, u) <=>
                    \E s \in Segments, n \in Nat : y = <<s, n>> /\ IsRecord(j, u, s, n)
            BY <1>1, RecordsAre
          <5> QED
            BY <1>15, <4>1, <5>1, <5>2
        <4> QED
          BY <4>2
      <3> HIDE DEF r
      <3>4. /\ IsFiniteSet(Records(j, u) \cup {r})
            /\ Cardinality(Records(j, u) \cup {r}) = Cardinality(Records(j, u)) + 1
        BY <3>1, <3>2, FS_AddElement
      <3> QED
        BY <1>8, <1>9, <3>1, <3>3, <3>4
    <2>4. \A s \in Segments :
            k.info[s].type = "ginfo" => Len(k.ginfo[s].recs) <= GarbagesInSegment
      <3>1. \A s \in Segments \ {seg} : k.ginfo[s].recs = j.ginfo[s].recs
        BY <1>6, <1>9
      <3>2. Len(k.ginfo[seg].recs) <= GarbagesInSegment
        <4>1. k.ginfo[seg].recs = Append(recs, place)
          BY <1>6, <1>9
        <4>2. Len(recs) < GarbagesInSegment
          BY DEF recs
        <4> QED
          BY <1>4, <4>1, <4>2, SizesType
      <3> QED
        BY <1>9, <3>1, <3>2 DEF Sound, Lists
    <2> QED
      BY <2>1, <2>2, <2>3, <2>4 DEF Lists
  <1>21. Infos(k)
    <2>1. SameInfos(j, k)
      BY <1>1, <1>9 DEF SameInfos
    <2> QED
      BY <1>1, <1>9, <2>1, InfosFrame DEF Sound
  <1>22. /\ Len(k.ginfo[seg].recs) # 0
         /\ \A s \in Segments \ {seg} : k.ginfo[s].recs = j.ginfo[s].recs
    <2>1. k.ginfo[seg].recs = Append(recs, place)
      BY <1>6, <1>9
    <2> QED
      BY <1>4, <1>6, <1>9, <2>1
  <1>23. Len(k.ginfo[seg].recs) = Len(j.ginfo[seg].recs) + 1
    <2>1. k.ginfo[seg].recs = Append(recs, place)
      BY <1>6, <1>9
    <2>2. Len(k.ginfo[seg].recs) = Len(recs) + 1
      BY <1>4, <2>1
    <2> QED
      BY <2>2 DEF recs
  <1> QED
    BY <1>9, <1>11, <1>17, <1>18, <1>19, <1>20, <1>21, <1>22, <1>23 DEF Sound, F

\* A value gets the first garbage chunk of a segment.
Reused(j, k, E, o, e, seg) ==
    /\ Sound(k, [E EXCEPT ![o] = e]) /\ e \in Einfos
    /\ k.info = j.info /\ k.garbages = j.garbages
    /\ \A s \in Segments : k.ginfo[s].next = j.ginfo[s].next
    /\ \A s \in Segments \ {seg} : k.ginfo[s].recs = j.ginfo[s].recs
    /\ Len(k.ginfo[seg].recs) = Len(j.ginfo[seg].recs) - 1

LEMMA Recycled ==
    ASSUME NEW j, NEW E, Sound(j, E), NEW o \in Owners, ~HasSpace(E[o]),
           NEW size \in Nat, element_type(size) = "chunk", NEW u, u = variation(size),
           NEW seg \in Segments, j.info[seg] = Info("ginfo", u), Len(j.ginfo[seg].recs) # 0,
           NEW place, place = Head(j.ginfo[seg].recs),
           NEW e, e = Normal(place.seg, place.pos, size),
           NEW k, k = chunk_segment_reuse(j, u, seg)
    PROVE  Reused(j, k, E, o, e, seg)
  <1> DEFINE F == [E EXCEPT ![o] = e]
             recs == j.ginfo[seg].recs
             Ginfos == [recs : Seq(Places), next : Segments]
             h == [j.ginfo EXCEPT ![seg].recs = Tail(@)]
             c == [j.n_garbages EXCEPT ![u] = @ - 1]
             from == [s \in Segments |-> [n \in Nat |-> IF s = seg THEN n + 1 ELSE n]]
             one == 1
  <1>1. j \in Columns /\ E \in [Owners -> Einfos] /\ u \in Variations /\ size # 0
    BY VariationType DEF Sound
  <1>2. j.ginfo \in [Segments -> Ginfos] /\ j.n_garbages \in [Variations -> Int]
    BY <1>1 DEF Columns
  <1>3. /\ recs \in Seq(Places) /\ recs # <<>> /\ Tail(recs) \in Seq(Places)
        /\ Len(recs) \in Nat /\ Len(Tail(recs)) = Len(recs) - 1 /\ place = recs[1]
        /\ 1 \in 1 .. Len(recs) /\ place \in Places
        /\ \A n \in 1 .. Len(recs) - 1 : Tail(recs)[n] = recs[n + 1]
    <2>1. recs \in Seq(Places) /\ Len(recs) # 0 /\ place = Head(recs)
      BY <1>2
    <2> HIDE DEF recs
    <2> QED
      BY <2>1
  <1>4. h \in [Segments -> Ginfos]
    BY <1>2, <1>3
  <1>5. \A s \in Segments : /\ h[s].recs = IF s = seg THEN Tail(recs) ELSE j.ginfo[s].recs
                            /\ h[s].next = j.ginfo[s].next
    BY <1>2
  <1>6. k = [j EXCEPT !.ginfo = h, !.n_garbages = c]
    BY <1>1 DEF chunk_segment_reuse, Columns
  <1>7. c \in [Variations -> Int] /\ \A v \in Variations :
            c[v] = IF v = u THEN j.n_garbages[u] - 1 ELSE j.n_garbages[v]
    BY <1>1, <1>2
  <1> HIDE DEF h, c, recs
  <1>8. /\ k \in Columns /\ k.info = j.info /\ k.element_segs = j.element_segs
        /\ k.curr_seg = j.curr_seg /\ k.curr_pos = j.curr_pos
        /\ k.free_elements = j.free_elements /\ k.garbages = j.garbages
        /\ k.n_garbages = c /\ k.ginfo = h
    BY <1>1, <1>4, <1>6, <1>7 DEF Columns
  <1>9. e.seg = place.seg /\ e.pos = place.pos /\ e.size = size /\ e.type = "normal"
    BY DEF Normal, Einfo
  <1>10. IsChunk(e, u) /\ e \in Einfos
    BY <1>1, <1>3 DEF Normal, Einfo, Einfos, IsChunk, HasSpace, Places
  <1>11. \A p \in Owners : p # o => F[p] = E[p]
    BY <1>1
  <1>12. F[o] = e /\ F \in [Owners -> Einfos]
    BY <1>1, <1>10
  <1> HIDE DEF F
  <1>13. \A v : ~IsChunk(E[o], v) /\ ~IsSequential(E[o]) /\ ~IsHuge(E[o])
    BY DEF IsChunk, IsSequential, IsHuge
  <1>14. ~IsSequential(e) /\ ~IsHuge(e) /\ \A v : IsChunk(e, v) => v = u
    BY <1>9 DEF IsChunk, IsSequential, IsHuge
  <1>15. \A v \in Variations : v # u =>
            \A s \in Segments, n \in Nat :
                /\ IsRecord(k, v, s, n) <=> IsRecord(j, v, s, n)
                /\ IsRecord(j, v, s, n) => k.ginfo[s].recs[n] = j.ginfo[s].recs[n]
    <2> SUFFICES ASSUME NEW v \in Variations, v # u, NEW s \in Segments, NEW n \in Nat
                 PROVE  /\ IsRecord(k, v, s, n) <=> IsRecord(j, v, s, n)
                        /\ IsRecord(j, v, s, n) => k.ginfo[s].recs[n] = j.ginfo[s].recs[n]
      OBVIOUS
    <2>1. CASE s = seg
      <3>1. j.info[s] # Info("ginfo", v)
        BY <2>1, InfoKinds
      <3> QED
        BY <1>8, <3>1 DEF IsRecord
    <2>2. CASE s # seg
      BY <1>5, <1>8, <2>2 DEF IsRecord
    <2> QED
      BY <2>1, <2>2
  <1>16. \A s \in Segments, n \in Nat :
            /\ from[s][n] \in Nat
            /\ IsRecord(k, u, s, n) =>
                    /\ IsRecord(j, u, s, from[s][n]) /\ <<s, from[s][n]>> # <<seg, one>>
                    /\ k.ginfo[s].recs[n] = j.ginfo[s].recs[from[s][n]]
    <2> SUFFICES ASSUME NEW s \in Segments, NEW n \in Nat
                 PROVE  /\ from[s][n] \in Nat
                        /\ IsRecord(k, u, s, n) =>
                            /\ IsRecord(j, u, s, from[s][n]) /\ <<s, from[s][n]>> # <<seg, one>>
                            /\ k.ginfo[s].recs[n] = j.ginfo[s].recs[from[s][n]]
      OBVIOUS
    <2>1. CASE s = seg
      <3>1. PICK m \in Nat : m = n + 1 /\ m = from[s][n]
        BY <2>1
      <3>2. k.ginfo[s].recs = Tail(recs) /\ j.ginfo[s].recs = recs
        BY <1>5, <1>8, <2>1 DEF recs
      <3>3. ASSUME IsRecord(k, u, s, n)
            PROVE  /\ IsRecord(j, u, s, m) /\ m # one
                   /\ k.ginfo[s].recs[n] = j.ginfo[s].recs[m]
        <4>1. n \in 1 .. Len(recs) - 1
          BY <1>3, <3>2, <3>3 DEF IsRecord
        <4> QED
          BY <1>3, <2>1, <3>1, <3>2, <4>1 DEF IsRecord
      <3> HIDE DEF from, one
      <3> QED
        BY <3>1, <3>3
    <2>2. CASE s # seg
      BY <1>5, <1>8, <2>2 DEF IsRecord
    <2> QED
      BY <2>1, <2>2
  <1>17. \A s \in Segments, n \in Nat :
            IsRecord(j, u, s, n) /\ <<s, n>> # <<seg, one>> =>
                \E m \in Nat : IsRecord(k, u, s, m) /\ from[s][m] = n
    <2> SUFFICES ASSUME NEW s \in Segments, NEW n \in Nat,
                        IsRecord(j, u, s, n), <<s, n>> # <<seg, one>>
                 PROVE  \E m \in Nat : IsRecord(k, u, s, m) /\ from[s][m] = n
      OBVIOUS
    <2>1. CASE s = seg
      <3>1. k.ginfo[s].recs = Tail(recs) /\ j.ginfo[s].recs = recs
        BY <1>5, <1>8, <2>1 DEF recs
      <3>2. n \in 1 .. Len(recs) /\ n # 1
        BY <2>1, <3>1 DEF IsRecord
      <3>3. n - 1 \in 1 .. Len(Tail(recs)) /\ n - 1 \in Nat /\ from[s][n - 1] = n
        BY <1>3, <2>1, <3>2
      <3>4. IsRecord(k, u, s, n - 1)
        BY <1>8, <2>1, <3>1, <3>3 DEF IsRecord
      <3> QED
        BY <3>3, <3>4
    <2>2. CASE s # seg
      BY <1>5, <1>8, <2>2 DEF IsRecord
    <2> QED
      BY <2>1, <2>2
  <1>18. IsRecord(j, u, seg, one) /\ one \in Nat /\ place = j.ginfo[seg].recs[one]
    BY <1>3 DEF IsRecord, recs
  <1>19. \A s, t \in Segments, m, n \in Nat :
            <<s, m>> # <<t, n>> => <<s, from[s][m]>> # <<t, from[t][n]>>
    OBVIOUS
  <1> HIDE DEF from, one
  <1>20. Chunks(k, F)
    <2> SUFFICES ASSUME NEW v \in Variations
                 PROVE  ChunksInPlace(k, F, v) /\ ChunksApart(k, F, v) /\ ChunksKept(k, F, v)
      BY DEF Chunks
    <2>1. CASE v # u
      <3>1. SameChunks(j, k, E, F, v)
        BY <1>8, <1>11, <1>12, <1>13, <1>14, <1>15, <2>1 DEF SameChunks
      <3> QED
        BY <1>1, <1>8, <1>12, <3>1, ChunksFrame DEF Sound, Chunks
    <2>2. CASE v = u
      <3>1. ChunksInPlace(j, E, u) /\ ChunksApart(j, E, u) /\ ChunksKept(j, E, u)
        BY <1>1 DEF Sound, Chunks
      <3>2. \A p : (ChunkAt(k, u, p) <=> ChunkAt(j, u, p)) /\ (InRest(k, u, p) <=> InRest(j, u, p))
        BY <1>8 DEF ChunkAt, InRest
      <3>3. ChunkAt(j, u, e) /\ ~InRest(j, u, e)
        BY <1>9, <1>18, <3>1 DEF ChunksInPlace, ChunkAt, InRest
      <3>4. ChunksInPlace(k, F, u)
        <4>1. \A p \in Owners : IsChunk(F[p], u) => ChunkAt(k, u, F[p]) /\ ~InRest(k, u, F[p])
          BY <1>11, <1>12, <3>1, <3>2, <3>3 DEF ChunksInPlace
        <4>2. \A s \in Segments, n \in Nat : IsRecord(k, u, s, n) =>
                ChunkAt(k, u, k.ginfo[s].recs[n]) /\ ~InRest(k, u, k.ginfo[s].recs[n])
          BY <1>16, <3>1, <3>2 DEF ChunksInPlace
        <4>3. k.free_elements[u].seg # 0 => ChunkAt(k, u, k.free_elements[u])
          BY <1>8, <3>1, <3>2 DEF ChunksInPlace
        <4> QED
          BY <4>1, <4>2, <4>3 DEF ChunksInPlace
      <3>5. ChunksApart(k, F, u)
        <4>1. \A p \in Owners : p # o /\ IsChunk(F[p], u) => ~Same(F[p], e) /\ ~Same(e, F[p])
          <5>1. \A p \in Owners : IsChunk(E[p], u) => ~Same(E[p], j.ginfo[seg].recs[one])
            BY <1>18, <3>1 DEF ChunksApart
          <5> QED
            BY <1>9, <1>11, <1>18, <5>1 DEF Same
        <4>2. \A s \in Segments, n \in Nat : IsRecord(k, u, s, n) => ~Same(e, k.ginfo[s].recs[n])
          <5>1. \A s \in Segments, n \in Nat :
                    IsRecord(j, u, s, n) /\ <<s, n>> # <<seg, one>> =>
                        ~Same(j.ginfo[seg].recs[one], j.ginfo[s].recs[n])
            BY <1>18, <3>1 DEF ChunksApart
          <5>2. \A q : Same(e, q) <=> Same(j.ginfo[seg].recs[one], q)
            BY <1>9, <1>18 DEF Same
          <5> QED
            BY <1>16, <5>1, <5>2
        <4>3. \A p, q \in Owners :
                IsChunk(F[p], u) /\ IsChunk(F[q], u) /\ p # q => ~Same(F[p], F[q])
          BY <1>11, <1>12, <3>1, <4>1 DEF ChunksApart
        <4>4. \A p \in Owners, s \in Segments, n \in Nat :
                IsChunk(F[p], u) /\ IsRecord(k, u, s, n) => ~Same(F[p], k.ginfo[s].recs[n])
          BY <1>11, <1>12, <1>16, <3>1, <4>2 DEF ChunksApart
        <4>5. \A s, t \in Segments, m, n \in Nat :
                IsRecord(k, u, s, m) /\ IsRecord(k, u, t, n) /\ <<s, m>> # <<t, n>> =>
                    ~Same(k.ginfo[s].recs[m], k.ginfo[t].recs[n])
          <5> SUFFICES ASSUME NEW s \in Segments, NEW t \in Segments, NEW m \in Nat, NEW n \in Nat,
                              IsRecord(k, u, s, m), IsRecord(k, u, t, n), <<s, m>> # <<t, n>>
                       PROVE  ~Same(k.ginfo[s].recs[m], k.ginfo[t].recs[n])
            OBVIOUS
          <5>1. /\ from[s][m] \in Nat /\ IsRecord(j, u, s, from[s][m])
                /\ k.ginfo[s].recs[m] = j.ginfo[s].recs[from[s][m]]
            BY <1>16
          <5>2. /\ from[t][n] \in Nat /\ IsRecord(j, u, t, from[t][n])
                /\ k.ginfo[t].recs[n] = j.ginfo[t].recs[from[t][n]]
            BY <1>16
          <5>3. <<s, from[s][m]>> # <<t, from[t][n]>>
            BY <1>19
          <5>4. ~Same(j.ginfo[s].recs[from[s][m]], j.ginfo[t].recs[from[t][n]])
            BY <3>1, <5>1, <5>2, <5>3 DEF ChunksApart
          <5> QED
            BY <5>1, <5>2, <5>4
        <4> QED
          BY <4>3, <4>4, <4>5 DEF ChunksApart
      <3>6. ChunksKept(k, F, u)
        <4> SUFFICES ASSUME NEW q \in [seg : Segments \ {0}, pos : 0 .. SegmentSize - 1],
                            k.info[q.seg] = ChunkInfo(u), q.pos % chunk_size(u) = 0
                     PROVE  \/ InRest(k, u, q)
                            \/ \E p \in Owners : IsChunk(F[p], u) /\ Same(F[p], q)
                            \/ \E s \in Segments, n \in Nat :
                                    IsRecord(k, u, s, n) /\ Same(k.ginfo[s].recs[n], q)
          BY DEF ChunksKept
        <4>1. CASE InRest(j, u, q)
          BY <3>2, <4>1
        <4>2. CASE \E p \in Owners : IsChunk(E[p], u) /\ Same(E[p], q)
          BY <1>11, <1>13, <4>2
        <4>3. CASE \E s \in Segments, n \in Nat :
                        IsRecord(j, u, s, n) /\ Same(j.ginfo[s].recs[n], q)
          <5>1. PICK s \in Segments, n \in Nat :
                        IsRecord(j, u, s, n) /\ Same(j.ginfo[s].recs[n], q)
            BY <4>3
          <5>2. CASE <<s, n>> = <<seg, one>>
            <6>1. Same(e, q)
              BY <1>9, <1>18, <5>1, <5>2 DEF Same
            <6> QED
              BY <1>10, <1>12, <6>1
          <5>3. CASE <<s, n>> # <<seg, one>>
            <6>1. PICK m \in Nat : IsRecord(k, u, s, m) /\ from[s][m] = n
              BY <1>17, <5>1, <5>3
            <6>2. Same(k.ginfo[s].recs[m], q)
              BY <1>16, <5>1, <6>1
            <6> QED
              BY <6>1, <6>2
          <5> QED
            BY <5>2, <5>3
        <4> QED
          BY <1>8, <3>1, <4>1, <4>2, <4>3 DEF ChunksKept
      <3> QED
        BY <2>2, <3>4, <3>5, <3>6
    <2> QED
      BY <2>1, <2>2
  <1>21. Sequentials(k, F)
    <2>1. SameSequentials(j, k, E, F)
      BY <1>8, <1>11, <1>12, <1>13, <1>14 DEF SameSequentials
    <2> QED
      BY <1>1, <1>8, <1>12, <2>1, SequentialsFrame DEF Sound
  <1>22. Huges(k, F)
    <2>1. SameHuges(j, k, E, F)
      BY <1>8, <1>11, <1>12, <1>13, <1>14 DEF SameHuges
    <2> QED
      BY <2>1, HugesFrame DEF Sound
  <1>23. Lists(k)
    <2>1. ASSUME NEW v \in Variations
          PROVE  \E l : IsList(k, v, l)
      <3>1. PICK l : IsList(j, v, l)
        BY DEF Sound, Lists
      <3> QED
        BY <1>5, <1>8, <3>1, SameList
    <2>2. ASSUME NEW v \in Variations, v # u
          PROVE  IsFiniteSet(Records(k, v)) /\ k.n_garbages[v] = Cardinality(Records(k, v))
      <3>1. Records(k, v) = Records(j, v)
        BY <1>1, <1>8, <1>15, <2>2, SameRecords
      <3> QED
        BY <1>7, <1>8, <2>2, <3>1 DEF Sound, Lists
    <2>3. IsFiniteSet(Records(k, u)) /\ k.n_garbages[u] = Cardinality(Records(k, u))
      <3> DEFINE r == <<seg, Len(recs)>>
      <3>1. IsFiniteSet(Records(j, u)) /\ j.n_garbages[u] = Cardinality(Records(j, u))
        BY <1>1 DEF Sound, Lists
      <3>2. \A s \in Segments, n \in Nat :
                IsRecord(k, u, s, n) <=> IsRecord(j, u, s, n) /\ <<s, n>> # r
        <4> SUFFICES ASSUME NEW s \in Segments, NEW n \in Nat
                     PROVE  IsRecord(k, u, s, n) <=> IsRecord(j, u, s, n) /\ <<s, n>> # r
          OBVIOUS
        <4>1. CASE s = seg
          <5>1. k.ginfo[s].recs = Tail(recs) /\ j.ginfo[s].recs = recs
            BY <1>5, <1>8, <4>1 DEF recs
          <5>2. n \in 1 .. Len(Tail(recs)) <=> n \in 1 .. Len(recs) /\ n # Len(recs)
            <6>1. PICK x \in Nat : x = Len(recs)
              BY <1>3
            <6>2. Len(Tail(recs)) = x - 1
              BY <1>3, <6>1
            <6> QED
              BY <6>1, <6>2
          <5> QED
            BY <1>8, <4>1, <5>1, <5>2 DEF IsRecord
        <4>2. CASE s # seg
          BY <1>5, <1>8, <4>2 DEF IsRecord
        <4> QED
          BY <4>1, <4>2
      <3>3. r \in Records(j, u)
        <4>1. IsRecord(j, u, seg, Len(recs)) /\ Len(recs) \in Nat
          BY <1>3 DEF IsRecord, recs
        <4> QED
          BY <1>1, <4>1, RecordsAre
      <3>4. Records(k, u) = Records(j, u) \ {r}
        <4>1. ASSUME NEW y
              PROVE  y \in Records(k, u) <=> y \in Records(j, u) /\ y # r
          <5>1. y \in Records(k, u) <=>
                    \E s \in Segments, n \in Nat : y = <<s, n>> /\ IsRecord(k, u, s, n)
            BY <1>8, RecordsAre
          <5>2. y \in Records(j, u) <=>
                    \E s \in Segments, n \in Nat : y = <<s, n>> /\ IsRecord(j, u, s, n)
            BY <1>1, RecordsAre
          <5> HIDE DEF r
          <5> QED
            BY <3>2, <5>1, <5>2
        <4> QED
          BY <4>1
      <3> HIDE DEF r
      <3>5. /\ IsFiniteSet(Records(j, u) \ {r})
            /\ Cardinality(Records(j, u) \ {r}) = Cardinality(Records(j, u)) - 1
        BY <3>1, <3>3, FS_RemoveElement
      <3> QED
        BY <1>1, <1>7, <1>8, <3>1, <3>4, <3>5
    <2>4. \A s \in Segments :
            k.info[s].type = "ginfo" => Len(k.ginfo[s].recs) <= GarbagesInSegment
      <3>1. \A s \in Segments \ {seg} : k.ginfo[s].recs = j.ginfo[s].recs
        BY <1>5, <1>8
      <3>2. Len(k.ginfo[seg].recs) <= GarbagesInSegment
        <4>1. k.ginfo[seg].recs = Tail(recs)
          BY <1>5, <1>8
        <4>2. Len(recs) <= GarbagesInSegment
          BY InfoKinds DEF recs, Sound, Lists
        <4> QED
          BY <1>3, <4>1, <4>2, SizesType
      <3> QED
        BY <1>8, <3>1, <3>2 DEF Sound, Lists
    <2> QED
      BY <2>1, <2>2, <2>3, <2>4 DEF Lists
  <1>24. Infos(k)
    <2>1. SameInfos(j, k)
      BY <1>1, <1>8 DEF SameInfos
    <2> QED
      BY <1>1, <1>8, <2>1, InfosFrame DEF Sound
  <1>25. /\ \A s \in Segments : k.ginfo[s].next = j.ginfo[s].next
         /\ \A s \in Segments \ {seg} : k.ginfo[s].recs = j.ginfo[s].recs
    BY <1>5, <1>8
  <1>26. Len(k.ginfo[seg].recs) = Len(j.ginfo[seg].recs) - 1
    <2>1. k.ginfo[seg].recs = Tail(recs)
      BY <1>5, <1>8
    <2>2. Len(k.ginfo[seg].recs) = Len(recs) - 1
      BY <1>3, <2>1
    <2> QED
      BY <2>2 DEF recs
  <1> QED
    BY <1>8, <1>10, <1>12, <1>20, <1>21, <1>22, <1>23, <1>24, <1>25, <1>26 DEF Sound, F, Reused

\* An empty garbage info segment is taken out of its list and is free.
LEMMA GinfoSegmentFree ==
    ASSUME NEW j, NEW E, Sound(j, E), NEW u \in Variations,
           NEW l, IsList(j, u, l), NEW n \in 1 .. Len(l), Len(j.ginfo[l[n]].recs) = 0,
           NEW k, k = ginfo_segment_free(j, u, l, n)
    PROVE  /\ Sound(k, E)
           /\ \A s \in Segments : /\ s # l[n] => /\ k.info[s] = j.info[s]
                                                /\ k.ginfo[s].recs = j.ginfo[s].recs
                                  /\ s = l[n] => k.info[s] = Off
  <1> DEFINE x == l[n]
             w == l[n - 1]
             nx == j.ginfo[x].next
             Ginfos == [recs : Seq(Places), next : Segments]
             i == [j.info EXCEPT ![x] = Off]
             g == [j.ginfo EXCEPT ![x] = NoGarbage]
             a == [j EXCEPT !.info[x] = Off, !.ginfo[x] = NoGarbage]
  <1>1. j \in Columns /\ E \in [Owners -> Einfos]
    BY DEF Sound
  <1>2. /\ l \in Seq(Segments \ {0}) /\ Len(l) \in Nat
        /\ \A m \in 1 .. Len(l) : /\ l[m] \in Segments /\ l[m] # 0
                                  /\ j.info[l[m]] = Info("ginfo", u)
        /\ \A m, p \in 1 .. Len(l) : l[m] = l[p] => m = p
    BY DEF IsList
  <1>3. /\ x \in Segments /\ x # 0 /\ j.info[x] = Info("ginfo", u)
        /\ nx = IF n = Len(l) THEN 0 ELSE l[n + 1]
    BY <1>2 DEF IsList
  <1>4. n # 1 => n - 1 \in 1 .. Len(l) /\ w \in Segments /\ w # 0 /\ w # x
                 /\ j.info[w] = Info("ginfo", u)
    <2>1. n # 1 => n - 1 \in 1 .. Len(l) /\ n - 1 # n
      BY <1>2
    <2> QED
      BY <1>2, <2>1
  <1>5. nx \in Segments
    BY <1>1, <1>3 DEF Columns
  <1>6. /\ i \in [Segments -> [type : Kinds, value : Nat]]
        /\ \A s \in Segments : i[s] = IF s = x THEN Off ELSE j.info[s]
    BY <1>1, <1>3, InfoKinds DEF Columns
  <1>7. NoGarbage \in Ginfos
    BY SizesType DEF NoGarbage
  <1>8. /\ g \in [Segments -> Ginfos]
        /\ \A s \in Segments : g[s] = IF s = x THEN NoGarbage ELSE j.ginfo[s]
    BY <1>1, <1>3, <1>7 DEF Columns
  <1>9. j.garbages \in [Variations -> Segments] /\ \A s \in Segments : j.ginfo[s] \in Ginfos
    BY <1>1 DEF Columns
  <1>10. a \in Columns /\ a.info = i /\ a.ginfo = g /\ a.garbages = j.garbages
         /\ a.element_segs = j.element_segs /\ a.curr_seg = j.curr_seg /\ a.curr_pos = j.curr_pos
         /\ a.free_elements = j.free_elements /\ a.n_garbages = j.n_garbages
    BY <1>1, <1>3, <1>7, InfoKinds DEF Columns
  <1>11. k = IF n = 1 THEN [a EXCEPT !.garbages[u] = nx] ELSE [a EXCEPT !.ginfo[w].next = nx]
    BY DEF ginfo_segment_free, link
  <1> HIDE DEF a, i, g, nx, x, w
  <1>12. /\ k \in Columns /\ k.info = i
         /\ k.garbages = IF n = 1 THEN [j.garbages EXCEPT ![u] = nx] ELSE j.garbages
         /\ k.ginfo = IF n = 1 THEN g ELSE [g EXCEPT ![w].next = nx]
         /\ k.element_segs = j.element_segs /\ k.curr_seg = j.curr_seg
         /\ k.curr_pos = j.curr_pos
         /\ k.free_elements = j.free_elements /\ k.n_garbages = j.n_garbages
    <2>1. CASE n = 1
      <3>1. [a.garbages EXCEPT ![u] = nx] \in [Variations -> Segments]
        BY <1>5, <1>9, <1>10
      <3>2. k = [a EXCEPT !.garbages = [a.garbages EXCEPT ![u] = nx]]
        BY <1>11, <2>1
      <3> QED
        BY <1>10, <2>1, <3>1, <3>2 DEF Columns
    <2>2. CASE n # 1
      <3> DEFINE h == [g EXCEPT ![w].next = nx]
      <3>1. h \in [Segments -> Ginfos]
        BY <1>4, <1>5, <1>8, <2>2
      <3>2. k = [a EXCEPT !.ginfo = h]
        BY <1>10, <1>11, <2>2
      <3>3. k.ginfo = h
        BY <1>10, <3>2 DEF Columns
      <3> HIDE DEF h
      <3>4. k \in Columns
        BY <1>10, <3>1, <3>2 DEF Columns
      <3>5. /\ k.info = i /\ k.garbages = j.garbages
            /\ k.element_segs = j.element_segs /\ k.curr_seg = j.curr_seg
            /\ k.curr_pos = j.curr_pos
            /\ k.free_elements = j.free_elements /\ k.n_garbages = j.n_garbages
        BY <1>10, <3>2 DEF Columns
      <3> QED
        BY <2>2, <3>3, <3>4, <3>5 DEF h
    <2> QED
      BY <2>1, <2>2
  <1>13. /\ \A s \in Segments : k.info[s] = IF s = x THEN Off ELSE j.info[s]
         /\ Off.type = "off" /\ j.info[x].type = "ginfo"
    BY <1>3, <1>6, <1>12, InfoKinds
  <1>14. \A s \in Segments :
            s # x => /\ k.ginfo[s].recs = j.ginfo[s].recs
                     /\ k.ginfo[s].next = IF n # 1 /\ s = w THEN nx ELSE j.ginfo[s].next
    <2> SUFFICES ASSUME NEW s \in Segments, s # x
                 PROVE  /\ k.ginfo[s].recs = j.ginfo[s].recs
                        /\ k.ginfo[s].next = IF n # 1 /\ s = w THEN nx ELSE j.ginfo[s].next
      OBVIOUS
    <2>1. g[s] = j.ginfo[s] /\ g[s] \in Ginfos
      BY <1>8, <1>9
    <2>2. CASE n = 1
      BY <1>12, <2>1, <2>2
    <2>3. CASE n # 1 /\ s # w
      <3>1. k.ginfo[s] = g[s]
        BY <1>4, <1>8, <1>12, <2>3
      <3> QED
        BY <2>1, <2>3, <3>1
    <2>4. CASE n # 1 /\ s = w
      <3>1. k.ginfo[s] = [g[s] EXCEPT !.next = nx]
        BY <1>4, <1>8, <1>12, <2>4
      <3> QED
        BY <2>1, <2>4, <3>1
    <2> QED
      BY <2>2, <2>3, <2>4
  <1>15. \A v \in Variations : \A s \in Segments, m \in Nat :
            /\ IsRecord(k, v, s, m) <=> IsRecord(j, v, s, m)
            /\ IsRecord(j, v, s, m) => k.ginfo[s].recs[m] = j.ginfo[s].recs[m]
    <2> SUFFICES ASSUME NEW v \in Variations, NEW s \in Segments, NEW m \in Nat
                 PROVE  /\ IsRecord(k, v, s, m) <=> IsRecord(j, v, s, m)
                        /\ IsRecord(j, v, s, m) => k.ginfo[s].recs[m] = j.ginfo[s].recs[m]
      OBVIOUS
    <2>1. CASE s = x
      <3>1. ~IsRecord(k, v, s, m)
        BY <1>13, <2>1, InfoKinds DEF IsRecord
      <3>2. Len(j.ginfo[s].recs) = 0
        BY <2>1 DEF x
      <3> QED
        BY <3>1, <3>2 DEF IsRecord
    <2>2. CASE s # x
      BY <1>13, <1>14, <2>2 DEF IsRecord
    <2> QED
      BY <2>1, <2>2
  <1>16. Chunks(k, E)
    <2> SUFFICES ASSUME NEW v \in Variations
                 PROVE  ChunksInPlace(k, E, v) /\ ChunksApart(k, E, v) /\ ChunksKept(k, E, v)
      BY DEF Chunks
    <2>1. SameChunks(j, k, E, E, v)
      BY <1>13, <1>15, InfoKinds DEF SameChunks
    <2> QED
      BY <1>1, <1>12, <2>1, ChunksFrame DEF Sound, Chunks
  <1>17. Sequentials(k, E)
    <2>1. SameSequentials(j, k, E, E)
      BY <1>12, <1>13 DEF SameSequentials
    <2> QED
      BY <1>1, <1>12, <2>1, SequentialsFrame DEF Sound
  <1>18. Huges(k, E)
    <2>1. SameHuges(j, k, E, E)
      BY <1>13 DEF SameHuges
    <2> QED
      BY <2>1, HugesFrame DEF Sound
  <1>19. Lists(k)
    <2>1. ASSUME NEW v \in Variations
          PROVE  IsFiniteSet(Records(k, v)) /\ k.n_garbages[v] = Cardinality(Records(k, v))
      <3>1. Records(k, v) = Records(j, v)
        BY <1>1, <1>12, <1>15, SameRecords
      <3> QED
        BY <1>12, <3>1 DEF Sound, Lists
    <2>2. ASSUME NEW v \in Variations, v # u
          PROVE  \E m : IsList(k, v, m)
      <3>1. PICK m : IsList(j, v, m)
        BY DEF Sound, Lists
      <3>2. k.garbages[v] = j.garbages[v]
        BY <1>9, <1>12, <2>2
      <3>3. \A s \in Segments : k.info[s] = Info("ginfo", v) <=> j.info[s] = Info("ginfo", v)
        <4>1. Info("ginfo", v) # Info("ginfo", u) /\ Info("ginfo", v) # Off
          BY <2>2 DEF Info, Off
        <4> QED
          BY <1>3, <1>13, <4>1
      <3>4. \A s \in Segments : j.info[s] = Info("ginfo", v) => k.ginfo[s].next = j.ginfo[s].next
        <4>1. \A s \in Segments : j.info[s] = Info("ginfo", v) => s # x /\ (n # 1 => s # w)
          <5>1. Info("ginfo", v) # Info("ginfo", u)
            BY <2>2 DEF Info
          <5> QED
            BY <1>3, <1>4, <5>1
        <4> QED
          BY <1>14, <4>1
      <3> QED
        BY <3>1, <3>2, <3>3, <3>4, SameList
    <2>3. \E m : IsList(k, u, m)
      <3> DEFINE q == Len(l) - 1
                 m == [p \in 1 .. q |-> IF p < n THEN l[p] ELSE l[p + 1]]
      <3>1. q \in Nat /\ \A p \in 1 .. q : p \in 1 .. Len(l) /\ p + 1 \in 1 .. Len(l)
        BY <1>2
      <3>2. \A p \in 1 .. q : m[p] \in Segments \ {0}
        BY <1>2, <3>1
      <3>3. m \in Seq(Segments \ {0}) /\ Len(m) = q
        <4>1. m \in [1 .. q -> Segments \ {0}]
          BY <3>2
        <4> HIDE DEF m
        <4> QED
          BY <3>1, <4>1
      <3>4. \A p \in 1 .. q : m[p] = IF p < n THEN l[p] ELSE l[p + 1]
        OBVIOUS
      <3> HIDE DEF m, q
      <3>5. \A p, r \in 1 .. Len(m) : m[p] = m[r] => p = r
        <4> SUFFICES ASSUME NEW p \in 1 .. q, NEW r \in 1 .. q, m[p] = m[r] PROVE p = r
          BY <3>3
        <4>1. \A b, d \in 1 .. Len(l) : l[b] = l[d] => b = d
          BY <1>2
        <4>2. p \in 1 .. Len(l) /\ p + 1 \in 1 .. Len(l) /\ r \in 1 .. Len(l) /\ r + 1 \in 1 .. Len(l)
          BY <3>1
        <4>3. CASE p < n /\ r < n
          BY <3>4, <4>1, <4>2, <4>3
        <4>4. CASE p < n /\ ~(r < n)
          <5>1. l[p] = l[r + 1]
            BY <3>4, <4>4
          <5>2. p = r + 1
            BY <4>1, <4>2, <5>1
          <5> QED
            BY <4>4, <5>2
        <4>5. CASE ~(p < n) /\ r < n
          <5>1. l[p + 1] = l[r]
            BY <3>4, <4>5
          <5>2. p + 1 = r
            BY <4>1, <4>2, <5>1
          <5> QED
            BY <4>5, <5>2
        <4>6. CASE ~(p < n) /\ ~(r < n)
          <5>1. l[p + 1] = l[r + 1]
            BY <3>4, <4>6
          <5>2. p + 1 = r + 1
            BY <4>1, <4>2, <5>1
          <5> QED
            BY <5>2
        <4> QED
          BY <4>3, <4>4, <4>5, <4>6
      <3>6. ASSUME NEW s \in Segments \ {0}
            PROVE  k.info[s] = Info("ginfo", u) <=> \E p \in 1 .. Len(m) : m[p] = s
        <4>1. k.info[s] = Info("ginfo", u) <=> s # x /\ j.info[s] = Info("ginfo", u)
          BY <1>13, InfoKinds
        <4>2. j.info[s] = Info("ginfo", u) <=> \E p \in 1 .. Len(l) : l[p] = s
          BY DEF IsList
        <4>3. ASSUME NEW p \in 1 .. Len(l), l[p] = s, s # x
              PROVE  \E r \in 1 .. Len(m) : m[r] = s
          <5>1. p # n
            BY <4>3 DEF x
          <5>2. CASE p < n
            <6>1. p \in 1 .. q
              BY <1>2, <5>2 DEF q
            <6> QED
              BY <3>3, <3>4, <4>3, <5>2, <6>1
          <5>3. CASE p > n
            <6>1. PICK r \in 1 .. q : r = p - 1
              BY <1>2, <5>3 DEF q
            <6>2. m[r] = l[r + 1] /\ r + 1 = p
              BY <3>4, <5>3, <6>1
            <6> QED
              BY <3>3, <4>3, <6>1, <6>2
          <5> QED
            BY <5>1, <5>2, <5>3
        <4>4. ASSUME NEW r \in 1 .. Len(m), m[r] = s
              PROVE  s # x /\ \E p \in 1 .. Len(l) : l[p] = s
          <5>1. r \in 1 .. q /\ r \in 1 .. Len(l) /\ r + 1 \in 1 .. Len(l)
            BY <3>1, <3>3
          <5>2. CASE r < n
            <6>1. s = l[r] /\ r # n
              BY <3>4, <4>4, <5>1, <5>2
            <6> QED
              BY <1>2, <5>1, <6>1 DEF x
          <5>3. CASE ~(r < n)
            <6>1. s = l[r + 1] /\ r + 1 # n
              BY <3>4, <4>4, <5>1, <5>3
            <6> QED
              BY <1>2, <5>1, <6>1 DEF x
          <5> QED
            BY <5>2, <5>3
        <4> QED
          BY <4>1, <4>2, <4>3, <4>4
      <3>7. k.garbages[u] = IF Len(m) = 0 THEN 0 ELSE m[1]
        <4>1. CASE n = 1
          <5>1. k.garbages[u] = nx
            BY <1>9, <1>12, <4>1
          <5>2. q = 0 <=> n = Len(l)
            BY <1>2, <4>1 DEF q
          <5>3. q # 0 => 1 \in 1 .. q /\ m[1] = l[n + 1]
            BY <3>1, <3>4, <4>1
          <5> QED
            BY <1>3, <3>3, <5>1, <5>2, <5>3
        <4>2. CASE n # 1
          <5>1. k.garbages[u] = l[1]
            BY <1>2, <1>12, <4>2 DEF IsList
          <5>2. 1 \in 1 .. q /\ q # 0 /\ 1 < n
            BY <1>2, <4>2 DEF q
          <5>3. m[1] = l[1]
            BY <3>4, <5>2
          <5> QED
            BY <3>3, <5>1, <5>2, <5>3
        <4> QED
          BY <4>1, <4>2
      <3>8. ASSUME NEW p \in 1 .. Len(m)
            PROVE  k.ginfo[m[p]].next = IF p = Len(m) THEN 0 ELSE m[p + 1]
        <4>1. p \in 1 .. q /\ p \in 1 .. Len(l) /\ p + 1 \in 1 .. Len(l)
          BY <3>1, <3>3
        <4>2. \A b \in 1 .. Len(l) : j.ginfo[l[b]].next = IF b = Len(l) THEN 0 ELSE l[b + 1]
          BY DEF IsList
        <4>3. CASE p < n - 1
          <5>1. m[p] = l[p] /\ m[p] # x /\ (n # 1 => m[p] # w)
            <6>1. p # n /\ p # n - 1 /\ p < n /\ n - 1 \in 1 .. Len(l)
              BY <1>2, <4>1, <4>3
            <6> QED
              BY <1>2, <3>4, <4>1, <6>1 DEF x, w
          <5>2. k.ginfo[l[p]].next = l[p + 1]
            BY <1>2, <1>14, <4>1, <4>2, <4>3, <5>1
          <5>3. p # q /\ p + 1 \in 1 .. q /\ p + 1 < n
            BY <1>2, <4>1, <4>3 DEF q
          <5> QED
            BY <3>3, <3>4, <5>1, <5>2, <5>3
        <4>4. CASE p = n - 1
          <5>1. m[p] = w /\ n # 1 /\ w # x /\ w \in Segments
            BY <1>4, <3>4, <4>1, <4>4 DEF w
          <5>2. k.ginfo[w].next = nx
            BY <1>14, <5>1
          <5>3. p = q <=> n = Len(l)
            BY <1>2, <4>1, <4>4 DEF q
          <5>4. p # q => p + 1 \in 1 .. q /\ m[p + 1] = l[n + 1]
            BY <1>2, <3>1, <3>4, <4>1, <4>4
          <5> QED
            BY <1>3, <3>3, <5>1, <5>2, <5>3, <5>4
        <4>5. CASE p >= n
          <5>1. PICK b \in 1 .. Len(l) : b = p + 1
            BY <4>1
          <5>2. m[p] = l[b] /\ b # n /\ b # n - 1
            BY <3>4, <4>1, <4>5, <5>1
          <5>3. l[b] # x /\ (n # 1 => l[b] # w) /\ l[b] \in Segments
            BY <1>2, <1>4, <5>1, <5>2 DEF x, w
          <5>4. k.ginfo[l[b]].next = IF b = Len(l) THEN 0 ELSE l[b + 1]
            BY <1>14, <4>2, <5>1, <5>3
          <5>5. (p = q <=> b = Len(l)) /\ (p # q => p + 1 \in 1 .. q /\ m[p + 1] = l[b + 1])
            <6>1. p = q <=> b = Len(l)
              BY <1>2, <4>1, <5>1 DEF q
            <6>2. p # q => p + 1 \in 1 .. q /\ ~(p + 1 < n)
              BY <3>1, <4>1, <4>5
            <6> QED
              BY <3>4, <5>1, <6>1, <6>2
          <5> QED
            BY <3>3, <5>2, <5>4, <5>5
        <4> QED
          BY <1>2, <4>1, <4>3, <4>4, <4>5
      <3>9. IsList(k, u, m)
        BY <3>3, <3>5, <3>6, <3>7, <3>8 DEF IsList
      <3> QED
        BY <3>9
    <2>4. \A s \in Segments :
            k.info[s].type = "ginfo" => Len(k.ginfo[s].recs) <= GarbagesInSegment
      BY <1>13, <1>14 DEF Sound, Lists
    <2> QED
      BY <2>1, <2>2, <2>3, <2>4 DEF Lists
  <1>20. Infos(k)
    <2>1. SameInfos(j, k)
      BY <1>1, <1>12, <1>13 DEF SameInfos
    <2> QED
      BY <1>1, <1>12, <1>13, <2>1, InfosFrame DEF Sound
  <1>21. Sound(k, E)
    BY <1>1, <1>12, <1>16, <1>17, <1>18, <1>19, <1>20 DEF Sound
  <1> QED
    BY <1>13, <1>14, <1>21 DEF x

LEMMA SizesOfTypes ==
    ASSUME NEW size \in Nat
    PROVE  /\ element_type(size) = "sequential" =>
                size # 0 /\ data_size(size) <= SegmentSize
           /\ element_type(size) = "huge" => size # 0
           /\ element_type(size) \in {"tiny", "chunk", "sequential", "huge"}
  <1>1. PICK t \in Nat \ {0} : t = 2 ^ ChunkThreshold
    BY SizesType, PowNat
  <1>2. PICK w \in Nat \ {0} : w = 2 ^ EinfoWidth
    BY SizesType, PowNat
  <1> QED
    BY <1>1, <1>2 DEF element_type

\* The bytes of a value in a sequential segment.
BytesOf(e) == Start(e) .. Stop(e) - 1

LEMMA BytesOfType ==
    ASSUME NEW e \in Einfos
    PROVE  /\ Start(e) \in Int /\ Stop(e) \in Int
           /\ Stop(e) = Start(e) + aligned_data_size(e.size)
           /\ aligned_data_size(e.size) \in Nat \ {0}
           /\ IsFiniteSet(BytesOf(e)) /\ Cardinality(BytesOf(e)) = aligned_data_size(e.size)
  <1>1. PICK a \in Nat : a = aligned_element_size(e.size) /\ aligned_data_size(e.size) = a + IdSize
    BY AlignedSize DEF Einfos
  <1>2. PICK d \in Nat \ {0} : d = aligned_data_size(e.size)
    BY <1>1, SizesType
  <1>3. PICK x \in Int : x = Start(e)
    BY SizesType DEF Einfos, Start
  <1>4. PICK y \in Int : y = Stop(e) - 1 /\ Stop(e) = x + d
    BY <1>1, <1>2, <1>3, SizesType DEF Einfos, Start, Stop
  <1>5. IsFiniteSet(x .. y) /\ Cardinality(x .. y) = y - x + 1
    <2>1. x <= y + 1
      BY <1>2, <1>3, <1>4
    <2> QED
      BY <2>1, IntervalSize, Zenon
  <1>6. y - x + 1 = d
    BY <1>2, <1>3, <1>4
  <1> QED
    BY <1>2, <1>3, <1>4, <1>5, <1>6 DEF BytesOf

LEMMA TakenFinite ==
    ASSUME NEW E, NEW s
    PROVE  /\ Taken(E, s) \subseteq Bytes
           /\ IsFiniteSet(Taken(E, s)) /\ Cardinality(Taken(E, s)) \in Nat
  <1>1. PICK n \in Int : n = SegmentSize - 1 /\ 0 <= n + 1
    BY SizesType
  <1>2. IsFiniteSet(0 .. n)
    <2>1. 0 \in Int
      OBVIOUS
    <2> QED
      BY <1>1, <2>1, IntervalSize, Zenon
  <1>3. Taken(E, s) \in SUBSET Bytes
    BY DEF Taken
  <1>4. IsFiniteSet(Bytes)
    BY <1>1, <1>2 DEF Bytes
  <1>5. IsFiniteSet(Taken(E, s))
    BY <1>3, <1>4, FS_Subset
  <1> QED
    BY <1>3, <1>5, FS_CardinalityType

\* A value gets the next bytes of the current segment.
LEMMA SequentialTaken ==
    ASSUME NEW j, NEW E, Sound(j, E), NEW o \in Owners, ~HasSpace(E[o]),
           NEW size \in Nat, element_type(size) = "sequential",
           j.curr_pos + data_size(size) <= SegmentSize,
           NEW r, r = alloc_sequential_current(j, size)
    PROVE  Handed(j, E, o, r)
  <1> DEFINE k == r.ja
             e == r.einfo
             F == [E EXCEPT ![o] = e]
             cs == j.curr_seg
             d == aligned_data_size(size)
             i == [j.info EXCEPT ![cs].value = @ + d]
  <1>1. j \in Columns /\ E \in [Owners -> Einfos] /\ size # 0
    BY SizesOfTypes DEF Sound
  <1>2. cs \in Segments /\ j.curr_pos \in Nat /\ j.curr_pos % IdSize = 0
    BY <1>1 DEF Columns, Sound, Sequentials
  <1>3. /\ d \in Nat \ {0} /\ j.curr_pos + d <= SegmentSize /\ (j.curr_pos + d) % IdSize = 0
    BY <1>2, RoomIsEnough
  <1>4. PICK a \in Nat : a = aligned_element_size(size) /\ d = a + IdSize
    BY AlignedSize
  <1>5. j.info[cs].type = "sequential" /\ j.info[cs].value = Cardinality(Taken(E, cs))
    BY <1>2, <1>3, SizesType DEF Sound, Sequentials
  <1>6. e = Normal(cs, j.curr_pos + IdSize, size)
    BY DEF alloc_sequential_current, Result
  <1>7. /\ e.seg = cs /\ e.pos = j.curr_pos + IdSize /\ e.size = size /\ e.type = "normal"
    BY <1>6 DEF Normal, Einfo
  <1>8. IsSequential(e)
    BY <1>1, <1>7 DEF IsSequential, HasSpace
  <1>9. e \in Einfos
    <2>1. j.curr_pos + IdSize \in 0 .. SegmentSize
      BY <1>2, <1>3, <1>4, SizesType
    <2> QED
      BY <1>1, <1>2, <1>6, <2>1 DEF Normal, Einfo, Einfos, HasSpace
  <1>10. Start(e) = j.curr_pos /\ Stop(e) = j.curr_pos + d
    BY <1>2, <1>3, <1>4, <1>7, SizesType DEF Start, Stop
  <1>11. /\ i \in [Segments -> [type : Kinds, value : Nat]]
         /\ \A s \in Segments : /\ i[s].type = j.info[s].type
                                /\ s # cs => i[s] = j.info[s]
         /\ i[cs].value = j.info[cs].value + d
    <2>1. j.info \in [Segments -> [type : Kinds, value : Nat]]
      BY <1>1 DEF Columns
    <2> HIDE DEF cs, d
    <2> QED
      BY <1>2, <1>3, <2>1
  <1>12. k = [j EXCEPT !.info = i, !.curr_pos = j.curr_pos + d]
    BY <1>1 DEF alloc_sequential_current, Result, sequential_segment_use, Columns
  <1>13. \A p \in Owners : p # o => F[p] = E[p]
    BY <1>1
  <1>14. F[o] = e /\ F \in [Owners -> Einfos]
    BY <1>1, <1>9
  <1>15. \A v : ~IsChunk(E[o], v) /\ ~IsSequential(E[o]) /\ ~IsHuge(E[o])
    BY DEF IsChunk, IsSequential, IsHuge
  <1>16. ~IsHuge(e) /\ \A v : ~IsChunk(e, v)
    BY <1>7 DEF IsChunk, IsHuge
  <1> HIDE DEF k, e, F, d, i
  <1>17. /\ k \in Columns /\ k.info = i /\ k.element_segs = j.element_segs
         /\ k.curr_seg = cs /\ k.curr_pos = j.curr_pos + d
         /\ k.free_elements = j.free_elements /\ k.garbages = j.garbages
         /\ k.n_garbages = j.n_garbages /\ k.ginfo = j.ginfo
    <2>1. j.curr_pos + d \in 0 .. SegmentSize
      BY <1>2, <1>3
    <2> QED
      BY <1>1, <1>11, <1>12, <2>1 DEF Columns
  <1>18. \A s \in Segments : k.info[s].type # "sequential" => k.info[s] = j.info[s]
    BY <1>5, <1>11, <1>17
  <1>19. Chunks(k, F)
    <2> SUFFICES ASSUME NEW v \in Variations
                 PROVE  ChunksInPlace(k, F, v) /\ ChunksApart(k, F, v) /\ ChunksKept(k, F, v)
      BY DEF Chunks
    <2>1. \A s \in Segments : k.info[s] = j.info[s] \/
                (k.info[s].type = "sequential" /\ j.info[s].type = "sequential")
      BY <1>5, <1>11, <1>17
    <2>2. SameChunks(j, k, E, F, v)
      BY <1>13, <1>14, <1>15, <1>16, <1>17, <2>1, InfoKinds DEF SameChunks, IsRecord
    <2> QED
      BY <1>1, <1>14, <1>17, <2>2, ChunksFrame DEF Sound, Chunks
  <1>20. Sequentials(k, F)
    <2>1. \A p \in Owners : Start(F[p]) \in Int /\ Stop(F[p]) \in Int
      BY <1>14, BytesOfType
    <2>2. \A p \in Owners : IsSequential(F[p]) =>
                /\ k.info[F[p].seg].type = "sequential"
                /\ 0 <= Start(F[p]) /\ Stop(F[p]) <= SegmentSize
                /\ F[p].seg = k.curr_seg => Stop(F[p]) <= k.curr_pos
      <3>1. \A p \in Owners : p # o /\ IsSequential(F[p]) =>
                /\ j.info[F[p].seg].type = "sequential" /\ F[p].seg \in Segments
                /\ 0 <= Start(F[p]) /\ Stop(F[p]) <= SegmentSize
                /\ F[p].seg = cs => Stop(F[p]) <= j.curr_pos
        BY <1>1, <1>13 DEF Sound, Sequentials, Einfos
      <3> QED
        BY <1>2, <1>3, <1>5, <1>7, <1>10, <1>11, <1>14, <1>17, <2>1, <3>1
    <2>3. \A p, q \in Owners :
            IsSequential(F[p]) /\ IsSequential(F[q]) /\ p # q /\ F[p].seg = F[q].seg =>
                Stop(F[p]) <= Start(F[q]) \/ Stop(F[q]) <= Start(F[p])
      <3>1. \A p \in Owners : p # o /\ IsSequential(F[p]) /\ F[p].seg = e.seg =>
                Stop(F[p]) <= Start(e)
        BY <1>7, <1>10, <1>13 DEF Sound, Sequentials
      <3> QED
        BY <1>13, <1>14, <3>1 DEF Sound, Sequentials
    <2>4. k.curr_pos % IdSize = 0 /\ k.info[k.curr_seg].type = "sequential"
      BY <1>2, <1>3, <1>5, <1>11, <1>17
    <2>5. ASSUME NEW s \in Segments, k.info[s].type = "sequential"
          PROVE  k.info[s].value = Cardinality(Taken(F, s))
      <3>1. CASE s # cs
        <4>1. Taken(F, s) = Taken(E, s)
          <5>1. \A p \in Owners : IsSequential(F[p]) /\ F[p].seg = s <=>
                                    IsSequential(E[p]) /\ E[p].seg = s
            BY <1>7, <1>13, <1>14, <1>15, <3>1
          <5>2. \A p \in Owners : IsSequential(F[p]) /\ F[p].seg = s => F[p] = E[p]
            BY <1>7, <1>13, <1>14, <3>1
          <5> QED
            BY <5>1, <5>2 DEF Taken
        <4> QED
          BY <1>11, <1>17, <2>5, <3>1, <4>1 DEF Sound, Sequentials
      <3>2. CASE s = cs
        <4>1. Taken(F, cs) = Taken(E, cs) \cup BytesOf(e)
          <5>1. \A x : x \in BytesOf(e) <=> x \in Int /\ Start(e) <= x /\ x < Stop(e)
            BY <1>9, BytesOfType DEF BytesOf
          <5>2. BytesOf(e) \subseteq Bytes
            BY <1>2, <1>3, <1>10, <5>1, SizesType DEF Bytes
          <5>3. ASSUME NEW x \in Bytes
                PROVE  x \in Taken(F, cs) <=> x \in Taken(E, cs) \/ x \in BytesOf(e)
            <6>1. x \in Int
              BY SizesType DEF Bytes
            <6>2. x \in BytesOf(e) <=> Start(F[o]) <= x /\ x < Stop(F[o])
              BY <1>14, <5>1, <6>1
            <6>3. IsSequential(F[o]) /\ F[o].seg = cs
              BY <1>7, <1>8, <1>14
            <6> QED
              BY <1>13, <1>15, <6>2, <6>3 DEF Taken
          <5>4. Taken(F, cs) \subseteq Bytes /\ Taken(E, cs) \subseteq Bytes
            BY TakenFinite
          <5> QED
            BY <5>2, <5>3, <5>4
        <4>2. Taken(E, cs) \cap BytesOf(e) = {}
          <5>1. \A x \in BytesOf(e) : x \in Int /\ j.curr_pos <= x
            BY <1>9, <1>10, BytesOfType DEF BytesOf
          <5>2. ASSUME NEW x \in Taken(E, cs), x \in Int PROVE x < j.curr_pos
            <6>1. PICK p \in Owners : IsSequential(E[p]) /\ E[p].seg = cs /\ x < Stop(E[p])
              BY DEF Taken
            <6>2. Stop(E[p]) <= j.curr_pos /\ Stop(E[p]) \in Int
              BY <1>1, <6>1, BytesOfType DEF Sound, Sequentials
            <6> QED
              BY <1>2, <5>2, <6>1, <6>2
          <5> QED
            BY <1>2, <5>1, <5>2
        <4>3. IsFiniteSet(BytesOf(e)) /\ Cardinality(BytesOf(e)) = d
          BY <1>7, <1>9, BytesOfType DEF d
        <4>4. IsFiniteSet(Taken(E, cs)) /\ Cardinality(Taken(E, cs)) \in Nat
          BY TakenFinite
        <4>5. Cardinality(Taken(E, cs) \cup BytesOf(e)) =
                Cardinality(Taken(E, cs)) + Cardinality(BytesOf(e)) - Cardinality({})
          BY <4>2, <4>3, <4>4, FS_Union
        <4>6. Cardinality({}) = 0
          BY FS_EmptySet
        <4> QED
          BY <1>3, <1>5, <1>11, <1>17, <3>2, <4>1, <4>3, <4>4, <4>5, <4>6
      <3> QED
        BY <3>1, <3>2
    <2> QED
      BY <2>2, <2>3, <2>4, <2>5 DEF Sequentials
  <1>21. Huges(k, F)
    <2>1. SameHuges(j, k, E, F)
      BY <1>11, <1>13, <1>14, <1>15, <1>16, <1>17 DEF SameHuges
    <2> QED
      BY <2>1, HugesFrame DEF Sound
  <1>22. Lists(k)
    <2>1. SameLists(j, k)
      BY <1>11, <1>17, <1>18 DEF SameLists
    <2> QED
      BY <1>1, <1>17, <2>1, ListsFrame DEF Sound
  <1>23. Infos(k)
    <2>1. \A s \in Segments : k.info[s].type = j.info[s].type
      BY <1>11, <1>17
    <2>2. SameInfos(j, k)
      BY <1>1, <1>17, <1>18, <2>1 DEF SameInfos
    <2> QED
      BY <1>1, <1>17, <2>2, InfosFrame DEF Sound
  <1> QED
    BY <1>9, <1>14, <1>17, <1>18, <1>19, <1>20, <1>21, <1>22, <1>23 DEF Sound, k, e, F, Handed

\* A value gives its bytes back; the last one frees the segment.
LEMMA SequentialFreed ==
    ASSUME NEW j, NEW E, Sound(j, E), NEW o \in Owners, IsSequential(E[o]),
           NEW x \in Einfos, ~HasSpace(x),
           NEW k, k = sequential_segment_free(j, E[o].seg, E[o].size)
    PROVE  /\ Sound(k, [E EXCEPT ![o] = x])
           /\ k.ginfo = j.ginfo
           /\ \A s \in Segments : k.info[s].type = "ginfo" => k.info[s] = j.info[s]
  <1> DEFINE F == [E EXCEPT ![o] = x]
             e == E[o]
             seg == e.seg
             d == aligned_data_size(e.size)
             left == j.info[seg].value - d
             i == IF left # 0 THEN [j.info EXCEPT ![seg].value = left] ELSE [j.info EXCEPT ![seg] = Off]
             cp == IF left = 0 /\ seg = j.curr_seg THEN SegmentSize ELSE j.curr_pos
  <1>1. j \in Columns /\ E \in [Owners -> Einfos] /\ e \in Einfos
    BY DEF Sound
  <1>2. /\ seg \in Segments /\ j.info[seg].type = "sequential"
        /\ j.info[seg].value = Cardinality(Taken(E, seg))
        /\ 0 <= Start(e) /\ Stop(e) <= SegmentSize
        /\ j.curr_seg \in Segments /\ j.curr_pos \in 0 .. SegmentSize
        /\ j.info \in [Segments -> [type : Kinds, value : Nat]]
    BY <1>1 DEF Sound, Sequentials, Einfos, Columns
  <1>3. /\ Start(e) \in Int /\ Stop(e) \in Int /\ d \in Nat \ {0}
        /\ Stop(e) = Start(e) + d
        /\ IsFiniteSet(BytesOf(e)) /\ Cardinality(BytesOf(e)) = d
    BY <1>1, BytesOfType
  <1>4. k = [j EXCEPT !.info = i, !.curr_pos = cp]
    BY <1>1 DEF sequential_segment_free, Columns
  <1>5. \A p \in Owners : p # o => F[p] = E[p]
    BY <1>1
  <1>6. F[o] = x /\ F \in [Owners -> Einfos]
    BY <1>1
  <1>7. \A v : ~IsChunk(x, v) /\ ~IsSequential(x) /\ ~IsHuge(x)
    BY DEF IsChunk, IsSequential, IsHuge
  <1>8. \A v : ~IsChunk(e, v) /\ ~IsHuge(e)
    BY DEF IsChunk, IsSequential, IsHuge
  <1> HIDE DEF F, e
  <1>9. \A y : y \in BytesOf(e) <=> y \in Int /\ Start(e) <= y /\ y < Stop(e)
    BY <1>3 DEF BytesOf
  <1>10. BytesOf(e) \subseteq Taken(E, seg)
    <2>1. \A y \in BytesOf(e) : y \in Bytes
      BY <1>2, <1>3, <1>9, SizesType DEF Bytes
    <2> QED
      BY <1>9, <2>1 DEF Taken, e
  <1>11. Taken(F, seg) = Taken(E, seg) \ BytesOf(e)
    <2>1. ASSUME NEW y \in Bytes
          PROVE  y \in Taken(F, seg) <=> y \in Taken(E, seg) /\ y \notin BytesOf(e)
      <3>1. y \in Int
        BY SizesType DEF Bytes
      <3>2. ASSUME y \in Taken(F, seg) PROVE y \in Taken(E, seg) /\ y \notin BytesOf(e)
        <4>1. PICK p \in Owners : /\ IsSequential(F[p]) /\ F[p].seg = seg
                                  /\ Start(F[p]) <= y /\ y < Stop(F[p])
          BY <3>2 DEF Taken
        <4>2. p # o /\ F[p] = E[p]
          BY <1>5, <1>6, <1>7, <4>1
        <4>3. Stop(E[p]) <= Start(E[o]) \/ Stop(E[o]) <= Start(E[p])
          BY <4>1, <4>2 DEF Sound, Sequentials, e
        <4>4. Start(E[p]) \in Int /\ Stop(E[p]) \in Int
          BY <1>1, BytesOfType
        <4>5. y \notin BytesOf(e)
          BY <1>3, <1>9, <3>1, <4>1, <4>2, <4>3, <4>4 DEF e
        <4> QED
          BY <4>1, <4>2, <4>5 DEF Taken
      <3>3. ASSUME y \in Taken(E, seg), y \notin BytesOf(e) PROVE y \in Taken(F, seg)
        <4>1. PICK p \in Owners : /\ IsSequential(E[p]) /\ E[p].seg = seg
                                  /\ Start(E[p]) <= y /\ y < Stop(E[p])
          BY <3>3 DEF Taken
        <4>2. p # o
          BY <1>9, <3>1, <3>3, <4>1 DEF e
        <4> QED
          BY <1>5, <4>1, <4>2 DEF Taken
      <3> QED
        BY <3>2, <3>3
    <2>2. Taken(F, seg) \subseteq Bytes /\ Taken(E, seg) \subseteq Bytes
      BY TakenFinite
    <2> QED
      BY <2>1, <2>2
  <1>12. left = Cardinality(Taken(F, seg)) /\ left \in Nat
    <2>1. IsFiniteSet(Taken(E, seg)) /\ Cardinality(Taken(E, seg)) \in Nat
          /\ Cardinality(Taken(F, seg)) \in Nat
      BY TakenFinite
    <2>2. Taken(E, seg) \cap BytesOf(e) = BytesOf(e)
      BY <1>10
    <2>3. Cardinality(Taken(E, seg) \ BytesOf(e)) =
            Cardinality(Taken(E, seg)) - Cardinality(Taken(E, seg) \cap BytesOf(e))
      BY <2>1, FS_Difference
    <2> QED
      BY <1>2, <1>3, <1>11, <2>1, <2>2, <2>3
  <1>13. \A p \in Owners : IsSequential(F[p]) /\ F[p].seg = seg => left # 0
    <2> SUFFICES ASSUME NEW p \in Owners, IsSequential(F[p]), F[p].seg = seg
                 PROVE  left # 0
      OBVIOUS
    <2>1. F[p] = E[p]
      BY <1>5, <1>6, <1>7
    <2>2. /\ 0 <= Start(F[p]) /\ Stop(F[p]) <= SegmentSize
          /\ Start(F[p]) \in Int /\ Stop(F[p]) \in Int /\ Start(F[p]) < Stop(F[p])
      <3>1. 0 <= Start(E[p]) /\ Stop(E[p]) <= SegmentSize
        BY <2>1 DEF Sound, Sequentials
      <3>2. PICK c \in Nat \ {0} : c = aligned_data_size(E[p].size)
        BY <1>1, BytesOfType
      <3>3. Start(E[p]) \in Int /\ Stop(E[p]) \in Int /\ Stop(E[p]) = Start(E[p]) + c
        BY <1>1, <3>2, BytesOfType
      <3> QED
        BY <2>1, <3>1, <3>2, <3>3
    <2>3. Start(F[p]) \in Taken(F, seg)
      <3>1. Start(F[p]) \in Bytes
        BY <2>2, SizesType DEF Bytes
      <3> QED
        BY <2>2, <3>1 DEF Taken
    <2>4. IsFiniteSet(Taken(F, seg))
      BY TakenFinite
    <2> QED
      BY <1>12, <2>3, <2>4, FS_EmptySet
  <1> HIDE DEF left, d
  <1>14. /\ i \in [Segments -> [type : Kinds, value : Nat]]
         /\ \A s \in Segments : s # seg => i[s] = j.info[s]
         /\ left # 0 => i[seg].type = "sequential" /\ i[seg].value = left
         /\ left = 0 => i[seg] = Off
    <2> HIDE DEF seg
    <2>1. CASE left # 0
      BY <1>2, <1>12, <2>1
    <2>2. CASE left = 0
      BY <1>2, <2>2, InfoKinds
    <2> QED
      BY <2>1, <2>2
  <1>15. cp \in 0 .. SegmentSize
    BY <1>2, SizesType
  <1> HIDE DEF i, cp
  <1>16. /\ k \in Columns /\ k.info = i /\ k.element_segs = j.element_segs
         /\ k.curr_seg = j.curr_seg /\ k.curr_pos = cp
         /\ k.free_elements = j.free_elements /\ k.garbages = j.garbages
         /\ k.n_garbages = j.n_garbages /\ k.ginfo = j.ginfo
    BY <1>1, <1>4, <1>14, <1>15 DEF Columns
  <1>17. \A s \in Segments : s # seg => k.info[s] = j.info[s]
    BY <1>14, <1>16
  <1>18. /\ k.info[seg].type \in {"off", "sequential"}
         /\ left # 0 => k.info[seg].type = "sequential" /\ k.info[seg].value = left
         /\ left = 0 => k.info[seg].type = "off"
    BY <1>14, <1>16, InfoKinds
  <1> HIDE DEF seg
  <1>19. Chunks(k, F)
    <2> SUFFICES ASSUME NEW v \in Variations
                 PROVE  ChunksInPlace(k, F, v) /\ ChunksApart(k, F, v) /\ ChunksKept(k, F, v)
      BY DEF Chunks
    <2>1. SameChunks(j, k, E, F, v)
      <3>1. \A s \in Segments :
              k.info[s] = j.info[s] \/ (/\ k.info[s].type \in {"off", "sequential"}
                                       /\ j.info[s].type = "sequential")
        BY <1>2, <1>17, <1>18
      <3> QED
        BY <1>5, <1>6, <1>7, <1>8, <1>16, <3>1, InfoKinds DEF SameChunks, IsRecord, e
    <2> QED
      BY <1>1, <1>6, <1>16, <2>1, ChunksFrame DEF Sound, Chunks
  <1>20. Sequentials(k, F)
    <2>1. \A p \in Owners : IsSequential(F[p]) => F[p] = E[p] /\ p # o /\ F[p].seg \in Segments
      BY <1>1, <1>5, <1>6, <1>7 DEF Einfos
    <2>2. \A p \in Owners : IsSequential(F[p]) =>
                /\ k.info[F[p].seg].type = "sequential"
                /\ 0 <= Start(F[p]) /\ Stop(F[p]) <= SegmentSize
                /\ F[p].seg = k.curr_seg => Stop(F[p]) <= k.curr_pos
      <3>1. \A p \in Owners : IsSequential(F[p]) =>
                /\ j.info[F[p].seg].type = "sequential"
                /\ 0 <= Start(F[p]) /\ Stop(F[p]) <= SegmentSize
                /\ F[p].seg = j.curr_seg => Stop(F[p]) <= j.curr_pos
        BY <2>1 DEF Sound, Sequentials
      <3> QED
        BY <1>13, <1>16, <1>17, <1>18, <2>1, <3>1 DEF cp
    <2>3. \A p, q \in Owners :
            IsSequential(F[p]) /\ IsSequential(F[q]) /\ p # q /\ F[p].seg = F[q].seg =>
                Stop(F[p]) <= Start(F[q]) \/ Stop(F[q]) <= Start(F[p])
      BY <2>1 DEF Sound, Sequentials
    <2>4. k.curr_pos % IdSize = 0
      BY <1>16, SizesType DEF Sound, Sequentials, cp
    <2>5. k.curr_pos < SegmentSize => k.info[k.curr_seg].type = "sequential"
      <3>1. ASSUME k.curr_pos < SegmentSize PROVE ~(left = 0 /\ seg = j.curr_seg)
        BY <1>16, <3>1, SizesType DEF cp
      <3>2. ASSUME k.curr_pos < SegmentSize PROVE j.info[j.curr_seg].type = "sequential"
        BY <1>16, <3>1, <3>2 DEF Sound, Sequentials, cp
      <3> QED
        BY <1>2, <1>16, <1>17, <1>18, <3>1, <3>2
    <2>6. ASSUME NEW s \in Segments, k.info[s].type = "sequential"
          PROVE  k.info[s].value = Cardinality(Taken(F, s))
      <3>1. CASE s # seg
        <4>1. Taken(F, s) = Taken(E, s)
          <5>1. \A p \in Owners : IsSequential(F[p]) /\ F[p].seg = s <=>
                                    IsSequential(E[p]) /\ E[p].seg = s
            BY <1>5, <1>6, <1>7, <3>1 DEF seg, e
          <5> QED
            BY <2>1, <5>1 DEF Taken
        <4> QED
          BY <1>17, <2>6, <3>1, <4>1 DEF Sound, Sequentials
      <3>2. CASE s = seg
        BY <1>12, <1>18, <2>6, <3>2
      <3> QED
        BY <3>1, <3>2
    <2> QED
      BY <2>2, <2>3, <2>4, <2>5, <2>6 DEF Sequentials
  <1>21. Huges(k, F)
    <2>1. SameHuges(j, k, E, F)
      BY <1>2, <1>5, <1>6, <1>7, <1>8, <1>17, <1>18 DEF SameHuges, e
    <2> QED
      BY <2>1, HugesFrame DEF Sound
  <1>22. \A s \in Segments : k.info[s].type \notin {"off", "sequential"} => k.info[s] = j.info[s]
    BY <1>17, <1>18
  <1>23. Lists(k)
    <2>1. SameLists(j, k)
      BY <1>2, <1>16, <1>17, <1>18 DEF SameLists
    <2> QED
      BY <1>1, <1>16, <2>1, ListsFrame DEF Sound
  <1>24. Infos(k)
    <2>1. SameInfos(j, k)
      BY <1>1, <1>2, <1>16, <1>17, <1>22 DEF SameInfos
    <2> QED
      BY <1>1, <1>2, <1>16, <1>17, <1>22, <2>1, InfosFrame DEF Sound
  <1> QED
    BY <1>6, <1>16, <1>19, <1>20, <1>21, <1>22, <1>23, <1>24 DEF Sound, F

\* The segments found for a huge value are free ones.
HugeAt(j, r, size, a) ==
    /\ r.einfo = Huge(a, size)
    /\ \A s \in a .. Last(r.einfo) : s \in Segments /\ j.info[s] = Off
    /\ r.ja = [j EXCEPT !.info = [s \in Segments |->
                    IF s \in a .. Last(r.einfo) THEN Info("huge", 0) ELSE @[s]]]

LEMMA HugeRun ==
    ASSUME NEW j \in Columns, NEW size \in Nat, size # 0,
           NEW r, r = alloc_huge(j, size), r # NoRoom
    PROVE  \E a \in Segments : HugeAt(j, r, size, a)
  <1> DEFINE B(i) == {0} \cup {s \in 0 .. i - 1 : j.info[s] # Off}
             last(i) == Max(B(i))
             ends == {i \in free_segments(j) : i = last(i) + huge_n_segments(size)}
             m == Min(ends)
             a == last(m) + 1
  <1>1. PICK n \in Nat \ {0} : n = huge_n_segments(size)
    BY HugeSize
  <1>2. ends # {} /\ r = Result([j EXCEPT !.info = [s \in Segments |->
                                    IF s \in a .. m THEN Info("huge", 0) ELSE @[s]]],
                                Huge(a, size))
    BY DEF alloc_huge
  <1>3. Segments \subseteq Nat
    BY SizesType DEF Segments
  <1>4. m \in ends
    <2>1. ends \in SUBSET Nat
      BY <1>3 DEF free_segments
    <2> HIDE DEF ends
    <2> QED
      BY <1>2, <2>1, MinType
  <1>5. /\ m \in Segments /\ m \in Nat /\ j.info[m] = Off
        /\ m = last(m) + n
    BY <1>1, <1>3, <1>4 DEF free_segments
  <1> HIDE DEF m
  <1>6. B(m) \in SUBSET (0 .. m) /\ B(m) # {}
    BY <1>5
  <1>7. last(m) \in B(m) /\ \A y \in B(m) : last(m) >= y
    <2> HIDE DEF B
    <2> QED
      BY <1>5, <1>6, MaxType
  <1>8. PICK l \in 0 .. m : l = last(m)
    BY <1>6, <1>7
  <1>9. a = l + 1 /\ m = l + n /\ a \in Nat
    BY <1>5, <1>8
  <1>10. ASSUME NEW s \in a .. m PROVE s \in Segments /\ j.info[s] = Off
    <2>1. s \in Segments
      BY <1>5, <1>9, <1>10, SizesType DEF Segments
    <2>2. CASE s = m
      BY <1>5, <2>2
    <2>3. CASE s # m
      <3>1. s \in 0 .. m - 1 /\ ~(l >= s)
        BY <1>5, <1>9, <1>10, <2>3
      <3>2. s \notin B(m)
        BY <1>7, <1>8, <3>1
      <3> QED
        BY <2>1, <3>1, <3>2
    <2> QED
      BY <2>1, <2>2, <2>3
  <1>11. a \in Segments
    <2>1. a \in a .. m
      BY <1>1, <1>5, <1>9
    <2> QED
      BY <1>10, <2>1
  <1> HIDE DEF a
  <1>12. r.einfo = Huge(a, size) /\ r.ja = [j EXCEPT !.info = [s \in Segments |->
                                    IF s \in a .. m THEN Info("huge", 0) ELSE @[s]]]
    BY <1>2 DEF Result
  <1>13. Last(r.einfo) = m
    <2>1. Last(r.einfo) = a + n - 1
      BY <1>1, <1>12 DEF Last, Huge, Einfo
    <2> QED
      <3>1. l \in Int /\ n \in Int
        BY <1>5, <1>8
      <3> QED
        BY <1>9, <2>1, <3>1
  <1>14. WITNESS a \in Segments
  <1> QED
    BY <1>10, <1>12, <1>13 DEF HugeAt

\* A value gets whole segments.
LEMMA HugeTaken ==
    ASSUME NEW j, NEW E, Sound(j, E), NEW o \in Owners, ~HasSpace(E[o]),
           NEW size \in Nat, element_type(size) = "huge",
           NEW r, r = alloc_huge(j, size), r # NoRoom
    PROVE  Handed(j, E, o, r)
  <1> DEFINE k == r.ja
             e == r.einfo
             F == [E EXCEPT ![o] = e]
             i == [s \in Segments |-> IF s \in e.seg .. Last(e) THEN Info("huge", 0) ELSE j.info[s]]
  <1>1. j \in Columns /\ E \in [Owners -> Einfos] /\ size # 0
    BY SizesOfTypes DEF Sound
  <1>2. PICK a \in Segments :
                /\ e = Huge(a, size)
                /\ \A s \in a .. Last(e) : s \in Segments /\ j.info[s] = Off
                /\ k = [j EXCEPT !.info = [s \in Segments |->
                                IF s \in a .. Last(e) THEN Info("huge", 0) ELSE @[s]]]
    <2>1. j \in Columns /\ size # 0
      BY <1>1
    <2>2. \E a \in Segments : HugeAt(j, r, size, a)
      BY <2>1, HugeRun
    <2> QED
      BY <2>2 DEF HugeAt
  <1>3. e.seg = a /\ e.size = size /\ e.type = "huge" /\ e.pos = 0
    BY <1>2 DEF Huge, Einfo
  <1>4. e \in Einfos
    BY <1>1, <1>2, SizesType DEF Huge, Einfo, Einfos, HasSpace
  <1>5. IsHuge(e) /\ ~IsSequential(e) /\ \A v : ~IsChunk(e, v)
    BY <1>1, <1>3 DEF IsChunk, IsSequential, IsHuge, HasSpace
  <1>6. k = [j EXCEPT !.info = i]
    BY <1>1, <1>2, <1>3 DEF Columns
  <1>7. Last(e) \in Int /\ e.seg \in Int
    <2>1. huge_n_segments(size) \in Nat
      BY <1>1, HugeSize
    <2> QED
      BY <1>2, <1>3, <2>1, SizesType DEF Last, Segments
  <1>8. \A p \in Owners : p # o => F[p] = E[p]
    BY <1>1
  <1>9. F[o] = e /\ F \in [Owners -> Einfos]
    BY <1>1, <1>4
  <1>10. \A v : ~IsChunk(E[o], v) /\ ~IsSequential(E[o]) /\ ~IsHuge(E[o])
    BY DEF IsChunk, IsSequential, IsHuge
  <1> DEFINE R == e.seg .. Last(e)
  <1>11. \A s \in R : s \in Segments /\ j.info[s].type = "off"
    BY <1>2, <1>3, InfoKinds
  <1>12. /\ i \in [Segments -> [type : Kinds, value : Nat]]
         /\ \A s \in Segments : s \notin R => i[s] = j.info[s]
         /\ \A s \in R : i[s].type = "huge"
    <2>1. Info("huge", 0) \in [type : Kinds, value : Nat] /\ Info("huge", 0).type = "huge"
      BY InfoKinds DEF Kinds
    <2>2. j.info \in [Segments -> [type : Kinds, value : Nat]]
      BY <1>1 DEF Columns
    <2> QED
      BY <1>11, <2>1, <2>2
  <1> HIDE DEF k, e, F, i, R
  <1>13. /\ k \in Columns /\ k.info = i /\ k.element_segs = j.element_segs
         /\ k.curr_seg = j.curr_seg /\ k.curr_pos = j.curr_pos
         /\ k.free_elements = j.free_elements /\ k.garbages = j.garbages
         /\ k.n_garbages = j.n_garbages /\ k.ginfo = j.ginfo
    BY <1>1, <1>6, <1>12 DEF Columns
  <1>14. \A s \in Segments : \/ s \notin R /\ k.info[s] = j.info[s]
                             \/ s \in R /\ k.info[s].type = "huge" /\ j.info[s].type = "off"
    BY <1>11, <1>12, <1>13
  <1>15. Chunks(k, F)
    <2> SUFFICES ASSUME NEW v \in Variations
                 PROVE  ChunksInPlace(k, F, v) /\ ChunksApart(k, F, v) /\ ChunksKept(k, F, v)
      BY DEF Chunks
    <2>1. SameChunks(j, k, E, F, v)
      BY <1>5, <1>8, <1>9, <1>10, <1>13, <1>14, InfoKinds DEF SameChunks, IsRecord
    <2> QED
      BY <1>1, <1>9, <1>13, <2>1, ChunksFrame DEF Sound, Chunks
  <1>16. Sequentials(k, F)
    <2>1. SameSequentials(j, k, E, F)
      BY <1>5, <1>8, <1>9, <1>10, <1>13, <1>14 DEF SameSequentials
    <2> QED
      BY <1>1, <1>9, <1>13, <2>1, SequentialsFrame DEF Sound
  <1>17. Huges(k, F)
    <2>1. \A p \in Owners : p # o /\ IsHuge(F[p]) =>
                \A s \in F[p].seg .. Last(F[p]) : /\ s \in Segments /\ j.info[s].type = "huge"
                                                  /\ s \notin R /\ k.info[s].type = "huge"
      BY <1>8, <1>14 DEF Sound, Huges
    <2>2. \A p \in Owners : IsHuge(F[p]) =>
                \A s \in F[p].seg .. Last(F[p]) : s \in Segments /\ k.info[s].type = "huge"
      BY <1>9, <1>11, <1>14, <2>1 DEF R
    <2>3. ASSUME NEW p \in Owners, p # o, IsHuge(F[p])
          PROVE  Last(F[p]) < e.seg \/ Last(e) < F[p].seg
      <3>1. F[p] \in Einfos /\ F[p].seg \in Int /\ F[p].size \in Nat /\ F[p].size # 0
        BY <1>9, <2>3, SizesType DEF Einfos, Segments, IsHuge, HasSpace
      <3>2. PICK m \in Nat \ {0} : m = huge_n_segments(F[p].size)
        BY <3>1, HugeSize
      <3>3. Last(F[p]) \in Int /\ F[p].seg <= Last(F[p])
        BY <3>1, <3>2 DEF Last
      <3>4. PICK n \in Nat \ {0} : n = huge_n_segments(e.size)
        BY <1>1, <1>3, HugeSize
      <3>5. e.seg <= Last(e)
        BY <1>7, <3>4 DEF Last
      <3>6. e.seg \in R /\ F[p].seg \in F[p].seg .. Last(F[p])
        BY <1>7, <3>1, <3>3, <3>5 DEF R
      <3>7. F[p].seg \notin R /\ e.seg \notin F[p].seg .. Last(F[p])
        BY <2>1, <2>3, <3>6
      <3> QED
        BY <1>7, <3>1, <3>3, <3>5, <3>7 DEF R
    <2>4. \A p, q \in Owners :
            IsHuge(F[p]) /\ IsHuge(F[q]) /\ p # q => Last(F[p]) < F[q].seg \/ Last(F[q]) < F[p].seg
      <3>1. \A p, q \in Owners : p # o /\ q # o /\ IsHuge(F[p]) /\ IsHuge(F[q]) /\ p # q =>
                Last(F[p]) < F[q].seg \/ Last(F[q]) < F[p].seg
        BY <1>8 DEF Sound, Huges
      <3> QED
        BY <1>9, <2>3, <3>1
    <2>5. ASSUME NEW s \in Segments, k.info[s].type = "huge"
          PROVE  \E p \in Owners : IsHuge(F[p]) /\ s \in F[p].seg .. Last(F[p])
      <3>1. CASE s \in R
        BY <1>5, <1>9, <3>1 DEF R
      <3>2. CASE s \notin R
        <4>1. PICK p \in Owners : IsHuge(E[p]) /\ s \in E[p].seg .. Last(E[p])
          BY <1>14, <2>5, <3>2 DEF Sound, Huges
        <4> QED
          BY <1>8, <1>10, <4>1
      <3> QED
        BY <3>1, <3>2
    <2> QED
      BY <2>2, <2>4, <2>5 DEF Huges
  <1>18. Lists(k)
    <2>1. SameLists(j, k)
      BY <1>13, <1>14 DEF SameLists
    <2> QED
      BY <1>1, <1>13, <2>1, ListsFrame DEF Sound
  <1>19. \A s \in Segments : k.info[s].type # "huge" => k.info[s] = j.info[s]
    BY <1>14
  <1>20. Infos(k)
    <2>1. SameInfos(j, k)
      BY <1>1, <1>13, <1>14, <1>19 DEF SameInfos
    <2> QED
      BY <1>1, <1>13, <1>14, <1>19, <2>1, InfosFrame DEF Sound
  <1> QED
    BY <1>4, <1>9, <1>13, <1>15, <1>16, <1>17, <1>18, <1>19, <1>20 DEF Sound, k, e, F, Handed

\* A value gives its segments back.
LEMMA HugeFreed ==
    ASSUME NEW j, NEW E, Sound(j, E), NEW o \in Owners, IsHuge(E[o]),
           NEW x \in Einfos, ~HasSpace(x),
           NEW k, k = free_huge(j, E[o])
    PROVE  /\ Sound(k, [E EXCEPT ![o] = x])
           /\ k.ginfo = j.ginfo
           /\ \A s \in Segments : k.info[s].type = "ginfo" => k.info[s] = j.info[s]
  <1> DEFINE F == [E EXCEPT ![o] = x]
             R == E[o].seg .. Last(E[o])
             i == [s \in Segments |-> IF s \in R THEN Off ELSE j.info[s]]
  <1>1. j \in Columns /\ E \in [Owners -> Einfos]
    BY DEF Sound
  <1>2. k = [j EXCEPT !.info = i]
    BY <1>1 DEF free_huge, Last, Columns
  <1>3. \A s \in R : s \in Segments /\ j.info[s].type = "huge"
    BY DEF Sound, Huges
  <1>4. \A p \in Owners : p # o => F[p] = E[p]
    BY <1>1
  <1>5. F[o] = x /\ F \in [Owners -> Einfos]
    BY <1>1
  <1>6. \A v : ~IsChunk(x, v) /\ ~IsSequential(x) /\ ~IsHuge(x)
    BY DEF IsChunk, IsSequential, IsHuge
  <1>7. \A v : ~IsChunk(E[o], v) /\ ~IsSequential(E[o])
    BY DEF IsChunk, IsSequential, IsHuge
  <1>8. /\ i \in [Segments -> [type : Kinds, value : Nat]]
        /\ \A s \in Segments : i[s] = IF s \in R THEN Off ELSE j.info[s]
    BY <1>1, InfoKinds DEF Columns
  <1> HIDE DEF F, R, i
  <1>9. /\ k \in Columns /\ k.info = i /\ k.element_segs = j.element_segs
        /\ k.curr_seg = j.curr_seg /\ k.curr_pos = j.curr_pos
        /\ k.free_elements = j.free_elements /\ k.garbages = j.garbages
        /\ k.n_garbages = j.n_garbages /\ k.ginfo = j.ginfo
    BY <1>1, <1>2, <1>8 DEF Columns
  <1>10. \A s \in Segments : \/ s \notin R /\ k.info[s] = j.info[s]
                             \/ s \in R /\ k.info[s].type = "off" /\ j.info[s].type = "huge"
    BY <1>3, <1>8, <1>9, InfoKinds
  <1>11. Chunks(k, F)
    <2> SUFFICES ASSUME NEW v \in Variations
                 PROVE  ChunksInPlace(k, F, v) /\ ChunksApart(k, F, v) /\ ChunksKept(k, F, v)
      BY DEF Chunks
    <2>1. SameChunks(j, k, E, F, v)
      BY <1>4, <1>5, <1>6, <1>7, <1>9, <1>10, InfoKinds DEF SameChunks, IsRecord
    <2> QED
      BY <1>1, <1>5, <1>9, <2>1, ChunksFrame DEF Sound, Chunks
  <1>12. Sequentials(k, F)
    <2>1. SameSequentials(j, k, E, F)
      BY <1>4, <1>5, <1>6, <1>7, <1>9, <1>10 DEF SameSequentials
    <2> QED
      BY <1>1, <1>5, <1>9, <2>1, SequentialsFrame DEF Sound
  <1>13. Huges(k, F)
    <2>1. \A p \in Owners : IsHuge(F[p]) => p # o /\ F[p] = E[p] /\ IsHuge(E[p])
      BY <1>4, <1>5, <1>6
    <2>2. ASSUME NEW p \in Owners, IsHuge(F[p]), NEW s \in F[p].seg .. Last(F[p])
          PROVE  s \in Segments /\ k.info[s].type = "huge"
      <3>1. s \in Segments /\ j.info[s].type = "huge"
        BY <2>1, <2>2 DEF Sound, Huges
      <3>2. Last(E[p]) < E[o].seg \/ Last(E[o]) < E[p].seg
        BY <2>1, <2>2 DEF Sound, Huges
      <3>3. s \notin R
        <4>1. \A q \in Owners : IsHuge(E[q]) => E[q].seg \in Int /\ Last(E[q]) \in Int
          <5> SUFFICES ASSUME NEW q \in Owners, IsHuge(E[q])
                       PROVE  E[q].seg \in Int /\ Last(E[q]) \in Int
            OBVIOUS
          <5>1. E[q].seg \in Int /\ E[q].size \in Nat /\ E[q].size # 0
            BY <1>1, SizesType DEF Einfos, Segments, IsHuge, HasSpace
          <5>2. huge_n_segments(E[q].size) \in Nat
            BY <5>1, HugeSize
          <5> QED
            BY <5>1, <5>2 DEF Last
        <4> QED
          BY <2>1, <2>2, <3>2, <4>1 DEF R
      <3> QED
        BY <1>10, <3>1, <3>3
    <2>3. \A p, q \in Owners :
            IsHuge(F[p]) /\ IsHuge(F[q]) /\ p # q => Last(F[p]) < F[q].seg \/ Last(F[q]) < F[p].seg
      BY <2>1 DEF Sound, Huges
    <2>4. ASSUME NEW s \in Segments, k.info[s].type = "huge"
          PROVE  \E p \in Owners : IsHuge(F[p]) /\ s \in F[p].seg .. Last(F[p])
      <3>1. s \notin R /\ j.info[s].type = "huge"
        BY <1>10, <2>4
      <3>2. PICK p \in Owners : IsHuge(E[p]) /\ s \in E[p].seg .. Last(E[p])
        BY <3>1 DEF Sound, Huges
      <3>3. p # o
        BY <3>1, <3>2 DEF R
      <3> QED
        BY <1>4, <3>2, <3>3
    <2> QED
      BY <2>2, <2>3, <2>4 DEF Huges
  <1>14. Lists(k)
    <2>1. SameLists(j, k)
      BY <1>9, <1>10 DEF SameLists
    <2> QED
      BY <1>1, <1>9, <2>1, ListsFrame DEF Sound
  <1>15. \A s \in Segments : k.info[s].type # "off" => k.info[s] = j.info[s]
    BY <1>10
  <1>16. Infos(k)
    <2>1. SameInfos(j, k)
      BY <1>1, <1>9, <1>10, <1>15 DEF SameInfos
    <2> QED
      BY <1>1, <1>9, <1>10, <1>15, <2>1, InfosFrame DEF Sound
  <1> QED
    BY <1>5, <1>9, <1>11, <1>12, <1>13, <1>14, <1>15, <1>16 DEF Sound, F

-----------------------------------------------------------------------------
(***************************************************************************)
(* Giving space back and handing it out, as wholes.                        *)
(***************************************************************************)
LEMMA FreeSegment ==
    ASSUME NEW j, free_segments(j) # {}
    PROVE  find_free_segment(j) \in Segments /\ j.info[find_free_segment(j)] = Off
  <1>1. free_segments(j) \in SUBSET Nat
    BY SizesType DEF free_segments, Segments
  <1>2. find_free_segment(j) \in free_segments(j)
    BY <1>1, MinType DEF find_free_segment
  <1> QED
    BY <1>2 DEF free_segments

\* The n-th segment of the list has garbage infos of the variation.
LEMMA Listed ==
    ASSUME NEW j, NEW E, Sound(j, E), NEW v \in Variations
    PROVE  \E l : /\ IsList(j, v, l) /\ Garbage(j, v) = l
                  /\ DOMAIN l = 1 .. Len(l) /\ Len(l) \in Nat
                  /\ \A n \in 1 .. Len(l) : /\ l[n] \in Segments
                                            /\ j.info[l[n]] = Info("ginfo", v)
  <1>1. PICK l : IsList(j, v, l)
    BY DEF Sound, Lists
  <1>2. Garbage(j, v) = l
    BY <1>1, GarbageIs
  <1>3. l \in Seq(Segments \ {0})
    BY <1>1 DEF IsList
  <1>4. \A n \in 1 .. Len(l) : l[n] \in Segments \ {0}
    BY <1>3
  <1>5. \A n \in 1 .. Len(l) : j.info[l[n]] = Info("ginfo", v)
    BY <1>1, <1>4 DEF IsList
  <1>6. DOMAIN l = 1 .. Len(l) /\ Len(l) \in Nat
    BY <1>3
  <1> QED
    BY <1>1, <1>2, <1>4, <1>5, <1>6

\* A value without space changes into another one.
LEMMA NoSpace ==
    ASSUME NEW j, NEW E, Good(j, E), NEW o \in Owners, ~HasSpace(E[o]),
           NEW x \in Einfos, ~HasSpace(x)
    PROVE  Good(j, [E EXCEPT ![o] = x])
  <1> DEFINE F == [E EXCEPT ![o] = x]
  <1>1. j \in Columns /\ E \in [Owners -> Einfos]
    BY DEF Good, Sound
  <1>2. F \in [Owners -> Einfos]
    BY <1>1
  <1>3. \A p \in Owners : F[p] = E[p] \/ (~HasSpace(F[p]) /\ ~HasSpace(E[p]))
    BY <1>1
  <1> HIDE DEF F
  <1>4. Chunks(j, F)
    <2> SUFFICES ASSUME NEW v \in Variations
                 PROVE  ChunksInPlace(j, F, v) /\ ChunksApart(j, F, v) /\ ChunksKept(j, F, v)
      BY DEF Chunks
    <2>1. SameChunks(j, j, E, F, v)
      BY <1>3 DEF SameChunks, IsChunk
    <2> QED
      BY <1>1, <1>2, <2>1, ChunksFrame DEF Good, Sound, Chunks
  <1>5. Sequentials(j, F)
    <2>1. SameSequentials(j, j, E, F)
      BY <1>3 DEF SameSequentials, IsSequential
    <2> QED
      BY <1>1, <1>2, <2>1, SequentialsFrame DEF Good, Sound
  <1>6. Huges(j, F)
    <2>1. SameHuges(j, j, E, F)
      BY <1>3 DEF SameHuges, IsHuge
    <2> QED
      BY <2>1, HugesFrame DEF Good, Sound
  <1> QED
    BY <1>2, <1>4, <1>5, <1>6 DEF Good, Sound, F

LEMMA NoneIsEmptyFrame ==
    ASSUME NEW j, NEW k, NoneIsEmpty(j), k.ginfo = j.ginfo,
           \A s \in Segments : k.info[s].type = "ginfo" => k.info[s] = j.info[s]
    PROVE  NoneIsEmpty(k)
  BY DEF NoneIsEmpty

LEMMA HandedGood ==
    ASSUME NEW j, NEW E, NEW o, NEW r, Handed(j, E, o, r), NoneIsEmpty(j)
    PROVE  Good(r.ja, [E EXCEPT ![o] = r.einfo]) /\ r.einfo \in Einfos
  BY NoneIsEmptyFrame DEF Handed, Good

\* A value gives its chunk back.
LEMMA ChunkFreed ==
    ASSUME NEW j, NEW E, Good(j, E), NEW u \in Variations,
           NEW o \in Owners, IsChunk(E[o], u), NEW x \in Einfos, ~HasSpace(x),
           NEW place, place = [seg |-> E[o].seg, pos |-> E[o].pos],
           NEW k, k = free_chunk(j, u, place), k # NoRoom
    PROVE  Good(k, With(E, o, x))
  <1>1. Sound(j, E) /\ NoneIsEmpty(j)
    BY DEF Good
  <1>2. PICK l : /\ IsList(j, u, l) /\ Garbage(j, u) = l
                 /\ DOMAIN l = 1 .. Len(l) /\ Len(l) \in Nat
                 /\ \A n \in 1 .. Len(l) : l[n] \in Segments /\ j.info[l[n]] = Info("ginfo", u)
    BY <1>1, Listed
  <1> DEFINE notFull == {n \in 1 .. Len(l) : Len(j.ginfo[l[n]].recs) < GarbagesInSegment}
             new == find_free_segment(j)
  <1>3. CASE notFull # {}
    <2> DEFINE n == Min(notFull)
               seg == l[n]
    <2>1. n \in notFull
      <3>1. notFull \in SUBSET Nat
        BY <1>2
      <3> HIDE DEF notFull
      <3> QED
        BY <1>3, <3>1, MinType
    <2>2. k = ginfo_segment_use(j, u, seg, place)
      BY <1>2, <1>3 DEF free_chunk
    <2>3. /\ seg \in Segments /\ j.info[seg] = Info("ginfo", u)
          /\ Len(j.ginfo[seg].recs) < GarbagesInSegment
      BY <1>2, <2>1
    <2> HIDE DEF n, seg
    <2>4. Sound(k, With(E, o, x))
      BY <1>1, <2>2, <2>3, Discarded
    <2>5. k.info = j.info /\ Len(k.ginfo[seg].recs) # 0
      BY <1>1, <2>2, <2>3, Discarded
    <2>6. \A s \in Segments \ {seg} : k.ginfo[s].recs = j.ginfo[s].recs
      BY <1>1, <2>2, <2>3, Discarded
    <2> QED
      BY <1>1, <2>4, <2>5, <2>6 DEF Good, NoneIsEmpty
  <1>4. CASE notFull = {}
    <2> DEFINE h == ginfo_segment_new(j, u, l, new)
    <2>1. free_segments(j) # {} /\ k = ginfo_segment_use(h, u, new, place)
      BY <1>2, <1>4 DEF free_chunk
    <2>2. new \in Segments /\ j.info[new] = Off
      BY <2>1, FreeSegment
    <2> HIDE DEF new, h
    <2>3. h = ginfo_segment_new(j, u, Garbage(j, u), new)
      BY <1>2 DEF h
    <2>4. /\ Sound(h, E)
          /\ h.info[new] = Info("ginfo", u) /\ h.ginfo[new].recs = <<>>
          /\ \A s \in Segments \ {new} :
                h.info[s] = j.info[s] /\ h.ginfo[s].recs = j.ginfo[s].recs
      BY <1>1, <2>2, <2>3, GinfoSegment
    <2>5. Len(h.ginfo[new].recs) < GarbagesInSegment /\ Len(h.ginfo[new].recs) = 0
      BY <2>4, SizesType
    <2>6. Sound(k, With(E, o, x))
      BY <2>1, <2>2, <2>4, <2>5, Discarded
    <2>7. k.info = h.info /\ Len(k.ginfo[new].recs) # 0
      BY <2>1, <2>2, <2>4, <2>5, Discarded
    <2>8. \A s \in Segments \ {new} : k.ginfo[s].recs = h.ginfo[s].recs
      BY <2>1, <2>2, <2>4, <2>5, Discarded
    <2>9. NoneIsEmpty(k)
      <3> SUFFICES ASSUME NEW s \in Segments, k.info[s].type = "ginfo"
                   PROVE  Len(k.ginfo[s].recs) # 0
        BY DEF NoneIsEmpty
      <3>1. CASE s = new
        BY <2>7, <3>1
      <3>2. CASE s # new
        BY <1>1, <2>4, <2>7, <2>8, <3>2 DEF NoneIsEmpty
      <3> QED
        BY <3>1, <3>2
    <2> QED
      BY <2>6, <2>9 DEF Good
  <1> QED
    BY <1>3, <1>4

\* grn_ja_free.
LEMMA Freed ==
    ASSUME NEW j, NEW E, Good(j, E), NEW o \in Owners, NEW x \in Einfos, ~HasSpace(x),
           NEW k, k = free(j, E[o]), k # NoRoom
    PROVE  Good(k, [E EXCEPT ![o] = x])
  <1> DEFINE e == E[o]
  <1>1. Sound(j, E) /\ NoneIsEmpty(j) /\ e \in Einfos
    BY DEF Good, Sound
  <1>2. CASE ~HasSpace(e)
    <2>1. e.type = "tiny" \/ e.size = 0
      BY <1>2 DEF HasSpace
    <2>2. k = j
      BY <1>1, <2>1, SizesOfTypes, VariationType DEF free, Einfos
    <2> QED
      BY <1>2, <2>2, NoSpace
  <1>3. CASE IsHuge(e)
    <2>1. k = free_huge(j, e)
      BY <1>3 DEF free, IsHuge, HasSpace
    <2>2. /\ Sound(k, [E EXCEPT ![o] = x]) /\ k.ginfo = j.ginfo
          /\ \A s \in Segments : k.info[s].type = "ginfo" => k.info[s] = j.info[s]
      BY <1>1, <1>3, <2>1, HugeFreed
    <2> QED
      BY <1>1, <2>2, NoneIsEmptyFrame DEF Good
  <1>4. CASE IsSequential(e)
    <2>1. k = sequential_segment_free(j, e.seg, e.size)
      BY <1>4 DEF free, IsSequential, HasSpace
    <2>2. /\ Sound(k, [E EXCEPT ![o] = x]) /\ k.ginfo = j.ginfo
          /\ \A s \in Segments : k.info[s].type = "ginfo" => k.info[s] = j.info[s]
      BY <1>1, <1>4, <2>1, SequentialFreed
    <2> QED
      BY <1>1, <2>2, NoneIsEmptyFrame DEF Good
  <1>5. CASE HasSpace(e) /\ e.type = "normal" /\ element_type(e.size) = "chunk"
    <2> DEFINE u == variation(e.size)
               place == [seg |-> e.seg, pos |-> e.pos]
    <2>1. u \in Variations /\ IsChunk(e, u)
      BY <1>1, <1>5, VariationType DEF Einfos, IsChunk
    <2>2. k = free_chunk(j, u, place)
      BY <1>5 DEF free, HasSpace
    <2>3. place = [seg |-> E[o].seg, pos |-> E[o].pos]
      OBVIOUS
    <2> HIDE DEF u, place
    <2> QED
      BY <2>1, <2>2, <2>3, ChunkFreed DEF With
  <1> QED
    BY <1>1, <1>2, <1>3, <1>4, <1>5 DEF Einfos, HasSpace, IsHuge, IsSequential

\* A value gets a garbage chunk: the segment it was listed in is freed with its last one.
LEMMA GarbageUsed ==
    ASSUME NEW j, NEW E, Good(j, E), NEW o \in Owners, ~HasSpace(E[o]),
           NEW size \in Nat, element_type(size) = "chunk", NEW u, u = variation(size),
           NEW l, IsList(j, u, l), NEW n \in 1 .. Len(l),
           l[n] \in Segments, j.info[l[n]] = Info("ginfo", u),
           NEW r, r = alloc_chunk_garbage(j, u, size, l, n)
    PROVE  Good(r.ja, [E EXCEPT ![o] = r.einfo]) /\ r.einfo \in Einfos
  <1> DEFINE seg == l[n]
             place == Head(j.ginfo[seg].recs)
             e == Normal(place.seg, place.pos, size)
             h == chunk_segment_reuse(j, u, seg)
             k == IF h.ginfo[seg].recs = <<>> THEN ginfo_segment_free(h, u, l, n) ELSE h
             F == [E EXCEPT ![o] = e]
  <1>1. Sound(j, E) /\ NoneIsEmpty(j) /\ u \in Variations
    BY VariationType DEF Good
  <1>2. r.ja = k /\ r.einfo = e
    BY DEF alloc_chunk_garbage, Result
  <1>3. seg \in Segments /\ j.info[seg] = Info("ginfo", u) /\ Len(j.ginfo[seg].recs) # 0
    BY <1>1, InfoKinds DEF NoneIsEmpty
  <1> HIDE DEF seg, place, e, h
  <1>4. /\ place = Head(j.ginfo[seg].recs) /\ e = Normal(place.seg, place.pos, size)
        /\ h = chunk_segment_reuse(j, u, seg)
    BY DEF place, e, h
  <1>5. Reused(j, h, E, o, e, seg)
    BY <1>1, <1>3, <1>4, Recycled
  <1>6. /\ Sound(h, F) /\ e \in Einfos
        /\ h.info = j.info /\ h.garbages = j.garbages
        /\ \A s \in Segments : h.ginfo[s].next = j.ginfo[s].next
        /\ \A s \in Segments \ {seg} : h.ginfo[s].recs = j.ginfo[s].recs
    BY <1>5 DEF Reused
  <1>7. h.ginfo[seg].recs \in Seq(Places)
    BY <1>3, <1>6 DEF Sound, Columns
  <1> HIDE DEF F
  <1>8. CASE h.ginfo[seg].recs = <<>>
    <2>1. k = ginfo_segment_free(h, u, l, n)
      BY <1>8
    <2> HIDE DEF k
    <2>2. IsList(h, u, l)
      BY <1>6, SameList
    <2>3. Len(h.ginfo[l[n]].recs) = 0
      BY <1>8 DEF seg
    <2>4. Sound(k, F)
      BY <1>1, <1>6, <2>1, <2>2, <2>3, GinfoSegmentFree
    <2>5. \A s \in Segments : /\ s # l[n] => /\ k.info[s] = h.info[s]
                                            /\ k.ginfo[s].recs = h.ginfo[s].recs
                              /\ s = l[n] => k.info[s] = Off
      BY <1>1, <1>6, <2>1, <2>2, <2>3, GinfoSegmentFree
    <2>6. NoneIsEmpty(k)
      BY <1>1, <1>6, <2>5, InfoKinds DEF NoneIsEmpty, seg
    <2> QED
      BY <1>2, <1>6, <2>4, <2>6 DEF Good, F
  <1>9. CASE h.ginfo[seg].recs # <<>>
    <2>1. k = h
      BY <1>9
    <2>2. Len(h.ginfo[seg].recs) # 0
      BY <1>7, <1>9
    <2>3. NoneIsEmpty(h)
      BY <1>1, <1>6, <2>2 DEF NoneIsEmpty
    <2> HIDE DEF k
    <2> QED
      BY <1>2, <1>6, <2>1, <2>3 DEF Good, F
  <1> QED
    BY <1>8, <1>9

LEMMA ChunkAllocated ==
    ASSUME NEW j, NEW E, Good(j, E), NEW o \in Owners, ~HasSpace(E[o]),
           NEW size \in Nat, element_type(size) = "chunk",
           NEW r, r = alloc_chunk(j, size), r # NoRoom
    PROVE  Good(r.ja, [E EXCEPT ![o] = r.einfo]) /\ r.einfo \in Einfos
  <1> DEFINE u == variation(size)
  <1>1. Sound(j, E) /\ NoneIsEmpty(j) /\ u \in Variations
    BY VariationType DEF Good
  <1>2. PICK l : /\ IsList(j, u, l) /\ Garbage(j, u) = l
                 /\ DOMAIN l = 1 .. Len(l) /\ Len(l) \in Nat
                 /\ \A n \in 1 .. Len(l) : l[n] \in Segments /\ j.info[l[n]] = Info("ginfo", u)
    BY <1>1, Listed
  <1> DEFINE usable == {n \in 1 .. Len(l) : \/ j.ginfo[l[n]].next # 0
                                            \/ Len(j.ginfo[l[n]].recs) > GarbageThreshold}
             new == find_free_segment(j)
             h == chunk_segment_new(j, u, new)
  <1>3. CASE j.n_garbages[u] > GarbageThreshold /\ usable # {}
    <2> DEFINE n == Min(usable)
    <2>1. n \in usable
      <3>1. usable \in SUBSET Nat
        BY <1>2
      <3> HIDE DEF usable
      <3> QED
        BY <1>3, <3>1, MinType
    <2>2. r = alloc_chunk_garbage(j, u, size, l, n)
      BY <1>2, <1>3 DEF alloc_chunk
    <2>3. n \in 1 .. Len(l) /\ l[n] \in Segments /\ j.info[l[n]] = Info("ginfo", u)
      BY <1>2, <2>1
    <2> HIDE DEF n, u
    <2>4. u = variation(size)
      BY DEF u
    <2> QED
      BY <1>2, <2>2, <2>3, <2>4, GarbageUsed
  <1>4. CASE ~(j.n_garbages[u] > GarbageThreshold /\ usable # {}) /\ j.free_elements[u].seg # 0
    <2>1. r = alloc_chunk_free(j, u, size)
      BY <1>2, <1>4 DEF alloc_chunk
    <2> HIDE DEF u
    <2>2. u = variation(size)
      BY DEF u
    <2>3. ChunksInPlace(j, E, u)
      BY <1>1 DEF Sound, Chunks
    <2>4. ChunkAt(j, u, j.free_elements[u])
      BY <1>4, <2>3 DEF ChunksInPlace
    <2>5. \A p \in Owners : IsChunk(E[p], u) =>
            ~(E[p].seg = j.free_elements[u].seg /\ E[p].pos >= j.free_elements[u].pos)
      BY <1>4, <2>3 DEF ChunksInPlace, InRest
    <2>6. \A s \in Segments, n \in Nat : IsRecord(j, u, s, n) =>
            ~(/\ j.ginfo[s].recs[n].seg = j.free_elements[u].seg
              /\ j.ginfo[s].recs[n].pos >= j.free_elements[u].pos)
      BY <1>4, <2>3 DEF ChunksInPlace, InRest
    <2>7. Handed(j, E, o, r)
      BY <1>1, <2>1, <2>2, <2>4, <2>5, <2>6, NextChunk
    <2> QED
      BY <1>1, <2>7, HandedGood
  <1>5. CASE ~(j.n_garbages[u] > GarbageThreshold /\ usable # {}) /\ j.free_elements[u].seg = 0
    <2>1. free_segments(j) # {} /\ r = alloc_chunk_free(h, u, size)
      BY <1>2, <1>5 DEF alloc_chunk
    <2>2. new \in Segments /\ j.info[new] = Off
      BY <2>1, FreeSegment
    <2> HIDE DEF u, new
    <2>3. u = variation(size)
      BY DEF u
    <2>4. NextFrom(j, h, E, u, new)
      BY <1>1, <1>5, <2>2, ChunkSegment
    <2> HIDE DEF h
    <2>5. /\ Sound(h, E)
          /\ h.free_elements[u] = [seg |-> new, pos |-> 0]
          /\ h.ginfo = j.ginfo
          /\ h.info[new] = ChunkInfo(u)
          /\ \A s \in Segments : h.info[s].type = "ginfo" => h.info[s] = j.info[s]
      BY <2>4 DEF NextFrom
    <2>6. \A p \in Owners : IsChunk(E[p], u) => E[p].seg # new
      BY <2>4 DEF NextFrom
    <2>7. \A s \in Segments, n \in Nat : IsRecord(h, u, s, n) => j.ginfo[s].recs[n].seg # new
      BY <2>4 DEF NextFrom
    <2>8. ChunkAt(h, u, h.free_elements[u])
      <3>1. chunk_size(u) \in Nat \ {0} /\ SegmentSize % chunk_size(u) = 0
        BY <1>1, ChunkSizes
      <3>2. 0 % chunk_size(u) = 0 /\ 0 \in Int /\ SegmentSize \in Int /\ 0 < SegmentSize
        BY <3>1, SizesType
      <3>3. 0 + chunk_size(u) <= SegmentSize
        BY <3>1, <3>2, Apart, Zenon
      <3> QED
        BY <2>5, <3>2, <3>3 DEF ChunkAt
    <2>9. \A p \in Owners : IsChunk(E[p], u) =>
            ~(E[p].seg = h.free_elements[u].seg /\ E[p].pos >= h.free_elements[u].pos)
      BY <2>5, <2>6
    <2>10. \A s \in Segments, n \in Nat : IsRecord(h, u, s, n) =>
            ~(/\ h.ginfo[s].recs[n].seg = h.free_elements[u].seg
              /\ h.ginfo[s].recs[n].pos >= h.free_elements[u].pos)
      BY <2>5, <2>7
    <2>11. Handed(h, E, o, r)
      BY <2>1, <2>3, <2>5, <2>8, <2>9, <2>10, NextChunk
    <2>12. NoneIsEmpty(h)
      BY <1>1, <2>5, NoneIsEmptyFrame
    <2> QED
      BY <2>11, <2>12, HandedGood
  <1> QED
    BY <1>3, <1>4, <1>5

\* grn_ja_alloc.
LEMMA AllocatedGood ==
    ASSUME NEW j, NEW E, Good(j, E), NEW o \in Owners, ~HasSpace(E[o]),
           NEW size \in Nat, NEW r, r = alloc(j, size), r # NoRoom
    PROVE  Good(r.ja, [E EXCEPT ![o] = r.einfo]) /\ r.einfo \in Einfos
  <1> DEFINE t == element_type(size)
  <1>1. Sound(j, E) /\ NoneIsEmpty(j)
    BY DEF Good
  <1>2. /\ t \in {"tiny", "chunk", "sequential", "huge"}
        /\ t # "tiny" => size # 0
    BY SizesOfTypes, VariationType
  <1>3. CASE size = 0
    <2>1. r.ja = j /\ r.einfo = Empty
      BY <1>2, <1>3 DEF alloc, Result
    <2>2. Empty \in Einfos /\ ~HasSpace(Empty)
      BY SizesType DEF Empty, Einfo, Einfos, HasSpace
    <2> QED
      BY <2>1, <2>2, NoSpace
  <1>4. CASE size # 0 /\ t = "tiny"
    <2>1. r.ja = j /\ r.einfo = Tiny(size)
      BY <1>4 DEF alloc, Result
    <2>2. Tiny(size) \in Einfos /\ ~HasSpace(Tiny(size))
      BY SizesType DEF Tiny, Einfo, Einfos, HasSpace
    <2> QED
      BY <2>1, <2>2, NoSpace
  <1>5. CASE t = "chunk"
    <2>1. r = alloc_chunk(j, size)
      BY <1>2, <1>5 DEF alloc
    <2> QED
      BY <1>5, <2>1, ChunkAllocated
  <1>6. CASE t = "huge"
    <2>1. r = alloc_huge(j, size)
      BY <1>2, <1>6 DEF alloc
    <2>2. Handed(j, E, o, r)
      BY <1>1, <1>6, <2>1, HugeTaken
    <2> QED
      BY <1>1, <2>2, HandedGood
  <1>7. CASE t = "sequential" /\ j.curr_pos + data_size(size) <= SegmentSize
    <2>1. r = alloc_sequential_current(j, size)
      BY <1>2, <1>7 DEF alloc, alloc_sequential
    <2>2. Handed(j, E, o, r)
      BY <1>1, <1>7, <2>1, SequentialTaken
    <2> QED
      BY <1>1, <2>2, HandedGood
  <1>8. CASE t = "sequential" /\ ~(j.curr_pos + data_size(size) <= SegmentSize)
    <2> DEFINE new == find_free_segment(j)
               h == sequential_segment_new(j, new)
    <2>1. free_segments(j) # {} /\ r = alloc_sequential_current(h, size)
      BY <1>2, <1>8 DEF alloc, alloc_sequential
    <2>2. new \in Segments /\ j.info[new] = Off
      BY <2>1, FreeSegment
    <2> HIDE DEF new
    <2>3. j \in Columns
      BY <1>1 DEF Sound
    <2>4. h.curr_pos = 0 /\ h.ginfo = j.ginfo
      BY <2>3 DEF sequential_segment_new, Columns
    <2>5. \A s \in Segments : h.info[s].type = "ginfo" => h.info[s] = j.info[s]
      BY <2>2, <2>3, InfoKinds DEF sequential_segment_new, Columns
    <2>6. Sound(h, E)
      BY <1>1, <2>2, SequentialSegment
    <2> HIDE DEF h
    <2>7. h.curr_pos + data_size(size) <= SegmentSize
      <3>1. data_size(size) \in Nat
        BY SizesType DEF data_size
      <3>2. data_size(size) <= SegmentSize
        BY <1>8, SizesOfTypes
      <3> QED
        BY <2>4, <3>1, <3>2
    <2>8. Handed(h, E, o, r)
      BY <1>8, <2>1, <2>6, <2>7, SequentialTaken
    <2>9. NoneIsEmpty(h)
      BY <1>1, <2>4, <2>5, NoneIsEmptyFrame
    <2> QED
      BY <2>8, <2>9, HandedGood
  <1> QED
    BY <1>2, <1>3, <1>4, <1>5, <1>6, <1>7, <1>8

-----------------------------------------------------------------------------
(***************************************************************************)
(* Neither touches the element infos.                                      *)
(***************************************************************************)
IsColumn(j) == {"element_segs", "einfo"} \subseteq DOMAIN j
SameElements(j, k) ==
    IsColumn(k) /\ k.element_segs = j.element_segs /\ k.einfo = j.einfo

LEMMA SameElementsTransitive ==
    ASSUME NEW j, NEW k, NEW h, SameElements(j, k), SameElements(k, h)
    PROVE  SameElements(j, h)
  BY DEF SameElements

LEMMA ColumnsAre ==
    ASSUME NEW j \in Columns
    PROVE  IsColumn(j) /\ SameElements(j, j)
  BY DEF Columns, IsColumn, SameElements

LEMMA LinkElements ==
    ASSUME NEW j, IsColumn(j), NEW v, NEW l, NEW n, NEW seg
    PROVE  SameElements(j, link(j, v, l, n, seg))
  <1>1. CASE n = 1
    BY <1>1 DEF link, IsColumn, SameElements
  <1>2. CASE n # 1
    BY <1>2 DEF link, IsColumn, SameElements
  <1> QED
    BY <1>1, <1>2

LEMMA FreeElements ==
    ASSUME NEW j, IsColumn(j), NEW e \in Einfos, free(j, e) # NoRoom
    PROVE  SameElements(j, free(j, e))
  <1>1. SameElements(j, j)
    BY DEF SameElements
  <1>2. CASE e.type = "tiny" \/ e.size = 0
    BY <1>1, <1>2, SizesOfTypes, VariationType DEF free, Einfos
  <1>3. CASE e.type = "huge" /\ e.size # 0
    BY <1>3 DEF free, free_huge, IsColumn, SameElements
  <1>4. CASE e.type = "normal" /\ e.size # 0 /\ element_type(e.size) = "sequential"
    <2>1. free(j, e) = sequential_segment_free(j, e.seg, e.size)
      BY <1>4 DEF free
    <2> QED
      BY <2>1 DEF sequential_segment_free, IsColumn, SameElements
  <1>5. CASE e.type = "normal" /\ e.size # 0 /\ element_type(e.size) = "chunk"
    <2> DEFINE v == variation(e.size)
               place == [seg |-> e.seg, pos |-> e.pos]
               list == Garbage(j, v)
               notFull == {n \in DOMAIN list : Len(j.ginfo[list[n]].recs) < GarbagesInSegment}
               new == find_free_segment(j)
               i == [j EXCEPT !.info[new] = Info("ginfo", v), !.ginfo[new] = NoGarbage]
               h == ginfo_segment_new(j, v, list, new)
    <2>1. free(j, e) = free_chunk(j, v, place)
      BY <1>5 DEF free
    <2>2. \/ free(j, e) = ginfo_segment_use(j, v, list[Min(notFull)], place)
          \/ free(j, e) = ginfo_segment_use(h, v, new, place)
      BY <2>1 DEF free_chunk
    <2> HIDE DEF v, place, list, notFull, new
    <2>3. \A k, s : IsColumn(k) => SameElements(k, ginfo_segment_use(k, v, s, place))
      BY DEF ginfo_segment_use, IsColumn, SameElements
    <2>4. SameElements(j, i) /\ IsColumn(i)
      BY DEF IsColumn, SameElements
    <2>5. h = link(i, v, list, Len(list) + 1, new)
      BY DEF ginfo_segment_new
    <2> HIDE DEF i, h
    <2>6. SameElements(i, h)
      BY <2>4, <2>5, LinkElements
    <2>7. SameElements(j, h) /\ IsColumn(h)
      BY <2>4, <2>6, SameElementsTransitive DEF SameElements
    <2>8. SameElements(h, ginfo_segment_use(h, v, new, place))
      BY <2>3, <2>7
    <2> QED
      BY <2>2, <2>3, <2>7, <2>8, SameElementsTransitive
  <1> QED
    BY <1>2, <1>3, <1>4, <1>5, SizesOfTypes DEF Einfos, HasSpace

LEMMA AllocElements ==
    ASSUME NEW j, IsColumn(j), NEW size \in Nat, alloc(j, size) # NoRoom
    PROVE  SameElements(j, alloc(j, size).ja)
  <1> DEFINE t == element_type(size)
             r == alloc(j, size)
  <1>1. /\ t \in {"tiny", "chunk", "sequential", "huge"}
        /\ t # "tiny" => size # 0
    BY SizesOfTypes, VariationType
  <1>2. SameElements(j, j)
    BY DEF SameElements
  <1>3. CASE t = "tiny"
    BY <1>1, <1>2, <1>3 DEF alloc, Result
  <1>4. CASE t = "huge"
    <2>1. r = alloc_huge(j, size)
      BY <1>1, <1>4 DEF alloc
    <2> QED
      BY <2>1 DEF alloc_huge, Result, IsColumn, SameElements
  <1>5. CASE t = "sequential"
    <2>1. r = alloc_sequential(j, size)
      BY <1>1, <1>5 DEF alloc
    <2>2. \A k : IsColumn(k) => SameElements(k, alloc_sequential_current(k, size).ja)
      BY DEF alloc_sequential_current, sequential_segment_use, Result, IsColumn, SameElements
    <2>3. \A s : SameElements(j, sequential_segment_new(j, s))
      BY DEF sequential_segment_new, IsColumn, SameElements
    <2>4. \/ r = alloc_sequential_current(j, size)
          \/ r = alloc_sequential_current(sequential_segment_new(j, find_free_segment(j)), size)
      BY <2>1 DEF alloc_sequential
    <2> QED
      BY <2>2, <2>3, <2>4, SameElementsTransitive DEF SameElements
  <1>6. CASE t = "chunk"
    <2> DEFINE v == variation(size)
               list == Garbage(j, v)
               usable == {n \in DOMAIN list : \/ j.ginfo[list[n]].next # 0
                                              \/ Len(j.ginfo[list[n]].recs) > GarbageThreshold}
               n == Min(usable)
               new == find_free_segment(j)
               h == chunk_segment_new(j, v, new)
    <2>1. r = alloc_chunk(j, size)
      BY <1>1, <1>6 DEF alloc
    <2>2. \/ r = alloc_chunk_garbage(j, v, size, list, n)
          \/ r = alloc_chunk_free(j, v, size)
          \/ r = alloc_chunk_free(h, v, size)
      BY <2>1 DEF alloc_chunk
    <2> HIDE DEF r, v, list, usable, n, new
    <2>3. \A k : IsColumn(k) => SameElements(k, alloc_chunk_free(k, v, size).ja)
      BY DEF alloc_chunk_free, chunk_segment_use, Result, IsColumn, SameElements
    <2>4. SameElements(j, h)
      BY DEF chunk_segment_new, chunk_segment_use, IsColumn, SameElements
    <2>5. SameElements(j, alloc_chunk_garbage(j, v, size, list, n).ja)
      <3> DEFINE seg == list[n]
                 k == chunk_segment_reuse(j, v, seg)
                 i == [k EXCEPT !.info[seg] = Off, !.ginfo[seg] = NoGarbage]
                 f == ginfo_segment_free(k, v, list, n)
      <3>1. SameElements(j, k) /\ IsColumn(k)
        BY DEF chunk_segment_reuse, IsColumn, SameElements
      <3>2. alloc_chunk_garbage(j, v, size, list, n).ja \in {k, f}
        BY DEF alloc_chunk_garbage, Result
      <3> HIDE DEF k
      <3>3. SameElements(k, i) /\ IsColumn(i)
        BY <3>1 DEF IsColumn, SameElements
      <3>4. f = link(i, v, list, n, k.ginfo[seg].next)
        BY DEF ginfo_segment_free
      <3> HIDE DEF i, f
      <3>5. SameElements(i, f)
        BY <3>3, <3>4, LinkElements
      <3> QED
        BY <3>1, <3>2, <3>3, <3>5, SameElementsTransitive
    <2> HIDE DEF h
    <2>6. SameElements(h, alloc_chunk_free(h, v, size).ja)
      BY <2>3, <2>4 DEF SameElements
    <2> QED
      BY <2>2, <2>3, <2>4, <2>5, <2>6, SameElementsTransitive DEF r
  <1> QED
    BY <1>1, <1>3, <1>4, <1>5, <1>6

-----------------------------------------------------------------------------
(***************************************************************************)
(* Chunks are used again: new ones are taken only while little garbage is  *)
(* listed.                                                                 *)
(***************************************************************************)
LEMMA OwnersFinite ==
    /\ IsFiniteSet(Owners) /\ Cardinality(Owners) = Cardinality(Ids) + Cardinality(Writers)
    /\ Cardinality(Ids) \in Nat /\ Cardinality(Writers) \in Nat
  <1> DEFINE A == {"record"} \X Ids
             B == {"writer"} \X Writers
  <1>1. IsFiniteSet(Ids) /\ IsFiniteSet(Writers)
    BY SizesAssumption, WritersAssumption
  <1>2. Cardinality(Ids) \in Nat /\ Cardinality(Writers) \in Nat
    BY <1>1, FS_CardinalityType
  <1>3. /\ IsFiniteSet({"record"}) /\ Cardinality({"record"}) = 1
        /\ IsFiniteSet({"writer"}) /\ Cardinality({"writer"}) = 1
    BY FS_Singleton, Zenon
  <1>4. IsFiniteSet(A) /\ Cardinality(A) = Cardinality({"record"}) * Cardinality(Ids)
    BY <1>1, <1>3, FS_Product, Zenon
  <1>5. IsFiniteSet(B) /\ Cardinality(B) = Cardinality({"writer"}) * Cardinality(Writers)
    BY <1>1, <1>3, FS_Product, Zenon
  <1>6. Cardinality(A) = Cardinality(Ids) /\ Cardinality(B) = Cardinality(Writers)
    BY <1>2, <1>3, <1>4, <1>5
  <1>7. A \cap B = {} /\ Owners = A \cup B
    BY DEF Owners
  <1> HIDE DEF A, B
  <1>8. /\ IsFiniteSet(A \cup B)
        /\ Cardinality(A \cup B) = Cardinality(A) + Cardinality(B) - Cardinality(A \cap B)
    BY <1>4, <1>5, FS_Union, Zenon
  <1> QED
    BY <1>2, <1>6, <1>7, <1>8, FS_EmptySet

LEMMA ChunkOwnersFinite ==
    ASSUME NEW E, NEW v
    PROVE  /\ IsFiniteSet(ChunkOwners(E, v)) /\ Cardinality(ChunkOwners(E, v)) \in Nat
           /\ Cardinality(ChunkOwners(E, v)) <= Cardinality(Ids) + Cardinality(Writers)
  <1>1. ChunkOwners(E, v) \in SUBSET Owners
    BY DEF ChunkOwners
  <1> QED
    BY <1>1, OwnersFinite, FS_Subset, FS_CardinalityType

\* The value of one owner changes.
LEMMA OneOwner ==
    ASSUME NEW E, NEW F, NEW o \in Owners, \A p \in Owners \ {o} : F[p] = E[p], NEW v
    PROVE  /\ IsChunk(F[o], v) =>
                Cardinality(ChunkOwners(F, v)) <= Cardinality(ChunkOwners(E, v)) + 1
           /\ ~IsChunk(F[o], v) =>
                Cardinality(ChunkOwners(F, v)) <= Cardinality(ChunkOwners(E, v))
           /\ IsChunk(E[o], v) /\ ~IsChunk(F[o], v) =>
                Cardinality(ChunkOwners(F, v)) + 1 <= Cardinality(ChunkOwners(E, v))
  <1> DEFINE C == ChunkOwners(E, v)
             D == ChunkOwners(F, v)
  <1>1. IsFiniteSet(C) /\ Cardinality(C) \in Nat /\ IsFiniteSet(D) /\ Cardinality(D) \in Nat
    BY ChunkOwnersFinite
  <1>2. D \in SUBSET (C \cup {o})
    BY DEF ChunkOwners
  <1>3. ~IsChunk(F[o], v) => D \in SUBSET C
    BY DEF ChunkOwners
  <1>4. IsChunk(E[o], v) /\ ~IsChunk(F[o], v) => o \in C /\ D \in SUBSET (C \ {o})
    BY DEF ChunkOwners
  <1> HIDE DEF C, D
  <1>5. IsFiniteSet(C \cup {o}) /\ Cardinality(C \cup {o}) <= Cardinality(C) + 1
    <2>1. /\ IsFiniteSet(C \cup {o})
          /\ Cardinality(C \cup {o}) = IF o \in C THEN Cardinality(C) ELSE Cardinality(C) + 1
      BY <1>1, FS_AddElement, Zenon
    <2> QED
      BY <1>1, <2>1
  <1>6. Cardinality(D) <= Cardinality(C \cup {o}) /\ Cardinality(C \cup {o}) \in Nat
    BY <1>2, <1>5, FS_Subset, FS_CardinalityType
  <1>7. ~IsChunk(F[o], v) => Cardinality(D) <= Cardinality(C)
    BY <1>1, <1>3, FS_Subset
  <1>8. ASSUME IsChunk(E[o], v), ~IsChunk(F[o], v) PROVE Cardinality(D) + 1 <= Cardinality(C)
    <2>1. IsFiniteSet(C \ {o}) /\ Cardinality(C \ {o}) = Cardinality(C) - 1
      BY <1>1, <1>4, <1>8, FS_RemoveElement
    <2>2. Cardinality(D) <= Cardinality(C \ {o})
      BY <1>4, <1>8, <2>1, FS_Subset
    <2> QED
      BY <1>1, <2>1, <2>2
  <1> QED
    BY <1>1, <1>5, <1>6, <1>7, <1>8 DEF C, D

\* Two owners exchange their values.
LEMMA OwnersExchanged ==
    ASSUME NEW E, NEW F, NEW a \in Owners, NEW b \in Owners, F[a] = E[b], F[b] = E[a],
           \A p \in Owners : p # a /\ p # b => F[p] = E[p], NEW v
    PROVE  Cardinality(ChunkOwners(F, v)) <= Cardinality(ChunkOwners(E, v))
  <1> DEFINE C == ChunkOwners(E, v)
             D == ChunkOwners(F, v)
             f == [o \in C |-> IF o = a THEN b ELSE IF o = b THEN a ELSE o]
  <1>1. IsFiniteSet(C)
    BY ChunkOwnersFinite
  <1>2. \A o \in C : f[o] \in D
    BY DEF ChunkOwners
  <1>3. \A d \in D : \E o \in C : f[o] = d
    BY DEF ChunkOwners
  <1>4. f \in [C -> D]
    BY <1>2
  <1> HIDE DEF C, D, f
  <1>5. f \in Surjection(C, D)
    BY <1>3, <1>4 DEF Surjection
  <1>6. Cardinality(D) <= Cardinality(C)
    BY <1>1, <1>5, FS_Surjection
  <1> QED
    BY <1>6 DEF C, D

\* What is listed.
LEMMA ListedAre ==
    ASSUME NEW j \in Columns, NEW v
    PROVE  \A r : r \in ListedRecords(j, v) <=>
                    \E s \in Segments \ {0}, n \in Nat : r = <<s, n>> /\ IsRecord(j, v, s, n)
  <1>1. \A r : r \in Records(j, v) <=>
                    \E s \in Segments, n \in Nat : r = <<s, n>> /\ IsRecord(j, v, s, n)
    BY RecordsAre
  <1> QED
    BY <1>1 DEF ListedRecords

LEMMA ListedFinite ==
    ASSUME NEW j, NEW E, Sound(j, E), NEW v \in Variations
    PROVE  /\ IsFiniteSet(ListedRecords(j, v)) /\ Cardinality(ListedRecords(j, v)) \in Nat
           /\ Cardinality(ListedRecords(j, v)) <= j.n_garbages[v]
  <1>1. IsFiniteSet(Records(j, v)) /\ j.n_garbages[v] = Cardinality(Records(j, v))
    BY DEF Sound, Lists
  <1>2. ListedRecords(j, v) \in SUBSET Records(j, v)
    BY DEF ListedRecords
  <1> QED
    BY <1>1, <1>2, FS_Subset, FS_CardinalityType

LEMMA ListedLess ==
    ASSUME NEW j, NEW E, Sound(j, E), NEW k \in Columns, NEW v \in Variations,
           \A s \in Segments \ {0}, n \in Nat : IsRecord(k, v, s, n) => IsRecord(j, v, s, n)
    PROVE  Cardinality(ListedRecords(k, v)) <= Cardinality(ListedRecords(j, v))
  <1>1. IsFiniteSet(ListedRecords(j, v)) /\ j \in Columns
    BY ListedFinite DEF Sound
  <1>2. ListedRecords(k, v) \in SUBSET ListedRecords(j, v)
    BY <1>1, ListedAre
  <1> QED
    BY <1>1, <1>2, FS_Subset

LEMMA ListedOneMore ==
    ASSUME NEW j, NEW E, Sound(j, E), NEW k \in Columns, NEW v \in Variations, NEW d,
           \A s \in Segments \ {0}, n \in Nat :
                IsRecord(k, v, s, n) => IsRecord(j, v, s, n) \/ <<s, n>> = d
    PROVE  Cardinality(ListedRecords(k, v)) <= Cardinality(ListedRecords(j, v)) + 1
  <1> DEFINE A == ListedRecords(j, v)
             B == ListedRecords(k, v)
  <1>1. IsFiniteSet(A) /\ Cardinality(A) \in Nat /\ j \in Columns
    BY ListedFinite DEF Sound
  <1>2. B \in SUBSET (A \cup {d})
    BY <1>1, ListedAre
  <1> HIDE DEF A, B
  <1>3. IsFiniteSet(A \cup {d}) /\ Cardinality(A \cup {d}) <= Cardinality(A) + 1
    BY <1>1, FS_AddElement
  <1>4. /\ Cardinality(B) <= Cardinality(A \cup {d})
        /\ Cardinality(A \cup {d}) \in Nat /\ Cardinality(B) \in Nat
    BY <1>2, <1>3, FS_Subset, FS_CardinalityType
  <1> QED
    BY <1>1, <1>3, <1>4 DEF A, B

LEMMA ListedOneLess ==
    ASSUME NEW j, NEW E, Sound(j, E), NEW k \in Columns, NEW v \in Variations,
           NEW seg \in Segments \ {0}, NEW m \in Nat, IsRecord(j, v, seg, m),
           \A s \in Segments \ {0}, n \in Nat :
                IsRecord(k, v, s, n) => IsRecord(j, v, s, n) /\ <<s, n>> # <<seg, m>>
    PROVE  Cardinality(ListedRecords(k, v)) + 1 <= Cardinality(ListedRecords(j, v))
  <1> DEFINE A == ListedRecords(j, v)
             B == ListedRecords(k, v)
             d == <<seg, m>>
  <1>1. IsFiniteSet(A) /\ Cardinality(A) \in Nat /\ j \in Columns
    BY ListedFinite DEF Sound
  <1>2. d \in A /\ B \in SUBSET (A \ {d})
    BY <1>1, ListedAre
  <1> HIDE DEF A, B, d
  <1>3. IsFiniteSet(A \ {d}) /\ Cardinality(A \ {d}) = Cardinality(A) - 1
    BY <1>1, <1>2, FS_RemoveElement
  <1>4. Cardinality(B) <= Cardinality(A \ {d}) /\ Cardinality(B) \in Nat
    BY <1>2, <1>3, FS_Subset, FS_CardinalityType
  <1> QED
    BY <1>1, <1>3, <1>4 DEF A, B

\* Where the garbage infos are as they were, no more is listed.
LEMMA ListedFrame ==
    ASSUME NEW j, NEW E, Sound(j, E), NEW k \in Columns, NEW v \in Variations,
           k.ginfo = j.ginfo,
           \A s \in Segments : k.info[s].type = "ginfo" => k.info[s] = j.info[s]
    PROVE  Cardinality(ListedRecords(k, v)) <= Cardinality(ListedRecords(j, v))
  <1>1. \A s \in Segments \ {0}, n \in Nat : IsRecord(k, v, s, n) => IsRecord(j, v, s, n)
    BY InfoKinds DEF IsRecord
  <1> QED
    BY <1>1, ListedLess

LEMMA BoundedFrame ==
    ASSUME NEW j, NEW E, Sound(j, E), Bounded(j, E), NEW k \in Columns, NEW F,
           \A v \in Variations :
                Cardinality(ListedRecords(k, v)) <= Cardinality(ListedRecords(j, v)),
           \A v \in Variations :
                Cardinality(ChunkOwners(F, v)) <= Cardinality(ChunkOwners(E, v)),
           NEW G, Sound(k, G)
    PROVE  Bounded(k, F)
  <1> SUFFICES ASSUME NEW v \in Variations
               PROVE  Cardinality(ChunkOwners(F, v)) + Cardinality(ListedRecords(k, v))
                        <= Cardinality(Ids) + Cardinality(Writers) + GarbageThreshold
    BY DEF Bounded
  <1>1. PICK a \in Nat, b \in Nat : a = Cardinality(ChunkOwners(E, v)) /\ b = Cardinality(ListedRecords(j, v))
    BY ChunkOwnersFinite, ListedFinite
  <1>2. PICK c \in Nat, d \in Nat : c = Cardinality(ChunkOwners(F, v)) /\ d = Cardinality(ListedRecords(k, v))
    BY ChunkOwnersFinite, ListedFinite
  <1>3. PICK m \in Nat : m = Cardinality(Ids) + Cardinality(Writers) + GarbageThreshold
    BY OwnersFinite, SizesType
  <1>4. a + b <= m
    BY <1>1, <1>3 DEF Bounded
  <1>5. c <= a /\ d <= b
    BY <1>1, <1>2
  <1> QED
    BY <1>2, <1>3, <1>4, <1>5

LEMMA GarbageSameBounded ==
    ASSUME NEW j, NEW E, Sound(j, E), Bounded(j, E), NEW k, Sound(k, E), k.ginfo = j.ginfo,
           \A s \in Segments : k.info[s].type = "ginfo" => k.info[s] = j.info[s]
    PROVE  Bounded(k, E)
  <1>1. k \in Columns
    BY DEF Sound
  <1>2. \A v \in Variations : Cardinality(ListedRecords(k, v)) <= Cardinality(ListedRecords(j, v))
    BY <1>1, ListedFrame
  <1>3. \A v \in Variations : Cardinality(ChunkOwners(E, v)) <= Cardinality(ChunkOwners(E, v))
    BY ChunkOwnersFinite
  <1> QED
    BY <1>1, <1>2, <1>3, BoundedFrame

LEMMA ChunkFreedBounded ==
    ASSUME NEW j, NEW E, Good(j, E), Bounded(j, E), NEW u \in Variations,
           NEW o \in Owners, IsChunk(E[o], u), NEW x \in Einfos, ~HasSpace(x),
           NEW place, place = [seg |-> E[o].seg, pos |-> E[o].pos],
           NEW k, k = free_chunk(j, u, place), k # NoRoom
    PROVE  Bounded(k, With(E, o, x))
  <1>1. Sound(j, E) /\ j \in Columns /\ E \in [Owners -> Einfos]
    BY DEF Good, Sound
  <1>2. PICK l : /\ IsList(j, u, l) /\ Garbage(j, u) = l
                 /\ DOMAIN l = 1 .. Len(l) /\ Len(l) \in Nat
                 /\ \A n \in 1 .. Len(l) : l[n] \in Segments /\ j.info[l[n]] = Info("ginfo", u)
    BY <1>1, Listed
  <1>3. Good(k, With(E, o, x))
    BY ChunkFreed
  <1>4. Sound(k, With(E, o, x)) /\ k \in Columns
    BY <1>3 DEF Good, Sound
  <1> DEFINE notFull == {n \in 1 .. Len(l) : Len(j.ginfo[l[n]].recs) < GarbagesInSegment}
             new == find_free_segment(j)
  <1>5. PICK seg \in Segments, d \in Nat :
            /\ \A s \in Segments \ {seg} : k.info[s] = j.info[s] /\ k.ginfo[s].recs = j.ginfo[s].recs
            /\ k.info[seg] = Info("ginfo", u)
            /\ Len(k.ginfo[seg].recs) = d + 1
            /\ d # 0 => j.info[seg] = Info("ginfo", u) /\ Len(j.ginfo[seg].recs) = d
    <2>1. CASE notFull # {}
      <3> DEFINE n == Min(notFull)
                 seg == l[n]
      <3>1. n \in notFull
        <4>1. notFull \in SUBSET Nat
          BY <1>2
        <4> HIDE DEF notFull
        <4> QED
          BY <2>1, <4>1, MinType
      <3>2. k = ginfo_segment_use(j, u, seg, place)
        BY <1>2, <2>1 DEF free_chunk
      <3>3. /\ seg \in Segments /\ j.info[seg] = Info("ginfo", u)
            /\ Len(j.ginfo[seg].recs) < GarbagesInSegment
        BY <1>2, <3>1
      <3> HIDE DEF n, seg
      <3>4. k.info = j.info /\ Len(k.ginfo[seg].recs) = Len(j.ginfo[seg].recs) + 1
        BY <1>1, <3>2, <3>3, Discarded
      <3>5. \A s \in Segments \ {seg} : k.ginfo[s].recs = j.ginfo[s].recs
        BY <1>1, <3>2, <3>3, Discarded
      <3>6. Len(j.ginfo[seg].recs) \in Nat
        BY <1>1, <3>3 DEF Columns
      <3> QED
        BY <3>3, <3>4, <3>5, <3>6
    <2>2. CASE notFull = {}
      <3> DEFINE h == ginfo_segment_new(j, u, l, new)
      <3>1. free_segments(j) # {} /\ k = ginfo_segment_use(h, u, new, place)
        BY <1>2, <2>2 DEF free_chunk
      <3>2. new \in Segments /\ j.info[new] = Off
        BY <3>1, FreeSegment
      <3> HIDE DEF new, h
      <3>3. h = ginfo_segment_new(j, u, Garbage(j, u), new)
        BY <1>2 DEF h
      <3>4. /\ Sound(h, E)
            /\ h.info[new] = Info("ginfo", u) /\ h.ginfo[new].recs = <<>>
            /\ \A s \in Segments \ {new} :
                  h.info[s] = j.info[s] /\ h.ginfo[s].recs = j.ginfo[s].recs
        BY <1>1, <3>2, <3>3, GinfoSegment
      <3>5. /\ Sound(h, E) /\ h.info[new] = Info("ginfo", u)
            /\ Len(h.ginfo[new].recs) < GarbagesInSegment
        BY <3>4, SizesType
      <3>6. k.info = h.info /\ Len(k.ginfo[new].recs) = Len(h.ginfo[new].recs) + 1
        BY <3>1, <3>2, <3>5, Discarded
      <3>7. \A s \in Segments \ {new} : k.ginfo[s].recs = h.ginfo[s].recs
        BY <3>1, <3>2, <3>4, <3>5, Discarded
      <3>8. PICK d \in Nat : d = 0 /\ Len(h.ginfo[new].recs) = d
        BY <3>4
      <3>9. Len(k.ginfo[new].recs) = d + 1
        BY <3>6, <3>8
      <3>10. /\ \A s \in Segments \ {new} : /\ k.info[s] = j.info[s]
                                              /\ k.ginfo[s].recs = j.ginfo[s].recs
             /\ k.info[new] = Info("ginfo", u)
        BY <3>4, <3>6, <3>7
      <3> QED
        BY <3>2, <3>8, <3>9, <3>10
    <2> QED
      BY <2>1, <2>2
  <1>6. ASSUME NEW s \in Segments, NEW n \in Nat, IsRecord(k, u, s, n)
        PROVE  IsRecord(j, u, s, n) \/ <<s, n>> = <<seg, d + 1>>
    <2>1. CASE s # seg
      BY <1>5, <1>6, <2>1 DEF IsRecord
    <2>2. CASE s = seg
      <3>1. n \in 1 .. d + 1
        BY <1>5, <1>6, <2>2 DEF IsRecord
      <3>2. CASE n = d + 1
        BY <2>2, <3>2
      <3>3. CASE n # d + 1
        <4>1. n \in 1 .. d /\ d # 0
          BY <3>1, <3>3
        <4> QED
          BY <1>5, <2>2, <4>1 DEF IsRecord
      <3> QED
        BY <3>2, <3>3
    <2> QED
      BY <2>1, <2>2
  <1>7. ASSUME NEW v \in Variations, v # u, NEW s \in Segments, NEW n \in Nat, IsRecord(k, v, s, n)
        PROVE  IsRecord(j, v, s, n)
    <2>1. Info("ginfo", u) # Info("ginfo", v)
      BY <1>7 DEF Info
    <2>2. s # seg
      BY <1>5, <1>7, <2>1 DEF IsRecord
    <2> QED
      BY <1>5, <1>7, <2>2 DEF IsRecord
  <1> DEFINE F == With(E, o, x)
  <1>8. F[o] = x /\ \A p \in Owners \ {o} : F[p] = E[p]
    BY <1>1 DEF With
  <1> HIDE DEF F
  <1>9. \A v : ~IsChunk(F[o], v)
    BY <1>8 DEF IsChunk
  <1> SUFFICES ASSUME NEW v \in Variations
               PROVE  Cardinality(ChunkOwners(F, v)) + Cardinality(ListedRecords(k, v))
                        <= Cardinality(Ids) + Cardinality(Writers) + GarbageThreshold
    BY DEF Bounded, F
  <1>10. PICK a \in Nat, b \in Nat : a = Cardinality(ChunkOwners(E, v)) /\ b = Cardinality(ListedRecords(j, v))
    BY <1>1, ChunkOwnersFinite, ListedFinite
  <1>11. PICK c \in Nat, e \in Nat : c = Cardinality(ChunkOwners(F, v)) /\ e = Cardinality(ListedRecords(k, v))
    BY <1>4, ChunkOwnersFinite, ListedFinite
  <1>12. PICK m \in Nat : m = Cardinality(Ids) + Cardinality(Writers) + GarbageThreshold
    BY OwnersFinite, SizesType
  <1>13. a + b <= m
    BY <1>10, <1>12 DEF Bounded
  <1>14. CASE v = u
    <2>1. c + 1 <= a
      BY <1>8, <1>9, <1>10, <1>11, <1>14, OneOwner
    <2>2. e <= b + 1
      <3>1. \A s \in Segments \ {0}, n \in Nat :
                IsRecord(k, u, s, n) => IsRecord(j, u, s, n) \/ <<s, n>> = <<seg, d + 1>>
        BY <1>6
      <3>2. Cardinality(ListedRecords(k, u)) <= Cardinality(ListedRecords(j, u)) + 1
        BY <1>1, <1>4, <3>1, ListedOneMore
      <3> QED
        BY <1>10, <1>11, <1>14, <3>2
    <2> QED
      BY <1>11, <1>12, <1>13, <2>1, <2>2
  <1>15. CASE v # u
    <2>1. c <= a
      BY <1>8, <1>9, <1>10, <1>11, OneOwner
    <2>2. e <= b
      BY <1>1, <1>4, <1>7, <1>10, <1>11, <1>15, ListedLess
    <2> QED
      BY <1>11, <1>12, <1>13, <2>1, <2>2
  <1> QED
    BY <1>14, <1>15

\* grn_ja_free.
LEMMA FreedBounded ==
    ASSUME NEW j, NEW E, Good(j, E), Bounded(j, E), NEW o \in Owners, NEW x \in Einfos, ~HasSpace(x),
           NEW k, k = free(j, E[o]), k # NoRoom
    PROVE  Bounded(k, [E EXCEPT ![o] = x])
  <1> DEFINE e == E[o]
             F == [E EXCEPT ![o] = x]
  <1>0. Sound(j, E)
    BY DEF Good
  <1>1. Sound(j, E) /\ e \in Einfos /\ E \in [Owners -> Einfos] /\ j \in Columns
    BY DEF Good, Sound
  <1>2. Good(k, F)
    BY Freed
  <1>3. F[o] = x /\ \A p \in Owners \ {o} : F[p] = E[p]
    BY <1>1
  <1> HIDE DEF F
  <1>4. Sound(k, F) /\ k \in Columns
    BY <1>2 DEF Good, Sound
  <1>5. \A v : ~IsChunk(F[o], v)
    BY <1>3 DEF IsChunk
  <1>6. \A v \in Variations : Cardinality(ChunkOwners(F, v)) <= Cardinality(ChunkOwners(E, v))
    BY <1>3, <1>5, OneOwner
  <1>7. ASSUME k.ginfo = j.ginfo,
               \A s \in Segments : k.info[s].type = "ginfo" => k.info[s] = j.info[s]
        PROVE  Bounded(k, F)
    <2>1. \A v \in Variations : Cardinality(ListedRecords(k, v)) <= Cardinality(ListedRecords(j, v))
      BY <1>1, <1>4, <1>7, ListedFrame
    <2> QED
      BY <1>1, <1>4, <1>6, <2>1, BoundedFrame
  <1>8. CASE ~HasSpace(e)
    <2>1. e.type = "tiny" \/ e.size = 0
      BY <1>8 DEF HasSpace
    <2>2. k = j
      BY <1>1, <2>1, SizesOfTypes, VariationType DEF free, Einfos
    <2> QED
      BY <1>7, <2>2 DEF F
  <1>9. CASE IsHuge(e)
    <2>1. k = free_huge(j, e)
      BY <1>9 DEF free, IsHuge, HasSpace
    <2>2. /\ Sound(k, [E EXCEPT ![o] = x]) /\ k.ginfo = j.ginfo
          /\ \A s \in Segments : k.info[s].type = "ginfo" => k.info[s] = j.info[s]
      BY <1>0, <1>9, <2>1, HugeFreed
    <2> QED
      BY <1>7, <2>2 DEF F
  <1>10. CASE IsSequential(e)
    <2>1. k = sequential_segment_free(j, e.seg, e.size)
      BY <1>10 DEF free, IsSequential, HasSpace
    <2>2. /\ Sound(k, [E EXCEPT ![o] = x]) /\ k.ginfo = j.ginfo
          /\ \A s \in Segments : k.info[s].type = "ginfo" => k.info[s] = j.info[s]
      BY <1>0, <1>10, <2>1, SequentialFreed
    <2> QED
      BY <1>7, <2>2 DEF F
  <1>11. CASE HasSpace(e) /\ e.type = "normal" /\ element_type(e.size) = "chunk"
    <2> DEFINE u == variation(e.size)
               place == [seg |-> e.seg, pos |-> e.pos]
    <2>1. u \in Variations /\ IsChunk(e, u)
      BY <1>1, <1>11, VariationType DEF Einfos, IsChunk
    <2>2. k = free_chunk(j, u, place)
      BY <1>11 DEF free, HasSpace
    <2>3. place = [seg |-> E[o].seg, pos |-> E[o].pos]
      OBVIOUS
    <2> HIDE DEF u, place
    <2> QED
      BY <2>1, <2>2, <2>3, ChunkFreedBounded DEF With
  <1> QED
    BY <1>1, <1>8, <1>9, <1>10, <1>11 DEF Einfos, HasSpace, IsHuge, IsSequential

\* Space is handed out without garbage: a chunk only when little garbage is listed.
LEMMA HandedBounded ==
    ASSUME NEW j, NEW E, Sound(j, E), Bounded(j, E), NEW o \in Owners, NEW r, Handed(j, E, o, r),
           \A v \in Variations : IsChunk(r.einfo, v) =>
                Cardinality(ListedRecords(j, v)) <= GarbageThreshold
    PROVE  Bounded(r.ja, [E EXCEPT ![o] = r.einfo])
  <1> DEFINE F == [E EXCEPT ![o] = r.einfo]
             k == r.ja
  <1>1. /\ Sound(k, F) /\ k.ginfo = j.ginfo
        /\ \A s \in Segments : k.info[s].type = "ginfo" => k.info[s] = j.info[s]
    BY DEF Handed
  <1>2. E \in [Owners -> Einfos]
    BY DEF Sound
  <1>3. F[o] = r.einfo /\ \A p \in Owners \ {o} : F[p] = E[p]
    BY <1>2
  <1> HIDE DEF F, k
  <1>4. k \in Columns
    BY <1>1 DEF Sound
  <1> SUFFICES ASSUME NEW v \in Variations
               PROVE  Cardinality(ChunkOwners(F, v)) + Cardinality(ListedRecords(k, v))
                        <= Cardinality(Ids) + Cardinality(Writers) + GarbageThreshold
    BY DEF Bounded, F, k
  <1>5. PICK a \in Nat, b \in Nat : a = Cardinality(ChunkOwners(E, v)) /\ b = Cardinality(ListedRecords(j, v))
    BY ChunkOwnersFinite, ListedFinite
  <1>6. PICK c \in Nat, e \in Nat : c = Cardinality(ChunkOwners(F, v)) /\ e = Cardinality(ListedRecords(k, v))
    BY <1>1, ChunkOwnersFinite, ListedFinite
  <1>7. PICK n \in Nat : n = Cardinality(Ids) + Cardinality(Writers)
    BY OwnersFinite
  <1>8. a + b <= n + GarbageThreshold
    BY <1>5, <1>7 DEF Bounded
  <1>9. e <= b
    BY <1>1, <1>4, <1>5, <1>6, ListedFrame
  <1>10. CASE IsChunk(r.einfo, v)
    <2>1. c <= n /\ b <= GarbageThreshold
      BY <1>5, <1>6, <1>7, <1>10, ChunkOwnersFinite
    <2> QED
      BY <1>6, <1>7, <1>9, <2>1, SizesType
  <1>11. CASE ~IsChunk(r.einfo, v)
    <2>1. c <= a
      BY <1>3, <1>5, <1>6, <1>11, OneOwner
    <2> QED
      BY <1>6, <1>7, <1>8, <1>9, <2>1, SizesType
  <1> QED
    BY <1>10, <1>11

\* A listed chunk is used again.
LEMMA GarbageUsedBounded ==
    ASSUME NEW j, NEW E, Good(j, E), Bounded(j, E), NEW o \in Owners, ~HasSpace(E[o]),
           NEW size \in Nat, element_type(size) = "chunk", NEW u, u = variation(size),
           NEW l, IsList(j, u, l), NEW n \in 1 .. Len(l),
           l[n] \in Segments, j.info[l[n]] = Info("ginfo", u),
           NEW r, r = alloc_chunk_garbage(j, u, size, l, n)
    PROVE  Bounded(r.ja, [E EXCEPT ![o] = r.einfo])
  <1> DEFINE seg == l[n]
             place == Head(j.ginfo[seg].recs)
             e == Normal(place.seg, place.pos, size)
             h == chunk_segment_reuse(j, u, seg)
             k == IF h.ginfo[seg].recs = <<>> THEN ginfo_segment_free(h, u, l, n) ELSE h
             F == [E EXCEPT ![o] = e]
  <1>1. Sound(j, E) /\ NoneIsEmpty(j) /\ u \in Variations /\ E \in [Owners -> Einfos] /\ j \in Columns
    BY VariationType DEF Good, Sound
  <1>2. r.ja = k /\ r.einfo = e
    BY DEF alloc_chunk_garbage, Result
  <1>3. seg \in Segments /\ j.info[seg] = Info("ginfo", u) /\ Len(j.ginfo[seg].recs) # 0
    BY <1>1, InfoKinds DEF NoneIsEmpty
  <1>4. seg # 0
    <2>1. l \in Seq(Segments \ {0})
      BY DEF IsList
    <2> QED
      BY <2>1
  <1>5. Good(k, F)
    BY <1>2, GarbageUsed
  <1>6. F[o] = e /\ \A p \in Owners \ {o} : F[p] = E[p]
    BY <1>1
  <1>7. \A v : IsChunk(e, v) => v = u
    BY DEF e, Normal, Einfo, IsChunk
  <1> HIDE DEF seg, place, e, h
  <1>8. /\ place = Head(j.ginfo[seg].recs) /\ e = Normal(place.seg, place.pos, size)
        /\ h = chunk_segment_reuse(j, u, seg)
    BY DEF place, e, h
  <1>9. Reused(j, h, E, o, e, seg)
    BY <1>1, <1>3, <1>8, Recycled
  <1>10. /\ Sound(h, F)
         /\ h.info = j.info /\ h.garbages = j.garbages
         /\ \A s \in Segments : h.ginfo[s].next = j.ginfo[s].next
         /\ \A s \in Segments \ {seg} : h.ginfo[s].recs = j.ginfo[s].recs
         /\ Len(h.ginfo[seg].recs) = Len(j.ginfo[seg].recs) - 1
    BY <1>9 DEF Reused
  <1> HIDE DEF F
  <1>11. \A s \in Segments :
            /\ s # seg => k.info[s] = j.info[s] /\ k.ginfo[s].recs = j.ginfo[s].recs
            /\ s = seg => k.info[s] = Off \/ (k.info[s] = j.info[s] /\ k.ginfo[s].recs = h.ginfo[s].recs)
    <2>1. CASE h.ginfo[seg].recs = <<>>
      <3>1. k = ginfo_segment_free(h, u, l, n)
        BY <2>1
      <3> HIDE DEF k
      <3>2. IsList(h, u, l)
        BY <1>10, SameList
      <3>3. Len(h.ginfo[l[n]].recs) = 0
        BY <2>1 DEF seg
      <3>4. \A s \in Segments : /\ s # l[n] => /\ k.info[s] = h.info[s]
                                              /\ k.ginfo[s].recs = h.ginfo[s].recs
                                /\ s = l[n] => k.info[s] = Off
        BY <1>1, <1>10, <3>1, <3>2, <3>3, GinfoSegmentFree
      <3> QED
        BY <1>10, <3>4 DEF seg
    <2>2. CASE h.ginfo[seg].recs # <<>>
      <3>1. k = h
        BY <2>2
      <3> HIDE DEF k
      <3> QED
        BY <1>10, <3>1
    <2> QED
      BY <2>1, <2>2
  <1> HIDE DEF k
  <1>12. Sound(k, F) /\ k \in Columns
    BY <1>5 DEF Good, Sound
  <1>13. PICK m \in Nat \ {0} : m = Len(j.ginfo[seg].recs)
    BY <1>1, <1>3 DEF Columns
  <1>14. IsRecord(j, u, seg, m)
    BY <1>3, <1>13 DEF IsRecord
  <1>15. ASSUME NEW v \in Variations, NEW s \in Segments \ {0}, NEW i \in Nat, IsRecord(k, v, s, i)
         PROVE  IsRecord(j, v, s, i) /\ <<s, i>> # <<seg, m>>
    <2>1. CASE s # seg
      BY <1>11, <1>15, <2>1 DEF IsRecord
    <2>2. CASE s = seg
      <3>1. k.info[s] = Info("ginfo", v)
        BY <1>15 DEF IsRecord
      <3>2. k.info[s] # Off
        BY <3>1, InfoKinds
      <3>3. k.info[s] = j.info[s] /\ k.ginfo[s].recs = h.ginfo[s].recs
        BY <1>11, <2>2, <3>2
      <3>4. i \in 1 .. m - 1
        BY <1>10, <1>13, <1>15, <2>2, <3>3 DEF IsRecord
      <3>5. i \in 1 .. m /\ i # m
        BY <3>4
      <3> QED
        BY <1>13, <2>2, <3>1, <3>3, <3>5 DEF IsRecord
    <2> QED
      BY <2>1, <2>2
  <1> SUFFICES ASSUME NEW v \in Variations
               PROVE  Cardinality(ChunkOwners(F, v)) + Cardinality(ListedRecords(k, v))
                        <= Cardinality(Ids) + Cardinality(Writers) + GarbageThreshold
    BY <1>2 DEF Bounded, F
  <1>16. PICK a \in Nat, b \in Nat : a = Cardinality(ChunkOwners(E, v)) /\ b = Cardinality(ListedRecords(j, v))
    BY <1>1, ChunkOwnersFinite, ListedFinite
  <1>17. PICK c \in Nat, d \in Nat : c = Cardinality(ChunkOwners(F, v)) /\ d = Cardinality(ListedRecords(k, v))
    BY <1>12, ChunkOwnersFinite, ListedFinite
  <1>18. PICK z \in Nat : z = Cardinality(Ids) + Cardinality(Writers) + GarbageThreshold
    BY OwnersFinite, SizesType
  <1>19. a + b <= z
    BY <1>16, <1>18 DEF Bounded
  <1>20. CASE v = u
    <2>1. c <= a + 1
      <3>1. c <= a \/ c <= a + 1
        BY <1>6, <1>16, <1>17, OneOwner
      <3> QED
        BY <3>1
    <2>2. d + 1 <= b
      <3>1. seg \in Segments \ {0}
        BY <1>3, <1>4
      <3>2. \A s \in Segments \ {0}, i \in Nat :
                IsRecord(k, u, s, i) => IsRecord(j, u, s, i) /\ <<s, i>> # <<seg, m>>
        BY <1>1, <1>15
      <3>3. Cardinality(ListedRecords(k, u)) + 1 <= Cardinality(ListedRecords(j, u))
        BY <1>1, <1>12, <1>14, <3>1, <3>2, ListedOneLess
      <3> QED
        BY <1>16, <1>17, <1>20, <3>3
    <2> QED
      BY <1>17, <1>18, <1>19, <2>1, <2>2
  <1>21. CASE v # u
    <2>1. c <= a
      BY <1>6, <1>7, <1>16, <1>17, <1>21, OneOwner
    <2>2. d <= b
      BY <1>1, <1>12, <1>15, <1>16, <1>17, ListedLess
    <2> QED
      BY <1>17, <1>18, <1>19, <2>1, <2>2
  <1> QED
    BY <1>20, <1>21

\* Garbage is not used only while little of it is listed: either there is little of it, or it
\* is all in one segment that has little.
LEMMA LittleGarbage ==
    ASSUME NEW j, NEW E, Sound(j, E), NEW u \in Variations, NEW l, IsList(j, u, l),
           j.n_garbages[u] > GarbageThreshold =>
                \A n \in 1 .. Len(l) : /\ j.ginfo[l[n]].next = 0
                                       /\ ~(Len(j.ginfo[l[n]].recs) > GarbageThreshold)
    PROVE  Cardinality(ListedRecords(j, u)) <= GarbageThreshold
  <1>1. j \in Columns /\ GarbageThreshold \in Nat /\ j.n_garbages[u] \in Int
    BY SizesType DEF Sound, Columns
  <1>2. CASE ~(j.n_garbages[u] > GarbageThreshold)
    BY <1>1, <1>2, ListedFinite
  <1>3. CASE j.n_garbages[u] > GarbageThreshold
    <2> DEFINE A == {l[1]} \X (1 .. GarbageThreshold)
    <2>1. l \in Seq(Segments \ {0}) /\ Len(l) \in Nat
      BY DEF IsList
    <2>2. ASSUME NEW n \in 1 .. Len(l) PROVE n = 1
      <3>1. SUFFICES ASSUME n # 1 PROVE FALSE
        OBVIOUS
      <3>2. 1 \in 1 .. Len(l) /\ 2 \in 1 .. Len(l) /\ 1 # Len(l)
        <4>1. PICK i \in Nat : i = Len(l)
          BY <2>1
        <4>2. n \in Int /\ 1 <= n /\ n <= i
          BY <4>1
        <4>3. 2 <= i
          BY <3>1, <4>2
        <4> QED
          BY <4>1, <4>3
      <3>3. j.ginfo[l[1]].next = l[1 + 1]
        BY <3>2 DEF IsList
      <3>4. l[1 + 1] # 0
        <4>1. l[2] \in Segments \ {0} /\ 1 + 1 = 2
          BY <2>1, <3>2
        <4> QED
          BY <4>1
      <3>5. j.ginfo[l[1]].next = 0
        BY <1>3, <3>2
      <3> QED
        BY <3>3, <3>4, <3>5
    <2>3. ASSUME NEW s \in Segments \ {0}, NEW n \in Nat, IsRecord(j, u, s, n)
          PROVE  <<s, n>> \in A
      <3>1. j.info[s] = Info("ginfo", u) /\ n \in 1 .. Len(j.ginfo[s].recs)
        BY <2>3 DEF IsRecord
      <3>2. PICK m \in 1 .. Len(l) : l[m] = s
        BY <3>1 DEF IsList
      <3>3. l[1] = s
        BY <2>2, <3>2
      <3>4. ~(Len(j.ginfo[s].recs) > GarbageThreshold)
        BY <1>3, <3>2
      <3>5. Len(j.ginfo[s].recs) \in Nat
        BY <1>1 DEF Columns
      <3>6. n \in 1 .. GarbageThreshold
        BY <1>1, <3>1, <3>4, <3>5
      <3> QED
        BY <3>3, <3>6
    <2>4. ListedRecords(j, u) \in SUBSET A
      <3> HIDE DEF A
      <3> QED
        BY <1>1, <2>3, ListedAre
    <2>5. IsFiniteSet({l[1]}) /\ Cardinality({l[1]}) = 1
      BY FS_Singleton, Zenon
    <2>6. IsFiniteSet(1 .. GarbageThreshold) /\ Cardinality(1 .. GarbageThreshold) = GarbageThreshold
      BY <1>1, FS_Interval
    <2>7. IsFiniteSet(A) /\ Cardinality(A) = Cardinality({l[1]}) * Cardinality(1 .. GarbageThreshold)
      BY <2>5, <2>6, FS_Product, Zenon
    <2> HIDE DEF A
    <2>8. Cardinality(A) = GarbageThreshold
      BY <1>1, <2>5, <2>6, <2>7
    <2> QED
      BY <2>4, <2>7, <2>8, FS_Subset
  <1> QED
    BY <1>2, <1>3

LEMMA ChunkAllocatedBounded ==
    ASSUME NEW j, NEW E, Good(j, E), Bounded(j, E), NEW o \in Owners, ~HasSpace(E[o]),
           NEW size \in Nat, element_type(size) = "chunk",
           NEW r, r = alloc_chunk(j, size), r # NoRoom
    PROVE  Bounded(r.ja, [E EXCEPT ![o] = r.einfo])
  <1> DEFINE u == variation(size)
  <1>1. Sound(j, E) /\ NoneIsEmpty(j) /\ u \in Variations
    BY VariationType DEF Good
  <1>2. PICK l : /\ IsList(j, u, l) /\ Garbage(j, u) = l
                 /\ DOMAIN l = 1 .. Len(l) /\ Len(l) \in Nat
                 /\ \A n \in 1 .. Len(l) : l[n] \in Segments /\ j.info[l[n]] = Info("ginfo", u)
    BY <1>1, Listed
  <1> DEFINE usable == {n \in 1 .. Len(l) : \/ j.ginfo[l[n]].next # 0
                                            \/ Len(j.ginfo[l[n]].recs) > GarbageThreshold}
             new == find_free_segment(j)
             h == chunk_segment_new(j, u, new)
  <1>3. CASE j.n_garbages[u] > GarbageThreshold /\ usable # {}
    <2> DEFINE n == Min(usable)
    <2>1. n \in usable
      <3>1. usable \in SUBSET Nat
        BY <1>2
      <3> HIDE DEF usable
      <3> QED
        BY <1>3, <3>1, MinType
    <2>2. r = alloc_chunk_garbage(j, u, size, l, n)
      BY <1>2, <1>3 DEF alloc_chunk
    <2>3. n \in 1 .. Len(l) /\ l[n] \in Segments /\ j.info[l[n]] = Info("ginfo", u)
      BY <1>2, <2>1
    <2> HIDE DEF n, u
    <2>4. u = variation(size)
      BY DEF u
    <2> QED
      BY <1>2, <2>2, <2>3, <2>4, GarbageUsedBounded
  <1>4. CASE ~(j.n_garbages[u] > GarbageThreshold /\ usable # {})
    <2>1. Cardinality(ListedRecords(j, u)) <= GarbageThreshold
      <3>1. j.n_garbages[u] > GarbageThreshold =>
                \A n \in 1 .. Len(l) : /\ j.ginfo[l[n]].next = 0
                                       /\ ~(Len(j.ginfo[l[n]].recs) > GarbageThreshold)
        BY <1>4
      <3> HIDE DEF u, usable
      <3> QED
        BY <1>1, <1>2, <3>1, LittleGarbage
    <2>2. CASE j.free_elements[u].seg # 0
      <3>1. r = alloc_chunk_free(j, u, size)
        BY <1>2, <1>4, <2>2 DEF alloc_chunk
      <3> HIDE DEF u
      <3>2. u = variation(size)
        BY DEF u
      <3>3. ChunksInPlace(j, E, u)
        BY <1>1 DEF Sound, Chunks
      <3>4. ChunkAt(j, u, j.free_elements[u])
        BY <2>2, <3>3 DEF ChunksInPlace
      <3>5. \A p \in Owners : IsChunk(E[p], u) =>
              ~(E[p].seg = j.free_elements[u].seg /\ E[p].pos >= j.free_elements[u].pos)
        BY <2>2, <3>3 DEF ChunksInPlace, InRest
      <3>6. \A s \in Segments, n \in Nat : IsRecord(j, u, s, n) =>
              ~(/\ j.ginfo[s].recs[n].seg = j.free_elements[u].seg
                /\ j.ginfo[s].recs[n].pos >= j.free_elements[u].pos)
        BY <2>2, <3>3 DEF ChunksInPlace, InRest
      <3>7. Handed(j, E, o, r)
        BY <1>1, <3>1, <3>2, <3>4, <3>5, <3>6, NextChunk
      <3>8. \A v : IsChunk(r.einfo, v) => v = u
        BY <3>1, <3>2 DEF alloc_chunk_free, Result, Normal, Einfo, IsChunk
      <3> QED
        BY <1>1, <2>1, <3>7, <3>8, HandedBounded
    <2>3. CASE j.free_elements[u].seg = 0
      <3>1. free_segments(j) # {} /\ r = alloc_chunk_free(h, u, size)
        BY <1>2, <1>4, <2>3 DEF alloc_chunk
      <3>2. new \in Segments /\ j.info[new] = Off
        BY <3>1, FreeSegment
      <3> HIDE DEF u, new
      <3>3. u = variation(size)
        BY DEF u
      <3>4. NextFrom(j, h, E, u, new)
        BY <1>1, <2>3, <3>2, ChunkSegment
      <3> HIDE DEF h
      <3>5. /\ Sound(h, E)
            /\ h.free_elements[u] = [seg |-> new, pos |-> 0]
            /\ h.ginfo = j.ginfo
            /\ h.info[new] = ChunkInfo(u)
            /\ \A s \in Segments : h.info[s].type = "ginfo" => h.info[s] = j.info[s]
        BY <3>4 DEF NextFrom
      <3>6. \A p \in Owners : IsChunk(E[p], u) => E[p].seg # new
        BY <3>4 DEF NextFrom
      <3>7. \A s \in Segments, n \in Nat : IsRecord(h, u, s, n) => j.ginfo[s].recs[n].seg # new
        BY <3>4 DEF NextFrom
      <3>8. ChunkAt(h, u, h.free_elements[u])
        <4>1. chunk_size(u) \in Nat \ {0} /\ SegmentSize % chunk_size(u) = 0
          BY <1>1, ChunkSizes
        <4>2. 0 % chunk_size(u) = 0 /\ 0 \in Int /\ SegmentSize \in Int /\ 0 < SegmentSize
          BY <4>1, SizesType
        <4>3. 0 + chunk_size(u) <= SegmentSize
          BY <4>1, <4>2, Apart, Zenon
        <4> QED
          BY <3>5, <4>2, <4>3 DEF ChunkAt
      <3>9. \A p \in Owners : IsChunk(E[p], u) =>
              ~(E[p].seg = h.free_elements[u].seg /\ E[p].pos >= h.free_elements[u].pos)
        BY <3>5, <3>6
      <3>10. \A s \in Segments, n \in Nat : IsRecord(h, u, s, n) =>
              ~(/\ h.ginfo[s].recs[n].seg = h.free_elements[u].seg
                /\ h.ginfo[s].recs[n].pos >= h.free_elements[u].pos)
        BY <3>5, <3>7
      <3>11. Handed(h, E, o, r)
        BY <3>1, <3>3, <3>5, <3>8, <3>9, <3>10, NextChunk
      <3>12. \A v : IsChunk(r.einfo, v) => v = u
        BY <3>1, <3>3 DEF alloc_chunk_free, Result, Normal, Einfo, IsChunk
      <3>13. h \in Columns
        BY <3>5 DEF Sound
      <3>14. \A v \in Variations :
                Cardinality(ListedRecords(h, v)) <= Cardinality(ListedRecords(j, v))
        BY <1>1, <3>5, <3>13, ListedFrame
      <3>15. Bounded(h, E)
        BY <1>1, <3>5, GarbageSameBounded
      <3>16. Cardinality(ListedRecords(h, u)) <= GarbageThreshold
        <4>1. PICK a \in Nat, b \in Nat : /\ a = Cardinality(ListedRecords(h, u))
                                          /\ b = Cardinality(ListedRecords(j, u))
          BY <1>1, <3>5, ListedFinite
        <4>2. a <= b /\ b <= GarbageThreshold
          BY <1>1, <2>1, <3>14, <4>1
        <4> QED
          BY <4>1, <4>2, SizesType
      <3> QED
        BY <3>5, <3>11, <3>12, <3>15, <3>16, HandedBounded
    <2> QED
      BY <2>2, <2>3
  <1> QED
    BY <1>3, <1>4

LEMMA NoSpaceBounded ==
    ASSUME NEW j, NEW E, Sound(j, E), Bounded(j, E), NEW o \in Owners, NEW x, ~HasSpace(x)
    PROVE  Bounded(j, [E EXCEPT ![o] = x])
  <1> DEFINE F == [E EXCEPT ![o] = x]
  <1>1. E \in [Owners -> Einfos] /\ j \in Columns
    BY DEF Sound
  <1>2. F[o] = x /\ \A p \in Owners \ {o} : F[p] = E[p]
    BY <1>1
  <1> HIDE DEF F
  <1>3. \A v : ~IsChunk(F[o], v)
    BY <1>2 DEF IsChunk
  <1>4. \A v \in Variations : Cardinality(ChunkOwners(F, v)) <= Cardinality(ChunkOwners(E, v))
    BY <1>2, <1>3, OneOwner
  <1>5. \A v \in Variations : Cardinality(ListedRecords(j, v)) <= Cardinality(ListedRecords(j, v))
    BY ListedFinite
  <1>6. Bounded(j, F)
    BY <1>1, <1>4, <1>5, BoundedFrame
  <1> QED
    BY <1>6 DEF F

\* grn_ja_alloc.
LEMMA AllocatedBounded ==
    ASSUME NEW j, NEW E, Good(j, E), Bounded(j, E), NEW o \in Owners, ~HasSpace(E[o]),
           NEW size \in Nat, NEW r, r = alloc(j, size), r # NoRoom
    PROVE  Bounded(r.ja, [E EXCEPT ![o] = r.einfo])
  <1> DEFINE t == element_type(size)
  <1>1. Sound(j, E) /\ NoneIsEmpty(j)
    BY DEF Good
  <1>2. /\ t \in {"tiny", "chunk", "sequential", "huge"}
        /\ t # "tiny" => size # 0
    BY SizesOfTypes, VariationType
  <1>3. CASE size = 0
    <2>1. r.ja = j /\ r.einfo = Empty
      BY <1>2, <1>3 DEF alloc, Result
    <2>2. ~HasSpace(Empty)
      BY DEF Empty, Einfo, HasSpace
    <2> QED
      BY <1>1, <2>1, <2>2, NoSpaceBounded
  <1>4. CASE size # 0 /\ t = "tiny"
    <2>1. r.ja = j /\ r.einfo = Tiny(size)
      BY <1>4 DEF alloc, Result
    <2>2. ~HasSpace(Tiny(size))
      BY DEF Tiny, Einfo, HasSpace
    <2> QED
      BY <1>1, <2>1, <2>2, NoSpaceBounded
  <1>5. CASE t = "chunk"
    <2>1. r = alloc_chunk(j, size)
      BY <1>2, <1>5 DEF alloc
    <2> QED
      BY <1>5, <2>1, ChunkAllocatedBounded
  <1>6. CASE t = "huge"
    <2>1. r = alloc_huge(j, size)
      BY <1>2, <1>6 DEF alloc
    <2>2. Handed(j, E, o, r)
      BY <1>1, <1>6, <2>1, HugeTaken
    <2>3. r.einfo.type = "huge"
      BY <2>1 DEF alloc_huge, Result, Huge, Einfo
    <2>4. \A v : ~IsChunk(r.einfo, v)
      BY <2>3 DEF IsChunk
    <2> QED
      BY <1>1, <2>2, <2>4, HandedBounded
  <1>7. CASE t = "sequential" /\ j.curr_pos + data_size(size) <= SegmentSize
    <2>1. r = alloc_sequential_current(j, size)
      BY <1>2, <1>7 DEF alloc, alloc_sequential
    <2>2. Handed(j, E, o, r)
      BY <1>1, <1>7, <2>1, SequentialTaken
    <2>3. r.einfo.size = size
      BY <2>1 DEF alloc_sequential_current, Result, Normal, Einfo
    <2>4. \A v : ~IsChunk(r.einfo, v)
      BY <1>7, <2>3 DEF IsChunk
    <2> QED
      BY <1>1, <2>2, <2>4, HandedBounded
  <1>8. CASE t = "sequential" /\ ~(j.curr_pos + data_size(size) <= SegmentSize)
    <2> DEFINE new == find_free_segment(j)
               h == sequential_segment_new(j, new)
    <2>1. free_segments(j) # {} /\ r = alloc_sequential_current(h, size)
      BY <1>2, <1>8 DEF alloc, alloc_sequential
    <2>2. new \in Segments /\ j.info[new] = Off
      BY <2>1, FreeSegment
    <2> HIDE DEF new
    <2>3. j \in Columns
      BY <1>1 DEF Sound
    <2>4. h.curr_pos = 0 /\ h.ginfo = j.ginfo
      BY <2>3 DEF sequential_segment_new, Columns
    <2>5. \A s \in Segments : h.info[s].type = "ginfo" => h.info[s] = j.info[s]
      BY <2>2, <2>3, InfoKinds DEF sequential_segment_new, Columns
    <2>6. Sound(h, E)
      BY <1>1, <2>2, SequentialSegment
    <2> HIDE DEF h
    <2>7. h.curr_pos + data_size(size) <= SegmentSize
      <3>1. data_size(size) \in Nat
        BY SizesType DEF data_size
      <3>2. data_size(size) <= SegmentSize
        BY <1>8, SizesOfTypes
      <3> QED
        BY <2>4, <3>1, <3>2
    <2>8. Handed(h, E, o, r)
      BY <1>8, <2>1, <2>6, <2>7, SequentialTaken
    <2>9. r.einfo.size = size
      BY <2>1 DEF alloc_sequential_current, Result, Normal, Einfo
    <2>10. \A v : ~IsChunk(r.einfo, v)
      BY <1>8, <2>9 DEF IsChunk
    <2>11. Bounded(h, E)
      BY <1>1, <2>4, <2>5, <2>6, GarbageSameBounded
    <2> QED
      BY <2>6, <2>8, <2>10, <2>11, HandedBounded
  <1> QED
    BY <1>2, <1>3, <1>4, <1>5, <1>6, <1>7, <1>8


-----------------------------------------------------------------------------
(***************************************************************************)
(* The values of a column j and writers wr.                                *)
(***************************************************************************)
WriterValue(s) == IF s.pc \in {"allocated", "failed"} THEN s.einfo ELSE Empty
ValuesOf(j, wr) ==
    [o \in Owners |-> IF o[1] = "record" THEN element_info(j, o[2]) ELSE WriterValue(wr[o[2]])]

LEMMA ValuesAre ==
    Values = ValuesOf(ja, writer)
  BY DEF Values, ValuesOf, Held, Working, WriterValue

LEMMA OwnersAre ==
    /\ \A id \in Ids : <<"record", id>> \in Owners
    /\ \A w \in Writers : <<"writer", w>> \in Owners
    /\ \A o \in Owners : \/ \E id \in Ids : o = <<"record", id>>
                         \/ \E w \in Writers : o = <<"writer", w>>
    /\ \A x, y : <<"record", x>> # <<"writer", y>>
  BY DEF Owners

LEMMA ValuesAt ==
    ASSUME NEW j, NEW wr
    PROVE  /\ \A id \in Ids : ValuesOf(j, wr)[<<"record", id>>] = element_info(j, id)
           /\ \A w \in Writers : ValuesOf(j, wr)[<<"writer", w>>] = WriterValue(wr[w])
  BY OwnersAre DEF ValuesOf

LEMMA ValuesDetermined ==
    ASSUME NEW F, NEW S, F \in [Owners -> S], NEW j, NEW wr,
           \A id \in Ids : F[<<"record", id>>] = element_info(j, id),
           \A w \in Writers : F[<<"writer", w>>] = WriterValue(wr[w])
    PROVE  F = ValuesOf(j, wr)
  <1>1. ASSUME NEW o \in Owners PROVE F[o] = ValuesOf(j, wr)[o]
    BY OwnersAre, ValuesAt
  <1>2. ValuesOf(j, wr) = [o \in Owners |-> ValuesOf(j, wr)[o]]
    BY DEF ValuesOf
  <1>3. F = [o \in Owners |-> F[o]]
    OBVIOUS
  <1> QED
    BY <1>1, <1>2, <1>3

LEMMA EmptyType == Empty \in Einfos /\ ~HasSpace(Empty)
  BY SizesType DEF Empty, Einfo, Einfos, HasSpace

\* The states of a writer.
LEMMA WriterTypes ==
    /\ Idle \in WriterStates /\ WriterValue(Idle) = Empty /\ Idle.pc = "idle"
    /\ \A s \in WriterStates :
        /\ s.pc = "append" => s.id \in Ids /\ s.size \in Nat
        /\ s.pc = "defrag" => s.id \in Ids /\ s.einfo \in Einfos
        /\ s.pc \in {"allocated", "failed"} =>
            s.id \in Ids /\ s.einfo \in Einfos /\ WriterValue(s) = s.einfo
        /\ s.pc \notin {"allocated", "failed"} => WriterValue(s) = Empty
  BY DEF WriterStates, Idle, WriterValue

\* One writer changes, the element infos do not.
Moved(wr, w, s) == [wr EXCEPT ![w] = s]
SameBut(F, G, w, e) == G = [F EXCEPT ![<<"writer", w>>] = e]

LEMMA WriterChanges ==
    ASSUME NEW j, NEW k, SameElements(j, k), NEW wr, ValuesOf(j, wr) \in [Owners -> Einfos],
           wr \in [Writers -> WriterStates], NEW w \in Writers,
           NEW s, WriterValue(s) \in Einfos
    PROVE  SameBut(ValuesOf(j, wr), ValuesOf(k, Moved(wr, w, s)), w, WriterValue(s))
  <1> DEFINE F == ValuesOf(j, wr)
             G == [F EXCEPT ![<<"writer", w>>] = WriterValue(s)]
             x == Moved(wr, w, s)
  <1>1. \A id \in Ids : element_info(k, id) = element_info(j, id)
    BY DEF element_info, SameElements
  <1>2. /\ \A id \in Ids : F[<<"record", id>>] = element_info(j, id)
        /\ \A z \in Writers : F[<<"writer", z>>] = WriterValue(wr[z])
    BY ValuesAt
  <1> HIDE DEF F
  <1>3. F \in [Owners -> Einfos]
    BY DEF F
  <1>4. G \in [Owners -> Einfos]
    BY <1>3
  <1>5. \A id \in Ids : G[<<"record", id>>] = element_info(k, id)
    BY <1>1, <1>2, <1>3, OwnersAre
  <1>6. ASSUME NEW z \in Writers PROVE G[<<"writer", z>>] = WriterValue(x[z])
    <2>1. <<"writer", z>> \in Owners /\ <<"writer", w>> \in Owners
      BY OwnersAre
    <2>2. CASE z = w
      BY <1>3, <2>1, <2>2 DEF Moved
    <2>3. CASE z # w
      <3>1. G[<<"writer", z>>] = F[<<"writer", z>>] /\ x[z] = wr[z]
        BY <1>3, <2>1, <2>3 DEF Moved
      <3> QED
        BY <1>2, <3>1
    <2> QED
      BY <2>2, <2>3
  <1> HIDE DEF G, x
  <1>7. G = ValuesOf(k, x)
    BY <1>4, <1>5, <1>6, ValuesDetermined
  <1> QED
    BY <1>7 DEF G, x, F, SameBut

-----------------------------------------------------------------------------
(***************************************************************************)
(* Every step keeps the invariant.                                         *)
(***************************************************************************)
LEMMA InitGood ==
    ASSUME Init
    PROVE  JaInv
  <1>1. ja = Created /\ writer = [w \in Writers |-> Idle] /\ sizes \in Workloads
    BY DEF Init
  <1>2. Created \in Columns
    <2>1. Off \in [type : Kinds, value : Nat] /\ Info("einfo", 0) \in [type : Kinds, value : Nat]
      BY InfoKinds DEF Kinds
    <2>2. VOID \in Segments \cup {VOID} /\ 0 \in Segments
      BY SizesType
    <2>3. SegmentSize \in 0 .. SegmentSize /\ 0 \in 0 .. SegmentSize
      BY SizesType
    <2>4. [seg |-> 0, pos |-> 0] \in Places
      BY <2>2, <2>3 DEF Places
    <2>5. NoGarbage \in [recs : Seq(Places), next : Segments]
      BY <2>2 DEF NoGarbage
    <2> QED
      BY <2>1, <2>2, <2>3, <2>4, <2>5, EmptyType DEF Created, Columns
  <1>3. /\ \A s \in Segments : ja.info[s] = IF s = 0 THEN Info("einfo", 0) ELSE Off
        /\ \A v \in Variations : /\ ja.free_elements[v].seg = 0 /\ ja.garbages[v] = 0
                                 /\ ja.n_garbages[v] = 0
        /\ ja.curr_pos = SegmentSize
    BY <1>1 DEF Created
  <1>4. /\ \A s \in Segments : /\ ja.info[s].type \in {"off", "einfo"}
                                 /\ ja.info[s].type = "einfo" => s = 0 /\ ja.info[s].value = 0
        /\ \A s \in Segments : \A v : ja.info[s] # Info("ginfo", v) /\ ja.info[s] # ChunkInfo(v)
        /\ \A s \in Segments : ja.info[s].type \notin {"sequential", "huge", "chunk", "ginfo"}
    BY <1>3, InfoKinds DEF Info, ChunkInfo, Off
  <1>5. Values \in [Owners -> Einfos] /\ \A o \in Owners : Values[o] = Empty
    <2>1. \A id \in Ids : element_info(ja, id) = Empty
      BY <1>1 DEF element_info, Created
    <2>2. \A w \in Writers : WriterValue(writer[w]) = Empty
      BY <1>1, WriterTypes
    <2>3. \A o \in Owners : Values[o] = Empty
      BY <2>1, <2>2, OwnersAre, ValuesAre, ValuesAt
    <2>4. Values = [o \in Owners |-> Values[o]]
      BY DEF Values
    <2> HIDE DEF Values
    <2> QED
      BY <2>3, <2>4, EmptyType
  <1>6. \A o \in Owners : /\ ~IsSequential(Values[o]) /\ ~IsHuge(Values[o])
                          /\ \A v : ~IsChunk(Values[o], v)
    BY <1>5, EmptyType DEF IsChunk, IsSequential, IsHuge
  <1>7. \A s \in Segments : \A n, v : ~IsRecord(ja, v, s, n)
    BY <1>4 DEF IsRecord
  <1>8. Chunks(ja, Values)
    BY <1>3, <1>4, <1>6, <1>7 DEF Chunks, ChunksInPlace, ChunksApart, ChunksKept
  <1>9. Sequentials(ja, Values)
    BY <1>3, <1>4, <1>6, SizesType DEF Sequentials
  <1>10. Huges(ja, Values)
    BY <1>4, <1>6 DEF Huges
  <1>11. Lists(ja)
    <2>1. ASSUME NEW v \in Variations
          PROVE  /\ IsList(ja, v, <<>>)
                 /\ IsFiniteSet(Records(ja, v)) /\ ja.n_garbages[v] = Cardinality(Records(ja, v))
      <3>1. IsList(ja, v, <<>>)
        BY <1>3, <1>4 DEF IsList
      <3>2. GinfosOf(ja, v) = {}
        BY <1>4 DEF GinfosOf
      <3>3. Records(ja, v) = {}
        BY <3>2 DEF Records
      <3> QED
        BY <1>3, <3>1, <3>3, FS_EmptySet
    <2> QED
      BY <1>4, <2>1 DEF Lists
  <1>12. Infos(ja) /\ NoneIsEmpty(ja)
    <2>1. 0 \in Segments /\ 0 \in Lsegs
      BY SizesType DEF Lsegs
    <2>2. ja.element_segs[0] = 0 /\ ja.info[0].type = "einfo"
      BY <1>1, <1>3, <2>1 DEF Created, Info
    <2> QED
      BY <1>4, <2>1, <2>2 DEF Infos, NoneIsEmpty
  <1>13. writer \in [Writers -> WriterStates]
    BY <1>1, WriterTypes
  <1>14. Good(ja, Values)
    BY <1>1, <1>2, <1>5, <1>8, <1>9, <1>10, <1>11, <1>12 DEF Good, Sound
  <1>15. Bounded(ja, Values)
    <2> SUFFICES ASSUME NEW v \in Variations
                 PROVE  Cardinality(ChunkOwners(Values, v)) + Cardinality(ListedRecords(ja, v))
                            <= Cardinality(Ids) + Cardinality(Writers) + GarbageThreshold
      BY DEF Bounded
    <2>1. PICK c \in Nat, d \in Nat :
            c = Cardinality(ChunkOwners(Values, v)) /\ d = Cardinality(ListedRecords(ja, v))
      BY <1>14, ChunkOwnersFinite, ListedFinite DEF Good
    <2>2. PICK m \in Nat : m = Cardinality(Ids) + Cardinality(Writers)
      BY OwnersFinite
    <2>3. c <= m
      BY <2>1, <2>2, ChunkOwnersFinite
    <2>4. d <= 0
      BY <1>3, <1>14, <2>1, ListedFinite DEF Good
    <2> QED
      BY <2>1, <2>2, <2>3, <2>4, SizesType
  <1> QED
    BY <1>1, <1>13, <1>14, <1>15 DEF JaInv

LEMMA ValuesNext ==
    Values' = ValuesOf(ja', writer')
  BY DEF Values, ValuesOf, Held, Working, WriterValue, element_info

\* What is to be shown of a step.
Keeps ==
    /\ writer' \in [Writers -> WriterStates]
    /\ ~astray' => Good(ja', ValuesOf(ja', writer')) /\ Bounded(ja', ValuesOf(ja', writer'))

LEMMA InvNow ==
    ASSUME JaInv, ~astray
    PROVE  /\ writer \in [Writers -> WriterStates] /\ sizes \in Workloads
           /\ Good(ja, ValuesOf(ja, writer)) /\ Bounded(ja, ValuesOf(ja, writer))
           /\ ja \in Columns /\ ValuesOf(ja, writer) \in [Owners -> Einfos]
           /\ SameElements(ja, ja) /\ IsColumn(ja)
  <1>1. /\ Good(ja, ValuesOf(ja, writer)) /\ Bounded(ja, ValuesOf(ja, writer))
        /\ writer \in [Writers -> WriterStates] /\ sizes \in Workloads
    BY ValuesAre DEF JaInv, Ready
  <1>2. ja \in Columns /\ ValuesOf(ja, writer) \in [Owners -> Einfos]
    BY <1>1 DEF Good, Sound
  <1> QED
    BY <1>1, <1>2, ColumnsAre

LEMMA KeepsInv ==
    ASSUME Keeps, sizes \in Workloads, sizes' = sizes
    PROVE  JaInv'
  <1>1. ~astray' => Good(ja', Values') /\ Bounded(ja', Values')
    BY ValuesNext DEF Keeps
  <1> QED
    BY <1>1 DEF JaInv, Keeps, Ready

\* The writer goes on, with or without a value that has no space.
LEMMA WriterMoves ==
    ASSUME JaInv, ~astray, NEW w \in Writers, NEW s \in WriterStates,
           WriterValue(s) = WriterValue(writer[w]),
           writer' = [writer EXCEPT ![w] = s], ja' = ja
    PROVE  Keeps
  <1> DEFINE F == ValuesOf(ja, writer)
  <1>1. /\ writer \in [Writers -> WriterStates] /\ Good(ja, F) /\ Bounded(ja, F)
        /\ F \in [Owners -> Einfos] /\ SameElements(ja, ja)
    BY InvNow
  <1>2. <<"writer", w>> \in Owners /\ F[<<"writer", w>>] = WriterValue(writer[w])
    BY OwnersAre, ValuesAt
  <1>3. WriterValue(s) \in Einfos
    BY <1>1, <1>2
  <1>4. SameBut(F, ValuesOf(ja, Moved(writer, w, s)), w, WriterValue(s))
    BY <1>1, <1>3, WriterChanges
  <1> HIDE DEF F
  <1>5. ValuesOf(ja, [writer EXCEPT ![w] = s]) = F
    BY <1>1, <1>2, <1>4 DEF SameBut, Moved
  <1> QED
    BY <1>1, <1>5 DEF Keeps

LEMMA AllocatedKeeps ==
    ASSUME JaInv, ~astray, NEW w \in Writers, writer[w].pc \notin {"allocated", "failed"},
           NEW id \in Ids, NEW size \in Nat, NEW cas \in Einfos \cup {NoCas},
           Allocated(w, id, size, cas)
    PROVE  Keeps
  <1> DEFINE F == ValuesOf(ja, writer)
             o == <<"writer", w>>
             r == alloc(ja, size)
             s == [pc |-> "allocated", id |-> id, einfo |-> r.einfo, cas |-> cas]
  <1>1. /\ writer \in [Writers -> WriterStates] /\ Good(ja, F) /\ Bounded(ja, F)
        /\ F \in [Owners -> Einfos] /\ IsColumn(ja)
    BY InvNow
  <1>2. r # NoRoom /\ ja' = r.ja /\ writer' = [writer EXCEPT ![w] = s]
    BY DEF Allocated
  <1>3. o \in Owners /\ F[o] = WriterValue(writer[w])
    BY OwnersAre, ValuesAt
  <1>4. ~HasSpace(F[o])
    BY <1>1, <1>3, WriterTypes, EmptyType
  <1>5. r = alloc(ja, size)
    OBVIOUS
  <1>6. SameElements(ja, r.ja)
    BY <1>1, <1>2, AllocElements
  <1> HIDE DEF F, o, r
  <1>7. Good(r.ja, [F EXCEPT ![o] = r.einfo]) /\ r.einfo \in Einfos
    BY <1>1, <1>2, <1>3, <1>4, <1>5, AllocatedGood
  <1>8. s \in WriterStates /\ WriterValue(s) = r.einfo
    BY <1>7 DEF WriterStates, WriterValue
  <1> HIDE DEF s
  <1>9. SameBut(F, ValuesOf(r.ja, Moved(writer, w, s)), w, WriterValue(s))
    BY <1>1, <1>6, <1>7, <1>8, WriterChanges DEF F
  <1>10. ValuesOf(r.ja, [writer EXCEPT ![w] = s]) = [F EXCEPT ![o] = r.einfo]
    BY <1>8, <1>9 DEF SameBut, Moved, o
  <1>11. Bounded(r.ja, [F EXCEPT ![o] = r.einfo])
    BY <1>1, <1>2, <1>3, <1>4, <1>5, AllocatedBounded
  <1> QED
    BY <1>1, <1>2, <1>7, <1>8, <1>10, <1>11 DEF Keeps

LEMMA UnsetKeeps ==
    ASSUME JaInv, ~astray, NEW size, Unset(size)
    PROVE  Keeps
  BY InvNow DEF Unset, Keeps

LEMMA SetKeeps ==
    ASSUME JaInv, ~astray, NEW w \in Writers, NEW id \in Ids, NEW size \in Nat, Set(w, id, size)
    PROVE  Keeps
  <1>1. writer[w].pc \notin {"allocated", "failed"}
    BY WriterTypes DEF Set
  <1>2. Allocated(w, id, size, NoCas) \/ Unset(size)
    BY DEF Set
  <1> QED
    BY <1>1, <1>2, AllocatedKeeps, UnsetKeeps

LEMMA AppendReadKeeps ==
    ASSUME JaInv, ~astray, NEW w \in Writers, NEW id \in Ids, NEW size \in Nat,
           AppendRead(w, id, size)
    PROVE  Keeps
  <1> DEFINE old == element_info(ja, id).size
             s == [pc |-> "append", id |-> id, size |-> old + size, had |-> old # 0]
  <1>1. old \in Nat
    <2>1. element_info(ja, id) \in Einfos
      BY InvNow, EmptyType DEF element_info, Columns
    <2> QED
      BY <2>1 DEF Einfos
  <1>2. s \in WriterStates /\ WriterValue(s) = Empty
    BY <1>1 DEF WriterStates, WriterValue
  <1>3. WriterValue(writer[w]) = Empty /\ ja' = ja /\ writer' = [writer EXCEPT ![w] = s]
    BY WriterTypes DEF AppendRead
  <1> HIDE DEF s
  <1> QED
    BY <1>2, <1>3, WriterMoves

LEMMA AppendAllocKeeps ==
    ASSUME JaInv, ~astray, NEW w \in Writers, AppendAlloc(w)
    PROVE  Keeps
  <1>1. writer[w] \in WriterStates /\ writer[w].pc = "append"
    BY InvNow DEF AppendAlloc
  <1>2. writer[w].id \in Ids /\ writer[w].size \in Nat /\ WriterValue(writer[w]) = Empty
    BY <1>1, WriterTypes
  <1>3. CASE Allocated(w, writer[w].id, writer[w].size, NoCas)
    BY <1>1, <1>2, <1>3, AllocatedKeeps
  <1>4. CASE Unset(writer[w].size)
    BY <1>4, UnsetKeeps
  <1>5. CASE writer' = [writer EXCEPT ![w] = Idle] /\ UNCHANGED <<ja, astray>>
    BY <1>2, <1>5, WriterTypes, WriterMoves
  <1>6. CASE Lost(w, writer[w].size)
    BY <1>6, InvNow, WriterTypes DEF Lost, Keeps
  <1> QED
    BY <1>3, <1>4, <1>5, <1>6 DEF AppendAlloc

LEMMA DefragReadKeeps ==
    ASSUME JaInv, ~astray, NEW w \in Writers, NEW id \in Ids, DefragRead(w, id)
    PROVE  Keeps
  <1> DEFINE e == element_info(ja, id)
             s == [pc |-> "defrag", id |-> id, einfo |-> e]
  <1>1. e \in Einfos
    BY InvNow, EmptyType DEF element_info, Columns
  <1>2. s \in WriterStates /\ WriterValue(s) = Empty
    BY <1>1 DEF WriterStates, WriterValue
  <1>3. WriterValue(writer[w]) = Empty /\ ja' = ja /\ writer' = [writer EXCEPT ![w] = s]
    BY WriterTypes DEF DefragRead
  <1> HIDE DEF s
  <1> QED
    BY <1>2, <1>3, WriterMoves

LEMMA DefragPutKeeps ==
    ASSUME JaInv, ~astray, NEW w \in Writers, DefragPut(w)
    PROVE  Keeps
  <1> DEFINE me == writer[w]
  <1>1. me \in WriterStates /\ me.pc = "defrag"
    BY InvNow DEF DefragPut
  <1>2. me.id \in Ids /\ me.einfo \in Einfos /\ me.einfo.size \in Nat /\ WriterValue(me) = Empty
    BY <1>1, WriterTypes DEF Einfos
  <1>3. CASE writer' = [writer EXCEPT ![w] = Idle] /\ UNCHANGED <<ja, astray>>
    BY <1>2, <1>3, WriterTypes, WriterMoves
  <1>4. CASE Allocated(w, me.id, me.einfo.size, me.einfo)
    BY <1>1, <1>2, <1>4, AllocatedKeeps
  <1>5. CASE Unset(me.einfo.size)
    BY <1>5, UnsetKeeps
  <1> QED
    BY <1>3, <1>4, <1>5 DEF DefragPut

\* A writer whose value has no space changes to another such state.
LEMMA NoSpaceMoves ==
    ASSUME NEW j, NEW wr, wr \in [Writers -> WriterStates], NEW w \in Writers,
           Good(j, ValuesOf(j, wr)), Bounded(j, ValuesOf(j, wr)),
           ~HasSpace(WriterValue(wr[w])),
           NEW s, WriterValue(s) \in Einfos, ~HasSpace(WriterValue(s))
    PROVE  /\ Good(j, ValuesOf(j, Moved(wr, w, s)))
           /\ Bounded(j, ValuesOf(j, Moved(wr, w, s)))
  <1> DEFINE F == ValuesOf(j, wr)
             o == <<"writer", w>>
  <1>1. Sound(j, F) /\ j \in Columns /\ F \in [Owners -> Einfos]
    BY DEF Good, Sound
  <1>2. o \in Owners /\ F[o] = WriterValue(wr[w])
    BY OwnersAre, ValuesAt
  <1>3. SameElements(j, j)
    BY <1>1, ColumnsAre
  <1>4. SameBut(F, ValuesOf(j, Moved(wr, w, s)), w, WriterValue(s))
    BY <1>1, <1>3, WriterChanges
  <1> HIDE DEF F, o
  <1>5. ValuesOf(j, Moved(wr, w, s)) = [F EXCEPT ![o] = WriterValue(s)]
    BY <1>4 DEF SameBut, o
  <1>6. Good(j, [F EXCEPT ![o] = WriterValue(s)])
    BY <1>2, NoSpace DEF F
  <1>7. Bounded(j, [F EXCEPT ![o] = WriterValue(s)])
    BY <1>1, <1>2, NoSpaceBounded DEF F
  <1> QED
    BY <1>5, <1>6, <1>7

LEMMA UndoKeeps ==
    ASSUME JaInv, ~astray, NEW w \in Writers, Undo(w)
    PROVE  Keeps
  <1> DEFINE F == ValuesOf(ja, writer)
             o == <<"writer", w>>
             e == writer[w].einfo
             left == free(ja, e)
  <1>1. /\ writer \in [Writers -> WriterStates] /\ Good(ja, F) /\ Bounded(ja, F)
        /\ F \in [Owners -> Einfos] /\ IsColumn(ja)
    BY InvNow
  <1>2. /\ writer[w].pc = "failed" /\ writer' = [writer EXCEPT ![w] = Idle]
        /\ \/ astray'
           \/ left # NoRoom /\ ja' = left
           \/ ~HasSpace(e) /\ ja' = ja
    BY DEF Undo
  <1>3. e \in Einfos /\ WriterValue(writer[w]) = e
    BY <1>1, <1>2, WriterTypes
  <1>4. o \in Owners /\ F[o] = e
    BY <1>3, OwnersAre, ValuesAt
  <1>5. writer' \in [Writers -> WriterStates]
    BY <1>1, <1>2, WriterTypes
  <1>6. CASE astray'
    BY <1>5, <1>6 DEF Keeps
  <1>7. CASE left # NoRoom /\ ja' = left
    <2>1. SameElements(ja, left)
      BY <1>1, <1>3, <1>7, FreeElements
    <2>2. left = free(ja, F[o])
      BY <1>4
    <2> HIDE DEF F, o, left
    <2>3. Good(left, [F EXCEPT ![o] = Empty])
      BY <1>1, <1>4, <1>7, <2>2, EmptyType, Freed
    <2>4. SameBut(F, ValuesOf(left, Moved(writer, w, Idle)), w, WriterValue(Idle))
      BY <1>1, <2>1, WriterTypes, EmptyType, WriterChanges DEF F
    <2>5. ValuesOf(left, [writer EXCEPT ![w] = Idle]) = [F EXCEPT ![o] = Empty]
      BY <2>4, WriterTypes DEF SameBut, Moved, o
    <2>6. Bounded(left, [F EXCEPT ![o] = Empty])
      BY <1>1, <1>4, <1>7, <2>2, EmptyType, FreedBounded
    <2> QED
      BY <1>2, <1>5, <1>7, <2>3, <2>5, <2>6 DEF Keeps
  <1>8. CASE ~HasSpace(e) /\ ja' = ja
    <2>1. /\ Good(ja, ValuesOf(ja, Moved(writer, w, Idle)))
          /\ Bounded(ja, ValuesOf(ja, Moved(writer, w, Idle)))
      BY <1>1, <1>3, <1>8, WriterTypes, EmptyType, NoSpaceMoves
    <2> QED
      BY <1>2, <1>5, <1>8, <2>1 DEF Keeps, Moved
  <1> QED
    BY <1>2, <1>6, <1>7, <1>8

LEMMA FailedState ==
    ASSUME NEW s \in WriterStates, s.pc = "allocated"
    PROVE  /\ [s EXCEPT !.pc = "failed"] \in WriterStates
           /\ WriterValue([s EXCEPT !.pc = "failed"]) = WriterValue(s)
  <1>1. s \in [pc : {"allocated", "failed"}, id : Ids, einfo : Einfos, cas : Einfos \cup {NoCas}]
    BY DEF WriterStates, Idle
  <1> QED
    BY <1>1 DEF WriterStates, WriterValue

\* The element info segment of a record is made when it does not exist.
LEMMA EnsureGood ==
    ASSUME JaInv, ~astray, NEW id \in Ids, NEW lseg, lseg = LsegOf[id],
           ~(ja.element_segs[lseg] = VOID /\ free_segments(ja) = {}),
           NEW j, j = ensure_einfo(ja, lseg)
    PROVE  /\ Good(j, ValuesOf(ja, writer)) /\ Bounded(j, ValuesOf(ja, writer))
           /\ j.element_segs[lseg] # VOID
           /\ \A wr : ValuesOf(j, wr) = ValuesOf(ja, wr)
           /\ element_info(j, id) = j.einfo[id]
  <1> DEFINE F == ValuesOf(ja, writer)
  <1>1. Good(ja, F) /\ Bounded(ja, F) /\ ja \in Columns /\ lseg \in Lsegs
    BY InvNow DEF Lsegs
  <1>2. ASSUME \A i \in Ids : element_info(j, i) = element_info(ja, i), NEW wr
        PROVE  ValuesOf(j, wr) = ValuesOf(ja, wr)
    <2>1. ASSUME NEW o \in Owners, o[1] = "record"
          PROVE  element_info(j, o[2]) = element_info(ja, o[2])
      BY <1>2, <2>1, OwnersAre
    <2> QED
      BY <2>1 DEF ValuesOf
  <1>3. CASE ja.element_segs[lseg] # VOID
    <2>1. j = ja
      BY <1>3 DEF ensure_einfo
    <2> QED
      BY <1>1, <1>3, <2>1 DEF element_info
  <1>4. CASE ja.element_segs[lseg] = VOID
    <2> DEFINE new == find_free_segment(ja)
    <2>1. new \in Segments /\ ja.info[new] = Off
      BY <1>4, FreeSegment
    <2> HIDE DEF new
    <2>2. j = einfo_segment_new(ja, lseg, new)
      BY <1>4 DEF ensure_einfo, new
    <2>3. Sound(j, F)
      BY <1>1, <1>4, <2>1, <2>2, EinfoSegment DEF Good
    <2>4. /\ j.info = [ja.info EXCEPT ![new] = Info("einfo", lseg)]
          /\ j.element_segs = [ja.element_segs EXCEPT ![lseg] = new]
          /\ j.einfo = [i \in Ids |-> IF LsegOf[i] = lseg THEN Empty ELSE ja.einfo[i]]
          /\ j.ginfo = ja.ginfo
      BY <1>1, <2>2 DEF einfo_segment_new, Columns
    <2>5. NoneIsEmpty(j) /\ Bounded(j, F)
      <3>1. \A s \in Segments : j.info[s].type = "ginfo" => j.info[s] = ja.info[s]
        BY <1>1, <2>1, <2>4, InfoKinds DEF Columns
      <3>2. NoneIsEmpty(j)
        BY <1>1, <2>4, <3>1, NoneIsEmptyFrame DEF Good
      <3>3. Bounded(j, F)
        <4>1. Sound(ja, F) /\ Bounded(ja, F) /\ j.ginfo = ja.ginfo
          BY <1>1, <2>4 DEF Good
        <4> HIDE DEF F
        <4> QED
          BY <2>3, <3>1, <4>1, GarbageSameBounded
      <3> QED
        BY <3>2, <3>3
    <2>6. j.element_segs[lseg] = new /\ \A l \in Lsegs : l # lseg => j.element_segs[l] = ja.element_segs[l]
      BY <1>1, <2>4 DEF Columns
    <2>7. ASSUME NEW i \in Ids PROVE element_info(j, i) = element_info(ja, i)
      <3>1. LsegOf[i] \in Lsegs
        BY DEF Lsegs
      <3> QED
        BY <1>4, <2>1, <2>4, <2>6, <3>1, SizesType DEF element_info
    <2> QED
      BY <1>2, <2>1, <2>3, <2>5, <2>6, <2>7, SizesType DEF Good, element_info
  <1> QED
    BY <1>3, <1>4

\* The element info of a record matters only to those who look at it.
LEMMA EinfoSet ==
    ASSUME NEW j, NEW E, Good(j, E), NEW id \in Ids, NEW e \in Einfos
    PROVE  /\ Good([j EXCEPT !.einfo[id] = e], E)
           /\ Bounded(j, E) => Bounded([j EXCEPT !.einfo[id] = e], E)
  <1> DEFINE k == [j EXCEPT !.einfo[id] = e]
  <1>1. j \in Columns /\ E \in [Owners -> Einfos]
    BY DEF Good, Sound
  <1>2. /\ k \in Columns /\ k.info = j.info /\ k.element_segs = j.element_segs
        /\ k.curr_seg = j.curr_seg /\ k.curr_pos = j.curr_pos
        /\ k.free_elements = j.free_elements /\ k.garbages = j.garbages
        /\ k.n_garbages = j.n_garbages /\ k.ginfo = j.ginfo
    BY <1>1 DEF Columns
  <1> HIDE DEF k
  <1>3. Chunks(k, E)
    <2> SUFFICES ASSUME NEW v \in Variations
                 PROVE  ChunksInPlace(k, E, v) /\ ChunksApart(k, E, v) /\ ChunksKept(k, E, v)
      BY DEF Chunks
    <2>1. SameChunks(j, k, E, E, v)
      BY <1>2 DEF SameChunks, IsRecord
    <2> QED
      BY <1>1, <1>2, <2>1, ChunksFrame DEF Good, Sound, Chunks
  <1>4. Sequentials(k, E)
    <2>1. SameSequentials(j, k, E, E)
      BY <1>2 DEF SameSequentials
    <2> QED
      BY <1>1, <1>2, <2>1, SequentialsFrame DEF Good, Sound
  <1>5. Huges(k, E)
    <2>1. SameHuges(j, k, E, E)
      BY <1>2 DEF SameHuges
    <2> QED
      BY <2>1, HugesFrame DEF Good, Sound
  <1>6. Lists(k)
    <2>1. SameLists(j, k)
      BY <1>2 DEF SameLists
    <2> QED
      BY <1>1, <1>2, <2>1, ListsFrame DEF Good, Sound
  <1>7. Infos(k)
    <2>1. SameInfos(j, k)
      BY <1>1, <1>2 DEF SameInfos
    <2> QED
      BY <1>1, <1>2, <2>1, InfosFrame DEF Good, Sound
  <1>8. NoneIsEmpty(k)
    BY <1>2, NoneIsEmptyFrame DEF Good
  <1>9. Good(k, E)
    BY <1>1, <1>2, <1>3, <1>4, <1>5, <1>6, <1>7, <1>8 DEF Good, Sound
  <1>10. Bounded(j, E) => Bounded(k, E)
    BY <1>2, <1>9, GarbageSameBounded DEF Good
  <1> QED
    BY <1>9, <1>10 DEF k

\* The record gets the value of the writer, and the writer gives the old one back.
LEMMA PutKeeps ==
    ASSUME NEW j, NEW wr, wr \in [Writers -> WriterStates], NEW w \in Writers,
           Good(j, ValuesOf(j, wr)), Bounded(j, ValuesOf(j, wr)), wr[w].pc = "allocated",
           NEW id \in Ids, j.element_segs[LsegOf[id]] # VOID,
           NEW k, k = [j EXCEPT !.einfo[id] = wr[w].einfo],
           NEW old, old = j.einfo[id], free(k, old) # NoRoom
    PROVE  /\ Good(free(k, old), ValuesOf(free(k, old), Moved(wr, w, Idle)))
           /\ Bounded(free(k, old), ValuesOf(free(k, old), Moved(wr, w, Idle)))
  <1> DEFINE F == ValuesOf(j, wr)
             a == <<"record", id>>
             b == <<"writer", w>>
             me == wr[w]
             X == [F EXCEPT ![a] = F[b], ![b] = F[a]]
             left == free(k, old)
             Y == [X EXCEPT ![b] = Empty]
             x == Moved(wr, w, Idle)
  <1>1. /\ a \in Owners /\ b \in Owners /\ a # b
        /\ F[a] = element_info(j, id) /\ F[b] = WriterValue(me)
    BY OwnersAre, ValuesAt
  <1>2. F[a] = old
    BY <1>1 DEF element_info
  <1>3. me \in WriterStates /\ me.einfo \in Einfos /\ F[b] = me.einfo
    BY <1>1, WriterTypes
  <1>4. j \in Columns /\ F \in [Owners -> Einfos] /\ Good(j, F) /\ Bounded(j, F)
    BY DEF Good, Sound
  <1>5. Good(k, F) /\ Bounded(k, F) /\ old \in Einfos
    BY <1>1, <1>2, <1>3, <1>4, EinfoSet
  <1>6. /\ IsColumn(k) /\ k.element_segs = j.element_segs /\ k.einfo[id] = me.einfo
        /\ \A i \in Ids : i # id => k.einfo[i] = j.einfo[i]
    BY <1>4 DEF Columns, IsColumn
  <1>7. \A i \in Ids : element_info(j, i) = F[<<"record", i>>]
    BY ValuesAt
  <1>8. \A z \in Writers : WriterValue(wr[z]) = F[<<"writer", z>>]
    BY ValuesAt
  <1>9. left # NoRoom /\ left = free(k, old)
    OBVIOUS
  <1> HIDE DEF F, a, b, left
  <1>10. Sound(k, X)
    BY <1>1, <1>5, Exchanged DEF Good
  <1>11. Good(k, X) /\ X[b] = old /\ X \in [Owners -> Einfos]
    BY <1>1, <1>2, <1>4, <1>5, <1>10 DEF Good
  <1>12. X[a] = me.einfo /\ \A o \in Owners : o # a /\ o # b => X[o] = F[o]
    BY <1>1, <1>3, <1>4
  <1> HIDE DEF X
  <1>13. Good(left, Y)
    BY <1>1, <1>9, <1>11, EmptyType, Freed
  <1>14. SameElements(k, left)
    BY <1>5, <1>6, <1>9, FreeElements
  <1>15. /\ Y \in [Owners -> Einfos] /\ Y[b] = Empty /\ Y[a] = me.einfo
         /\ \A o \in Owners : o # a /\ o # b => Y[o] = F[o]
    BY <1>1, <1>11, <1>12, EmptyType
  <1> HIDE DEF Y
  <1>16. ASSUME NEW i \in Ids PROVE Y[<<"record", i>>] = element_info(left, i)
    <2>1. /\ left.element_segs = j.element_segs /\ left.einfo = k.einfo
      BY <1>6, <1>14 DEF SameElements
    <2>2. CASE i = id
      BY <1>6, <1>15, <2>1, <2>2 DEF element_info, a
    <2>3. CASE i # id
      <3>1. <<"record", i>> \in Owners /\ <<"record", i>> # a /\ <<"record", i>> # b
        BY <2>3, OwnersAre DEF a, b
      <3>2. element_info(left, i) = element_info(j, i)
        BY <1>6, <2>1, <2>3 DEF element_info
      <3> QED
        BY <1>7, <1>15, <3>1, <3>2
    <2> QED
      BY <2>2, <2>3
  <1>17. ASSUME NEW z \in Writers PROVE Y[<<"writer", z>>] = WriterValue(x[z])
    <2>1. CASE z = w
      BY <1>15, <2>1, WriterTypes DEF Moved, b
    <2>2. CASE z # w
      <3>1. <<"writer", z>> \in Owners /\ <<"writer", z>> # a /\ <<"writer", z>> # b
        BY <2>2, OwnersAre DEF a, b
      <3>2. x[z] = wr[z]
        BY <2>2 DEF Moved
      <3> QED
        BY <1>8, <1>15, <3>1, <3>2
    <2> QED
      BY <2>1, <2>2
  <1> HIDE DEF x
  <1>18. Y = ValuesOf(left, x)
    BY <1>15, <1>16, <1>17, ValuesDetermined
  <1>19. Bounded(left, Y)
    <2>1. \A v \in Variations : Cardinality(ChunkOwners(X, v)) <= Cardinality(ChunkOwners(F, v))
      BY <1>1, <1>2, <1>3, <1>11, <1>12, OwnersExchanged
    <2>2. k \in Columns /\ Sound(k, F)
      BY <1>5 DEF Good, Sound
    <2>3. \A v \in Variations : Cardinality(ListedRecords(k, v)) <= Cardinality(ListedRecords(k, v))
      BY <2>2, ListedFinite
    <2>4. Bounded(k, X)
      BY <1>5, <2>1, <2>2, <2>3, BoundedFrame
    <2> QED
      BY <1>1, <1>9, <1>11, <2>4, EmptyType, FreedBounded DEF Y
  <1> QED
    BY <1>13, <1>18, <1>19 DEF left, x

LEMMA ReplaceKeeps ==
    ASSUME JaInv, ~astray, NEW w \in Writers, Replace(w)
    PROVE  Keeps
  <1> DEFINE me == writer[w]
             lseg == LsegOf[me.id]
             full == ja.element_segs[lseg] = VOID /\ free_segments(ja) = {}
             j == ensure_einfo(ja, lseg)
             old == j.einfo[me.id]
             k == [j EXCEPT !.einfo[me.id] = me.einfo]
             left == free(k, old)
             s == [me EXCEPT !.pc = "failed"]
  <1>1. /\ writer \in [Writers -> WriterStates] /\ Good(ja, ValuesOf(ja, writer))
        /\ ValuesOf(ja, writer) \in [Owners -> Einfos] /\ SameElements(ja, ja)
    BY InvNow
  <1>2. me \in WriterStates /\ me.pc = "allocated"
    BY <1>1 DEF Replace
  <1>3. me.id \in Ids /\ me.einfo \in Einfos
    BY <1>2, WriterTypes
  <1>4. s \in WriterStates /\ WriterValue(s) = WriterValue(me)
    BY <1>2, FailedState
  <1>5. CASE Failed(w) /\ UNCHANGED <<ja, astray>>
    <2>1. writer' = [writer EXCEPT ![w] = s]
      BY <1>1, <1>5 DEF Failed
    <2> HIDE DEF s
    <2> QED
      BY <1>4, <1>5, <2>1, WriterMoves
  <1>6. CASE ~full /\ ja' = j /\ Failed(w) /\ UNCHANGED astray
    <2>1. /\ Good(j, ValuesOf(ja, writer)) /\ Bounded(j, ValuesOf(ja, writer))
          /\ \A wr : ValuesOf(j, wr) = ValuesOf(ja, wr)
      BY <1>3, <1>6, EnsureGood
    <2>2. writer' = Moved(writer, w, s)
      BY <1>1, <1>6 DEF Failed, Moved
    <2>3. WriterValue(s) \in Einfos
      BY <1>2, <1>3, <1>4, WriterTypes
    <2> HIDE DEF s, j
    <2>4. SameBut(ValuesOf(ja, writer), ValuesOf(ja, Moved(writer, w, s)), w, WriterValue(s))
      BY <1>1, <2>3, WriterChanges
    <2>5. ValuesOf(ja, writer)[<<"writer", w>>] = WriterValue(me)
      BY ValuesAt
    <2>6. ValuesOf(ja, Moved(writer, w, s)) = ValuesOf(ja, writer)
      BY <1>1, <1>4, <2>4, <2>5, OwnersAre DEF SameBut
    <2>7. writer' \in [Writers -> WriterStates]
      BY <1>1, <1>4, <2>2 DEF Moved
    <2> QED
      BY <1>6, <2>1, <2>2, <2>6, <2>7 DEF Keeps
  <1>7. ASSUME NEW rc \in Rc, ~full, ja' = IF left = NoRoom THEN k ELSE left,
               IF rc = "success" /\ left # NoRoom
               THEN writer' = [writer EXCEPT ![w] = Idle] /\ UNCHANGED astray
               ELSE Failed(w) /\ astray' = (left = NoRoom \/ HasSpace(me.einfo))
        PROVE  Keeps
    <2>1. \/ writer' = Moved(writer, w, Idle) /\ left # NoRoom
          \/ writer' = Moved(writer, w, s) /\ (astray' \/ (left # NoRoom /\ ~HasSpace(me.einfo)))
      BY <1>1, <1>7 DEF Failed, Moved
    <2>2. writer' \in [Writers -> WriterStates]
      BY <1>1, <1>4, <2>1, WriterTypes DEF Moved
    <2>3. CASE astray'
      BY <2>2, <2>3 DEF Keeps
    <2>4. CASE left # NoRoom
      <3>1. /\ Good(j, ValuesOf(ja, writer)) /\ Bounded(j, ValuesOf(ja, writer))
            /\ j.element_segs[lseg] # VOID
            /\ \A wr : ValuesOf(j, wr) = ValuesOf(ja, wr)
        BY <1>3, <1>7, EnsureGood
      <3>2. Good(j, ValuesOf(j, writer)) /\ Bounded(j, ValuesOf(j, writer))
        BY <3>1
      <3>3. /\ k = [j EXCEPT !.einfo[me.id] = writer[w].einfo]
            /\ old = j.einfo[me.id] /\ left = free(k, old) /\ ja' = left
        BY <1>7, <2>4
      <3> HIDE DEF j, k, old, left
      <3>4. /\ Good(left, ValuesOf(left, Moved(writer, w, Idle)))
            /\ Bounded(left, ValuesOf(left, Moved(writer, w, Idle)))
        BY <1>1, <1>2, <1>3, <2>4, <3>1, <3>2, <3>3, PutKeeps
      <3>5. CASE writer' = Moved(writer, w, Idle)
        BY <2>2, <3>3, <3>4, <3>5 DEF Keeps
      <3>6. CASE writer' = Moved(writer, w, s) /\ ~HasSpace(me.einfo)
        <4> DEFINE x == Moved(writer, w, Idle)
        <4>1. /\ x \in [Writers -> WriterStates] /\ WriterValue(x[w]) = Empty
              /\ Moved(x, w, s) = Moved(writer, w, s)
          BY <1>1, WriterTypes DEF Moved
        <4>2. WriterValue(s) = me.einfo
          BY <1>2, <1>4, WriterTypes
        <4> HIDE DEF x, s
        <4>3. /\ Good(left, ValuesOf(left, Moved(x, w, s)))
              /\ Bounded(left, ValuesOf(left, Moved(x, w, s)))
          BY <1>3, <3>4, <3>6, <4>1, <4>2, EmptyType, NoSpaceMoves DEF x
        <4> QED
          BY <2>2, <3>3, <3>6, <4>1, <4>3 DEF Keeps
      <3> QED
        BY <2>1, <2>3, <3>5, <3>6
    <2> QED
      BY <2>1, <2>3, <2>4
  <1> QED
    BY <1>5, <1>6, <1>7 DEF Replace

LEMMA NextGood ==
    ASSUME JaInv, [Next]_vars
    PROVE  JaInv'
  <1>1. CASE UNCHANGED vars
    <2>1. ja' = ja /\ writer' = writer /\ astray' = astray /\ sizes' = sizes
      BY <1>1 DEF vars
    <2>2. Values' = Values
      BY <2>1, ValuesAre, ValuesNext
    <2> QED
      BY <2>1, <2>2 DEF JaInv, Ready
  <1>2. CASE Next
    <2>1. sizes' = sizes /\ sizes \in Workloads
      BY <1>2 DEF Next, JaInv
    <2>2. sizes \subseteq Nat /\ AppendSizes \subseteq Nat
      BY <2>1, WritersAssumption
    <2>3. PICK w \in Writers :
            \/ /\ ~astray
               /\ \/ \E id \in Ids : \/ \E size \in sizes : Set(w, id, size)
                                     \/ \E size \in AppendSizes : AppendRead(w, id, size)
                                     \/ DefragRead(w, id)
                  \/ AppendAlloc(w) \/ DefragPut(w) \/ Replace(w)
            \/ Undo(w)
      BY <1>2 DEF Next
    <2>4. CASE Undo(w) /\ astray
      <3>1. writer \in [Writers -> WriterStates]
        BY DEF JaInv
      <3>2. writer' \in [Writers -> WriterStates] /\ astray'
        BY <2>4, <3>1, WriterTypes DEF Undo
      <3> QED
        BY <2>1, <3>2 DEF JaInv, Ready
    <2>5. CASE Undo(w) /\ ~astray
      BY <2>1, <2>5, UndoKeeps, KeepsInv
    <2>6. CASE ~astray /\ ~Undo(w)
      <3> SUFFICES Keeps
        BY <2>1, KeepsInv
      <3>1. ASSUME NEW id \in Ids, NEW size \in sizes, Set(w, id, size) PROVE Keeps
        BY <2>2, <2>6, <3>1, SetKeeps
      <3>2. ASSUME NEW id \in Ids, NEW size \in AppendSizes, AppendRead(w, id, size) PROVE Keeps
        BY <2>2, <2>6, <3>2, AppendReadKeeps
      <3>3. ASSUME NEW id \in Ids, DefragRead(w, id) PROVE Keeps
        BY <2>6, <3>3, DefragReadKeeps
      <3>4. CASE AppendAlloc(w)
        BY <2>6, <3>4, AppendAllocKeeps
      <3>5. CASE DefragPut(w)
        BY <2>6, <3>5, DefragPutKeeps
      <3>6. CASE Replace(w)
        BY <2>6, <3>6, ReplaceKeeps
      <3> QED
        BY <2>3, <2>6, <3>1, <3>2, <3>3, <3>4, <3>5, <3>6
    <2> QED
      BY <2>3, <2>4, <2>5, <2>6
  <1> QED
    BY <1>1, <1>2

\* The column is sound in every state that a run of the writers reaches: what
\* grn_ja_alloc hands out, grn_ja_replace puts into records and grn_ja_free takes
\* back stays in order however their critical sections follow each other.
THEOREM ColumnIsSound == Spec => []JaInv
  <1>1. Init => JaInv
    BY InitGood
  <1>2. JaInv /\ [Next]_vars => JaInv'
    BY NextGood
  <1> QED
    BY <1>1, <1>2, PTL DEF Spec

-----------------------------------------------------------------------------
(***************************************************************************)
(* What the invariant says of the bytes.                                   *)
(***************************************************************************)
LEMMA ReadyNow ==
    ASSUME JaInv, Ready
    PROVE  /\ Sound(ja, Values) /\ NoneIsEmpty(ja) /\ Bounded(ja, Values)
           /\ ja \in Columns /\ Values \in [Owners -> Einfos]
           /\ \A o \in Owners : Held(o) = Values[o]
           /\ \A o : o \in Elements <=> o \in Owners /\ HasSpace(Values[o])
  <1>1. Good(ja, Values) /\ Bounded(ja, Values)
    BY DEF JaInv
  <1>2. \A o \in Owners : Held(o) = Values[o]
    BY DEF Values
  <1> HIDE DEF Values
  <1> QED
    BY <1>1, <1>2 DEF Good, Sound, Elements

\* A value with space is in chunks, in a sequential segment or in huge ones.
LEMMA SpaceKinds ==
    ASSUME NEW e \in Einfos, HasSpace(e)
    PROVE  \/ /\ IsHuge(e) /\ e.type = "huge"
              /\ Space(e) = (e.seg .. Last(e)) \X Bytes
           \/ /\ IsSequential(e) /\ e.type # "huge" /\ element_type(e.size) = "sequential"
              /\ Space(e) = {e.seg} \X (Start(e) .. Stop(e) - 1)
           \/ /\ IsChunk(e, variation(e.size)) /\ e.type # "huge" /\ variation(e.size) \in Variations
              /\ element_type(e.size) = "chunk"
              /\ Space(e) = ChunkBytes(variation(e.size), e)
  <1>1. CASE e.type = "huge"
    BY <1>1 DEF IsHuge, Space, Last
  <1>2. CASE e.type # "huge" /\ element_type(e.size) = "sequential"
    <2>1. e.type = "normal"
      BY <1>2 DEF Einfos, HasSpace
    <2>2. Space(e) = {e.seg} \X (e.pos - IdSize .. e.pos + aligned_element_size(e.size) - 1)
      BY <1>2 DEF Space
    <2>3. e.pos + aligned_element_size(e.size) - 1 = Stop(e) - 1
      BY AlignedSize DEF Einfos, Stop
    <2>4. Space(e) = {e.seg} \X (Start(e) .. Stop(e) - 1)
      BY <2>2, <2>3, Zenon DEF Start
    <2> QED
      BY <1>2, <2>1, <2>4 DEF IsSequential
  <1>3. CASE e.type # "huge" /\ element_type(e.size) = "chunk"
    <2>1. e.type = "normal" /\ e.size \in Nat
      BY <1>3 DEF Einfos, HasSpace
    <2>2. variation(e.size) \in Variations
      BY <1>3, <2>1, VariationType
    <2> QED
      BY <1>3, <2>1, <2>2 DEF IsChunk, Space
  <1> QED
    BY <1>1, <1>2, <1>3 DEF Einfos

LEMMA FitNow ==
    ASSUME JaInv
    PROVE  SegmentsFit
  <1> SUFFICES ASSUME Ready
               PROVE  /\ \A o \in Elements : \A b \in Space(Held(o)) :
                            IF Held(o).type = "huge" THEN ja.info[b[1]].type = "huge"
                            ELSE IF element_type(Held(o).size) = "sequential"
                                 THEN ja.info[b[1]].type = "sequential"
                            ELSE ja.info[b[1]] = ChunkInfo(variation(Held(o).size))
                      /\ \A v \in Variations : \A b \in FreeRest(ja, v) : ja.info[b[1]] = ChunkInfo(v)
                      /\ \A b \in CurrentRest(ja) : ja.info[b[1]].type = "sequential"
    BY DEF SegmentsFit
  <1>1. /\ Sound(ja, Values) /\ ja \in Columns /\ Values \in [Owners -> Einfos]
        /\ \A o \in Owners : Held(o) = Values[o]
        /\ \A o : o \in Elements <=> o \in Owners /\ HasSpace(Values[o])
    BY ReadyNow
  <1>2. ASSUME NEW o \in Elements, NEW b \in Space(Held(o))
        PROVE  IF Held(o).type = "huge" THEN ja.info[b[1]].type = "huge"
               ELSE IF element_type(Held(o).size) = "sequential"
                    THEN ja.info[b[1]].type = "sequential"
               ELSE ja.info[b[1]] = ChunkInfo(variation(Held(o).size))
    <2> DEFINE e == Values[o]
    <2>1. o \in Owners /\ Held(o) = e /\ e \in Einfos /\ HasSpace(e)
      BY <1>1
    <2>2. b \in Space(e)
      BY <1>2, <2>1
    <2>3. CASE IsHuge(e) /\ e.type = "huge" /\ Space(e) = (e.seg .. Last(e)) \X Bytes
      <3>1. b[1] \in e.seg .. Last(e)
        BY <2>2, <2>3
      <3>2. ja.info[b[1]].type = "huge"
        BY <1>1, <2>1, <2>3, <3>1 DEF Sound, Huges
      <3> QED
        BY <2>1, <2>3, <3>2
    <2>4. CASE /\ IsSequential(e) /\ e.type # "huge" /\ element_type(e.size) = "sequential"
               /\ Space(e) = {e.seg} \X (Start(e) .. Stop(e) - 1)
      <3>1. b[1] = e.seg
        BY <2>2, <2>4
      <3> QED
        BY <1>1, <2>1, <2>4, <3>1 DEF Sound, Sequentials
    <2>5. CASE /\ IsChunk(e, variation(e.size)) /\ e.type # "huge" /\ variation(e.size) \in Variations
               /\ element_type(e.size) = "chunk"
               /\ Space(e) = ChunkBytes(variation(e.size), e)
      <3>1. b[1] = e.seg
        BY <2>2, <2>5 DEF ChunkBytes
      <3>2. ChunkAt(ja, variation(e.size), e)
        BY <1>1, <2>1, <2>5 DEF Sound, Chunks, ChunksInPlace
      <3> QED
        BY <2>1, <2>5, <3>1, <3>2 DEF ChunkAt
    <2> QED
      BY <2>1, <2>3, <2>4, <2>5, SpaceKinds
  <1>3. ASSUME NEW v \in Variations, NEW b \in FreeRest(ja, v)
        PROVE  ja.info[b[1]] = ChunkInfo(v)
    <2>1. ja.free_elements[v].seg # 0 /\ b[1] = ja.free_elements[v].seg
      BY <1>3 DEF FreeRest
    <2>2. ChunkAt(ja, v, ja.free_elements[v])
      BY <1>1, <2>1 DEF Sound, Chunks, ChunksInPlace
    <2> QED
      BY <2>1, <2>2 DEF ChunkAt
  <1>4. ASSUME NEW b \in CurrentRest(ja)
        PROVE  ja.info[b[1]].type = "sequential"
    <2>1. b[1] = ja.curr_seg /\ b[2] \in ja.curr_pos .. SegmentSize - 1
      BY <1>4 DEF CurrentRest
    <2>2. ja.curr_pos < SegmentSize
      BY <1>1, <2>1, SizesType DEF Columns
    <2> QED
      BY <1>1, <2>1, <2>2 DEF Sound, Sequentials
  <1> QED
    BY <1>2, <1>3, <1>4

\* Every value, and the space that is handed out next, is in segments of its kind.
THEOREM SegmentsAlwaysFit == Spec => []SegmentsFit
  <1>1. JaInv => SegmentsFit
    BY FitNow
  <1> QED
    BY <1>1, ColumnIsSound, PTL

\* Segment 0 has element infos: no garbage infos are there, and no chunks.
LEMMA NotInFirst ==
    ASSUME NEW j, NEW E, Sound(j, E)
    PROVE  /\ j.info[0].type = "einfo"
           /\ \A v : 0 \notin GinfosOf(j, v) /\ ListedRecords(j, v) = Records(j, v)
  <1>1. j.info[0].type = "einfo"
    BY DEF Sound, Infos
  <1>2. \A v : 0 \notin GinfosOf(j, v)
    BY <1>1, InfoKinds DEF GinfosOf
  <1>3. \A v : \A r \in Records(j, v) : r[1] # 0
    BY <1>2 DEF Records
  <1> QED
    BY <1>1, <1>2, <1>3 DEF ListedRecords

LEMMA ExactNow ==
    ASSUME JaInv
    PROVE  GarbageIsExact
  <1> SUFFICES ASSUME Ready, NEW v \in Variations
               PROVE  LET list == Garbage(ja, v)
                          listed == {list[n] : n \in DOMAIN list}
                      IN  /\ listed = GinfosOf(ja, v) /\ Cardinality(listed) = Len(list)
                          /\ \A s \in listed : Len(ja.ginfo[s].recs) \in 1 .. GarbagesInSegment
                          /\ ja.n_garbages[v] = Cardinality(Records(ja, v))
    BY DEF GarbageIsExact
  <1>1. Sound(ja, Values) /\ NoneIsEmpty(ja) /\ ja \in Columns
    BY ReadyNow
  <1>2. PICK l : /\ IsList(ja, v, l) /\ Garbage(ja, v) = l
                 /\ DOMAIN l = 1 .. Len(l) /\ Len(l) \in Nat
                 /\ \A n \in 1 .. Len(l) : l[n] \in Segments /\ ja.info[l[n]] = Info("ginfo", v)
    BY <1>1, Listed
  <1> DEFINE N == 1 .. Len(l)
             listed == {l[n] : n \in N}
  <1>3. listed = GinfosOf(ja, v)
    <2>0. l \in Seq(Segments \ {0})
      BY <1>2 DEF IsList
    <2>1. \A n \in N : l[n] # 0
      BY <2>0
    <2>2. \A s \in Segments \ {0} : ja.info[s] = Info("ginfo", v) => \E n \in N : l[n] = s
      BY <1>2 DEF IsList
    <2>3. 0 \notin GinfosOf(ja, v)
      BY <1>1, NotInFirst
    <2> QED
      BY <1>2, <2>1, <2>2, <2>3 DEF GinfosOf
  <1>4. Cardinality(listed) = Len(l)
    <2>1. l = [n \in N |-> l[n]]
      BY <1>2 DEF IsList
    <2>2. \A m, n \in N : l[m] = l[n] => m = n
      BY <1>2 DEF IsList
    <2>3. IsFiniteSet(N) /\ Cardinality(N) = Len(l)
      BY <1>2, UpTo
    <2> HIDE DEF N
    <2>4. l \in Bijection(N, listed)
      BY <2>1, <2>2 DEF Bijection, Injection, Surjection, IsInjective
    <2> HIDE DEF listed
    <2> QED
      BY <2>3, <2>4, FS_Bijection DEF ExistsBijection
  <1>5. ASSUME NEW s \in listed PROVE Len(ja.ginfo[s].recs) \in 1 .. GarbagesInSegment
    <2>1. s \in Segments /\ ja.info[s].type = "ginfo"
      BY <1>2, InfoKinds
    <2>2. Len(ja.ginfo[s].recs) <= GarbagesInSegment /\ Len(ja.ginfo[s].recs) # 0
      BY <1>1, <2>1 DEF Sound, Lists, NoneIsEmpty
    <2>3. Len(ja.ginfo[s].recs) \in Nat
      BY <1>1, <2>1 DEF Columns
    <2> QED
      BY <2>2, <2>3, SizesType
  <1>6. ja.n_garbages[v] = Cardinality(Records(ja, v))
    BY <1>1 DEF Sound, Lists
  <1> QED
    BY <1>2, <1>3, <1>4, <1>5, <1>6

\* The list of garbage infos has every garbage info segment once, and n_garbages
\* counts what is in them.
THEOREM GarbageStaysExact == Spec => []GarbageIsExact
  <1>1. JaInv => GarbageIsExact
    BY ExactNow
  <1> QED
    BY <1>1, ColumnIsSound, PTL


-----------------------------------------------------------------------------
(***************************************************************************)
(* The uses of a byte b: what kind of segment it is in, and why no other   *)
(* use of that segment has it.                                             *)
(***************************************************************************)
HugeUse(t, b, o) ==
    /\ t = <<"element", o, Space(Values[o])>>
    /\ IsHuge(Values[o]) /\ b[1] \in Values[o].seg .. Last(Values[o])
    /\ ja.info[b[1]].type = "huge"
SequentialUse(t, b, o) ==
    /\ t = <<"element", o, Space(Values[o])>>
    /\ IsSequential(Values[o]) /\ b[1] = Values[o].seg /\ b[2] \in BytesOf(Values[o])
    /\ ja.info[b[1]].type = "sequential"
InChunk(v, p, b) == b[1] = p.seg /\ b[2] \in p.pos .. p.pos + chunk_size(v) - 1
ChunkUse(t, b, o, v) ==
    /\ t = <<"element", o, Space(Values[o])>>
    /\ IsChunk(Values[o], v) /\ InChunk(v, Values[o], b)
    /\ ja.info[b[1]] = ChunkInfo(v)
GarbageUse(t, b, s, n, v) ==
    /\ t = <<"garbage", <<s, n>>, ChunkBytes(v, ja.ginfo[s].recs[n])>>
    /\ IsRecord(ja, v, s, n) /\ InChunk(v, ja.ginfo[s].recs[n], b)
    /\ ja.info[b[1]] = ChunkInfo(v)
FreeUse(t, b, v) ==
    /\ t = <<"free", v, FreeRest(ja, v)>>
    /\ InRest(ja, v, [seg |-> b[1], pos |-> b[2]])
    /\ ja.info[b[1]] = ChunkInfo(v)
CurrentUse(t, b) ==
    /\ t = <<"current", 0, CurrentRest(ja)>>
    /\ b[1] = ja.curr_seg /\ b[2] >= ja.curr_pos
    /\ ja.info[b[1]].type = "sequential"
InfoUse(t, b) ==
    /\ t = <<"info", b[1], Whole(b[1])>>
    /\ ja.info[b[1]].type \in {"einfo", "ginfo"}

LEMMA ElementUses ==
    ASSUME JaInv, Ready, NEW o \in Elements, NEW b \in Space(Held(o)),
           NEW t, t = <<"element", o, Space(Held(o))>>
    PROVE  /\ o \in Owners
           /\ HugeUse(t, b, o) \/ SequentialUse(t, b, o) \/ \E v \in Variations : ChunkUse(t, b, o, v)
  <1>1. /\ Sound(ja, Values) /\ ja \in Columns /\ Values \in [Owners -> Einfos]
        /\ \A p \in Owners : Held(p) = Values[p]
        /\ \A p : p \in Elements <=> p \in Owners /\ HasSpace(Values[p])
    BY ReadyNow
  <1> HIDE DEF Values
  <1> DEFINE e == Values[o]
  <1>2. o \in Owners /\ Held(o) = e /\ e \in Einfos /\ HasSpace(e)
    BY <1>1
  <1>3. b \in Space(e) /\ t = <<"element", o, Space(e)>>
    BY <1>2
  <1>4. CASE IsHuge(e) /\ Space(e) = (e.seg .. Last(e)) \X Bytes
    <2>1. b[1] \in e.seg .. Last(e)
      BY <1>3, <1>4
    <2>2. ja.info[b[1]].type = "huge"
      BY <1>1, <1>2, <1>4, <2>1 DEF Sound, Huges
    <2>3. HugeUse(t, b, o)
      BY <1>3, <1>4, <2>1, <2>2 DEF HugeUse
    <2> QED
      BY <1>2, <2>3
  <1>5. CASE IsSequential(e) /\ Space(e) = {e.seg} \X (Start(e) .. Stop(e) - 1)
    <2>1. b[1] = e.seg /\ b[2] \in BytesOf(e)
      BY <1>3, <1>5 DEF BytesOf
    <2>2. ja.info[b[1]].type = "sequential"
      BY <1>1, <1>2, <1>5, <2>1 DEF Sound, Sequentials
    <2>3. SequentialUse(t, b, o)
      BY <1>3, <1>5, <2>1, <2>2 DEF SequentialUse
    <2> QED
      BY <1>2, <2>3
  <1>6. CASE /\ IsChunk(e, variation(e.size)) /\ variation(e.size) \in Variations
             /\ Space(e) = ChunkBytes(variation(e.size), e)
    <2>1. PICK v \in Variations : v = variation(e.size)
      BY <1>6
    <2>2. IsChunk(e, v) /\ Space(e) = ChunkBytes(v, e)
      BY <1>6, <2>1
    <2>3. InChunk(v, e, b)
      BY <1>3, <2>2 DEF ChunkBytes, InChunk
    <2>4. ChunkAt(ja, v, e)
      BY <1>1, <1>2, <2>2 DEF Sound, Chunks, ChunksInPlace
    <2>5. ja.info[b[1]] = ChunkInfo(v)
      BY <2>3, <2>4 DEF ChunkAt, InChunk
    <2>6. ChunkUse(t, b, o, v)
      BY <1>3, <2>2, <2>3, <2>5 DEF ChunkUse
    <2> QED
      BY <1>2, <2>6
  <1> QED
    BY <1>2, <1>4, <1>5, <1>6, SpaceKinds

LEMMA GarbageUses ==
    ASSUME JaInv, Ready, NEW v \in Variations, NEW r \in Records(ja, v),
           NEW b \in ChunkBytes(v, RecordAt(ja, r)),
           NEW t, t = <<"garbage", r, ChunkBytes(v, RecordAt(ja, r))>>
    PROVE  \E s \in Segments, n \in Nat : GarbageUse(t, b, s, n, v)
  <1>1. Sound(ja, Values) /\ ja \in Columns
    BY ReadyNow
  <1> HIDE DEF Values
  <1>2. PICK s \in Segments, n \in Nat : r = <<s, n>> /\ IsRecord(ja, v, s, n)
    BY <1>1, RecordsAre
  <1>3. RecordAt(ja, r) = ja.ginfo[s].recs[n]
    BY <1>2 DEF RecordAt
  <1>4. InChunk(v, ja.ginfo[s].recs[n], b)
    BY <1>3 DEF ChunkBytes, InChunk
  <1>5. ChunkAt(ja, v, ja.ginfo[s].recs[n])
    BY <1>1, <1>2 DEF Sound, Chunks, ChunksInPlace
  <1>6. ja.info[b[1]] = ChunkInfo(v)
    BY <1>4, <1>5 DEF ChunkAt, InChunk
  <1>7. t = <<"garbage", <<s, n>>, ChunkBytes(v, ja.ginfo[s].recs[n])>>
    BY <1>2, <1>3
  <1>8. GarbageUse(t, b, s, n, v)
    BY <1>2, <1>4, <1>6, <1>7 DEF GarbageUse
  <1> QED
    BY <1>8

LEMMA RestUses ==
    ASSUME JaInv, Ready
    PROVE  /\ \A v \in Variations : \A b \in FreeRest(ja, v) :
                    FreeUse(<<"free", v, FreeRest(ja, v)>>, b, v)
           /\ \A b \in CurrentRest(ja) : CurrentUse(<<"current", 0, CurrentRest(ja)>>, b)
           /\ \A s \in Segments : \A b \in Whole(s) :
                    ja.info[s].type \in {"einfo", "ginfo"} => InfoUse(<<"info", s, Whole(s)>>, b)
  <1>1. Sound(ja, Values) /\ ja \in Columns
    BY ReadyNow
  <1> HIDE DEF Values
  <1>2. ASSUME NEW v \in Variations, NEW b \in FreeRest(ja, v)
        PROVE  FreeUse(<<"free", v, FreeRest(ja, v)>>, b, v)
    <2>1. /\ ja.free_elements[v].seg # 0 /\ b[1] = ja.free_elements[v].seg
          /\ b[2] \in ja.free_elements[v].pos .. SegmentSize - 1
      BY <1>2 DEF FreeRest
    <2>2. ja.free_elements[v].pos \in Nat
      BY <1>1, SizesType DEF Columns, Places
    <2>3. InRest(ja, v, [seg |-> b[1], pos |-> b[2]])
      BY <2>1, <2>2, SizesType DEF InRest
    <2>4. ja.info[b[1]] = ChunkInfo(v)
      BY <1>1, <2>1 DEF Sound, Chunks, ChunksInPlace, ChunkAt
    <2> QED
      BY <2>3, <2>4 DEF FreeUse
  <1>3. ASSUME NEW b \in CurrentRest(ja)
        PROVE  CurrentUse(<<"current", 0, CurrentRest(ja)>>, b)
    <2>1. b[1] = ja.curr_seg /\ b[2] \in ja.curr_pos .. SegmentSize - 1
      BY <1>3 DEF CurrentRest
    <2>2. ja.curr_pos < SegmentSize /\ b[2] >= ja.curr_pos
      BY <1>1, <2>1, SizesType DEF Columns
    <2> QED
      BY <1>1, <2>1, <2>2 DEF Sound, Sequentials, CurrentUse
  <1>4. ASSUME NEW s \in Segments, NEW b \in Whole(s), ja.info[s].type \in {"einfo", "ginfo"}
        PROVE  InfoUse(<<"info", s, Whole(s)>>, b)
    <2>1. b[1] = s
      BY DEF Whole
    <2> QED
      BY <1>4, <2>1 DEF InfoUse
  <1> QED
    BY <1>2, <1>3, <1>4

UsedBy(t, b) ==
    \/ \E o \in Owners : HugeUse(t, b, o)
    \/ \E o \in Owners : SequentialUse(t, b, o)
    \/ \E o \in Owners, v \in Variations : ChunkUse(t, b, o, v)
    \/ \E s \in Segments, n \in Nat, v \in Variations : GarbageUse(t, b, s, n, v)
    \/ \E v \in Variations : FreeUse(t, b, v)
    \/ CurrentUse(t, b)
    \/ InfoUse(t, b)

LEMMA UsesAre ==
    ASSUME JaInv, Ready, NEW t \in Uses, NEW b \in t[3]
    PROVE  UsedBy(t, b)
  <1>1. \/ \E o \in Elements : t = <<"element", o, Space(Held(o))>>
        \/ \E v \in Variations : \E r \in Records(ja, v) :
                t = <<"garbage", r, ChunkBytes(v, RecordAt(ja, r))>>
        \/ \E v \in Variations : t = <<"free", v, FreeRest(ja, v)>>
        \/ t = <<"current", 0, CurrentRest(ja)>>
        \/ \E s \in Segments : t = <<"info", s, Whole(s)>> /\ ja.info[s].type \in {"einfo", "ginfo"}
    <2> DEFINE G == UNION {{<<"garbage", r, ChunkBytes(v, RecordAt(ja, r))>> : r \in Records(ja, v)} :
                                v \in Variations}
               I == {s \in Segments : ja.info[s].type \in {"einfo", "ginfo"}}
               X == {<<"element", o, Space(Held(o))>> : o \in Elements}
               Y == {<<"free", v, FreeRest(ja, v)>> : v \in Variations}
               Z == {<<"info", s, Whole(s)>> : s \in I}
    <2>0. Uses = X \cup G \cup Y \cup {<<"current", 0, CurrentRest(ja)>>} \cup Z
      BY DEF Uses
    <2>1. \/ t \in X \/ t \in G \/ t \in Y
          \/ t = <<"current", 0, CurrentRest(ja)>> \/ t \in Z
      <3> HIDE DEF X, Y, Z, G, Uses
      <3> QED
        BY <2>0
    <2>2. t \in G => \E v \in Variations : \E r \in Records(ja, v) :
                        t = <<"garbage", r, ChunkBytes(v, RecordAt(ja, r))>>
      BY Zenon
    <2> HIDE DEF G
    <2>3. t \in Z =>
            \E s \in Segments : t = <<"info", s, Whole(s)>> /\ ja.info[s].type \in {"einfo", "ginfo"}
      BY Zenon
    <2> HIDE DEF I
    <2> QED
      BY <2>1, <2>2, <2>3, Zenon
  <1>2. ASSUME NEW o \in Elements, t = <<"element", o, Space(Held(o))>> PROVE UsedBy(t, b)
    <2>1. b \in Space(Held(o))
      BY <1>2
    <2> QED
      BY <1>2, <2>1, ElementUses DEF UsedBy
  <1>3. ASSUME NEW v \in Variations, NEW r \in Records(ja, v),
               t = <<"garbage", r, ChunkBytes(v, RecordAt(ja, r))>>
        PROVE  UsedBy(t, b)
    <2>1. b \in ChunkBytes(v, RecordAt(ja, r))
      BY <1>3
    <2> QED
      BY <1>3, <2>1, GarbageUses DEF UsedBy
  <1>4. ASSUME NEW v \in Variations, t = <<"free", v, FreeRest(ja, v)>> PROVE UsedBy(t, b)
    <2>1. b \in FreeRest(ja, v)
      BY <1>4
    <2> QED
      BY <1>4, <2>1, RestUses DEF UsedBy
  <1>5. ASSUME t = <<"current", 0, CurrentRest(ja)>> PROVE UsedBy(t, b)
    <2>1. b \in CurrentRest(ja)
      BY <1>5
    <2> QED
      BY <1>5, <2>1, RestUses DEF UsedBy
  <1>6. ASSUME NEW s \in Segments, t = <<"info", s, Whole(s)>>,
               ja.info[s].type \in {"einfo", "ginfo"}
        PROVE  UsedBy(t, b)
    <2>1. b \in Whole(s)
      BY <1>6
    <2> QED
      BY <1>6, <2>1, RestUses DEF UsedBy
  <1> QED
    BY <1>1, <1>2, <1>3, <1>4, <1>5, <1>6


LEMMA UseOfElement ==
    ASSUME NEW t, NEW u, NEW b, NEW o,
           HugeUse(t, b, o) \/ SequentialUse(t, b, o) \/ (\E v : ChunkUse(t, b, o, v)),
           HugeUse(u, b, o) \/ SequentialUse(u, b, o) \/ (\E v : ChunkUse(u, b, o, v))
    PROVE  t = u
  <1> HIDE DEF Values
  <1> QED
    BY DEF HugeUse, SequentialUse, ChunkUse

\* The chunks of a segment are in a grid: two that have a byte in common are the same,
\* and one before the rest ends there.
LEMMA SameChunk ==
    ASSUME NEW v \in Variations, NEW p, NEW q, p.pos \in Nat, q.pos \in Nat,
           NEW b, InChunk(v, p, b), InChunk(v, q, b),
           p.pos % chunk_size(v) = 0, q.pos % chunk_size(v) = 0
    PROVE  Same(p, q)
  <1>1. PICK c \in Nat \ {0} : c = chunk_size(v)
    BY ChunkSizes
  <1>2. PICK x \in Nat : x = p.pos
    OBVIOUS
  <1>3. PICK y \in Nat : y = q.pos
    OBVIOUS
  <1>4. x % c = 0 /\ y % c = 0 /\ x \in Int /\ y \in Int
    BY <1>1, <1>2, <1>3
  <1>5. x < y => x + c <= y
    BY <1>4, Apart, Zenon
  <1>6. y < x => y + c <= x
    BY <1>4, Apart, Zenon
  <1>7. b[2] \in x .. x + c - 1 /\ b[2] \in y .. y + c - 1 /\ p.seg = q.seg
    BY <1>1, <1>2, <1>3 DEF InChunk
  <1>8. x = y
    BY <1>5, <1>6, <1>7
  <1> QED
    BY <1>2, <1>3, <1>7, <1>8 DEF Same

LEMMA BeforeRest ==
    ASSUME NEW v \in Variations, NEW p, NEW b, p.pos \in Nat,
           ja \in Columns, ja.free_elements[v].seg # 0 => ChunkAt(ja, v, ja.free_elements[v]),
           ChunkAt(ja, v, p), ~InRest(ja, v, p), InChunk(v, p, b),
           InRest(ja, v, [seg |-> b[1], pos |-> b[2]])
    PROVE  FALSE
  <1>1. PICK c \in Nat \ {0} : c = chunk_size(v)
    BY ChunkSizes
  <1>2. PICK x \in Nat : x = p.pos
    OBVIOUS
  <1>3. PICK y \in Nat : y = ja.free_elements[v].pos
    BY SizesType DEF Columns, Places
  <1>4. ja.free_elements[v].seg # 0 /\ b[1] = ja.free_elements[v].seg /\ b[2] >= y
    BY <1>3 DEF InRest
  <1>5. b[1] = p.seg /\ b[2] \in x .. x + c - 1
    BY <1>1, <1>2 DEF InChunk
  <1>6. ~(x >= y)
    BY <1>2, <1>3, <1>4, <1>5 DEF InRest
  <1>7. x % c = 0 /\ y % c = 0
    BY <1>1, <1>2, <1>3, <1>4 DEF ChunkAt
  <1>8. x < y /\ x \in Int /\ y \in Int
    BY <1>6
  <1>9. x + c <= y
    BY <1>7, <1>8, Apart, Zenon
  <1> QED
    BY <1>4, <1>5, <1>9

LEMMA OneUse ==
    ASSUME JaInv, Ready, NEW t, NEW u, NEW b, UsedBy(t, b), UsedBy(u, b)
    PROVE  t = u
  <1>1. /\ Sound(ja, Values) /\ ja \in Columns /\ Values \in [Owners -> Einfos]
    BY ReadyNow
  <1> HIDE DEF Values
  <1>2. \A o \in Owners : Values[o] \in Einfos /\ Values[o].pos \in Nat /\ Values[o].seg \in Segments
    BY <1>1, SizesType DEF Einfos
  <1>3. \A s \in Segments, n \in Nat, v \in Variations :
            IsRecord(ja, v, s, n) => ja.ginfo[s].recs[n].pos \in Nat
    BY <1>1, RecordType, SizesType DEF Places
  <1>4. CASE ja.info[b[1]].type = "huge"
    <2>1. PICK o \in Owners : HugeUse(t, b, o)
      BY <1>4, InfoKinds DEF UsedBy, SequentialUse, ChunkUse, GarbageUse, FreeUse, CurrentUse, InfoUse
    <2>2. PICK p \in Owners : HugeUse(u, b, p)
      BY <1>4, InfoKinds DEF UsedBy, SequentialUse, ChunkUse, GarbageUse, FreeUse, CurrentUse, InfoUse
    <2>3. o = p
      <3>1. PICK x \in Int, y \in Int : x = Values[o].seg /\ y = Last(Values[o])
        BY <1>2, <2>1, HugeSize, SizesType DEF Einfos, Last, HugeUse, IsHuge, HasSpace, Segments
      <3>2. PICK z \in Int, w \in Int : z = Values[p].seg /\ w = Last(Values[p])
        BY <1>2, <2>2, HugeSize, SizesType DEF Einfos, Last, HugeUse, IsHuge, HasSpace, Segments
      <3>3. b[1] \in x .. y /\ b[1] \in z .. w
        BY <2>1, <2>2, <3>1, <3>2 DEF HugeUse
      <3>4. o # p => y < z \/ w < x
        BY <1>1, <2>1, <2>2, <3>1, <3>2 DEF Sound, Huges, HugeUse
      <3> QED
        BY <3>3, <3>4
    <2> QED
      BY <2>1, <2>2, <2>3, UseOfElement
  <1>5. CASE ja.info[b[1]].type = "sequential"
    <2>1. (\E o \in Owners : SequentialUse(t, b, o)) \/ CurrentUse(t, b)
      BY <1>5, InfoKinds DEF UsedBy, HugeUse, ChunkUse, GarbageUse, FreeUse, InfoUse
    <2>2. (\E o \in Owners : SequentialUse(u, b, o)) \/ CurrentUse(u, b)
      BY <1>5, InfoKinds DEF UsedBy, HugeUse, ChunkUse, GarbageUse, FreeUse, InfoUse
    <2>3. ASSUME NEW o \in Owners, NEW x, NEW y, SequentialUse(x, b, o), CurrentUse(y, b)
          PROVE  FALSE
      <3>1. PICK a \in Int, z \in Int : a = Start(Values[o]) /\ z = Stop(Values[o])
        BY <1>2, BytesOfType
      <3>2. b[2] \in a .. z - 1 /\ b[1] = Values[o].seg
        BY <2>3, <3>1 DEF SequentialUse, BytesOf
      <3>3. PICK c \in Nat : c = ja.curr_pos
        BY <1>1, SizesType DEF Columns
      <3>4. z <= c
        BY <1>1, <2>3, <3>1, <3>2, <3>3 DEF Sound, Sequentials, SequentialUse, CurrentUse
      <3>5. b[2] >= c
        BY <2>3, <3>3 DEF CurrentUse
      <3> QED
        BY <3>2, <3>4, <3>5
    <2>4. ASSUME NEW o \in Owners, NEW p \in Owners, SequentialUse(t, b, o), SequentialUse(u, b, p)
          PROVE  o = p
      <3>1. PICK a \in Int, z \in Int : a = Start(Values[o]) /\ z = Stop(Values[o])
        BY <1>2, BytesOfType
      <3>2. PICK c \in Int, d \in Int : c = Start(Values[p]) /\ d = Stop(Values[p])
        BY <1>2, BytesOfType
      <3>3. b[2] \in a .. z - 1 /\ b[2] \in c .. d - 1
        BY <2>4, <3>1, <3>2 DEF SequentialUse, BytesOf
      <3>4. o # p => z <= c \/ d <= a
        BY <1>1, <2>4, <3>1, <3>2 DEF Sound, Sequentials, SequentialUse
      <3> QED
        BY <3>3, <3>4
    <2>5. CASE CurrentUse(t, b) /\ CurrentUse(u, b)
      BY <2>5 DEF CurrentUse
    <2> QED
      BY <2>1, <2>2, <2>3, <2>4, <2>5, UseOfElement
  <1>6. CASE ja.info[b[1]].type = "chunk"
    <2>1. \E v \in Variations : \/ \E o \in Owners : ChunkUse(t, b, o, v)
                                \/ \E s \in Segments, n \in Nat : GarbageUse(t, b, s, n, v)
                                \/ FreeUse(t, b, v)
      BY <1>6, InfoKinds DEF UsedBy, HugeUse, SequentialUse, CurrentUse, InfoUse
    <2>2. \E v \in Variations : \/ \E o \in Owners : ChunkUse(u, b, o, v)
                                \/ \E s \in Segments, n \in Nat : GarbageUse(u, b, s, n, v)
                                \/ FreeUse(u, b, v)
      BY <1>6, InfoKinds DEF UsedBy, HugeUse, SequentialUse, CurrentUse, InfoUse
    <2>3. PICK v \in Variations : /\ \/ \E o \in Owners : ChunkUse(t, b, o, v)
                                     \/ \E s \in Segments, n \in Nat : GarbageUse(t, b, s, n, v)
                                     \/ FreeUse(t, b, v)
                                  /\ ja.info[b[1]] = ChunkInfo(v)
      BY <2>1 DEF ChunkUse, GarbageUse, FreeUse
    <2>4. \/ \E o \in Owners : ChunkUse(u, b, o, v)
          \/ \E s \in Segments, n \in Nat : GarbageUse(u, b, s, n, v)
          \/ FreeUse(u, b, v)
      BY <2>2, <2>3, InfoKinds DEF ChunkUse, GarbageUse, FreeUse
    <2>5. ChunksInPlace(ja, Values, v) /\ ChunksApart(ja, Values, v)
      BY <1>1 DEF Sound, Chunks
    <2>6. ASSUME NEW x, NEW o \in Owners, ChunkUse(x, b, o, v)
          PROVE  /\ IsChunk(Values[o], v) /\ InChunk(v, Values[o], b)
                 /\ Values[o].pos % chunk_size(v) = 0
                 /\ ChunkAt(ja, v, Values[o]) /\ ~InRest(ja, v, Values[o])
      BY <2>5, <2>6 DEF ChunkUse, ChunksInPlace, ChunkAt
    <2>7. ASSUME NEW x, NEW s \in Segments, NEW n \in Nat, GarbageUse(x, b, s, n, v)
          PROVE  /\ IsRecord(ja, v, s, n) /\ InChunk(v, ja.ginfo[s].recs[n], b)
                 /\ ja.ginfo[s].recs[n].pos % chunk_size(v) = 0
                 /\ ChunkAt(ja, v, ja.ginfo[s].recs[n]) /\ ~InRest(ja, v, ja.ginfo[s].recs[n])
      BY <2>5, <2>7 DEF GarbageUse, ChunksInPlace, ChunkAt
    <2>8. ASSUME NEW x, NEW y, NEW o \in Owners, NEW s \in Segments, NEW n \in Nat,
                 ChunkUse(x, b, o, v), GarbageUse(y, b, s, n, v)
          PROVE  FALSE
      <3>1. Same(Values[o], ja.ginfo[s].recs[n])
        BY <1>2, <1>3, <2>6, <2>7, <2>8, SameChunk
      <3> QED
        BY <2>5, <2>6, <2>7, <2>8, <3>1 DEF ChunksApart
    <2>9. ASSUME NEW x, NEW y, NEW o \in Owners, ChunkUse(x, b, o, v), FreeUse(y, b, v)
          PROVE  FALSE
      BY <1>1, <1>2, <2>5, <2>6, <2>9, BeforeRest DEF FreeUse, ChunksInPlace
    <2>10. ASSUME NEW x, NEW y, NEW s \in Segments, NEW n \in Nat,
                  GarbageUse(x, b, s, n, v), FreeUse(y, b, v)
           PROVE  FALSE
      BY <1>1, <1>3, <2>5, <2>7, <2>10, BeforeRest DEF FreeUse, ChunksInPlace
    <2>11. ASSUME NEW o \in Owners, NEW p \in Owners, ChunkUse(t, b, o, v), ChunkUse(u, b, p, v)
           PROVE  o = p
      <3>1. Same(Values[o], Values[p])
        BY <1>2, <2>6, <2>11, SameChunk
      <3> QED
        BY <2>5, <2>6, <2>11, <3>1 DEF ChunksApart
    <2>12. ASSUME NEW r \in Segments, NEW m \in Nat, GarbageUse(t, b, r, m, v),
                  NEW s \in Segments, NEW n \in Nat, GarbageUse(u, b, s, n, v)
           PROVE  t = u
      <3>1. Same(ja.ginfo[r].recs[m], ja.ginfo[s].recs[n])
        BY <1>3, <2>7, <2>12, SameChunk
      <3>2. <<r, m>> = <<s, n>>
        BY <2>5, <2>7, <2>12, <3>1 DEF ChunksApart
      <3>3. r = s /\ m = n
        BY <3>2
      <3> QED
        BY <2>12, <3>3 DEF GarbageUse
    <2>13. CASE FreeUse(t, b, v) /\ FreeUse(u, b, v)
      BY <2>13 DEF FreeUse
    <2>14. ASSUME NEW o \in Owners, NEW p \in Owners, ChunkUse(t, b, o, v), ChunkUse(u, b, p, v)
           PROVE  t = u
      BY <2>11, <2>14, UseOfElement
    <2> QED
      BY <2>3, <2>4, <2>8, <2>9, <2>10, <2>12, <2>13, <2>14
  <1>7. CASE ja.info[b[1]].type \in {"einfo", "ginfo"}
    <2>1. InfoUse(t, b) /\ InfoUse(u, b)
      BY <1>7, InfoKinds DEF UsedBy, HugeUse, SequentialUse, ChunkUse, GarbageUse, FreeUse, CurrentUse
    <2> QED
      BY <2>1 DEF InfoUse
  <1>8. ja.info[b[1]].type \in {"huge", "sequential", "chunk", "einfo", "ginfo"}
    BY InfoKinds DEF UsedBy, HugeUse, SequentialUse, ChunkUse, GarbageUse, FreeUse, CurrentUse, InfoUse
  <1> QED
    BY <1>4, <1>5, <1>6, <1>7, <1>8

LEMMA DisjointNow ==
    ASSUME JaInv
    PROVE  SpacesAreDisjoint
  <1> SUFFICES ASSUME Ready, NEW t \in Uses, NEW u \in Uses, NEW b, b \in t[3], b \in u[3]
               PROVE  t = u
    BY DEF SpacesAreDisjoint
  <1> QED
    BY UsesAre, OneUse

\* No byte of the column has two uses, whatever the writers do.
THEOREM SpacesStayDisjoint == Spec => []SpacesAreDisjoint
  <1>1. JaInv => SpacesAreDisjoint
    BY DisjointNow
  <1> QED
    BY <1>1, ColumnIsSound, PTL


LEMMA CountNow ==
    ASSUME JaInv, Ready, NEW s \in Segments, ja.info[s].type = "sequential"
    PROVE  {p \in Bytes : \E o \in Elements : <<s, p>> \in Space(Held(o))} = Taken(Values, s)
  <1>1. /\ Sound(ja, Values) /\ ja \in Columns /\ Values \in [Owners -> Einfos]
        /\ \A o \in Owners : Held(o) = Values[o]
        /\ \A o : o \in Elements <=> o \in Owners /\ HasSpace(Values[o])
    BY ReadyNow
  <1> HIDE DEF Values
  <1>2. ASSUME NEW p \in Bytes, NEW o \in Elements, <<s, p>> \in Space(Held(o))
        PROVE  p \in Taken(Values, s)
    <2> DEFINE t == <<"element", o, Space(Held(o))>>
    <2>1. PICK b : b = <<s, p>> /\ b \in Space(Held(o)) /\ b[1] = s /\ b[2] = p
      BY <1>2
    <2>2. o \in Owners /\ (HugeUse(t, b, o) \/ SequentialUse(t, b, o)
                            \/ \E v \in Variations : ChunkUse(t, b, o, v))
      BY <2>1, ElementUses
    <2>3. SequentialUse(t, b, o)
      BY <2>1, <2>2, InfoKinds DEF HugeUse, ChunkUse
    <2>4. IsSequential(Values[o]) /\ Values[o].seg = s /\ p \in Start(Values[o]) .. Stop(Values[o]) - 1
      BY <2>1, <2>3 DEF SequentialUse, BytesOf
    <2>5. Start(Values[o]) \in Int /\ Stop(Values[o]) \in Int
      BY <1>1, <2>2, BytesOfType
    <2>6. Start(Values[o]) <= p /\ p < Stop(Values[o])
      BY <2>4, <2>5
    <2> QED
      BY <2>2, <2>4, <2>6 DEF Taken
  <1>3. ASSUME NEW p \in Bytes, NEW o \in Owners,
               IsSequential(Values[o]), Values[o].seg = s, Start(Values[o]) <= p, p < Stop(Values[o])
        PROVE  o \in Elements /\ <<s, p>> \in Space(Held(o))
    <2>1. HasSpace(Values[o]) /\ Values[o].type = "normal" /\ element_type(Values[o].size) = "sequential"
      BY <1>3 DEF IsSequential
    <2>2. Space(Values[o]) = {Values[o].seg} \X (Start(Values[o]) .. Stop(Values[o]) - 1)
      BY <1>1, <2>1, SpaceKinds
    <2>3. Start(Values[o]) \in Int /\ Stop(Values[o]) \in Int /\ p \in Int
      BY <1>1, BytesOfType, SizesType DEF Bytes
    <2>4. p \in Start(Values[o]) .. Stop(Values[o]) - 1
      BY <1>3, <2>3
    <2>5. <<s, p>> \in Space(Values[o])
      BY <1>3, <2>2, <2>4
    <2> QED
      BY <1>1, <2>1, <2>5
  <1> QED
    BY <1>2, <1>3 DEF Taken

LEMMA UsesHave ==
    /\ \A o \in Elements : <<"element", o, Space(Held(o))>> \in Uses
    /\ \A v \in Variations : \A r \in Records(ja, v) :
            <<"garbage", r, ChunkBytes(v, RecordAt(ja, r))>> \in Uses
    /\ \A v \in Variations : <<"free", v, FreeRest(ja, v)>> \in Uses
  <1> DEFINE G == UNION {{<<"garbage", r, ChunkBytes(v, RecordAt(ja, r))>> : r \in Records(ja, v)} :
                            v \in Variations}
             I == {s \in Segments : ja.info[s].type \in {"einfo", "ginfo"}}
             X == {<<"element", o, Space(Held(o))>> : o \in Elements}
             Y == {<<"free", v, FreeRest(ja, v)>> : v \in Variations}
             Z == {<<"info", s, Whole(s)>> : s \in I}
  <1>1. Uses = X \cup G \cup Y \cup {<<"current", 0, CurrentRest(ja)>>} \cup Z
    BY DEF Uses
  <1>2. \A o \in Elements : <<"element", o, Space(Held(o))>> \in X
    BY Zenon
  <1>3. \A v \in Variations : \A r \in Records(ja, v) :
            <<"garbage", r, ChunkBytes(v, RecordAt(ja, r))>> \in G
    <2> SUFFICES ASSUME NEW v \in Variations, NEW r \in Records(ja, v)
                 PROVE  <<"garbage", r, ChunkBytes(v, RecordAt(ja, r))>> \in G
      OBVIOUS
    <2> DEFINE Of(w) == {<<"garbage", q, ChunkBytes(w, RecordAt(ja, q))>> : q \in Records(ja, w)}
    <2>1. <<"garbage", r, ChunkBytes(v, RecordAt(ja, r))>> \in Of(v)
      BY Zenon
    <2>2. G = UNION {Of(w) : w \in Variations}
      OBVIOUS
    <2>3. Of(v) \in {Of(w) : w \in Variations}
      <3> HIDE DEF Of
      <3> QED
        OBVIOUS
    <2> HIDE DEF Of, G
    <2> QED
      BY <2>1, <2>2, <2>3
  <1>4. \A v \in Variations : <<"free", v, FreeRest(ja, v)>> \in Y
    BY Zenon
  <1> HIDE DEF X, Y, Z, G, Uses
  <1>5. X \subseteq Uses /\ G \subseteq Uses /\ Y \subseteq Uses
    BY <1>1
  <1> QED
    BY <1>2, <1>3, <1>4, <1>5

IsUsed(b) == \E u \in Uses : b \in u[3]

LEMMA WholeUsed ==
    ASSUME NEW s \in Segments, \A p \in Bytes : IsUsed(<<s, p>>)
    PROVE  Whole(s) \subseteq UNION {u[3] : u \in Uses}
  <1> SUFFICES ASSUME NEW b \in Whole(s) PROVE b \in UNION {u[3] : u \in Uses}
    OBVIOUS
  <1>1. PICK p \in Bytes : b = <<s, p>>
    BY DEF Whole
  <1>2. PICK u \in Uses : b \in u[3]
    BY <1>1 DEF IsUsed
  <1> QED
    BY <1>2

LEMMA HugeUsed ==
    ASSUME JaInv, Ready, NEW s \in Segments, ja.info[s].type = "huge", NEW p \in Bytes
    PROVE  IsUsed(<<s, p>>)
  <1>1. /\ Sound(ja, Values) /\ ja \in Columns /\ Values \in [Owners -> Einfos]
        /\ \A o \in Owners : Held(o) = Values[o]
        /\ \A o : o \in Elements <=> o \in Owners /\ HasSpace(Values[o])
    BY ReadyNow
  <1> HIDE DEF Values
  <1>2. PICK o \in Owners : IsHuge(Values[o]) /\ s \in Values[o].seg .. Last(Values[o])
    BY <1>1 DEF Sound, Huges
  <1>3. HasSpace(Values[o]) /\ Values[o].type = "huge"
    BY <1>2 DEF IsHuge
  <1>4. Space(Values[o]) = (Values[o].seg .. Last(Values[o])) \X Bytes
    BY <1>1, <1>3, SpaceKinds
  <1>5. <<s, p>> \in Space(Held(o)) /\ o \in Elements
    BY <1>1, <1>2, <1>3, <1>4
  <1>6. <<"element", o, Space(Held(o))>>[3] = Space(Held(o))
    OBVIOUS
  <1> QED
    BY <1>5, <1>6, UsesHave DEF IsUsed

LEMMA ChunkUsed ==
    ASSUME JaInv, Ready, NEW s \in Segments, s # 0, ja.info[s].type = "chunk", NEW p \in Bytes
    PROVE  IsUsed(<<s, p>>)
  <1>1. /\ Sound(ja, Values) /\ ja \in Columns /\ Values \in [Owners -> Einfos]
        /\ \A o \in Owners : Held(o) = Values[o]
        /\ \A o : o \in Elements <=> o \in Owners /\ HasSpace(Values[o])
    BY ReadyNow
  <1> HIDE DEF Values
  <1>2. PICK v \in Variations : ja.info[s] = ChunkInfo(v)
    BY <1>1 DEF Sound, Infos
  <1>3. PICK c \in Nat \ {0} : c = chunk_size(v)
    BY ChunkSizes
  <1>4. p \in Nat /\ p <= SegmentSize - 1
    BY SizesType DEF Bytes
  <1>5. PICK k \in Nat, m \in 0 .. c - 1 : k = p \div c /\ m = p % c /\ p = c * k + m
    BY <1>4, DivMod
  <1>6. PICK x \in Nat : x = c * k
    OBVIOUS
  <1>7. x % c = 0 /\ x <= p /\ p \in x .. x + c - 1 /\ x \in 0 .. SegmentSize - 1
    <2>1. x % c = 0
      BY <1>6, Multiple
    <2> QED
      BY <1>4, <1>5, <1>6, <2>1, SizesType
  <1>8. PICK q \in [seg : Segments \ {0}, pos : 0 .. SegmentSize - 1] : q.seg = s /\ q.pos = x
    <2>1. [seg |-> s, pos |-> x] \in [seg : Segments \ {0}, pos : 0 .. SegmentSize - 1]
      BY <1>7
    <2> QED
      BY <2>1
  <1>9. \/ InRest(ja, v, q)
        \/ \E o \in Owners : IsChunk(Values[o], v) /\ Same(Values[o], q)
        \/ \E r \in Segments, n \in Nat :
                IsRecord(ja, v, r, n) /\ Same(ja.ginfo[r].recs[n], q)
    BY <1>1, <1>2, <1>3, <1>7, <1>8 DEF Sound, Chunks, ChunksKept
  <1>10. CASE InRest(ja, v, q)
    <2>1. PICK y \in Nat : y = ja.free_elements[v].pos
      BY <1>1, SizesType DEF Columns, Places
    <2>2. ja.free_elements[v].seg # 0 /\ s = ja.free_elements[v].seg /\ x >= y
      BY <1>8, <1>10, <2>1 DEF InRest
    <2>3. p \in y .. SegmentSize - 1
      BY <1>4, <1>7, <2>2, SizesType
    <2>4. <<s, p>> \in FreeRest(ja, v)
      BY <2>1, <2>2, <2>3 DEF FreeRest
    <2>5. <<"free", v, FreeRest(ja, v)>>[3] = FreeRest(ja, v)
      OBVIOUS
    <2> QED
      BY <2>4, <2>5, UsesHave DEF IsUsed
  <1>11. ASSUME NEW o \in Owners, IsChunk(Values[o], v), Same(Values[o], q)
         PROVE  IsUsed(<<s, p>>)
    <2>1. /\ HasSpace(Values[o]) /\ Values[o].type = "normal"
          /\ element_type(Values[o].size) = "chunk" /\ variation(Values[o].size) = v
      BY <1>11 DEF IsChunk
    <2>2. Space(Values[o]) = ChunkBytes(v, Values[o])
      BY <1>1, <2>1, SpaceKinds
    <2>3. Values[o].seg = s /\ Values[o].pos = x
      BY <1>8, <1>11 DEF Same
    <2>4. <<s, p>> \in ChunkBytes(v, Values[o])
      BY <1>3, <1>7, <2>3 DEF ChunkBytes
    <2>5. <<s, p>> \in Space(Held(o)) /\ o \in Elements
      BY <1>1, <2>1, <2>2, <2>4
    <2>6. <<"element", o, Space(Held(o))>>[3] = Space(Held(o))
      OBVIOUS
    <2> QED
      BY <2>5, <2>6, UsesHave DEF IsUsed
  <1>12. ASSUME NEW r \in Segments, NEW n \in Nat,
                IsRecord(ja, v, r, n), Same(ja.ginfo[r].recs[n], q)
         PROVE  IsUsed(<<s, p>>)
    <2>0. <<r, n>> \in Records(ja, v)
      BY <1>1, <1>12, RecordsAre
    <2>1. PICK d : d = <<r, n>> /\ d \in Records(ja, v) /\ RecordAt(ja, d) = ja.ginfo[r].recs[n]
      BY <2>0 DEF RecordAt
    <2>2. RecordAt(ja, d).seg = s /\ RecordAt(ja, d).pos = x
      BY <1>8, <1>12, <2>1 DEF Same
    <2>3. <<s, p>> \in ChunkBytes(v, RecordAt(ja, d))
      BY <1>3, <1>7, <2>2 DEF ChunkBytes
    <2>4. <<"garbage", d, ChunkBytes(v, RecordAt(ja, d))>>[3] = ChunkBytes(v, RecordAt(ja, d))
      OBVIOUS
    <2> QED
      BY <2>1, <2>3, <2>4, UsesHave DEF IsUsed
  <1> QED
    BY <1>9, <1>10, <1>11, <1>12

LEMMA LeaksNow ==
    ASSUME JaInv
    PROVE  NothingLeaks
  <1> DEFINE Counted(s) ==
                {p \in Bytes : \E o \in Elements : <<s, p>> \in Space(Held(o))}
  <1> SUFFICES ASSUME Ready, NEW s \in Segments
               PROVE  CASE ja.info[s].type = "sequential" ->
                              ja.info[s].value = Cardinality(Counted(s))
                        [] ja.info[s].type \in {"huge", "chunk"} ->
                              Whole(s) \subseteq UNION {u[3] : u \in Uses}
                        [] ja.info[s].type = "einfo" -> ja.element_segs[ja.info[s].value] = s
                        [] OTHER -> TRUE
    BY Zenon DEF NothingLeaks
  <1>1. Sound(ja, Values)
    BY ReadyNow
  <1>2. ASSUME ja.info[s].type = "sequential" PROVE ja.info[s].value = Cardinality(Counted(s))
    <2>1. Counted(s) = Taken(Values, s)
      BY <1>2, CountNow
    <2> HIDE DEF Values, Counted
    <2> QED
      BY <1>1, <1>2, <2>1 DEF Sound, Sequentials
  <1>3. ASSUME ja.info[s].type \in {"huge", "chunk"}
        PROVE  Whole(s) \subseteq UNION {u[3] : u \in Uses}
    <2>1. s # 0
      BY <1>1, <1>3, NotInFirst
    <2> QED
      BY <1>3, <2>1, HugeUsed, ChunkUsed, WholeUsed
  <1>4. ASSUME ja.info[s].type = "einfo" PROVE ja.element_segs[ja.info[s].value] = s
    <2> HIDE DEF Values
    <2> QED
      BY <1>1, <1>4 DEF Sound, Infos
  <1> HIDE DEF Counted
  <1> QED
    BY <1>2, <1>3, <1>4

\* Nothing that writers gave up, or a failed grn_ja_replace gave back, is lost.
THEOREM NothingEverLeaks == Spec => []NothingLeaks
  <1>1. JaInv => NothingLeaks
    BY LeaksNow
  <1> QED
    BY <1>1, ColumnIsSound, PTL

-----------------------------------------------------------------------------
LEMMA ReusedNow ==
    ASSUME JaInv
    PROVE  ChunksAreReused
  <1> SUFFICES ASSUME Ready, NEW v \in Variations
               PROVE  Cardinality({o \in Elements : ja.info[Held(o).seg] = ChunkInfo(v)})
                        + Cardinality(Records(ja, v))
                            <= Cardinality(Ids) + Cardinality(Writers) + GarbageThreshold
    BY DEF ChunksAreReused
  <1> DEFINE C == {o \in Elements : ja.info[Held(o).seg] = ChunkInfo(v)}
  <1>1. /\ Sound(ja, Values) /\ Bounded(ja, Values)
        /\ ja \in Columns /\ Values \in [Owners -> Einfos]
        /\ \A o \in Owners : Held(o) = Values[o]
        /\ \A o : o \in Elements <=> o \in Owners /\ HasSpace(Values[o])
    BY ReadyNow
  <1> HIDE DEF Values
  <1>2. ASSUME NEW o \in C PROVE o \in ChunkOwners(Values, v)
    <2>1. o \in Owners /\ HasSpace(Values[o]) /\ ja.info[Values[o].seg] = ChunkInfo(v)
      BY <1>1
    <2>2. Values[o] \in Einfos
      BY <1>1, <2>1
    <2>3. ja.info[Values[o].seg].type = "chunk"
      BY <2>1 DEF ChunkInfo, Info
    <2>4. ~IsSequential(Values[o])
      BY <1>1, <2>1, <2>3 DEF Sound, Sequentials
    <2>5. ~IsHuge(Values[o])
      <3>1. SUFFICES ASSUME IsHuge(Values[o]) PROVE FALSE
        OBVIOUS
      <3>2. Values[o].seg \in Values[o].seg .. Last(Values[o])
        <4>1. Values[o].size \in Nat /\ Values[o].size # 0 /\ Values[o].seg \in Int
          BY <2>1, <2>2, SizesType DEF Einfos, HasSpace, Segments
        <4>2. PICK n \in Nat \ {0} : n = huge_n_segments(Values[o].size)
          BY <4>1, HugeSize
        <4> QED
          BY <4>1, <4>2 DEF Last
      <3> QED
        BY <1>1, <2>1, <2>3, <3>1, <3>2 DEF Sound, Huges
    <2>6. PICK u \in Variations : IsChunk(Values[o], u)
      BY <2>1, <2>2, <2>4, <2>5, SpaceKinds
    <2>7. ja.info[Values[o].seg] = ChunkInfo(u)
      BY <1>1, <2>1, <2>6 DEF Sound, Chunks, ChunksInPlace, ChunkAt
    <2>8. u = v
      <3>1. ChunkInfo(u) = ChunkInfo(v)
        BY <2>1, <2>7
      <3> QED
        BY <3>1, InfoKinds
    <2> QED
      BY <2>1, <2>6, <2>8 DEF ChunkOwners
  <1>3. C \in SUBSET ChunkOwners(Values, v)
    BY <1>2
  <1> HIDE DEF C
  <1>4. PICK a \in Nat, b \in Nat :
            a = Cardinality(ChunkOwners(Values, v)) /\ b = Cardinality(ListedRecords(ja, v))
    BY <1>1, ChunkOwnersFinite, ListedFinite
  <1>5. PICK c \in Nat : c = Cardinality(C) /\ c <= a
    BY <1>3, <1>4, ChunkOwnersFinite, FS_Subset, FS_CardinalityType
  <1>6. PICK m \in Nat : m = Cardinality(Ids) + Cardinality(Writers) + GarbageThreshold
    BY OwnersFinite, SizesType
  <1>7. a + b <= m
    BY <1>1, <1>4, <1>6 DEF Bounded
  <1>8. c + b <= m
    BY <1>5, <1>7
  <1> QED
    BY <1>1, <1>4, <1>5, <1>6, <1>8, NotInFirst DEF C

\* grn_ja_alloc_chunk uses garbage again: however often the records are changed, by however
\* many writers, the chunks of a size in use and in the garbage lists are at most as many
\* as records, writers and JA_N_GARBAGES_TH together.
THEOREM ChunksAreAlwaysReused == Spec => []ChunksAreReused
  <1>1. JaInv => ChunksAreReused
    BY ReusedNow
  <1> QED
    BY <1>1, ColumnIsSound, PTL

==============================================================================
