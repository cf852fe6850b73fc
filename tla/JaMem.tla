-------------------------------- MODULE JaMem -------------------------------
(* The variable size column (lib/store.c, "jagged arrays"): its header and   *)
(* segments, and how space for values is handed out, given back and used     *)
(* again.  A value is its size; the bytes are left out.                      *)
EXTENDS Integers, FiniteSets, FiniteSetsExt, Sequences

CONSTANTS
    Ids,                \* records
    LsegOf,             \* id >> JA_W_EINFO_IN_A_SEGMENT, of each record
    NSegments,          \* grn_ja_n_data_segments
    SegmentSize,        \* JA_SEGMENT_SIZE
    IdSize,             \* sizeof(grn_id)
    EinfoWidth,         \* JA_W_EINFO: an element info has 2^EinfoWidth bytes
    ChunkThreshold,     \* header->chunk_threshold
    GarbagesInSegment,  \* grn_ja_n_garbages_in_a_segment
    GarbageThreshold    \* JA_N_GARBAGES_TH

ASSUME SizesAssumption ==
    /\ {NSegments, SegmentSize, IdSize, GarbagesInSegment} \subseteq Nat \ {0}
    /\ {EinfoWidth, ChunkThreshold, GarbageThreshold} \subseteq Nat
    /\ EinfoWidth <= ChunkThreshold
    /\ SegmentSize % 2 ^ ChunkThreshold = 0 /\ SegmentSize % IdSize = 0
    /\ IsFiniteSet(Ids) /\ LsegOf \in [Ids -> Nat]

Segments == 0 .. NSegments - 1
Lsegs == {0} \cup {LsegOf[i] : i \in Ids}
Variations == 0 .. ChunkThreshold - EinfoWidth
VOID == NSegments   \* JA_ELEMENT_SEG_VOID

-----------------------------------------------------------------------------
\* Sizes.

compute_chunk_msb(size) == Min({b \in 0 .. ChunkThreshold : size <= 2 ^ b})
variation(size) == compute_chunk_msb(size) - EinfoWidth
chunk_size(v) == 2 ^ (v + EinfoWidth)
aligned_element_size(size) == ((size + IdSize - 1) \div IdSize) * IdSize
data_size(size) == size + IdSize
aligned_data_size(size) == data_size(aligned_element_size(size))
huge_n_segments(size) == (size + SegmentSize - 1) \div SegmentSize

element_type(size) ==
    CASE size < 2 ^ EinfoWidth -> "tiny"
      [] size >= 2 ^ EinfoWidth /\ size <= 2 ^ ChunkThreshold -> "chunk"
      [] size > 2 ^ ChunkThreshold /\ data_size(size) <= SegmentSize -> "sequential"
      [] OTHER -> "huge"

\* Element infos: the bits that tell a tiny, a huge and another value apart, and
\* where it is.  An info of zeros is that of a record without a value.
Einfo(type, seg, pos, size) == [type |-> type, seg |-> seg, pos |-> pos, size |-> size]
Empty == Einfo("normal", 0, 0, 0)
Tiny(size) == Einfo("tiny", 0, 0, size)
Huge(seg, size) == Einfo("huge", seg, 0, size)
Normal(seg, pos, size) == Einfo("normal", seg, pos, size)

\* Segment infos.  A segment whose info is 0 is free.
Info(type, value) == [type |-> type, value |-> value]
Off == Info("off", 0)
ChunkInfo(v) == Info("chunk", v + EinfoWidth)   \* the width of the chunks

\* A garbage info segment: a queue of places (the ring from tail to head) and the
\* next segment.  One that is not in use is read by nobody.
NoGarbage == [recs |-> <<>>, next |-> 0]

free_segments(j) == {s \in Segments : j.info[s] = Off}
find_free_segment(j) == Min(free_segments(j))
NoRoom == [ja |-> {}]

\* A new column (_grn_ja_create): segment 0 has the first element infos, for ever.
Created ==
    [info |-> [s \in Segments |-> IF s = 0 THEN Info("einfo", 0) ELSE Off],
     element_segs |-> [l \in Lsegs |-> IF l = 0 THEN 0 ELSE VOID],
     einfo |-> [i \in Ids |-> Empty],
     curr_seg |-> 0, curr_pos |-> SegmentSize,
     free_elements |-> [v \in Variations |-> [seg |-> 0, pos |-> 0]],
     garbages |-> [v \in Variations |-> 0],
     n_garbages |-> [v \in Variations |-> 0],
     ginfo |-> [s \in Segments |-> NoGarbage]]

-----------------------------------------------------------------------------
\* Changes of the header and the segments.

chunk_segment_use(j, v, seg, pos) == [j EXCEPT !.free_elements[v] = [seg |-> seg, pos |-> pos]]
chunk_segment_new(j, v, seg) ==
    chunk_segment_use([j EXCEPT !.info[seg] = ChunkInfo(v)], v, seg, 0)

sequential_segment_new(j, seg) ==
    [j EXCEPT !.info[seg] = Info("sequential", 0), !.curr_seg = seg, !.curr_pos = 0]
sequential_segment_use(j, size) ==
    [j EXCEPT !.info[j.curr_seg].value = @ + aligned_data_size(size),
              !.curr_pos = @ + aligned_data_size(size)]

\* Mutant: the current position stays in a segment that has been freed.
sequential_segment_free_stays(j, seg, size) ==
    LET left == j.info[seg].value - aligned_data_size(size)
    IN  [j EXCEPT !.info[seg] = IF left = 0 THEN Off ELSE Info("sequential", left)]

sequential_segment_free(j, seg, size) ==
    LET left == j.info[seg].value - aligned_data_size(size)
    IN  IF left # 0 THEN [j EXCEPT !.info[seg].value = left]
        ELSE [j EXCEPT !.info[seg] = Off,
                       !.curr_pos = IF seg = j.curr_seg THEN SegmentSize ELSE @]

einfo_segment_new(j, lseg, seg) ==
    [j EXCEPT !.element_segs[lseg] = seg, !.info[seg] = Info("einfo", lseg),
              !.einfo = [i \in Ids |-> IF LsegOf[i] = lseg THEN Empty ELSE @[i]]]

\* The garbage info segments of a variation form a list; 0 ends it.
Garbage(j, v) ==
    LET nth[n \in 0 .. NSegments] ==
            IF n = 0 THEN j.garbages[v]
            ELSE IF nth[n - 1] = 0 THEN 0 ELSE j.ginfo[nth[n - 1]].next
        Listed == {n \in 0 .. NSegments - 1 : nth[n] # 0}
    IN  [n \in 1 .. Cardinality(Listed) |-> nth[n - 1]]

\* The link to the n-th segment of the list is in the header or in the one before.
link(j, v, list, n, seg) ==
    IF n = 1 THEN [j EXCEPT !.garbages[v] = seg]
    ELSE [j EXCEPT !.ginfo[list[n - 1]].next = seg]

ginfo_segment_new(j, v, list, seg) ==
    link([j EXCEPT !.info[seg] = Info("ginfo", v), !.ginfo[seg] = NoGarbage],
         v, list, Len(list) + 1, seg)
ginfo_segment_use(j, v, seg, place) ==
    [j EXCEPT !.ginfo[seg].recs = Append(@, place), !.n_garbages[v] = @ + 1]

\* Mutant: the rest of the list is dropped.
ginfo_segment_free_cuts(j, v, list, n) ==
    link([j EXCEPT !.info[list[n]] = Off, !.ginfo[list[n]] = NoGarbage], v, list, n, 0)

ginfo_segment_free(j, v, list, n) ==
    link([j EXCEPT !.info[list[n]] = Off, !.ginfo[list[n]] = NoGarbage],
         v, list, n, j.ginfo[list[n]].next)

\* Mutant: the record is counted as taken and stays in the queue.
chunk_segment_reuse_keeps(j, v, seg) == [j EXCEPT !.n_garbages[v] = @ - 1]

chunk_segment_reuse(j, v, seg) ==
    [j EXCEPT !.ginfo[seg].recs = Tail(@), !.n_garbages[v] = @ - 1]

-----------------------------------------------------------------------------
\* Giving space back (grn_ja_free).

free_chunk(j, v, place) ==
    LET list == Garbage(j, v)
        notFull == {n \in DOMAIN list : Len(j.ginfo[list[n]].recs) < GarbagesInSegment}
        new == find_free_segment(j)
    IN  IF notFull # {} THEN ginfo_segment_use(j, v, list[Min(notFull)], place)
        ELSE IF free_segments(j) = {} THEN NoRoom
        ELSE ginfo_segment_use(ginfo_segment_new(j, v, list, new), v, new, place)

free_huge(j, e) ==
    [j EXCEPT !.info = [s \in Segments |->
        IF s \in e.seg .. e.seg + huge_n_segments(e.size) - 1 THEN Off ELSE @[s]]]

free(j, e) ==
    CASE e.type = "tiny" \/ e.size = 0 -> j
      [] e.type = "huge" /\ e.size # 0 -> free_huge(j, e)
      [] e.type = "normal" /\ element_type(e.size) = "chunk" ->
            free_chunk(j, variation(e.size), [seg |-> e.seg, pos |-> e.pos])
      [] e.type = "normal" /\ element_type(e.size) = "sequential" ->
            sequential_segment_free(j, e.seg, e.size)

-----------------------------------------------------------------------------
\* Handing space out (grn_ja_alloc): the column afterwards and the info of the new
\* element, or NoRoom.

Result(j, e) == [ja |-> j, einfo |-> e]

alloc_chunk_garbage(j, v, size, list, n) ==
    LET place == Head(j.ginfo[list[n]].recs)
        k == chunk_segment_reuse(j, v, list[n])
    IN  Result(IF k.ginfo[list[n]].recs = <<>> THEN ginfo_segment_free(k, v, list, n) ELSE k,
               Normal(place.seg, place.pos, size))

alloc_chunk_free(j, v, size) ==
    LET vp == j.free_elements[v]
        next == vp.pos + chunk_size(v)
    IN  Result(IF next = SegmentSize THEN chunk_segment_use(j, v, 0, 0)
               ELSE chunk_segment_use(j, v, vp.seg, next),
               Normal(vp.seg, vp.pos, size))

\* Mutant: garbage is used again only when there is a second segment of it.
alloc_chunk_late(j, size) ==
    LET v == variation(size)
        list == Garbage(j, v)
    IN  IF Len(list) > 1 THEN alloc_chunk_garbage(j, v, size, list, 1)
        ELSE IF j.free_elements[v].seg # 0 THEN alloc_chunk_free(j, v, size)
        ELSE IF free_segments(j) = {} THEN NoRoom
        ELSE alloc_chunk_free(chunk_segment_new(j, v, find_free_segment(j)), v, size)

alloc_chunk(j, size) ==
    LET v == variation(size)
        list == Garbage(j, v)
        usable == {n \in DOMAIN list : \/ j.ginfo[list[n]].next # 0
                                       \/ Len(j.ginfo[list[n]].recs) > GarbageThreshold}
    IN  IF j.n_garbages[v] > GarbageThreshold /\ usable # {}
          THEN alloc_chunk_garbage(j, v, size, list, Min(usable))
        ELSE IF j.free_elements[v].seg # 0 THEN alloc_chunk_free(j, v, size)
        ELSE IF free_segments(j) = {} THEN NoRoom
        ELSE alloc_chunk_free(chunk_segment_new(j, v, find_free_segment(j)), v, size)

alloc_sequential_current(j, size) ==
    Result(sequential_segment_use(j, size), Normal(j.curr_seg, j.curr_pos + IdSize, size))

alloc_sequential(j, size) ==
    IF j.curr_pos + data_size(size) <= SegmentSize THEN alloc_sequential_current(j, size)
    ELSE IF free_segments(j) = {} THEN NoRoom
    ELSE alloc_sequential_current(sequential_segment_new(j, find_free_segment(j)), size)

\* The first run of free segments behind one in use, or behind segment 0.
alloc_huge(j, size) ==
    LET n == huge_n_segments(size)
        last(i) == Max({0} \cup {s \in 0 .. i - 1 : j.info[s] # Off})
        ends == {i \in free_segments(j) : i = last(i) + n}
        seg == last(Min(ends)) + 1
    IN  IF ends = {} THEN NoRoom
        ELSE Result([j EXCEPT !.info = [s \in Segments |->
                        IF s \in seg .. Min(ends) THEN Info("huge", 0) ELSE @[s]]],
                    Huge(seg, size))

alloc(j, size) ==
    CASE size = 0 -> Result(j, Empty)
      [] size # 0 /\ element_type(size) = "tiny" -> Result(j, Tiny(size))
      [] element_type(size) = "chunk" -> alloc_chunk(j, size)
      [] element_type(size) = "sequential" -> alloc_sequential(j, size)
      [] element_type(size) = "huge" -> alloc_huge(j, size)
=============================================================================
