--------------------------------- MODULE Ja ---------------------------------
(* Writers that replace the values of a variable size column at the same     *)
(* time (grn_ja_put, grn_ja_replace and grn_ja_defrag of lib/store.c).  Space *)
(* is allocated under the column's lock, filled without it, and put into the  *)
(* record under the lock again, which gives the old space back.               *)
EXTENDS JaMem

CONSTANTS
    Writers,      \* threads or processes that change the column
    Workloads,    \* sets of sizes of the values that are set (0 empties the record)
    AppendSizes,  \* sizes of the values that are appended
    MaxAppended,  \* bound, for each workload: no value grows beyond this by appending
    MaxPuts       \* bound, for each workload, on the operations that are started

ASSUME WritersAssumption ==
    /\ IsFiniteSet(Writers)
    /\ Workloads \subseteq SUBSET Nat /\ AppendSizes \subseteq Nat \ {0}
    /\ {MaxAppended, MaxPuts} \subseteq [Workloads -> Nat]

VARIABLES
    ja,      \* the header and the segments of the column
    writer,  \* what each writer is doing
    astray,  \* the code has lost track of some space: see Ready
    sizes,   \* the workload
    puts     \* operations started so far
vars == <<ja, writer, astray, sizes, puts>>

NoCas == [type |-> "none"]
Idle == [pc |-> "idle"]
HasSpace(e) == e.type # "tiny" /\ e.size # 0

\* A record whose element info segment does not exist is without a value.
element_info(j, id) == IF j.element_segs[LsegOf[id]] = VOID THEN Empty ELSE j.einfo[id]

Init ==
    /\ ja = Created
    /\ writer = [w \in Writers |-> Idle]
    /\ astray = FALSE
    /\ sizes \in Workloads
    /\ puts = 0

\* ctx->rc.  Functions return it instead of their own result, and the canceller of
\* another thread stores GRN_CANCEL in it at any time.  The lock of the column is
\* obtained all the same unless it is contended.
Rc == {"success", "cancel"}

\* The writer has space for the value and fills it; cas is the element info the
\* record must still have when the value is put into it.
Allocated(w, id, size, cas) ==
    LET r == alloc(ja, size)
    IN  /\ r # NoRoom
        /\ ja' = r.ja
        /\ writer' = [writer EXCEPT ![w] =
                        [pc |-> "allocated", id |-> id, einfo |-> r.einfo, cas |-> cas]]
        /\ UNCHANGED astray

\* Space may also be refused: no segment is left, or the lock is not obtained in
\* time.  A tiny value needs neither.
Refused(size) == size # 0 /\ element_type(size) # "tiny"

\* grn_ja_put_raw does not look at the return value of set_value: when space is
\* refused it goes on with an element info that was never written.
Unset(size) ==
    /\ Refused(size)
    /\ astray' = TRUE
    /\ UNCHANGED <<ja, writer>>

\* Two allocations end with ctx->rc: of a chunk from the garbage and of huge segments.
\* An append that reads an error there gives up the space it has been given.
Lost(w, size) ==
    LET r == alloc(ja, size)
    IN  /\ r # NoRoom
        /\ r.einfo.type = "huge" \/ r.ja.n_garbages # ja.n_garbages
        /\ ja' = r.ja
        /\ writer' = [writer EXCEPT ![w] = Idle]
        /\ astray' = TRUE

\* GRN_OBJ_SET of a value that is not the one the record has.  (With the same value
\* nothing happens.)
Set(w, id, size) ==
    /\ writer[w] = Idle
    /\ Allocated(w, id, size, NoCas) \/ Unset(size)

\* GRN_OBJ_APPEND and GRN_OBJ_PREPEND read the old value without the lock.
AppendRead(w, id, size) ==
    LET old == element_info(ja, id).size
    IN  /\ writer[w] = Idle
        /\ old + size <= MaxAppended[sizes]
        /\ writer' = [writer EXCEPT ![w] =
                        [pc |-> "append", id |-> id, size |-> old + size, had |-> old # 0]]
        /\ UNCHANGED <<ja, astray>>

AppendAlloc(w) ==
    /\ writer[w].pc = "append"
    /\ \/ Allocated(w, writer[w].id, writer[w].size, NoCas)
       \/ ~writer[w].had /\ Unset(writer[w].size)
       \/ writer[w].had /\ Lost(w, writer[w].size)
       \/ /\ writer[w].had /\ Refused(writer[w].size)
          /\ writer' = [writer EXCEPT ![w] = Idle]
          /\ UNCHANGED <<ja, astray>>

\* grn_ja_defrag comes to a value of a sequential segment that is not the current
\* one (the threshold is the caller's).
DefragRead(w, id) ==
    LET e == element_info(ja, id)
    IN  /\ writer[w] = Idle
        /\ e.type = "normal" /\ e.size # 0 /\ element_type(e.size) = "sequential"
        /\ e.seg # ja.curr_seg
        /\ writer' = [writer EXCEPT ![w] = [pc |-> "defrag", id |-> id, einfo |-> e]]
        /\ UNCHANGED <<ja, astray>>

\* It sets the record to the value it has: nothing happens, unless the value
\* was replaced in between.
DefragPut(w) ==
    LET me == writer[w]
    IN  /\ me.pc = "defrag"
        /\ \/ /\ writer' = [writer EXCEPT ![w] = Idle]
              /\ UNCHANGED <<ja, astray>>
           \/ /\ element_info(ja, me.id) # me.einfo
              /\ Allocated(w, me.id, me.einfo.size, me.einfo) \/ Unset(me.einfo.size)

\* grn_ja_replace.  It fails when the lock is not obtained in time, when there is
\* no segment for the element infos, or when the record is no longer as expected.
\* It also returns an error when it has put the value into the record: that the old
\* space cannot be given back, and that the request was cancelled.
ensure_einfo(j, lseg) ==
    IF j.element_segs[lseg] # VOID THEN j
    ELSE einfo_segment_new(j, lseg, find_free_segment(j))

Failed(w) == writer' = [writer EXCEPT ![w].pc = "failed"]

Replace(w) ==
    LET me == writer[w]
        lseg == LsegOf[me.id]
        full == ja.element_segs[lseg] = VOID /\ free_segments(ja) = {}
        j == ensure_einfo(ja, lseg)
        old == j.einfo[me.id]
        put == [j EXCEPT !.einfo[me.id] = me.einfo]
        left == free(put, old)
    IN  /\ me.pc = "allocated"
        /\ \/ Failed(w) /\ UNCHANGED <<ja, astray>>
           \/ ~full /\ me.cas \notin {NoCas, old} /\ ja' = j /\ Failed(w) /\ UNCHANGED astray
           \/ /\ ~full /\ me.cas \in {NoCas, old}
              /\ ja' = IF left = NoRoom THEN put ELSE left
              /\ \E rc \in Rc :
                    IF rc = "success" /\ left # NoRoom
                    THEN writer' = [writer EXCEPT ![w] = Idle] /\ UNCHANGED astray
                    ELSE Failed(w) /\ astray' = (left = NoRoom \/ HasSpace(me.einfo))

\* Mutant: the new value's space is not given back (as in grn_ja_putv_raw).
UndoForgets(w) ==
    /\ writer[w].pc = "failed"
    /\ writer' = [writer EXCEPT ![w] = Idle]
    /\ UNCHANGED <<ja, astray>>

\* After an error of grn_ja_replace the new value's space is given back, even when it
\* is in the record; without the lock it is not.
Undo(w) ==
    LET e == writer[w].einfo
        left == free(ja, e)
    IN  /\ writer[w].pc = "failed"
        /\ writer' = [writer EXCEPT ![w] = Idle]
        /\ \/ /\ ja' = IF left = NoRoom THEN ja ELSE left
              /\ astray' = (astray \/ left = NoRoom)
           \/ /\ UNCHANGED ja
              /\ astray' = (astray \/ HasSpace(e))

\* A column that has gone astray is followed to the end of the operation.
Next ==
    /\ UNCHANGED sizes
    /\ \E w \in Writers :
        \/ /\ ~astray /\ puts < MaxPuts[sizes] /\ puts' = puts + 1
           /\ \E id \in Ids : \/ \E size \in sizes : Set(w, id, size)
                              \/ \E size \in AppendSizes : AppendRead(w, id, size)
                              \/ DefragRead(w, id)
        \/ ~astray /\ (AppendAlloc(w) \/ DefragPut(w) \/ Replace(w)) /\ UNCHANGED puts
        \/ Undo(w) /\ UNCHANGED puts

Spec == Init /\ [][Next]_vars
-----------------------------------------------------------------------------
\* Who uses which bytes of the column.

Bytes == 0 .. SegmentSize - 1
Working(w) == writer[w].pc \in {"allocated", "failed"}
ChunkBytes(v, place) == {place.seg} \X (place.pos .. place.pos + chunk_size(v) - 1)

Space(e) ==
    CASE e.type = "huge" -> (e.seg .. e.seg + huge_n_segments(e.size) - 1) \X Bytes
      [] e.type # "huge" /\ element_type(e.size) = "chunk" -> ChunkBytes(variation(e.size), e)
      [] e.type # "huge" /\ element_type(e.size) = "sequential" ->
            {e.seg} \X (e.pos - IdSize .. e.pos + aligned_element_size(e.size) - 1)

\* The values in the records, and those that writers have made and not yet put there.
Owners == ({"record"} \X Ids) \cup ({"writer"} \X Writers)
Held(o) ==
    IF o[1] = "record" THEN element_info(ja, o[2])
    ELSE IF Working(o[2]) THEN writer[o[2]].einfo
    ELSE Empty
Elements == {o \in Owners : HasSpace(Held(o))}

GinfosOf(j, v) == {s \in Segments : j.info[s] = Info("ginfo", v)}
Records(j, v) == UNION {{s} \X DOMAIN j.ginfo[s].recs : s \in GinfosOf(j, v)}
RecordAt(j, r) == j.ginfo[r[1]].recs[r[2]]
FreeRest(j, v) ==
    IF j.free_elements[v].seg = 0 THEN {}
    ELSE {j.free_elements[v].seg} \X (j.free_elements[v].pos .. SegmentSize - 1)
CurrentRest(j) == {j.curr_seg} \X (j.curr_pos .. SegmentSize - 1)
Whole(s) == {s} \X Bytes

Uses ==
    {<<"element", o, Space(Held(o))>> : o \in Elements}
    \cup (UNION {{<<"garbage", r, ChunkBytes(v, RecordAt(ja, r))>> : r \in Records(ja, v)} :
                    v \in Variations})
    \cup {<<"free", v, FreeRest(ja, v)>> : v \in Variations}
    \cup {<<"current", 0, CurrentRest(ja)>>}
    \cup {<<"info", s, Whole(s)>> : s \in {s \in Segments : ja.info[s].type \in {"einfo", "ginfo"}}}

\* The code loses track of space when it goes on with space that was refused (Unset),
\* when an append is cancelled after its allocation (Lost), when a value is freed that
\* is in the record (Replace, then Undo), and when space cannot be given back
\* (Replace, Undo).  The properties are about a column until then.
Ready == ~astray

\* No byte of the column has two uses: no two values, no value and a garbage
\* chunk, no value and the space that is handed out next, however the critical
\* sections of the writers follow each other.
SpacesAreDisjoint ==
    Ready => \A t, u \in Uses : t # u => t[3] \cap u[3] = {}

\* Every value is in segments of its kind (what grn_ja_check demands of the
\* element infos), and the space that is handed out next is so too.
SegmentsFit ==
    Ready =>
        /\ \A o \in Elements :
            \A b \in Space(Held(o)) :
                IF Held(o).type = "huge" THEN ja.info[b[1]].type = "huge"
                ELSE IF element_type(Held(o).size) = "sequential"
                     THEN ja.info[b[1]].type = "sequential"
                ELSE ja.info[b[1]] = ChunkInfo(variation(Held(o).size))
        /\ \A v \in Variations : \A b \in FreeRest(ja, v) : ja.info[b[1]] = ChunkInfo(v)
        /\ \A b \in CurrentRest(ja) : ja.info[b[1]].type = "sequential"

\* Nothing leaks.  A sequential segment counts exactly the bytes of the values in it,
\* so that it is freed with the last one; huge segments and chunks are used, garbage
\* or next to be handed out.
NothingLeaks ==
    Ready =>
        \A s \in Segments :
            CASE ja.info[s].type = "sequential" ->
                    ja.info[s].value =
                        Cardinality({p \in Bytes : \E o \in Elements : <<s, p>> \in Space(Held(o))})
              [] ja.info[s].type \in {"huge", "chunk"} ->
                    Whole(s) \subseteq UNION {u[3] : u \in Uses}
              [] ja.info[s].type = "einfo" -> ja.element_segs[ja.info[s].value] = s
              [] OTHER -> TRUE

\* The list of garbage infos of a variation has every garbage info segment of it
\* once, none that is empty or too full, and n_garbages counts what is in them.
GarbageIsExact ==
    Ready =>
        \A v \in Variations :
            LET list == Garbage(ja, v)
                listed == {list[n] : n \in DOMAIN list}
            IN  /\ listed = GinfosOf(ja, v) /\ Cardinality(listed) = Len(list)
                /\ \A s \in listed : Len(ja.ginfo[s].recs) \in 1 .. GarbagesInSegment
                /\ ja.n_garbages[v] = Cardinality(Records(ja, v))

\* Chunks are used again: however often the records are changed, the chunks
\* of a size that were ever taken are no more than records, writers and
\* JA_N_GARBAGES_TH together.
ChunksAreReused ==
    Ready =>
        \A v \in Variations :
            Cardinality({o \in Elements : ja.info[Held(o).seg] = ChunkInfo(v)})
                + Cardinality(Records(ja, v))
                    <= Cardinality(Ids) + Cardinality(Writers) + GarbageThreshold
=============================================================================
