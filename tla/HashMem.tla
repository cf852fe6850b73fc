------------------------------ MODULE HashMem -------------------------------
(***************************************************************************)
(* The mapped memory of a persistent hash table (lib/hash.c) and the       *)
(* stores its operations make.                                             *)
(*                                                                         *)
(* An io hash lives in a shared mapping of its file.  Everything that      *)
(* survives the death of the process is one record here:                   *)
(*   index       the open-addressing slots: two spaces of MaxIndexSize     *)
(*               slots, of which idx_offset selects the one in use         *)
(*   max_offset  the mask of the space in use (its size minus 1)           *)
(*   word        the first word of each entry: the hash value of its key,  *)
(*               or the next garbage entry once the entry is deleted       *)
(*   key_size, key_offset, keys   var-size keys: an entry keeps its place  *)
(*               in the key area for ever, also across delete and reuse    *)
(*   value, bits, garbage, n_entries, n_garbages, curr_rec, curr_key       *)
(*                                                                         *)
(* An operation is the sequence of stores (and WAL appends) it executes,   *)
(* in program order: the process may die between any two of them.          *)
(***************************************************************************)
EXTENDS Integers, Sequences, FiniteSets, FiniteSetsExt

CONSTANTS
    Keys,             \* the keys of the model (naturals)
    HashOf,           \* HashOf[k]: hash value (of a uint32 key: the key itself)
    Values,           \* the values of an entry; 0 is what memset leaves
    MaxId,            \* bound: the records the model creates
    MaxIndexSize,     \* grn_hash_max_index_size
    InitialIndexSize, \* INITIAL_INDEX_SIZE, where rehash starts doubling
    InitialMaxOffset, \* grn_hash_initial_max_offset - 1
    VarSize,          \* GRN_OBJ_KEY_VAR_SIZE, with keys too long to be immediate
    IsReference,      \* the key domain is a table
    SourceSize,       \* the size of that table
    NeedWal           \* grn_hash_wal_need: the process has a WAL role

\* The sizes an index may have: the powers of two up to MAX_INDEX_SIZE, 2^29.
IndexSizes ==
    {1, 2, 4, 8, 16, 32, 64, 128, 256, 512, 1024, 2048, 4096, 8192, 16384, 32768, 65536,
     131072, 262144, 524288, 1048576, 2097152, 4194304, 8388608, 16777216, 33554432,
     67108864, 134217728, 268435456, 536870912}

\* A fixed-size key of the model is a uint32, which is its own hash value.
ASSUME HashAssumption ==
    /\ Keys \subseteq Nat /\ HashOf \in [Keys -> Nat]
    /\ VarSize \/ \A j, k \in Keys : HashOf[j] = HashOf[k] => j = k
ASSUME ValuesAssumption == 0 \in Values /\ Values \subseteq Nat
ASSUME FlagsAssumption ==
    /\ VarSize \in BOOLEAN /\ IsReference \in BOOLEAN /\ NeedWal \in BOOLEAN
    /\ MaxId \in Nat /\ SourceSize \in Nat
ASSUME SizeAssumption ==
    /\ {MaxIndexSize, InitialIndexSize, InitialMaxOffset + 1} \subseteq IndexSizes \ {1}
    /\ InitialIndexSize <= MaxIndexSize
    /\ InitialMaxOffset < MaxIndexSize /\ InitialMaxOffset \in Nat

NIL == 0
GARBAGE == -1
Ids == 1 .. MaxId
Slots == 0 .. 2 * MaxIndexSize - 1

EmptyMem ==
    [index |-> [s \in Slots |-> NIL], idx_offset |-> 0,
     max_offset |-> InitialMaxOffset, n_entries |-> 0, n_garbages |-> 0,
     garbage |-> NIL, curr_rec |-> 0, curr_key |-> 0, bits |-> {},
     word |-> [i \in Ids |-> 0], value |-> [i \in Ids |-> 0],
     key_size |-> [i \in Ids |-> 0], key_offset |-> [i \in Ids |-> 0],
     keys |-> [p \in 0 .. MaxId - 1 |-> 0]]

\* One store, to a header field or to an element of an array, and one append
\* to the log (Execute does a store).
Set(field, v) == <<[to |-> field, v |-> v]>>
Put(array, i, v) == <<[to |-> array, at |-> i, v |-> v]>>
Log(entry) == IF NeedWal THEN <<[log |-> entry]>> ELSE <<>>

-----------------------------------------------------------------------------
\* x | bit, for a power of two.
WithBit(x, bit) == IF (x \div bit) % 2 = 1 THEN x ELSE x + bit

\* (hash_value >> 2) | 0x1010101.  Every step is odd, so a probe visits every
\* slot.  The sums of a probe wrap at 2^32 in the code, which every index size
\* divides: the slots are the same.
calculate_step(h) ==
    WithBit(WithBit(WithBit(WithBit(h \div 4, 16777216), 65536), 256), 1)

\* The i of the n-th try, which is also what the log calls index_hash_value,
\* and the slot grn_hash_idx_at makes of it.
ProbeHash(h, n) == h + n * calculate_step(h)
idx_at(m, i) == (i % (m.max_offset + 1)) + m.idx_offset
Probed(m, h, n) == m.index[idx_at(m, ProbeHash(h, n))]
Tries(m) == 0 .. m.max_offset

\* grn_hash_entry_compare_key.
compare_key(m, id, k) ==
    /\ m.word[id] = HashOf[k]
    /\ VarSize => m.key_size[id] = 1 /\ m.keys[m.key_offset[id]] = k

Matches(m, k, n) ==
    Probed(m, HashOf[k], n) \notin {NIL, GARBAGE} /\ compare_key(m, Probed(m, HashOf[k], n), k)

\* The tries at which a search for k ends; without one it never ends.
Ends(m, k) == {n \in Tries(m) : Probed(m, HashOf[k], n) = NIL \/ Matches(m, k, n)}

\* grn_hash_get_internal of a search that ends.
get(m, k) ==
    IF Ends(m, k) = {} THEN NIL
    ELSE LET n == Min(Ends(m, k))
         IN  IF Matches(m, k, n) THEN Probed(m, HashOf[k], n) ELSE NIL

Absent == -1

\* What a search of every key finds.
Content(m) == [k \in Keys |-> IF get(m, k) = NIL THEN Absent ELSE m.value[get(m, k)]]

\* The body of the copying loop of a rehash: the record of one slot goes to
\* the first empty slot of its probe in the new space.
CopySlot(m, s) ==
    LET id == m.index[s.copy]
        at(n) == s.dest + (ProbeHash(m.word[id], n) % s.size)
        count == Cardinality({p \in s.dest .. s.dest + s.size - 1 : m.index[p] # NIL})
    IN  IF id \in {NIL, GARBAGE} \/ count >= s.n_entries THEN m
        ELSE [m EXCEPT !.index =
                 [@ EXCEPT ![at(Min({n \in 0 .. s.size - 1 : m.index[at(n)] = NIL}))] = id]]

Execute(m, s) ==
    IF "copy" \in DOMAIN s THEN CopySlot(m, s)
    ELSE IF "at" \in DOMAIN s
    THEN [m EXCEPT ![s.to] = [@ EXCEPT ![s.at] = s.v]]
    ELSE [m EXCEPT ![s.to] = s.v]

-----------------------------------------------------------------------------
(* Rehash: copy the live slots, in slot order and at most n_entries of     *)
(* them, to the other space and switch to it.                              *)

rehash_threshold(m) == (m.n_entries + m.n_garbages) * (IF IsReference THEN 1 ELSE 2)

\* Mutant of needs_rehash: the space in use never grows.
needs_rehash_never(m) == FALSE

needs_rehash(m) ==
    /\ rehash_threshold(m) > m.max_offset
    /\ m.max_offset # MaxIndexSize - 1

expected_n_entries(m) ==
    LET doubled == Min({m.n_entries * 2, MaxIndexSize - 1})
    IN  IF IsReference THEN Max({doubled, SourceSize + 1}) ELSE doubled

new_index_size(expected) ==
    Min({size \in IndexSizes : size >= InitialIndexSize /\ size > expected})

\* The space that is not in use, all of it cleared.
Cleared(m, dest) ==
    [s \in Slots |-> IF s \in dest .. dest + MaxIndexSize - 1 THEN NIL ELSE m.index[s]]

\* Slot by slot; count, how many records have been copied, is the number of
\* slots that are filled.
CopyLoop(m, dest, size) ==
    [n \in 1 .. m.max_offset + 1 |->
        [copy |-> m.idx_offset + n - 1, dest |-> dest, size |-> size,
         n_entries |-> m.n_entries]]

\* Mutant of rehash: the space is switched to before it is filled.
rehash_switches_first(m) ==
    LET size == new_index_size(expected_n_entries(m))
        dest == MaxIndexSize - m.idx_offset
    IN  Set("idx_offset", dest)
          \o Set("index", Cleared(m, dest))
          \o CopyLoop(m, dest, size)
          \o Set("max_offset", size - 1)
          \o Set("n_garbages", 0)

rehash(m) ==
    LET size == new_index_size(expected_n_entries(m))
        dest == MaxIndexSize - m.idx_offset
    IN  Set("index", Cleared(m, dest))
          \o CopyLoop(m, dest, size)
          \o Set("max_offset", size - 1)
          \o Set("n_garbages", 0)
          \o Set("idx_offset", dest)

-----------------------------------------------------------------------------
(* The stores shared by the operations and by the replay of their log      *)
(* entries: grn_io_hash_reuse_entry, grn_io_hash_reset_entry,              *)
(* grn_io_hash_add_entry, grn_io_hash_enable_entry, grn_hash_entry_put_key *)
(* and grn_hash_delete_entry.                                              *)

reuse_entry(m, id, slot, found_garbage) ==
    Put("index", slot, id)
      \o (IF found_garbage THEN Set("n_garbages", m.n_garbages - 1) ELSE <<>>)
      \o Set("n_entries", m.n_entries + 1)

\* Mutant of reset_entry: the entry stays at the head of the garbage list.
reset_entry_keeps_head(id, next_garbage_id) ==
    (IF VarSize THEN <<>> ELSE Put("word", id, 0)) \o Put("value", id, 0)

reset_entry(id, next_garbage_id) ==
    Set("garbage", next_garbage_id)
      \o (IF VarSize THEN <<>> ELSE Put("word", id, 0))
      \o Put("value", id, 0)

add_entry(m, id, slot) ==
    Set("curr_rec", id) \o Put("index", slot, id) \o Set("n_entries", m.n_entries + 1)

enable_entry(m, id) == Set("bits", m.bits \cup {id})

\* Mutant of put_key: the key area is not advanced.
put_key_stays(m, id, k) ==
    (IF m.key_size[id] > 0 THEN <<>> ELSE Put("key_offset", id, m.curr_key))
      \o Put("keys", IF m.key_size[id] > 0 THEN m.key_offset[id] ELSE m.curr_key, k)
      \o Put("word", id, HashOf[k])
      \o Put("key_size", id, 1)

put_key(m, id, k) ==
    LET place == IF m.key_size[id] > 0 THEN m.key_offset[id] ELSE m.curr_key
    IN  IF ~VarSize THEN Put("word", id, HashOf[k])
        ELSE (IF m.key_size[id] > 0 THEN <<>>
              ELSE Set("curr_key", m.curr_key + 1) \o Put("key_offset", id, place))
             \o Put("keys", place, k)
             \o Put("word", id, HashOf[k])
             \o Put("key_size", id, 1)

delete_entry(m, id, slot) ==
    Put("index", slot, GARBAGE)
      \o Put("word", id, m.garbage)
      \o Set("garbage", id)
      \o Set("bits", m.bits \ {id})
      \o Set("n_garbages", m.n_garbages + 1)
      \o Set("n_entries", m.n_entries - 1)

-----------------------------------------------------------------------------
(* The programs of the operations.                                         *)

\* grn_hash_ensure_rehash; the rehash fails when the index cannot be larger.
ensure_rehash(m) ==
    Log([event |-> "REHASH", n_entries |-> m.n_entries, max_offset |-> m.max_offset])
      \o (IF expected_n_entries(m) >= MaxIndexSize THEN <<>> ELSE rehash(m))

\* The try whose slot grn_hash_add_entry takes: the first garbage slot before
\* the end of the search, the empty slot at its end, or, when the search runs
\* out of tries, the last slot it looked at.
GarbageTries(m, k) ==
    {n \in Tries(m) : /\ Probed(m, HashOf[k], n) = GARBAGE
                      /\ \A e \in Ends(m, k) : n < e}

TargetTry(m, k) ==
    IF GarbageTries(m, k) # {} THEN Min(GarbageTries(m, k))
    ELSE IF Ends(m, k) # {} THEN Min(Ends(m, k)) ELSE MaxIndexSize - 1

TableIsFull(m, k) == GarbageTries(m, k) = {} /\ m.n_entries = MaxIndexSize

\* grn_io_hash_add.
io_hash_add(m, k) ==
    LET ihv == ProbeHash(HashOf[k], TargetTry(m, k))
        found == GarbageTries(m, k) # {}
        reusing == m.garbage # NIL
        id == IF reusing THEN m.garbage ELSE m.curr_rec + 1
    IN  (IF reusing
         THEN Log([event |-> "REUSE_ENTRY", record_id |-> id, index_hash_value |-> ihv,
                   n_garbages |-> m.n_garbages, n_entries |-> m.n_entries,
                   found_garbage |-> found])
                \o reuse_entry(m, id, idx_at(m, ihv), found)
                \o Log([event |-> "RESET_ENTRY", record_id |-> id,
                        next_garbage_record_id |-> m.word[id]])
                \o reset_entry(id, m.word[id])
         ELSE Log([event |-> "ADD_ENTRY", record_id |-> id, index_hash_value |-> ihv,
                   n_entries |-> m.n_entries])
                \o add_entry(m, id, idx_at(m, ihv)))
        \o Log([event |-> "ENABLE_ENTRY", record_id |-> id])
        \o Log([event |-> "SET_ENTRY_KEY", record_id |-> id, key_offset |-> m.curr_key,
                key |-> k])
        \o enable_entry(m, id)
        \o put_key(m, id, k)

\* grn_hash_delete_internal.
delete_internal(m, id, ihv) ==
    Log([event |-> "DELETE_ENTRY", record_id |-> id, index_hash_value |-> ihv,
         garbage_record_id |-> m.garbage, n_garbages |-> m.n_garbages,
         n_entries |-> m.n_entries])
      \o delete_entry(m, id, idx_at(m, ihv))

\* grn_hash_delete of a key the table has.
delete(m, k) ==
    LET n == Min(Ends(m, k))
    IN  delete_internal(m, Probed(m, HashOf[k], n), ProbeHash(HashOf[k], n))

set_value(id, v) ==
    Log([event |-> "SET_VALUE", record_id |-> id, value |-> v]) \o Put("value", id, v)

\* grn_hash_delete_by_id searches with the hash value the entry has now.
IdTries(m, id) == {n \in Tries(m) : Probed(m, m.word[id], n) \in {NIL, id}}
FoundById(m, id) ==
    IdTries(m, id) # {} /\ Probed(m, m.word[id], Min(IdTries(m, id))) = id
delete_by_id(m, id) == delete_internal(m, id, ProbeHash(m.word[id], Min(IdTries(m, id))))

-----------------------------------------------------------------------------
(* grn_hash_wal_recover: what the replay of one log entry stores.          *)

\* Mutant of replay_counters: a replayed entry counts on top of the counters
\* it finds.
replay_counters_relative(m, e) == m

\* The counters are set back to their logged values first.
replay_counters(m, e) ==
    [f \in DOMAIN m |-> IF f \in {"n_entries", "n_garbages", "max_offset"} \cap DOMAIN e
                        THEN e[f] ELSE m[f]]

replay(found, e) ==
    LET m == replay_counters(found, e)
        restored(f) == IF f \in DOMAIN e THEN Set(f, m[f]) ELSE <<>>
        counters == restored("n_garbages") \o restored("n_entries") \o restored("max_offset")
    IN  CASE e.event = "ADD_ENTRY" ->
               counters \o add_entry(m, e.record_id, idx_at(m, e.index_hash_value))
          [] e.event = "REUSE_ENTRY" ->
               counters \o reuse_entry(m, e.record_id, idx_at(m, e.index_hash_value),
                                       e.found_garbage)
          [] e.event = "RESET_ENTRY" -> reset_entry(e.record_id, e.next_garbage_record_id)
          [] e.event = "ENABLE_ENTRY" -> enable_entry(m, e.record_id)
          [] e.event = "SET_ENTRY_KEY" ->
               Set("curr_key", e.key_offset)
                 \o put_key([m EXCEPT !.curr_key = e.key_offset], e.record_id, e.key)
          [] e.event = "DELETE_ENTRY" ->
               Set("garbage", e.garbage_record_id) \o counters
                 \o delete_entry([m EXCEPT !.garbage = e.garbage_record_id], e.record_id,
                                 idx_at(m, e.index_hash_value))
          [] e.event = "REHASH" ->
               counters \o (IF expected_n_entries(m) >= MaxIndexSize THEN <<>> ELSE rehash(m))
          [] e.event = "SET_VALUE" -> Put("value", e.record_id, e.value)
=============================================================================
