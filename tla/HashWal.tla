------------------------------ MODULE HashWal -------------------------------
(***************************************************************************)
(* A persistent hash table under write-ahead logging (lib/hash.c,          *)
(* lib/wal.c, grn_obj_flush of lib/db.c): one writer adds, deletes and     *)
(* sets values, one store or log append at a time; the process dies        *)
(* between any two of them; the next process replays the log               *)
(* (grn_hash_wal_recover), removes a partially added record, flushes the   *)
(* table and clears the log.                                               *)
(*                                                                         *)
(* After the death of the process ("application") the mapping keeps every  *)
(* store.  The recovery tests of the repository (test/command/suite/       *)
(* wal_recover) instead put back the file as it was at the last flush      *)
(* ("flushed") and replay the log over that.                               *)
(***************************************************************************)
EXTENDS HashMem

CONSTANTS
    CrashModes,   \* which of the two memories a crash may leave
    CrashInFlush, \* whether a crash may hit between the flush and the clearing
    MaxOps,       \* bound: operations
    MaxCrashes    \* bound: crashes

ASSUME CrashAssumption ==
    /\ CrashModes \subseteq {"application", "flushed"}
    /\ CrashInFlush \in BOOLEAN
    /\ MaxOps \in Nat /\ MaxCrashes \in Nat

VARIABLES
    mem,       \* the mapped memory
    disk,      \* the memory as of the last flush
    wal,       \* the log
    status,    \* "ready", "rehashing", "running", "flushing", "dead", "replaying",
               \* "removing" or "broken"
    todo,      \* the stores and appends left of the current step
    key,       \* the key grn_hash_add goes on with after grn_hash_ensure_rehash
    reader,    \* how many log entries the recovery has read
    partial,   \* partial_record_id of the recovery
    acked,     \* ghost: the content the finished operations have made
    pending,   \* ghost: the content once the operation in progress is finished
    cut,       \* ghost: a reuse was cut between REUSE_ENTRY and RESET_ENTRY: see Crash
    ops,       \* operations so far
    crashes    \* crashes so far

vars == <<mem, disk, wal, status, todo, key, reader, partial, acked, pending, cut, ops, crashes>>
process == <<todo, key, reader, partial>>
ghosts == <<acked, pending, cut>>

Init ==
    /\ mem = EmptyMem
    /\ disk = EmptyMem
    /\ wal = <<>>
    /\ status = "ready"
    /\ todo = <<>>
    /\ key = NIL
    /\ reader = 0
    /\ partial = NIL
    /\ acked = [k \in Keys |-> Absent]
    /\ pending = acked
    /\ cut = FALSE
    /\ ops = 0
    /\ crashes = 0

\* An operation starts on the content it finds.
Begin(k, v) ==
    /\ status = "ready"
    /\ ops < MaxOps
    /\ ops' = ops + 1
    /\ acked' = Content(mem)
    /\ pending' = [Content(mem) EXCEPT ![k] = v]

\* grn_hash_add up to the end of grn_hash_ensure_rehash.
Add(k) ==
    /\ mem.garbage # NIL \/ mem.curr_rec < MaxId
    /\ Begin(k, IF get(mem, k) = NIL THEN 0 ELSE mem.value[get(mem, k)])
    /\ status' = "rehashing"
    /\ key' = k
    /\ todo' = IF needs_rehash(mem) THEN ensure_rehash(mem) ELSE <<>>
    /\ UNCHANGED <<mem, disk, wal, reader, partial, cut, crashes>>

\* grn_hash_add_entry: it finds the key, has no room for it, or adds it.  A
\* table that still needs a rehash is one whose rehash has failed.
AddEntry ==
    /\ status = "rehashing"
    /\ todo = <<>>
    /\ key' = NIL
    /\ IF get(mem, key) # NIL \/ TableIsFull(mem, key) \/ needs_rehash(mem)
       THEN /\ status' = "ready"
            /\ pending' = acked
            /\ UNCHANGED todo
       ELSE /\ status' = "running"
            /\ todo' = io_hash_add(mem, key)
            /\ UNCHANGED pending
    /\ UNCHANGED <<mem, disk, wal, reader, partial, acked, cut, ops, crashes>>

Delete(k) ==
    /\ get(mem, k) # NIL
    /\ Begin(k, Absent)
    /\ status' = "running"
    /\ todo' = delete(mem, k)
    /\ UNCHANGED <<mem, disk, wal, key, reader, partial, cut, crashes>>

SetValue(k, v) ==
    /\ get(mem, k) # NIL
    /\ Begin(k, v)
    /\ status' = "running"
    /\ todo' = set_value(get(mem, k), v)
    /\ UNCHANGED <<mem, disk, wal, key, reader, partial, cut, crashes>>

\* The next store or append of the operation or of the replay.
Step ==
    /\ todo # <<>>
    /\ todo' = Tail(todo)
    /\ IF "log" \in DOMAIN Head(todo)
       THEN wal' = Append(wal, Head(todo).log) /\ UNCHANGED mem
       ELSE mem' = Execute(mem, Head(todo)) /\ UNCHANGED wal
    /\ UNCHANGED <<disk, status, key, reader, partial, ghosts, ops, crashes>>

\* The operation returns to its caller.
Return ==
    /\ status = "running"
    /\ todo = <<>>
    /\ status' = "ready"
    /\ acked' = pending
    /\ UNCHANGED <<mem, disk, wal, process, pending, cut, ops, crashes>>

\* grn_obj_flush: the mapping is written out, then the log is removed.
Flush ==
    /\ status = "ready"
    /\ wal # <<>>
    /\ ops < MaxOps
    /\ ops' = ops + 1
    /\ status' = "flushing"
    /\ disk' = mem
    /\ UNCHANGED <<mem, wal, process, ghosts, crashes>>


ClearWal ==
    /\ status = "flushing"
    /\ wal' = <<>>
    /\ status' = "ready"
    /\ partial' = NIL
    /\ reader' = 0
    /\ UNCHANGED <<mem, disk, todo, key, ghosts, ops, crashes>>

\* The log ends with a reuse: its record is still the head of the garbage list.
InReuse == wal # <<>> /\ wal[Len(wal)].event = "REUSE_ENTRY"

\* The process dies.  In the memory that survives a death InReuse the replay leaves the
\* record on the garbage list, and its removal puts it there once more (cut).
Crash(mode) ==
    /\ status \notin {"dead", "broken"}
    /\ status = "flushing" => CrashInFlush
    /\ crashes < MaxCrashes
    /\ crashes' = crashes + 1
    /\ mem' = IF mode = "flushed" THEN disk ELSE mem
    /\ status' = "dead"
    /\ todo' = <<>>
    /\ key' = NIL
    /\ reader' = 0
    /\ partial' = NIL
    /\ cut' = (cut \/ (InReuse /\ mode = "application"))
    /\ UNCHANGED <<disk, wal, acked, pending, ops>>

-----------------------------------------------------------------------------
\* The next process opens the table as the primary and recovers it.
Open ==
    /\ status = "dead"
    /\ status' = "replaying"
    /\ UNCHANGED <<mem, disk, wal, process, ghosts, ops, crashes>>

\* Mutant of ReplayEntry: a partially added record is not forgotten once it has its
\* key or is deleted.
ReplayEntryNeverClears ==
    /\ status = "replaying"
    /\ todo = <<>>
    /\ reader < Len(wal)
    /\ reader' = reader + 1
    /\ LET e == wal[reader + 1]
       IN  /\ todo' = replay(mem, e)
           /\ partial' = IF e.event \in {"ADD_ENTRY", "REUSE_ENTRY"} THEN e.record_id ELSE partial
    /\ UNCHANGED <<mem, disk, wal, status, key, ghosts, ops, crashes>>

ReplayEntry ==
    /\ status = "replaying"
    /\ todo = <<>>
    /\ reader < Len(wal)
    /\ reader' = reader + 1
    /\ LET e == wal[reader + 1]
       IN  /\ todo' = replay(mem, e)
           /\ partial' = CASE e.event \in {"ADD_ENTRY", "REUSE_ENTRY"} -> e.record_id
                           [] e.event = "SET_ENTRY_KEY" -> NIL
                           [] e.event = "DELETE_ENTRY" /\ e.record_id = partial -> NIL
                           [] OTHER -> partial
    /\ UNCHANGED <<mem, disk, wal, status, key, ghosts, ops, crashes>>

\* An entry of var-size keys that never got its key has key_size 0, and
\* deleting it uses garbages[0 - 1], an address 16GiB away: SIGSEGV.
WildDelete(m, id) == VarSize /\ m.key_size[id] = 0

\* The log ends with a record without a key: delete it by its identifier.
\* When the search misses it the recovery fails and the object is broken.
RemovePartial ==
    /\ status = "replaying"
    /\ todo = <<>>
    /\ reader = Len(wal)
    /\ partial # NIL
    /\ \/ /\ FoundById(mem, partial)
          /\ ~WildDelete(mem, partial)
          /\ status' = "removing"
          /\ todo' = delete_by_id(mem, partial)
          /\ UNCHANGED <<reader, partial>>
       \/ /\ FoundById(mem, partial)
          /\ WildDelete(mem, partial)
          /\ status' = "dead"
          /\ reader' = 0
          /\ partial' = NIL
          /\ UNCHANGED todo
       \/ /\ ~FoundById(mem, partial)
          /\ status' = "broken"
          /\ UNCHANGED <<reader, partial, todo>>
    /\ UNCHANGED <<mem, disk, wal, key, ghosts, ops, crashes>>

\* The recovery ends with the same flush.
RecoverFlush ==
    /\ todo = <<>>
    /\ \/ status = "replaying" /\ reader = Len(wal) /\ partial = NIL
       \/ status = "removing"
    /\ status' = "flushing"
    /\ disk' = mem
    /\ UNCHANGED <<mem, wal, process, ghosts, ops, crashes>>

Work == Step \/ AddEntry \/ Return \/ ClearWal \/ Open \/ ReplayEntry \/ RemovePartial \/ RecoverFlush

Next ==
    \/ \E k \in Keys : Add(k) \/ Delete(k) \/ \E v \in Values : SetValue(k, v)
    \/ Flush
    \/ Work
    \/ \E mode \in CrashModes : Crash(mode)

Spec == Init /\ [][Next]_vars

-----------------------------------------------------------------------------
Ready == status = "ready"

\* Whenever the table is in service, a search of every key finds exactly what
\* the finished operations have made; the operation a crash has cut short is
\* there completely or not at all (grn_hash_get after grn_hash_wal_recover).  Over
\* the memory that survives a process: with fixed-size keys, no REHASH in the
\* log (which HashRehashCrash.cfg shows to break it) and until a crash cuts a
\* reuse: the record then on the list twice is given to two keys.
AcknowledgedSurvives == (Ready /\ ~cut) => Content(mem) \in {acked, pending}

\* Searches take no lock.  One that comes between any two stores of an operation
\* finds every key as it was before the operation or as it is after it, unless a
\* rehash has stored the mask of the new space and not yet its offset.
Switching ==
    /\ status = "rehashing" /\ todo # <<>>
    /\ "to" \in DOMAIN Head(todo) /\ Head(todo).to \in {"n_garbages", "idx_offset"}
SearchNeedsNoLock ==
    status \in {"rehashing", "running"} => Switching \/ Content(mem) \in {acked, pending}

\* A scan (the bitmap a cursor walks) sees the records a search finds, each
\* once, and n_entries counts them (after crashes: under the conditions of
\* AcknowledgedSurvives).
ScanAgreesWithSearch ==
    (Ready /\ ~cut) =>
        /\ mem.n_entries = Cardinality(mem.bits)
        /\ mem.bits = {get(mem, k) : k \in Keys} \ {NIL}

\* The garbage list holds every deleted record exactly once and no live one:
\* no record is handed out twice and none is lost.  It holds through crashes
\* until one cuts a reuse (cut): over the surviving memory the recovery puts the
\* record on the list it has not left, so that it is linked to itself.
NextGarbage(m, n) ==
    LET chain[i \in 0 .. n] ==
            IF i = 0 THEN m.garbage
            ELSE IF chain[i - 1] = NIL THEN NIL ELSE m.word[chain[i - 1]]
    IN  chain[n]
GarbageListIsExact ==
    (Ready /\ ~cut) =>
        LET free == (1 .. mem.curr_rec) \ mem.bits
        IN  /\ {NextGarbage(mem, n) : n \in 0 .. Cardinality(free) - 1} = free
            /\ NextGarbage(mem, Cardinality(free)) = NIL

\* Records with var-size keys never share a place in the key area, and the
\* next key goes behind all of them (curr_key).
KeyPlacesArePrivate ==
    (Ready /\ VarSize) =>
        \A i \in mem.bits :
            /\ mem.key_offset[i] < mem.curr_key
            /\ \A j \in mem.bits : mem.key_offset[i] = mem.key_offset[j] => i = j

\* A search for any key, present or not, ends: some slot of the space in use
\* is empty (the loop of grn_hash_get_internal has no other exit).
SearchEnds == Ready => \A k \in Keys : Ends(mem, k) # {}

\* A crash after an operation has returned never leaves a table that the
\* recovery gives up on: that only happens to an addition cut short.
OnlyPartialBreaks == status = "broken" => acked # pending
=============================================================================
