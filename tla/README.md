# A verification project for Groonga

Groonga (`src/`) is a full-text search engine and column store: a C library (`lib/`)
and a server (`src/groonga.c`). This directory holds TLA+ modules that model its
concurrent and crash-sensitive core and two of its storage structures, the TLC
configurations that check them on small instances, and TLAPS proofs for every value of
the constants.

## 1. Inventory of the system

| component | source | state | operations | hard behaviour |
|---|---|---|---|---|
| io lock | `lib/io.c` | a `uint32_t` in the mapped header of each file, shared by threads and processes | `grn_io_lock`, `grn_io_unlock`, `grn_io_clear_lock`, `grn_io_is_locked` | contention without a kernel lock, timeouts, cancellation, owners that die |
| io segments | `lib/io.c`, `lib/grn_io.h` | per segment: `map`, `nref`; `nmaps` | `grn_io_seg_ref`, `grn_io_seg_unref`, `grn_io_seg_expire`, `grn_io_expire` | a segment is unmapped while others look it up |
| WAL | `lib/wal.c` | an append-only file of msgpack maps per object | `grn_wal_add_entry`, `grn_wal_touch`, `grn_wal_clear`, `grn_wal_reader_*` | torn tails, replay over a state that is ahead of the log |
| hash table | `lib/hash.c` | index slots, entries, free lists, bitmap, counters | add, delete, set value, rehash, truncate, WAL recovery | crash between any two memory writes |
| server threads | `src/groonga.c` | `ctx_new`, `n_running_threads`, `n_floating_threads`, `max_n_floating_threads` | worker loop, request handler, `thread_limit`, shutdown | lost wake-ups, shrinking the pool, quitting |
| request canceler and timer | `lib/request_canceler.c`, `lib/request_timer.c`, `lib/ctx.cpp`, `src/groonga.c` | request id to ctx map, ordered timers, `ctx->rc`, `current_request_timer_id` | register, unregister, cancel, expire | cross-thread accesses without a mutex, identifiers that are reused, a scan that works on what it has read before |
| query cache | `lib/cache.c`, `grn_obj_touch` | LRU list, hash of entries, limit; `last_modified` of the database | fetch, update, expire, `cache_limit`, touch | results computed before a change and stored after it; time in seconds |
| patricia trie | `lib/pat.c` | nodes with a bit position and two links, keys, ring of deletion infos, garbage lists | add, delete, get, cursors, prefix search, longest prefix | nodes taken out in two stages, pending deletions that are merged, keys that extend each other |
| variable size columns | `lib/store.c` (`grn_ja`) | segments with their infos, element infos, free chunks, garbage queues | set, append, prepend, defrag | space is handed out, filled and put into the record in separate critical sections; full columns |
| inverted index | `lib/ii.cpp` | buffers, chunks, posting lists | update, merge, split, cursors | the largest file; not modelled |

The parts listed above share state as follows.

* Every table and column is an io.  A command that changes one takes the **io
  lock** of its file first, so the hash operations of `HashMem` run one at a
  time; readers take no lock.  A process that dies leaves the lock word as it was,
  and the next primary process clears it in `grn_hash_wal_recover`.
* Columns, inverted indexes and dat tables map their **segments** on demand and
  unmap them (`grn_ii_expire`, `grn_io_expire`) while other threads use them.
* A **hash** operation writes mapped memory and appends to the object's **WAL** in
  turn; `grn_obj_flush` writes the mapping out and removes the log; opening an
  object after a death replays the log over whatever memory is there.
* The **server** hands HTTP requests from the event loop to worker threads through
  `ctx_new` under `q_mutex`/`q_cond`; `thread_limit` changes the pool from inside a
  worker; `shutdown` sets `grn_gctx.stat` and, when immediate, asks the **request
  canceler** to give every registered context `GRN_CANCEL`, which the io lock's
  waiters look at.
* The **request timer** cancels through the canceler from the event loop; its timers
  are the keys of a patricia trie.
* A **select** asks the **query cache** first; every change of the database ends with
  `grn_obj_touch`, whose time decides which entries are valid.
* Text columns and vectors are **variable size columns**; tables of text are
  **patricia tries**, whose record identifiers the columns are indexed by.

What makes each part correct:

| component | correct when |
|---|---|
| io lock | one owner; the word counts exactly the increments in it; a death in a critical section stays fenced until recovery; a waiter with a limit or a cancelled request leaves |
| io segments | no segment is unmapped in use; one mapping per segment; `nref` and `nmaps` are exact |
| hash table, WAL | search and scan agree; searches end; free lists are exact; key bytes are private; a finished operation survives a death, a half-finished one is all or nothing; recovery ends |
| server threads | the counters are exact; no wake-up is lost; the pool reaches its limit and never empties; both shutdowns end the server |
| request canceler and timer | a timer cancels only the request it was made for; no context is used after its request has left |
| query cache | no hit is older than a change that had ended before; the list and the hash hold the same entries; the size stays within the limit |
| patricia trie | it is a table: a key has one identifier while it is in, no other key has it; every search and cursor gives what the set of keys says; no node is lost or in two places |
| variable size columns | no byte has two uses; every value is in a segment of its kind; no space is lost; freed chunks are used again |

`PROJECT.json` lists every component, including those left out, and the hazards of
this code at the line where each one bites, with the properties that cover it.

## 2. Plan

Done, in this order because the later parts rest on the earlier ones:

1. `IoLock`: the lock every writer depends on.
2. `HashMem` and `HashWal`: the table that holds the database's own keys, with its
   log; `HashWal` composes the memory of `HashMem` with the log, the process that
   dies and the process that recovers.
3. `ThreadPool`: the server's threads, with `thread_limit` and shutdown.
4. `IoSegment`: reference counting of mapped segments.

5. `RequestTimer`: registration, cancel, expiry and the timer's cursor, which is
   walked without the mutex.  (The cancel of all requests is in `ThreadPool`.)
6. `Cache`: the cache between selects and changes.
7. `IdTable`, and `PatTree`, `PatSearch`, `Pat`, which implement it.
8. `JaMem` and `Ja`: the space of variable size columns and its writers.

Next:

9. `DbWalRecover`: which objects are recovered, rebuilt or reported, and the WAL
   roles of the processes, on top of `HashWal`; the events of arrays and, with the
   stores of `PatTree` and `JaMem` taken apart, of patricia tries and columns.
10. `ObjRef`: the reference counts of the object registry (`db.c`), the sibling of
    `IoSegment`; GQTP edges in `ThreadPool`; chunk allocation of the inverted index.
11. Abstract specifications beside `AtomicLock` and `IdTable`: a durable map
    from keys to values implemented by `HashWal` (which `AcknowledgedSurvives` is the
    state form of), a queue with a set of servers implemented by `ThreadPool`.
12. Proofs: the refinements of step 11, and what the replay of a whole log makes of a
    memory that is behind it (`hash_replay`), on top of what `HashMemProof` shows of one
    operation.

## 3. Modules and code

### IoLock: `grn_io_lock`, `grn_io_unlock`, `grn_io_clear_lock`, `grn_io_is_locked`

`lock` is the `uint32_t` in the mapped header, of width `LockModulus`; `pc`, `call`
and `rc` are a thread's place in `grn_io_lock`, its `timeout` and `count`, and
`ctx->rc`.  The `+1`, the look at the old value and the `-1` of a loser are
separate steps.  A process may die at any of them, leaving its increments in the
word; the ghosts `left` (increments of the dead) and `torn` (an owner died) say what
recovery has to clean up.  `Recover` is what `grn_hash_wal_recover` does when it
finds the lock set: clear it and replay.  It is taken while every thread is dead:
the primary recovers a database before any other process opens it.  `Reopen` is an
open without recovery, by a secondary or without the WAL.

`AtomicLock` is what the users of the lock may rely on: it is taken when it is
free and nothing is torn, and given back; when its holder dies nobody gets it before
a recovery.  `IoLock` implements it with `holders <- Owners` (section 6).

### HashMem and HashWal: `lib/hash.c`, `lib/wal.c`, `grn_obj_flush`

`HashMem` has the persistent hash as a record (`mem`: the index slots of both index
spaces with the choice `idx_offset`, entries, `value`, bitmap, `garbages`,
`n_entries`, `n_garbages`, `curr_rec`, `curr_key`, `max_offset`) and each operation
as the *sequence of stores and appends* the C code performs.  `HashWal` runs these
one at a time (`Step`), so a death can fall between any two.  `mem` is the mapping,
`disk` the file as of the last flush, `wal` the log, `todo` what the operation in
progress has left to do; `acked` and `pending` are ghosts: what the finished
operations have made, and what the one in progress would make.  `cut`, a ghost too,
becomes true when a process dies between the append of `REUSE_ENTRY` and that of
`RESET_ENTRY` and its memory survives (section 7).

A crash is of one of two kinds.  `"application"`: the process dies and the operating
system keeps its mapped pages and its appended log, so recovery sees the memory of
the instant of the death.  `"flushed"`: recovery sees the last flushed file, which is
how the repository's recovery tests produce a crash (they copy files).  `Open`,
`ReplayEntry`, `RemovePartial` and `RecoverFlush` are `grn_hash_wal_recover`, itself
interruptible.  Keys are numbers, values are numbers, hash values are given by
`HashOf` so that collisions are chosen.  `calculate_step` is the code's
`(h >> 2) | 0x1010101`; the sums of a probe are not cut at 2^32, which every index size
divides.  Entries are numbered by their record
identifier; bytes of keys outside the entry are one cell each.

A rehash clears the other space in one store and then copies slot by slot
(`CopyLoop`, `CopySlot`), as the loop of `grn_hash_rehash` does: its `count` is the number
of slots it has filled, and the three stores that switch to the new space are separate.
`SizeAssumption` says that the maximum index size, `INITIAL_INDEX_SIZE` and the size a table
is created with are powers of two from 2 to 2^29, the last two not above the first: the code
has 2^29 (`MAX_INDEX_SIZE`), 256 and 2^20 or a doubling of it, which meet it.  Of the
environment variables that are "just for test", `GRN_HASH_MAX_INDEX_SIZE` takes any
multiple of 0x400 up to 2^29; the assumption, and with it the theorems, need a power of two
there too, as the masks of the code do.  `HashAssumption`: a
fixed-size key of the model is a `uint32_t`, which is its own hash value, so two of them with
one hash value are one key.

### ThreadPool: `h_handler`, `h_worker`, `thread_limit`, `shutdown`, `run_server_loop`

`queue` is `ctx_new`; `running`, `floating`, `limit`, `changing` are
`n_running_threads`, `n_floating_threads`, `max_n_floating_threads` and
`n_changing_threads`. The body of a critical section is one step; everything between
two of them, and `n_changing_threads`, which is changed outside, is separate.
`COND_SIGNAL` wakes one waiting thread, if there is one, and a wait may also return
spuriously. `quit` is `grn_gctx.stat == GRN_CTX_QUIT`; a store that falls into a
critical section has the effect of one just before it. A request is a record of its
kind, of `max` for `thread_limit`, and of whether it has a request id. The kind
`"stuck"` is a command that ends only when it is cancelled.  The ghost `overlapped`
becomes true when a `thread_limit` call finds another one in progress, `failed` when a
thread could not be created.

### IoSegment: `GRN_IO_SEG_REF`, `grn_io_seg_unref`, `grn_io_seg_expire`

One segment: `map`, `nref` (a `uint32_t` of width `2 * MaxRef`, where `MaxRef` stands
for `GRN_IO_MAX_REF`, 2^31) and the io's `nmaps`.  Each atomic addition, each look at
`info->map`, the map and unmap system calls (which may fail) and the store of
`NULL` are steps of their own.  `astray` becomes true where the code gives
up its own guarantee: when the retry limit resets `nref` to 0 by force, and when a
call that has already given its 1 back returns a mapping another thread has made
meanwhile (`grn_io.h:362`).  Nothing is claimed after that, and `Next` stops there.

### RequestTimer: `grn_request_canceler_*`, `request_timer_*`, `grn_ctx_set_rc`

A worker registers its request with the canceler (`Begin`), then with the timer
(`RegisterTimer`), stores the timer's identifier in its context (`StoreTimer`),
executes the command, which reads and writes `ctx->rc` in two steps (`CheckRc`,
`WriteRc`), and takes both registrations back (`EndCommand` to `Leave`). A cancel by a
client or by the event loop holds the canceler's mutex through `Cancel`, `CancelRead`
and `CancelUnregister`, which look into another thread's context. The loop (`Poll`,
`Wake`, `ScanNext`, `ScanSkip`) collects what has expired when its cursor is opened,
and a timer may be unregistered and its request be over before the scan comes to it.
`nodes` is what the timer's tree remembers, `live` what is in it: a deleted node's
value can still be read, as in `lib/pat.c`. `excused` names the requests whose cancel
or timer the code itself loses (section 7).

### Cache: `grn_cache_fetch`, `grn_cache_update`, `cache_limit`, `grn_obj_touch`

`list` and `hash` are the two structures that hold the same entries, `persistent`
says which of the two forms the cache has (the persistent one keeps two entries of
its own in the hash, and its io lock may not be obtained).  A select notes the
second it began in; `Change` and the two halves of a touch are separate steps, so
a select may compute before the change and store after the touch.  A result is
the number of changes it has seen.

### IdTable, PatTree, PatSearch, Pat: `lib/pat.c`

`IdTable` is what a table of keys promises.  `PatTree` has the trie as a record
(nodes with `check`, links and key; the ring of deletion infos; the garbage lists by
key size) and the operators `_grn_pat_add` and `_grn_pat_del` are made of: the
descent, the first bit that differs, linking, the eight turns of a deletion, the
deletion infos in their states and their merging, the reuse of a node.  Bits are
taken from keys as the code does, the end mark of a key between its last byte and
what would follow it included.  `PatSearch` has the searches: cursors in both
directions with their bounds, prefix search, longest common prefix.  `Pat` is the
machine: additions and deletions of any key at any time; `table` is derived from the
trie by `grn_pat_get` and is what `IdTable` sees.  Links of a node that is out of the
tree are read by nobody and are cleared (`Forget`), which keeps the state space small;
the ring is kept as a sequence, the newest info first.

### JaMem, Ja: `grn_ja_alloc`, `grn_ja_free`, `grn_ja_replace`, `grn_ja_put`, `grn_ja_defrag`

`JaMem` has the column as a record: the info of each segment (free, chunks of one
size, sequential with the bytes in use, huge, element infos, garbage infos), the
element info of each record, the current sequential segment, and for each chunk size
the next free chunk and the list of garbage info segments, each a queue.  Its
operators are the functions of `store.c` that run inside the column's lock.  A value
is its size.  `Ja` has the writers: space is allocated (`Set`, `AppendAlloc`,
`DefragPut`), and put into the record, the old one given back, in a second critical
section (`Replace`); if that fails the new space is given back in a third (`Undo`).
Before that, append and defrag read the record without the lock.  Segment 0 has the
element infos of the first records from the creation of the column on (`Created`); the
others are made with the first value of one of their records.  `Rc` is `ctx->rc`, in
which another thread's canceller stores `GRN_CANCEL` at any time: functions that return
it instead of their own result report an error although they are done (`Replace`,
`Lost`).  A lock may not be obtained (`Refused`, `Failed`, the second case of `Undo`).
`astray` becomes true when the code loses track of space, in one of the five ways of
section 7; only the `Undo` of writers that have failed is followed after that.

## 4. Runs

| run | what it shows |
|---|---|
| `io_lock` | `MutualExclusion`; `LockWordCounts`; `TornDataIsFenced`: after a writer's death nobody enters before recovery; `BoundedWait`: a waiter with a limit or a cancelled request leaves although the owner never unlocks |
| `hash_table` | without crashes, through growing and shrinking rehashes with colliding keys: `SearchNeedsNoLock` (a search between any two stores of a writer finds each key as it was before or as it is after), `GarbageListIsExact`, `KeyPlacesArePrivate`, `SearchEnds` |
| `hash_crash` | application crashes between any two stores, during recovery and during a flush, fixed-size keys, no rehash in the log: `AcknowledgedSurvives`, `ScanAgreesWithSearch`, `GarbageListIsExact`, and `OnlyPartialBreaks`: recovery gives up only on an addition that was cut short; the first three until a death cuts a reuse (`~cut`) |
| `hash_replay` | replay over the last flushed file, with rehashes and var-size keys: `AcknowledgedSurvives` |
| `hash_rehash_crash` | a violation, see section 7 |
| `pool` | `CountersAgree`, `PoolSurvives`, `ShutdownEnds`; until two `thread_limit` calls overlap: `SomeoneAwake` (no lost wake-up), `Served`, and `LimitIsReached`: the threads above a lowered limit end |
| `io_segment` | `RefIsMapped`, `OneMapper`, `NrefCounts`, `NmapsExact` |
| `request_timer` | `TimersAreOwned`: no timer stays behind that nobody will unregister; `BoundedLateness`: an expired request is cancelled by the next poll; `CancellerIsExact`; `NoEarlyCancel`: a timer cancels only its own request, and only after its timeout |
| `timer_address_id` | a violation, see section 7 |
| `cache` | `FreshHit`: no hit is older than a change that had ended before the select began; `ListMatchesHash`; `WithinLimit`; for both forms of the cache |
| `pat` | `IsTable` (the trie implements `IdTable`); `AddSucceeds`; `RangesAreExact` (cursors without and with bounds); `PrefixesAreExact` (prefix search and longest prefix); `NodesArePartitioned` (every node is in use, owed to a deletion or garbage, in one place, and the tree has none that was taken out) |
| `ja` | `SpacesAreDisjoint`, `SegmentsFit`, `NothingLeaks`, `GarbageIsExact`, `ChunksAreReused`, until the code loses track of space |

Run one with `tlc -config IoLock.cfg MCIoLock` and so on; `PROJECT.json` pairs each
configuration with its module and each property with a mutation of the code's model
that breaks it.

## 5. Bounds and fairness

* `io_lock`: three threads of two processes, so that two contend inside one process
  and a third can die alone; timeouts -1 (wait for ever) and 1; a `ctx->rc` look every
  2 tries; up to 2 increments left by the dead; width 6, one more than can ever be
  counted, so that a lost decrement or an underflow shows.
* `hash_table`: 3 keys that all start at the same slot of the smallest index, index
  sizes 4 to 16, 10 operations: enough for rehashes that grow the index and for ones
  that only drop garbage slots.  Its keys are larger than any record identifier: the
  word of a deleted record holds the next garbage record, and a small key whose
  search meets it there would be another matter (section 7).
  `hash_crash`: keys 0 and 8, which probe the same slots, 2 values, 4 operations,
  2 deaths (the second inside the recovery of the first).  `hash_replay`: 4 to 8
  slots, 4 operations, 2 deaths.  Behaviours end when the operations are used up,
  hence `CHECK_DEADLOCK FALSE`.
* Exclusions of the hash runs: `CrashInFlush = FALSE` in `hash_replay`, since a death
  between flush and removal of the log is a replay over memory that is ahead, the
  first finding.  Deaths inside a reuse happen in every run with crashes.  Where
  the memory survives, the properties are claimed until one falls between the appends
  of `REUSE_ENTRY` and `RESET_ENTRY` (`cut`), which leaves, after replay, a garbage
  record linked to itself that later additions share: without `~cut` in
  `GarbageListIsExact` the run `hash_crash` shows it.
* `pool`: 3 threads, 4 requests in a behaviour (`FewOfKind`): up to 3 commands, up to 2
  calls of `thread_limit` or one and a stuck command, and one shutdown of either mode.
  The two calls may follow each other, the first one cancelled or not, or overlap:
  `SomeoneAwake`, `Served` and `LimitIsReached` are each violated within these bounds
  when the condition about `overlapped` is taken out of them.
* `io_segment`: three references and one expirer, `MaxRef` 8 (above the number of
  threads), 2 retries.  `NmapsExact` needs a single expirer: a second one that has
  passed the test of `info->map` unmaps `NULL` and counts `nmaps` down again; the
  index is locked around `grn_ii_expire`.  The other properties are proved for any number.
* `request_timer`: 2 workers, 2 requests in a behaviour, timeouts 1 and 3 and a poll of
  1, so that a timer expires in a poll, between polls and long after its request; one
  write of `ctx->rc`, the race being one of a write with a cancel.
* `cache`: 2 keys, 2 selects at a time, one change, 3 seconds, limits 0 to 3 (the
  persistent form needs 3 for its own two entries and one result).
* `pat`: bytes of two bits, keys `<<0>>`, `<<1>>`, `<<2>>` and `<<0, 1>>`; rings of 4
  infos with 4 nodes and 4 deletions (nodes come back from the garbage and are used
  again) and of 8 with 5 and 3 (pending deletions pile up and merge in each of the
  five ways of `grn_pat_del`). Longer sequences, of eight keys, were tried by random
  simulation.
* `ja`: 2 records, 2 writers, 6 segments of 16 bytes, garbage segments of 2 places and a
  threshold of 1; the element infos of record 1 are in segment 0, those of record 2 in
  a segment that is made on demand.  Three workloads: values of all four kinds with
  appends, 4 operations; one chunk size, 10 operations, for a second garbage info segment
  and reuse; a value that takes the 5 segments there are beside tiny ones, 4 operations,
  for a full column.

Fairness.  `IoLock!FairSpec`: weak fairness of each waiting thread's own steps, which
need only processor time; the owner may keep the lock for ever.
`ThreadPool!FairSpec`: weak fairness of every worker step (a command ends unless it
is stuck), of leaving the event loop (`grn_com_event_poll` returns at least once a
second) and of the draining loop.  `RequestTimer`
states the lateness of a cancel as a bound on the clock, so it needs no fairness; the
loop's own work is taken to need no time.

## 6. Proofs

For every value of the constants, from the named assumptions of the module.  The type
invariants of these modules are proved and not among the properties of the runs; where
every store is modulo the width of its word (`IoLockProof!TypeCorrect`,
`IoSegmentProof!SegmentTypeCorrect`) they say nothing of the code and only serve the
other proofs.

* `IoLockProof`: `LockExcludes` (`MutualExclusion`), `CrashIsFenced`
  (`TornDataIsFenced`), `LockWordExact` (`LockWordCounts`) and `LockIsAtomic` (`IoLock`
  implements `AtomicLock`), for any finite set of threads, any processes and any timeouts;
  `WidthAssumption` says that the word can hold all threads and everything the dead may
  leave.  Mutual exclusion alone is not inductive: a contender that finds 0 must know
  that no owner's 1 is in the word.  The inductive invariant is
  `TypeOK /\ LockWordCounts /\ MutualExclusion` and, when `torn`, that an increment is left
  and nobody owns the lock; `LockWordCounts` is the sum
  "word = counted threads + left", which makes old value 0 mean "nobody".  The refinement
  uses the same invariant: the `+1` on a word of 0 is `Acquire`, since nobody owns the
  lock and nothing is torn then, the other additions are no step of `AtomicLock`, and the
  crash of a process is `Die` of its one owner or no step.
* `ThreadPoolProof`: `PoolTypeCorrect` (the unsigned counters never underflow),
  `CountersCorrect` (`CountersAgree`), `PoolNeverEmpties` (`PoolSurvives`), for any
  finite set of threads and any requests.  The inductive invariant is the conjunction of the
  three: the counters have to be exact cardinalities for a thread that leaves
  because `running > limit` to know that another one stays.
  `NoLostWakeUp` (`SomeoneAwake`) holds until two `thread_limit` calls overlap.  The
  condition is needed: with three
  threads a cancelled call can put back a limit that is too low by then
  (`groonga.c:816`), a thread ends with the only signal, and the queued request waits.
  The invariant `AwakeInv` says that more threads than the limit run only while the call is
  still in its loop (`ExcessIsReduced`), that the limit a cancelled call would put back
  fits (`OldLimitFits`) and that a call which is alone knows it (`CallIsAlone`): a
  thread that ends with a signal in its hands leaves a call that will signal again.
* `IoSegmentProof`: `NrefCorrect` (`NrefCounts`), `MappedOnce`
  (`OneMapper`), `NeverUnmappedInUse` (`RefIsMapped`), for any finite sets of references and
  expirers whose number is below `MaxRef`.  The strengthening, while not `astray`: at
  most one thread is between "added the first 1" and the end of its mapping
  (`OneFirst`), a claiming expirer that has seen itself alone is alone in the counter
  (`ExpiringAlone`), and a pointer whose memory is gone is about to be
  cleared by that expirer (`DanglingIsCleared`).  `OneMapper` and `RefIsMapped` are
  parts of the invariant.  The overflowing reset is an addition modulo `2 * MaxRef`;
  `OneFirst` bounds the claims by one, so the count stays inside the word and
  `NrefCounts` can be an equation.  `NmapsCorrect` (`NmapsExact`): like the property it
  speaks of a single expirer, with any number of references.  Its invariant is
  the sum "nmaps = mapping - not yet counted + no longer there" (`NmapsSum`), and that
  the expirer which found a mapping still has it (`ExpirerSeesMap`).
* `RequestTimerProof`: `TimerTypeCorrect`, `NoTimerIsLeftBehind` (`TimersAreOwned`),
  `CancellerCorrect` (`CancellerIsExact`), `NoRequestIsCancelledEarly`
  (`NoEarlyCancel`), for any number of workers, requests and timeouts.  The last one
  assumes `ClientIds`, the requests having ids of their own: it is what
  `timer_address_id` violates without them.  The inductive invariant adds where a
  worker's timer identifier can be at each place of its code (`Shape`, `Holder`), that
  no two running requests have the same number (`Distinct`), that a node's owner is its
  request (`Owners`, `Values`) and its key not before the owner's deadline
  (`Expiry`), and that what the scan has collected has expired (`DueExpired`): the scan
  needs to know of a node, long after its request has left, whom its value names.
  `LatenessIsBounded` (`BoundedLateness`) adds that the loop comes to every timer of a
  request that still counts in time (`AllInTime`): it sleeps no longer than one poll
  beyond it, or is about to cancel its request.  Of the poll only its upper limit is
  used (`WakesSoon`) and that a first timer interrupts it: that `earliest_unix_time_msec`
  may be too late does no harm.
* `CacheProof`: `HitsAreFresh` (`FreshHit`), for any keys, threads, limits and clock.
  `FreshHit` speaks of a hit; the invariant has to follow a result from the select that
  computes it (`ReadersCovered`) through the entry (`EntriesCovered`) to the select it
  is given to (`ResultsFresh`): a result that has not seen a change began in or before
  the second that the change's touch has stored or will store (`Covered`).
  `ListIsTheHash` (`ListMatchesHash`) and `LimitIsKept` (`WithinLimit`) have an invariant
  of their own (`ListInv`): the list has no key twice, its members are the hash, and
  the limit holds, in both forms of the cache.
* `JaProof`: the five properties of the run `ja`, each until the code loses track of space
  (`astray`), for any finite sets of records and writers, any
  sizes of values, and any sizes of segments and chunks that divide each other as
  `SizesAssumption` says.  `ColumnIsSound` is the inductive invariant, `JaInv`.  It
  speaks of a column `j` and of the values `E` that have an owner, a record or a writer
  between its critical sections: `Good(j, E)`.  The functions of `store.c` are then
  shown one by one to take a good column to a good one while `E` changes at
  one owner (`AllocatedGood`, `Freed`), and `Replace` is an exchange of the values of a
  record and a writer followed by `free`.  A replacement that is cancelled when it is done
  keeps the invariant only if its value has no space of its own (`NoSpaceMoves`); otherwise
  the column is astray.  The parts of `Good`, each for one kind of segment:
  every chunk that was handed out is a value's or one garbage record's, and none is
  behind the next free one (`Chunks`); sequential values do not overlap, end before the
  current position, and the segment's counter is the number of their bytes
  (`Sequentials`); the segments of huge values (`Huges`); the garbage infos of a chunk size
  are a list without repetition that has all of them, and `n_garbages` is what is in
  them (`Lists`); segment 0 has element infos, so that a link of 0 can mean the end of a
  list (`Infos`); no garbage info segment is empty between operations (`NoneIsEmpty`).
  `Bounded` has the sum of `ChunksAreReused`: a new chunk is taken only when
  at most `GarbageThreshold` are listed (`LittleGarbage`), and then the values alone are
  at most the owners; when a listed chunk is used again the sum stays.
  From this: `SpacesStayDisjoint` (each byte of a use is classified by the kind of its
  segment, `UsedBy`, and two uses of the same kind have no byte in common, `OneUse`),
  `SegmentsAlwaysFit`, `NothingEverLeaks`, `GarbageStaysExact`, `ChunksAreAlwaysReused`.
  Powers of two are handled as cardinalities of powersets, which gives their
  divisibility without induction over data; the list that `Garbage` computes by
  recursion is shown to be the only solution of the recursion, by a least place at which
  two would differ (`GarbageIs`).

* `HashMemProof` and `HashProof`: the properties of `HashWal` until the process first dies
  (`crashes = 0`; nothing is `cut` before that, `NothingCut`), for any keys and hash values, any number of records and operations and
  any index sizes that are powers of two up to the code's 2^29, with fixed-size and with var-size
  keys, with and without a log: `AcknowledgedHolds` (`AcknowledgedSurvives`), `NoLockHolds`
  (`SearchNeedsNoLock`), `ScanHolds` (`ScanAgreesWithSearch`), `GarbageListHolds`
  (`GarbageListIsExact`), `KeyPlacesHold` (`KeyPlacesArePrivate`), `SearchEndsHolds`
  (`SearchEnds`).  `HashMemProof` is about memories and programs, without a behaviour:
  1. *A probe is a permutation.*  `calculate_step` is odd, an odd factor can be cancelled
     modulo a power of two (`OddCancelsSizes`, by doubling, up to 2^29), so the tries of a probe meet
     different slots (`ProbeInjective`) and, being as many, all (`ProbeSurjective`).
  2. *A laid out space is a map.*  `Placed`: each live record is in one slot, and no slot
     before it on its probe is empty; `Layout` adds that no two of them have the same key and
     that whatever else is in the space matches no key.  Then a search finds the record
     of its key or nothing (`GetFinds`, `GetMisses`), however many garbage slots it passes.
  3. *Sound memories.*  `Sound` is what holds between operations: types, `Layout` of the
     bitmap's records, the counters (`Counted`: `n_garbages` may be too high, never too
     low), a free slot when a table can grow (`Roomy`), every record's place in the key area
     (`KeyArea`), the garbage list (`Chained`).
  4. *Programs.*  `Leads(m, P, C, rehashing, last)`: the stores `P` take the memory `m` to
     `last`, and every memory on the way has one of the contents `C`, unless a rehash is
     switching.  Each operation is shown store by store to lead from a sound memory to a
     sound one with the promised content (`AddLeads`, `DeleteLeads`, `SetValueLeads`,
     `RehashLeads`).  An addition stays `Midway` until its last store, the hash value or
     the key size, makes the key match; a deletion takes effect with its first store;
     the loop of a rehash keeps that the records of the slots it has passed are placed in the
     new space (`Copying`), which has room for them (`NewSize`, `CopyRoom`).

  `HashProof` executes the programs one step at a time.  None of the properties is inductive:
  between two stores the counters, the bitmap, the index and the lists disagree.  The
  invariant `HInv` therefore says that a sound memory is ahead: some `last` to which `todo`
  leads, with the content `pending` (or `acked`, for a rehash).  A step drops the head of
  `todo` (`LeadsStep`), and `Return` finds `todo` empty, hence `last` reached.
  Two theorems have a hypothesis.  `NoLockHolds`: hash values are above the record
  identifiers (`HashesApart`), since the word of an entry is used for both
  (section 7).  `SearchEndsHolds`: the counters leave a slot (`HasRoom`), which follows from
  `Roomy` for a table that can grow and whose keys are no references.

Only model-checked: every liveness property (`BoundedWait`, `Served`,
`LimitIsReached`, `ShutdownEnds`), which is outside what the proof system
does; the hash table after a crash (`AcknowledgedSurvives`, `ScanAgreesWithSearch`,
`GarbageListIsExact` and `OnlyPartialBreaks` of `hash_crash`, and `hash_replay`): the
recovery's properties are about what the replay of a whole log computes and hold
only under the exclusions of section 5; the patricia trie (`IsTable`, `AddSucceeds`, `RangesAreExact`, `PrefixesAreExact`,
`NodesArePartitioned`), whose walks are recursive operators, which the prover cannot
work with. 

## 7. Where the code and what is said of it disagree

* `hash_rehash_crash`: `wal.c:584` says that the log works on an application crash.  Replaying
  `REHASH` (`hash.c:5831`) sets `max_offset` back but not `idx_offset`, so over the memory
  that survived, the rehash reads only part of the space and finished additions
  are no longer found.
* `timer_address_id`: `request_timeout.rst:13` says that a request is cancelled if it is not
  completed until its timeout.  Without a `request_id` a request is named by the
  address of its context (`ctx.cpp:1890`), which the worker's next request has as well;
  the scan (`groonga.c:1065`) cancels by the name it has read, after the timer was
  unregistered, and the next request is cancelled before its own timeout.

Further disagreements that the modules show with other constants or without an excuse:

* The same sentence of `wal.c` and reuse.  `REUSE_ENTRY` is logged before the record
  leaves its garbage list (`hash.c:3338`, `hash.c:3252`).  After a death between this append
  and the one of `RESET_ENTRY` the replay leaves the record the head of the list, and the
  removal of the partial record puts it on the list again: it is linked to itself, and
  the rest of the list is lost (`GarbageListIsExact` without `~cut`); later the record is
  given to two keys (`AcknowledgedSurvives` without `~cut`).
* `grn_operation_not_permitted.rst:22` makes the number of threads one with
  `thread_limit max=1`.  A call that finds another one in progress sets the limit and returns
  (`groonga.c:791`); the other one may already have found nothing to reduce
  (`groonga.c:806`) or have been cancelled, and idle threads above the limit are never
  woken (`LimitIsReached` without `overlapped`).
* `grn_ja_replace` returns `ctx->rc` (`store.c:2811`), in which a canceller may
  have stored `GRN_CANCEL` after the value was put into the record
  (`request_canceler.c:104`).  `grn_ja_put_raw` then frees the value (`store.c:3527`); the
  lock for this is obtained, since an uncontended one does not look at `ctx->rc`
  (`io.c:1659`).  The record keeps a value whose space is handed out again
  (`SpacesAreDisjoint` without `Ready`), what
  `grn_ja_free_sequential` calls an "inconsistent sequence entry" (`store.c:2629`).
* Replaying `SET_ENTRY_KEY` (`hash.c:5770`) sets `curr_key` back to the logged offset; when
  the entry already has its key it is not advanced again, and the next long key
  overwrites this one (`HashCrash.cfg` with `VarSize = TRUE`).
* A var-size record that never got its key has `key_size` 0; removing it uses
  `garbages[key_size - 1]` (`hash.c:4403`), and the recovery dies, each time it is
  tried (the same constants).
* `shutdown.rst:27` asks for a request id on all requests, but an immediate shutdown that
  has one is among those it cancels (`proc.c:1045`) and does not shut down (`pool`
  with an id on `"immediate"`).
* `shutdown.rst:32` says that an immediate shutdown is accepted even when all threads are
  used; a thread that was signalled but has not run yet still counts as floating
  (`groonga.c:3421`), and the shutdown is queued behind a long command.
* `defrag.rst:9` says that the command resolves fragmentation; `grn_ja_defrag_seg` sets each
  record to the value it has, which `grn_ja_put_raw` (`store.c:3359`) takes for no
  change: nothing moves (`DefragPut`).

Seen in the code, and excused by name or left out of the properties:

* hash: at the maximum index size a search for a missing key never ends; nor does one
  in a table whose keys are references once its index is exactly full: for those
  `grn_hash_add` (`hash.c:3735`) does not double what it compares with the size, and
  rehashes only after the last slot has been taken (`HasRoom` excludes both); `n_garbages`
  counts too many slots, since a new record that takes a garbage slot does not decrement
  it; the word of a reused
  var-size record is its hash value and, while it is garbage, the next garbage record,
  which a search without the lock can take for the former; a rehash
  stores `max_offset` before `idx_offset`, and a search between the two uses the new
  mask on the old space (`SearchNeedsNoLock` excuses exactly this window).
* pool: with three threads and overlapping `thread_limit` calls `SomeoneAwake` fails as well
  (a cancelled call also writes its old limit over that of one that has succeeded
  meanwhile, `groonga.c:816`); a request that has been taken but not registered is missed by an immediate
  shutdown, which then waits for it; after a failed `THREAD_CREATE` with no other thread
  a request waits for the next one (`Served` excuses it); `run_server_loop` reads
  `n_running_threads` outside the critical section.
* timer: a `GRN_CANCEL` stored between a worker's look at `ctx->rc` and its own store is
  lost (`grn_error.h:41`); worker and canceler may both unregister a timer, and
  the second one may meet another request's; two requests with the same id share one
  entry; `earliest_unix_time_msec` may be too late, by no more than a poll; the poll's
  time limit is computed in an `int`.
* cache: two touches that pass each other set `last_modified` back (`regressed`).
* patricia trie: when the key that ended at a test for the end of a key is deleted
  alone, the test stays without a left side, and the search for the longest prefix
  reads the key of node 0 there (`pat.c:3127`): after adding `<<0, 1>>` and `<<0>>`,
  deleting `<<0, 1>>` and adding `<<0, 1, 2>>` it may lose a match
  (`PrefixesAreExact` excuses trees with such a test).
* variable size columns, the five ways to lose track of space (`astray`): the return value
  of `set_value` is ignored (`store.c:3520`), and without room an uninitialised element info
  goes into the record; when the old value cannot be freed for want of a garbage info
  segment the new one, already in the record, is freed as well (`store.c:2808`); so it is
  when a replacement is cancelled that was done; an append that is cancelled
  after its chunk from the garbage or its huge segments were taken gives them up
  (`store.c:3413`, `store.c:2991`, `store.c:3210`); after a failed replacement nothing is
  given back when the lock is not obtained (`store.c:3528`) or there is no room for a
  garbage info.  Besides, a
  defragmentation's comparison of places does not see that a value was replaced twice,
  and `grn_ja_putv_raw` does not give a vector's space back when `grn_ja_replace` fails.

## 8. Not modelled

`PROJECT.json` has the reason for each component.  Inside the modelled ones:

* hash: truncate, tiny (in-memory) hashes, keys stored in the entry, cursors and
  sorting, I/O errors inside an operation, rebuilding a broken object
  (`db_wal_recover.cpp`), the flush of a primary that closes the object;
* WAL: torn tails of the log file and the two other WAL roles;
* server: HTTP parsing, the GQTP pool, thread teardown after the last decrement, a poll
  error that leaves the loop without a shutdown;
* timer: the nodes and links of the timer's tree, which the scan reads while workers
  change them; the time the loop's own work takes;
* cache: a death in the middle of an update of the persistent form, statistics;
* patricia trie: its WAL, semi-infinite strings, exclusive bounds of cursors, truncation,
  defragmentation, fuzzy search, readers in the middle of a change;
* variable size columns: the bytes of values and so the updates append loses, ring
  buffers, increments, vectors, compression, truncation, the WAL;
* segments: the two other expiry modes and the files behind the segments.

Queries, expressions, indexes, text processing and output are sequential programs
over data and are left out.
