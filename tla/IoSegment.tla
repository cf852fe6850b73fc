----------------------------- MODULE IoSegment ------------------------------
(***************************************************************************)
(* The reference count of a segment of a grn_io that is opened with        *)
(* GRN_IO_EXPIRE_SEGMENT (lib/grn_io.h: grn_io_seg_ref, grn_io_seg_unref;  *)
(* lib/io.c: grn_io_seg_map_, grn_io_seg_expire).                          *)
(*                                                                         *)
(* grn_io_seg_ref adds 1 to nref and keeps it until grn_io_seg_unref.  An  *)
(* expirer that finds nref at 0 adds 1 and then GRN_IO_MAX_REF: from then  *)
(* on a reference that sees a value of at least GRN_IO_MAX_REF backs off.  *)
(* Nobody holds a lock; every addition is one atomic instruction, and      *)
(* info->map is read and written between them.                             *)
(***************************************************************************)
EXTENDS Integers, FiniteSets

CONSTANTS
    Threads,  \* the references: a thread that holds several is several of them
    Expirers, \* the threads that call grn_io_seg_expire
    MaxRef,   \* GRN_IO_MAX_REF: half of the range of nref
    MaxRetry  \* GRN_IO_MAX_RETRY

ASSUME ThreadsAssumption ==
    IsFiniteSet(Threads) /\ IsFiniteSet(Expirers) /\ Threads \cap Expirers = {}
ASSUME MaxRefAssumption ==
    MaxRef \in Nat /\ Cardinality(Threads) + Cardinality(Expirers) < MaxRef
ASSUME MaxRetryAssumption == MaxRetry \in Nat

VARIABLES
    nref,   \* info->nref
    map,    \* info->map: "null", "mapped", or "dangling" after GRN_MUNMAP
    nmaps,  \* io->nmaps
    pc,     \* where each reference and each expirer is
    retry,  \* the retries of each call of grn_io_seg_ref
    astray  \* ghost: the counter was reset by force, or a pointer returned uncounted

vars == <<nref, map, nmaps, pc, retry, astray>>

All == Threads \cup Expirers
RefPc == {"idle", "add", "back_max", "look_first", "look", "back_map", "map",
          "count", "hold", "ret"}
ExpirePc == {"idle", "x_add", "x_back", "x_claim", "x_undo", "x_unmap", "x_clear",
             "x_release", "x_count"}

\* A uint32_t: additions wrap around at twice GRN_IO_MAX_REF.
Word == 2 * MaxRef

Plus(n) == (nref + n) % Word

At(S) == {t \in All : pc[t] \in S}
\* Whose 1, and whose GRN_IO_MAX_REF, is in nref.
CountedPc == {"back_max", "look_first", "look", "back_map", "map", "count", "hold",
              "x_back", "x_claim", "x_undo", "x_unmap", "x_clear", "x_release"}
ClaimingPc == {"x_undo", "x_unmap", "x_clear", "x_release"}
Counted == At(CountedPc)
Claiming == At(ClaimingPc)

Goto(t, p) == pc' = [pc EXCEPT ![t] = p]

Init ==
    /\ nref = 0
    /\ map = "null"
    /\ nmaps = 0
    /\ pc = [t \in All |-> "idle"]
    /\ retry = [t \in All |-> 0]
    /\ astray = FALSE

-----------------------------------------------------------------------------
(***************************************************************************)
(* grn_io_seg_ref and grn_io_seg_unref.                                    *)
(***************************************************************************)
Ref(t) ==
    /\ pc[t] = "idle"
    /\ Goto(t, "add")
    /\ retry' = [retry EXCEPT ![t] = 0]
    /\ UNCHANGED <<nref, map, nmaps, astray>>

\* It adds 1; the old value says whether the segment is being expired.
RefAdd(t) ==
    /\ pc[t] = "add"
    /\ nref' = Plus(1)
    /\ Goto(t, IF nref >= MaxRef THEN "back_max"
               ELSE IF nref = 0 THEN "look_first" ELSE "look")
    /\ UNCHANGED <<map, nmaps, retry, astray>>

TryAgain(t) ==
    /\ Goto(t, "add")
    /\ retry' = [retry EXCEPT ![t] = @ + 1]

\* It takes its 1 back because the segment is being expired; after too many
\* tries it resets the counter by force.
RefBackMax(t) ==
    /\ pc[t] = "back_max"
    /\ \/ /\ retry[t] >= MaxRetry
          /\ nref' = 0 /\ astray' = TRUE
          /\ Goto(t, "ret") /\ UNCHANGED retry
       \/ /\ retry[t] < MaxRetry
          /\ nref' = Plus(Word - 1) /\ UNCHANGED astray
          /\ TryAgain(t)
    /\ UNCHANGED <<map, nmaps>>

\* Mutant: everyone who finds no mapping makes one.
RefLookMapsToo(t) ==
    /\ pc[t] \in {"look_first", "look"}
    /\ Goto(t, IF map # "null" THEN "hold" ELSE "map")
    /\ UNCHANGED <<nref, map, nmaps, retry, astray>>

\* It looks for the mapping; only the first reference may make it.
RefLook(t) ==
    /\ pc[t] \in {"look_first", "look"}
    /\ Goto(t, IF map # "null" THEN "hold"
               ELSE IF pc[t] = "look_first" THEN "map" ELSE "back_map")
    /\ UNCHANGED <<nref, map, nmaps, retry, astray>>

\* It takes its 1 back because another thread is making the mapping; after too
\* many tries it returns.
RefBackMap(t) ==
    /\ pc[t] = "back_map"
    /\ nref' = Plus(Word - 1)
    /\ \/ retry[t] >= MaxRetry /\ Goto(t, "ret") /\ UNCHANGED retry
       \/ retry[t] < MaxRetry /\ TryAgain(t)
    /\ UNCHANGED <<map, nmaps, astray>>

\* grn_io_seg_map_ makes the mapping, or fails and the 1 is taken back.
RefMap(t) ==
    /\ pc[t] = "map"
    /\ \/ map' = "mapped" /\ Goto(t, "count") /\ UNCHANGED nref
       \/ nref' = Plus(Word - 1) /\ Goto(t, "ret") /\ UNCHANGED map
    /\ UNCHANGED <<nmaps, retry, astray>>

\* DO_MAP counts the mapping after other threads may have seen it.
RefCount(t) ==
    /\ pc[t] = "count"
    /\ nmaps' = nmaps + 1
    /\ Goto(t, "hold")
    /\ UNCHANGED <<nref, map, retry, astray>>

\* Without a 1 of its own it returns info->map as it is now: NULL, or a mapping
\* that another thread has made meanwhile and that nothing keeps from expiring.
RefReturn(t) ==
    /\ pc[t] = "ret"
    /\ Goto(t, IF map = "null" THEN "idle" ELSE "hold")
    /\ astray' = (astray \/ map # "null")
    /\ UNCHANGED <<nref, map, nmaps, retry>>

Unref(t) ==
    /\ pc[t] = "hold"
    /\ nref' = Plus(Word - 1)
    /\ Goto(t, "idle")
    /\ UNCHANGED <<map, nmaps, retry, astray>>

-----------------------------------------------------------------------------
(***************************************************************************)
(* grn_io_seg_expire with nretry = 0, as grn_io_expire calls it.           *)
(***************************************************************************)
\* It returns at once when there is no mapping.
Expire(e) ==
    /\ pc[e] = "idle" /\ map # "null"
    /\ Goto(e, "x_add")
    /\ UNCHANGED <<nref, map, nmaps, retry, astray>>

ExpireAdd(e) ==
    /\ pc[e] = "x_add"
    /\ nref' = Plus(1)
    /\ Goto(e, IF nref # 0 THEN "x_back" ELSE "x_claim")
    /\ UNCHANGED <<map, nmaps, retry, astray>>

\* The segment is in use: it takes its 1 back and returns.
ExpireBack(e) ==
    /\ pc[e] = "x_back"
    /\ nref' = Plus(Word - 1)
    /\ Goto(e, "idle")
    /\ UNCHANGED <<map, nmaps, retry, astray>>

\* Mutant: the second look at the counter is left out.
ExpireClaimBlindly(e) ==
    /\ pc[e] = "x_claim"
    /\ nref' = Plus(MaxRef)
    /\ Goto(e, "x_unmap")
    /\ UNCHANGED <<map, nmaps, retry, astray>>

\* It adds GRN_IO_MAX_REF, and looks whether it is still alone.
ExpireClaim(e) ==
    /\ pc[e] = "x_claim"
    /\ nref' = Plus(MaxRef)
    /\ Goto(e, IF nref > 1 THEN "x_undo" ELSE "x_unmap")
    /\ UNCHANGED <<map, nmaps, retry, astray>>

\* Mutant: only GRN_IO_MAX_REF is taken back, not the expirer's own 1.
ExpireUndoHalf(e) ==
    /\ pc[e] = "x_undo"
    /\ nref' = Plus(MaxRef)
    /\ Goto(e, "idle")
    /\ UNCHANGED <<map, nmaps, retry, astray>>

\* Both additions are taken back in one, by overflow.
ExpireUndo(e) ==
    /\ pc[e] = "x_undo"
    /\ nref' = Plus(MaxRef - 1)
    /\ Goto(e, "idle")
    /\ UNCHANGED <<map, nmaps, retry, astray>>

\* Mutant: a mapping that could not be removed is counted as removed.
ExpireUnmapUncounts(e) ==
    /\ pc[e] = "x_unmap"
    /\ \/ map' = (IF map = "null" THEN map ELSE "dangling") /\ Goto(e, "x_clear")
       \/ UNCHANGED map /\ Goto(e, "x_release")
    /\ UNCHANGED <<nref, nmaps, retry, astray>>

\* GRN_MUNMAP, of whatever info->map is then; it may fail.
ExpireUnmap(e) ==
    /\ pc[e] = "x_unmap"
    /\ \/ map' = (IF map = "null" THEN map ELSE "dangling") /\ Goto(e, "x_clear")
       \/ UNCHANGED map /\ Goto(e, "x_undo")
    /\ UNCHANGED <<nref, nmaps, retry, astray>>

ExpireClear(e) ==
    /\ pc[e] = "x_clear"
    /\ map' = "null"
    /\ Goto(e, "x_release")
    /\ UNCHANGED <<nref, nmaps, retry, astray>>

ExpireRelease(e) ==
    /\ pc[e] = "x_release"
    /\ nref' = Plus(MaxRef - 1)
    /\ Goto(e, "x_count")
    /\ UNCHANGED <<map, nmaps, retry, astray>>

ExpireCount(e) ==
    /\ pc[e] = "x_count"
    /\ nmaps' = nmaps - 1
    /\ Goto(e, "idle")
    /\ UNCHANGED <<nref, map, retry, astray>>

-----------------------------------------------------------------------------
Reference(t) ==
    \/ Ref(t) \/ RefAdd(t) \/ RefBackMax(t) \/ RefLook(t) \/ RefBackMap(t)
    \/ RefMap(t) \/ RefCount(t) \/ RefReturn(t) \/ Unref(t)

Expiry(e) ==
    \/ Expire(e) \/ ExpireAdd(e) \/ ExpireBack(e) \/ ExpireClaim(e) \/ ExpireUndo(e)
    \/ ExpireUnmap(e) \/ ExpireClear(e) \/ ExpireRelease(e) \/ ExpireCount(e)

\* Bound: no behaviour is followed beyond the first uncounted reference.
Next ==
    /\ ~astray
    /\ (\E t \in Threads : Reference(t)) \/ (\E e \in Expirers : Expiry(e))

Spec == Init /\ [][Next]_vars

-----------------------------------------------------------------------------
TypeOK ==
    /\ nref \in 0 .. Word - 1
    /\ map \in {"null", "mapped", "dangling"}
    /\ nmaps \in Int
    /\ pc \in [All -> RefPc \cup ExpirePc]
    /\ \A t \in Threads : pc[t] \in RefPc
    /\ \A e \in Expirers : pc[e] \in ExpirePc
    /\ retry \in [All -> Nat]
    /\ astray \in BOOLEAN

\* The pointer grn_io_seg_ref returned stays valid until grn_io_seg_unref: no
\* interleaving with grn_io_seg_expire unmaps a segment that is in use.
RefIsMapped ==
    ~astray => \A t \in Threads : pc[t] \in {"count", "hold"} => map = "mapped"

\* A segment is mapped by one thread at a time and only when it is not mapped:
\* no mapping is overwritten and leaked.
OneMapper ==
    ~astray =>
        /\ \A t \in Threads : pc[t] = "map" => map = "null"
        /\ \A s, t \in Threads : pc[s] = "map" /\ pc[t] = "map" => s = t

\* No increment is lost or left behind: nref is the references in use or in
\* transit, and GRN_IO_MAX_REF while an expirer claims the segment.
NrefCounts ==
    ~astray => nref = Cardinality(Counted) + MaxRef * Cardinality(Claiming)

\* io->nmaps, by which grn_ii_expire decides whether to expire, is the number of
\* mappings but for the threads that are about to count theirs, as long as one
\* thread expires at a time (the index is locked then).
NmapsExact ==
    (~astray /\ Cardinality(Expirers) = 1) =>
        nmaps = (IF map = "null" THEN 0 ELSE 1) - Cardinality(At({"count"}))
                    + Cardinality(At({"x_release", "x_count"}))
=============================================================================
