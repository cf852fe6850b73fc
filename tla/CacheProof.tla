----------------------------- MODULE CacheProof -----------------------------
(***************************************************************************)
(* The query cache returns nothing that is out of date: a proof for any    *)
(* number of keys, selects, changes, limits and seconds.                   *)
(***************************************************************************)
EXTENDS Cache, FiniteSetTheorems, SequenceTheorems, TLAPS

\* Nothing is later than the clock or newer than the newest change.
Clocks ==
    /\ lastModified <= clock /\ done <= version
    /\ \A r \in Readers : tv[r] <= clock /\ start[r] <= done
    /\ \A a \in Actors : stamp[a] <= clock
    /\ \A w \in Writers : result[w] <= version
    /\ \A k \in hash : entry[k].tv <= clock

\* A select has a key while it runs, and only a select is in these places.
Places ==
    /\ \A r \in Readers : pc[r] # "idle" => key[r] \in Keys
    /\ \A w \in Writers : pc[w] \in {"idle", "touch", "stamp"}

\* What a result that saw the first v changes, of a select that began at time t,
\* has against it: every change it has not seen is touched at t or later.
Covered(t, v) ==
    /\ \A w \in Writers : (pc[w] = "stamp" /\ result[w] > v) => stamp[w] >= t
    /\ (done > v /\ ~regressed) => lastModified >= t

ReadersCovered ==
    \A r \in Readers : pc[r] \in {"update", "store"} => Covered(tv[r], result[r])

EntriesCovered ==
    \A k \in hash : Covered(entry[k].tv, entry[k].result)

\* What a select has computed has seen all that had ended when it began.
ResultsFresh ==
    \A r \in Readers :
        (pc[r] \in {"update", "store", "touch", "stamp", "served"} /\ ~regressed) =>
            result[r] >= start[r]

IInv ==
    /\ DatabaseTypeOK /\ ThreadTypeOK /\ EntriesTypeOK
    /\ Clocks /\ Places /\ ReadersCovered /\ EntriesCovered /\ ResultsFresh

-----------------------------------------------------------------------------
LEMMA BeginStep ==
    ASSUME IInv, NEW r \in Readers, NEW k \in Keys, Begin(r, k)
    PROVE  IInv'
<1>1. DatabaseTypeOK'
    BY ActorsAssumption
        DEF IInv, Begin, Goto, DatabaseTypeOK, ThreadTypeOK, Actors, dbVars, cacheVars,
        threadVars
<1>2. ThreadTypeOK'
    BY ActorsAssumption
        DEF IInv, Begin, Goto, ThreadTypeOK, DatabaseTypeOK, EntriesTypeOK, Places,
        Actors, dbVars, cacheVars, threadVars
<1>3. EntriesTypeOK'
    BY ActorsAssumption
        DEF IInv, Begin, Goto, EntriesTypeOK, ThreadTypeOK, NoEntry, Places, Actors,
        dbVars, cacheVars, threadVars
<1>4. Clocks'
    BY ActorsAssumption
        DEF IInv, Begin, Goto, Clocks, DatabaseTypeOK, ThreadTypeOK, Actors, dbVars,
        cacheVars, threadVars
<1>5. Places'
    BY ActorsAssumption
    DEF IInv, Begin, Goto, Places, ThreadTypeOK, Actors, dbVars, cacheVars, threadVars
<1>6. ReadersCovered'
    BY ActorsAssumption
        DEF IInv, Begin, Goto, ReadersCovered, Covered, Clocks, Places, DatabaseTypeOK,
        ThreadTypeOK, Actors, dbVars, cacheVars, threadVars
<1>7. EntriesCovered'
    BY ActorsAssumption
        DEF IInv, Begin, Goto, EntriesCovered, Covered, Clocks, Places, DatabaseTypeOK,
        ThreadTypeOK, EntriesTypeOK, Actors, dbVars, cacheVars, threadVars
<1>8. ResultsFresh'
    BY ActorsAssumption
        DEF IInv, Begin, Goto, ResultsFresh, Clocks, Places, DatabaseTypeOK, ThreadTypeOK,
        Actors, dbVars, cacheVars, threadVars
<1> QED BY <1>1, <1>2, <1>3, <1>4, <1>5, <1>6, <1>7, <1>8 DEF IInv

LEMMA FetchHitStep ==
    ASSUME IInv, NEW r \in Readers, FetchHit(r)
    PROVE  IInv'
<1>1. DatabaseTypeOK'
    BY ActorsAssumption
        DEF IInv, FetchHit, Goto, DatabaseTypeOK, ThreadTypeOK, Actors, dbVars, cacheVars,
        threadVars
<1>2. ThreadTypeOK'
    BY ActorsAssumption
        DEF IInv, FetchHit, Goto, ThreadTypeOK, DatabaseTypeOK, EntriesTypeOK, Places,
        Actors, dbVars, cacheVars, threadVars
<1>3. EntriesTypeOK'
    BY ActorsAssumption
        DEF IInv, FetchHit, Goto, EntriesTypeOK, ThreadTypeOK, NoEntry, Places, Actors,
        dbVars, cacheVars, threadVars
<1>4. Clocks'
    BY ActorsAssumption
        DEF IInv, FetchHit, Goto, Clocks, DatabaseTypeOK, ThreadTypeOK, Actors, dbVars,
        cacheVars, threadVars
<1>5. Places'
    BY ActorsAssumption
    DEF IInv, FetchHit, Goto, Places, ThreadTypeOK, Actors, dbVars, cacheVars, threadVars
<1>6. ReadersCovered'
    BY ActorsAssumption
        DEF IInv, FetchHit, Goto, ReadersCovered, Covered, Clocks, Places, DatabaseTypeOK,
        ThreadTypeOK, Actors, dbVars, cacheVars, threadVars
<1>7. EntriesCovered'
    BY ActorsAssumption
        DEF IInv, FetchHit, Goto, EntriesCovered, Covered, Clocks, Places, DatabaseTypeOK,
        ThreadTypeOK, EntriesTypeOK, Actors, dbVars, cacheVars, threadVars
<1>a. ~regressed => entry[key[r]].result >= start[r]
  <2>1. Covered(entry[key[r]].tv, entry[key[r]].result)
    BY DEF IInv, FetchHit, EntriesCovered
  <2>2. /\ entry[key[r]].tv \in Nat /\ entry[key[r]].result \in Nat
        /\ entry[key[r]].tv > lastModified
    BY DEF IInv, FetchHit, IsFresh, EntriesTypeOK
  <2> QED BY <2>1, <2>2 DEF IInv, Covered, Clocks, DatabaseTypeOK, ThreadTypeOK
<1>8. ResultsFresh'
    BY <1>a DEF IInv, ResultsFresh, FetchHit, Goto, ThreadTypeOK, Actors, dbVars
<1> QED BY <1>1, <1>2, <1>3, <1>4, <1>5, <1>6, <1>7, <1>8 DEF IInv

LEMMA FetchStaleStep ==
    ASSUME IInv, NEW r \in Readers, FetchStale(r)
    PROVE  IInv'
<1>k. /\ hash' \subseteq hash
      /\ entry' \in [Keys -> [tv : Nat, result : Nat]]
      /\ \A k \in hash' : entry'[k] = entry[k]
    BY DEF IInv, FetchStale, ExpireEntry, Kept, EntriesTypeOK, NoEntry
<1>1. DatabaseTypeOK'
    BY DEF IInv, FetchStale, Goto, DatabaseTypeOK, dbVars
<1>2. ThreadTypeOK'
    BY ActorsAssumption
        DEF IInv, FetchStale, ExpireEntry, Kept, Goto, ThreadTypeOK, DatabaseTypeOK,
        EntriesTypeOK, Places, Actors, dbVars, cacheVars, threadVars
<1>3. EntriesTypeOK'
    BY <1>k DEF IInv, EntriesTypeOK
<1>4. Clocks'
    BY <1>k DEF IInv, FetchStale, Goto, Clocks, dbVars, threadVars
<1>5. Places'
    BY ActorsAssumption
        DEF IInv, FetchStale, ExpireEntry, Kept, Goto, Places, ThreadTypeOK, Actors,
        dbVars, cacheVars, threadVars
<1>6. ReadersCovered'
    BY ActorsAssumption
        DEF IInv, FetchStale, ExpireEntry, Kept, Goto, ReadersCovered, Covered, Clocks,
        Places, DatabaseTypeOK, ThreadTypeOK, Actors, dbVars, cacheVars, threadVars
<1>7. EntriesCovered'
        BY <1>k, ActorsAssumption DEF IInv, FetchStale, Goto, EntriesCovered, Covered,
        Places, ThreadTypeOK, Actors, dbVars, threadVars
<1>8. ResultsFresh'
    BY ActorsAssumption
        DEF IInv, FetchStale, ExpireEntry, Kept, Goto, ResultsFresh, Clocks, Places,
        DatabaseTypeOK, ThreadTypeOK, Actors, dbVars, cacheVars, threadVars
<1> QED BY <1>1, <1>2, <1>3, <1>4, <1>5, <1>6, <1>7, <1>8 DEF IInv

LEMMA FetchMissStep ==
    ASSUME IInv, NEW r \in Readers, FetchMiss(r)
    PROVE  IInv'
<1>1. DatabaseTypeOK'
    BY ActorsAssumption
        DEF IInv, FetchMiss, Goto, DatabaseTypeOK, ThreadTypeOK, Actors, dbVars,
        cacheVars, threadVars
<1>2. ThreadTypeOK'
    BY ActorsAssumption
        DEF IInv, FetchMiss, Goto, ThreadTypeOK, DatabaseTypeOK, EntriesTypeOK, Places,
        Actors, dbVars, cacheVars, threadVars
<1>3. EntriesTypeOK'
    BY ActorsAssumption
        DEF IInv, FetchMiss, Goto, EntriesTypeOK, ThreadTypeOK, NoEntry, Places, Actors,
        dbVars, cacheVars, threadVars
<1>4. Clocks'
    BY ActorsAssumption
        DEF IInv, FetchMiss, Goto, Clocks, DatabaseTypeOK, ThreadTypeOK, Actors, dbVars,
        cacheVars, threadVars
<1>5. Places'
    BY ActorsAssumption
    DEF IInv, FetchMiss, Goto, Places, ThreadTypeOK, Actors, dbVars, cacheVars, threadVars
<1>6. ReadersCovered'
    BY ActorsAssumption
        DEF IInv, FetchMiss, Goto, ReadersCovered, Covered, Clocks, Places,
        DatabaseTypeOK, ThreadTypeOK, Actors, dbVars, cacheVars, threadVars
<1>7. EntriesCovered'
    BY ActorsAssumption
        DEF IInv, FetchMiss, Goto, EntriesCovered, Covered, Clocks, Places,
        DatabaseTypeOK, ThreadTypeOK, EntriesTypeOK, Actors, dbVars, cacheVars, threadVars
<1>8. ResultsFresh'
    BY ActorsAssumption
        DEF IInv, FetchMiss, Goto, ResultsFresh, Clocks, Places, DatabaseTypeOK,
        ThreadTypeOK, Actors, dbVars, cacheVars, threadVars
<1> QED BY <1>1, <1>2, <1>3, <1>4, <1>5, <1>6, <1>7, <1>8 DEF IInv

LEMMA ComputeStep ==
    ASSUME IInv, NEW r \in Readers, Compute(r)
    PROVE  IInv'
<1>1. DatabaseTypeOK'
    BY ActorsAssumption
        DEF IInv, Compute, Goto, DatabaseTypeOK, ThreadTypeOK, Actors, dbVars, cacheVars,
        threadVars
<1>2. ThreadTypeOK'
    BY ActorsAssumption
        DEF IInv, Compute, Goto, ThreadTypeOK, DatabaseTypeOK, EntriesTypeOK, Places,
        Actors, dbVars, cacheVars, threadVars
<1>3. EntriesTypeOK'
    BY ActorsAssumption
        DEF IInv, Compute, Goto, EntriesTypeOK, ThreadTypeOK, NoEntry, Places, Actors,
        dbVars, cacheVars, threadVars
<1>4. Clocks'
    BY ActorsAssumption
        DEF IInv, Compute, Goto, Clocks, DatabaseTypeOK, ThreadTypeOK, Actors, dbVars,
        cacheVars, threadVars
<1>5. Places'
    BY ActorsAssumption
    DEF IInv, Compute, Goto, Places, ThreadTypeOK, Actors, dbVars, cacheVars, threadVars
<1>6. ReadersCovered'
    BY ActorsAssumption
        DEF IInv, Compute, Goto, ReadersCovered, Covered, Clocks, Places, DatabaseTypeOK,
        ThreadTypeOK, Actors, dbVars, cacheVars, threadVars
<1>7. EntriesCovered'
    BY ActorsAssumption
        DEF IInv, Compute, Goto, EntriesCovered, Covered, Clocks, Places, DatabaseTypeOK,
        ThreadTypeOK, EntriesTypeOK, Actors, dbVars, cacheVars, threadVars
<1>8. ResultsFresh'
    BY ActorsAssumption
        DEF IInv, Compute, Goto, ResultsFresh, Clocks, Places, DatabaseTypeOK,
        ThreadTypeOK, Actors, dbVars, cacheVars, threadVars
<1> QED BY <1>1, <1>2, <1>3, <1>4, <1>5, <1>6, <1>7, <1>8 DEF IInv

LEMMA UpdateSkippedStep ==
    ASSUME IInv, NEW r \in Readers, UpdateSkipped(r)
    PROVE  IInv'
<1>1. DatabaseTypeOK'
    BY ActorsAssumption
        DEF IInv, UpdateSkipped, Goto, DatabaseTypeOK, ThreadTypeOK, Actors, dbVars,
        cacheVars, threadVars
<1>2. ThreadTypeOK'
    BY ActorsAssumption
        DEF IInv, UpdateSkipped, Goto, ThreadTypeOK, DatabaseTypeOK, EntriesTypeOK,
        Places, Actors, dbVars, cacheVars, threadVars
<1>3. EntriesTypeOK'
    BY ActorsAssumption
        DEF IInv, UpdateSkipped, Goto, EntriesTypeOK, ThreadTypeOK, NoEntry, Places,
        Actors, dbVars, cacheVars, threadVars
<1>4. Clocks'
    BY ActorsAssumption
        DEF IInv, UpdateSkipped, Goto, Clocks, DatabaseTypeOK, ThreadTypeOK, Actors,
        dbVars, cacheVars, threadVars
<1>5. Places'
    BY ActorsAssumption
        DEF IInv, UpdateSkipped, Goto, Places, ThreadTypeOK, Actors, dbVars, cacheVars,
        threadVars
<1>6. ReadersCovered'
    BY ActorsAssumption
        DEF IInv, UpdateSkipped, Goto, ReadersCovered, Covered, Clocks, Places,
        DatabaseTypeOK, ThreadTypeOK, Actors, dbVars, cacheVars, threadVars
<1>7. EntriesCovered'
    BY ActorsAssumption
        DEF IInv, UpdateSkipped, Goto, EntriesCovered, Covered, Clocks, Places,
        DatabaseTypeOK, ThreadTypeOK, EntriesTypeOK, Actors, dbVars, cacheVars, threadVars
<1>8. ResultsFresh'
    BY ActorsAssumption
        DEF IInv, UpdateSkipped, Goto, ResultsFresh, Clocks, Places, DatabaseTypeOK,
        ThreadTypeOK, Actors, dbVars, cacheVars, threadVars
<1> QED BY <1>1, <1>2, <1>3, <1>4, <1>5, <1>6, <1>7, <1>8 DEF IInv

LEMMA UpdateBeginsStep ==
    ASSUME IInv, NEW r \in Readers, UpdateBegins(r)
    PROVE  IInv'
<1>1. DatabaseTypeOK'
    BY ActorsAssumption
        DEF IInv, UpdateBegins, Goto, DatabaseTypeOK, ThreadTypeOK, Actors, dbVars,
        cacheVars, threadVars
<1>2. ThreadTypeOK'
    BY ActorsAssumption
        DEF IInv, UpdateBegins, Goto, ThreadTypeOK, DatabaseTypeOK, EntriesTypeOK, Places,
        Actors, dbVars, cacheVars, threadVars
<1>3. EntriesTypeOK'
    BY ActorsAssumption
        DEF IInv, UpdateBegins, Goto, EntriesTypeOK, ThreadTypeOK, NoEntry, Places,
        Actors, dbVars, cacheVars, threadVars
<1>4. Clocks'
    BY ActorsAssumption
        DEF IInv, UpdateBegins, Goto, Clocks, DatabaseTypeOK, ThreadTypeOK, Actors,
        dbVars, cacheVars, threadVars
<1>5. Places'
    BY ActorsAssumption
        DEF IInv, UpdateBegins, Goto, Places, ThreadTypeOK, Actors, dbVars, cacheVars,
        threadVars
<1>6. ReadersCovered'
    BY ActorsAssumption
        DEF IInv, UpdateBegins, Goto, ReadersCovered, Covered, Clocks, Places,
        DatabaseTypeOK, ThreadTypeOK, Actors, dbVars, cacheVars, threadVars
<1>7. EntriesCovered'
    BY ActorsAssumption
        DEF IInv, UpdateBegins, Goto, EntriesCovered, Covered, Clocks, Places,
        DatabaseTypeOK, ThreadTypeOK, EntriesTypeOK, Actors, dbVars, cacheVars, threadVars
<1>8. ResultsFresh'
    BY ActorsAssumption
        DEF IInv, UpdateBegins, Goto, ResultsFresh, Clocks, Places, DatabaseTypeOK,
        ThreadTypeOK, Actors, dbVars, cacheVars, threadVars
<1> QED BY <1>1, <1>2, <1>3, <1>4, <1>5, <1>6, <1>7, <1>8 DEF IInv

LEMMA UpdateStoreStep ==
    ASSUME IInv, NEW r \in Readers, UpdateStore(r)
    PROVE  IInv'
<1> DEFINE new == [tv |-> tv[r], result |-> result[r]]
<1>a. key[r] \in Keys /\ new \in [tv : Nat, result : Nat]
    BY DEF IInv, UpdateStore, Places, ThreadTypeOK, Actors
<1>k. /\ hash' \subseteq Keys
      /\ entry' \in [Keys -> [tv : Nat, result : Nat]]
      /\ \A k \in hash' : (k \in hash /\ entry'[k] = entry[k]) \/ entry'[k] = new
  <2>1. CASE persistent /\ max = 0
    BY <2>1 DEF IInv, UpdateStore, EntriesTypeOK
  <2>2. CASE ~(persistent /\ max = 0)
    <3>1. PICK ks \in SUBSET (hash \cup {key[r]}) :
            hash' = ks /\ entry' = Kept([entry EXCEPT ![key[r]] = new], ks)
      BY <2>2 DEF UpdateStore
    <3> QED BY <1>a, <3>1 DEF IInv, Kept, EntriesTypeOK, NoEntry
  <2> QED BY <2>1, <2>2
<1>1. DatabaseTypeOK'
    BY DEF IInv, UpdateStore, DatabaseTypeOK, dbVars
<1>2. ThreadTypeOK'
    BY ActorsAssumption
        DEF IInv, UpdateStore, Goto, ThreadTypeOK, DatabaseTypeOK, EntriesTypeOK, Places,
        Actors, dbVars, cacheVars, threadVars
<1>3. EntriesTypeOK'
    BY <1>k DEF EntriesTypeOK
<1>4. Clocks'
    BY <1>k DEF IInv, UpdateStore, Clocks, ThreadTypeOK, Actors, dbVars
<1>5. Places'
    BY ActorsAssumption
    DEF IInv, UpdateStore, Goto, Places, ThreadTypeOK, Actors, dbVars, cacheVars, threadVars
<1>6. ReadersCovered'
    BY ActorsAssumption
        DEF IInv, UpdateStore, Goto, ReadersCovered, Covered, Clocks, Places,
        DatabaseTypeOK, ThreadTypeOK, Actors, dbVars, cacheVars, threadVars
<1>7. EntriesCovered'
  <2>1. Covered(tv[r], result[r])
    BY DEF IInv, UpdateStore, ReadersCovered
  <2>2. \A w \in Writers : pc'[w] = pc[w]
    <3>1. Goto(r, "served") \/ Goto(r, "touch")
      BY DEF UpdateStore
    <3> QED BY <3>1, ActorsAssumption DEF IInv, Goto, ThreadTypeOK, Actors
  <2>3. UNCHANGED <<done, regressed, lastModified, result, stamp>>
    BY DEF UpdateStore, dbVars
  <2> SUFFICES ASSUME NEW k \in hash'
               PROVE  Covered(entry[k].tv, entry[k].result)'
    BY DEF EntriesCovered
  <2>4. CASE k \in hash /\ entry'[k] = entry[k]
    <3>1. Covered(entry[k].tv, entry[k].result)
      BY <2>4 DEF IInv, EntriesCovered
    <3> QED BY <3>1, <2>2, <2>3, <2>4 DEF Covered
  <2>5. CASE entry'[k] = new
    BY <2>1, <2>2, <2>3, <2>5 DEF Covered
  <2> QED BY <1>k, <2>4, <2>5
<1>8. ResultsFresh'
    BY ActorsAssumption
        DEF IInv, UpdateStore, Goto, ResultsFresh, Clocks, Places, DatabaseTypeOK,
        ThreadTypeOK, Actors, dbVars, cacheVars, threadVars
<1> QED BY <1>1, <1>2, <1>3, <1>4, <1>5, <1>6, <1>7, <1>8 DEF IInv

LEMMA EndStep ==
    ASSUME IInv, NEW r \in Readers, End(r)
    PROVE  IInv'
<1>1. DatabaseTypeOK'
    BY ActorsAssumption
    DEF IInv, End, Goto, DatabaseTypeOK, ThreadTypeOK, Actors, dbVars, cacheVars, threadVars
<1>2. ThreadTypeOK'
    BY ActorsAssumption
        DEF IInv, End, Goto, ThreadTypeOK, DatabaseTypeOK, EntriesTypeOK, Places, Actors,
        dbVars, cacheVars, threadVars
<1>3. EntriesTypeOK'
    BY ActorsAssumption
        DEF IInv, End, Goto, EntriesTypeOK, ThreadTypeOK, NoEntry, Places, Actors, dbVars,
        cacheVars, threadVars
<1>4. Clocks'
    BY ActorsAssumption
        DEF IInv, End, Goto, Clocks, DatabaseTypeOK, ThreadTypeOK, Actors, dbVars,
        cacheVars, threadVars
<1>5. Places'
    BY ActorsAssumption
    DEF IInv, End, Goto, Places, ThreadTypeOK, Actors, dbVars, cacheVars, threadVars
<1>6. ReadersCovered'
    BY ActorsAssumption
        DEF IInv, End, Goto, ReadersCovered, Covered, Clocks, Places, DatabaseTypeOK,
        ThreadTypeOK, Actors, dbVars, cacheVars, threadVars
<1>7. EntriesCovered'
    BY ActorsAssumption
        DEF IInv, End, Goto, EntriesCovered, Covered, Clocks, Places, DatabaseTypeOK,
        ThreadTypeOK, EntriesTypeOK, Actors, dbVars, cacheVars, threadVars
<1>8. ResultsFresh'
    BY ActorsAssumption
        DEF IInv, End, Goto, ResultsFresh, Clocks, Places, DatabaseTypeOK, ThreadTypeOK,
        Actors, dbVars, cacheVars, threadVars
<1> QED BY <1>1, <1>2, <1>3, <1>4, <1>5, <1>6, <1>7, <1>8 DEF IInv

LEMMA ChangeStep ==
    ASSUME IInv, NEW w \in Writers, Change(w)
    PROVE  IInv'
<1>1. DatabaseTypeOK'
    BY ActorsAssumption
        DEF IInv, Change, Goto, DatabaseTypeOK, ThreadTypeOK, Actors, dbVars, cacheVars,
        threadVars
<1>2. ThreadTypeOK'
    BY ActorsAssumption
        DEF IInv, Change, Goto, ThreadTypeOK, DatabaseTypeOK, EntriesTypeOK, Places,
        Actors, dbVars, cacheVars, threadVars
<1>3. EntriesTypeOK'
    BY ActorsAssumption
        DEF IInv, Change, Goto, EntriesTypeOK, ThreadTypeOK, NoEntry, Places, Actors,
        dbVars, cacheVars, threadVars
<1>4. Clocks'
    BY ActorsAssumption
        DEF IInv, Change, Goto, Clocks, DatabaseTypeOK, ThreadTypeOK, Actors, dbVars,
        cacheVars, threadVars
<1>5. Places'
    BY ActorsAssumption
    DEF IInv, Change, Goto, Places, ThreadTypeOK, Actors, dbVars, cacheVars, threadVars
<1>6. ReadersCovered'
    BY ActorsAssumption
        DEF IInv, Change, Goto, ReadersCovered, Covered, Clocks, Places, DatabaseTypeOK,
        ThreadTypeOK, Actors, dbVars, cacheVars, threadVars
<1>7. EntriesCovered'
    BY ActorsAssumption
        DEF IInv, Change, Goto, EntriesCovered, Covered, Clocks, Places, DatabaseTypeOK,
        ThreadTypeOK, EntriesTypeOK, Actors, dbVars, cacheVars, threadVars
<1>8. ResultsFresh'
    BY ActorsAssumption
        DEF IInv, Change, Goto, ResultsFresh, Clocks, Places, DatabaseTypeOK,
        ThreadTypeOK, Actors, dbVars, cacheVars, threadVars
<1> QED BY <1>1, <1>2, <1>3, <1>4, <1>5, <1>6, <1>7, <1>8 DEF IInv

LEMMA TouchReadStep ==
    ASSUME IInv, NEW a \in Actors, TouchRead(a)
    PROVE  IInv'
<1>1. DatabaseTypeOK'
    BY ActorsAssumption
        DEF IInv, TouchRead, Goto, DatabaseTypeOK, ThreadTypeOK, Actors, dbVars,
        cacheVars, threadVars
<1>2. ThreadTypeOK'
    BY ActorsAssumption
        DEF IInv, TouchRead, Goto, ThreadTypeOK, DatabaseTypeOK, EntriesTypeOK, Places,
        Actors, dbVars, cacheVars, threadVars
<1>3. EntriesTypeOK'
    BY ActorsAssumption
        DEF IInv, TouchRead, Goto, EntriesTypeOK, ThreadTypeOK, NoEntry, Places, Actors,
        dbVars, cacheVars, threadVars
<1>4. Clocks'
    BY ActorsAssumption
        DEF IInv, TouchRead, Goto, Clocks, DatabaseTypeOK, ThreadTypeOK, Actors, dbVars,
        cacheVars, threadVars
<1>5. Places'
    BY ActorsAssumption
    DEF IInv, TouchRead, Goto, Places, ThreadTypeOK, Actors, dbVars, cacheVars, threadVars
<1>6. ReadersCovered'
    BY ActorsAssumption
        DEF IInv, TouchRead, Goto, ReadersCovered, Covered, Clocks, Places,
        DatabaseTypeOK, ThreadTypeOK, Actors, dbVars, cacheVars, threadVars
<1>7. EntriesCovered'
    BY ActorsAssumption
        DEF IInv, TouchRead, Goto, EntriesCovered, Covered, Clocks, Places,
        DatabaseTypeOK, ThreadTypeOK, EntriesTypeOK, Actors, dbVars, cacheVars
<1>8. ResultsFresh'
    BY ActorsAssumption
        DEF IInv, TouchRead, Goto, ResultsFresh, Clocks, Places, DatabaseTypeOK,
        ThreadTypeOK, Actors, dbVars, cacheVars, threadVars
<1> QED BY <1>1, <1>2, <1>3, <1>4, <1>5, <1>6, <1>7, <1>8 DEF IInv

LEMMA TouchWriteStep ==
    ASSUME IInv, NEW a \in Actors, TouchWrite(a)
    PROVE  IInv'
<1>1. DatabaseTypeOK'
    BY ActorsAssumption
        DEF IInv, TouchWrite, Goto, DatabaseTypeOK, ThreadTypeOK, Actors, dbVars,
        cacheVars, threadVars
<1>2. ThreadTypeOK'
  <2>1. pc' \in [Actors -> {"idle", "fetch", "compute", "update", "store", "served",
                           "touch", "stamp"}]
    BY DEF IInv, TouchWrite, Goto, ThreadTypeOK
  <2>2. stamp' \in [Actors -> Nat]
    BY DEF IInv, TouchWrite, ThreadTypeOK
  <2>3. result' \in [Actors -> Nat]
    BY DEF IInv, TouchWrite, ThreadTypeOK
  <2>4. UNCHANGED <<key, tv, start>>
    BY DEF TouchWrite
  <2> QED
    BY <2>1, <2>2, <2>3, <2>4 DEF IInv, ThreadTypeOK
<1>3. EntriesTypeOK'
    BY ActorsAssumption
        DEF IInv, TouchWrite, Goto, EntriesTypeOK, ThreadTypeOK, NoEntry, Places, Actors,
        dbVars, cacheVars, threadVars
<1>4. Clocks'
    BY ActorsAssumption
        DEF IInv, TouchWrite, Goto, Clocks, DatabaseTypeOK, ThreadTypeOK, Actors, dbVars,
        cacheVars, threadVars
<1>5. Places'
    BY ActorsAssumption
    DEF IInv, TouchWrite, Goto, Places, ThreadTypeOK, Actors, dbVars, cacheVars, threadVars
<1>a. \A t, v \in Nat : Covered(t, v) =>
        /\ \A w \in Writers : (pc'[w] = "stamp" /\ result'[w] > v) => stamp'[w] >= t
        /\ (done' > v /\ ~regressed') => lastModified' >= t
  <2> SUFFICES ASSUME NEW t \in Nat, NEW v \in Nat, Covered(t, v)
               PROVE  /\ \A w \in Writers :
                            (pc'[w] = "stamp" /\ result'[w] > v) => stamp'[w] >= t
                      /\ (done' > v /\ ~regressed') => lastModified' >= t
    OBVIOUS
  <2>1. \A w \in Writers : (pc'[w] = "stamp" /\ result'[w] > v) => stamp'[w] >= t
    BY ActorsAssumption
    DEF IInv, TouchWrite, Goto, Covered, DatabaseTypeOK, ThreadTypeOK, Actors
  <2>2. (done' > v /\ ~regressed') => lastModified' >= t
    <3>1. ~regressed' => ~regressed /\ ~(stamp[a] < lastModified)
      BY Zenon DEF TouchWrite
    <3>2. /\ lastModified' = stamp[a] /\ pc[a] = "stamp"
          /\ done' = done \/ (a \in Writers /\ done' = result[a])
      BY DEF TouchWrite
    <3> QED BY <3>1, <3>2 DEF IInv, Covered, DatabaseTypeOK, ThreadTypeOK, Actors
  <2> QED BY <2>1, <2>2
<1>6. ReadersCovered'
  <2> SUFFICES ASSUME NEW q \in Readers, pc'[q] \in {"update", "store"}
               PROVE  Covered(tv[q], result[q])'
    BY DEF ReadersCovered
  <2>1. pc[q] = pc'[q] /\ tv'[q] = tv[q] /\ result'[q] = result[q]
        /\ tv[q] \in Nat /\ result[q] \in Nat
    BY ActorsAssumption DEF IInv, TouchWrite, Goto, ThreadTypeOK, Actors
  <2>2. Covered(tv[q], result[q])
    BY <2>1 DEF IInv, ReadersCovered
  <2> QED BY <1>a, <2>1, <2>2 DEF Covered
<1>7. EntriesCovered'
  <2> SUFFICES ASSUME NEW k \in hash
               PROVE  Covered(entry[k].tv, entry[k].result)'
    BY DEF EntriesCovered, TouchWrite, cacheVars
  <2>1. entry[k].tv \in Nat /\ entry[k].result \in Nat /\ entry' = entry
        /\ Covered(entry[k].tv, entry[k].result)
    BY DEF IInv, EntriesTypeOK, EntriesCovered, TouchWrite, cacheVars
  <2> QED BY <1>a, <2>1 DEF Covered
<1>8. ResultsFresh'
    BY ActorsAssumption
        DEF IInv, TouchWrite, Goto, ResultsFresh, Clocks, Places, DatabaseTypeOK,
        ThreadTypeOK, Actors, dbVars, cacheVars, threadVars
<1> QED BY <1>1, <1>2, <1>3, <1>4, <1>5, <1>6, <1>7, <1>8 DEF IInv

LEMMA SetLimitStep ==
    ASSUME IInv, NEW n \in Limits, SetLimit(n)
    PROVE  IInv'
<1>k. /\ hash' \subseteq hash
      /\ entry' \in [Keys -> [tv : Nat, result : Nat]]
      /\ \A k \in hash' : entry'[k] = entry[k]
  <2>1. CASE n < max
    <3>1. PICK ks \in SUBSET hash : hash' = ks /\ entry' = Kept(entry, ks)
      BY <2>1 DEF SetLimit, ExpireTail
    <3> QED BY <3>1 DEF IInv, Kept, EntriesTypeOK, NoEntry
  <2>2. CASE ~(n < max)
    BY <2>2 DEF IInv, SetLimit, EntriesTypeOK
  <2> QED BY <2>1, <2>2
<1>1. DatabaseTypeOK'
    BY DEF IInv, SetLimit, DatabaseTypeOK, dbVars
<1>2. ThreadTypeOK'
    BY ActorsAssumption
        DEF IInv, SetLimit, ThreadTypeOK, DatabaseTypeOK, EntriesTypeOK, Places, Actors,
        dbVars, cacheVars, threadVars
<1>3. EntriesTypeOK'
    BY <1>k DEF IInv, EntriesTypeOK
<1>4. Clocks'
    BY <1>k DEF IInv, SetLimit, Clocks, dbVars, threadVars
<1>5. Places'
    BY ActorsAssumption
    DEF IInv, SetLimit, Places, ThreadTypeOK, Actors, dbVars, cacheVars, threadVars
<1>6. ReadersCovered'
    BY ActorsAssumption
        DEF IInv, SetLimit, ReadersCovered, Covered, Clocks, Places, DatabaseTypeOK,
        ThreadTypeOK, Actors, dbVars, cacheVars, threadVars
<1>7. EntriesCovered'
        BY <1>k, ActorsAssumption DEF IInv, SetLimit, EntriesCovered, Covered, Places,
        ThreadTypeOK, Actors, dbVars, threadVars
<1>8. ResultsFresh'
    BY ActorsAssumption
        DEF IInv, SetLimit, ResultsFresh, Clocks, Places, DatabaseTypeOK, ThreadTypeOK,
        Actors, dbVars, cacheVars, threadVars
<1> QED BY <1>1, <1>2, <1>3, <1>4, <1>5, <1>6, <1>7, <1>8 DEF IInv

LEMMA TickStep ==
    ASSUME IInv, Tick
    PROVE  IInv'
<1>1. DatabaseTypeOK'
    BY ActorsAssumption
    DEF IInv, Tick, DatabaseTypeOK, ThreadTypeOK, Actors, dbVars, cacheVars, threadVars
<1>2. ThreadTypeOK'
    BY ActorsAssumption
        DEF IInv, Tick, ThreadTypeOK, DatabaseTypeOK, EntriesTypeOK, Places, Actors,
        dbVars, cacheVars, threadVars
<1>3. EntriesTypeOK'
    BY ActorsAssumption
        DEF IInv, Tick, EntriesTypeOK, ThreadTypeOK, NoEntry, Places, Actors, dbVars,
        cacheVars, threadVars
<1>4. Clocks'
    BY ActorsAssumption
        DEF IInv, Tick, Clocks, DatabaseTypeOK, ThreadTypeOK, EntriesTypeOK, Actors,
        cacheVars, threadVars
<1>5. Places'
    BY ActorsAssumption
    DEF IInv, Tick, Places, ThreadTypeOK, Actors, dbVars, cacheVars, threadVars
<1>6. ReadersCovered'
    BY ActorsAssumption
        DEF IInv, Tick, ReadersCovered, Covered, Clocks, Places, DatabaseTypeOK,
        ThreadTypeOK, Actors, dbVars, cacheVars, threadVars
<1>7. EntriesCovered'
    BY ActorsAssumption
        DEF IInv, Tick, EntriesCovered, Covered, Clocks, Places, DatabaseTypeOK,
        ThreadTypeOK, EntriesTypeOK, Actors, dbVars, cacheVars, threadVars
<1>8. ResultsFresh'
    BY ActorsAssumption
        DEF IInv, Tick, ResultsFresh, Clocks, Places, DatabaseTypeOK, ThreadTypeOK,
        Actors, dbVars, cacheVars, threadVars
<1> QED BY <1>1, <1>2, <1>3, <1>4, <1>5, <1>6, <1>7, <1>8 DEF IInv

LEMMA StutterStep ==
    ASSUME IInv, UNCHANGED vars
    PROVE  IInv'
BY DEF IInv, vars, dbVars, cacheVars, threadVars, DatabaseTypeOK, ThreadTypeOK,
    EntriesTypeOK,
       Clocks, Places, ReadersCovered, EntriesCovered, Covered, ResultsFresh

LEMMA InitIInv == Init => IInv
<1> SUFFICES ASSUME Init PROVE IInv OBVIOUS
<1>1. DatabaseTypeOK
    BY DEF Init, DatabaseTypeOK
<1>2. ThreadTypeOK
    BY DEF Init, ThreadTypeOK
<1>3. EntriesTypeOK
    BY DEF Init, EntriesTypeOK, NoEntry
<1>4. Clocks /\ Places
    BY DEF Init, Clocks, Places, Actors
<1>5. ReadersCovered /\ EntriesCovered /\ ResultsFresh
    BY DEF Init, ReadersCovered, EntriesCovered, ResultsFresh, Actors
<1> QED BY <1>1, <1>2, <1>3, <1>4, <1>5 DEF IInv

LEMMA NextIInv == IInv /\ [Next]_vars => IInv'
<1> SUFFICES ASSUME IInv, [Next]_vars PROVE IInv' OBVIOUS
<1>1. ASSUME NEW r \in Readers, Reader(r) PROVE IInv'
    BY <1>1, BeginStep, FetchHitStep, FetchStaleStep, FetchMissStep, ComputeStep,
       UpdateSkippedStep, UpdateBeginsStep, UpdateStoreStep, EndStep DEF Reader
<1>2. ASSUME NEW w \in Writers, Change(w) PROVE IInv'
    BY <1>2, ChangeStep
<1>3. ASSUME NEW a \in Actors, TouchRead(a) \/ TouchWrite(a) PROVE IInv'
    BY <1>3, TouchReadStep, TouchWriteStep
<1>4. ASSUME NEW n \in Limits, SetLimit(n) PROVE IInv'
    BY <1>4, SetLimitStep
<1>5. CASE Tick
    BY <1>5, TickStep
<1>6. CASE UNCHANGED vars
    BY <1>6, StutterStep
<1> QED BY <1>1, <1>2, <1>3, <1>4, <1>5, <1>6 DEF Next

\* What the cache returns has seen every change that had ended when the select
\* began (grn_cache_fetch against grn_obj_touch), unless two touches have
\* passed each other.
THEOREM HitsAreFresh == Spec => []FreshHit
<1>1. IInv => FreshHit
    BY DEF IInv, ResultsFresh, FreshHit
<1> QED BY <1>1, InitIInv, NextIInv, PTL DEF Spec

-----------------------------------------------------------------------------
(***************************************************************************)
(* The list.                                                               *)
(***************************************************************************)
Distinct(l) == \A i, j \in 1..Len(l) : l[i] = l[j] => i = j

\* A list without repetitions is as long as the set of its members.
LEMMA DistinctLength ==
    ASSUME NEW S, NEW l \in Seq(S), Distinct(l)
    PROVE  IsFiniteSet(Members(l)) /\ Cardinality(Members(l)) = Len(l)
  <1>1. Len(l) \in Nat /\ l \in [1..Len(l) -> S]
    OBVIOUS
  <1>2. l \in [1..Len(l) -> Members(l)]
    BY <1>1 DEF Members
  <1>3. l \in Injection(1..Len(l), Members(l))
    BY <1>2 DEF Injection, IsInjective, Distinct
  <1>4. l \in Surjection(1..Len(l), Members(l))
    BY <1>2 DEF Surjection, Members
  <1>5. ExistsBijection(1..Len(l), Members(l))
    BY <1>3, <1>4 DEF ExistsBijection, Bijection
  <1> QED
    BY <1>1, <1>5, FS_CountingElements, FS_NatBijection

\* Taking a node out.
LEMMA WithoutIs ==
    ASSUME NEW S, NEW l \in Seq(S), Distinct(l), NEW i \in 1..Len(l)
    PROVE  /\ Without(l, l[i]) \in Seq(S)
           /\ Len(Without(l, l[i])) = Len(l) - 1
           /\ \A j \in 1..(Len(l) - 1) :
                Without(l, l[i])[j] = IF j < i THEN l[j] ELSE l[j + 1]
  <1> DEFINE a == SubSeq(l, 1, i - 1)
             b == SubSeq(l, i + 1, Len(l))
  <1>0. Len(l) \in Nat /\ i \in Int /\ 1 <= i /\ i <= Len(l)
    OBVIOUS
  <1>1. Without(l, l[i]) = a \o b
    <2>1. l[i] \in Members(l)
      BY DEF Members
    <2>2. (CHOOSE j \in 1..Len(l) : l[j] = l[i]) = i
      BY DEF Distinct
    <2> QED
      BY <2>1, <2>2 DEF Without
  <1>2. /\ a \in Seq(S) /\ Len(a) = i - 1
        /\ \A j \in 1..(i - 1) : a[j] = l[j]
    <2>1. \A j \in 1..(i - 1) : l[j] \in S
      BY <1>0
    <2>2. /\ a \in Seq(S)
          /\ Len(a) = (IF 1 <= i - 1 THEN i - 1 - 1 + 1 ELSE 0)
          /\ \A j \in 1..(i - 1 - 1 + 1) : a[j] = l[1 + j - 1]
      BY <1>0, <2>1, SubSeqProperties
    <2> HIDE DEF a
    <2> QED
      BY <1>0, <2>2
  <1>3. /\ b \in Seq(S) /\ Len(b) = Len(l) - i
        /\ \A j \in 1..(Len(l) - i) : b[j] = l[i + j]
    <2>1. \A j \in (i + 1)..Len(l) : l[j] \in S
      BY <1>0
    <2>2. /\ b \in Seq(S)
          /\ Len(b) = (IF i + 1 <= Len(l) THEN Len(l) - (i + 1) + 1 ELSE 0)
          /\ \A j \in 1..(Len(l) - (i + 1) + 1) : b[j] = l[(i + 1) + j - 1]
      BY <1>0, <2>1, SubSeqProperties
    <2> HIDE DEF b
    <2>3. Len(b) = Len(l) - i
      BY <1>0, <2>2
    <2>4. ASSUME NEW j \in 1..(Len(l) - i) PROVE b[j] = l[i + j]
      <3>1. j \in 1..(Len(l) - (i + 1) + 1) /\ (i + 1) + j - 1 = i + j
        BY <1>0
      <3> QED
        BY <2>2, <3>1
    <2> QED
      BY <2>2, <2>3, <2>4
  <1> HIDE DEF a, b
  <1>4. /\ a \o b \in Seq(S) /\ Len(a \o b) = Len(a) + Len(b)
        /\ \A j \in 1..(Len(a) + Len(b)) :
                (a \o b)[j] = IF j <= Len(a) THEN a[j] ELSE b[j - Len(a)]
    BY <1>2, <1>3, ConcatProperties
  <1>5. Len(a) + Len(b) = Len(l) - 1
    BY <1>0, <1>2, <1>3
  <1>6. ASSUME NEW j \in 1..(Len(l) - 1)
        PROVE  (a \o b)[j] = IF j < i THEN l[j] ELSE l[j + 1]
    <2>1. CASE j < i
      BY <1>0, <1>2, <1>4, <1>5, <2>1
    <2>2. CASE j >= i
      <3>1. j - Len(a) \in 1..(Len(l) - i) /\ i + (j - Len(a)) = j + 1 /\ ~(j <= Len(a))
        BY <1>0, <1>2, <2>2
      <3> QED
        BY <1>0, <1>3, <1>4, <1>5, <2>2, <3>1
    <2>3. j < i \/ j >= i
      BY <1>0
    <2> QED
      BY <2>1, <2>2, <2>3
  <1> QED
    BY <1>1, <1>4, <1>5, <1>6

LEMMA WithoutMembers ==
    ASSUME NEW S, NEW l \in Seq(S), Distinct(l), NEW k
    PROVE  /\ Without(l, k) \in Seq(S)
           /\ Distinct(Without(l, k))
           /\ Members(Without(l, k)) = Members(l) \ {k}
           /\ Len(Without(l, k)) = IF k \in Members(l) THEN Len(l) - 1 ELSE Len(l)
  <1>1. CASE k \notin Members(l)
    <2>1. Without(l, k) = l
      BY <1>1 DEF Without
    <2> QED
      BY <1>1, <2>1
  <1>2. CASE k \in Members(l)
    <2>1. PICK i \in 1..Len(l) : l[i] = k
      BY <1>2 DEF Members
    <2> DEFINE m == Without(l, k)
    <2>2. /\ m \in Seq(S) /\ Len(m) = Len(l) - 1
          /\ \A j \in 1..(Len(l) - 1) : m[j] = IF j < i THEN l[j] ELSE l[j + 1]
      BY <2>1, WithoutIs
    <2> HIDE DEF m
    <2>3. Distinct(m)
      <3> SUFFICES ASSUME NEW p \in 1..(Len(l) - 1), NEW q \in 1..(Len(l) - 1), m[p] = m[q]
                   PROVE  p = q
        BY <2>2 DEF Distinct
      <3> DEFINE P == IF p < i THEN p ELSE p + 1
                 Q == IF q < i THEN q ELSE q + 1
      <3>1. P \in 1..Len(l) /\ Q \in 1..Len(l) /\ m[p] = l[P] /\ m[q] = l[Q]
        BY <2>2
      <3>2. P = Q
        BY <3>1 DEF Distinct
      <3> QED
        BY <3>2
    <2>4. Members(m) \subseteq Members(l) \ {k}
      <3> SUFFICES ASSUME NEW p \in 1..(Len(l) - 1)
                   PROVE  m[p] \in Members(l) /\ m[p] # k
        BY <2>2 DEF Members
      <3> DEFINE P == IF p < i THEN p ELSE p + 1
      <3>1. P \in 1..Len(l) /\ m[p] = l[P] /\ P # i
        BY <2>2
      <3> QED
        BY <2>1, <3>1 DEF Members, Distinct
    <2>5. Members(l) \ {k} \subseteq Members(m)
      <3> SUFFICES ASSUME NEW p \in 1..Len(l), l[p] # k
                   PROVE  l[p] \in Members(m)
        BY DEF Members
      <3> DEFINE P == IF p < i THEN p ELSE p - 1
      <3>1. p # i /\ Len(l) \in Nat
        BY <2>1
      <3>2. P \in 1..(Len(l) - 1) /\ (IF P < i THEN P ELSE P + 1) = p
        BY <3>1
      <3>3. m[P] = l[p] /\ P \in 1..Len(m)
        BY <2>2, <3>2
      <3> QED
        BY <3>3 DEF Members
    <2> QED
      BY <1>2, <2>2, <2>3, <2>4, <2>5 DEF m
  <1> QED
    BY <1>1, <1>2

\* Putting a key that is not there in front.
LEMMA InFront ==
    ASSUME NEW S, NEW l \in Seq(S), Distinct(l), NEW k \in S, k \notin Members(l)
    PROVE  /\ <<k>> \o l \in Seq(S)
           /\ Distinct(<<k>> \o l)
           /\ Members(<<k>> \o l) = Members(l) \cup {k}
           /\ Len(<<k>> \o l) = Len(l) + 1
  <1> DEFINE m == <<k>> \o l
  <1>1. /\ <<k>> \in Seq(S) /\ Len(<<k>>) = 1 /\ <<k>>[1] = k /\ Len(l) \in Nat
    OBVIOUS
  <1>2. /\ m \in Seq(S) /\ Len(m) = 1 + Len(l)
        /\ \A j \in 1..(1 + Len(l)) : m[j] = IF j <= 1 THEN <<k>>[j] ELSE l[j - 1]
    BY <1>1, ConcatProperties
  <1>3. m[1] = k /\ \A j \in 2..(1 + Len(l)) : m[j] = l[j - 1] /\ j - 1 \in 1..Len(l)
    BY <1>1, <1>2
  <1> HIDE DEF m
  <1>4. Members(m) = Members(l) \cup {k}
    <2>1. \A j \in 1..Len(l) : j + 1 \in 2..(1 + Len(l)) /\ m[j + 1] = l[j]
      BY <1>1, <1>3
    <2>2. \A j \in 1..Len(m) : j = 1 \/ j \in 2..(1 + Len(l))
      BY <1>1, <1>2
    <2>3. 1 \in 1..Len(m) /\ \A j \in 2..(1 + Len(l)) : j \in 1..Len(m)
      BY <1>1, <1>2
    <2>4. Members(m) \subseteq Members(l) \cup {k}
      BY <1>3, <2>2 DEF Members
    <2>5. Members(l) \subseteq Members(m)
      BY <2>1, <2>3 DEF Members
    <2>6. k \in Members(m)
      BY <1>3, <2>3 DEF Members
    <2> QED
      BY <2>4, <2>5, <2>6
  <1>5. Distinct(m)
    <2> SUFFICES ASSUME NEW p \in 1..Len(m), NEW q \in 1..Len(m), m[p] = m[q]
                 PROVE  p = q
      BY DEF Distinct
    <2>1. \A j \in 1..Len(l) : l[j] # k
      BY DEF Members
    <2>2. CASE p = 1 \/ q = 1
      <3>1. \A j \in 1..Len(m) : j # 1 => m[j] # k
        <4> SUFFICES ASSUME NEW j \in 1..Len(m), j # 1 PROVE m[j] # k
          OBVIOUS
        <4>1. j \in 2..(1 + Len(l))
          BY <1>1, <1>2
        <4> QED
          BY <1>3, <2>1, <4>1
      <3> QED
        BY <1>3, <2>2, <3>1
    <2>3. CASE p # 1 /\ q # 1
      <3>1. p \in 2..(1 + Len(l)) /\ q \in 2..(1 + Len(l))
        BY <1>1, <1>2, <2>3
      <3>2. l[p - 1] = l[q - 1] /\ p - 1 \in 1..Len(l) /\ q - 1 \in 1..Len(l)
        BY <1>3, <3>1
      <3>3. p - 1 = q - 1
        BY <3>2 DEF Distinct
      <3> QED
        BY <3>3
    <2> QED
      BY <2>2, <2>3
  <1> QED
    BY <1>1, <1>2, <1>4, <1>5 DEF m

\* Cutting the end off.
LEMMA Prefix ==
    ASSUME NEW S, NEW l \in Seq(S), Distinct(l), NEW n \in 0..Len(l)
    PROVE  /\ SubSeq(l, 1, n) \in Seq(S)
           /\ Distinct(SubSeq(l, 1, n))
           /\ Len(SubSeq(l, 1, n)) = n
           /\ Members(SubSeq(l, 1, n)) \subseteq Members(l)
           /\ n = Len(l) - 1 => Members(SubSeq(l, 1, n)) = Members(l) \ {l[Len(l)]}
           /\ n = 0 => Members(SubSeq(l, 1, n)) = {}
  <1> DEFINE m == SubSeq(l, 1, n)
  <1>0. Len(l) \in Nat /\ n \in Int /\ 0 <= n /\ n <= Len(l)
    OBVIOUS
  <1>1. /\ m \in Seq(S) /\ Len(m) = n
        /\ \A j \in 1..n : m[j] = l[j] /\ j \in 1..Len(l)
    <2>1. \A j \in 1..n : l[j] \in S
      BY <1>0
    <2>2. /\ m \in Seq(S)
          /\ Len(m) = (IF 1 <= n THEN n - 1 + 1 ELSE 0)
          /\ \A j \in 1..(n - 1 + 1) : m[j] = l[1 + j - 1]
      BY <1>0, <2>1, SubSeqProperties
    <2> HIDE DEF m
    <2> QED
      BY <1>0, <2>2
  <1> HIDE DEF m
  <1>2. Distinct(m)
    BY <1>1 DEF Distinct
  <1>3. Members(m) \subseteq Members(l)
    BY <1>1 DEF Members
  <1>4. ASSUME n = Len(l) - 1 PROVE Members(m) = Members(l) \ {l[Len(l)]}
    <2>1. Len(l) \in 1..Len(l)
      BY <1>0, <1>4
    <2>2. \A j \in 1..n : l[j] # l[Len(l)]
      BY <1>0, <1>1, <1>4, <2>1 DEF Distinct
    <2>3. \A j \in 1..Len(l) : j \in 1..n \/ j = Len(l)
      BY <1>0, <1>4
    <2> QED
      BY <1>1, <2>2, <2>3 DEF Members
  <1>5. ASSUME n = 0 PROVE Members(m) = {}
    <2>1. 1..Len(m) = {}
      BY <1>1, <1>5
    <2> QED
      BY <2>1 DEF Members
  <1> QED
    BY <1>1, <1>2, <1>3, <1>4, <1>5 DEF m

-----------------------------------------------------------------------------
(***************************************************************************)
(* The list and the hash agree, and the limit is kept.                     *)
(***************************************************************************)
ListInv ==
    /\ persistent \in BOOLEAN
    /\ max \in Nat
    /\ list \in Seq(Keys)
    /\ Distinct(list)
    /\ Members(list) = hash
    /\ WithinLimit

LEMMA ListLength ==
    ASSUME ListInv
    PROVE  ListMatchesHash /\ Len(list) \in Nat
  BY DistinctLength DEF ListInv, ListMatchesHash

\* A new list that is no longer than the old one under the same limit.
LEMMA NotLonger ==
    ASSUME ListInv, persistent' = persistent, max' = max,
           list' \in Seq(Keys), Distinct(list'), Members(list') = hash',
           Len(list') <= Len(list)
    PROVE  ListInv'
  <1>1. Len(list) \in Nat /\ Len(list') \in Nat /\ Reserved' = Reserved /\ Reserved \in Nat
    BY DEF ListInv, Reserved
  <1>2. list' # <<>> => list # <<>>
    <2>1. list' # <<>> => Len(list') > 0
      BY <1>1, EmptySeq
    <2>2. list = <<>> => Len(list) = 0
      OBVIOUS
    <2> QED
      BY <1>1, <2>1, <2>2
  <1>3. WithinLimit'
    BY <1>1, <1>2 DEF ListInv, WithinLimit
  <1> QED
    BY <1>3 DEF ListInv

\* The key of a hit or of an update goes to the front.
LEMMA ToFront ==
    ASSUME ListInv, NEW k \in Keys
    PROVE  LET l == <<k>> \o Without(list, k)
           IN  /\ l \in Seq(Keys) /\ Distinct(l)
               /\ Members(l) = hash \cup {k}
               /\ Len(l) = IF k \in hash THEN Len(list) ELSE Len(list) + 1
  <1> DEFINE m == Without(list, k)
  <1>1. /\ m \in Seq(Keys) /\ Distinct(m) /\ Members(m) = hash \ {k}
        /\ Len(m) = IF k \in hash THEN Len(list) - 1 ELSE Len(list)
    BY WithoutMembers DEF ListInv
  <1> HIDE DEF m
  <1>2. /\ <<k>> \o m \in Seq(Keys) /\ Distinct(<<k>> \o m)
        /\ Members(<<k>> \o m) = Members(m) \cup {k}
        /\ Len(<<k>> \o m) = Len(m) + 1
    BY <1>1, InFront
  <1>3. Len(list) \in Nat
    BY ListLength
  <1> QED
    BY <1>1, <1>2, <1>3 DEF m

LEMMA FetchHitList ==
    ASSUME IInv, ListInv, NEW r \in Readers, FetchHit(r)
    PROVE  ListInv'
  <1>1. key[r] \in Keys /\ key[r] \in hash
    BY DEF IInv, FetchHit, EntriesTypeOK
  <1>2. list' = <<key[r]>> \o Without(list, key[r]) /\ hash' = hash \cup {key[r]}
    BY <1>1 DEF FetchHit
  <1>3. /\ list' \in Seq(Keys) /\ Distinct(list') /\ Members(list') = hash'
        /\ Len(list') = Len(list)
    BY <1>1, <1>2, ToFront
  <1>4. persistent' = persistent /\ max' = max /\ Len(list) \in Nat
    BY ListLength DEF FetchHit
  <1> QED
    BY <1>3, <1>4, NotLonger

LEMMA FetchStaleList ==
    ASSUME IInv, ListInv, NEW r \in Readers, FetchStale(r)
    PROVE  ListInv'
  <1>1. list' = Without(list, key[r]) /\ hash' = hash \ {key[r]}
    BY DEF FetchStale, ExpireEntry
  <1>2. Len(list) \in Nat
    BY ListLength
  <1>3. /\ list' \in Seq(Keys) /\ Distinct(list') /\ Members(list') = hash'
        /\ Len(list') <= Len(list)
    BY <1>1, <1>2, WithoutMembers DEF ListInv
  <1>4. persistent' = persistent /\ max' = max
    BY DEF FetchStale
  <1> QED
    BY <1>3, <1>4, NotLonger

LEMMA UpdateStoreList ==
    ASSUME IInv, ListInv, NEW r \in Readers, UpdateStore(r)
    PROVE  ListInv'
  <1> DEFINE k == key[r]
             l == <<k>> \o Without(list, k)
             h == hash \cup {k}
  <1>0. k \in Keys /\ persistent' = persistent /\ max' = max /\ Len(list) \in Nat
    BY ListLength DEF IInv, UpdateStore, Places
  <1>1. CASE persistent /\ max = 0
    BY <1>0, <1>1, NotLonger DEF UpdateStore, ListInv
  <1>2. CASE ~(persistent /\ max = 0)
    <2>1. /\ list' = (IF IsFull(Cardinality(h)) THEN SubSeq(l, 1, Len(l) - 1) ELSE l)
          /\ hash' = (IF IsFull(Cardinality(h)) THEN h \ {l[Len(l)]} ELSE h)
      BY <1>2 DEF UpdateStore
    <2>2. /\ l \in Seq(Keys) /\ Distinct(l) /\ Members(l) = h
          /\ Len(l) = IF k \in hash THEN Len(list) ELSE Len(list) + 1
      BY <1>0, ToFront
    <2> HIDE DEF l, h, k
    <2>3. Cardinality(h) = Len(l) /\ Len(l) \in Nat
      BY <2>2, DistinctLength
    <2>4. Len(l) > 0
      <3>1. k \in Members(l)
        BY <2>2 DEF h
      <3>2. PICK i \in 1..Len(l) : l[i] = k
        BY <3>1 DEF Members
      <3> QED
        BY <2>3, <3>2
    <2>5. CASE IsFull(Cardinality(h))
      <3>1. Len(l) - 1 \in 0..Len(l)
        BY <2>3, <2>4
      <3>2. /\ SubSeq(l, 1, Len(l) - 1) \in Seq(Keys)
            /\ Distinct(SubSeq(l, 1, Len(l) - 1))
            /\ Len(SubSeq(l, 1, Len(l) - 1)) = Len(l) - 1
            /\ Members(SubSeq(l, 1, Len(l) - 1)) = Members(l) \ {l[Len(l)]}
        BY <2>2, <3>1, Prefix
      <3>3. list' = SubSeq(l, 1, Len(l) - 1) /\ hash' = h \ {l[Len(l)]}
        BY <2>1, <2>5
      <3>4. /\ list' \in Seq(Keys) /\ Distinct(list') /\ Members(list') = hash'
            /\ Len(list') <= Len(list)
        BY <1>0, <2>2, <2>3, <3>2, <3>3
      <3> QED
        BY <1>0, <3>4, NotLonger
    <2>6. CASE ~IsFull(Cardinality(h))
      <3>1. list' = l /\ hash' = h
        BY <2>1, <2>6
      <3>2. Reserved' = Reserved /\ Reserved \in Nat
        BY <1>0 DEF Reserved
      <3>3. Len(l) + Reserved <= max
        BY <2>3, <2>6, <3>2 DEF IsFull, ListInv
      <3>4. WithinLimit'
        BY <1>0, <3>1, <3>2, <3>3 DEF WithinLimit
      <3> QED
        BY <1>0, <2>2, <3>1, <3>4 DEF ListInv
    <2> QED
      BY <2>5, <2>6
  <1> QED
    BY <1>1, <1>2

LEMMA SetLimitList ==
    ASSUME ListInv, NEW n \in Limits, SetLimit(n)
    PROVE  ListInv'
  <1>0. /\ n \in Nat /\ max \in Nat /\ max' = n /\ persistent' = persistent
        /\ Len(list) \in Nat /\ Reserved' = Reserved /\ Reserved \in Nat
    BY LimitsAssumption, ListLength DEF ListInv, SetLimit, Reserved
  <1>1. CASE ~(n < max)
    <2>1. list' = list /\ hash' = hash
      BY <1>1 DEF SetLimit
    <2>2. WithinLimit'
      BY <1>0, <1>1, <2>1 DEF ListInv, WithinLimit
    <2> QED
      BY <1>0, <2>1, <2>2 DEF ListInv
  <1>2. CASE n < max
    <2> DEFINE size == max - n
               left == IF size < Len(list) THEN Len(list) - size ELSE 0
               kept == SubSeq(list, 1, left)
    <2>1. /\ list' = kept
          /\ hash' = IF ~persistent /\ size = Len(list) THEN {}
                     ELSE hash \ (Members(list) \ Members(kept))
      BY <1>2 DEF SetLimit, ExpireTail
    <2>2. size \in Nat /\ left \in 0..Len(list) /\ (size = Len(list) => left = 0)
      BY <1>0, <1>2
    <2>3. left = 0 \/ left + size = Len(list)
      BY <1>0, <2>2
    <2> HIDE DEF left
    <2>4. /\ kept \in Seq(Keys) /\ Distinct(kept) /\ Len(kept) = left
          /\ Members(kept) \subseteq Members(list)
          /\ left = 0 => Members(kept) = {}
      BY <2>2, Prefix DEF ListInv
    <2> HIDE DEF kept
    <2>5. Members(kept) = hash'
      BY <2>1, <2>2, <2>4 DEF ListInv
    <2>6. WithinLimit'
      <3> SUFFICES ASSUME kept # <<>> PROVE left + Reserved <= n
        BY <1>0, <2>1, <2>4 DEF WithinLimit
      <3>1. left > 0
        BY <2>2, <2>4, EmptySeq
      <3>2. left + size = Len(list) /\ list # <<>>
        BY <2>2, <2>3, <3>1
      <3>3. Len(list) + Reserved <= max
        BY <3>2 DEF ListInv, WithinLimit
      <3> QED
        BY <1>0, <2>2, <3>2, <3>3
    <2> QED
      BY <1>0, <2>1, <2>4, <2>5, <2>6 DEF ListInv
  <1> QED
    BY <1>1, <1>2

\* Everything else leaves the cache alone.
LEMMA UntouchedList ==
    ASSUME ListInv, UNCHANGED <<persistent, cacheVars>>
    PROVE  ListInv'
  BY DEF ListInv, WithinLimit, Reserved, cacheVars

LEMMA NextListInv == IInv /\ ListInv /\ [Next]_vars => ListInv'
  <1> SUFFICES ASSUME IInv, ListInv, [Next]_vars PROVE ListInv'
    OBVIOUS
  <1>1. ASSUME NEW r \in Readers, Reader(r) PROVE ListInv'
    <2>1. CASE FetchHit(r)
      BY <2>1, FetchHitList
    <2>2. CASE FetchStale(r)
      BY <2>2, FetchStaleList
    <2>3. CASE UpdateStore(r)
      BY <2>3, UpdateStoreList
    <2>4. CASE \/ \E k \in Keys : Begin(r, k)
               \/ FetchMiss(r) \/ Compute(r) \/ UpdateSkipped(r) \/ UpdateBegins(r) \/ End(r)
      <3>1. UNCHANGED <<persistent, cacheVars>>
        BY <2>4 DEF Begin, FetchMiss, Compute, UpdateSkipped, UpdateBegins, End
      <3> QED
        BY <3>1, UntouchedList
    <2> QED
      BY <1>1, <2>1, <2>2, <2>3, <2>4 DEF Reader
  <1>2. ASSUME NEW w \in Writers, Change(w) PROVE ListInv'
    BY <1>2, UntouchedList DEF Change
  <1>3. ASSUME NEW a \in Actors, TouchRead(a) \/ TouchWrite(a) PROVE ListInv'
    <2>1. UNCHANGED <<persistent, cacheVars>>
      BY <1>3 DEF TouchRead, TouchWrite
    <2> QED
      BY <2>1, UntouchedList
  <1>4. ASSUME NEW n \in Limits, SetLimit(n) PROVE ListInv'
    BY <1>4, SetLimitList
  <1>5. CASE Tick
    BY <1>5, UntouchedList DEF Tick
  <1>6. CASE UNCHANGED vars
    BY <1>6, UntouchedList DEF vars
  <1> QED
    BY <1>1, <1>2, <1>3, <1>4, <1>5, <1>6 DEF Next

LEMMA InitListInv == Init => ListInv
  <1> SUFFICES ASSUME Init PROVE ListInv
    OBVIOUS
  <1>1. list = <<>> /\ hash = {} /\ list \in Seq(Keys) /\ Len(list) = 0
    BY DEF Init
  <1>2. 1..Len(list) = {}
    BY <1>1
  <1>3. Distinct(list) /\ Members(list) = hash
    BY <1>1, <1>2 DEF Distinct, Members
  <1>4. max \in Nat /\ persistent \in BOOLEAN
    BY LimitsAssumption DEF Init
  <1> QED
    BY <1>1, <1>3, <1>4 DEF ListInv, WithinLimit

LEMMA InductiveList == Spec => []ListInv
  BY InitIInv, NextIInv, InitListInv, NextListInv, PTL DEF Spec

\* In both forms of the cache, however fetches, updates and changes of the limit
\* interleave, the linked list holds each key of the hash exactly once: the
\* truncation of the hash in grn_cache_expire_memory_without_lock included.
THEOREM ListIsTheHash == Spec => []ListMatchesHash
  <1>1. ListInv => ListMatchesHash
    BY ListLength
  <1> QED
    BY <1>1, InductiveList, PTL

\* No sequence of updates and of cache_limit leaves more entries than the limit
\* that is in force, a limit of 0 and one that is lowered between the test and
\* the update included.
THEOREM LimitIsKept == Spec => []WithinLimit
  BY InductiveList, PTL DEF ListInv
=============================================================================
