------------------------------- MODULE Cache --------------------------------
(***************************************************************************)
(* The query cache (lib/cache.c) between the selects that fill it and the  *)
(* commands that change the database.  A select notes the time it begins,  *)
(* fetches, computes its result on a miss and updates the cache; a change  *)
(* of the database ends with grn_obj_touch, which stores the time in the   *)
(* database's header.  An entry is valid if its select began in a later    *)
(* second than that.                                                       *)
(*                                                                         *)
(* The memory form of the cache works under a mutex, the persistent one    *)
(* under an io lock whose wait may time out: what either protects is one   *)
(* step.  A result is named by how many changes it has seen.               *)
(***************************************************************************)
EXTENDS Integers, Sequences, FiniteSets

CONSTANTS
    Keys,         \* the cache keys of the selects clients send
    Readers,      \* threads that execute selects
    Writers,      \* threads that execute commands that change the database
    Limits,       \* values of cache_limit; InitialLimit is one
    InitialLimit,
    MaxClock,     \* bound: the clock, in seconds
    MaxVersion    \* bound: changes of the database

Actors == Readers \cup Writers

ASSUME LimitsAssumption == Limits \subseteq Nat /\ InitialLimit \in Limits
ASSUME ActorsAssumption == Readers \cap Writers = {}
ASSUME BoundsAssumption == MaxClock \in Nat /\ MaxVersion \in Nat

VARIABLES
    persistent,    \* which of the two forms the cache has
    clock,         \* seconds
    version,       \* changes applied to the database
    done,          \* ghost: the newest change whose command has ended
    lastModified,  \* header->last_modified of the database
    regressed,     \* ghost: a touch has set it to an earlier time
    pc,            \* where each thread is
    key,           \* the key of a reader's select
    tv,            \* ctx->impl->tv: when it began
    start,         \* ghost: done at that time
    result,        \* the changes its result has seen; of a writer: its change
    stamp,         \* the time a touch is about to store
    max,           \* max_nentries
    list,          \* keys of the linked list, the most recent first
    hash,          \* keys in the hash
    entry          \* their values: when the select began, and its result

dbVars == <<clock, version, done, lastModified, regressed>>
cacheVars == <<max, list, hash, entry>>
threadVars == <<pc, key, tv, start, result, stamp>>
vars == <<persistent, dbVars, cacheVars, threadVars>>

NoKey == "no key"
ASSUME NoKeyAssumption == NoKey \notin Keys
NoEntry == [tv |-> 0, result |-> 0]

\* The two entries of the persistent hash that are not results: the root of
\* the list and the metadata.
Reserved == IF persistent THEN 2 ELSE 0

Init ==
    /\ persistent \in BOOLEAN
    /\ clock = 1 /\ version = 0 /\ done = 0 /\ lastModified = 0 /\ regressed = FALSE
    /\ pc = [a \in Actors |-> "idle"]
    /\ key = [r \in Readers |-> NoKey]
    /\ tv = [r \in Readers |-> 0]
    /\ start = [r \in Readers |-> 0]
    /\ result = [a \in Actors |-> 0]
    /\ stamp = [a \in Actors |-> 0]
    /\ max = InitialLimit
    /\ list = <<>> /\ hash = {} /\ entry = [k \in Keys |-> NoEntry]

Goto(a, place) == pc' = [pc EXCEPT ![a] = place]

-----------------------------------------------------------------------------
(***************************************************************************)
(* The list and the hash.                                                  *)
(***************************************************************************)
Members(l) == {l[i] : i \in 1..Len(l)}

\* The list without the node of k: its neighbours are linked to each other.
Without(l, k) ==
    IF k \in Members(l)
    THEN LET i == CHOOSE j \in 1..Len(l) : l[j] = k
         IN  SubSeq(l, 1, i - 1) \o SubSeq(l, i + 1, Len(l))
    ELSE l

\* What is left of the values when only the keys in ks are.
Kept(e, ks) == [k \in Keys |-> IF k \in ks THEN e[k] ELSE NoEntry]

\* grn_cache_expire_entry_memory, grn_cache_expire_entry_persistent.
ExpireEntry(k) ==
    /\ list' = Without(list, k)
    /\ hash' = hash \ {k}
    /\ entry' = Kept(entry, hash \ {k})

\* Mutant: the memory form truncates the hash when the count has run out.
ExpireTailTruncating(size) ==
    LET left == IF size < Len(list) THEN Len(list) - size ELSE 0
        kept == SubSeq(list, 1, left)
        ks == IF ~persistent /\ size <= Len(list) THEN {}
              ELSE hash \ (Members(list) \ Members(kept))
    IN  list' = kept /\ hash' = ks /\ entry' = Kept(entry, ks)

\* The oldest entries go until size have gone or the list is empty; the memory
\* form truncates the hash if the last one made both true.
ExpireTail(size) ==
    LET left == IF size < Len(list) THEN Len(list) - size ELSE 0
        kept == SubSeq(list, 1, left)
        ks == IF ~persistent /\ size = Len(list) THEN {}
              ELSE hash \ (Members(list) \ Members(kept))
    IN  list' = kept /\ hash' = ks /\ entry' = Kept(entry, ks)

-----------------------------------------------------------------------------
(***************************************************************************)
(* A select.                                                               *)
(***************************************************************************)
Begin(r, k) ==
    /\ pc[r] = "idle"
    /\ Goto(r, "fetch")
    /\ key' = [key EXCEPT ![r] = k]
    /\ tv' = [tv EXCEPT ![r] = clock]
    /\ start' = [start EXCEPT ![r] = done]
    /\ UNCHANGED <<persistent, dbVars, cacheVars, result, stamp>>

\* Mutant: an entry of the second of the last change is valid.
IsFreshInSecond(k) == entry[k].tv >= lastModified

IsFresh(k) == entry[k].tv > lastModified

\* The entry is returned and moves to the front of the list.
FetchHit(r) ==
    /\ pc[r] = "fetch"
    /\ key[r] \in hash /\ IsFresh(key[r])
    /\ result' = [result EXCEPT ![r] = entry[key[r]].result]
    /\ list' = <<key[r]>> \o Without(list, key[r])
    /\ Goto(r, "served")
    /\ UNCHANGED <<persistent, dbVars, max, hash, entry, key, tv, start, stamp>>

\* An entry that is too old is expired.
FetchStale(r) ==
    /\ pc[r] = "fetch"
    /\ key[r] \in hash /\ ~IsFresh(key[r])
    /\ ExpireEntry(key[r])
    /\ Goto(r, "compute")
    /\ UNCHANGED <<persistent, dbVars, max, key, tv, start, result, stamp>>

\* There is none, or the io lock was not granted in time.
FetchMiss(r) ==
    /\ pc[r] = "fetch"
    /\ key[r] \notin hash \/ persistent
    /\ Goto(r, "compute")
    /\ UNCHANGED <<persistent, dbVars, cacheVars, key, tv, start, result, stamp>>

\* The select reads the database; the oldest thing it reads is what counts.
Compute(r) ==
    /\ pc[r] = "compute"
    /\ result' = [result EXCEPT ![r] = version]
    /\ Goto(r, "update")
    /\ UNCHANGED <<persistent, dbVars, cacheVars, key, tv, start, stamp>>

\* A select that failed or has cache=no is not cached, nor is one that finds the
\* limit 0 or whose io lock is not granted in time.  If its result depends on more than
\* the database it touches it all the same.
UpdateSkipped(r) ==
    /\ pc[r] = "update"
    /\ Goto(r, "served") \/ Goto(r, "touch")
    /\ UNCHANGED <<persistent, dbVars, cacheVars, key, tv, start, result, stamp>>

\* The memory form looks at the limit before it locks the mutex.
UpdateBegins(r) ==
    /\ pc[r] = "update"
    /\ persistent \/ max > 0
    /\ Goto(r, "store")
    /\ UNCHANGED <<persistent, dbVars, cacheVars, key, tv, start, result, stamp>>

\* Mutant: the persistent form does not count its two entries.
IsFullWithout(n) == n > max

IsFull(n) == n + Reserved > max

\* The entry is stored at the front; if there is one too many now the last
\* one goes, which is the new one when it is alone.  The persistent form looks
\* at the limit under the lock.  A select whose result depends on more than the
\* database touches it then.
UpdateStore(r) ==
    /\ pc[r] = "store"
    /\ IF persistent /\ max = 0
       THEN UNCHANGED <<list, hash, entry>>
       ELSE LET l == <<key[r]>> \o Without(list, key[r])
                e == [entry EXCEPT ![key[r]] = [tv |-> tv[r], result |-> result[r]]]
                h == hash \cup {key[r]}
                ks == IF IsFull(Cardinality(h)) THEN h \ {l[Len(l)]} ELSE h
            IN  /\ list' = IF IsFull(Cardinality(h)) THEN SubSeq(l, 1, Len(l) - 1) ELSE l
                /\ hash' = ks
                /\ entry' = Kept(e, ks)
    /\ Goto(r, "served") \/ Goto(r, "touch")
    /\ UNCHANGED <<persistent, dbVars, max, key, tv, start, result, stamp>>

\* The response is sent.
End(r) ==
    /\ pc[r] = "served"
    /\ Goto(r, "idle")
    /\ key' = [key EXCEPT ![r] = NoKey]
    /\ tv' = [tv EXCEPT ![r] = 0]
    /\ start' = [start EXCEPT ![r] = 0]
    /\ result' = [result EXCEPT ![r] = 0]
    /\ UNCHANGED <<persistent, dbVars, cacheVars, stamp>>

-----------------------------------------------------------------------------
(***************************************************************************)
(* A change of the database, and grn_obj_touch.                            *)
(***************************************************************************)
Change(w) ==
    /\ pc[w] = "idle"
    /\ version < MaxVersion
    /\ version' = version + 1
    /\ result' = [result EXCEPT ![w] = version + 1]
    /\ Goto(w, "touch")
    /\ UNCHANGED <<persistent, clock, done, lastModified, regressed, cacheVars, key, tv,
                   start, stamp>>

\* It reads the clock.
TouchRead(a) ==
    /\ pc[a] = "touch"
    /\ stamp' = [stamp EXCEPT ![a] = clock]
    /\ Goto(a, "stamp")
    /\ UNCHANGED <<persistent, dbVars, cacheVars, key, tv, start, result>>

\* It stores the time, with no lock: perhaps over a later one.
TouchWrite(a) ==
    /\ pc[a] = "stamp"
    /\ lastModified' = stamp[a]
    /\ regressed' = (regressed \/ stamp[a] < lastModified)
    /\ stamp' = [stamp EXCEPT ![a] = 0]
    /\ IF a \in Writers
       THEN /\ done' = IF result[a] > done THEN result[a] ELSE done
            /\ result' = [result EXCEPT ![a] = 0]
            /\ Goto(a, "idle")
       ELSE Goto(a, "served") /\ UNCHANGED <<done, result>>
    /\ UNCHANGED <<persistent, clock, version, cacheVars, key, tv, start>>

-----------------------------------------------------------------------------
\* cache_limit.
SetLimit(n) ==
    /\ max' = n
    /\ IF n < max THEN ExpireTail(max - n) ELSE UNCHANGED <<list, hash, entry>>
    /\ UNCHANGED <<persistent, dbVars, threadVars>>

Tick ==
    /\ clock < MaxClock
    /\ clock' = clock + 1
    /\ UNCHANGED <<persistent, version, done, lastModified, regressed, cacheVars,
                   threadVars>>

Reader(r) ==
    \/ \E k \in Keys : Begin(r, k)
    \/ FetchHit(r) \/ FetchStale(r) \/ FetchMiss(r) \/ Compute(r)
    \/ UpdateSkipped(r) \/ UpdateBegins(r) \/ UpdateStore(r) \/ End(r)

Next ==
    \/ \E r \in Readers : Reader(r)
    \/ \E w \in Writers : Change(w)
    \/ \E a \in Actors : TouchRead(a) \/ TouchWrite(a)
    \/ \E n \in Limits : SetLimit(n)
    \/ Tick

Spec == Init /\ [][Next]_vars

-----------------------------------------------------------------------------
DatabaseTypeOK ==
    /\ regressed \in BOOLEAN
    /\ clock \in Nat /\ version \in Nat /\ done \in Nat /\ lastModified \in Nat

ThreadTypeOK ==
    /\ pc \in [Actors -> {"idle", "fetch", "compute", "update", "store", "served",
                          "touch", "stamp"}]
    /\ key \in [Readers -> Keys \cup {NoKey}]
    /\ tv \in [Readers -> Nat] /\ start \in [Readers -> Nat]
    /\ result \in [Actors -> Nat] /\ stamp \in [Actors -> Nat]

EntriesTypeOK ==
    /\ hash \subseteq Keys
    /\ entry \in [Keys -> [tv : Nat, result : Nat]]

\* A select never gets from the cache what a change that had ended before it
\* began makes wrong, although a result is stored long after it was computed
\* and times are whole seconds; unless two touches have passed each other.
FreshHit ==
    \A r \in Readers :
        (pc[r] = "served" /\ ~regressed) => result[r] >= start[r]

\* The linked list has each key of the hash once: an entry lives in the hash
\* and whatever deletes it there has to take it from the list.
ListMatchesHash ==
    Members(list) = hash /\ Len(list) = Cardinality(hash)

\* There are never more entries than the limit, whether it was lowered or
\* found to be 0 between the test and the update; the persistent form counts
\* its own two.
WithinLimit == list # <<>> => Len(list) + Reserved <= max
=============================================================================
