---------------------------- MODULE IoLockProof ------------------------------
(***************************************************************************)
(* Proofs about IoLock for any number of threads and processes, any        *)
(* timeouts and any width of the lock word that the threads cannot         *)
(* overflow.                                                               *)
(***************************************************************************)
EXTENDS IoLock, FiniteSetTheorems, TLAPS

\* The inductive invariant.  Mutual exclusion needs the meaning of the lock
\* word (it counts every contender), and the fence after a crash needs to know
\* that the dead owner's increment is still among those left behind.
IInv ==
    /\ TypeOK
    /\ LockWordCounts
    /\ MutualExclusion
    /\ torn => left > 0 /\ Owners = {}

\* The remainder of a word that has not overflowed is the word itself.
LEMMA ModSmall ==
    ASSUME NEW m \in Nat, NEW x \in Nat, x < m
    PROVE  x % m = x
  OBVIOUS

\* What the cardinality of the set of contenders does when one joins, leaves
\* or stays, and that the lock word never reaches its width.
LEMMA CountedBounds ==
    ASSUME TypeOK
    PROVE  /\ IsFiniteSet(Counted)
           /\ Cardinality(Counted) \in Nat
           /\ Cardinality(Threads) \in Nat
           /\ Cardinality(Counted) <= Cardinality(Threads)
  BY ThreadsAssumption, FS_Subset, FS_CardinalityType DEF Counted

LEMMA Join ==
    ASSUME TypeOK, NEW t \in Threads, t \notin Counted, t \in Counted',
           Counted' = Counted \cup {t}
    PROVE  /\ Cardinality(Counted') = Cardinality(Counted) + 1
           /\ Cardinality(Counted') <= Cardinality(Threads)
  <1>1. IsFiniteSet(Counted)
    BY CountedBounds
  <1>2. Counted' \subseteq Threads
    BY <1>1 DEF Counted
  <1> QED
    BY <1>1, <1>2, FS_AddElement, FS_Subset, ThreadsAssumption

LEMMA Leave ==
    ASSUME TypeOK, NEW t \in Threads, t \in Counted,
           Counted' = Counted \ {t}
    PROVE  /\ Cardinality(Counted') = Cardinality(Counted) - 1
           /\ Cardinality(Counted) > 0
  <1>1. IsFiniteSet(Counted)
    BY CountedBounds
  <1>2. Cardinality(Counted) # 0
    BY <1>1, FS_EmptySet
  <1> QED
    BY <1>1, <1>2, FS_RemoveElement, CountedBounds

LEMMA InitIInv == Init => IInv
  <1> SUFFICES ASSUME Init PROVE IInv
    OBVIOUS
  <1>1. Counted = {} /\ Owners = {}
    BY DEF Init, Counted, Owners
  <1>2. Cardinality(Counted) = 0
    BY <1>1, FS_EmptySet
  <1>3. TypeOK
    <2>1. LockModulus > 0
      BY WidthAssumption, ThreadsAssumption, FS_CardinalityType
    <2>2. torn \in BOOLEAN
      BY DEF Init
    <2>3. lock \in 0 .. LockModulus - 1 /\ left \in 0 .. MaxLeft
      BY <2>1, WidthAssumption DEF Init
    <2>4. call \in [Threads -> [timeout : Int, count : Nat]]
      BY DEF Init, NoCall
    <2> QED
      BY <2>2, <2>3, <2>4 DEF Init, TypeOK, Pc, Rc
  <1> QED
    BY <1>1, <1>2, <1>3 DEF IInv, LockWordCounts, MutualExclusion, Init

\* Each step preserves the types.
LEMMA TypeStep == IInv /\ [Next]_vars => TypeOK'
  <1> SUFFICES ASSUME IInv, [Next]_vars PROVE TypeOK'
    OBVIOUS
  <1> USE DEF IInv
  <1>0. LockModulus \in Nat /\ LockModulus > 0
    BY WidthAssumption, ThreadsAssumption, FS_CardinalityType
  <1>1. ASSUME NEW t \in Threads, NEW limit \in Timeouts, Call(t, limit)
        PROVE  TypeOK'
    BY <1>1, TimeoutsAssumption DEF Call, TypeOK, Pc, Rc
  <1>2. ASSUME NEW t \in Threads, TryAdd(t) PROVE TypeOK'
    BY <1>0, <1>2 DEF TryAdd, TypeOK, Pc
  <1>3. ASSUME NEW t \in Threads, BackOff(t) PROVE TypeOK'
    BY <1>0, <1>3 DEF BackOff, TypeOK, Pc
  <1>4. ASSUME NEW t \in Threads, GiveUpOrRetry(t) PROVE TypeOK'
    <2>1. NextCount(t) \in Nat
      BY IntervalAssumption DEF NextCount, TypeOK
    <2>2. pc' \in [Threads -> Pc]
      BY <1>4 DEF GiveUpOrRetry, TypeOK, Pc
    <2>3. NoCall \in [timeout : Int, count : Nat]
      BY DEF NoCall
    <2>4. [timeout |-> call[t].timeout, count |-> NextCount(t)]
            \in [timeout : Int, count : Nat]
      BY <2>1 DEF TypeOK
    <2>5. call' \in [Threads -> [timeout : Int, count : Nat]]
      BY <1>4, <2>3, <2>4 DEF GiveUpOrRetry, TypeOK
    <2>6. rc' \in [Threads -> Rc]
      BY <1>4 DEF GiveUpOrRetry, TypeOK, Rc
    <2>7. UNCHANGED <<lock, left, torn>>
      BY <1>4 DEF GiveUpOrRetry
    <2> QED
      BY <2>2, <2>5, <2>6, <2>7 DEF TypeOK
  <1>5. ASSUME NEW t \in Threads, Unlock(t) PROVE TypeOK'
    BY <1>0, <1>5 DEF Unlock, TypeOK, Pc, NoCall
  <1>6. ASSUME NEW t \in Threads, Cancel(t) PROVE TypeOK'
    BY <1>6 DEF Cancel, TypeOK, Rc
  <1>7. ASSUME NEW p \in Procs, Crash(p) PROVE TypeOK'
    <2> DEFINE mine == {t \in Threads : ProcOf[t] = p}
               lost == Cardinality(mine \cap Counted)
    <2>1. lost \in Nat
      BY CountedBounds, FS_Subset, FS_CardinalityType, mine \cap Counted \subseteq Counted
    <2>2. left' \in 0 .. MaxLeft
      BY <1>7, <2>1, WidthAssumption DEF Crash, TypeOK
    <2>3. torn' \in BOOLEAN
      BY <1>7 DEF Crash
    <2> QED
      BY <1>7, <2>2, <2>3 DEF Crash, TypeOK, Pc, Rc, NoCall
  <1>8. ASSUME NEW p \in Procs, Reopen(p) PROVE TypeOK'
    BY <1>8 DEF Reopen, Revive, TypeOK, Pc
  <1>9. ASSUME NEW p \in Procs, Recover(p) PROVE TypeOK'
    <2>1. torn' \in BOOLEAN
      BY <1>9 DEF Recover
    <2>2. lock' \in 0 .. LockModulus - 1 /\ left' \in 0 .. MaxLeft
      BY <1>0, <1>9, WidthAssumption DEF Recover, TypeOK
    <2>3. pc' \in [Threads -> Pc]
      BY <1>9 DEF Recover, Revive, TypeOK, Pc
    <2> QED
      BY <1>9, <2>1, <2>2, <2>3 DEF Recover, TypeOK
  <1>10. CASE UNCHANGED vars
    BY <1>10 DEF vars, TypeOK
  <1> QED
    BY <1>1, <1>2, <1>3, <1>4, <1>5, <1>6, <1>7, <1>8, <1>9, <1>10 DEF Next, Step

\* Each step preserves the invariant.
LEMMA StepIInv == IInv /\ [Next]_vars => IInv'
  <1> SUFFICES ASSUME IInv, [Next]_vars PROVE IInv'
    OBVIOUS
  <1>0. TypeOK /\ TypeOK'
    BY TypeStep DEF IInv
  <1> DEFINE Width == /\ LockModulus \in Nat /\ MaxLeft \in Nat
                      /\ Cardinality(Threads) \in Nat
                      /\ MaxLeft + Cardinality(Threads) < LockModulus
                      /\ Cardinality(Counted) \in Nat
                      /\ Cardinality(Counted) <= Cardinality(Threads)
                      /\ left \in Nat /\ left <= MaxLeft
                      /\ lock = Cardinality(Counted) + left
  <1>w. Width
    BY <1>0, WidthAssumption, CountedBounds DEF IInv, LockWordCounts, TypeOK
  <1>q. ASSUME Counted' = Counted, Owners' = Owners,
               lock' = lock, left' = left, torn' = torn
        PROVE  IInv'
    BY <1>0, <1>q DEF IInv, LockWordCounts, MutualExclusion
  <1>1. ASSUME NEW t \in Threads, NEW limit \in Timeouts, Call(t, limit)
        PROVE  IInv'
    <2>1. Counted' = Counted /\ Owners' = Owners
      BY <1>0, <1>1 DEF Call, Counted, Owners, TypeOK
    <2> QED
      BY <1>q, <1>1, <2>1 DEF Call
  <1>2. ASSUME NEW t \in Threads, TryAdd(t) PROVE IInv'
    <2>1. /\ t \notin Counted /\ t \in Counted'
          /\ Counted' = Counted \cup {t}
      BY <1>0, <1>2 DEF TryAdd, Counted, TypeOK
    <2>2. /\ Cardinality(Counted') = Cardinality(Counted) + 1
          /\ Cardinality(Counted') <= Cardinality(Threads)
      BY <1>0, <2>1, Join
    <2>3. lock + 1 \in Nat /\ lock + 1 < LockModulus
      BY <1>w, <2>2
    <2>4. lock' = lock + 1
      BY <1>2, <1>w, <2>3, ModSmall DEF TryAdd
    <2>5. LockWordCounts'
      BY <1>2, <1>w, <2>2, <2>4 DEF TryAdd, LockWordCounts
    <2>6. CASE lock = 0
      <3>1. Cardinality(Counted) = 0 /\ left = 0
        BY <1>w, <2>6
      <3>2. Counted = {}
        BY <1>0, <3>1, CountedBounds, FS_EmptySet
      <3>3. Owners = {} /\ Owners' = {t}
        BY <1>0, <1>2, <2>6, <3>2 DEF TryAdd, Counted, Owners, TypeOK
      <3>4. torn = FALSE
        BY <1>0, <3>1 DEF IInv, TypeOK
      <3> QED
        BY <1>0, <1>2, <2>5, <3>3, <3>4 DEF IInv, MutualExclusion, TryAdd
    <2>7. CASE lock # 0
      <3>1. Owners' = Owners
        BY <1>0, <1>2, <2>7 DEF TryAdd, Owners, TypeOK
      <3> QED
        BY <1>0, <1>2, <2>5, <3>1 DEF IInv, MutualExclusion, TryAdd
    <2> QED
      BY <2>6, <2>7
  <1>3. ASSUME NEW t \in Threads, BackOff(t) PROVE IInv'
    <2>1. t \in Counted /\ Counted' = Counted \ {t} /\ Owners' = Owners
      BY <1>0, <1>3 DEF BackOff, Counted, Owners, TypeOK
    <2>2. /\ Cardinality(Counted') = Cardinality(Counted) - 1
          /\ Cardinality(Counted) > 0
      BY <1>0, <2>1, Leave
    <2>3. lock - 1 \in Nat /\ lock - 1 < LockModulus
      BY <1>w, <2>2
    <2>4. lock' = lock - 1
      BY <1>3, <1>w, <2>3, ModSmall DEF BackOff
    <2>5. LockWordCounts'
      BY <1>3, <1>w, <2>2, <2>4 DEF BackOff, LockWordCounts
    <2> QED
      BY <1>0, <1>3, <2>1, <2>5 DEF IInv, MutualExclusion, BackOff
  <1>4. ASSUME NEW t \in Threads, GiveUpOrRetry(t) PROVE IInv'
    <2>1. Counted' = Counted /\ Owners' = Owners
      BY <1>0, <1>4 DEF GiveUpOrRetry, Counted, Owners, TypeOK
    <2> QED
      BY <1>q, <1>4, <2>1 DEF GiveUpOrRetry
  <1>5. ASSUME NEW t \in Threads, Unlock(t) PROVE IInv'
    <2>1. /\ t \in Counted /\ Counted' = Counted \ {t}
          /\ t \in Owners /\ Owners' = Owners \ {t}
      BY <1>0, <1>5 DEF Unlock, Counted, Owners, TypeOK
    <2>2. /\ Cardinality(Counted') = Cardinality(Counted) - 1
          /\ Cardinality(Counted) > 0
      BY <1>0, <2>1, Leave
    <2>3. lock - 1 \in Nat /\ lock - 1 < LockModulus
      BY <1>w, <2>2
    <2>4. lock' = lock - 1
      BY <1>5, <1>w, <2>3, ModSmall DEF Unlock
    <2>5. LockWordCounts'
      BY <1>5, <1>w, <2>2, <2>4 DEF Unlock, LockWordCounts
    <2> QED
      BY <1>0, <1>5, <2>1, <2>5 DEF IInv, MutualExclusion, Unlock
  <1>6. ASSUME NEW t \in Threads, Cancel(t) PROVE IInv'
    <2>1. Counted' = Counted /\ Owners' = Owners
      BY <1>6 DEF Cancel, Counted, Owners
    <2> QED
      BY <1>q, <1>6, <2>1 DEF Cancel
  <1>7. ASSUME NEW p \in Procs, Crash(p) PROVE IInv'
    <2> DEFINE mine == {t \in Threads : ProcOf[t] = p}
               lost == Cardinality(mine \cap Counted)
    <2>1. Counted' = Counted \ mine /\ Owners' = Owners \ mine
      BY <1>0, <1>7 DEF Crash, Counted, Owners, TypeOK
    <2>2. Cardinality(Counted \ mine) = Cardinality(Counted) - lost
      <3>1. IsFiniteSet(Counted)
        BY <1>0, CountedBounds
      <3>2. Cardinality(Counted \ mine)
              = Cardinality(Counted) - Cardinality(Counted \cap mine)
        BY <3>1, FS_Difference
      <3>3. mine \cap Counted = Counted \cap mine
        OBVIOUS
      <3> QED
        BY <3>2, <3>3
    <2>3. lost \in Nat
      BY <1>0, CountedBounds, FS_Subset, FS_CardinalityType,
         mine \cap Counted \subseteq Counted
    <2>4. lock' = lock /\ left' = left + lost
      BY <1>7 DEF Crash
    <2>5. LockWordCounts'
      BY <1>w, <2>1, <2>2, <2>3, <2>4 DEF LockWordCounts
    <2>6. MutualExclusion'
      BY <2>1 DEF IInv, MutualExclusion
    <2>7. ASSUME torn' PROVE left' > 0 /\ Owners' = {}
      <3>1. CASE torn
        BY <1>w, <2>1, <2>3, <2>4, <3>1 DEF IInv
      <3>2. CASE mine \cap Owners # {}
        <4>1. PICK t \in mine : t \in Owners
          BY <3>2
        <4>2. Owners \subseteq mine
          BY <4>1 DEF IInv, MutualExclusion
        <4>3. mine \cap Counted # {}
          BY <4>1 DEF Owners, Counted
        <4>4. lost # 0
          BY <1>0, <4>3, CountedBounds, FS_Subset, FS_EmptySet,
             mine \cap Counted \subseteq Counted
        <4> QED
          BY <1>w, <2>1, <2>3, <2>4, <4>2, <4>4
      <3> QED
        BY <1>7, <2>7, <3>1, <3>2 DEF Crash
    <2> QED
      BY <1>0, <2>5, <2>6, <2>7 DEF IInv
  <1>8. ASSUME NEW p \in Procs, Reopen(p) PROVE IInv'
    <2>1. Counted' = Counted /\ Owners' = Owners
      BY <1>0, <1>8 DEF Reopen, Revive, Counted, Owners, TypeOK
    <2> QED
      BY <1>q, <1>8, <2>1 DEF Reopen
  <1>9. ASSUME NEW p \in Procs, Recover(p) PROVE IInv'
    <2>1. Counted' = {} /\ Owners' = {}
      BY <1>0, <1>9 DEF Recover, Revive, Counted, Owners, TypeOK
    <2>2. Cardinality(Counted') = 0
      BY <2>1, FS_EmptySet
    <2>3. lock' = 0 /\ left' = 0 /\ torn' = FALSE
      BY <1>9 DEF Recover
    <2> QED
      BY <1>0, <2>1, <2>2, <2>3 DEF IInv, LockWordCounts, MutualExclusion
  <1>10. CASE UNCHANGED vars
    BY <1>q, <1>10 DEF vars, Counted, Owners
  <1> QED
    BY <1>1, <1>2, <1>3, <1>4, <1>5, <1>6, <1>7, <1>8, <1>9, <1>10 DEF Next, Step

LEMMA Invariant == Spec => []IInv
  BY InitIInv, StepIInv, PTL DEF Spec

\* The types of every reachable state.
THEOREM TypeCorrect == Spec => []TypeOK
  <1>1. IInv => TypeOK
    BY DEF IInv
  <1> QED
    BY <1>1, Invariant, PTL

\* grn_io_lock never has two owners, for any number of threads, processes,
\* crashes and recoveries.
THEOREM LockExcludes == Spec => []MutualExclusion
  <1>1. IInv => MutualExclusion
    BY DEF IInv
  <1> QED
    BY <1>1, Invariant, PTL

\* Every increment in the lock word belongs to a contender, to the owner or to
\* a dead thread: no back-off, unlock or recovery loses or invents one.
THEOREM LockWordExact == Spec => []LockWordCounts
  <1>1. IInv => LockWordCounts
    BY DEF IInv
  <1> QED
    BY <1>1, Invariant, PTL

\* After a writer died in its critical section, the lock stays set and unowned
\* until a recovery clears it.
THEOREM CrashIsFenced == Spec => []TornDataIsFenced
  <1>1. IInv => TornDataIsFenced
    <2> SUFFICES ASSUME IInv, torn PROVE lock # 0 /\ Owners = {}
      BY DEF TornDataIsFenced
    <2>1. Cardinality(Counted) \in Nat
      BY CountedBounds DEF IInv
    <2> QED
      BY <2>1 DEF IInv, LockWordCounts, TypeOK
  <1> QED
    BY <1>1, Invariant, PTL

-----------------------------------------------------------------------------
\* The lock as its users see it.
Atomic == INSTANCE AtomicLock WITH holders <- Owners

\* Every step of a thread, of a dying process and of a recovery is a step of the atomic
\* lock or none.
LEMMA StepIsAtomic == IInv /\ [Next]_vars => [Atomic!Next]_<<Owners, torn>>
  <1> SUFFICES ASSUME IInv, [Next]_vars PROVE [Atomic!Next]_<<Owners, torn>>
    OBVIOUS
  <1>1. TypeOK /\ LockWordCounts /\ (\A s, t \in Owners : s = t) /\ Owners \subseteq Threads
    BY DEF IInv, MutualExclusion, Owners
  <1>2. pc \in [Threads -> Pc] /\ torn \in BOOLEAN
    BY <1>1 DEF TypeOK
  <1>3. ASSUME Owners' = Owners, torn' = torn PROVE [Atomic!Next]_<<Owners, torn>>
    BY <1>3
  <1>4. ASSUME NEW t \in Threads, NEW limit \in Timeouts, Call(t, limit)
        PROVE  [Atomic!Next]_<<Owners, torn>>
    BY <1>2, <1>3, <1>4 DEF Call, Owners, Pc
  <1>5. ASSUME NEW t \in Threads, TryAdd(t) PROVE [Atomic!Next]_<<Owners, torn>>
    <2>1. CASE lock = 0
      <3>1. ~torn /\ Owners = {}
        <4>1. IsFiniteSet(Counted) /\ Cardinality(Counted) \in Nat /\ left \in Nat
          BY <1>1, CountedBounds DEF TypeOK
        <4>2. Cardinality(Counted) = 0 /\ left = 0
          BY <1>1, <2>1, <4>1 DEF LockWordCounts
        <4>3. Counted = {}
          BY <4>1, <4>2, FS_EmptySet
        <4> QED
          BY <4>2, <4>3 DEF IInv, Counted, Owners
      <3>2. Owners' = {t} /\ torn' = torn
        BY <1>2, <1>5, <2>1, <3>1 DEF TryAdd, Owners
      <3>3. Atomic!Acquire(t)
        BY <3>1, <3>2 DEF Atomic!Acquire
      <3> QED
        BY <3>3 DEF Atomic!Next
    <2>2. CASE lock # 0
      BY <1>2, <1>3, <1>5, <2>2 DEF TryAdd, Owners
    <2> QED
      BY <2>1, <2>2
  <1>6. ASSUME NEW t \in Threads, BackOff(t) PROVE [Atomic!Next]_<<Owners, torn>>
    BY <1>2, <1>3, <1>6 DEF BackOff, Owners
  <1>7. ASSUME NEW t \in Threads, GiveUpOrRetry(t) PROVE [Atomic!Next]_<<Owners, torn>>
    BY <1>2, <1>3, <1>7 DEF GiveUpOrRetry, Owners
  <1>8. ASSUME NEW t \in Threads, Unlock(t) PROVE [Atomic!Next]_<<Owners, torn>>
    <2>1. Owners = {t}
      BY <1>1, <1>8 DEF Unlock, Owners
    <2>2. Owners' = {} /\ torn' = torn
      BY <1>2, <1>8, <2>1 DEF Unlock, Owners
    <2>3. Atomic!Release(t)
      BY <2>1, <2>2 DEF Atomic!Release
    <2> QED
      BY <2>3 DEF Atomic!Next
  <1>9. ASSUME NEW t \in Threads, Cancel(t) PROVE [Atomic!Next]_<<Owners, torn>>
    BY <1>3, <1>9 DEF Cancel, Owners
  <1>10. ASSUME NEW p \in Procs, Crash(p) PROVE [Atomic!Next]_<<Owners, torn>>
    <2> DEFINE mine == {t \in Threads : ProcOf[t] = p}
    <2>1. Owners' = Owners \ mine /\ torn' = (torn \/ mine \cap Owners # {})
      BY <1>2, <1>10 DEF Crash, Owners
    <2> HIDE DEF mine
    <2>2. CASE mine \cap Owners = {}
      <3>1. Owners' = Owners
        BY <2>1, <2>2
      <3>2. torn' = torn
        BY <1>2, <2>1, <2>2, Zenon
      <3> QED
        BY <1>3, <3>1, <3>2
    <2>3. CASE mine \cap Owners # {}
      <3>1. PICK t \in Threads : Owners = {t} /\ t \in mine
        BY <1>1, <2>3
      <3>2. Owners' = {}
        BY <2>1, <3>1
      <3>3. torn' = TRUE
        BY <2>1, <2>3, Zenon
      <3>4. Atomic!Die(t)
        BY <3>1, <3>2, <3>3 DEF Atomic!Die
      <3> QED
        BY <3>4 DEF Atomic!Next
    <2> QED
      BY <2>2, <2>3
  <1>11. ASSUME NEW p \in Procs, Reopen(p) PROVE [Atomic!Next]_<<Owners, torn>>
    BY <1>2, <1>3, <1>11 DEF Reopen, Revive, Owners
  <1>12. ASSUME NEW p \in Procs, Recover(p) PROVE [Atomic!Next]_<<Owners, torn>>
    <2>1. Owners = {} /\ Owners' = {} /\ torn' = FALSE
      BY <1>2, <1>12 DEF Recover, Revive, Owners
    <2>2. CASE torn
      <3>1. Atomic!Recover
        BY <2>1, <2>2 DEF Atomic!Recover
      <3> QED
        BY <3>1 DEF Atomic!Next
    <2>3. CASE ~torn
      BY <1>2, <1>3, <2>1, <2>3
    <2> QED
      BY <2>2, <2>3
  <1>13. CASE UNCHANGED vars
    BY <1>3, <1>13 DEF vars, Owners
  <1> QED
    BY <1>4, <1>5, <1>6, <1>7, <1>8, <1>9, <1>10, <1>11, <1>12, <1>13 DEF Next, Step

\* grn_io_lock, a counter that contenders without the lock pass through, implements a lock
\* that is taken and given back in one step: no interleaving of additions, time limits,
\* deaths and openings hands it from one thread to another in any other way.
THEOREM LockIsAtomic == Spec => Atomic!Spec
  <1>1. Init => Atomic!Init
    BY DEF Init, Owners, Atomic!Init
  <1>2. IInv /\ [Next]_vars => [Atomic!Next]_<<Owners, torn>>
    BY StepIsAtomic
  <1> QED
    BY <1>1, <1>2, Invariant, PTL DEF Spec, Atomic!Spec
=============================================================================
