------------------------------- MODULE IoLock -------------------------------
(***************************************************************************)
(* The advisory lock of a grn_io (lib/io.c: grn_io_lock, grn_io_unlock,    *)
(* grn_io_clear_lock, grn_io_is_locked).                                   *)
(*                                                                         *)
(* The lock is one uint32_t in the header of the memory-mapped file, so it *)
(* is shared by every thread of every process that has the file open and   *)
(* it survives the death of a process.  A contender adds 1 and looks at    *)
(* the value it added to: 0 means it owns the lock, anything else means it *)
(* must take its 1 back and try again after a sleep.  Between the two      *)
(* additions a contender that does not own the lock is counted in it.      *)
(***************************************************************************)
EXTENDS Integers, FiniteSets

CONSTANTS
    Threads,         \* every thread that may lock this io
    Procs,           \* the processes they live in
    ProcOf,          \* ProcOf[t]: the process of thread t
    Timeouts,        \* the timeouts callers pass (-1 waits for ever, 0 tries once)
    RcCheckInterval, \* rc_check_interval: the tries between two looks at ctx->rc
    LockModulus,     \* 2^32 in the code: the width of the lock word
    MaxLeft          \* bound: increments that dead threads may have left behind

ASSUME ThreadsAssumption == IsFiniteSet(Threads)
ASSUME ProcOfAssumption == ProcOf \in [Threads -> Procs]
ASSUME TimeoutsAssumption == Timeouts \subseteq Int
ASSUME IntervalAssumption == RcCheckInterval \in Nat \ {0}
ASSUME WidthAssumption ==
    /\ MaxLeft \in Nat
    /\ LockModulus \in Nat
    /\ MaxLeft + Cardinality(Threads) < LockModulus

VARIABLES
    lock,    \* *io->lock
    pc,      \* where each thread is in grn_io_lock ("dead": its process died)
    call,    \* the timeout and the loop counter of each call in progress
    rc,      \* ctx->rc of each thread
    left,    \* ghost: how many increments in lock belong to dead threads
    torn     \* ghost: a process died while one of its threads owned the lock

vars == <<lock, pc, call, rc, left, torn>>

Pc == {"idle", "try", "backoff", "check", "locked", "dead"}
Rc == {"success", "cancel", "deadlock_avoided"}
NoCall == [timeout |-> 0, count |-> 0]

\* The threads whose increment is in the lock word, owner or not.
Counted == {t \in Threads : pc[t] \in {"backoff", "locked"}}
Owners == {t \in Threads : pc[t] = "locked"}
Waiting == {"try", "backoff", "check"}

Init ==
    /\ lock = 0
    /\ pc = [t \in Threads |-> "idle"]
    /\ call = [t \in Threads |-> NoCall]
    /\ rc = [t \in Threads |-> "success"]
    /\ left = 0
    /\ torn = FALSE

\* The caller enters grn_io_lock: as the first step of a new request, which
\* has cleared ctx->rc, or later in a request that may already have failed or
\* been cancelled.
Call(t, limit) ==
    /\ pc[t] = "idle"
    /\ pc' = [pc EXCEPT ![t] = "try"]
    /\ call' = [call EXCEPT ![t] = [timeout |-> limit, count |-> 0]]
    /\ \E r \in {rc[t], "success"} : rc' = [rc EXCEPT ![t] = r]
    /\ UNCHANGED <<lock, left, torn>>

\* GRN_ATOMIC_ADD_EX(io->lock, 1, lock): the old value decides.
TryAdd(t) ==
    /\ pc[t] = "try"
    /\ lock' = (lock + 1) % LockModulus
    /\ pc' = [pc EXCEPT ![t] = IF lock = 0 THEN "locked" ELSE "backoff"]
    /\ UNCHANGED <<call, rc, left, torn>>

\* Mutants of BackOff: the contender stores 0, or keeps its increment.
BackOffStoresZero(t) ==
    /\ pc[t] = "backoff"
    /\ lock' = 0
    /\ pc' = [pc EXCEPT ![t] = "check"]
    /\ UNCHANGED <<call, rc, left, torn>>
BackOffForgets(t) ==
    /\ pc[t] = "backoff"
    /\ pc' = [pc EXCEPT ![t] = "check"]
    /\ UNCHANGED <<lock, call, rc, left, torn>>
\* GRN_ATOMIC_ADD_EX(io->lock, -1, lock) of a contender that lost.
BackOff(t) ==
    /\ pc[t] = "backoff"
    /\ lock' = (lock - 1) % LockModulus
    /\ pc' = [pc EXCEPT ![t] = "check"]
    /\ UNCHANGED <<call, rc, left, torn>>

TimedOut(t) ==
    \/ call[t].timeout = 0
    \/ call[t].timeout > 0 /\ call[t].timeout = call[t].count
Interrupted(t) == call[t].count % RcCheckInterval = 0 /\ rc[t] # "success"

\* Mutant of NextCount: a lost try is not counted.
NextCountStuck(t) == call[t].count

\* A waiter without a time limit only uses its counter modulo the interval,
\* which is how it is kept here.
NextCount(t) ==
    IF call[t].timeout < 0
    THEN (call[t].count + 1) % RcCheckInterval
    ELSE call[t].count + 1

\* After a lost try: time out with an error, give up because the request was
\* cancelled, or sleep and go round again.
GiveUpOrRetry(t) ==
    /\ pc[t] = "check"
    /\ \/ /\ TimedOut(t)
          /\ pc' = [pc EXCEPT ![t] = "idle"]
          /\ rc' = [rc EXCEPT ![t] = IF @ = "cancel" THEN @ ELSE "deadlock_avoided"]
          /\ call' = [call EXCEPT ![t] = NoCall]
       \/ /\ ~TimedOut(t)
          /\ Interrupted(t)
          /\ pc' = [pc EXCEPT ![t] = "idle"]
          /\ call' = [call EXCEPT ![t] = NoCall]
          /\ UNCHANGED rc
       \/ /\ ~TimedOut(t)
          /\ ~Interrupted(t)
          /\ pc' = [pc EXCEPT ![t] = "try"]
          /\ call' = [call EXCEPT ![t] = [timeout |-> @.timeout, count |-> NextCount(t)]]
          /\ UNCHANGED rc
    /\ UNCHANGED <<lock, left, torn>>

Unlock(t) ==
    /\ pc[t] = "locked"
    /\ lock' = (lock - 1) % LockModulus
    /\ pc' = [pc EXCEPT ![t] = "idle"]
    /\ call' = [call EXCEPT ![t] = NoCall]
    /\ UNCHANGED <<rc, left, torn>>

\* Another thread cancels the request of this one (request_canceler.c).
Cancel(t) ==
    /\ pc[t] \in Waiting \cup {"locked"}
    /\ rc[t] = "success"
    /\ rc' = [rc EXCEPT ![t] = "cancel"]
    /\ UNCHANGED <<lock, pc, call, left, torn>>

\* A process dies.  Its threads' increments stay in the mapped file.
Crash(p) ==
    LET mine == {t \in Threads : ProcOf[t] = p}
        lost == Cardinality(mine \cap Counted)
    IN  /\ \E t \in mine : pc[t] # "dead"
        /\ left + lost <= MaxLeft
        /\ left' = left + lost
        /\ torn' = (torn \/ mine \cap Owners # {})
        /\ pc' = [t \in Threads |-> IF t \in mine THEN "dead" ELSE pc[t]]
        /\ call' = [t \in Threads |-> IF t \in mine THEN NoCall ELSE call[t]]
        /\ rc' = [t \in Threads |-> IF t \in mine THEN "success" ELSE rc[t]]
        /\ UNCHANGED lock

Revive(p) ==
    pc' = [t \in Threads |-> IF ProcOf[t] = p THEN "idle" ELSE pc[t]]

\* Mutant of Reopen: every open clears a lock it finds set.
ReopenClears(p) ==
    /\ \A t \in Threads : ProcOf[t] = p => pc[t] = "dead"
    /\ Revive(p)
    /\ lock' = 0
    /\ UNCHANGED <<call, rc, left, torn>>

\* A process opens the database without recovering it (a secondary, or a
\* process without the WAL): the lock word stays as it is.
Reopen(p) ==
    /\ \A t \in Threads : ProcOf[t] = p => pc[t] = "dead"
    /\ Revive(p)
    /\ UNCHANGED <<lock, call, rc, left, torn>>

\* The primary opens the database and recovers it while nobody else has it
\* open: if the io is locked, the writer died and the lock is cleared.
Recover(p) ==
    /\ \A t \in Threads : pc[t] = "dead"
    /\ lock' = IF lock # 0 THEN 0 ELSE lock
    /\ left' = 0
    /\ torn' = FALSE
    /\ Revive(p)
    /\ UNCHANGED <<call, rc>>

Step(t) == TryAdd(t) \/ BackOff(t) \/ GiveUpOrRetry(t)

Next ==
    \/ \E t \in Threads :
          \/ \E limit \in Timeouts : Call(t, limit)
          \/ Step(t)
          \/ Unlock(t)
          \/ Cancel(t)
    \/ \E p \in Procs : Crash(p) \/ Reopen(p) \/ Recover(p)

Spec == Init /\ [][Next]_vars

\* The operating system runs every thread that is not blocked: a thread in
\* the body of grn_io_lock takes its next step.  Nothing is assumed about
\* callers, owners, cancellation or crashes.
FairSpec == Spec /\ \A t \in Threads : WF_vars(Step(t))

-----------------------------------------------------------------------------
TypeOK ==
    /\ lock \in 0 .. LockModulus - 1
    /\ pc \in [Threads -> Pc]
    /\ call \in [Threads -> [timeout : Int, count : Nat]]
    /\ rc \in [Threads -> Rc]
    /\ left \in 0 .. MaxLeft
    /\ torn \in BOOLEAN

\* grn_io_lock returns GRN_SUCCESS to at most one thread at a time, whatever
\* contenders, timeouts, crashes and recoveries do in between.
MutualExclusion == \A s, t \in Owners : s = t

\* Once a writer has died inside its critical section nobody gets the lock
\* before a recovery has run, so nobody works on the half-written data, and
\* grn_io_is_locked reports the crash to that recovery.
TornDataIsFenced == torn => lock # 0 /\ Owners = {}

\* The lock word is exactly the increments of living contenders and owners
\* and of the dead: no unlock, back-off or recovery loses or invents one.
LockWordCounts == lock = Cardinality(Counted) + left

\* A waiter with a time limit, or whose request was cancelled or has failed, leaves
\* grn_io_lock even when the owner never unlocks (timeout, rc_check_interval).
BoundedWait ==
    \A t \in Threads :
        (pc[t] \in Waiting /\ (call[t].timeout >= 0 \/ rc[t] # "success"))
            ~> (pc[t] \notin Waiting)
=============================================================================
