----------------------------- MODULE AtomicLock -----------------------------
(***************************************************************************)
(* What the lock of a grn_io promises those who use it: it goes from one   *)
(* holder to the next only by being given back, and what a holder that     *)
(* died has left half done is seen by nobody before it is recovered.       *)
(***************************************************************************)
CONSTANT Threads

VARIABLES
    holders,  \* the threads to which grn_io_lock has returned GRN_SUCCESS
    torn      \* a holder died and there was no recovery since

Init == holders = {} /\ torn = FALSE

Acquire(t) ==
    /\ holders = {} /\ ~torn
    /\ holders' = {t}
    /\ UNCHANGED torn

Release(t) ==
    /\ holders = {t}
    /\ holders' = {}
    /\ UNCHANGED torn

Die(t) ==
    /\ holders = {t}
    /\ holders' = {}
    /\ torn' = TRUE

Recover ==
    /\ holders = {} /\ torn
    /\ torn' = FALSE
    /\ UNCHANGED holders

Next == Recover \/ \E t \in Threads : Acquire(t) \/ Release(t) \/ Die(t)

Spec == Init /\ [][Next]_<<holders, torn>>
=============================================================================
