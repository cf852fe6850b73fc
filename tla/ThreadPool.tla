----------------------------- MODULE ThreadPool -----------------------------
(***************************************************************************)
(* The worker threads of the HTTP server (src/groonga.c): h_handler hands  *)
(* a request to a worker, h_worker executes requests until there are too   *)
(* many workers or the server quits, the thread_limit command changes how  *)
(* many there may be, the shutdown command ends them all and               *)
(* run_server_loop waits for that.                                         *)
(*                                                                         *)
(* Every body between CRITICAL_SECTION_ENTER and LEAVE is one step, a body *)
(* that ends in COND_WAIT included.  A request is named by what its        *)
(* command does to the pool; "stuck" is a command that only ends when it   *)
(* is cancelled.                                                           *)
(***************************************************************************)
EXTENDS Integers, Sequences, FiniteSets

CONSTANTS
    Workers,         \* thread slots: enough for the largest limit
    Requests,        \* the requests clients send
    InitialLimit,    \* max_n_floating_threads as main sets it
    DefaultTimeout,  \* TRUE: --default-request-timeout is positive
    Mixes            \* bound: how many requests of each kind a behaviour may have

Kinds == {"command", "stuck", "thread_limit", "shutdown", "immediate"}

ASSUME WorkersAssumption == IsFiniteSet(Workers)
ASSUME LimitAssumption == InitialLimit \in 1..Cardinality(Workers)
ASSUME RequestsAssumption ==
    Requests \subseteq
        [kind : Kinds, max : 1..Cardinality(Workers), id : BOOLEAN]
ASSUME FlagAssumption == DefaultTimeout \in BOOLEAN
ASSUME BoundsAssumption == Mixes \subseteq [Kinds -> Nat]

VARIABLES
    queue,     \* ctx_new
    pc,        \* where each worker is; "off": the slot has no thread
    msg,       \* the request each worker took last
    cancelled, \* ctx->rc of each worker is GRN_CANCEL
    running,   \* n_running_threads
    floating,  \* n_floating_threads
    limit,     \* max_n_floating_threads
    changing,  \* n_changing_threads
    saved,     \* the locals of each thread_limit call in progress
    quit,      \* grn_gctx.stat = GRN_CTX_QUIT
    server,    \* run_server_loop: "poll", "drain" or "closed"
    sent,      \* how many requests of each kind were received
    failed,    \* ghost: THREAD_CREATE has failed once
    overlapped \* ghost: a thread_limit call has found another one in progress

poolVars == <<running, floating, limit, changing, saved>>
vars == <<queue, pc, msg, cancelled, running, floating, limit, changing, saved,
          quit, server, sent, failed, overlapped>>
ghosts == <<failed, overlapped>>

NoRequest == [kind |-> "command", max |-> 1, id |-> FALSE]
NoCall == [others |-> 0, limit |-> 1, signals |-> 0]

Limiting == {"limit_set", "limit_signal", "limit_check", "limit_sleep", "limit_end"}
Executing == {"exec"} \cup Limiting
Pc == {"off", "top", "wait", "woken", "work"} \cup Executing

Live == {w \in Workers : pc[w] # "off"}
Waiting == {w \in Workers : pc[w] = "wait"}
Floaters == {w \in Workers : pc[w] \in {"wait", "woken"}}
Changers == {w \in Workers : pc[w] \in Limiting}

\* The ways one COND_SIGNAL(q_cond) can leave the threads: it wakes one that waits.
Signalled(p) ==
    LET waiting == {w \in Workers : p[w] = "wait"}
    IN  IF waiting = {} THEN {p}
                        ELSE {[p EXCEPT ![w] = "woken"] : w \in waiting}

\* A request is in the canceler while its command runs, when it has an id; one
\* with a timeout and no id gets the address of its context as its id.
HasId(m) == m.id \/ DefaultTimeout
Registered == {w \in Workers : pc[w] \in Executing /\ HasId(msg[w])}

Init ==
    /\ queue = <<>>
    /\ pc = [w \in Workers |-> "off"]
    /\ msg = [w \in Workers |-> NoRequest]
    /\ cancelled = [w \in Workers |-> FALSE]
    /\ running = 0 /\ floating = 0 /\ limit = InitialLimit /\ changing = 0
    /\ saved = [w \in Workers |-> NoCall]
    /\ quit = FALSE
    /\ server = "poll"
    /\ sent = [k \in Kinds |-> 0]
    /\ failed = FALSE
    /\ overlapped = FALSE

-----------------------------------------------------------------------------
\* shutdown --mode immediate: grn_request_canceler_cancel_all() cancels every
\* registered request, that of the shutdown itself included, and a context that
\* has failed does not shut down.
ShutdownNow(error) ==
    /\ cancelled' = [w \in Workers |-> cancelled[w] \/ w \in Registered]
    /\ quit' = (quit \/ ~error)

(***************************************************************************)
(* The event loop thread.                                                  *)
(***************************************************************************)
MayReceive(m) ==
    /\ server = "poll"
    /\ [sent EXCEPT ![m.kind] = @ + 1] \in Mixes

\* h_handler executes exactly "/d/shutdown?mode=immediate" itself when it
\* finds no thread that could.
HandlesItself(m) ==
    floating = 0 /\ running = limit /\ m.kind = "immediate" /\ ~m.id

HandleItself(m) ==
    /\ MayReceive(m)
    /\ HandlesItself(m)
    /\ ShutdownNow(DefaultTimeout)
    /\ sent' = [sent EXCEPT ![m.kind] = @ + 1]
    /\ UNCHANGED <<queue, pc, msg, poolVars, server, ghosts>>

NeedsThread == floating = 0 /\ running < limit

\* THREAD_CREATE succeeds in one of the free slots.
StartThread ==
    /\ NeedsThread
    /\ running' = running + 1
    /\ \E w \in Workers :
          /\ pc[w] = "off"
          /\ pc' \in Signalled([pc EXCEPT ![w] = "top"])
          /\ cancelled' = [cancelled EXCEPT ![w] = FALSE]
    /\ UNCHANGED failed

\* Mutant: the failed thread stays counted.
StartFailsCounted ==
    /\ NeedsThread
    /\ pc' \in Signalled(pc)
    /\ running' = running + 1
    /\ failed' = TRUE
    /\ UNCHANGED cancelled

\* THREAD_CREATE fails: the thread counted in advance is taken out again.
StartFails ==
    /\ NeedsThread
    /\ pc' \in Signalled(pc)
    /\ failed' = TRUE
    /\ UNCHANGED <<running, cancelled>>

\* Mutant: a request for a running pool is queued without COND_SIGNAL.
SignalForgotten ==
    /\ ~NeedsThread
    /\ UNCHANGED <<pc, running, cancelled, failed>>

SignalOnly ==
    /\ ~NeedsThread
    /\ pc' \in Signalled(pc)
    /\ UNCHANGED <<running, cancelled, failed>>

\* h_handler queues the request, starts a thread when none is free and one more
\* is allowed, and signals.
Enqueue(m) ==
    /\ MayReceive(m)
    /\ ~HandlesItself(m)
    /\ queue' = Append(queue, m)
    /\ sent' = [sent EXCEPT ![m.kind] = @ + 1]
    /\ StartThread \/ StartFails \/ SignalOnly
    /\ UNCHANGED <<msg, floating, limit, changing, saved, quit, server, overlapped>>

\* A request with an id is cancelled: by its timer, or by request_cancel.
Cancel(w) ==
    /\ server # "closed"
    /\ w \in Registered /\ ~cancelled[w]
    /\ cancelled' = [cancelled EXCEPT ![w] = TRUE]
    /\ UNCHANGED <<queue, pc, msg, poolVars, quit, server, sent, ghosts>>

\* run_server_loop leaves the event loop; grn_com_event_poll returns at the
\* latest after one second.
LeaveLoop ==
    /\ server = "poll" /\ quit
    /\ server' = "drain"
    /\ UNCHANGED <<queue, pc, msg, cancelled, poolVars, quit, sent, ghosts>>

\* One round of its second loop: as many signals as there are floating threads,
\* which is enough for all that wait, and the end when no thread is left.
Drain ==
    /\ server = "drain"
    /\ \E woken \in SUBSET Waiting :
          /\ \/ woken = Waiting /\ Cardinality(Waiting) <= floating
             \/ Cardinality(woken) = floating
          /\ pc' = [w \in Workers |-> IF w \in woken THEN "woken" ELSE pc[w]]
    /\ server' = IF running = 0 THEN "closed" ELSE "drain"
    /\ UNCHANGED <<queue, msg, cancelled, poolVars, quit, sent, ghosts>>

-----------------------------------------------------------------------------
(***************************************************************************)
(* h_worker.                                                               *)
(***************************************************************************)
\* Mutant: a thread too few may stay.
MayStayBelow == running < limit /\ ~quit

MayStay == running <= limit /\ ~quit

\* The worker's thread ends.
Exit(w) ==
    /\ pc' = [pc EXCEPT ![w] = "off"]
    /\ running' = running - 1
    /\ UNCHANGED <<queue, msg>>

\* The worker takes the oldest request.
Take(w) ==
    /\ queue # <<>>
    /\ msg' = [msg EXCEPT ![w] = Head(queue)]
    /\ queue' = Tail(queue)
    /\ pc' = [pc EXCEPT ![w] = "work"]
    /\ UNCHANGED running

\* The worker waits on q_cond.
Wait(w) ==
    /\ queue = <<>>
    /\ pc' = [pc EXCEPT ![w] = "wait"]
    /\ UNCHANGED <<queue, msg, running>>

\* Mutant: a thread waits before it looks at the queue.
TopWaitsFirst(w) ==
    /\ pc[w] = "top"
    /\ \/ ~MayStay /\ Exit(w) /\ UNCHANGED <<floating, cancelled>>
       \/ /\ MayStay
          /\ cancelled' = [cancelled EXCEPT ![w] = FALSE]
          /\ pc' = [pc EXCEPT ![w] = "wait"] /\ floating' = floating + 1
          /\ UNCHANGED <<queue, msg, running>>
    /\ UNCHANGED <<limit, changing, saved, quit, server, sent, ghosts>>

\* The head of h_worker's outer loop.
Top(w) ==
    /\ pc[w] = "top"
    /\ \/ ~MayStay /\ Exit(w) /\ UNCHANGED <<floating, cancelled>>
       \/ /\ MayStay
          /\ cancelled' = [cancelled EXCEPT ![w] = FALSE]
          /\ \/ Take(w) /\ UNCHANGED floating
             \/ Wait(w) /\ floating' = floating + 1
    /\ UNCHANGED <<limit, changing, saved, quit, server, sent, ghosts>>

\* Mutant: a woken thread does not look whether the server quits.
WakeIgnoresQuit(w) ==
    /\ pc[w] = "woken"
    /\ \/ running > limit /\ Exit(w) /\ floating' = floating - 1
       \/ /\ running <= limit
          /\ \/ Take(w) /\ floating' = floating - 1
             \/ Wait(w) /\ UNCHANGED floating
    /\ UNCHANGED <<cancelled, limit, changing, saved, quit, server, sent, ghosts>>

\* A worker returns from COND_WAIT.
Wake(w) ==
    /\ pc[w] = "woken"
    /\ \/ ~MayStay /\ Exit(w) /\ floating' = floating - 1
       \/ /\ MayStay
          /\ \/ Take(w) /\ floating' = floating - 1
             \/ Wait(w) /\ UNCHANGED floating
    /\ UNCHANGED <<cancelled, limit, changing, saved, quit, server, sent, ghosts>>

\* COND_WAIT may return without a signal.
SpuriousWake(w) ==
    /\ pc[w] = "wait"
    /\ pc' = [pc EXCEPT ![w] = "woken"]
    /\ UNCHANGED <<queue, msg, cancelled, poolVars, quit, server, sent, ghosts>>

\* do_htreq has read the request: grn_ctx_qe_exec_uri registers it with the
\* canceler and executes the command.
Execute(w) ==
    /\ pc[w] = "work"
    /\ pc' = [pc EXCEPT ![w] = "exec"]
    /\ UNCHANGED <<queue, msg, cancelled, poolVars, quit, server, sent, ghosts>>

\* The command ends and do_htreq closes the request.
Done(w) ==
    /\ pc' = [pc EXCEPT ![w] = "top"]
    /\ msg' = [msg EXCEPT ![w] = NoRequest]

\* A command that does not touch the pool ends.
Finish(w) ==
    /\ pc[w] = "exec"
    /\ msg[w].kind = "command" \/ (msg[w].kind = "stuck" /\ cancelled[w])
    /\ Done(w)
    /\ UNCHANGED <<queue, cancelled, poolVars, quit, server, sent, ghosts>>

\* proc_shutdown.
Shutdown(w) ==
    /\ pc[w] = "exec"
    /\ \/ /\ msg[w].kind = "shutdown"
          /\ quit' = (quit \/ ~cancelled[w])
          /\ UNCHANGED cancelled
       \/ /\ msg[w].kind = "immediate"
          /\ ShutdownNow(HasId(msg[w]) \/ cancelled[w])
    /\ Done(w)
    /\ UNCHANGED <<queue, poolVars, server, sent, ghosts>>

-----------------------------------------------------------------------------
(***************************************************************************)
(* groonga_set_thread_limit_with_ctx, in the worker that executes          *)
(* thread_limit.                                                           *)
(***************************************************************************)
\* It counts itself, and remembers how many calls were in progress.
LimitEnter(w) ==
    /\ pc[w] = "exec" /\ msg[w].kind = "thread_limit"
    /\ changing' = changing + 1
    /\ overlapped' = (overlapped \/ changing > 0)
    /\ saved' = [saved EXCEPT ![w] = [others |-> changing, limit |-> 1, signals |-> 0]]
    /\ pc' = [pc EXCEPT ![w] = "limit_set"]
    /\ UNCHANGED <<queue, msg, cancelled, running, floating, limit, quit, server, sent, failed>>

\* It sets the limit; with another call in progress that is all it does.
LimitSet(w) ==
    /\ pc[w] = "limit_set"
    /\ limit' = msg[w].max
    /\ saved' = [saved EXCEPT ![w] =
                   [others |-> saved[w].others, limit |-> limit,
                    signals |-> IF floating > msg[w].max THEN floating ELSE 0]]
    /\ pc' = [pc EXCEPT ![w] = IF saved[w].others > 0 THEN "limit_end"
                               ELSE "limit_signal"]
    /\ UNCHANGED <<queue, msg, cancelled, running, floating, changing, quit, server, sent, ghosts>>

\* It signals once for every thread that was floating when it set the limit.
LimitSignal(w) ==
    /\ pc[w] = "limit_signal"
    /\ IF saved[w].signals > 0
       THEN /\ pc' \in Signalled(pc)
            /\ saved' = [saved EXCEPT ![w] =
                           [others |-> saved[w].others, limit |-> saved[w].limit,
                            signals |-> saved[w].signals - 1]]
       ELSE /\ pc' = [pc EXCEPT ![w] = "limit_check"]
            /\ UNCHANGED saved
    /\ UNCHANGED <<queue, msg, cancelled, running, floating, limit, changing, quit,
                   server, sent, ghosts>>

IsReduced == running <= limit

\* Mutant: it only looks.
LimitCheckSilent(w) ==
    /\ pc[w] = "limit_check"
    /\ pc' = [pc EXCEPT ![w] = IF IsReduced THEN "limit_end" ELSE "limit_sleep"]
    /\ UNCHANGED <<queue, msg, cancelled, poolVars, quit, server, sent, ghosts>>

\* It looks whether enough threads have ended, and signals a floating one if not.
LimitCheck(w) ==
    /\ pc[w] = "limit_check"
    /\ IF IsReduced
       THEN pc' = [pc EXCEPT ![w] = "limit_end"]
       ELSE pc' \in LET p == [pc EXCEPT ![w] = "limit_sleep"]
                    IN  IF floating > 0 THEN Signalled(p) ELSE {p}
    /\ UNCHANGED <<queue, msg, cancelled, poolVars, quit, server, sent, ghosts>>

\* It sleeps and looks again, or, cancelled, puts the old limit back.
LimitSleep(w) ==
    /\ pc[w] = "limit_sleep"
    /\ IF cancelled[w]
       THEN /\ limit' = saved[w].limit
            /\ pc' = [pc EXCEPT ![w] = "limit_end"]
       ELSE /\ pc' = [pc EXCEPT ![w] = "limit_check"]
            /\ UNCHANGED limit
    /\ UNCHANGED <<queue, msg, cancelled, running, floating, changing, saved, quit,
                   server, sent, ghosts>>

\* It is no longer counted, and the command ends.
LimitLeave(w) ==
    /\ pc[w] = "limit_end"
    /\ changing' = changing - 1
    /\ saved' = [saved EXCEPT ![w] = NoCall]
    /\ Done(w)
    /\ UNCHANGED <<queue, cancelled, running, floating, limit, quit, server, sent, ghosts>>

-----------------------------------------------------------------------------
Handle(m) == HandleItself(m) \/ Enqueue(m)

Worker(w) ==
    \/ Top(w) \/ Wake(w) \/ Execute(w) \/ Finish(w) \/ Shutdown(w)
    \/ LimitEnter(w) \/ LimitSet(w) \/ LimitSignal(w) \/ LimitCheck(w)
    \/ LimitSleep(w) \/ LimitLeave(w)

Next ==
    \/ \E m \in Requests : Handle(m)
    \/ \E w \in Workers : Worker(w) \/ Cancel(w) \/ SpuriousWake(w)
    \/ LeaveLoop \/ Drain

Spec == Init /\ [][Next]_vars

\* Every thread gets processor time, and a command ends unless it is stuck.
Fairness == WF_vars(LeaveLoop) /\ WF_vars(Drain) /\ \A w \in Workers : WF_vars(Worker(w))

FairSpec == Spec /\ Fairness

-----------------------------------------------------------------------------
TypeOK ==
    /\ queue \in Seq(Requests)
    /\ pc \in [Workers -> Pc]
    /\ msg \in [Workers -> Requests \cup {NoRequest}]
    /\ cancelled \in [Workers -> BOOLEAN]
    /\ running \in Nat /\ floating \in Nat /\ changing \in Nat
    /\ limit \in 1..Cardinality(Workers)
    /\ saved \in [Workers -> [others : Nat, limit : 1..Cardinality(Workers), signals : Nat]]
    /\ quit \in BOOLEAN
    /\ server \in {"poll", "drain", "closed"}
    /\ sent \in [Kinds -> Nat]
    /\ failed \in BOOLEAN
    /\ overlapped \in BOOLEAN

\* The three counters h_handler, h_worker and thread_limit decide by are right
\* whatever the threads do between two critical sections: n_running_threads
\* counts the threads, n_floating_threads those between the two changes around
\* COND_WAIT and n_changing_threads the thread_limit calls in progress.
CountersAgree ==
    /\ running = Cardinality(Live)
    /\ floating = Cardinality(Floaters)
    /\ changing = Cardinality(Changers)

\* No lost wake-up: while a request is queued and the server is not quitting,
\* some thread is up and will look at the queue, although a thread that ends
\* because of the limit consumes a signal meant for a request.  It holds until two
\* thread_limit calls overlap: one that counts on the other, or a cancelled one that
\* puts an old limit back, can leave all the others waiting.
SomeoneAwake ==
    (queue # <<>> /\ ~quit /\ ~failed /\ ~overlapped) =>
        \E w \in Workers : pc[w] \notin {"off", "wait"}

\* Threads that end because of a lower limit never leave the pool empty: once
\* started, it has a thread until shutdown, as long as no THREAD_CREATE fails.
PoolSurvives ==
    (~quit /\ ~failed /\ \E k \in Kinds : sent[k] > 0) => running >= 1

\* A command that has not ended by itself may hold a thread for ever; the
\* liveness properties are about servers that never got one.
NoStuckCommand == sent["stuck"] = 0

\* A queued request is taken by a thread, unless the server quits first; after a
\* failed THREAD_CREATE, or overlapping thread_limit calls, it may have to wait for
\* the next request.
Served ==
    queue # <<>> ~> (queue = <<>> \/ quit \/ failed \/ overlapped \/ ~NoStuckCommand)

\* The number of threads comes down to a lowered limit, whatever the threads are
\* doing then and however often the limit is changed or put back, until two calls of
\* thread_limit overlap: the second one counts on the first to end the threads, and
\* the first may already have found nothing to reduce.
LimitIsReached == running > limit ~> (running <= limit \/ overlapped \/ ~NoStuckCommand)

\* Once it has quit, gracefully or immediately, the server stops, although
\* threads wait, execute or are in the middle of a thread_limit call that itself
\* waits for threads to end.
ShutdownEnds == quit ~> (server = "closed" \/ ~NoStuckCommand)
=============================================================================
