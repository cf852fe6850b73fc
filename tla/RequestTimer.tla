---------------------------- MODULE RequestTimer ----------------------------
(***************************************************************************)
(* The request canceler and the request timer of the HTTP server.  A       *)
(* worker registers its request with the canceler (lib/request_canceler.c),*)
(* then with the timer (request_timer_register, src/groonga.c), executes   *)
(* the command and takes both registrations back.  Meanwhile the event     *)
(* loop walks over the expired timers and cancels their requests, and      *)
(* other clients cancel requests by their id.                              *)
(*                                                                         *)
(* A step is a body under one of the two mutexes, or one access to what a  *)
(* context shares without a mutex: its rc and current_request_timer_id.    *)
(* The loop's work takes no time; it polls for at most PollMax.  The tree  *)
(* of timers keeps a deleted node's key and value for a long while (a ring *)
(* of 256 deletions in lib/pat.c), so identifiers of timers are not reused.*)
(***************************************************************************)
EXTENDS Integers, Sequences, FiniteSets

CONSTANTS
    Workers,      \* worker threads, each with one context
    Timeouts,     \* request_timeout of the requests; 0: none
    ClientIds,    \* TRUE: each request has its own request_id;
                  \* FALSE: none has one
    PollMax,      \* 1000 msec
    MaxRequests,  \* bound: requests in one behaviour
    MaxNow,       \* bound: the clock
    MaxWrites     \* bound: how often the workers write rc

ASSUME TimeoutsAssumption == Timeouts \subseteq Nat
ASSUME PollAssumption == PollMax \in Nat
ASSUME BoundsAssumption ==
    MaxRequests \in Nat /\ MaxNow \in Nat /\ MaxWrites \in Nat
ASSUME IdsAssumption == ClientIds \in BOOLEAN

VARIABLES
    now,        \* the clock, in msec
    count,      \* requests so far: the newest one's number
    pc,         \* where each worker is
    request,    \* number of each worker's request
    timeout,    \* its request_timeout
    deadline,   \* ghost: the time at which it expires
    rc,         \* ctx->rc
    writes,     \* how often rc was written
    pending,    \* the value a worker writes to rc, having seen no GRN_CANCEL
    timerId,    \* ctx->impl->current_request_timer_id
    held,       \* a worker's local copy of a timer's identifier
    entries,    \* the canceler's hash: from request id to context
    canceller,  \* who holds the canceler's mutex in cancel_entry, and its locals
    nodes,      \* the nodes of the timer's tree: key, value and, ghost, owner
    live,       \* the nodes that are in the tree
    earliest,   \* earliest_unix_time_msec; 0: not known
    loop,       \* the event loop: "poll" or "scan"
    broken,     \* break_accept_event_loop() has interrupted the poll
    wake,       \* when the poll times out
    due,        \* the expired timers the cursor has still to return
    excused     \* ghost: requests whose cancel or timer was lost to a race

reqVars == <<pc, request, timeout, deadline, count>>
ctxVars == <<rc, writes, pending, timerId, held>>
timerVars == <<nodes, live, earliest>>
loopVars == <<loop, broken, wake, due>>
vars == <<now, reqVars, ctxVars, entries, canceller, timerVars, loopVars, excused>>

NIL == 0
NoOne == "no one"
ASSUME NoOneAssumption == NoOne \notin Workers
NoCancel == [by |-> "none", at |-> "none", ctx |-> NoOne, tid |-> NIL]

\* The request id of a worker's n-th request: the client's, or, when there is
\* none and the request has a timeout, the address of the context.
RequestIds == IF ClientIds THEN 1..MaxRequests ELSE Workers
RequestId(w, n) == IF ClientIds THEN n ELSE w
HasId(t) == ClientIds \/ t > 0

Init ==
    /\ now = 1 /\ count = 0
    /\ pc = [w \in Workers |-> "idle"]
    /\ request = [w \in Workers |-> 0]
    /\ timeout = [w \in Workers |-> 0]
    /\ deadline = [w \in Workers |-> 0]
    /\ rc = [w \in Workers |-> "success"]
    /\ writes = 0
    /\ pending = [w \in Workers |-> "none"]
    /\ timerId = [w \in Workers |-> NIL]
    /\ held = [w \in Workers |-> NIL]
    /\ entries = [i \in RequestIds |-> NoOne]
    /\ canceller = NoCancel
    /\ nodes = <<>> /\ live = {} /\ earliest = 0
    /\ loop = "poll" /\ broken = FALSE /\ wake = 1 + PollMax /\ due = {}
    /\ excused = {}

-----------------------------------------------------------------------------
(***************************************************************************)
(* The timer, each operation under its mutex.                              *)
(***************************************************************************)
Keys == {nodes[t].key : t \in live}

\* The first msec from d on that no timer has yet.
IsFreeKey(key, d) == key \notin Keys /\ \A k \in d..(key - 1) : k \in Keys

\* request_timer_register; the poll is interrupted for the first timer only.
AddTimer(w, key) ==
    /\ nodes' = Append(nodes, [key |-> key, id |-> RequestId(w, request[w]),
                               owner |-> request[w]])
    /\ live' = live \cup {Len(nodes) + 1}
    /\ earliest' = IF earliest = 0 \/ earliest > key THEN key ELSE earliest
    /\ broken' = (broken \/ live = {})

\* request_timer_unregister.  grn_pat_delete_by_id looks the node's key up and
\* deletes the entry that has it: another request's, when this one's is gone.
RemoveTimer(tid) ==
    LET key == nodes[tid].key
        gone == {t \in live : nodes[t].key = key}
    IN  /\ live' = live \ gone
        /\ earliest' = IF earliest >= key THEN 0 ELSE earliest
        /\ excused' = excused \cup {nodes[t].owner : t \in gone \ {tid}}
        /\ UNCHANGED nodes

-----------------------------------------------------------------------------
(***************************************************************************)
(* A worker.                                                               *)
(***************************************************************************)
\* The request gets its id and is registered with the canceler.
Begin(w, t) ==
    /\ pc[w] = "idle"
    /\ count < MaxRequests
    /\ canceller = NoCancel
    /\ count' = count + 1
    /\ request' = [request EXCEPT ![w] = count + 1]
    /\ timeout' = [timeout EXCEPT ![w] = t]
    /\ pc' = [pc EXCEPT ![w] = IF t > 0 THEN "timer" ELSE "exec"]
    /\ entries' = IF HasId(t) THEN [entries EXCEPT ![RequestId(w, count + 1)] = w]
                              ELSE entries
    /\ UNCHANGED <<now, deadline, ctxVars, canceller, timerVars, loopVars, excused>>

\* It is registered with the timer.
RegisterTimer(w) ==
    /\ pc[w] = "timer"
    /\ \E key \in now + timeout[w] .. now + timeout[w] + Len(nodes) :
          /\ IsFreeKey(key, now + timeout[w])
          /\ AddTimer(w, key)
    /\ held' = [held EXCEPT ![w] = Len(nodes) + 1]
    /\ deadline' = [deadline EXCEPT ![w] = now + timeout[w]]
    /\ pc' = [pc EXCEPT ![w] = "store"]
    /\ UNCHANGED <<now, request, timeout, count, rc, writes, pending, timerId, entries,
                   canceller, loop, wake, due, excused>>

\* The timer's identifier is stored into the context.
StoreTimer(w) ==
    /\ pc[w] = "store"
    /\ timerId' = [timerId EXCEPT ![w] = held[w]]
    /\ held' = [held EXCEPT ![w] = NIL]
    /\ pc' = [pc EXCEPT ![w] = "exec"]
    /\ UNCHANGED <<now, request, timeout, deadline, count, rc, writes, pending, entries,
                   canceller, timerVars, loopVars, excused>>

\* The command fails or enters an API function: GRN_API_ENTER, ERRCLR and ERR
\* look at rc and, if it is not GRN_CANCEL, write it.
CheckRc(w, value) ==
    /\ pc[w] = "exec" /\ pending[w] = "none"
    /\ rc[w] # "cancel"
    /\ writes < MaxWrites
    /\ writes' = writes + 1
    /\ pending' = [pending EXCEPT ![w] = value]
    /\ UNCHANGED <<now, reqVars, rc, timerId, held, entries, canceller, timerVars,
                   loopVars, excused>>

\* A GRN_CANCEL that has come since is overwritten.
WriteRc(w) ==
    /\ pending[w] # "none"
    /\ rc' = [rc EXCEPT ![w] = pending[w]]
    /\ pending' = [pending EXCEPT ![w] = "none"]
    /\ excused' = excused \cup {r \in {request[w]} : rc[w] = "cancel"}
    /\ UNCHANGED <<now, reqVars, writes, timerId, held, entries, canceller, timerVars,
                   loopVars>>

\* The command ends, by itself or because it has seen GRN_CANCEL, and
\* grn_ctx_send looks whether the context has a timer.
EndCommand(w) ==
    /\ pc[w] = "exec" /\ pending[w] = "none"
    /\ held' = [held EXCEPT ![w] = timerId[w]]
    /\ pc' = [pc EXCEPT ![w] = IF timerId[w] = NIL THEN "leave" ELSE "unregister"]
    /\ UNCHANGED <<now, request, timeout, deadline, count, rc, writes, pending, timerId,
                   entries, canceller, timerVars, loopVars, excused>>

\* Mutant: a cancelled request leaves its timer to the canceler.
UnregisterTimerUnlessCancelled(w) ==
    /\ pc[w] = "unregister"
    /\ timerId' = [timerId EXCEPT ![w] = NIL]
    /\ IF rc[w] = "cancel" THEN UNCHANGED <<timerVars, excused>> ELSE RemoveTimer(held[w])
    /\ held' = [held EXCEPT ![w] = NIL]
    /\ pc' = [pc EXCEPT ![w] = "leave"]
    /\ UNCHANGED <<now, request, timeout, deadline, count, rc, writes, pending, entries,
                   canceller, loopVars>>

\* It takes the timer back.
UnregisterTimer(w) ==
    /\ pc[w] = "unregister"
    /\ timerId' = [timerId EXCEPT ![w] = NIL]
    /\ RemoveTimer(held[w])
    /\ held' = [held EXCEPT ![w] = NIL]
    /\ pc' = [pc EXCEPT ![w] = "leave"]
    /\ UNCHANGED <<now, request, timeout, deadline, count, rc, writes, pending, entries,
                   canceller, loopVars>>

\* Mutant: rc is reset before the request has left the canceler.
LeaveUnregistered(w) ==
    /\ pc[w] = "leave"
    /\ pc' = [pc EXCEPT ![w] = "idle"]
    /\ rc' = [rc EXCEPT ![w] = "success"]
    /\ request' = [request EXCEPT ![w] = 0]
    /\ timeout' = [timeout EXCEPT ![w] = 0]
    /\ deadline' = [deadline EXCEPT ![w] = 0]
    /\ UNCHANGED <<now, count, writes, pending, timerId, held, entries, canceller, timerVars,
                   loopVars, excused>>

\* It leaves the canceler, and do_htreq resets a GRN_CANCEL that nobody can
\* set any more.
Leave(w) ==
    /\ pc[w] = "leave"
    /\ canceller = NoCancel
    /\ entries' = IF HasId(timeout[w])
                  THEN [entries EXCEPT ![RequestId(w, request[w])] = NoOne]
                  ELSE entries
    /\ rc' = [rc EXCEPT ![w] = "success"]
    /\ pc' = [pc EXCEPT ![w] = "idle"]
    /\ request' = [request EXCEPT ![w] = 0]
    /\ timeout' = [timeout EXCEPT ![w] = 0]
    /\ deadline' = [deadline EXCEPT ![w] = 0]
    /\ UNCHANGED <<now, count, writes, pending, timerId, held, canceller, timerVars, loopVars,
                   excused>>

-----------------------------------------------------------------------------
(***************************************************************************)
(* grn_request_canceler_cancel, by the event loop or by a client.  The     *)
(* canceler's mutex is held until the timer is unregistered.               *)
(***************************************************************************)
Cancel(by, id) ==
    LET w == entries[id]
    IN  IF w # NoOne /\ rc[w] = "success"
        THEN /\ rc' = [rc EXCEPT ![w] = "cancel"]
             /\ canceller' = [by |-> by, at |-> "read", ctx |-> w, tid |-> NIL]
             /\ UNCHANGED excused
        ELSE /\ UNCHANGED <<rc, canceller>>
             /\ excused' = IF w # NoOne /\ rc[w] = "error"
                           THEN excused \cup {request[w]} ELSE excused

\* request_cancel --id.
ClientCancel(id) ==
    /\ canceller = NoCancel
    /\ entries[id] # NoOne
    /\ Cancel("client", id)
    /\ UNCHANGED <<now, reqVars, writes, pending, timerId, held, entries, timerVars, loopVars>>

\* cancel_entry looks whether the context has a timer.
CancelRead ==
    /\ canceller.at = "read"
    /\ LET tid == timerId[canceller.ctx]
       IN  canceller' = IF tid = NIL THEN NoCancel
                        ELSE [canceller EXCEPT !.at = "unregister", !.tid = tid]
    /\ UNCHANGED <<now, reqVars, ctxVars, entries, timerVars, loopVars, excused>>

\* It takes the timer from the context and unregisters it.
CancelUnregister ==
    /\ canceller.at = "unregister"
    /\ timerId' = [timerId EXCEPT ![canceller.ctx] = NIL]
    /\ RemoveTimer(canceller.tid)
    /\ canceller' = NoCancel
    /\ UNCHANGED <<now, reqVars, rc, writes, pending, held, entries, loopVars>>

-----------------------------------------------------------------------------
(***************************************************************************)
(* The event loop.                                                         *)
(***************************************************************************)
\* Mutant: the cursor is not limited to the timers that have expired.
WakeUnbounded ==
    /\ loop = "poll"
    /\ loop' = "scan"
    /\ broken' = FALSE
    /\ due' = live
    /\ wake' = now
    /\ UNCHANGED <<now, reqVars, ctxVars, entries, canceller, timerVars, excused>>

\* The poll ends: its time is over, it is interrupted, or something arrived.
\* request_timer_process_timeout opens a cursor on the timers up to now.
Wake ==
    /\ loop = "poll"
    /\ loop' = "scan"
    /\ broken' = FALSE
    /\ due' = {t \in live : nodes[t].key <= now}
    /\ wake' = now
    /\ UNCHANGED <<now, reqVars, ctxVars, entries, canceller, timerVars, excused>>

IsFirst(t) == \A u \in due : nodes[t].key <= nodes[u].key

\* The cursor returns the next timer and the request of its value is
\* cancelled, even if the timer has been unregistered since.
ScanNext ==
    /\ loop = "scan"
    /\ canceller = NoCancel
    /\ \E t \in due :
          /\ IsFirst(t)
          /\ due' = due \ {t}
          /\ Cancel("loop", nodes[t].id)
    /\ UNCHANGED <<now, reqVars, writes, pending, timerId, held, entries, timerVars, loop,
                   broken, wake>>

\* Or the cursor does not see a timer that has been unregistered.
ScanSkip ==
    /\ loop = "scan"
    /\ canceller.by # "loop"
    /\ \E t \in due \ live : IsFirst(t) /\ due' = due \ {t}
    /\ UNCHANGED <<now, reqVars, ctxVars, entries, canceller, timerVars, loop, broken,
                   wake, excused>>

\* Mutant: the poll waits for the earliest timer, however late that is.
PollTimeUncapped(at) == IF at < now THEN now ELSE at

\* request_timer_get_poll_timeout: until the earliest timer, within limits.
PollTime(at) == IF at < now THEN now ELSE IF at > now + PollMax THEN now + PollMax ELSE at

Poll ==
    /\ loop = "scan" /\ due = {}
    /\ canceller.by # "loop"
    /\ loop' = "poll"
    /\ IF live = {}
       THEN wake' = now + PollMax /\ UNCHANGED earliest
       ELSE /\ earliest' \in IF earliest > 0 THEN {earliest}
                             ELSE {k \in Keys : \A l \in Keys : k <= l}
            /\ wake' = PollTime(earliest')
    /\ UNCHANGED <<now, reqVars, ctxVars, entries, canceller, nodes, live, broken, due,
                   excused>>

\* Time passes, but not while the loop has something to do.
Tick ==
    /\ loop = "poll" /\ now < wake /\ ~broken
    /\ now < MaxNow
    /\ now' = now + 1
    /\ UNCHANGED <<reqVars, ctxVars, entries, canceller, timerVars, loopVars, excused>>

-----------------------------------------------------------------------------
Worker(w) ==
    \/ \E t \in Timeouts : Begin(w, t)
    \/ RegisterTimer(w) \/ StoreTimer(w)
    \/ CheckRc(w, "success") \/ CheckRc(w, "error") \/ WriteRc(w)
    \/ EndCommand(w) \/ UnregisterTimer(w) \/ Leave(w)

Next ==
    \/ \E w \in Workers : Worker(w)
    \/ \E id \in RequestIds : ClientCancel(id)
    \/ CancelRead \/ CancelUnregister
    \/ Wake \/ ScanNext \/ ScanSkip \/ Poll \/ Tick

Spec == Init /\ [][Next]_vars

-----------------------------------------------------------------------------
TimerIds == 0..Len(nodes)
Running == {w \in Workers : pc[w] # "idle"}

RequestTypeOK ==
    /\ count \in 0..MaxRequests
    /\ pc \in [Workers -> {"idle", "timer", "store", "exec", "unregister", "leave"}]
    /\ request \in [Workers -> 0..MaxRequests]
    /\ timeout \in [Workers -> Nat]
    /\ deadline \in [Workers -> Nat]

ContextTypeOK ==
    /\ writes \in Nat
    /\ rc \in [Workers -> {"success", "error", "cancel"}]
    /\ pending \in [Workers -> {"none", "success", "error"}]
    /\ timerId \in [Workers -> TimerIds]
    /\ held \in [Workers -> TimerIds]

CancelerTypeOK ==
    /\ entries \in [RequestIds -> Workers \cup {NoOne}]
    /\ canceller \in [by : {"none", "loop", "client"}, at : {"none", "read", "unregister"},
                      ctx : Workers \cup {NoOne}, tid : TimerIds]

Node == [key : Nat, id : RequestIds, owner : 1..MaxRequests]

TimerTypeOK ==
    /\ nodes \in Seq(Node)
    /\ live \subseteq 1..Len(nodes)
    /\ earliest \in Nat

LoopTypeOK ==
    /\ now \in Nat /\ wake \in Nat
    /\ loop \in {"poll", "scan"} /\ broken \in BOOLEAN
    /\ due \subseteq 1..Len(nodes)
    /\ excused \subseteq 0..MaxRequests

TypeOK ==
    RequestTypeOK /\ ContextTypeOK /\ CancelerTypeOK /\ TimerTypeOK /\ LoopTypeOK

\* A request is cancelled by the timer only when its own timeout has passed,
\* although the cursor walks without the timer's mutex and the cancel may use
\* the value of a timer whose request has ended.
NoEarlyCancel ==
    [][\A w \in Workers :
          (due' # due /\ rc[w] # "cancel" /\ rc'[w] = "cancel") =>
              timeout[w] > 0 /\ now >= deadline[w]]_vars

\* No timer is left behind: someone who will unregister it still knows it,
\* although it is registered after the request, which may be cancelled before,
\* and the worker and the canceler both take it back.  A timer left behind
\* would keep the event loop from ever sleeping again once it has expired.
TimersAreOwned ==
    \A t \in live : \E w \in Running :
        /\ request[w] = nodes[t].owner
        /\ t \in {held[w], timerId[w]} \/ canceller.tid = t

\* A request that has a timeout runs for at most one poll longer than its
\* timer says, unless a race took its cancel or its timer away.
BoundedLateness ==
    \A t \in live : \A w \in Workers :
        (timerId[w] = t /\ rc[w] = "success" /\ request[w] \notin excused) =>
            now <= nodes[t].key + PollMax

\* As long as a request runs a cancel finds it, and what a cancel finds is the
\* request it names: the canceler has exactly the running requests.
CancellerIsExact ==
    \A i \in RequestIds : \A w \in Workers :
        (entries[i] = w) <=>
            (w \in Running /\ HasId(timeout[w]) /\ i = RequestId(w, request[w]))
=============================================================================
