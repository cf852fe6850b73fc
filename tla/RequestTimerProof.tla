------------------------- MODULE RequestTimerProof --------------------------
(***************************************************************************)
(* Proofs about the request timer and the canceler, for any number of      *)
(* workers and requests and any timeouts.                                  *)
(***************************************************************************)
EXTENDS RequestTimer, TLAPS

\* What each place of a worker says about its fields.
Shape ==
    \A w \in Workers :
        /\ pc[w] = "idle" => request[w] = 0 /\ timeout[w] = 0
        /\ pc[w] # "idle" => request[w] \in 1..count
        /\ pc[w] \in {"timer", "store"} => timeout[w] > 0
        /\ pc[w] \in {"idle", "timer", "store", "leave"} => timerId[w] = NIL
        /\ (held[w] # NIL) <=> (pc[w] \in {"store", "unregister"})
        /\ pc[w] = "unregister" => timerId[w] \in {NIL, held[w]}

\* Two workers never have the same request.
Distinct ==
    \A w, v \in Running : request[w] = request[v] => w = v

\* A timer that a worker knows is that of its request, which has a timeout and
\* expires no later than the timer.
Owners ==
    /\ \A t \in 1..Len(nodes) : nodes[t].owner <= count
    /\ \A w \in Workers : held[w] # NIL => nodes[held[w]].owner = request[w]
    /\ \A w \in Workers : timerId[w] # NIL => nodes[timerId[w]].owner = request[w]

\* A request has no timer before it registers one.
Expiry ==
    \A w \in Running : \A t \in 1..Len(nodes) :
        nodes[t].owner = request[w] =>
            pc[w] # "timer" /\ timeout[w] > 0 /\ deadline[w] <= nodes[t].key

\* The holder of the canceler's mutex works on a running request.
Holder ==
    /\ canceller.at = "none" => canceller = NoCancel
    /\ canceller.at = "read" => canceller.ctx \in Running /\ canceller.tid = NIL
    /\ canceller.at = "unregister" =>
          /\ canceller.ctx \in Running
          /\ pc[canceller.ctx] \in {"exec", "unregister", "leave"}
          /\ canceller.tid # NIL
          /\ nodes[canceller.tid].owner = request[canceller.ctx]
          /\ timerId[canceller.ctx] \in {NIL, canceller.tid}

\* What the cursor has still to return has expired.
DueExpired == \A t \in due : nodes[t].key <= now

\* A client's id of a timer's request is its number.
Values == \A t \in 1..Len(nodes) : ClientIds => nodes[t].id = nodes[t].owner

IInv ==
    /\ TypeOK /\ Shape /\ Distinct /\ Owners /\ Expiry /\ Holder /\ DueExpired /\ Values
    /\ CancellerIsExact /\ TimersAreOwned


-----------------------------------------------------------------------------

LEMMA NodeType ==
    ASSUME TimerTypeOK, NEW t \in 1..Len(nodes)
    PROVE  /\ nodes[t].key \in Nat
           /\ nodes[t].owner \in 1..MaxRequests
           /\ nodes[t].id \in RequestIds
<1>1. nodes[t] \in Node
    BY DEF TimerTypeOK
<1> QED BY <1>1 DEF Node

\* Unregistering a timer leaves it, and perhaps others, out of the tree.
LEMMA RemoveTimerFacts ==
    ASSUME TimerTypeOK, LoopTypeOK, NEW tid \in 1..Len(nodes), RemoveTimer(tid)
    PROVE  /\ live' \subseteq live \ {tid}
           /\ nodes' = nodes
           /\ earliest' \in Nat
           /\ excused' \subseteq 0..MaxRequests
<1>1. \A t \in 1..Len(nodes) : nodes[t].key \in Nat /\ nodes[t].owner \in 1..MaxRequests
    BY NodeType
<1>2. live \subseteq 1..Len(nodes) /\ earliest \in Nat /\ excused \subseteq 0..MaxRequests
    BY DEF TimerTypeOK, LoopTypeOK
<1>3. {nodes[t].owner : t \in {u \in live : nodes[u].key = nodes[tid].key} \ {tid}}
        \subseteq 0..MaxRequests
  <2>1. 1..MaxRequests \subseteq 0..MaxRequests
    BY BoundsAssumption
  <2>2. \A t \in live : nodes[t].owner \in 1..MaxRequests
    BY <1>1, <1>2
  <2> QED BY <2>1, <2>2
<1>4. live' \subseteq live \ {tid} /\ nodes' = nodes /\ earliest' \in Nat
    BY <1>1, <1>2 DEF RemoveTimer
<1>5. excused' = excused \cup
          {nodes[t].owner : t \in {u \in live : nodes[u].key = nodes[tid].key} \ {tid}}
    BY DEF RemoveTimer
<1> QED BY <1>2, <1>3, <1>4, <1>5

\* A cancel changes rc and takes the canceler's mutex for a running request, or
\* finds nothing to cancel.
LEMMA CancelFacts ==
    ASSUME IInv, NEW by \in {"loop", "client"}, NEW id \in RequestIds, canceller = NoCancel,
           Cancel(by, id)
    PROVE  /\ excused' \subseteq 0..MaxRequests
           /\ \/ canceller' = canceller
              \/ \E w \in Running :
                    /\ entries[id] = w
                    /\ canceller' = [by |-> by, at |-> "read", ctx |-> w, tid |-> NIL]
<1>1. entries[id] = NoOne \/ entries[id] \in Running
    BY DEF IInv, TypeOK, CancelerTypeOK, CancellerIsExact
<1>2. Running \subseteq Workers /\ excused \subseteq 0..MaxRequests
    BY DEF Running, IInv, TypeOK, LoopTypeOK
<1>3. \A w \in Workers : request[w] \in 0..MaxRequests
    BY DEF IInv, TypeOK, RequestTypeOK
<1>4. CASE entries[id] # NoOne /\ rc[entries[id]] = "success"
    BY <1>1, <1>2, <1>4 DEF Cancel
<1>5. CASE ~(entries[id] # NoOne /\ rc[entries[id]] = "success")
    <2>1. canceller' = canceller
        BY <1>5 DEF Cancel
    <2>2. \/ excused' = excused
          \/ excused' = excused \cup {request[entries[id]]} /\ entries[id] # NoOne
        BY <1>5, Zenon DEF Cancel
    <2> QED BY <2>1, <2>2, <1>1, <1>2, <1>3
<1> QED BY <1>4, <1>5

LEMMA BeginStep ==
    ASSUME IInv, NEW w \in Workers, NEW t \in Timeouts, Begin(w, t)
    PROVE  IInv'
<1>1. RequestTypeOK'
    BY BoundsAssumption, TimeoutsAssumption
    DEF IInv, TypeOK, Begin, RequestTypeOK, reqVars, ctxVars, timerVars, loopVars
<1>2. ContextTypeOK'
    BY BoundsAssumption
    DEF IInv, TypeOK, Begin, ContextTypeOK, TimerTypeOK, TimerIds, NIL, reqVars,
        ctxVars, timerVars, loopVars
<1>3. CancelerTypeOK'
    BY BoundsAssumption, NoOneAssumption
    DEF IInv, TypeOK, Begin, CancelerTypeOK, ContextTypeOK, TimerTypeOK, TimerIds, NIL,
        NoCancel, reqVars, ctxVars, timerVars, loopVars, RequestIds, RequestId
<1>4. TimerTypeOK'
    BY BoundsAssumption
    DEF IInv, TypeOK, Begin, TimerTypeOK, RequestTypeOK, reqVars, ctxVars, timerVars,
        loopVars
<1>5. LoopTypeOK'
    BY BoundsAssumption
    DEF IInv, TypeOK, Begin, LoopTypeOK, TimerTypeOK, RequestTypeOK, reqVars, ctxVars,
        timerVars, loopVars
<1>6. Shape'
    BY BoundsAssumption
    DEF IInv, TypeOK, Begin, Shape, RequestTypeOK, ContextTypeOK, TimerTypeOK,
        TimerIds, NIL, reqVars, ctxVars, timerVars, loopVars
<1>7. Distinct'
    BY BoundsAssumption
    DEF IInv, TypeOK, Begin, Distinct, Shape, Running, RequestTypeOK, reqVars, ctxVars,
        timerVars, loopVars
<1>8. Owners'
    <2>1. nodes' = nodes /\ held' = held /\ timerId' = timerId /\ count' = count + 1
        BY DEF Begin, ctxVars, timerVars
    <2>2. held[w] = NIL /\ timerId[w] = NIL
        BY DEF IInv, Begin, Shape
    <2>3. \A v \in Workers : v # w => request'[v] = request[v]
        BY DEF Begin, IInv, TypeOK, RequestTypeOK
    <2>4. \A u \in 1..Len(nodes) : nodes[u].owner \in Nat /\ count \in Nat
        BY NodeType DEF IInv, TypeOK, RequestTypeOK
    <2> QED BY <2>1, <2>2, <2>3, <2>4 DEF IInv, Owners
<1>9. Expiry'
    <2> SUFFICES ASSUME NEW v \in Running', NEW u \in 1..Len(nodes'),
                        nodes'[u].owner = request'[v]
                 PROVE  pc'[v] # "timer" /\ timeout'[v] > 0 /\ deadline'[v] <= nodes'[u].key
        BY DEF Expiry
    <2>1. nodes' = nodes /\ deadline' = deadline
        BY DEF Begin, timerVars
    <2>2. nodes[u].owner <= count /\ nodes[u].owner \in Nat /\ count \in Nat
        BY <2>1, NodeType DEF IInv, Owners, TypeOK, RequestTypeOK
    <2>3. v # w
        BY <2>1, <2>2 DEF Begin, IInv, TypeOK, RequestTypeOK
    <2>4. /\ v \in Running /\ pc'[v] = pc[v]
          /\ request'[v] = request[v] /\ timeout'[v] = timeout[v]
        BY <2>3 DEF Begin, Running, IInv, TypeOK, RequestTypeOK
    <2> QED BY <2>1, <2>4 DEF IInv, Expiry
<1>10. Holder'
    BY BoundsAssumption, NoOneAssumption
    DEF IInv, TypeOK, Begin, Holder, Shape, Owners, CancelerTypeOK, ContextTypeOK,
        RequestTypeOK, TimerTypeOK, TimerIds, Running, NIL, NoCancel, reqVars, ctxVars,
        timerVars, loopVars
<1>11. DueExpired'
    BY BoundsAssumption
    DEF IInv, TypeOK, Begin, DueExpired, LoopTypeOK, TimerTypeOK, reqVars, ctxVars,
        timerVars, loopVars
<1>12. Values'
    BY BoundsAssumption
    DEF IInv, TypeOK, Begin, Values, TimerTypeOK, reqVars, ctxVars, timerVars, loopVars
<1>13. CancellerIsExact'
    BY BoundsAssumption, NoOneAssumption
    DEF IInv, TypeOK, Begin, CancellerIsExact, Running, CancelerTypeOK, RequestTypeOK,
        reqVars, ctxVars, timerVars, loopVars, Distinct, Shape, RequestId, RequestIds,
        HasId
<1>14. TimersAreOwned'
    BY BoundsAssumption
    DEF IInv, TypeOK, Begin, TimersAreOwned, Running, Shape, RequestTypeOK,
        ContextTypeOK, TimerTypeOK, CancelerTypeOK, NIL, TimerIds, reqVars, ctxVars,
        timerVars, loopVars
<1> QED BY <1>1, <1>2, <1>3, <1>4, <1>5, <1>6, <1>7, <1>8, <1>9, <1>10,
           <1>11, <1>12, <1>13, <1>14
    DEF IInv, TypeOK

LEMMA RegisterTimerStep ==
    ASSUME IInv, NEW w \in Workers, RegisterTimer(w)
    PROVE  IInv'
<1> DEFINE n == Len(nodes) + 1
<1>a. PICK key \in now + timeout[w] .. now + timeout[w] + Len(nodes) : AddTimer(w, key)
    BY DEF RegisterTimer
<1>b. /\ now \in Nat /\ timeout[w] \in Nat /\ Len(nodes) \in Nat /\ key \in Nat
      /\ now + timeout[w] <= key
    BY <1>a DEF IInv, TypeOK, RequestTypeOK, TimerTypeOK, LoopTypeOK
<1>c. request[w] \in 1..MaxRequests /\ request[w] <= count /\ timeout[w] > 0
    BY DEF RegisterTimer, IInv, Shape, TypeOK, RequestTypeOK
<1>d. RequestId(w, request[w]) \in RequestIds
    BY <1>c DEF RequestId, RequestIds
<1>e. /\ Len(nodes') = n
      /\ nodes'[n] = [key |-> key, id |-> RequestId(w, request[w]), owner |-> request[w]]
      /\ \A u \in 1..Len(nodes) : nodes'[u] = nodes[u]
      /\ nodes' \in Seq(Node)
    <2>1. [key |-> key, id |-> RequestId(w, request[w]), owner |-> request[w]] \in Node
        BY <1>b, <1>c, <1>d DEF Node
    <2>2. nodes \in Seq(Node)
        BY DEF IInv, TypeOK, TimerTypeOK
    <2> QED BY <1>a, <2>1, <2>2 DEF AddTimer
<1>f. live' = live \cup {n} /\ earliest' \in {key, earliest}
    BY <1>a DEF AddTimer
<1>g. /\ request' = request /\ timeout' = timeout /\ canceller' = canceller
      /\ timerId' = timerId /\ count' = count
      /\ held' = [held EXCEPT ![w] = n]
      /\ deadline' = [deadline EXCEPT ![w] = now + timeout[w]]
      /\ pc' = [pc EXCEPT ![w] = "store"] /\ pc[w] = "timer"
    BY DEF RegisterTimer
<1>1. RequestTypeOK'
    BY <1>b, <1>g DEF IInv, TypeOK, RequestTypeOK
<1>2. ContextTypeOK'
    BY BoundsAssumption
    DEF IInv, TypeOK, RegisterTimer, AddTimer, IsFreeKey, Keys, ContextTypeOK,
        TimerTypeOK, TimerIds, NIL, reqVars, ctxVars, timerVars, loopVars
<1>3. CancelerTypeOK'
    BY <1>b, <1>e, <1>g DEF IInv, TypeOK, CancelerTypeOK, TimerIds, RegisterTimer
<1>4. TimerTypeOK'
    <2>1. live \subseteq 1..Len(nodes) /\ earliest \in Nat
        BY DEF IInv, TypeOK, TimerTypeOK
    <2>4. 1..Len(nodes) \subseteq 1..n /\ n \in 1..n
        BY <1>b
    <2>2. live' \subseteq 1..Len(nodes')
        BY <2>1, <2>4, <1>e, <1>f
    <2>3. earliest' \in Nat
        BY <2>1, <1>b, <1>f
    <2> QED BY <2>2, <2>3, <1>e DEF TimerTypeOK
<1>5. LoopTypeOK'
    <2>1. broken' = (broken \/ live = {})
        BY <1>a DEF AddTimer
    <2>2. due' = due /\ due \subseteq 1..Len(nodes')
        BY <1>b, <1>e DEF IInv, TypeOK, LoopTypeOK, RegisterTimer
    <2> QED BY <2>1, <2>2 DEF IInv, TypeOK, LoopTypeOK, RegisterTimer
<1>6. Shape'
    BY BoundsAssumption
    DEF IInv, TypeOK, RegisterTimer, AddTimer, IsFreeKey, Keys, Shape, RequestTypeOK,
        ContextTypeOK, TimerTypeOK, TimerIds, NIL, reqVars, ctxVars, timerVars,
        loopVars
<1>7. Distinct'
    BY BoundsAssumption
    DEF IInv, TypeOK, RegisterTimer, AddTimer, IsFreeKey, Keys, Distinct, Shape,
        Running, RequestTypeOK, reqVars, ctxVars, timerVars, loopVars
<1>8. Owners'
    <2>1. \A u \in 1..Len(nodes') : u \in 1..Len(nodes) \/ u = n
        BY <1>b, <1>e
    <2>2. \A u \in 1..Len(nodes') : nodes'[u].owner <= count'
        <3>1. \A u \in 1..Len(nodes) : nodes'[u].owner <= count'
            BY <1>e, <1>g DEF IInv, Owners
        <3>2. nodes'[n].owner <= count'
            BY <1>c, <1>e, <1>g
        <3> QED BY <2>1, <3>1, <3>2
    <2>t. \A v \in Workers : /\ held[v] # NIL => held[v] \in 1..Len(nodes)
                             /\ timerId[v] # NIL => timerId[v] \in 1..Len(nodes)
        BY <1>b DEF IInv, TypeOK, ContextTypeOK, TimerIds, NIL
    <2>h. held'[w] = n /\ \A v \in Workers : v # w => held'[v] = held[v]
        BY <1>g DEF IInv, TypeOK, ContextTypeOK
    <2>3. \A v \in Workers : held'[v] # NIL => nodes'[held'[v]].owner = request'[v]
        BY <2>t, <2>h, <1>e, <1>g DEF IInv, Owners
    <2>4. \A v \in Workers : timerId'[v] # NIL => nodes'[timerId'[v]].owner = request'[v]
        BY <2>t, <1>e, <1>g DEF IInv, Owners
    <2> QED BY <2>2, <2>3, <2>4 DEF Owners
<1>9. Expiry'
    <2> SUFFICES ASSUME NEW v \in Running', NEW u \in 1..Len(nodes'),
                        nodes'[u].owner = request'[v]
                 PROVE  pc'[v] # "timer" /\ timeout'[v] > 0 /\ deadline'[v] <= nodes'[u].key
        BY DEF Expiry
    <2>1. v \in Running /\ w \in Running
        BY <1>g DEF Running, IInv, TypeOK, RequestTypeOK
    <2>2. CASE u = n
        <3>1. v = w
            BY <2>1, <2>2, <1>e, <1>g DEF IInv, Distinct
        <3> QED BY <3>1, <2>2, <1>b, <1>c, <1>e, <1>g DEF IInv, TypeOK, RequestTypeOK
    <2>3. CASE u \in 1..Len(nodes)
        <3>1. v # w
            BY <2>1, <2>3, <1>e, <1>g DEF IInv, Expiry
        <3> QED BY <3>1, <2>1, <2>3, <1>e, <1>g DEF IInv, Expiry, TypeOK, RequestTypeOK, Running
    <2> QED BY <2>2, <2>3, <1>b, <1>e
<1>10. Holder'
    <2>1. Running' = Running
        BY <1>g DEF Running, IInv, TypeOK, RequestTypeOK
    <2>2. canceller.tid # NIL => nodes'[canceller.tid] = nodes[canceller.tid]
        BY <1>e DEF IInv, TypeOK, CancelerTypeOK, TimerIds, NIL
    <2>3. canceller.at = "unregister" => canceller.ctx # w
        BY <1>g DEF IInv, Holder
    <2> QED BY <2>1, <2>2, <2>3, <1>g DEF IInv, Holder, TypeOK, RequestTypeOK, Running
<1>11. DueExpired'
    BY BoundsAssumption
    DEF IInv, TypeOK, RegisterTimer, AddTimer, IsFreeKey, Keys, DueExpired, LoopTypeOK,
        TimerTypeOK, reqVars, ctxVars, timerVars, loopVars
<1>12. Values'
    BY BoundsAssumption
    DEF IInv, TypeOK, RegisterTimer, AddTimer, IsFreeKey, Keys, Values, TimerTypeOK,
        reqVars, ctxVars, timerVars, loopVars, RequestId
<1>13. CancellerIsExact'
    BY BoundsAssumption, NoOneAssumption
    DEF IInv, TypeOK, RegisterTimer, AddTimer, IsFreeKey, Keys, CancellerIsExact,
        Running, CancelerTypeOK, RequestTypeOK, reqVars, ctxVars, timerVars, loopVars
<1>14. TimersAreOwned'
    <2> SUFFICES ASSUME NEW u \in live'
                 PROVE  \E v \in Running' :
                            /\ request'[v] = nodes'[u].owner
                            /\ u \in {held'[v], timerId'[v]} \/ canceller'.tid = u
        BY DEF TimersAreOwned
    <2>1. Running' = Running /\ w \in Running
        BY <1>g DEF Running, IInv, TypeOK, RequestTypeOK
    <2>2. CASE u = n
        <3>1. held'[w] = u /\ request'[w] = nodes'[u].owner
            BY <2>2, <1>e, <1>g DEF IInv, TypeOK, ContextTypeOK
        <3> QED BY <3>1, <2>1
    <2>3. CASE u \in live
        <3>1. PICK v \in Running :
                  /\ request[v] = nodes[u].owner
                  /\ u \in {held[v], timerId[v]} \/ canceller.tid = u
            BY <2>3 DEF IInv, TimersAreOwned
        <3>2. u \in 1..Len(nodes) /\ u # NIL
            BY <2>3 DEF IInv, TypeOK, TimerTypeOK, NIL
        <3>3. nodes'[u] = nodes[u]
            BY <3>2, <1>e
        <3>4. held[w] = NIL
            BY <1>g DEF IInv, Shape
        <3>5. u = held[v] => u = held'[v]
            BY <3>2, <3>4, <1>g DEF IInv, TypeOK, ContextTypeOK, Running
        <3> QED BY <3>1, <3>3, <3>5, <2>1, <1>g
    <2> QED BY <2>2, <2>3, <1>f
<1> QED BY <1>1, <1>2, <1>3, <1>4, <1>5, <1>6, <1>7, <1>8, <1>9, <1>10,
           <1>11, <1>12, <1>13, <1>14
    DEF IInv, TypeOK

LEMMA StoreTimerStep ==
    ASSUME IInv, NEW w \in Workers, StoreTimer(w)
    PROVE  IInv'
<1>1. RequestTypeOK'
    BY BoundsAssumption
    DEF IInv, TypeOK, StoreTimer, RequestTypeOK, reqVars, ctxVars, timerVars, loopVars
<1>2. ContextTypeOK'
    BY BoundsAssumption
    DEF IInv, TypeOK, StoreTimer, ContextTypeOK, TimerTypeOK, TimerIds, NIL, reqVars,
        ctxVars, timerVars, loopVars
<1>3. CancelerTypeOK'
    BY BoundsAssumption, NoOneAssumption
    DEF IInv, TypeOK, StoreTimer, CancelerTypeOK, ContextTypeOK, TimerTypeOK, TimerIds,
        NIL, NoCancel, reqVars, ctxVars, timerVars, loopVars
<1>4. TimerTypeOK'
    BY BoundsAssumption
    DEF IInv, TypeOK, StoreTimer, TimerTypeOK, RequestTypeOK, reqVars, ctxVars,
        timerVars, loopVars
<1>5. LoopTypeOK'
    BY BoundsAssumption
    DEF IInv, TypeOK, StoreTimer, LoopTypeOK, TimerTypeOK, RequestTypeOK, reqVars,
        ctxVars, timerVars, loopVars
<1>6. Shape'
    BY BoundsAssumption
    DEF IInv, TypeOK, StoreTimer, Shape, RequestTypeOK, ContextTypeOK, TimerTypeOK,
        TimerIds, NIL, reqVars, ctxVars, timerVars, loopVars
<1>7. Distinct'
    BY BoundsAssumption
    DEF IInv, TypeOK, StoreTimer, Distinct, Shape, Running, RequestTypeOK, reqVars,
        ctxVars, timerVars, loopVars
<1>8. Owners'
    BY BoundsAssumption
    DEF IInv, TypeOK, StoreTimer, Owners, Shape, RequestTypeOK, ContextTypeOK,
        TimerTypeOK, TimerIds, NIL, reqVars, ctxVars, timerVars, loopVars
<1>9. Expiry'
    BY BoundsAssumption
    DEF IInv, TypeOK, StoreTimer, Expiry, Distinct, Owners, Shape, Running,
        RequestTypeOK, TimerTypeOK, reqVars, ctxVars, timerVars, loopVars
<1>10. Holder'
    BY BoundsAssumption, NoOneAssumption
    DEF IInv, TypeOK, StoreTimer, Holder, Shape, Owners, CancelerTypeOK, ContextTypeOK,
        RequestTypeOK, TimerTypeOK, TimerIds, Running, NIL, NoCancel, reqVars, ctxVars,
        timerVars, loopVars
<1>11. DueExpired'
    BY BoundsAssumption
    DEF IInv, TypeOK, StoreTimer, DueExpired, LoopTypeOK, TimerTypeOK, reqVars,
        ctxVars, timerVars, loopVars
<1>12. Values'
    BY BoundsAssumption
    DEF IInv, TypeOK, StoreTimer, Values, TimerTypeOK, reqVars, ctxVars, timerVars,
        loopVars
<1>13. CancellerIsExact'
    BY BoundsAssumption, NoOneAssumption
    DEF IInv, TypeOK, StoreTimer, CancellerIsExact, Running, CancelerTypeOK,
        RequestTypeOK, reqVars, ctxVars, timerVars, loopVars
<1>14. TimersAreOwned'
    <2> SUFFICES ASSUME NEW u \in live'
                 PROVE  \E v \in Running' :
                            /\ request'[v] = nodes'[u].owner
                            /\ u \in {held'[v], timerId'[v]} \/ canceller'.tid = u
        BY DEF TimersAreOwned
    <2>0. u \in live /\ nodes' = nodes /\ request' = request /\ canceller' = canceller
        BY DEF StoreTimer, timerVars
    <2>1. PICK v \in Running :
              /\ request[v] = nodes[u].owner
              /\ u \in {held[v], timerId[v]} \/ canceller.tid = u
        BY <2>0 DEF IInv, TimersAreOwned
    <2>2. u # NIL /\ timerId[w] = NIL
        BY <2>0 DEF IInv, TypeOK, TimerTypeOK, NIL, Shape, StoreTimer
    <2>3. v \in Running'
        BY DEF StoreTimer, Running, IInv, TypeOK, RequestTypeOK
    <2>4. u \in {held[v], timerId[v]} => u \in {held'[v], timerId'[v]}
        BY <2>2 DEF StoreTimer, Running, IInv, TypeOK, ContextTypeOK
    <2> QED BY <2>0, <2>1, <2>3, <2>4
<1> QED BY <1>1, <1>2, <1>3, <1>4, <1>5, <1>6, <1>7, <1>8, <1>9, <1>10,
           <1>11, <1>12, <1>13, <1>14
    DEF IInv, TypeOK

LEMMA CheckRcStep ==
    ASSUME IInv, NEW w \in Workers, NEW value \in {"success", "error"}, CheckRc(w, value)
    PROVE  IInv'
<1>1. RequestTypeOK'
    BY BoundsAssumption
    DEF IInv, TypeOK, CheckRc, RequestTypeOK, reqVars, ctxVars, timerVars, loopVars
<1>2. ContextTypeOK'
    BY BoundsAssumption
    DEF IInv, TypeOK, CheckRc, ContextTypeOK, TimerTypeOK, TimerIds, NIL, reqVars,
        ctxVars, timerVars, loopVars
<1>3. CancelerTypeOK'
    BY BoundsAssumption, NoOneAssumption
    DEF IInv, TypeOK, CheckRc, CancelerTypeOK, ContextTypeOK, TimerTypeOK, TimerIds,
        NIL, NoCancel, reqVars, ctxVars, timerVars, loopVars
<1>4. TimerTypeOK'
    BY BoundsAssumption
    DEF IInv, TypeOK, CheckRc, TimerTypeOK, RequestTypeOK, reqVars, ctxVars, timerVars,
        loopVars
<1>5. LoopTypeOK'
    BY BoundsAssumption
    DEF IInv, TypeOK, CheckRc, LoopTypeOK, TimerTypeOK, RequestTypeOK, reqVars,
        ctxVars, timerVars, loopVars
<1>6. Shape'
    BY BoundsAssumption
    DEF IInv, TypeOK, CheckRc, Shape, RequestTypeOK, ContextTypeOK, TimerTypeOK,
        TimerIds, NIL, reqVars, ctxVars, timerVars, loopVars
<1>7. Distinct'
    BY BoundsAssumption
    DEF IInv, TypeOK, CheckRc, Distinct, Shape, Running, RequestTypeOK, reqVars,
        ctxVars, timerVars, loopVars
<1>8. Owners'
    BY BoundsAssumption
    DEF IInv, TypeOK, CheckRc, Owners, Shape, RequestTypeOK, ContextTypeOK,
        TimerTypeOK, TimerIds, NIL, reqVars, ctxVars, timerVars, loopVars
<1>9. Expiry'
    BY BoundsAssumption
    DEF IInv, TypeOK, CheckRc, Expiry, Distinct, Owners, Shape, Running, RequestTypeOK,
        TimerTypeOK, reqVars, ctxVars, timerVars, loopVars
<1>10. Holder'
    BY BoundsAssumption, NoOneAssumption
    DEF IInv, TypeOK, CheckRc, Holder, Shape, Owners, CancelerTypeOK, ContextTypeOK,
        RequestTypeOK, TimerTypeOK, TimerIds, Running, NIL, NoCancel, reqVars, ctxVars,
        timerVars, loopVars
<1>11. DueExpired'
    BY BoundsAssumption
    DEF IInv, TypeOK, CheckRc, DueExpired, LoopTypeOK, TimerTypeOK, reqVars, ctxVars,
        timerVars, loopVars
<1>12. Values'
    BY BoundsAssumption
    DEF IInv, TypeOK, CheckRc, Values, TimerTypeOK, reqVars, ctxVars, timerVars,
        loopVars
<1>13. CancellerIsExact'
    BY BoundsAssumption, NoOneAssumption
    DEF IInv, TypeOK, CheckRc, CancellerIsExact, Running, CancelerTypeOK,
        RequestTypeOK, reqVars, ctxVars, timerVars, loopVars
<1>14. TimersAreOwned'
    BY BoundsAssumption
    DEF IInv, TypeOK, CheckRc, TimersAreOwned, Running, Shape, RequestTypeOK,
        ContextTypeOK, TimerTypeOK, CancelerTypeOK, NIL, TimerIds, reqVars, ctxVars,
        timerVars, loopVars
<1> QED BY <1>1, <1>2, <1>3, <1>4, <1>5, <1>6, <1>7, <1>8, <1>9, <1>10,
           <1>11, <1>12, <1>13, <1>14
    DEF IInv, TypeOK

LEMMA WriteRcStep ==
    ASSUME IInv, NEW w \in Workers, WriteRc(w)
    PROVE  IInv'
<1>1. RequestTypeOK'
    BY BoundsAssumption
    DEF IInv, TypeOK, WriteRc, RequestTypeOK, reqVars, ctxVars, timerVars, loopVars
<1>2. ContextTypeOK'
    BY BoundsAssumption
    DEF IInv, TypeOK, WriteRc, ContextTypeOK, TimerTypeOK, TimerIds, NIL, reqVars,
        ctxVars, timerVars, loopVars
<1>3. CancelerTypeOK'
    BY BoundsAssumption, NoOneAssumption
    DEF IInv, TypeOK, WriteRc, CancelerTypeOK, ContextTypeOK, TimerTypeOK, TimerIds,
        NIL, NoCancel, reqVars, ctxVars, timerVars, loopVars
<1>4. TimerTypeOK'
    BY BoundsAssumption
    DEF IInv, TypeOK, WriteRc, TimerTypeOK, RequestTypeOK, reqVars, ctxVars, timerVars,
        loopVars
<1>5. LoopTypeOK'
    BY BoundsAssumption
    DEF IInv, TypeOK, WriteRc, LoopTypeOK, TimerTypeOK, RequestTypeOK, reqVars,
        ctxVars, timerVars, loopVars
<1>6. Shape'
    BY BoundsAssumption
    DEF IInv, TypeOK, WriteRc, Shape, RequestTypeOK, ContextTypeOK, TimerTypeOK,
        TimerIds, NIL, reqVars, ctxVars, timerVars, loopVars
<1>7. Distinct'
    BY BoundsAssumption
    DEF IInv, TypeOK, WriteRc, Distinct, Shape, Running, RequestTypeOK, reqVars,
        ctxVars, timerVars, loopVars
<1>8. Owners'
    BY BoundsAssumption
    DEF IInv, TypeOK, WriteRc, Owners, Shape, RequestTypeOK, ContextTypeOK,
        TimerTypeOK, TimerIds, NIL, reqVars, ctxVars, timerVars, loopVars
<1>9. Expiry'
    BY BoundsAssumption
    DEF IInv, TypeOK, WriteRc, Expiry, Distinct, Owners, Shape, Running, RequestTypeOK,
        TimerTypeOK, reqVars, ctxVars, timerVars, loopVars
<1>10. Holder'
    BY BoundsAssumption, NoOneAssumption
    DEF IInv, TypeOK, WriteRc, Holder, Shape, Owners, CancelerTypeOK, ContextTypeOK,
        RequestTypeOK, TimerTypeOK, TimerIds, Running, NIL, NoCancel, reqVars, ctxVars,
        timerVars, loopVars
<1>11. DueExpired'
    BY BoundsAssumption
    DEF IInv, TypeOK, WriteRc, DueExpired, LoopTypeOK, TimerTypeOK, reqVars, ctxVars,
        timerVars, loopVars
<1>12. Values'
    BY BoundsAssumption
    DEF IInv, TypeOK, WriteRc, Values, TimerTypeOK, reqVars, ctxVars, timerVars,
        loopVars
<1>13. CancellerIsExact'
    BY BoundsAssumption, NoOneAssumption
    DEF IInv, TypeOK, WriteRc, CancellerIsExact, Running, CancelerTypeOK,
        RequestTypeOK, reqVars, ctxVars, timerVars, loopVars
<1>14. TimersAreOwned'
    BY BoundsAssumption
    DEF IInv, TypeOK, WriteRc, TimersAreOwned, Running, Shape, RequestTypeOK,
        ContextTypeOK, TimerTypeOK, CancelerTypeOK, NIL, TimerIds, reqVars, ctxVars,
        timerVars, loopVars
<1> QED BY <1>1, <1>2, <1>3, <1>4, <1>5, <1>6, <1>7, <1>8, <1>9, <1>10,
           <1>11, <1>12, <1>13, <1>14
    DEF IInv, TypeOK

LEMMA EndCommandStep ==
    ASSUME IInv, NEW w \in Workers, EndCommand(w)
    PROVE  IInv'
<1>1. RequestTypeOK'
    BY BoundsAssumption
    DEF IInv, TypeOK, EndCommand, RequestTypeOK, reqVars, ctxVars, timerVars, loopVars
<1>2. ContextTypeOK'
    BY BoundsAssumption
    DEF IInv, TypeOK, EndCommand, ContextTypeOK, TimerTypeOK, TimerIds, NIL, reqVars,
        ctxVars, timerVars, loopVars
<1>3. CancelerTypeOK'
    BY BoundsAssumption, NoOneAssumption
    DEF IInv, TypeOK, EndCommand, CancelerTypeOK, ContextTypeOK, TimerTypeOK, TimerIds,
        NIL, NoCancel, reqVars, ctxVars, timerVars, loopVars
<1>4. TimerTypeOK'
    BY BoundsAssumption
    DEF IInv, TypeOK, EndCommand, TimerTypeOK, RequestTypeOK, reqVars, ctxVars,
        timerVars, loopVars
<1>5. LoopTypeOK'
    BY BoundsAssumption
    DEF IInv, TypeOK, EndCommand, LoopTypeOK, TimerTypeOK, RequestTypeOK, reqVars,
        ctxVars, timerVars, loopVars
<1>6. Shape'
    BY BoundsAssumption
    DEF IInv, TypeOK, EndCommand, Shape, RequestTypeOK, ContextTypeOK, TimerTypeOK,
        TimerIds, NIL, reqVars, ctxVars, timerVars, loopVars
<1>7. Distinct'
    BY BoundsAssumption
    DEF IInv, TypeOK, EndCommand, Distinct, Shape, Running, RequestTypeOK, reqVars,
        ctxVars, timerVars, loopVars
<1>8. Owners'
    BY BoundsAssumption
    DEF IInv, TypeOK, EndCommand, Owners, Shape, RequestTypeOK, ContextTypeOK,
        TimerTypeOK, TimerIds, NIL, reqVars, ctxVars, timerVars, loopVars
<1>9. Expiry'
    BY BoundsAssumption
    DEF IInv, TypeOK, EndCommand, Expiry, Distinct, Owners, Shape, Running,
        RequestTypeOK, TimerTypeOK, reqVars, ctxVars, timerVars, loopVars
<1>10. Holder'
    BY BoundsAssumption, NoOneAssumption
    DEF IInv, TypeOK, EndCommand, Holder, Shape, Owners, CancelerTypeOK, ContextTypeOK,
        RequestTypeOK, TimerTypeOK, TimerIds, Running, NIL, NoCancel, reqVars, ctxVars,
        timerVars, loopVars
<1>11. DueExpired'
    BY BoundsAssumption
    DEF IInv, TypeOK, EndCommand, DueExpired, LoopTypeOK, TimerTypeOK, reqVars,
        ctxVars, timerVars, loopVars
<1>12. Values'
    BY BoundsAssumption
    DEF IInv, TypeOK, EndCommand, Values, TimerTypeOK, reqVars, ctxVars, timerVars,
        loopVars
<1>13. CancellerIsExact'
    BY BoundsAssumption, NoOneAssumption
    DEF IInv, TypeOK, EndCommand, CancellerIsExact, Running, CancelerTypeOK,
        RequestTypeOK, reqVars, ctxVars, timerVars, loopVars
<1>14. TimersAreOwned'
    <2> SUFFICES ASSUME NEW u \in live'
                 PROVE  \E v \in Running' :
                            /\ request'[v] = nodes'[u].owner
                            /\ u \in {held'[v], timerId'[v]} \/ canceller'.tid = u
        BY DEF TimersAreOwned
    <2>0. u \in live /\ nodes' = nodes /\ request' = request /\ canceller' = canceller
        BY DEF EndCommand, timerVars
    <2>1. PICK v \in Running :
              /\ request[v] = nodes[u].owner
              /\ u \in {held[v], timerId[v]} \/ canceller.tid = u
        BY <2>0 DEF IInv, TimersAreOwned
    <2>2. u # NIL /\ held[w] = NIL
        BY <2>0 DEF IInv, TypeOK, TimerTypeOK, NIL, Shape, EndCommand
    <2>3. v \in Running'
        BY DEF EndCommand, Running, IInv, TypeOK, RequestTypeOK
    <2>4. u \in {held[v], timerId[v]} => u \in {held'[v], timerId'[v]}
        BY <2>2 DEF EndCommand, Running, IInv, TypeOK, ContextTypeOK
    <2> QED BY <2>0, <2>1, <2>3, <2>4
<1> QED BY <1>1, <1>2, <1>3, <1>4, <1>5, <1>6, <1>7, <1>8, <1>9, <1>10,
           <1>11, <1>12, <1>13, <1>14
    DEF IInv, TypeOK

LEMMA UnregisterTimerStep ==
    ASSUME IInv, NEW w \in Workers, UnregisterTimer(w)
    PROVE  IInv'
<1>a. held[w] \in 1..Len(nodes)
    BY DEF IInv, Shape, UnregisterTimer, TypeOK, ContextTypeOK, TimerTypeOK, TimerIds, NIL
<1>b. /\ live' \subseteq live \ {held[w]} /\ nodes' = nodes /\ earliest' \in Nat
      /\ excused' \subseteq 0..MaxRequests
    BY <1>a, RemoveTimerFacts DEF IInv, TypeOK, UnregisterTimer
<1>1. RequestTypeOK'
    BY BoundsAssumption
    DEF IInv, TypeOK, UnregisterTimer, RemoveTimer, RequestTypeOK, reqVars, ctxVars,
        timerVars, loopVars
<1>2. ContextTypeOK'
    BY BoundsAssumption
    DEF IInv, TypeOK, UnregisterTimer, RemoveTimer, ContextTypeOK, TimerTypeOK,
        TimerIds, NIL, reqVars, ctxVars, timerVars, loopVars
<1>3. CancelerTypeOK'
    BY BoundsAssumption, NoOneAssumption
    DEF IInv, TypeOK, UnregisterTimer, RemoveTimer, CancelerTypeOK, ContextTypeOK,
        TimerTypeOK, TimerIds, NIL, NoCancel, reqVars, ctxVars, timerVars, loopVars
<1>4. TimerTypeOK'
    BY <1>b DEF IInv, TypeOK, TimerTypeOK
<1>5. LoopTypeOK'
    BY <1>b DEF IInv, TypeOK, LoopTypeOK, UnregisterTimer, loopVars
<1>6. Shape'
    BY BoundsAssumption
    DEF IInv, TypeOK, UnregisterTimer, RemoveTimer, Shape, RequestTypeOK,
        ContextTypeOK, TimerTypeOK, TimerIds, NIL, reqVars, ctxVars, timerVars,
        loopVars
<1>7. Distinct'
    BY BoundsAssumption
    DEF IInv, TypeOK, UnregisterTimer, RemoveTimer, Distinct, Shape, Running,
        RequestTypeOK, reqVars, ctxVars, timerVars, loopVars
<1>8. Owners'
    BY BoundsAssumption
    DEF IInv, TypeOK, UnregisterTimer, RemoveTimer, Owners, Shape, RequestTypeOK,
        ContextTypeOK, TimerTypeOK, TimerIds, NIL, reqVars, ctxVars, timerVars,
        loopVars
<1>9. Expiry'
    BY BoundsAssumption
    DEF IInv, TypeOK, UnregisterTimer, RemoveTimer, Expiry, Distinct, Owners, Shape,
        Running, RequestTypeOK, TimerTypeOK, reqVars, ctxVars, timerVars, loopVars
<1>10. Holder'
    BY BoundsAssumption, NoOneAssumption
    DEF IInv, TypeOK, UnregisterTimer, RemoveTimer, Holder, Shape, Owners,
        CancelerTypeOK, ContextTypeOK, RequestTypeOK, TimerTypeOK, TimerIds, Running,
        NIL, NoCancel, reqVars, ctxVars, timerVars, loopVars
<1>11. DueExpired'
    BY BoundsAssumption
    DEF IInv, TypeOK, UnregisterTimer, RemoveTimer, DueExpired, LoopTypeOK,
        TimerTypeOK, reqVars, ctxVars, timerVars, loopVars
<1>12. Values'
    BY BoundsAssumption
    DEF IInv, TypeOK, UnregisterTimer, RemoveTimer, Values, TimerTypeOK, reqVars,
        ctxVars, timerVars, loopVars
<1>13. CancellerIsExact'
    BY BoundsAssumption, NoOneAssumption
    DEF IInv, TypeOK, UnregisterTimer, RemoveTimer, CancellerIsExact, Running,
        CancelerTypeOK, RequestTypeOK, reqVars, ctxVars, timerVars, loopVars
<1>14. TimersAreOwned'
    <2> SUFFICES ASSUME NEW u \in live'
                 PROVE  \E v \in Running' :
                            /\ request'[v] = nodes'[u].owner
                            /\ u \in {held'[v], timerId'[v]} \/ canceller'.tid = u
        BY DEF TimersAreOwned
    <2>0. u \in live /\ u # held[w] /\ request' = request /\ canceller' = canceller
        BY <1>b DEF UnregisterTimer
    <2>1. PICK v \in Running :
              /\ request[v] = nodes[u].owner
              /\ u \in {held[v], timerId[v]} \/ canceller.tid = u
        BY <2>0 DEF IInv, TimersAreOwned
    <2>2. u # NIL /\ timerId[w] \in {NIL, held[w]}
        BY <2>0 DEF IInv, TypeOK, TimerTypeOK, NIL, Shape, UnregisterTimer
    <2>3. v \in Running'
        BY DEF UnregisterTimer, Running, IInv, TypeOK, RequestTypeOK
    <2>4. u \in {held[v], timerId[v]} => u \in {held'[v], timerId'[v]}
        BY <2>0, <2>2 DEF UnregisterTimer, Running, IInv, TypeOK, ContextTypeOK
    <2> QED BY <1>b, <2>0, <2>1, <2>3, <2>4
<1> QED BY <1>1, <1>2, <1>3, <1>4, <1>5, <1>6, <1>7, <1>8, <1>9, <1>10,
           <1>11, <1>12, <1>13, <1>14
    DEF IInv, TypeOK

LEMMA LeaveStep ==
    ASSUME IInv, NEW w \in Workers, Leave(w)
    PROVE  IInv'
<1>1. RequestTypeOK'
    BY BoundsAssumption
    DEF IInv, TypeOK, Leave, RequestTypeOK, reqVars, ctxVars, timerVars, loopVars
<1>2. ContextTypeOK'
    BY BoundsAssumption
    DEF IInv, TypeOK, Leave, ContextTypeOK, TimerTypeOK, TimerIds, NIL, reqVars,
        ctxVars, timerVars, loopVars
<1>3. CancelerTypeOK'
    BY BoundsAssumption, NoOneAssumption
    DEF IInv, TypeOK, Leave, CancelerTypeOK, ContextTypeOK, TimerTypeOK, TimerIds, NIL,
        NoCancel, reqVars, ctxVars, timerVars, loopVars, RequestIds, RequestId, Shape,
        HasId
<1>4. TimerTypeOK'
    BY BoundsAssumption
    DEF IInv, TypeOK, Leave, TimerTypeOK, RequestTypeOK, reqVars, ctxVars, timerVars,
        loopVars
<1>5. LoopTypeOK'
    BY BoundsAssumption
    DEF IInv, TypeOK, Leave, LoopTypeOK, TimerTypeOK, RequestTypeOK, reqVars, ctxVars,
        timerVars, loopVars
<1>6. Shape'
    BY BoundsAssumption
    DEF IInv, TypeOK, Leave, Shape, RequestTypeOK, ContextTypeOK, TimerTypeOK,
        TimerIds, NIL, reqVars, ctxVars, timerVars, loopVars
<1>7. Distinct'
    BY BoundsAssumption
    DEF IInv, TypeOK, Leave, Distinct, Shape, Running, RequestTypeOK, reqVars, ctxVars,
        timerVars, loopVars
<1>8. Owners'
    BY BoundsAssumption
    DEF IInv, TypeOK, Leave, Owners, Shape, RequestTypeOK, ContextTypeOK, TimerTypeOK,
        TimerIds, NIL, reqVars, ctxVars, timerVars, loopVars
<1>9. Expiry'
    BY BoundsAssumption
    DEF IInv, TypeOK, Leave, Expiry, Distinct, Owners, Shape, Running, RequestTypeOK,
        TimerTypeOK, reqVars, ctxVars, timerVars, loopVars
<1>10. Holder'
    BY BoundsAssumption, NoOneAssumption
    DEF IInv, TypeOK, Leave, Holder, Shape, Owners, CancelerTypeOK, ContextTypeOK,
        RequestTypeOK, TimerTypeOK, TimerIds, Running, NIL, NoCancel, reqVars, ctxVars,
        timerVars, loopVars
<1>11. DueExpired'
    BY BoundsAssumption
    DEF IInv, TypeOK, Leave, DueExpired, LoopTypeOK, TimerTypeOK, reqVars, ctxVars,
        timerVars, loopVars
<1>12. Values'
    BY BoundsAssumption
    DEF IInv, TypeOK, Leave, Values, TimerTypeOK, reqVars, ctxVars, timerVars, loopVars
<1>13. CancellerIsExact'
    BY BoundsAssumption, NoOneAssumption
    DEF IInv, TypeOK, Leave, CancellerIsExact, Running, CancelerTypeOK, RequestTypeOK,
        reqVars, ctxVars, timerVars, loopVars
<1>14. TimersAreOwned'
    <2> SUFFICES ASSUME NEW u \in live'
                 PROVE  \E v \in Running' :
                            /\ request'[v] = nodes'[u].owner
                            /\ u \in {held'[v], timerId'[v]} \/ canceller'.tid = u
        BY DEF TimersAreOwned
    <2>0. /\ u \in live /\ nodes' = nodes /\ canceller' = canceller
          /\ held' = held /\ timerId' = timerId
        BY DEF Leave, timerVars
    <2>1. PICK v \in Running :
              /\ request[v] = nodes[u].owner
              /\ u \in {held[v], timerId[v]} \/ canceller.tid = u
        BY <2>0 DEF IInv, TimersAreOwned
    <2>6. timerId[w] = NIL /\ held[w] = NIL
        BY DEF IInv, Shape, Leave
    <2>2. u # NIL /\ timerId[w] = NIL /\ held[w] = NIL
        BY <2>0, <2>6 DEF IInv, TypeOK, TimerTypeOK, NIL
    <2>5. canceller.tid = NIL
        BY DEF Leave, NoCancel
    <2>3. v # w
        BY <2>1, <2>2, <2>5
    <2>4. v \in Running' /\ request'[v] = request[v]
        BY <2>3 DEF Leave, Running, IInv, TypeOK, RequestTypeOK
    <2> QED BY <2>0, <2>1, <2>4
<1> QED BY <1>1, <1>2, <1>3, <1>4, <1>5, <1>6, <1>7, <1>8, <1>9, <1>10,
           <1>11, <1>12, <1>13, <1>14
    DEF IInv, TypeOK

LEMMA ClientCancelStep ==
    ASSUME IInv, NEW id \in RequestIds, ClientCancel(id)
    PROVE  IInv'
<1>a. /\ excused' \subseteq 0..MaxRequests
      /\ \/ canceller' = canceller
         \/ \E w \in Running :
               /\ entries[id] = w
               /\ canceller' = [by |-> "client", at |-> "read", ctx |-> w, tid |-> NIL]
    BY CancelFacts DEF ClientCancel
<1>b. /\ pc' = pc /\ request' = request /\ nodes' = nodes /\ live' = live
      /\ timerId' = timerId /\ held' = held /\ entries' = entries
      /\ Running' = Running /\ canceller = NoCancel
    BY DEF ClientCancel, reqVars, timerVars, Running
<1>1. RequestTypeOK'
    BY BoundsAssumption
    DEF IInv, TypeOK, ClientCancel, Cancel, RequestTypeOK, reqVars, ctxVars, timerVars,
        loopVars
<1>2. ContextTypeOK'
    BY BoundsAssumption
    DEF IInv, TypeOK, ClientCancel, Cancel, ContextTypeOK, TimerTypeOK, TimerIds, NIL,
        reqVars, ctxVars, timerVars, loopVars
<1>3. CancelerTypeOK'
    BY <1>a, <1>b DEF IInv, TypeOK, CancelerTypeOK, TimerIds, NIL, Running, TimerTypeOK
<1>4. TimerTypeOK'
    BY BoundsAssumption
    DEF IInv, TypeOK, ClientCancel, Cancel, TimerTypeOK, RequestTypeOK, reqVars,
        ctxVars, timerVars, loopVars
<1>5. LoopTypeOK'
    BY <1>a, <1>b DEF IInv, TypeOK, LoopTypeOK, ClientCancel, loopVars
<1>6. Shape'
    BY BoundsAssumption
    DEF IInv, TypeOK, ClientCancel, Cancel, Shape, RequestTypeOK, ContextTypeOK,
        TimerTypeOK, TimerIds, NIL, reqVars, ctxVars, timerVars, loopVars
<1>7. Distinct'
    BY BoundsAssumption
    DEF IInv, TypeOK, ClientCancel, Cancel, Distinct, Shape, Running, RequestTypeOK,
        reqVars, ctxVars, timerVars, loopVars
<1>8. Owners'
    BY BoundsAssumption
    DEF IInv, TypeOK, ClientCancel, Cancel, Owners, Shape, RequestTypeOK,
        ContextTypeOK, TimerTypeOK, TimerIds, NIL, reqVars, ctxVars, timerVars,
        loopVars
<1>9. Expiry'
    BY BoundsAssumption
    DEF IInv, TypeOK, ClientCancel, Cancel, Expiry, Distinct, Owners, Shape, Running,
        RequestTypeOK, TimerTypeOK, reqVars, ctxVars, timerVars, loopVars
<1>10. Holder'
    BY <1>a, <1>b DEF IInv, Holder, NoCancel, NIL
<1>11. DueExpired'
    BY BoundsAssumption
    DEF IInv, TypeOK, ClientCancel, Cancel, DueExpired, LoopTypeOK, TimerTypeOK,
        reqVars, ctxVars, timerVars, loopVars
<1>12. Values'
    BY BoundsAssumption
    DEF IInv, TypeOK, ClientCancel, Cancel, Values, TimerTypeOK, reqVars, ctxVars,
        timerVars, loopVars
<1>13. CancellerIsExact'
    BY BoundsAssumption, NoOneAssumption
    DEF IInv, TypeOK, ClientCancel, Cancel, CancellerIsExact, Running, CancelerTypeOK,
        RequestTypeOK, reqVars, ctxVars, timerVars, loopVars
<1>14. TimersAreOwned'
    <2> SUFFICES ASSUME NEW u \in live'
                 PROVE  \E v \in Running' :
                            /\ request'[v] = nodes'[u].owner
                            /\ u \in {held'[v], timerId'[v]} \/ canceller'.tid = u
        BY DEF TimersAreOwned
    <2>0. u \in live /\ u # NIL
        BY <1>b DEF IInv, TypeOK, TimerTypeOK, NIL
    <2>1. PICK v \in Running :
              /\ request[v] = nodes[u].owner
              /\ u \in {held[v], timerId[v]} \/ canceller.tid = u
        BY <2>0 DEF IInv, TimersAreOwned
    <2>2. canceller.tid = NIL
        BY <1>b DEF NoCancel
    <2> QED BY <2>0, <2>1, <2>2, <1>b
<1> QED BY <1>1, <1>2, <1>3, <1>4, <1>5, <1>6, <1>7, <1>8, <1>9, <1>10,
           <1>11, <1>12, <1>13, <1>14
    DEF IInv, TypeOK

LEMMA CancelReadStep ==
    ASSUME IInv, CancelRead
    PROVE  IInv'
<1>a. canceller.ctx \in Workers /\ canceller.tid = NIL
    BY DEF IInv, Holder, Running, CancelRead
<1>b. timerId[canceller.ctx] \in TimerIds /\ TimerIds' = TimerIds
    BY <1>a DEF IInv, TypeOK, ContextTypeOK, CancelRead, timerVars, TimerIds
<1>c. \/ canceller' = NoCancel
      \/ canceller' = [canceller EXCEPT !.at = "unregister", !.tid = timerId[canceller.ctx]]
    BY DEF CancelRead
<1>1. RequestTypeOK'
    BY BoundsAssumption
    DEF IInv, TypeOK, CancelRead, RequestTypeOK, reqVars, ctxVars, timerVars, loopVars
<1>2. ContextTypeOK'
    BY BoundsAssumption
    DEF IInv, TypeOK, CancelRead, ContextTypeOK, TimerTypeOK, TimerIds, NIL, reqVars,
        ctxVars, timerVars, loopVars
<1>3. CancelerTypeOK'
    <2>1. NoCancel \in [by : {"none", "loop", "client"}, at : {"none", "read", "unregister"},
                        ctx : Workers \cup {NoOne}, tid : TimerIds]
        BY DEF NoCancel, IInv, TypeOK, TimerTypeOK, TimerIds, NIL
    <2> QED BY <1>b, <1>c, <2>1 DEF IInv, TypeOK, CancelerTypeOK, CancelRead
<1>4. TimerTypeOK'
    BY BoundsAssumption
    DEF IInv, TypeOK, CancelRead, TimerTypeOK, RequestTypeOK, reqVars, ctxVars,
        timerVars, loopVars
<1>5. LoopTypeOK'
    BY BoundsAssumption
    DEF IInv, TypeOK, CancelRead, LoopTypeOK, TimerTypeOK, RequestTypeOK, reqVars,
        ctxVars, timerVars, loopVars
<1>6. Shape'
    BY BoundsAssumption
    DEF IInv, TypeOK, CancelRead, Shape, RequestTypeOK, ContextTypeOK, TimerTypeOK,
        TimerIds, NIL, reqVars, ctxVars, timerVars, loopVars
<1>7. Distinct'
    BY BoundsAssumption
    DEF IInv, TypeOK, CancelRead, Distinct, Shape, Running, RequestTypeOK, reqVars,
        ctxVars, timerVars, loopVars
<1>8. Owners'
    BY BoundsAssumption
    DEF IInv, TypeOK, CancelRead, Owners, Shape, RequestTypeOK, ContextTypeOK,
        TimerTypeOK, TimerIds, NIL, reqVars, ctxVars, timerVars, loopVars
<1>9. Expiry'
    BY BoundsAssumption
    DEF IInv, TypeOK, CancelRead, Expiry, Distinct, Owners, Shape, Running,
        RequestTypeOK, TimerTypeOK, reqVars, ctxVars, timerVars, loopVars
<1>10. Holder'
    <2>1. /\ canceller.ctx \in Running' /\ timerId' = timerId /\ pc' = pc /\ request' = request
          /\ nodes' = nodes
        BY DEF IInv, Holder, CancelRead, Running, reqVars, ctxVars, timerVars
    <2>2. CASE timerId[canceller.ctx] = NIL
        BY <2>2 DEF CancelRead, Holder, NoCancel, NIL
    <2>3. CASE timerId[canceller.ctx] # NIL
        <3>1. canceller' = [canceller EXCEPT !.at = "unregister", !.tid = timerId[canceller.ctx]]
            BY <2>3 DEF CancelRead
        <3>2. /\ canceller'.at = "unregister" /\ canceller'.ctx = canceller.ctx
              /\ canceller'.tid = timerId[canceller.ctx]
            BY <3>1 DEF IInv, TypeOK, CancelerTypeOK
        <3>3. pc[canceller.ctx] \in {"exec", "unregister", "leave"}
            BY <1>a, <2>3 DEF IInv, Shape, TypeOK, RequestTypeOK
        <3>4. nodes[timerId[canceller.ctx]].owner = request[canceller.ctx]
            BY <1>a, <2>3 DEF IInv, Owners
        <3> QED BY <2>1, <2>3, <3>2, <3>3, <3>4 DEF Holder
    <2> QED BY <2>2, <2>3
<1>11. DueExpired'
    BY BoundsAssumption
    DEF IInv, TypeOK, CancelRead, DueExpired, LoopTypeOK, TimerTypeOK, reqVars,
        ctxVars, timerVars, loopVars
<1>12. Values'
    BY BoundsAssumption
    DEF IInv, TypeOK, CancelRead, Values, TimerTypeOK, reqVars, ctxVars, timerVars,
        loopVars
<1>13. CancellerIsExact'
    BY BoundsAssumption, NoOneAssumption
    DEF IInv, TypeOK, CancelRead, CancellerIsExact, Running, CancelerTypeOK,
        RequestTypeOK, reqVars, ctxVars, timerVars, loopVars
<1>14. TimersAreOwned'
    <2> SUFFICES ASSUME NEW u \in live'
                 PROVE  \E v \in Running' :
                            /\ request'[v] = nodes'[u].owner
                            /\ u \in {held'[v], timerId'[v]} \/ canceller'.tid = u
        BY DEF TimersAreOwned
    <2>0. /\ u \in live /\ u # NIL /\ nodes' = nodes /\ request' = request /\ held' = held
          /\ timerId' = timerId /\ Running' = Running
        BY DEF CancelRead, IInv, TypeOK, TimerTypeOK, NIL, Running, timerVars, ctxVars, reqVars
    <2>1. PICK v \in Running :
              /\ request[v] = nodes[u].owner
              /\ u \in {held[v], timerId[v]} \/ canceller.tid = u
        BY <2>0 DEF IInv, TimersAreOwned
    <2> QED BY <2>0, <2>1, <1>a
<1> QED BY <1>1, <1>2, <1>3, <1>4, <1>5, <1>6, <1>7, <1>8, <1>9, <1>10,
           <1>11, <1>12, <1>13, <1>14
    DEF IInv, TypeOK

LEMMA CancelUnregisterStep ==
    ASSUME IInv, CancelUnregister
    PROVE  IInv'
<1>a. /\ canceller.ctx \in Workers /\ canceller.tid \in 1..Len(nodes)
      /\ timerId[canceller.ctx] \in {NIL, canceller.tid}
    BY DEF IInv, Holder, Running, CancelUnregister, TypeOK, CancelerTypeOK, TimerTypeOK,
           TimerIds, NIL
<1>b. /\ live' \subseteq live \ {canceller.tid} /\ nodes' = nodes /\ earliest' \in Nat
      /\ excused' \subseteq 0..MaxRequests
    BY <1>a, RemoveTimerFacts DEF IInv, TypeOK, CancelUnregister
<1>1. RequestTypeOK'
    BY BoundsAssumption
    DEF IInv, TypeOK, CancelUnregister, RemoveTimer, RequestTypeOK, reqVars, ctxVars,
        timerVars, loopVars
<1>2. ContextTypeOK'
    BY <1>a, <1>b DEF IInv, TypeOK, ContextTypeOK, CancelUnregister, TimerIds, NIL, TimerTypeOK
<1>3. CancelerTypeOK'
    BY BoundsAssumption, NoOneAssumption
    DEF IInv, TypeOK, CancelUnregister, RemoveTimer, CancelerTypeOK, ContextTypeOK,
        TimerTypeOK, TimerIds, NIL, NoCancel, reqVars, ctxVars, timerVars, loopVars
<1>4. TimerTypeOK'
    BY <1>b DEF IInv, TypeOK, TimerTypeOK
<1>5. LoopTypeOK'
    BY <1>b DEF IInv, TypeOK, LoopTypeOK, CancelUnregister, loopVars
<1>6. Shape'
    BY BoundsAssumption
    DEF IInv, TypeOK, CancelUnregister, RemoveTimer, Shape, RequestTypeOK,
        ContextTypeOK, TimerTypeOK, TimerIds, NIL, reqVars, ctxVars, timerVars,
        loopVars
<1>7. Distinct'
    BY BoundsAssumption
    DEF IInv, TypeOK, CancelUnregister, RemoveTimer, Distinct, Shape, Running,
        RequestTypeOK, reqVars, ctxVars, timerVars, loopVars
<1>8. Owners'
    BY BoundsAssumption
    DEF IInv, TypeOK, CancelUnregister, RemoveTimer, Owners, Shape, RequestTypeOK,
        ContextTypeOK, TimerTypeOK, TimerIds, NIL, reqVars, ctxVars, timerVars,
        loopVars
<1>9. Expiry'
    BY BoundsAssumption
    DEF IInv, TypeOK, CancelUnregister, RemoveTimer, Expiry, Distinct, Owners, Shape,
        Running, RequestTypeOK, TimerTypeOK, reqVars, ctxVars, timerVars, loopVars
<1>10. Holder'
    BY BoundsAssumption, NoOneAssumption
    DEF IInv, TypeOK, CancelUnregister, RemoveTimer, Holder, Shape, Owners,
        CancelerTypeOK, ContextTypeOK, RequestTypeOK, TimerTypeOK, TimerIds, Running,
        NIL, NoCancel, reqVars, ctxVars, timerVars, loopVars
<1>11. DueExpired'
    BY BoundsAssumption
    DEF IInv, TypeOK, CancelUnregister, RemoveTimer, DueExpired, LoopTypeOK,
        TimerTypeOK, reqVars, ctxVars, timerVars, loopVars
<1>12. Values'
    BY BoundsAssumption
    DEF IInv, TypeOK, CancelUnregister, RemoveTimer, Values, TimerTypeOK, reqVars,
        ctxVars, timerVars, loopVars
<1>13. CancellerIsExact'
    BY BoundsAssumption, NoOneAssumption
    DEF IInv, TypeOK, CancelUnregister, RemoveTimer, CancellerIsExact, Running,
        CancelerTypeOK, RequestTypeOK, reqVars, ctxVars, timerVars, loopVars
<1>14. TimersAreOwned'
    <2> SUFFICES ASSUME NEW u \in live'
                 PROVE  \E v \in Running' :
                            /\ request'[v] = nodes'[u].owner
                            /\ u \in {held'[v], timerId'[v]} \/ canceller'.tid = u
        BY DEF TimersAreOwned
    <2>0. /\ u \in live /\ u # canceller.tid /\ u # NIL /\ request' = request /\ held' = held
          /\ Running' = Running
        BY <1>b DEF CancelUnregister, IInv, TypeOK, TimerTypeOK, NIL, Running, reqVars
    <2>1. PICK v \in Running :
              /\ request[v] = nodes[u].owner
              /\ u \in {held[v], timerId[v]} \/ canceller.tid = u
        BY <2>0 DEF IInv, TimersAreOwned
    <2>2. u = timerId[v] => u = timerId'[v]
        BY <2>0, <1>a DEF CancelUnregister, IInv, TypeOK, ContextTypeOK, Running
    <2> QED BY <1>b, <2>0, <2>1, <2>2
<1> QED BY <1>1, <1>2, <1>3, <1>4, <1>5, <1>6, <1>7, <1>8, <1>9, <1>10,
           <1>11, <1>12, <1>13, <1>14
    DEF IInv, TypeOK

LEMMA WakeStep ==
    ASSUME IInv, Wake
    PROVE  IInv'
<1>1. RequestTypeOK'
    BY BoundsAssumption
    DEF IInv, TypeOK, Wake, RequestTypeOK, reqVars, ctxVars, timerVars, loopVars
<1>2. ContextTypeOK'
    BY BoundsAssumption
    DEF IInv, TypeOK, Wake, ContextTypeOK, TimerTypeOK, TimerIds, NIL, reqVars,
        ctxVars, timerVars, loopVars
<1>3. CancelerTypeOK'
    BY BoundsAssumption, NoOneAssumption
    DEF IInv, TypeOK, Wake, CancelerTypeOK, ContextTypeOK, TimerTypeOK, TimerIds, NIL,
        NoCancel, reqVars, ctxVars, timerVars, loopVars
<1>4. TimerTypeOK'
    BY BoundsAssumption
    DEF IInv, TypeOK, Wake, TimerTypeOK, RequestTypeOK, reqVars, ctxVars, timerVars,
        loopVars
<1>5. LoopTypeOK'
    BY BoundsAssumption
    DEF IInv, TypeOK, Wake, LoopTypeOK, TimerTypeOK, RequestTypeOK, reqVars, ctxVars,
        timerVars, loopVars
<1>6. Shape'
    BY BoundsAssumption
    DEF IInv, TypeOK, Wake, Shape, RequestTypeOK, ContextTypeOK, TimerTypeOK, TimerIds,
        NIL, reqVars, ctxVars, timerVars, loopVars
<1>7. Distinct'
    BY BoundsAssumption
    DEF IInv, TypeOK, Wake, Distinct, Shape, Running, RequestTypeOK, reqVars, ctxVars,
        timerVars, loopVars
<1>8. Owners'
    BY BoundsAssumption
    DEF IInv, TypeOK, Wake, Owners, Shape, RequestTypeOK, ContextTypeOK, TimerTypeOK,
        TimerIds, NIL, reqVars, ctxVars, timerVars, loopVars
<1>9. Expiry'
    BY BoundsAssumption
    DEF IInv, TypeOK, Wake, Expiry, Distinct, Owners, Shape, Running, RequestTypeOK,
        TimerTypeOK, reqVars, ctxVars, timerVars, loopVars
<1>10. Holder'
    BY BoundsAssumption, NoOneAssumption
    DEF IInv, TypeOK, Wake, Holder, Shape, Owners, CancelerTypeOK, ContextTypeOK,
        RequestTypeOK, TimerTypeOK, TimerIds, Running, NIL, NoCancel, reqVars, ctxVars,
        timerVars, loopVars
<1>11. DueExpired'
    BY BoundsAssumption
    DEF IInv, TypeOK, Wake, DueExpired, LoopTypeOK, TimerTypeOK, reqVars, ctxVars,
        timerVars, loopVars
<1>12. Values'
    BY BoundsAssumption
    DEF IInv, TypeOK, Wake, Values, TimerTypeOK, reqVars, ctxVars, timerVars, loopVars
<1>13. CancellerIsExact'
    BY BoundsAssumption, NoOneAssumption
    DEF IInv, TypeOK, Wake, CancellerIsExact, Running, CancelerTypeOK, RequestTypeOK,
        reqVars, ctxVars, timerVars, loopVars
<1>14. TimersAreOwned'
    BY BoundsAssumption
    DEF IInv, TypeOK, Wake, TimersAreOwned, Running, Shape, RequestTypeOK,
        ContextTypeOK, TimerTypeOK, CancelerTypeOK, NIL, TimerIds, reqVars, ctxVars,
        timerVars, loopVars
<1> QED BY <1>1, <1>2, <1>3, <1>4, <1>5, <1>6, <1>7, <1>8, <1>9, <1>10,
           <1>11, <1>12, <1>13, <1>14
    DEF IInv, TypeOK

LEMMA ScanNextStep ==
    ASSUME IInv, ScanNext
    PROVE  IInv'
<1>p. PICK t \in due : due' = due \ {t} /\ Cancel("loop", nodes[t].id)
    BY DEF ScanNext
<1>q. nodes[t].id \in RequestIds
    BY NodeType DEF IInv, TypeOK, LoopTypeOK
<1>a. /\ excused' \subseteq 0..MaxRequests
      /\ \/ canceller' = canceller
         \/ \E w \in Running :
               /\ entries[nodes[t].id] = w
               /\ canceller' = [by |-> "loop", at |-> "read", ctx |-> w, tid |-> NIL]
    BY CancelFacts, <1>p, <1>q DEF ScanNext
<1>b. /\ pc' = pc /\ request' = request /\ nodes' = nodes /\ live' = live
      /\ timerId' = timerId /\ held' = held /\ entries' = entries
      /\ Running' = Running /\ canceller = NoCancel
    BY DEF ScanNext, reqVars, timerVars, Running
<1>1. RequestTypeOK'
    BY BoundsAssumption
    DEF IInv, TypeOK, ScanNext, Cancel, RequestTypeOK, reqVars, ctxVars, timerVars,
        loopVars
<1>2. ContextTypeOK'
    BY BoundsAssumption
    DEF IInv, TypeOK, ScanNext, Cancel, ContextTypeOK, TimerTypeOK, TimerIds, NIL,
        reqVars, ctxVars, timerVars, loopVars
<1>3. CancelerTypeOK'
    BY <1>a, <1>b DEF IInv, TypeOK, CancelerTypeOK, TimerIds, NIL, Running, TimerTypeOK
<1>4. TimerTypeOK'
    BY BoundsAssumption
    DEF IInv, TypeOK, ScanNext, Cancel, TimerTypeOK, RequestTypeOK, reqVars, ctxVars,
        timerVars, loopVars
<1>5. LoopTypeOK'
    BY <1>a, <1>b, <1>p DEF IInv, TypeOK, LoopTypeOK, ScanNext
<1>6. Shape'
    BY BoundsAssumption
    DEF IInv, TypeOK, ScanNext, Cancel, Shape, RequestTypeOK, ContextTypeOK,
        TimerTypeOK, TimerIds, NIL, reqVars, ctxVars, timerVars, loopVars
<1>7. Distinct'
    BY BoundsAssumption
    DEF IInv, TypeOK, ScanNext, Cancel, Distinct, Shape, Running, RequestTypeOK,
        reqVars, ctxVars, timerVars, loopVars
<1>8. Owners'
    BY BoundsAssumption
    DEF IInv, TypeOK, ScanNext, Cancel, Owners, Shape, RequestTypeOK, ContextTypeOK,
        TimerTypeOK, TimerIds, NIL, reqVars, ctxVars, timerVars, loopVars
<1>9. Expiry'
    BY BoundsAssumption
    DEF IInv, TypeOK, ScanNext, Cancel, Expiry, Distinct, Owners, Shape, Running,
        RequestTypeOK, TimerTypeOK, reqVars, ctxVars, timerVars, loopVars
<1>10. Holder'
    BY <1>a, <1>b DEF IInv, Holder, NoCancel, NIL
<1>11. DueExpired'
    BY BoundsAssumption
    DEF IInv, TypeOK, ScanNext, Cancel, DueExpired, LoopTypeOK, TimerTypeOK, reqVars,
        ctxVars, timerVars, loopVars
<1>12. Values'
    BY BoundsAssumption
    DEF IInv, TypeOK, ScanNext, Cancel, Values, TimerTypeOK, reqVars, ctxVars,
        timerVars, loopVars
<1>13. CancellerIsExact'
    BY BoundsAssumption, NoOneAssumption
    DEF IInv, TypeOK, ScanNext, Cancel, CancellerIsExact, Running, CancelerTypeOK,
        RequestTypeOK, reqVars, ctxVars, timerVars, loopVars
<1>14. TimersAreOwned'
    <2> SUFFICES ASSUME NEW u \in live'
                 PROVE  \E v \in Running' :
                            /\ request'[v] = nodes'[u].owner
                            /\ u \in {held'[v], timerId'[v]} \/ canceller'.tid = u
        BY DEF TimersAreOwned
    <2>0. u \in live /\ u # NIL
        BY <1>b DEF IInv, TypeOK, TimerTypeOK, NIL
    <2>1. PICK v \in Running :
              /\ request[v] = nodes[u].owner
              /\ u \in {held[v], timerId[v]} \/ canceller.tid = u
        BY <2>0 DEF IInv, TimersAreOwned
    <2>2. canceller.tid = NIL
        BY <1>b DEF NoCancel
    <2> QED BY <2>0, <2>1, <2>2, <1>b
<1> QED BY <1>1, <1>2, <1>3, <1>4, <1>5, <1>6, <1>7, <1>8, <1>9, <1>10,
           <1>11, <1>12, <1>13, <1>14
    DEF IInv, TypeOK

LEMMA ScanSkipStep ==
    ASSUME IInv, ScanSkip
    PROVE  IInv'
<1>1. RequestTypeOK'
    BY BoundsAssumption
    DEF IInv, TypeOK, ScanSkip, RequestTypeOK, reqVars, ctxVars, timerVars, loopVars
<1>2. ContextTypeOK'
    BY BoundsAssumption
    DEF IInv, TypeOK, ScanSkip, ContextTypeOK, TimerTypeOK, TimerIds, NIL, reqVars,
        ctxVars, timerVars, loopVars
<1>3. CancelerTypeOK'
    BY BoundsAssumption, NoOneAssumption
    DEF IInv, TypeOK, ScanSkip, CancelerTypeOK, ContextTypeOK, TimerTypeOK, TimerIds,
        NIL, NoCancel, reqVars, ctxVars, timerVars, loopVars
<1>4. TimerTypeOK'
    BY BoundsAssumption
    DEF IInv, TypeOK, ScanSkip, TimerTypeOK, RequestTypeOK, reqVars, ctxVars,
        timerVars, loopVars
<1>5. LoopTypeOK'
    BY BoundsAssumption
    DEF IInv, TypeOK, ScanSkip, LoopTypeOK, TimerTypeOK, RequestTypeOK, reqVars,
        ctxVars, timerVars, loopVars
<1>6. Shape'
    BY BoundsAssumption
    DEF IInv, TypeOK, ScanSkip, Shape, RequestTypeOK, ContextTypeOK, TimerTypeOK,
        TimerIds, NIL, reqVars, ctxVars, timerVars, loopVars
<1>7. Distinct'
    BY BoundsAssumption
    DEF IInv, TypeOK, ScanSkip, Distinct, Shape, Running, RequestTypeOK, reqVars,
        ctxVars, timerVars, loopVars
<1>8. Owners'
    BY BoundsAssumption
    DEF IInv, TypeOK, ScanSkip, Owners, Shape, RequestTypeOK, ContextTypeOK,
        TimerTypeOK, TimerIds, NIL, reqVars, ctxVars, timerVars, loopVars
<1>9. Expiry'
    BY BoundsAssumption
    DEF IInv, TypeOK, ScanSkip, Expiry, Distinct, Owners, Shape, Running,
        RequestTypeOK, TimerTypeOK, reqVars, ctxVars, timerVars, loopVars
<1>10. Holder'
    BY BoundsAssumption, NoOneAssumption
    DEF IInv, TypeOK, ScanSkip, Holder, Shape, Owners, CancelerTypeOK, ContextTypeOK,
        RequestTypeOK, TimerTypeOK, TimerIds, Running, NIL, NoCancel, reqVars, ctxVars,
        timerVars, loopVars
<1>11. DueExpired'
    BY BoundsAssumption
    DEF IInv, TypeOK, ScanSkip, DueExpired, LoopTypeOK, TimerTypeOK, reqVars, ctxVars,
        timerVars, loopVars
<1>12. Values'
    BY BoundsAssumption
    DEF IInv, TypeOK, ScanSkip, Values, TimerTypeOK, reqVars, ctxVars, timerVars,
        loopVars
<1>13. CancellerIsExact'
    BY BoundsAssumption, NoOneAssumption
    DEF IInv, TypeOK, ScanSkip, CancellerIsExact, Running, CancelerTypeOK,
        RequestTypeOK, reqVars, ctxVars, timerVars, loopVars
<1>14. TimersAreOwned'
    BY BoundsAssumption
    DEF IInv, TypeOK, ScanSkip, TimersAreOwned, Running, Shape, RequestTypeOK,
        ContextTypeOK, TimerTypeOK, CancelerTypeOK, NIL, TimerIds, reqVars, ctxVars,
        timerVars, loopVars
<1> QED BY <1>1, <1>2, <1>3, <1>4, <1>5, <1>6, <1>7, <1>8, <1>9, <1>10,
           <1>11, <1>12, <1>13, <1>14
    DEF IInv, TypeOK

LEMMA PollStep ==
    ASSUME IInv, Poll
    PROVE  IInv'
<1>a. Keys \subseteq Nat
    BY NodeType DEF Keys, IInv, TypeOK, TimerTypeOK
<1>b. now \in Nat /\ earliest \in Nat
    BY DEF IInv, TypeOK, TimerTypeOK, LoopTypeOK
<1>c. earliest' \in Nat
    BY <1>a, <1>b DEF Poll
<1>d. wake' = now + PollMax \/ wake' = PollTime(earliest')
    BY DEF Poll
<1>e. wake' \in Nat
    BY <1>b, <1>c, <1>d, PollAssumption DEF PollTime
<1>1. RequestTypeOK'
    BY BoundsAssumption, PollAssumption
    DEF IInv, TypeOK, Poll, Keys, PollTime, RequestTypeOK, reqVars, ctxVars, timerVars,
        loopVars
<1>2. ContextTypeOK'
    BY BoundsAssumption, PollAssumption
    DEF IInv, TypeOK, Poll, Keys, PollTime, ContextTypeOK, TimerTypeOK, TimerIds, NIL,
        reqVars, ctxVars, timerVars, loopVars
<1>3. CancelerTypeOK'
    BY BoundsAssumption, NoOneAssumption, PollAssumption
    DEF IInv, TypeOK, Poll, Keys, PollTime, CancelerTypeOK, ContextTypeOK, TimerTypeOK,
        TimerIds, NIL, NoCancel, reqVars, ctxVars, timerVars, loopVars
<1>4. TimerTypeOK'
    BY <1>c DEF IInv, TypeOK, TimerTypeOK, Poll
<1>5. LoopTypeOK'
    BY <1>e DEF IInv, TypeOK, LoopTypeOK, Poll
<1>6. Shape'
    BY BoundsAssumption, PollAssumption
    DEF IInv, TypeOK, Poll, Keys, PollTime, Shape, RequestTypeOK, ContextTypeOK,
        TimerTypeOK, TimerIds, NIL, reqVars, ctxVars, timerVars, loopVars
<1>7. Distinct'
    BY BoundsAssumption, PollAssumption
    DEF IInv, TypeOK, Poll, Keys, PollTime, Distinct, Shape, Running, RequestTypeOK,
        reqVars, ctxVars, timerVars, loopVars
<1>8. Owners'
    BY BoundsAssumption, PollAssumption
    DEF IInv, TypeOK, Poll, Keys, PollTime, Owners, Shape, RequestTypeOK,
        ContextTypeOK, TimerTypeOK, TimerIds, NIL, reqVars, ctxVars, timerVars,
        loopVars
<1>9. Expiry'
    BY BoundsAssumption, PollAssumption
    DEF IInv, TypeOK, Poll, Keys, PollTime, Expiry, Distinct, Owners, Shape, Running,
        RequestTypeOK, TimerTypeOK, reqVars, ctxVars, timerVars, loopVars
<1>10. Holder'
    BY BoundsAssumption, NoOneAssumption, PollAssumption
    DEF IInv, TypeOK, Poll, Keys, PollTime, Holder, Shape, Owners, CancelerTypeOK,
        ContextTypeOK, RequestTypeOK, TimerTypeOK, TimerIds, Running, NIL, NoCancel,
        reqVars, ctxVars, timerVars, loopVars
<1>11. DueExpired'
    BY BoundsAssumption, PollAssumption
    DEF IInv, TypeOK, Poll, Keys, PollTime, DueExpired, LoopTypeOK, TimerTypeOK,
        reqVars, ctxVars, timerVars, loopVars
<1>12. Values'
    BY BoundsAssumption, PollAssumption
    DEF IInv, TypeOK, Poll, Keys, PollTime, Values, TimerTypeOK, reqVars, ctxVars,
        timerVars, loopVars
<1>13. CancellerIsExact'
    BY BoundsAssumption, NoOneAssumption, PollAssumption
    DEF IInv, TypeOK, Poll, Keys, PollTime, CancellerIsExact, Running, CancelerTypeOK,
        RequestTypeOK, reqVars, ctxVars, timerVars, loopVars
<1>14. TimersAreOwned'
    BY BoundsAssumption, PollAssumption
    DEF IInv, TypeOK, Poll, Keys, PollTime, TimersAreOwned, Running, Shape,
        RequestTypeOK, ContextTypeOK, TimerTypeOK, CancelerTypeOK, NIL, TimerIds,
        reqVars, ctxVars, timerVars, loopVars
<1> QED BY <1>1, <1>2, <1>3, <1>4, <1>5, <1>6, <1>7, <1>8, <1>9, <1>10,
           <1>11, <1>12, <1>13, <1>14
    DEF IInv, TypeOK

LEMMA TickStep ==
    ASSUME IInv, Tick
    PROVE  IInv'
<1>1. RequestTypeOK'
    BY BoundsAssumption
    DEF IInv, TypeOK, Tick, RequestTypeOK, reqVars, ctxVars, timerVars, loopVars
<1>2. ContextTypeOK'
    BY BoundsAssumption
    DEF IInv, TypeOK, Tick, ContextTypeOK, TimerTypeOK, TimerIds, NIL, reqVars,
        ctxVars, timerVars, loopVars
<1>3. CancelerTypeOK'
    BY BoundsAssumption, NoOneAssumption
    DEF IInv, TypeOK, Tick, CancelerTypeOK, ContextTypeOK, TimerTypeOK, TimerIds, NIL,
        NoCancel, reqVars, ctxVars, timerVars, loopVars
<1>4. TimerTypeOK'
    BY BoundsAssumption
    DEF IInv, TypeOK, Tick, TimerTypeOK, RequestTypeOK, reqVars, ctxVars, timerVars,
        loopVars
<1>5. LoopTypeOK'
    BY BoundsAssumption
    DEF IInv, TypeOK, Tick, LoopTypeOK, TimerTypeOK, RequestTypeOK, reqVars, ctxVars,
        timerVars, loopVars
<1>6. Shape'
    BY BoundsAssumption
    DEF IInv, TypeOK, Tick, Shape, RequestTypeOK, ContextTypeOK, TimerTypeOK, TimerIds,
        NIL, reqVars, ctxVars, timerVars, loopVars
<1>7. Distinct'
    BY BoundsAssumption
    DEF IInv, TypeOK, Tick, Distinct, Shape, Running, RequestTypeOK, reqVars, ctxVars,
        timerVars, loopVars
<1>8. Owners'
    BY BoundsAssumption
    DEF IInv, TypeOK, Tick, Owners, Shape, RequestTypeOK, ContextTypeOK, TimerTypeOK,
        TimerIds, NIL, reqVars, ctxVars, timerVars, loopVars
<1>9. Expiry'
    BY BoundsAssumption
    DEF IInv, TypeOK, Tick, Expiry, Distinct, Owners, Shape, Running, RequestTypeOK,
        TimerTypeOK, reqVars, ctxVars, timerVars, loopVars
<1>10. Holder'
    BY BoundsAssumption, NoOneAssumption
    DEF IInv, TypeOK, Tick, Holder, Shape, Owners, CancelerTypeOK, ContextTypeOK,
        RequestTypeOK, TimerTypeOK, TimerIds, Running, NIL, NoCancel, reqVars, ctxVars,
        timerVars, loopVars
<1>11. DueExpired'
    <2>1. \A u \in due : nodes[u].key \in Nat
        BY NodeType DEF IInv, TypeOK, LoopTypeOK
    <2>2. now \in Nat /\ now' = now + 1 /\ nodes' = nodes /\ due' = due
        BY DEF IInv, TypeOK, LoopTypeOK, Tick, timerVars, loopVars
    <2> QED BY <2>1, <2>2 DEF IInv, DueExpired
<1>12. Values'
    BY BoundsAssumption
    DEF IInv, TypeOK, Tick, Values, TimerTypeOK, reqVars, ctxVars, timerVars, loopVars
<1>13. CancellerIsExact'
    BY BoundsAssumption, NoOneAssumption
    DEF IInv, TypeOK, Tick, CancellerIsExact, Running, CancelerTypeOK, RequestTypeOK,
        reqVars, ctxVars, timerVars, loopVars
<1>14. TimersAreOwned'
    BY BoundsAssumption
    DEF IInv, TypeOK, Tick, TimersAreOwned, Running, Shape, RequestTypeOK,
        ContextTypeOK, TimerTypeOK, CancelerTypeOK, NIL, TimerIds, reqVars, ctxVars,
        timerVars, loopVars
<1> QED BY <1>1, <1>2, <1>3, <1>4, <1>5, <1>6, <1>7, <1>8, <1>9, <1>10,
           <1>11, <1>12, <1>13, <1>14
    DEF IInv, TypeOK

LEMMA InitStep == Init => IInv
<1> SUFFICES ASSUME Init PROVE IInv
    OBVIOUS
<1>1. RequestTypeOK /\ ContextTypeOK /\ TimerTypeOK /\ LoopTypeOK
    <2>1. RequestTypeOK
        BY BoundsAssumption DEF Init, RequestTypeOK
    <2>2. ContextTypeOK
        BY DEF Init, ContextTypeOK, TimerIds, NIL
    <2>3. TimerTypeOK
        BY DEF Init, TimerTypeOK
    <2>4. LoopTypeOK
        <3>1. now \in Nat /\ wake \in Nat /\ due = {} /\ excused = {} /\ loop = "poll"
            BY PollAssumption DEF Init
        <3>2. broken \in BOOLEAN
            BY DEF Init
        <3> QED BY <3>1, <3>2 DEF LoopTypeOK
    <2> QED BY <2>1, <2>2, <2>3, <2>4
<1>2. CancelerTypeOK
    BY DEF Init, CancelerTypeOK, NoCancel, TimerIds, NIL
<1>3. Shape /\ Distinct /\ Owners /\ Expiry /\ DueExpired /\ Values /\ TimersAreOwned
    BY DEF Init, Shape, Distinct, Owners, Expiry, DueExpired, Values, TimersAreOwned,
           Running, NIL
<1>4. Holder
    BY DEF Init, Holder, NoCancel
<1>5. CancellerIsExact
    BY NoOneAssumption DEF Init, CancellerIsExact, Running
<1> QED BY <1>1, <1>2, <1>3, <1>4, <1>5 DEF IInv, TypeOK

\* A step that changes nothing keeps the invariant.
LEMMA StutterStep == IInv /\ UNCHANGED vars => IInv'
<1> SUFFICES ASSUME IInv, UNCHANGED vars PROVE IInv'
    OBVIOUS
<1>1. TypeOK'
    BY DEF IInv, vars, reqVars, ctxVars, timerVars, loopVars, TypeOK, RequestTypeOK,
           ContextTypeOK, CancelerTypeOK, TimerTypeOK, LoopTypeOK, TimerIds
<1>2. Shape' /\ Distinct' /\ Owners' /\ Expiry'
    BY DEF IInv, vars, reqVars, ctxVars, timerVars, loopVars, Shape, Distinct, Owners,
           Expiry, Running
<1>3. Holder' /\ DueExpired' /\ Values' /\ TimersAreOwned'
    BY DEF IInv, vars, reqVars, ctxVars, timerVars, loopVars, Holder, DueExpired, Values,
           TimersAreOwned, Running
<1>4. CancellerIsExact'
    BY DEF IInv, vars, reqVars, ctxVars, timerVars, loopVars, CancellerIsExact, Running
<1> QED BY <1>1, <1>2, <1>3, <1>4 DEF IInv

LEMMA NextStep == IInv /\ [Next]_vars => IInv'
<1> SUFFICES ASSUME IInv, [Next]_vars PROVE IInv'
    OBVIOUS
<1>1. ASSUME NEW w \in Workers, Worker(w) PROVE IInv'
    BY <1>1, BeginStep, RegisterTimerStep, StoreTimerStep, CheckRcStep, WriteRcStep,
       EndCommandStep, UnregisterTimerStep, LeaveStep DEF Worker
<1>2. ASSUME NEW id \in RequestIds, ClientCancel(id) PROVE IInv'
    BY <1>2, ClientCancelStep
<1>3. CASE CancelRead \/ CancelUnregister
    BY <1>3, CancelReadStep, CancelUnregisterStep
<1>4. CASE Wake \/ ScanNext \/ ScanSkip \/ Poll \/ Tick
    BY <1>4, WakeStep, ScanNextStep, ScanSkipStep, PollStep, TickStep
<1>5. CASE UNCHANGED vars
    BY <1>5, StutterStep
<1> QED BY <1>1, <1>2, <1>3, <1>4, <1>5 DEF Next

LEMMA Invariance == Spec => []IInv
BY InitStep, NextStep, PTL DEF Spec

-----------------------------------------------------------------------------
\* The timer's and the canceler's state is well typed at every step.
THEOREM TimerTypeCorrect == Spec => []TypeOK
<1>1. IInv => TypeOK
    BY DEF IInv
<1> QED BY <1>1, Invariance, PTL

\* No timer outlives its request: whoever has to unregister it still knows it,
\* with any number of workers, whether clients name their requests or not.
THEOREM NoTimerIsLeftBehind == Spec => []TimersAreOwned
<1>1. IInv => TimersAreOwned
    BY DEF IInv
<1> QED BY <1>1, Invariance, PTL

\* The canceler's hash has exactly the running requests that have an id.
THEOREM CancellerCorrect == Spec => []CancellerIsExact
<1>1. IInv => CancellerIsExact
    BY DEF IInv
<1> QED BY <1>1, Invariance, PTL

\* A step of the event loop that cancels a request finds its timeout passed.
LEMMA ScanCancelsExpired ==
    ASSUME ClientIds, IInv, ScanNext, NEW w \in Workers,
           rc[w] # "cancel", rc'[w] = "cancel"
    PROVE  timeout[w] > 0 /\ now >= deadline[w]
<1>1. PICK t \in due : Cancel("loop", nodes[t].id)
    BY DEF ScanNext
<1>2. t \in 1..Len(nodes) /\ nodes[t].key <= now
    BY DEF IInv, DueExpired, TypeOK, LoopTypeOK
<1>3. nodes[t].key \in Nat /\ nodes[t].id = nodes[t].owner /\ nodes[t].id \in RequestIds
    BY <1>2, NodeType DEF IInv, TypeOK, Values
<1>4. entries[nodes[t].id] = w
    BY <1>1 DEF Cancel, IInv, TypeOK, ContextTypeOK
<1>5. w \in Running /\ nodes[t].id = request[w]
    BY <1>3, <1>4 DEF IInv, CancellerIsExact, RequestId
<1>6. timeout[w] > 0 /\ deadline[w] <= nodes[t].key
    BY <1>2, <1>3, <1>5 DEF IInv, Expiry
<1> QED BY <1>2, <1>3, <1>6 DEF IInv, TypeOK, RequestTypeOK, LoopTypeOK

\* With request ids of its own no request is cancelled by the timer before its
\* timeout has passed, however many timers the cursor has kept.
THEOREM NoRequestIsCancelledEarly == ClientIds => (Spec => NoEarlyCancel)
<1> SUFFICES ASSUME ClientIds PROVE Spec => NoEarlyCancel
    OBVIOUS
<1>1. ASSUME IInv, Next
      PROVE  \A w \in Workers :
                 (due' # due /\ rc[w] # "cancel" /\ rc'[w] = "cancel") =>
                     timeout[w] > 0 /\ now >= deadline[w]
    <2>1. CASE ScanNext
        BY <1>1, <2>1, ScanCancelsExpired
    <2>2. CASE ~ScanNext
        <3>1. due' = due \/ rc' = rc
            BY <1>1, <2>2
            DEF Next, Worker, Begin, RegisterTimer, StoreTimer, CheckRc, WriteRc, EndCommand,
                UnregisterTimer, Leave, ClientCancel, CancelRead, CancelUnregister, Wake,
                ScanSkip, Poll, Tick, ctxVars, loopVars
        <3> QED BY <3>1
    <2> QED BY <2>1, <2>2
<1>2. IInv /\ [Next]_vars =>
          [\A w \in Workers :
              (due' # due /\ rc[w] # "cancel" /\ rc'[w] = "cancel") =>
                  timeout[w] > 0 /\ now >= deadline[w]]_vars
    BY <1>1
<1> QED BY <1>2, Invariance, PTL DEF Spec, NoEarlyCancel

-----------------------------------------------------------------------------
(***************************************************************************)
(* No request runs for longer than one poll beyond its timer.  What is     *)
(* needed of the poll is only its upper limit and that the first timer     *)
(* interrupts it: earliest_unix_time_msec need not be right.               *)
(***************************************************************************)
\* A timer's value names the request that registered it.
Names ==
    \A w \in Running : \A t \in 1..Len(nodes) :
        nodes[t].owner = request[w] => nodes[t].id = RequestId(w, request[w])

WakesSoon == wake <= now + PollMax

\* The loop comes to t in time: it sleeps no longer than one poll beyond it, or
\* is about to cancel its request.
InTime(t) ==
    /\ now <= nodes[t].key + PollMax
    /\ loop = "poll" => broken \/ wake <= nodes[t].key + PollMax
    /\ loop = "scan" => t \in due \/ now < nodes[t].key

\* The timers of the requests that are neither cancelled nor excused.
Counts(w, t) ==
    w \in Running /\ request[w] = nodes[t].owner /\ rc[w] # "cancel"
        /\ request[w] \notin excused

AllInTime == \A t \in live : \A w \in Workers : Counts(w, t) => InTime(t)

LateInv == Names /\ WakesSoon /\ AllInTime

\* A step that registers no timer and leaves the loop and the clock alone.
LEMMA StillInTime ==
    ASSUME IInv, AllInTime, nodes' = nodes, live' \subseteq live, now' = now,
           UNCHANGED loopVars,
           \A w \in Workers, t \in 1..Len(nodes) : Counts(w, t)' => Counts(w, t)
    PROVE  AllInTime'
<1> SUFFICES ASSUME NEW t \in live', NEW w \in Workers, Counts(w, t)'
             PROVE  InTime(t)'
    BY DEF AllInTime
<1>1. t \in live /\ t \in 1..Len(nodes)
    BY DEF IInv, TypeOK, TimerTypeOK
<1>2. InTime(t)
    BY <1>1 DEF AllInTime
<1> QED BY <1>2 DEF InTime, loopVars

LEMMA BeginLate ==
    ASSUME IInv, LateInv, NEW w \in Workers, NEW t \in Timeouts, Begin(w, t)
    PROVE  LateInv'
<1>1. /\ nodes' = nodes /\ live' = live /\ now' = now /\ UNCHANGED loopVars
      /\ excused' = excused /\ rc' = rc /\ wake' = wake
    BY DEF Begin, timerVars, loopVars, ctxVars
<1>2. \A u \in 1..Len(nodes) : nodes[u].owner # request'[w]
    <2>1. request'[w] = count + 1 /\ count \in Nat
        BY DEF Begin, IInv, TypeOK, RequestTypeOK
    <2>2. \A u \in 1..Len(nodes) : nodes[u].owner <= count /\ nodes[u].owner \in Nat
        BY NodeType DEF IInv, Owners, TypeOK
    <2> QED BY <2>1, <2>2
<1>3. \A v \in Workers : v # w => pc'[v] = pc[v] /\ request'[v] = request[v]
    BY DEF Begin, IInv, TypeOK, RequestTypeOK
<1>4. Names'
    BY <1>1, <1>2, <1>3 DEF LateInv, Names, Running
<1>5. \A v \in Workers, u \in 1..Len(nodes) : Counts(v, u)' => Counts(v, u)
    BY <1>1, <1>2, <1>3 DEF Counts, Running
<1>6. AllInTime'
    BY <1>1, <1>5, StillInTime DEF LateInv
<1> QED BY <1>1, <1>4, <1>6 DEF LateInv, WakesSoon

LEMMA RegisterTimerLate ==
    ASSUME IInv, LateInv, NEW w \in Workers, RegisterTimer(w)
    PROVE  LateInv'
<1> DEFINE n == Len(nodes) + 1
<1>a. PICK key \in now + timeout[w] .. now + timeout[w] + Len(nodes) : AddTimer(w, key)
    BY DEF RegisterTimer
<1>b. /\ now \in Nat /\ timeout[w] \in Nat /\ Len(nodes) \in Nat /\ key \in Nat
      /\ timeout[w] > 0 /\ now < key /\ wake \in Nat
    <2>1. /\ now \in Nat /\ timeout[w] \in Nat /\ Len(nodes) \in Nat /\ wake \in Nat
          /\ timeout[w] > 0
        BY DEF IInv, TypeOK, RequestTypeOK, TimerTypeOK, LoopTypeOK, RegisterTimer, Shape
    <2> QED BY <1>a, <2>1
<1>e. /\ Len(nodes') = n
      /\ nodes'[n] = [key |-> key, id |-> RequestId(w, request[w]), owner |-> request[w]]
      /\ \A u \in 1..Len(nodes) : nodes'[u] = nodes[u]
    BY <1>a DEF AddTimer, IInv, TypeOK, TimerTypeOK
<1>f. live' = live \cup {n} /\ broken' = (broken \/ live = {})
    BY <1>a DEF AddTimer
<1>g. /\ request' = request /\ rc' = rc /\ excused' = excused /\ now' = now
      /\ loop' = loop /\ wake' = wake /\ due' = due
      /\ pc' = [pc EXCEPT ![w] = "store"] /\ pc[w] = "timer"
    BY DEF RegisterTimer
<1>h. Running' = Running /\ w \in Running
    BY <1>g DEF Running, IInv, TypeOK, RequestTypeOK
<1>1. Names'
    <2> SUFFICES ASSUME NEW v \in Running, NEW u \in 1..n, nodes'[u].owner = request[v]
                 PROVE  nodes'[u].id = RequestId(v, request[v])
        BY <1>e, <1>g, <1>h DEF Names, RequestId
    <2>1. CASE u = n
        <3>1. v = w
            BY <2>1, <1>e, <1>h DEF IInv, Distinct
        <3> QED BY <2>1, <3>1, <1>e
    <2>2. CASE u \in 1..Len(nodes)
        BY <2>2, <1>e DEF LateInv, Names
    <2> QED BY <2>1, <2>2, <1>b
<1>2. WakesSoon'
    BY <1>g DEF LateInv, WakesSoon
<1>3. AllInTime'
    <2> SUFFICES ASSUME NEW t \in live', NEW v \in Workers, Counts(v, t)'
                 PROVE  InTime(t)'
        BY DEF AllInTime
    <2>1. CASE t = n
        <3>1. nodes'[t].key = key
            BY <2>1, <1>e
        <3>2. now <= key + PollMax /\ wake <= key + PollMax
            BY <1>b, PollAssumption DEF LateInv, WakesSoon
        <3> QED BY <1>b, <1>g, <3>1, <3>2 DEF InTime
    <2>2. CASE t \in live
        <3>1. t \in 1..Len(nodes) /\ nodes'[t] = nodes[t]
            BY <2>2, <1>e DEF IInv, TypeOK, TimerTypeOK
        <3>2. Counts(v, t)
            BY <1>g, <1>h, <3>1 DEF Counts
        <3>3. InTime(t)
            BY <2>2, <3>2 DEF LateInv, AllInTime
        <3>4. broken' <=> broken \/ live = {}
            BY <1>f, Zenon
        <3> QED BY <1>g, <3>1, <3>3, <3>4 DEF InTime
    <2> QED BY <2>1, <2>2, <1>f
<1> QED BY <1>1, <1>2, <1>3 DEF LateInv

\* The workers' other steps, and the canceler's own: requests stay what they
\* are, and an rc of GRN_CANCEL goes only with the request or by a race that
\* excuses it.
LEMMA QuietLate ==
    ASSUME IInv, LateInv, nodes' = nodes, live' \subseteq live, now' = now,
           UNCHANGED loopVars, excused \subseteq excused',
           \A w \in Workers :
              /\ pc'[w] # "idle" => pc[w] # "idle" /\ request'[w] = request[w]
              /\ (pc'[w] # "idle" /\ rc[w] = "cancel") =>
                    rc'[w] = "cancel" \/ request[w] \in excused'
    PROVE  LateInv'
<1>1. Names'
    BY DEF LateInv, Names, Running
<1>2. WakesSoon'
    BY DEF LateInv, WakesSoon, loopVars
<1>3. \A w \in Workers, t \in 1..Len(nodes) : Counts(w, t)' => Counts(w, t)
    BY DEF Counts, Running
<1>4. AllInTime'
    BY <1>3, StillInTime DEF LateInv
<1> QED BY <1>1, <1>2, <1>4 DEF LateInv

LEMMA WorkerLate ==
    ASSUME IInv, LateInv, NEW w \in Workers, Worker(w)
    PROVE  LateInv'
<1>t. TimerTypeOK /\ LoopTypeOK /\ RequestTypeOK /\ ContextTypeOK /\ TypeOK
    BY DEF IInv, TypeOK
<1>1. ASSUME NEW t \in Timeouts, Begin(w, t) PROVE LateInv'
    BY <1>1, BeginLate
<1>2. CASE RegisterTimer(w)
    BY <1>2, RegisterTimerLate
<1>3. CASE StoreTimer(w)
    BY <1>3, <1>t, QuietLate DEF StoreTimer, timerVars, loopVars, RequestTypeOK
<1>4. ASSUME NEW value, CheckRc(w, value) PROVE LateInv'
    BY <1>4, <1>t, QuietLate DEF CheckRc, timerVars, loopVars, reqVars
<1>5. CASE WriteRc(w)
    <2>1. excused \subseteq excused'
        BY <1>5 DEF WriteRc
    <2>2. rc[w] = "cancel" => request[w] \in excused'
        BY <1>5 DEF WriteRc
    <2>3. \A v \in Workers : v # w => rc'[v] = rc[v]
        BY <1>5, <1>t DEF WriteRc, ContextTypeOK
    <2> QED BY <1>5, <2>1, <2>2, <2>3, QuietLate DEF WriteRc, timerVars, loopVars, reqVars
<1>6. CASE EndCommand(w)
    BY <1>6, <1>t, QuietLate DEF EndCommand, timerVars, loopVars, RequestTypeOK
<1>7. CASE UnregisterTimer(w)
    <2>1. held[w] \in 1..Len(nodes)
        BY <1>7, <1>t DEF UnregisterTimer, IInv, Shape, ContextTypeOK, TimerIds, NIL
    <2>2. live' \subseteq live /\ nodes' = nodes /\ excused \subseteq excused'
        BY <1>7, Zenon DEF UnregisterTimer, RemoveTimer
    <2> QED BY <1>7, <1>t, <2>2, QuietLate DEF UnregisterTimer, loopVars, RequestTypeOK
<1>8. CASE Leave(w)
    <2>1. \A v \in Workers : v # w => /\ rc'[v] = rc[v] /\ pc'[v] = pc[v]
                                      /\ request'[v] = request[v]
        BY <1>8, <1>t DEF Leave, ContextTypeOK, RequestTypeOK
    <2>2. pc'[w] = "idle"
        BY <1>8, <1>t DEF Leave, RequestTypeOK
    <2> QED BY <1>8, <2>1, <2>2, QuietLate DEF Leave, timerVars, loopVars
<1> QED BY <1>1, <1>2, <1>3, <1>4, <1>5, <1>6, <1>7, <1>8 DEF Worker

LEMMA CancelerLate ==
    ASSUME IInv, LateInv,
           CancelRead \/ CancelUnregister \/ \E id \in RequestIds : ClientCancel(id)
    PROVE  LateInv'
<1>1. CASE CancelRead
    BY <1>1, QuietLate DEF CancelRead, timerVars, loopVars, reqVars, ctxVars
<1>2. CASE CancelUnregister
    <2>1. live' \subseteq live /\ nodes' = nodes /\ excused \subseteq excused'
        BY <1>2, Zenon DEF CancelUnregister, RemoveTimer
    <2> QED BY <1>2, <2>1, QuietLate DEF CancelUnregister, loopVars, reqVars
<1>3. ASSUME NEW id \in RequestIds, ClientCancel(id) PROVE LateInv'
    <2>1. excused \subseteq excused'
        BY <1>3, Zenon DEF ClientCancel, Cancel
    <2>2. \A v \in Workers : rc[v] = "cancel" => rc'[v] = "cancel"
        BY <1>3 DEF ClientCancel, Cancel, IInv, TypeOK, ContextTypeOK
    <2> QED BY <1>3, <2>1, <2>2, QuietLate DEF ClientCancel, timerVars, loopVars, reqVars
<1> QED BY <1>1, <1>2, <1>3

LEMMA WakeLate ==
    ASSUME IInv, LateInv, Wake
    PROVE  LateInv'
<1>1. /\ nodes' = nodes /\ live' = live /\ now' = now /\ wake' = now /\ loop' = "scan"
      /\ due' = {t \in live : nodes[t].key <= now} /\ excused' = excused /\ rc' = rc
      /\ pc' = pc /\ request' = request /\ now \in Nat
    BY DEF Wake, timerVars, reqVars, ctxVars, IInv, TypeOK, LoopTypeOK
<1>2. \A t \in live : nodes[t].key \in Nat
    BY NodeType DEF IInv, TypeOK, TimerTypeOK
<1>3. AllInTime'
    BY <1>1, <1>2 DEF LateInv, AllInTime, Counts, InTime, Running
<1>4. WakesSoon'
    BY <1>1, PollAssumption DEF WakesSoon
<1> QED BY <1>1, <1>3, <1>4 DEF LateInv, Names, Running

LEMMA ScanNextLate ==
    ASSUME IInv, LateInv, ScanNext
    PROVE  LateInv'
<1>1. PICK t \in due : due' = due \ {t} /\ Cancel("loop", nodes[t].id)
    BY DEF ScanNext
<1>2. /\ nodes' = nodes /\ live' = live /\ now' = now /\ wake' = wake /\ loop' = loop
      /\ loop = "scan" /\ broken' = broken /\ pc' = pc /\ request' = request
    BY DEF ScanNext, timerVars, reqVars
<1>3. excused \subseteq excused'
    BY <1>1, Zenon DEF Cancel
<1>4. \A v \in Workers : rc[v] = "cancel" => rc'[v] = "cancel"
    BY <1>1 DEF Cancel, IInv, TypeOK, ContextTypeOK
<1>5. \A w \in Workers, u \in 1..Len(nodes) : Counts(w, u)' => Counts(w, u)
    BY <1>2, <1>3, <1>4 DEF Counts, Running
\* The request whose timer the cursor returned is cancelled, or excused.
<1>6. \A w \in Workers : ~Counts(w, t)'
    <2> SUFFICES ASSUME NEW w \in Workers, Counts(w, t)' PROVE FALSE
        OBVIOUS
    <2>1. t \in 1..Len(nodes) /\ Counts(w, t)
        BY <1>5 DEF IInv, TypeOK, LoopTypeOK
    <2>2. /\ w \in Running /\ request[w] = nodes[t].owner
          /\ nodes[t].id = RequestId(w, request[w]) /\ timeout[w] > 0
        BY <2>1 DEF Counts, LateInv, Names, IInv, Expiry
    <2>3. nodes[t].id \in RequestIds
        BY <2>1, NodeType DEF IInv, TypeOK
    <2>4. entries[nodes[t].id] = w
        BY <2>2, <2>3 DEF IInv, CancellerIsExact, HasId
    <2>5. w # NoOne
        BY NoOneAssumption
    <2>6. CASE rc[w] = "success"
        BY <1>1, <2>4, <2>5, <2>6 DEF Cancel, Counts, IInv, TypeOK, ContextTypeOK
    <2>7. CASE rc[w] = "error"
        BY <1>1, <1>2, <2>4, <2>5, <2>7 DEF Cancel, Counts
    <2>8. rc[w] \in {"success", "error"}
        BY <2>1 DEF Counts, IInv, TypeOK, ContextTypeOK
    <2> QED BY <2>6, <2>7, <2>8
<1>7. AllInTime'
    <2> SUFFICES ASSUME NEW u \in live, NEW w \in Workers, Counts(w, u)'
                 PROVE  InTime(u)'
        BY <1>2 DEF AllInTime
    <2>1. u # t /\ u \in 1..Len(nodes)
        BY <1>6 DEF IInv, TypeOK, TimerTypeOK
    <2>2. InTime(u)
        BY <1>5, <2>1 DEF LateInv, AllInTime
    <2> QED BY <1>1, <1>2, <2>1, <2>2 DEF InTime
<1> QED BY <1>2, <1>7 DEF LateInv, Names, WakesSoon, Running

LEMMA ScanSkipLate ==
    ASSUME IInv, LateInv, ScanSkip
    PROVE  LateInv'
<1>1. PICK t \in due \ live : due' = due \ {t}
    BY DEF ScanSkip
<1>2. /\ nodes' = nodes /\ live' = live /\ now' = now /\ wake' = wake /\ loop' = loop
      /\ loop = "scan" /\ pc' = pc /\ request' = request /\ rc' = rc /\ excused' = excused
    BY DEF ScanSkip, timerVars, reqVars, ctxVars
<1>3. AllInTime'
    BY <1>1, <1>2 DEF LateInv, AllInTime, Counts, InTime, Running
<1> QED BY <1>2, <1>3 DEF LateInv, Names, WakesSoon, Running

LEMMA PollLate ==
    ASSUME IInv, LateInv, Poll
    PROVE  LateInv'
<1>1. /\ nodes' = nodes /\ live' = live /\ now' = now /\ loop' = "poll" /\ loop = "scan"
      /\ due = {} /\ pc' = pc /\ request' = request /\ rc' = rc /\ excused' = excused
    BY DEF Poll, reqVars, ctxVars
<1>2. wake' = now + PollMax \/ wake' = PollTime(earliest')
    BY DEF Poll
<1>3. now \in Nat /\ wake' \in Nat /\ earliest' \in Nat
    BY PollStep DEF IInv, TypeOK, LoopTypeOK, TimerTypeOK
<1>4. wake' <= now + PollMax
    BY <1>2, <1>3, PollAssumption DEF PollTime
<1>5. \A t \in live : nodes[t].key \in Nat
    BY NodeType DEF IInv, TypeOK, TimerTypeOK
<1>6. AllInTime'
    <2> SUFFICES ASSUME NEW t \in live, NEW w \in Workers, Counts(w, t)'
                 PROVE  InTime(t)'
        BY <1>1 DEF AllInTime
    <2>1. Counts(w, t)
        BY <1>1 DEF Counts, Running
    <2>2. now < nodes[t].key
        BY <1>1, <2>1 DEF LateInv, AllInTime, InTime
    <2>3. now <= nodes[t].key + PollMax /\ wake' <= nodes[t].key + PollMax
        BY <1>3, <1>4, <1>5, <2>2, PollAssumption
    <2> QED BY <1>1, <2>3 DEF InTime
<1> QED BY <1>1, <1>4, <1>6 DEF LateInv, Names, WakesSoon, Running

LEMMA TickLate ==
    ASSUME IInv, LateInv, Tick
    PROVE  LateInv'
<1>1. /\ nodes' = nodes /\ live' = live /\ now' = now + 1 /\ loop' = loop /\ wake' = wake
      /\ loop = "poll" /\ now < wake /\ ~broken /\ ~broken'
      /\ pc' = pc /\ request' = request /\ rc' = rc /\ excused' = excused
    BY DEF Tick, reqVars, ctxVars, timerVars, loopVars
<1>2. now \in Nat /\ wake \in Nat
    BY DEF IInv, TypeOK, LoopTypeOK
<1>3. \A t \in live : nodes[t].key \in Nat
    BY NodeType DEF IInv, TypeOK, TimerTypeOK
<1>4. AllInTime'
    <2> SUFFICES ASSUME NEW t \in live, NEW w \in Workers, Counts(w, t)'
                 PROVE  InTime(t)'
        BY <1>1 DEF AllInTime
    <2>1. Counts(w, t)
        BY <1>1 DEF Counts, Running
    <2>2. wake <= nodes[t].key + PollMax
        BY <1>1, <2>1 DEF LateInv, AllInTime, InTime
    <2>3. now + 1 <= nodes[t].key + PollMax
        BY <1>1, <1>2, <1>3, <2>2, PollAssumption
    <2> QED BY <1>1, <2>2, <2>3 DEF InTime
<1>5. WakesSoon'
    BY <1>1, <1>2, PollAssumption DEF LateInv, WakesSoon
<1> QED BY <1>1, <1>4, <1>5 DEF LateInv, Names, Running

LEMMA NextLate == IInv /\ LateInv /\ [Next]_vars => LateInv'
<1> SUFFICES ASSUME IInv, LateInv, [Next]_vars PROVE LateInv'
    OBVIOUS
<1>1. CASE UNCHANGED vars
    BY <1>1, QuietLate DEF vars, reqVars, ctxVars, timerVars, loopVars
<1> QED BY <1>1, WorkerLate, CancelerLate, WakeLate, ScanNextLate, ScanSkipLate, PollLate,
           TickLate DEF Next

LEMMA InitLate == Init => LateInv
BY PollAssumption DEF Init, LateInv, Names, WakesSoon, AllInTime, Running

\* However many requests register timers while the event loop polls or walks over
\* the expired ones, a request that is not cancelled runs for at most one poll
\* longer than its timer says, unless a race has excused it.
THEOREM LatenessIsBounded == Spec => []BoundedLateness
<1>1. IInv /\ LateInv => BoundedLateness
    <2> SUFFICES ASSUME IInv, LateInv, NEW t \in live, NEW w \in Workers, timerId[w] = t,
                        rc[w] = "success", request[w] \notin excused
                 PROVE  now <= nodes[t].key + PollMax
        BY DEF BoundedLateness
    <2>1. t # NIL
        BY DEF IInv, TypeOK, TimerTypeOK, NIL
    <2>2. w \in Running /\ request[w] = nodes[t].owner
        BY <2>1 DEF IInv, Shape, Owners, Running
    <2> QED BY <2>2 DEF LateInv, AllInTime, Counts, InTime
<1> QED BY <1>1, InitStep, NextStep, InitLate, NextLate, PTL DEF Spec
=============================================================================
