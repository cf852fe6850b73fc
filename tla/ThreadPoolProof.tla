--------------------------- MODULE ThreadPoolProof ---------------------------
(***************************************************************************)
(* Proofs about ThreadPool for any number of threads, any requests, any    *)
(* limits, with or without failing thread creation.                        *)
(***************************************************************************)
EXTENDS ThreadPool, FiniteSetTheorems, TLAPS

\* The inductive invariant.  That the pool survives needs the meaning of the
\* counters: with no thread running there is none floating either, so h_handler
\* starts one.
IInv ==
    /\ TypeOK
    /\ CountersAgree
    /\ PoolSurvives

\* One more element of a set of threads, one less, and none of it at all.
LEMMA CountAdd ==
    ASSUME NEW S \in SUBSET Workers, NEW w \in Workers, w \notin S
    PROVE  Cardinality(S \cup {w}) = Cardinality(S) + 1
  BY WorkersAssumption, FS_Subset, FS_AddElement

LEMMA CountRemove ==
    ASSUME NEW S \in SUBSET Workers, NEW w \in S
    PROVE  /\ Cardinality(S \ {w}) = Cardinality(S) - 1
           /\ Cardinality(S) >= 1
  <1>1. IsFiniteSet(S) /\ Cardinality(S) \in Nat
    BY WorkersAssumption, FS_Subset, FS_CardinalityType
  <1>2. Cardinality(S) # 0
    BY <1>1, FS_EmptySet
  <1>3. Cardinality(S \ {w}) = Cardinality(S) - 1
    BY <1>1, FS_RemoveElement
  <1> QED
    BY <1>1, <1>2, <1>3

LEMMA CountType ==
    ASSUME NEW S \in SUBSET Workers
    PROVE  Cardinality(S) \in Nat
  BY WorkersAssumption, FS_Subset, FS_CardinalityType

LEMMA Sizes ==
    /\ Cardinality(Workers) \in Nat
    /\ Cardinality(Workers) >= 1
  <1>1. Cardinality(Workers) \in Nat
    BY WorkersAssumption, FS_CardinalityType
  <1> QED
    BY <1>1, LimitAssumption

\* A signal moves at most one thread, from "wait" to "woken".
LEMMA SignalMoves ==
    ASSUME NEW p \in [Workers -> Pc], NEW q \in Signalled(p)
    PROVE  /\ q \in [Workers -> Pc]
           /\ \A w \in Workers : q[w] = p[w] \/ (p[w] = "wait" /\ q[w] = "woken")
  BY DEF Signalled, Pc

LEMMA InitIInv == Init => IInv
  <1> SUFFICES ASSUME Init PROVE IInv
    OBVIOUS
  <1>1. Live = {} /\ Floaters = {} /\ Changers = {}
    BY DEF Init, Live, Floaters, Changers, Limiting
  <1>2. CountersAgree
    BY <1>1, FS_EmptySet DEF Init, CountersAgree
  <1>3. PoolSurvives
    BY DEF Init, PoolSurvives
  <1>4. TypeOK
    <2>1. /\ quit \in BOOLEAN /\ failed \in BOOLEAN /\ overlapped \in BOOLEAN
          /\ cancelled \in [Workers -> BOOLEAN]
      BY DEF Init
    <2>2. limit \in 1..Cardinality(Workers)
      BY LimitAssumption DEF Init
    <2>3. saved \in [Workers -> [others : Nat, limit : 1..Cardinality(Workers), signals : Nat]]
      BY Sizes DEF Init, NoCall
    <2> QED
      BY <2>1, <2>2, <2>3 DEF Init, TypeOK, Pc
  <1> QED
    BY <1>2, <1>3, <1>4 DEF IInv

-----------------------------------------------------------------------------
\* What a step of the request h_handler receives does to the types.
LEMMA HandleType ==
    ASSUME TypeOK, NEW m \in Requests, Handle(m)
    PROVE  TypeOK'
  <1>0. m.kind \in Kinds
    BY RequestsAssumption
  <1>1. sent' \in [Kinds -> Nat]
    <2>1. sent' = [sent EXCEPT ![m.kind] = sent[m.kind] + 1]
      BY DEF Handle, HandleItself, Enqueue
    <2>2. sent[m.kind] + 1 \in Nat
      BY <1>0 DEF TypeOK
    <2> QED
      BY <1>0, <2>1, <2>2 DEF TypeOK
  <1>2. CASE HandleItself(m)
    <2>1. cancelled' \in [Workers -> BOOLEAN]
      <3>1. \A w \in Workers : (cancelled[w] \/ w \in Registered) \in BOOLEAN
        OBVIOUS
      <3> QED
        BY <1>2, <3>1 DEF HandleItself, ShutdownNow
    <2>2. quit' \in BOOLEAN
      BY <1>2 DEF HandleItself, ShutdownNow
    <2> QED
      BY <1>1, <1>2, <2>1, <2>2 DEF HandleItself, TypeOK, poolVars, ghosts
  <1>3. CASE Enqueue(m)
    <2>1. queue' \in Seq(Requests)
      BY <1>3 DEF Enqueue, TypeOK
    <2>2. pc' \in [Workers -> Pc] /\ running' \in Nat
      <3>1. CASE StartThread
        <4>1. PICK w \in Workers : pc' \in Signalled([pc EXCEPT ![w] = "top"])
          BY <3>1 DEF StartThread
        <4>2. [pc EXCEPT ![w] = "top"] \in [Workers -> Pc]
          BY DEF TypeOK, Pc
        <4>3. pc' \in [Workers -> Pc]
          BY <4>1, <4>2, SignalMoves
        <4>4. running' \in Nat
          BY <3>1 DEF StartThread, TypeOK
        <4> QED
          BY <4>3, <4>4
      <3>2. CASE StartFails \/ SignalOnly
        BY <3>2, SignalMoves DEF StartFails, SignalOnly, TypeOK
      <3> QED
        BY <1>3, <3>1, <3>2 DEF Enqueue
    <2>3. cancelled' \in [Workers -> BOOLEAN]
      BY <1>3 DEF Enqueue, StartThread, StartFails, SignalOnly, TypeOK
    <2>4. failed' \in BOOLEAN /\ overlapped' \in BOOLEAN
      BY <1>3 DEF Enqueue, StartThread, StartFails, SignalOnly, TypeOK
    <2> QED
      BY <1>1, <1>3, <2>1, <2>2, <2>3, <2>4 DEF Enqueue, TypeOK
  <1> QED
    BY <1>2, <1>3 DEF Handle

\* The types of the counters follow from what they count.
LEMMA TypeStep == IInv /\ [Next]_vars => TypeOK'
  <1> SUFFICES ASSUME IInv, [Next]_vars PROVE TypeOK'
    OBVIOUS
  <1>0. TypeOK /\ CountersAgree
    BY DEF IInv
  <1> DEFINE Calls == [others : Nat, limit : 1..Cardinality(Workers), signals : Nat]
  <1>1. ASSUME NEW m \in Requests, Handle(m) PROVE TypeOK'
    BY <1>0, <1>1, HandleType
  <1>2. ASSUME NEW w \in Workers, Top(w) \/ Wake(w) PROVE TypeOK'
    <2>1. pc' \in [Workers -> Pc]
      BY <1>0, <1>2 DEF Top, Wake, Exit, Take, Wait, TypeOK, Pc
    <2>2. queue' \in Seq(Requests) /\ msg' \in [Workers -> Requests \cup {NoRequest}]
      <3>1. CASE UNCHANGED <<queue, msg>>
        BY <1>0, <3>1 DEF TypeOK
      <3>2. CASE Take(w)
        BY <1>0, <3>2 DEF Take, TypeOK
      <3> QED
        BY <1>2, <3>1, <3>2 DEF Top, Wake, Exit, Wait
    <2>3. cancelled' \in [Workers -> BOOLEAN]
      BY <1>0, <1>2 DEF Top, Wake, TypeOK
    <2>4. running' \in Nat
      <3>1. w \in Live
        BY <1>2 DEF Top, Wake, Live
      <3>2. running >= 1
        BY <1>0, <3>1, CountRemove DEF CountersAgree, Live
      <3> QED
        BY <1>0, <1>2, <3>2 DEF Top, Wake, Exit, Take, Wait, TypeOK
    <2>5. floating' \in Nat
      <3>1. pc[w] = "woken" => floating >= 1
        BY <1>0, CountRemove, w \in Floaters <=> pc[w] \in {"wait", "woken"}
           DEF CountersAgree, Floaters
      <3> QED
        BY <1>0, <1>2, <3>1 DEF Top, Wake, TypeOK
    <2> QED
      BY <1>0, <1>2, <2>1, <2>2, <2>3, <2>4, <2>5 DEF Top, Wake, TypeOK, ghosts
  <1>3. ASSUME NEW w \in Workers, Execute(w) \/ SpuriousWake(w) PROVE TypeOK'
    BY <1>0, <1>3 DEF Execute, SpuriousWake, TypeOK, Pc, Executing, poolVars, ghosts
  <1>4. ASSUME NEW w \in Workers, Finish(w) PROVE TypeOK'
    BY <1>0, <1>4 DEF Finish, Done, TypeOK, Pc, poolVars, ghosts
  <1>5. ASSUME NEW w \in Workers, Shutdown(w) PROVE TypeOK'
    <2>1. cancelled' \in [Workers -> BOOLEAN]
      <3>1. \A v \in Workers : (cancelled[v] \/ v \in Registered) \in BOOLEAN
        OBVIOUS
      <3> QED
        BY <1>0, <1>5, <3>1 DEF Shutdown, ShutdownNow, TypeOK
    <2>2. quit' \in BOOLEAN
      BY <1>5 DEF Shutdown, ShutdownNow
    <2> QED
      BY <1>0, <1>5, <2>1, <2>2 DEF Shutdown, Done, TypeOK, Pc, poolVars, ghosts
  <1>6. ASSUME NEW w \in Workers, Cancel(w) PROVE TypeOK'
    BY <1>0, <1>6 DEF Cancel, TypeOK, poolVars, ghosts
  <1>7. ASSUME NEW w \in Workers, LimitEnter(w) PROVE TypeOK'
    <2>1. [others |-> changing, limit |-> 1, signals |-> 0] \in Calls
      BY <1>0, Sizes DEF TypeOK
    <2> QED
      BY <1>0, <1>7, <2>1 DEF LimitEnter, TypeOK, Pc, Executing, Limiting
  <1>8. ASSUME NEW w \in Workers, LimitSet(w) PROVE TypeOK'
    <2>1. msg[w].max \in 1..Cardinality(Workers)
      BY <1>0, RequestsAssumption, Sizes DEF TypeOK, NoRequest
    <2>2. [others |-> saved[w].others, limit |-> limit,
           signals |-> IF floating > msg[w].max THEN floating ELSE 0] \in Calls
      BY <1>0 DEF TypeOK
    <2> QED
      BY <1>0, <1>8, <2>1, <2>2 DEF LimitSet, TypeOK, Pc, Executing, Limiting, ghosts
  <1>9. ASSUME NEW w \in Workers, LimitSignal(w) PROVE TypeOK'
    <2>1. pc' \in [Workers -> Pc]
      <3>1. CASE saved[w].signals > 0
        BY <1>0, <1>9, <3>1, SignalMoves DEF LimitSignal, TypeOK
      <3>2. CASE ~(saved[w].signals > 0)
        BY <1>0, <1>9, <3>2 DEF LimitSignal, TypeOK, Pc, Executing, Limiting
      <3> QED
        BY <3>1, <3>2
    <2>2. saved' \in [Workers -> Calls]
      <3>1. saved[w] \in Calls
        BY <1>0 DEF TypeOK
      <3>2. saved[w].signals > 0 =>
              [others |-> saved[w].others, limit |-> saved[w].limit,
               signals |-> saved[w].signals - 1] \in Calls
        BY <3>1
      <3> QED
        BY <1>0, <1>9, <3>2 DEF LimitSignal, TypeOK
    <2> QED
      BY <1>0, <1>9, <2>1, <2>2 DEF LimitSignal, TypeOK, ghosts
  <1>10. ASSUME NEW w \in Workers, LimitCheck(w) PROVE TypeOK'
    <2>1. pc' \in [Workers -> Pc]
      <3> DEFINE p == [pc EXCEPT ![w] = "limit_sleep"]
      <3>1. p \in [Workers -> Pc] /\ [pc EXCEPT ![w] = "limit_end"] \in [Workers -> Pc]
        BY <1>0 DEF TypeOK, Pc, Executing, Limiting
      <3>2. pc' \in Signalled(p) => pc' \in [Workers -> Pc]
        BY <3>1, SignalMoves
      <3> QED
        BY <1>10, <3>1, <3>2 DEF LimitCheck
    <2> QED
      BY <1>0, <1>10, <2>1 DEF LimitCheck, TypeOK, poolVars, ghosts
  <1>11. ASSUME NEW w \in Workers, LimitSleep(w) PROVE TypeOK'
    <2>1. saved[w].limit \in 1..Cardinality(Workers)
      BY <1>0 DEF TypeOK
    <2> QED
      BY <1>0, <1>11, <2>1 DEF LimitSleep, TypeOK, Pc, Executing, Limiting, ghosts
  <1>12. ASSUME NEW w \in Workers, LimitLeave(w) PROVE TypeOK'
    <2>1. w \in Changers
      BY <1>12 DEF LimitLeave, Changers, Limiting
    <2>2. changing >= 1
      BY <1>0, <2>1, CountRemove DEF CountersAgree, Changers
    <2>3. NoCall \in Calls
      BY Sizes DEF NoCall
    <2> QED
      BY <1>0, <1>12, <2>2, <2>3 DEF LimitLeave, Done, TypeOK, Pc, ghosts
  <1>13. CASE LeaveLoop
    BY <1>0, <1>13 DEF LeaveLoop, TypeOK, poolVars, ghosts
  <1>14. CASE Drain
    BY <1>0, <1>14 DEF Drain, TypeOK, Pc, poolVars, ghosts
  <1>15. CASE UNCHANGED vars
    BY <1>0, <1>15 DEF vars, TypeOK
  <1> QED
    BY <1>1, <1>2, <1>3, <1>4, <1>5, <1>6, <1>7, <1>8, <1>9, <1>10, <1>11, <1>12,
       <1>13, <1>14, <1>15 DEF Next, Worker

\* The counters keep counting.  A step of one thread moves it into or out of the
\* sets that are counted; a signal moves threads only within them.
LEMMA CountersStep == IInv /\ [Next]_vars => CountersAgree'
  <1> SUFFICES ASSUME IInv, [Next]_vars PROVE CountersAgree'
    OBVIOUS
  <1>0. TypeOK /\ CountersAgree
    BY DEF IInv
  <1> DEFINE Same == Live' = Live /\ Floaters' = Floaters /\ Changers' = Changers
             Kept(p, q) == \A v \in Workers :
                             q[v] = p[v] \/ (p[v] = "wait" /\ q[v] = "woken")
  <1>a. Live \in SUBSET Workers /\ Floaters \in SUBSET Workers /\ Changers \in SUBSET Workers
    BY DEF Live, Floaters, Changers
  <1>b. ASSUME Same, UNCHANGED <<running, floating, changing>> PROVE CountersAgree'
    BY <1>0, <1>b DEF CountersAgree
  <1>c. ASSUME Kept(pc, pc') PROVE Same
    BY <1>c DEF Live, Floaters, Changers, Limiting
  <1>1. ASSUME NEW m \in Requests, Handle(m) PROVE CountersAgree'
    <2>1. CASE HandleItself(m)
      <3>1. Same
        BY <2>1, <1>c DEF HandleItself
      <3> QED
        BY <2>1, <3>1, <1>b DEF HandleItself, poolVars, ghosts
    <2>2. CASE Enqueue(m) /\ StartThread
      <3>1. PICK w \in Workers : /\ pc[w] = "off"
                                 /\ pc' \in Signalled([pc EXCEPT ![w] = "top"])
        BY <2>2 DEF StartThread
      <3> DEFINE p == [pc EXCEPT ![w] = "top"]
      <3>2. p \in [Workers -> Pc]
        BY <1>0 DEF TypeOK, Pc
      <3>3. Kept(p, pc')
        BY <3>1, <3>2, SignalMoves
      <3>4. /\ \A v \in Workers \ {w} : p[v] = pc[v]
            /\ p[w] = "top"
        BY <1>0 DEF TypeOK
      <3>5. /\ \A v \in Workers \ {w} : pc'[v] = pc[v] \/ (pc[v] = "wait" /\ pc'[v] = "woken")
            /\ pc'[w] = "top"
        BY <3>3, <3>4
      <3> HIDE DEF p
      <3>6. w \notin Live /\ Live' = Live \cup {w}
        BY <3>1, <3>5 DEF Live
      <3>7. Floaters' = Floaters /\ Changers' = Changers
        BY <3>1, <3>5 DEF Floaters, Changers, Limiting
      <3>8. Cardinality(Live') = Cardinality(Live) + 1
        BY <1>a, <3>6, CountAdd
      <3> QED
        BY <1>0, <2>2, <3>7, <3>8 DEF CountersAgree, Enqueue, StartThread
    <2>3. CASE Enqueue(m) /\ (StartFails \/ SignalOnly)
      <3>1. pc' \in Signalled(pc)
        BY <2>3 DEF StartFails, SignalOnly
      <3>2. Kept(pc, pc')
        BY <1>0, <3>1, SignalMoves DEF TypeOK
      <3>3. Same
        BY <3>2, <1>c
      <3> QED
        BY <2>3, <3>3, <1>b DEF Enqueue, StartFails, SignalOnly
    <2> QED
      BY <1>1, <2>1, <2>2, <2>3 DEF Handle, Enqueue
  <1>2. ASSUME NEW w \in Workers, Top(w) PROVE CountersAgree'
    <2>1. w \in Live /\ w \notin Floaters /\ w \notin Changers
      BY <1>2 DEF Top, Live, Floaters, Changers, Limiting
    <2>2. CASE Exit(w)
      <3>1. Live' = Live \ {w} /\ Floaters' = Floaters /\ Changers' = Changers
        BY <1>0, <2>1, <2>2 DEF Exit, TypeOK, Live, Floaters, Changers, Limiting
      <3>2. Cardinality(Live') = Cardinality(Live) - 1
        BY <1>a, <2>1, <3>1, CountRemove
      <3>3. floating' = floating /\ changing' = changing /\ running' = running - 1
        BY <1>0, <1>2, <2>2 DEF Top, Exit, Take, Wait, TypeOK
      <3> QED
        BY <1>0, <3>1, <3>2, <3>3 DEF CountersAgree
    <2>3. CASE Take(w)
      <3>1. Same
        BY <1>0, <1>2, <2>3 DEF Top, Take, TypeOK, Live, Floaters, Changers, Limiting
      <3>2. UNCHANGED <<running, floating, changing>>
        BY <1>0, <1>2, <2>3 DEF Top, Exit, Take, Wait, TypeOK
      <3> QED
        BY <3>1, <3>2, <1>b
    <2>4. CASE Wait(w)
      <3>1. Live' = Live /\ Floaters' = Floaters \cup {w} /\ Changers' = Changers
        BY <1>0, <1>2, <2>4 DEF Top, Wait, TypeOK, Live, Floaters, Changers, Limiting
      <3>2. Cardinality(Floaters') = Cardinality(Floaters) + 1
        BY <1>a, <2>1, <3>1, CountAdd
      <3>3. floating' = floating + 1 /\ changing' = changing /\ running' = running
        BY <1>0, <1>2, <2>4 DEF Top, Exit, Take, Wait, TypeOK
      <3> QED
        BY <1>0, <3>1, <3>2, <3>3 DEF CountersAgree
    <2> QED
      BY <1>2, <2>2, <2>3, <2>4 DEF Top
  <1>3. ASSUME NEW w \in Workers, Wake(w) PROVE CountersAgree'
    <2>1. w \in Live /\ w \in Floaters /\ w \notin Changers
      BY <1>3 DEF Wake, Live, Floaters, Changers, Limiting
    <2>2. CASE Exit(w)
      <3>1. Live' = Live \ {w} /\ Floaters' = Floaters \ {w} /\ Changers' = Changers
        BY <1>0, <2>1, <2>2 DEF Exit, TypeOK, Live, Floaters, Changers, Limiting
      <3>2. /\ Cardinality(Live') = Cardinality(Live) - 1
            /\ Cardinality(Floaters') = Cardinality(Floaters) - 1
        BY <1>a, <2>1, <3>1, CountRemove
      <3>3. floating' = floating - 1 /\ changing' = changing /\ running' = running - 1
        BY <1>0, <1>3, <2>2 DEF Wake, Exit, Take, Wait, TypeOK
      <3> QED
        BY <1>0, <3>1, <3>2, <3>3 DEF CountersAgree
    <2>3. CASE Take(w)
      <3>1. Live' = Live /\ Floaters' = Floaters \ {w} /\ Changers' = Changers
        BY <1>0, <1>3, <2>3 DEF Wake, Take, TypeOK, Live, Floaters, Changers, Limiting
      <3>2. Cardinality(Floaters') = Cardinality(Floaters) - 1
        BY <1>a, <2>1, <3>1, CountRemove
      <3>3. floating' = floating - 1 /\ changing' = changing /\ running' = running
        BY <1>0, <1>3, <2>3 DEF Wake, Exit, Take, Wait, TypeOK
      <3> QED
        BY <1>0, <3>1, <3>2, <3>3 DEF CountersAgree
    <2>4. CASE Wait(w)
      <3>1. Same
        BY <1>0, <1>3, <2>4 DEF Wake, Wait, TypeOK, Live, Floaters, Changers, Limiting
      <3>2. UNCHANGED <<running, floating, changing>>
        BY <1>0, <1>3, <2>4 DEF Wake, Exit, Take, Wait, TypeOK
      <3> QED
        BY <3>1, <3>2, <1>b
    <2> QED
      BY <1>3, <2>2, <2>3, <2>4 DEF Wake
  <1>4. ASSUME NEW w \in Workers, Execute(w) \/ SpuriousWake(w) \/ Cancel(w)
        PROVE  CountersAgree'
    <2>1. Same
      BY <1>0, <1>4 DEF Execute, SpuriousWake, Cancel, TypeOK, Live, Floaters, Changers,
                        Limiting
    <2> QED
      BY <1>4, <2>1, <1>b DEF Execute, SpuriousWake, Cancel, poolVars, ghosts
  <1>5. ASSUME NEW w \in Workers, Finish(w) \/ Shutdown(w) PROVE CountersAgree'
    <2>1. Same
      BY <1>0, <1>5 DEF Finish, Shutdown, Done, TypeOK, Live, Floaters, Changers, Limiting
    <2> QED
      BY <1>5, <2>1, <1>b DEF Finish, Shutdown, poolVars, ghosts
  <1>6. ASSUME NEW w \in Workers, LimitEnter(w) PROVE CountersAgree'
    <2>1. w \notin Changers
      BY <1>6 DEF LimitEnter, Changers, Limiting
    <2>2. Live' = Live /\ Floaters' = Floaters /\ Changers' = Changers \cup {w}
      BY <1>0, <1>6 DEF LimitEnter, TypeOK, Live, Floaters, Changers, Limiting
    <2>3. Cardinality(Changers') = Cardinality(Changers) + 1
      BY <1>a, <2>1, <2>2, CountAdd
    <2> QED
      BY <1>0, <1>6, <2>2, <2>3 DEF LimitEnter, CountersAgree
  <1>7. ASSUME NEW w \in Workers, LimitSet(w) \/ LimitSleep(w) PROVE CountersAgree'
    <2>1. Same
      BY <1>0, <1>7 DEF LimitSet, LimitSleep, TypeOK, Live, Floaters, Changers, Limiting
    <2> QED
      BY <1>7, <2>1, <1>b DEF LimitSet, LimitSleep
  <1>8. ASSUME NEW w \in Workers, LimitSignal(w) PROVE CountersAgree'
    <2>1. CASE saved[w].signals > 0
      <3>1. Kept(pc, pc')
        BY <1>0, <1>8, <2>1, SignalMoves DEF LimitSignal, TypeOK
      <3>2. Same
        BY <3>1, <1>c
      <3> QED
        BY <1>8, <3>2, <1>b DEF LimitSignal
    <2>2. CASE ~(saved[w].signals > 0)
      <3>1. Same
        BY <1>0, <1>8, <2>2 DEF LimitSignal, TypeOK, Live, Floaters, Changers, Limiting
      <3> QED
        BY <1>8, <3>1, <1>b DEF LimitSignal
    <2> QED
      BY <2>1, <2>2
  <1>9. ASSUME NEW w \in Workers, LimitCheck(w) PROVE CountersAgree'
    <2> DEFINE p == [pc EXCEPT ![w] = "limit_sleep"]
    <2>1. CASE pc' = [pc EXCEPT ![w] = "limit_end"] \/ pc' = p
      <3>1. Same
        BY <1>0, <1>9, <2>1 DEF LimitCheck, TypeOK, Live, Floaters, Changers, Limiting
      <3> QED
        BY <1>9, <3>1, <1>b DEF LimitCheck, poolVars, ghosts
    <2>2. CASE pc' \in Signalled(p)
      <3>1. p \in [Workers -> Pc]
        BY <1>0 DEF TypeOK, Pc, Executing, Limiting
      <3>2. Kept(p, pc')
        BY <2>2, <3>1, SignalMoves
      <3>3. /\ \A v \in Workers \ {w} : p[v] = pc[v]
            /\ p[w] = "limit_sleep" /\ pc[w] = "limit_check"
        BY <1>0, <1>9 DEF TypeOK, LimitCheck
      <3>4. /\ \A v \in Workers \ {w} : pc'[v] = pc[v] \/ (pc[v] = "wait" /\ pc'[v] = "woken")
            /\ pc'[w] = "limit_sleep" /\ pc[w] = "limit_check"
        BY <3>2, <3>3
      <3> HIDE DEF p
      <3>5. Same
        BY <3>4 DEF Live, Floaters, Changers, Limiting
      <3> QED
        BY <1>9, <3>5, <1>b DEF LimitCheck, poolVars, ghosts
    <2> QED
      BY <1>9, <2>1, <2>2 DEF LimitCheck
  <1>10. ASSUME NEW w \in Workers, LimitLeave(w) PROVE CountersAgree'
    <2>1. w \in Changers
      BY <1>10 DEF LimitLeave, Changers, Limiting
    <2>2. Live' = Live /\ Floaters' = Floaters /\ Changers' = Changers \ {w}
      BY <1>0, <1>10 DEF LimitLeave, Done, TypeOK, Live, Floaters, Changers, Limiting
    <2>3. Cardinality(Changers') = Cardinality(Changers) - 1
      BY <1>a, <2>1, <2>2, CountRemove
    <2> QED
      BY <1>0, <1>10, <2>2, <2>3 DEF LimitLeave, CountersAgree
  <1>11. CASE LeaveLoop \/ UNCHANGED vars
    <2>1. Same
      BY <1>11, <1>c DEF LeaveLoop, vars
    <2> QED
      BY <1>11, <2>1, <1>b DEF LeaveLoop, vars, poolVars, ghosts
  <1>12. CASE Drain
    <2>1. Kept(pc, pc')
      BY <1>12 DEF Drain, Waiting
    <2>2. Same
      BY <2>1, <1>c
    <2> QED
      BY <1>12, <2>2, <1>b DEF Drain, poolVars, ghosts
  <1> QED
    BY <1>1, <1>2, <1>3, <1>4, <1>5, <1>6, <1>7, <1>8, <1>9, <1>10, <1>11, <1>12
       DEF Next, Worker

\* The pool survives.  An empty pool has no floating thread, so the request that
\* finds it empty starts one; a thread leaves only when others stay or the
\* server quits.
LEMMA SurvivesStep == IInv /\ [Next]_vars => PoolSurvives'
  <1> SUFFICES ASSUME IInv, [Next]_vars,
                      ~quit', ~failed', \E k \in Kinds : sent'[k] > 0
               PROVE  running' >= 1
    BY DEF PoolSurvives
  <1>0. TypeOK /\ CountersAgree /\ PoolSurvives
    BY DEF IInv
  <1>1. ~quit
    BY <1>0 DEF Next, Handle, HandleItself, Enqueue, Worker, Top, Wake, Execute, Finish,
                Shutdown, ShutdownNow, LimitEnter, LimitSet, LimitSignal, LimitCheck,
                LimitSleep, LimitLeave, Cancel, SpuriousWake, LeaveLoop, Drain, vars
  <1>2. ASSUME NEW m \in Requests, HandleItself(m) PROVE running' >= 1
    BY <1>0, <1>2 DEF HandleItself, HandlesItself, TypeOK, poolVars, ghosts
  <1>3. ASSUME NEW m \in Requests, Enqueue(m) PROVE running' >= 1
    <2>1. CASE StartThread
      BY <1>0, <2>1 DEF StartThread, TypeOK
    <2>2. CASE SignalOnly
      <3>1. CASE floating = 0
        BY <1>0, <2>2, <3>1, Sizes DEF SignalOnly, NeedsThread, TypeOK
      <3>2. CASE floating # 0
        <4>1. Floaters # {}
          BY <1>0, <3>2, FS_EmptySet DEF CountersAgree
        <4>2. PICK w \in Workers : w \in Live
          BY <4>1 DEF Floaters, Live
        <4>3. running >= 1
          BY <1>0, <4>2, CountRemove DEF CountersAgree, Live
        <4> QED
          BY <2>2, <4>3 DEF SignalOnly
      <3> QED
        BY <3>1, <3>2
    <2> QED
      BY <1>3, <2>1, <2>2 DEF Enqueue, StartFails
  <1>4. ASSUME NEW w \in Workers, Top(w) \/ Wake(w) PROVE running' >= 1
    <2>1. running >= 1
      <3>1. w \in Live
        BY <1>4 DEF Top, Wake, Live
      <3> QED
        BY <1>0, <3>1, CountRemove DEF CountersAgree, Live
    <2> QED
      BY <1>0, <1>1, <1>4, <2>1 DEF Top, Wake, Exit, Take, Wait, MayStay, TypeOK
  <1>5. CASE UNCHANGED running /\ UNCHANGED sent /\ UNCHANGED failed
    BY <1>0, <1>1, <1>5 DEF PoolSurvives
  <1> QED
    BY <1>2, <1>3, <1>4, <1>5
       DEF Next, Handle, Worker, Execute, Finish, Shutdown, LimitEnter, LimitSet,
           LimitSignal, LimitCheck, LimitSleep, LimitLeave, Cancel, SpuriousWake,
           LeaveLoop, Drain, vars, poolVars, ghosts

\* The inductive invariant holds in every reachable state of the pool of
\* h_handler, h_worker and groonga_set_thread_limit_with_ctx.
THEOREM Invariance == Spec => []IInv
  <1>1. Init => IInv
    BY InitIInv
  <1>2. IInv /\ [Next]_vars => IInv'
    BY TypeStep, CountersStep, SurvivesStep DEF IInv
  <1> QED
    BY <1>1, <1>2, PTL DEF Spec

\* Every state of the worker pool is well typed; in particular the unsigned
\* counters n_running_threads, n_floating_threads and n_changing_threads of
\* src/groonga.c never go below zero.
THEOREM PoolTypeCorrect == Spec => []TypeOK
  <1>1. IInv => TypeOK
    BY DEF IInv
  <1> QED
    BY <1>1, Invariance, PTL

\* The counters by which h_handler, h_worker and thread_limit decide count what
\* they are meant to count.
THEOREM CountersCorrect == Spec => []CountersAgree
  <1>1. IInv => CountersAgree
    BY DEF IInv
  <1> QED
    BY <1>1, Invariance, PTL

\* Threads that h_worker ends because of a lower limit never leave the pool empty.
THEOREM PoolNeverEmpties == Spec => []PoolSurvives
  <1>1. IInv => PoolSurvives
    BY DEF IInv
  <1> QED
    BY <1>1, Invariance, PTL

-----------------------------------------------------------------------------
(***************************************************************************)
(* No lost wake-up until two thread_limit calls overlap.  A thread          *)
(* that ends because of the limit takes a signal with it; what saves the    *)
(* request is that the thread_limit call is still in its loop then.         *)
(***************************************************************************)
Reducing == {w \in Workers : pc[w] \in {"limit_signal", "limit_check", "limit_sleep"}}

\* A call that is alone knows it.
CallIsAlone == \A w \in Workers : pc[w] = "limit_set" => saved[w].others = 0

\* More threads than the limit run only while a call waits for them to end.
ExcessIsReduced == ~quit => running <= limit \/ Reducing # {}

\* The limit a cancelled call puts back is one the threads are within.
OldLimitFits ==
    ~quit =>
        \A w \in Reducing :
            /\ running <= limit \/ running <= saved[w].limit
            /\ pc[w] = "limit_sleep" => running <= saved[w].limit /\ limit <= saved[w].limit

OneLimitCall == changing <= 1

\* The invariant until two calls overlap.
AwakeInv == CallIsAlone /\ ExcessIsReduced /\ OldLimitFits /\ SomeoneAwake

\* With one call in progress there is one thread in it.
LEMMA ChangersAreOne ==
    ASSUME IInv, OneLimitCall, NEW u \in Changers, NEW v \in Changers
    PROVE  u = v
  <1> SUFFICES ASSUME u # v PROVE FALSE
    OBVIOUS
  <1> DEFINE rest == Changers \ {u}
  <1>1. Changers \in SUBSET Workers /\ rest \in SUBSET Workers
    BY DEF Changers
  <1>2. Cardinality(rest) = Cardinality(Changers) - 1
    BY <1>1, CountRemove
  <1>3. v \in rest
    OBVIOUS
  <1>4. Cardinality(rest) >= 1
    BY <1>1, <1>3, CountRemove
  <1>5. Cardinality(Changers) \in Nat /\ Cardinality(Changers) <= 1
    BY <1>1, CountType DEF IInv, CountersAgree, OneLimitCall
  <1> HIDE DEF rest
  <1> QED
    BY <1>2, <1>4, <1>5

\* The threads a signal leaves: who was awake stays where it is, and somebody is
\* awake if somebody waited.
LEMMA SignalWakes ==
    ASSUME NEW p \in [Workers -> Pc], NEW q \in Signalled(p),
           NEW v \in Workers, p[v] = "wait"
    PROVE  \E w \in Workers : q[w] = "woken"
  BY DEF Signalled

\* A step that leaves limit, running and the calls alone disturbs nothing but
\* SomeoneAwake.
LEMMA AwakeKept ==
    ASSUME AwakeInv, UNCHANGED <<running, limit, saved>>, quit => quit', 
           Reducing' = Reducing,
           \A w \in Workers : pc'[w] = "limit_set" => pc[w] = "limit_set",
           \A w \in Workers : pc'[w] = "limit_sleep" => pc[w] = "limit_sleep"
    PROVE  CallIsAlone' /\ ExcessIsReduced' /\ OldLimitFits'
  <1>1. CallIsAlone'
    BY DEF AwakeInv, CallIsAlone
  <1>2. ExcessIsReduced'
    BY DEF AwakeInv, ExcessIsReduced
  <1>3. OldLimitFits'
    BY DEF AwakeInv, OldLimitFits, Reducing
  <1> QED
    BY <1>1, <1>2, <1>3

\* A step after which everybody who was awake still is, and the queue has nothing new.
LEMMA SomeoneStaysAwake ==
    ASSUME SomeoneAwake, queue' # <<>> => queue # <<>>, quit => quit', failed => failed',
           overlapped => overlapped',
           \A w \in Workers : pc[w] \notin {"off", "wait"} => pc'[w] \notin {"off", "wait"}
    PROVE  SomeoneAwake'
  BY DEF SomeoneAwake

\* h_handler's step: the request it queues finds a thread that is up, new or
\* woken, or one of the threads that fill the pool and do not wait.
LEMMA EnqueueAwake ==
    ASSUME IInv, AwakeInv, NEW m \in Requests, Enqueue(m)
    PROVE  AwakeInv'
  <1>0. TypeOK /\ CountersAgree
    BY DEF IInv
  <1>1. UNCHANGED <<limit, saved, quit>>
    BY DEF Enqueue
  <1>2. PICK p \in [Workers -> Pc] :
            /\ pc' \in Signalled(p)
            /\ \A w \in Workers : p[w] = pc[w] \/ (pc[w] = "off" /\ p[w] = "top")
    <2>1. CASE StartThread
      <3>1. PICK w \in Workers : pc[w] = "off" /\ pc' \in Signalled([pc EXCEPT ![w] = "top"])
        BY <2>1 DEF StartThread
      <3>2. [pc EXCEPT ![w] = "top"] \in [Workers -> Pc]
        BY <1>0 DEF TypeOK, Pc
      <3> QED
        BY <1>0, <3>1, <3>2 DEF TypeOK
    <2>2. CASE StartFails \/ SignalOnly
      BY <1>0, <2>2 DEF StartFails, SignalOnly, TypeOK
    <2> QED
      BY <2>1, <2>2 DEF Enqueue
  <1>3. \A w \in Workers : pc'[w] = p[w] \/ (p[w] = "wait" /\ pc'[w] = "woken")
    BY <1>2, SignalMoves
  <1>4. \A w \in Workers : \/ pc'[w] = pc[w]
                           \/ pc[w] = "off" /\ pc'[w] = "top"
                           \/ pc[w] = "wait" /\ pc'[w] = "woken"
    BY <1>2, <1>3
  <1>5. Reducing' = Reducing
    BY <1>4 DEF Reducing
  <1>6. running' = running \/ (running' = running + 1 /\ running < limit)
    BY DEF Enqueue, StartThread, StartFails, SignalOnly, NeedsThread
  <1>7. running \in Nat /\ limit \in Nat /\ running' \in Nat
        /\ \A w \in Workers : saved[w].limit \in Nat
    BY <1>0, <1>6 DEF TypeOK
  <1>8. CallIsAlone'
    BY <1>1, <1>4 DEF AwakeInv, CallIsAlone
  <1>9. ExcessIsReduced'
    BY <1>1, <1>5, <1>6, <1>7 DEF AwakeInv, ExcessIsReduced
  <1>10. OldLimitFits'
    <2> SUFFICES ASSUME ~quit', NEW w \in Reducing'
                 PROVE  /\ running' <= limit' \/ running' <= saved'[w].limit
                        /\ pc'[w] = "limit_sleep" =>
                              running' <= saved'[w].limit /\ limit' <= saved'[w].limit
      BY DEF OldLimitFits
    <2>1. w \in Workers /\ w \in Reducing /\ pc'[w] = pc[w]
      BY <1>4, <1>5 DEF Reducing
    <2>2. /\ running <= limit \/ running <= saved[w].limit
          /\ pc[w] = "limit_sleep" => running <= saved[w].limit /\ limit <= saved[w].limit
      BY <1>1, <2>1 DEF AwakeInv, OldLimitFits
    <2> QED
      BY <1>1, <1>6, <1>7, <2>1, <2>2
  <1>11. SomeoneAwake'
    <2> SUFFICES ASSUME ~quit', ~failed'
                 PROVE  \E w \in Workers : pc'[w] \notin {"off", "wait"}
      BY DEF SomeoneAwake
    <2>1. CASE \E w \in Workers : pc[w] \notin {"off", "wait"}
      BY <1>4, <2>1
    <2>2. CASE \E w \in Workers : pc[w] = "off" /\ p[w] = "top"
      BY <1>3, <2>2
    <2>3. CASE \E w \in Workers : p[w] = "wait"
      BY <1>2, <2>3, SignalWakes
    <2>4. CASE /\ \A w \in Workers : pc[w] \in {"off", "wait"}
               /\ \A w \in Workers : p[w] = pc[w]
               /\ \A w \in Workers : p[w] # "wait"
      <3>1. Live = {} /\ Floaters = {}
        BY <2>4 DEF Live, Floaters
      <3>2. running = 0 /\ floating = 0
        BY <1>0, <3>1, FS_EmptySet DEF CountersAgree
      <3>3. NeedsThread
        BY <1>0, <3>2, Sizes DEF NeedsThread, TypeOK
      <3>4. StartThread
        BY <3>3 DEF Enqueue, StartFails, SignalOnly
      <3>5. running' = 1
        BY <3>2, <3>4 DEF StartThread
      <3>6. PICK w \in Workers : pc[w] = "off" /\ pc' \in Signalled([pc EXCEPT ![w] = "top"])
        BY <3>4 DEF StartThread
      <3>7. [pc EXCEPT ![w] = "top"] \in [Workers -> Pc] /\ [pc EXCEPT ![w] = "top"][w] = "top"
        BY <1>0 DEF TypeOK, Pc
      <3>8. pc'[w] = "top"
        BY <3>6, <3>7, SignalMoves
      <3> QED
        BY <3>8
    <2> QED
      BY <1>2, <2>1, <2>2, <2>3, <2>4
  <1> QED
    BY <1>8, <1>9, <1>10, <1>11 DEF AwakeInv

\* A thread at the head of its loop or back from COND_WAIT: when it ends because
\* of the limit the thread_limit call that wants it to is still up.
LEMMA TopOrWakeAwake ==
    ASSUME IInv, AwakeInv, NEW w \in Workers, Top(w) \/ Wake(w)
    PROVE  AwakeInv'
  <1>0. TypeOK
    BY DEF IInv
  <1>1. /\ pc[w] \in {"top", "woken"}
        /\ \E p \in {"off", "work", "wait"} : pc' = [pc EXCEPT ![w] = p]
        /\ UNCHANGED <<limit, saved, quit, failed>>
    BY DEF Top, Wake, Exit, Take, Wait, ghosts
  <1>2. /\ pc'[w] \in {"off", "work", "wait"}
        /\ \A v \in Workers \ {w} : pc'[v] = pc[v]
    BY <1>0, <1>1 DEF TypeOK
  <1>3. Reducing' = Reducing /\ w \notin Reducing
    BY <1>1, <1>2 DEF Reducing
  <1>4. CallIsAlone'
    BY <1>1, <1>2 DEF AwakeInv, CallIsAlone
  <1>5. CASE Exit(w)
    <2>1. /\ running' = running - 1 /\ running \in Nat /\ limit \in Nat
          /\ \A v \in Workers : saved[v].limit \in Nat
      BY <1>0, <1>5 DEF Exit, TypeOK
    <2>2. ExcessIsReduced'
      BY <1>1, <1>3, <2>1 DEF AwakeInv, ExcessIsReduced
    <2>3. OldLimitFits'
      <3> SUFFICES ASSUME ~quit', NEW v \in Reducing'
                   PROVE  /\ running' <= limit' \/ running' <= saved'[v].limit
                          /\ pc'[v] = "limit_sleep" =>
                                running' <= saved'[v].limit /\ limit' <= saved'[v].limit
        BY DEF OldLimitFits
      <3>1. v \in Workers /\ v \in Reducing /\ pc'[v] = pc[v]
        BY <1>2, <1>3 DEF Reducing
      <3> QED
        BY <1>1, <2>1, <3>1 DEF AwakeInv, OldLimitFits
    <2>4. SomeoneAwake'
      <3> SUFFICES ASSUME ~quit' PROVE \E v \in Workers : pc'[v] \notin {"off", "wait"}
        BY DEF SomeoneAwake
      <3>1. running > limit
        BY <1>0, <1>1, <1>2, <1>5 DEF Top, Wake, MayStay, Exit, Take, Wait, TypeOK
      <3>2. PICK v \in Reducing : TRUE
        BY <1>1, <2>1, <3>1 DEF AwakeInv, ExcessIsReduced
      <3> QED
        BY <1>2, <1>3, <3>2 DEF Reducing
    <2> QED
      BY <1>4, <2>2, <2>3, <2>4 DEF AwakeInv
  <1>6. CASE Take(w) \/ Wait(w)
    <2>1. UNCHANGED running
      BY <1>6 DEF Take, Wait
    <2>2. ExcessIsReduced'
      BY <1>1, <1>3, <2>1 DEF AwakeInv, ExcessIsReduced
    <2>3. OldLimitFits'
      BY <1>1, <1>2, <1>3, <2>1 DEF AwakeInv, OldLimitFits, Reducing
    <2>4. SomeoneAwake'
      BY <1>0, <1>6 DEF Take, Wait, SomeoneAwake, TypeOK
    <2> QED
      BY <1>4, <2>2, <2>3, <2>4 DEF AwakeInv
  <1> QED
    BY <1>5, <1>6 DEF Top, Wake

\* The steps of a thread_limit call.
LEMMA LimitAwake ==
    ASSUME IInv, OneLimitCall, OneLimitCall', AwakeInv, NEW w \in Workers,
           \/ LimitEnter(w) \/ LimitSet(w) \/ LimitSignal(w) \/ LimitCheck(w)
           \/ LimitSleep(w) \/ LimitLeave(w)
    PROVE  AwakeInv'
  <1>0. TypeOK /\ CountersAgree
    BY DEF IInv
  <1>1. /\ running \in Nat /\ limit \in Nat /\ changing \in Nat
        /\ \A v \in Workers : saved[v].limit \in Nat
    BY <1>0 DEF TypeOK
  <1>2. UNCHANGED <<queue, running, quit, failed>>
    BY DEF LimitEnter, LimitSet, LimitSignal, LimitCheck, LimitSleep, LimitLeave, Done,
           poolVars, ghosts
  <1>3. \A v \in Reducing : pc[w] \in Limiting => v = w
    BY ChangersAreOne DEF Reducing, Changers, Limiting
  <1>4. \A v \in Workers \ {w} : pc'[v] = pc[v] \/ (pc[v] = "wait" /\ pc'[v] = "woken")
    <2>1. CASE \E p \in Pc : pc' = [pc EXCEPT ![w] = p]
      BY <1>0, <2>1 DEF TypeOK
    <2>2. CASE pc' \in Signalled(pc)
      BY <1>0, <2>2, SignalMoves DEF TypeOK
    <2>3. CASE pc' \in Signalled([pc EXCEPT ![w] = "limit_sleep"])
      <3>1. [pc EXCEPT ![w] = "limit_sleep"] \in [Workers -> Pc]
        BY <1>0 DEF TypeOK, Pc, Executing, Limiting
      <3>2. \A v \in Workers \ {w} : [pc EXCEPT ![w] = "limit_sleep"][v] = pc[v]
        BY <1>0 DEF TypeOK
      <3>3. \A v \in Workers : \/ pc'[v] = [pc EXCEPT ![w] = "limit_sleep"][v]
                               \/ /\ [pc EXCEPT ![w] = "limit_sleep"][v] = "wait"
                                  /\ pc'[v] = "woken"
        BY <2>3, <3>1, SignalMoves
      <3> QED
        BY <3>2, <3>3
    <2> QED
      BY <2>1, <2>2, <2>3
         DEF LimitEnter, LimitSet, LimitSignal, LimitCheck, LimitSleep, LimitLeave, Done,
             Pc, Executing, Limiting
  <1>5. pc[w] \in Executing /\ pc'[w] \in Executing \cup {"top"}
    <2>1. CASE LimitSignal(w)
      <3>1. CASE pc' \in Signalled(pc)
        <4>1. pc'[w] = pc[w]
          BY <1>0, <2>1, <3>1, SignalMoves DEF TypeOK, LimitSignal
        <4> QED
          BY <2>1, <4>1 DEF LimitSignal, Executing, Limiting
      <3>2. CASE pc' = [pc EXCEPT ![w] = "limit_check"]
        BY <1>0, <2>1, <3>2 DEF TypeOK, LimitSignal, Executing, Limiting
      <3> QED
        BY <2>1, <3>1, <3>2 DEF LimitSignal
    <2>2. CASE LimitCheck(w)
      <3>1. CASE pc' \in Signalled([pc EXCEPT ![w] = "limit_sleep"])
        <4>1. /\ [pc EXCEPT ![w] = "limit_sleep"] \in [Workers -> Pc]
              /\ [pc EXCEPT ![w] = "limit_sleep"][w] = "limit_sleep"
          BY <1>0 DEF TypeOK, Pc, Executing, Limiting
        <4>2. pc'[w] = "limit_sleep"
          BY <3>1, <4>1, SignalMoves
        <4> QED
          BY <2>2, <4>2 DEF LimitCheck, Executing, Limiting
      <3>2. CASE \E p \in {"limit_end", "limit_sleep"} : pc' = [pc EXCEPT ![w] = p]
        BY <1>0, <2>2, <3>2 DEF TypeOK, LimitCheck, Executing, Limiting
      <3> QED
        BY <2>2, <3>1, <3>2 DEF LimitCheck
    <2>3. CASE LimitEnter(w) \/ LimitSet(w) \/ LimitSleep(w) \/ LimitLeave(w)
      BY <1>0, <2>3 DEF TypeOK, LimitEnter, LimitSet, LimitSleep, LimitLeave, Done,
                        Executing, Limiting
    <2> QED
      BY <2>1, <2>2, <2>3
  <1>6. SomeoneAwake'
    <2>1. overlapped => overlapped'
      BY Zenon DEF LimitEnter, LimitSet, LimitSignal, LimitCheck, LimitSleep, LimitLeave, ghosts
    <2> QED
      BY <1>2, <1>4, <1>5, <2>1, SomeoneStaysAwake DEF AwakeInv, Executing, Limiting
  <1>7. \A v \in Workers \ {w} :
            v \in Reducing' => v \in Reducing /\ pc'[v] = pc[v]
    BY <1>4 DEF Reducing
  <1>8. CASE LimitEnter(w)
    <2>1. changing = 0 /\ limit' = limit /\ pc'[w] = "limit_set"
      BY <1>0, <1>1, <1>8 DEF LimitEnter, OneLimitCall, TypeOK
    <2>2. saved'[w].others = 0 /\ \A v \in Workers \ {w} : saved'[v] = saved[v]
      BY <1>0, <1>8, <2>1 DEF LimitEnter, TypeOK
    <2>3. CallIsAlone'
      BY <1>4, <2>2 DEF AwakeInv, CallIsAlone
    <2>4. Reducing' = {} /\ Reducing = {}
      <3>1. Changers = {}
        BY <1>0, <2>1, FS_EmptySet, WorkersAssumption, FS_Subset DEF CountersAgree, Changers
      <3> QED
        BY <1>7, <2>1, <3>1 DEF Changers, Reducing, Limiting
    <2>5. ExcessIsReduced' /\ OldLimitFits'
      BY <1>2, <2>1, <2>4 DEF AwakeInv, ExcessIsReduced, OldLimitFits
    <2> QED
      BY <1>6, <2>3, <2>5 DEF AwakeInv
  <1>9. CASE LimitSet(w)
    <2>1. saved[w].others = 0
      BY <1>9 DEF AwakeInv, CallIsAlone, LimitSet
    <2>2. pc'[w] = "limit_signal" /\ saved'[w].limit = limit
      BY <1>0, <1>9, <2>1 DEF LimitSet, TypeOK
    <2>3. Reducing = {}
      BY <1>3, <1>9 DEF LimitSet, Limiting, Reducing
    <2>4. Reducing' = {w}
      BY <1>7, <2>2, <2>3 DEF Reducing
    <2>5. CallIsAlone'
      BY <1>0, <1>4, <1>9, <2>2 DEF AwakeInv, CallIsAlone, LimitSet, TypeOK
    <2>6. ExcessIsReduced'
      BY <2>4 DEF ExcessIsReduced
    <2>7. OldLimitFits'
      BY <1>2, <2>2, <2>3, <2>4 DEF AwakeInv, ExcessIsReduced, OldLimitFits
    <2> QED
      BY <1>6, <2>5, <2>6, <2>7 DEF AwakeInv
  <1>10. CASE LimitSignal(w)
    <2>1. pc'[w] \in {"limit_signal", "limit_check"} /\ pc[w] = "limit_signal"
      <3>1. CASE pc' \in Signalled(pc)
        BY <1>0, <1>10, <3>1, SignalMoves DEF TypeOK, LimitSignal
      <3>2. CASE pc' = [pc EXCEPT ![w] = "limit_check"]
        BY <1>0, <1>10, <3>2 DEF TypeOK, LimitSignal
      <3> QED
        BY <1>10, <3>1, <3>2 DEF LimitSignal
    <2>2. saved'[w].limit = saved[w].limit /\ limit' = limit
      BY <1>0, <1>10 DEF LimitSignal, TypeOK
    <2>3. Reducing' = {w} /\ Reducing = {w}
      BY <1>3, <1>7, <2>1 DEF Reducing, Limiting
    <2>4. CallIsAlone'
      <3>1. \A v \in Workers : pc'[v] = "limit_set" => v # w /\ pc[v] = "limit_set"
        BY <1>4, <2>1
      <3>2. \A v \in Workers \ {w} : saved'[v] = saved[v]
        BY <1>0, <1>10 DEF LimitSignal, TypeOK
      <3> QED
        BY <3>1, <3>2 DEF AwakeInv, CallIsAlone
    <2>5. ExcessIsReduced' /\ OldLimitFits'
      BY <1>2, <2>1, <2>2, <2>3 DEF AwakeInv, ExcessIsReduced, OldLimitFits
    <2> QED
      BY <1>6, <2>4, <2>5 DEF AwakeInv
  <1>11. CASE LimitCheck(w)
    <2>1. pc[w] = "limit_check" /\ UNCHANGED <<saved, limit>>
      BY <1>11 DEF LimitCheck, poolVars, ghosts
    <2>2. Reducing = {w}
      BY <1>3, <2>1 DEF Reducing, Limiting
    <2>3. CASE running <= limit
      <3>1. pc'[w] = "limit_end"
        BY <1>0, <1>11, <2>3 DEF LimitCheck, IsReduced, TypeOK
      <3>2. Reducing' = {}
        BY <1>7, <2>2, <3>1 DEF Reducing
      <3>3. CallIsAlone'
        BY <1>4, <2>1, <3>1 DEF AwakeInv, CallIsAlone
      <3>4. ExcessIsReduced' /\ OldLimitFits'
        BY <1>2, <2>1, <2>3, <3>2 DEF ExcessIsReduced, OldLimitFits
      <3> QED
        BY <1>6, <3>3, <3>4 DEF AwakeInv
    <2>4. CASE running > limit
      <3>1. pc'[w] = "limit_sleep"
        <4>1. /\ [pc EXCEPT ![w] = "limit_sleep"] \in [Workers -> Pc]
              /\ [pc EXCEPT ![w] = "limit_sleep"][w] = "limit_sleep"
          BY <1>0 DEF TypeOK, Pc, Executing, Limiting
        <4>2. pc' \in Signalled([pc EXCEPT ![w] = "limit_sleep"])
                => pc'[w] = "limit_sleep"
          BY <4>1, SignalMoves
        <4>3. ~IsReduced
          BY <1>1, <2>4 DEF IsReduced
        <4> QED
          BY <1>11, <4>1, <4>2, <4>3 DEF LimitCheck
      <3>2. Reducing' = {w}
        BY <1>7, <2>2, <3>1 DEF Reducing
      <3>3. CallIsAlone'
        BY <1>4, <2>1, <3>1 DEF AwakeInv, CallIsAlone
      <3>4. ExcessIsReduced' /\ OldLimitFits'
        BY <1>1, <1>2, <2>1, <2>2, <2>4, <3>2 DEF AwakeInv, ExcessIsReduced, OldLimitFits
      <3> QED
        BY <1>6, <3>3, <3>4 DEF AwakeInv
    <2> QED
      BY <1>1, <2>3, <2>4
  <1>12. CASE LimitSleep(w)
    <2>1. pc[w] = "limit_sleep" /\ UNCHANGED saved
      BY <1>12 DEF LimitSleep
    <2>2. Reducing = {w}
      BY <1>3, <2>1 DEF Reducing, Limiting
    <2>3. ~quit => running <= saved[w].limit
      BY <2>1, <2>2 DEF AwakeInv, OldLimitFits
    <2>4. CallIsAlone'
      <3>1. pc'[w] \in {"limit_end", "limit_check"}
        BY <1>0, <1>12 DEF LimitSleep, TypeOK
      <3> QED
        BY <1>4, <2>1, <3>1 DEF AwakeInv, CallIsAlone
    <2>5. CASE cancelled[w]
      <3>1. pc'[w] = "limit_end" /\ limit' = saved[w].limit
        BY <1>0, <1>12, <2>5 DEF LimitSleep, TypeOK
      <3>2. Reducing' = {}
        BY <1>7, <2>2, <3>1 DEF Reducing
      <3>3. ExcessIsReduced' /\ OldLimitFits'
        BY <1>2, <2>3, <3>1, <3>2 DEF ExcessIsReduced, OldLimitFits
      <3> QED
        BY <1>6, <2>4, <3>3 DEF AwakeInv
    <2>6. CASE ~cancelled[w]
      <3>1. pc'[w] = "limit_check" /\ limit' = limit
        BY <1>0, <1>12, <2>6 DEF LimitSleep, TypeOK
      <3>2. Reducing' = {w}
        BY <1>7, <2>2, <3>1 DEF Reducing
      <3>3. ExcessIsReduced' /\ OldLimitFits'
        BY <1>2, <2>1, <2>2, <3>1, <3>2 DEF AwakeInv, ExcessIsReduced, OldLimitFits
      <3> QED
        BY <1>6, <2>4, <3>3 DEF AwakeInv
    <2> QED
      BY <2>5, <2>6
  <1>13. CASE LimitLeave(w)
    <2>1. pc[w] = "limit_end" /\ pc'[w] = "top" /\ limit' = limit
      BY <1>0, <1>13 DEF LimitLeave, Done, TypeOK
    <2>2. Reducing = {} /\ Reducing' = {}
      BY <1>3, <1>7, <2>1 DEF Reducing, Limiting
    <2>3. CallIsAlone'
      <3>1. \A v \in Workers : pc'[v] = "limit_set" => v # w /\ pc[v] = "limit_set"
        BY <1>4, <2>1
      <3>2. \A v \in Workers \ {w} : saved'[v] = saved[v]
        BY <1>0, <1>13 DEF LimitLeave, TypeOK
      <3> QED
        BY <3>1, <3>2 DEF AwakeInv, CallIsAlone
    <2>4. ExcessIsReduced' /\ OldLimitFits'
      BY <1>2, <2>1, <2>2 DEF AwakeInv, ExcessIsReduced, OldLimitFits
    <2> QED
      BY <1>6, <2>3, <2>4 DEF AwakeInv
  <1> QED
    BY <1>8, <1>9, <1>10, <1>11, <1>12, <1>13

\* Every step keeps the invariant while calls do not overlap.
LEMMA AwakeStep ==
    ASSUME IInv, OneLimitCall, OneLimitCall', AwakeInv, [Next]_vars
    PROVE  AwakeInv'
  <1>0. TypeOK
    BY DEF IInv
  <1>1. ASSUME NEW m \in Requests, HandleItself(m) PROVE AwakeInv'
    <2>1. CallIsAlone' /\ ExcessIsReduced' /\ OldLimitFits'
      BY <1>1, AwakeKept DEF HandleItself, ShutdownNow, poolVars, ghosts, Reducing
    <2>2. SomeoneAwake'
      BY <1>1, SomeoneStaysAwake DEF HandleItself, ShutdownNow, AwakeInv, ghosts
    <2> QED
      BY <2>1, <2>2 DEF AwakeInv
  <1>2. ASSUME NEW w \in Workers,
               \/ Execute(w) \/ SpuriousWake(w) \/ Cancel(w) \/ Finish(w) \/ Shutdown(w)
        PROVE  AwakeInv'
    <2>1. \A v \in Workers : \/ pc'[v] = pc[v]
                             \/ /\ pc[v] \in {"work", "exec", "wait"}
                                /\ pc'[v] \in {"exec", "top", "woken"}
      BY <1>0, <1>2 DEF Execute, SpuriousWake, Cancel, Finish, Shutdown, Done, TypeOK
    <2>2. Reducing' = Reducing
      BY <2>1 DEF Reducing
    <2>3. UNCHANGED <<running, limit, saved, queue, failed, overlapped>>
      BY <1>2 DEF Execute, SpuriousWake, Cancel, Finish, Shutdown, poolVars, ghosts
    <2>a. quit => quit'
      BY <1>2, Zenon
         DEF Execute, SpuriousWake, Cancel, Finish, Shutdown, ShutdownNow, poolVars, ghosts
    <2>4. CallIsAlone' /\ ExcessIsReduced' /\ OldLimitFits'
      BY <2>1, <2>2, <2>3, <2>a, AwakeKept
    <2>5. SomeoneAwake'
      BY <2>1, <2>3, <2>a, SomeoneStaysAwake DEF AwakeInv
    <2> QED
      BY <2>4, <2>5 DEF AwakeInv
  <1>3. CASE LeaveLoop \/ Drain \/ UNCHANGED vars
    <2>1. \A v \in Workers : pc'[v] = pc[v] \/ (pc[v] = "wait" /\ pc'[v] = "woken")
      BY <1>3 DEF LeaveLoop, Drain, Waiting, vars
    <2>2. Reducing' = Reducing
      BY <2>1 DEF Reducing
    <2>3. UNCHANGED <<running, limit, saved, queue, quit, failed, overlapped>>
      BY <1>3 DEF LeaveLoop, Drain, vars, poolVars, ghosts
    <2>4. CallIsAlone' /\ ExcessIsReduced' /\ OldLimitFits'
      BY <2>1, <2>2, <2>3, AwakeKept
    <2>5. SomeoneAwake'
      BY <2>1, <2>3, SomeoneStaysAwake DEF AwakeInv
    <2> QED
      BY <2>4, <2>5 DEF AwakeInv
  <1> QED
    BY <1>1, <1>2, <1>3, EnqueueAwake, TopOrWakeAwake, LimitAwake DEF Next, Handle, Worker

\* As long as no call has found another one in progress there is at most one.
LEMMA OverlapStep ==
    ASSUME IInv, ~overlapped => OneLimitCall, [Next]_vars
    PROVE  (overlapped => overlapped') /\ (~overlapped' => OneLimitCall')
  <1>0. changing \in Nat
    BY DEF IInv, TypeOK
  <1>1. ASSUME NEW w \in Workers, LimitEnter(w)
        PROVE  (overlapped => overlapped') /\ (~overlapped' => OneLimitCall')
    <2>1. overlapped' = (overlapped \/ changing > 0) /\ changing' = changing + 1
      BY <1>1 DEF LimitEnter
    <2>2. CASE changing > 0
      BY <2>1, <2>2, Zenon
    <2>3. CASE changing = 0
      <3>1. OneLimitCall'
        BY <2>1, <2>3 DEF OneLimitCall
      <3> QED
        BY <2>1, <3>1, Zenon
    <2> QED
      BY <1>0, <2>2, <2>3
  <1>2. ASSUME overlapped' = overlapped, changing' \in {changing, changing - 1}
        PROVE  (overlapped => overlapped') /\ (~overlapped' => OneLimitCall')
    BY <1>0, <1>2 DEF OneLimitCall
  <1>3. ASSUME NEW m \in Requests, Handle(m)
        PROVE  overlapped' = overlapped /\ changing' = changing
    BY <1>3 DEF Handle, HandleItself, Enqueue, poolVars, ghosts
  <1>4. ASSUME NEW w \in Workers,
               \/ Top(w) \/ Wake(w) \/ Execute(w) \/ Finish(w) \/ Shutdown(w)
               \/ Cancel(w) \/ SpuriousWake(w)
        PROVE  overlapped' = overlapped /\ changing' = changing
    BY <1>4 DEF Top, Wake, Execute, Finish, Shutdown, Cancel, SpuriousWake, poolVars, ghosts
  <1>5. ASSUME NEW w \in Workers,
               \/ LimitSet(w) \/ LimitSignal(w) \/ LimitCheck(w) \/ LimitSleep(w) \/ LimitLeave(w)
        PROVE  overlapped' = overlapped /\ changing' \in {changing, changing - 1}
    BY <1>5 DEF LimitSet, LimitSignal, LimitCheck, LimitSleep, LimitLeave, poolVars, ghosts
  <1>6. CASE LeaveLoop \/ Drain \/ UNCHANGED vars
    BY <1>2, <1>6 DEF LeaveLoop, Drain, vars, poolVars, ghosts
  <1> QED
    BY <1>1, <1>2, <1>3, <1>4, <1>5, <1>6 DEF Next, Worker

\* No wake-up is lost: until two thread_limit calls overlap, a queued request finds
\* a thread that is up and will look at the queue, although h_worker's threads end
\* because of the limit with a signal in their hands.  (After that it is false: a
\* cancelled call may put back a limit that is too low by then, and nobody wakes the
\* threads that are too many.)
THEOREM NoLostWakeUp == Spec => []SomeoneAwake
  <1> DEFINE Alone == ~overlapped => OneLimitCall /\ AwakeInv
  <1>1. Init => Alone
    BY LimitAssumption, Sizes
       DEF Init, AwakeInv, CallIsAlone, ExcessIsReduced, OldLimitFits, SomeoneAwake, Reducing,
           OneLimitCall
  <1>2. IInv /\ Alone /\ [Next]_vars => Alone'
    <2> SUFFICES ASSUME IInv, Alone, [Next]_vars, ~overlapped' PROVE OneLimitCall' /\ AwakeInv'
      OBVIOUS
    <2>1. ~overlapped /\ OneLimitCall'
      BY OverlapStep
    <2> QED
      BY <2>1, AwakeStep
  <1>3. Alone => SomeoneAwake
    BY DEF AwakeInv, SomeoneAwake
  <1> QED
    BY <1>1, <1>2, <1>3, Invariance, PTL DEF Spec
=============================================================================
