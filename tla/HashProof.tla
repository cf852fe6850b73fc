----------------------------- MODULE HashProof ------------------------------
(***************************************************************************)
(* Proofs about the hash table of HashWal, until the process first dies.   *)
(*                                                                         *)
(* HashMemProof shows what the program of each operation does to a sound   *)
(* memory.  Here a program is executed one step at a time: the invariant   *)
(* says that the steps that are left lead to a sound memory with the       *)
(* content the operation promises, and that every memory on the way is     *)
(* one a search may meet.                                                  *)
(***************************************************************************)
EXTENDS HashWal, HashMemProof

\* Nothing is in progress.
Idle ==
    /\ Sound(mem)
    /\ todo = <<>>
    /\ Content(mem) \in {acked, pending}

\* grn_hash_ensure_rehash changes no content and leaves room for a record.
Rehashing ==
    /\ key \in Keys
    /\ Program(todo)
    /\ pending = [acked EXCEPT ![key] = IF acked[key] = Absent THEN 0 ELSE acked[key]]
    /\ \E last : /\ Sound(last)
                 /\ Leads(mem, todo, {acked, pending}, TRUE, last)
                 /\ Content(last) = acked
                 /\ last.garbage # NIL \/ last.curr_rec < MaxId

\* The operation in progress ends with what it promises.
Running ==
    /\ Program(todo)
    /\ \E last : /\ Sound(last)
                 /\ Leads(mem, todo, {acked, pending}, FALSE, last)
                 /\ Content(last) = pending

\* The inductive invariant.
HInv ==
    /\ crashes \in Nat
    /\ crashes = 0 =>
          \/ status \in {"ready", "flushing"} /\ Idle
          \/ status = "rehashing" /\ Rehashing
          \/ status = "running" /\ Running

-----------------------------------------------------------------------------
(* An empty table is sound.                                                *)

LEMMA EmptyFields ==
    /\ DOMAIN EmptyMem = Fields
    /\ EmptyMem.index = [s \in Slots |-> NIL] /\ EmptyMem.idx_offset = 0
    /\ EmptyMem.max_offset = InitialMaxOffset /\ EmptyMem.n_entries = 0
    /\ EmptyMem.n_garbages = 0 /\ EmptyMem.garbage = NIL /\ EmptyMem.curr_rec = 0
    /\ EmptyMem.curr_key = 0 /\ EmptyMem.bits = {}
    /\ EmptyMem.word = [i \in Ids |-> 0] /\ EmptyMem.value = [i \in Ids |-> 0]
    /\ EmptyMem.key_size = [i \in Ids |-> 0] /\ EmptyMem.key_offset = [i \in Ids |-> 0]
    /\ EmptyMem.keys = [p \in 0 .. MaxId - 1 |-> 0]
  BY DEF EmptyMem, Fields

LEMMA EmptyIsSound ==
    Sound(EmptyMem) /\ Content(EmptyMem) = [k \in Keys |-> Absent]
  <1>1. PICK m : m = EmptyMem
    OBVIOUS
  <1>2. /\ DOMAIN m = Fields
        /\ m.index = [s \in Slots |-> NIL] /\ m.idx_offset = 0
        /\ m.max_offset = InitialMaxOffset /\ m.n_entries = 0
        /\ m.n_garbages = 0 /\ m.garbage = NIL /\ m.curr_rec = 0
        /\ m.curr_key = 0 /\ m.bits = {}
        /\ m.word = [i \in Ids |-> 0] /\ m.value = [i \in Ids |-> 0]
        /\ m.key_size = [i \in Ids |-> 0] /\ m.key_offset = [i \in Ids |-> 0]
        /\ m.keys = [p \in 0 .. MaxId - 1 |-> 0]
    BY <1>1, EmptyFields
  <1>3. InitialMaxOffset \in Nat /\ InitialMaxOffset + 1 \in IndexSizes /\ InitialMaxOffset >= 1
        /\ InitialMaxOffset < MaxIndexSize
    BY SizeAssumption, SMT DEF IndexSizes
  <1>4. MaxId \in Nat /\ 0 \in Values
    BY FlagsAssumption, ValuesAssumption
  <1>5. Shape(m)
    BY <1>2, <1>3, MaxSizeType DEF Shape
  <1>6. Typed(m)
    BY <1>2, <1>4 DEF Typed, NIL
  <1>7. \A p \in Space(m) : m.index[p] = NIL
    BY <1>2, <1>5, ShapeFacts
  <1>8. Layout(m, {})
    BY <1>2, <1>5, <1>7 DEF Layout, Placed
  <1>9. Owned(m)
    BY <1>2, <1>7 DEF Owned
  <1>10. Counted(m)
    <2>1. GarbageSlots(m) = {}
      BY <1>7 DEF GarbageSlots, NIL, GARBAGE
    <2> QED
      BY <1>2, <2>1, FS_EmptySet DEF Counted
  <1>11. Roomy(m)
    BY <1>2, <1>3 DEF Roomy
  <1>12. KeyArea(m)
    BY <1>2 DEF KeyArea
  <1>13. GarbageListed(m)
    <2>1. Free(m) = {}
      BY <1>2 DEF Free
    <2>2. Chained(m, [i \in {0} |-> NIL], 0)
      BY <1>2, <2>1 DEF Chained
    <2> QED
      BY <2>2 DEF GarbageListed
  <1>14. Sound(m)
    BY <1>2, <1>5, <1>6, <1>8, <1>9, <1>10, <1>11, <1>12, <1>13 DEF Sound
  <1>15. \A k \in Keys : Content(m)[k] = Absent
    <2>1. {} \in SUBSET Ids
      OBVIOUS
    <2> QED
      BY <1>5, <1>8, <2>1, ContentAt
  <1>16. Content(m) = [k \in Keys |-> Content(m)[k]]
    BY DEF Content
  <1> QED
    BY <1>1, <1>14, <1>15, <1>16

-----------------------------------------------------------------------------
(* The invariant holds.                                                    *)

LEMMA HInit ==
    Init => HInv
  <1> HAVE Init
  <1>1. Sound(mem) /\ Content(mem) = acked /\ todo = <<>> /\ status = "ready" /\ crashes = 0
    BY EmptyIsSound DEF Init
  <1> QED
    BY <1>1 DEF HInv, Idle

\* Every operation starts on a table that is not in use.
LEMMA BeginIsIdle ==
    ASSUME HInv, crashes = 0, status = "ready"
    PROVE  Idle
  BY DEF HInv

\* What a search of one key finds, and the content.
LEMMA ContentOfGet ==
    ASSUME NEW m, Sound(m), NEW k \in Keys
    PROVE  /\ get(m, k) = NIL => Content(m)[k] = Absent
           /\ get(m, k) # NIL => /\ Content(m)[k] = m.value[get(m, k)]
                                 /\ Content(m)[k] \in Nat /\ Content(m)[k] # Absent
  <1>1. Content(m)[k] = IF get(m, k) = NIL THEN Absent ELSE m.value[get(m, k)]
    BY DEF Content
  <1>2. ASSUME get(m, k) # NIL PROVE m.value[get(m, k)] \in Nat
    <2>1. get(m, k) \in m.bits
      BY <1>2, Found
    <2>2. get(m, k) \in Ids
      BY <2>1, SoundPlaced
    <2>3. m.value \in [Ids -> Values]
      BY DEF Sound, Typed
    <2> QED
      BY <2>2, <2>3, ValuesAssumption
  <1>3. \A n \in Nat : n # Absent
    BY DEF Absent
  <1> QED
    BY <1>1, <1>2, <1>3

LEMMA HAdd ==
    ASSUME HInv, crashes = 0, NEW k \in Keys, Add(k)
    PROVE  HInv'
  <1>1. /\ status = "ready" /\ status' = "rehashing" /\ key' = k /\ mem' = mem
        /\ crashes' = crashes /\ acked' = Content(mem)
        /\ mem.garbage # NIL \/ mem.curr_rec < MaxId
    BY DEF Add, Begin
  <1>2. Sound(mem)
    BY <1>1, BeginIsIdle DEF Idle
  <1>3. pending' = [acked' EXCEPT ![k] = IF acked'[k] = Absent THEN 0 ELSE acked'[k]]
    <2>1. pending' = [Content(mem) EXCEPT ![k] = IF get(mem, k) = NIL THEN 0
                                                 ELSE mem.value[get(mem, k)]]
      BY DEF Add, Begin
    <2>2. (IF get(mem, k) = NIL THEN 0 ELSE mem.value[get(mem, k)])
            = IF Content(mem)[k] = Absent THEN 0 ELSE Content(mem)[k]
      BY <1>2, ContentOfGet
    <2> QED
      BY <1>1, <2>1, <2>2
  <1>4. PICK C : C = {acked', pending'} /\ Content(mem) \in C
    <2>1. Content(mem) \in {acked', pending'}
      BY <1>1
    <2> QED
      BY <2>1, Zenon
  <1>5. /\ Program(todo')
        /\ \E y : /\ Leads(mem, todo', C, TRUE, y) /\ Sound(y)
                  /\ Content(y) = Content(mem)
                  /\ y.garbage = mem.garbage /\ y.curr_rec = mem.curr_rec
    <2>1. CASE needs_rehash(mem)
      <3>1. todo' = ensure_rehash(mem)
        BY <2>1 DEF Add
      <3> QED
        BY <1>2, <1>4, <2>1, <3>1, RehashLeads
    <2>2. CASE ~needs_rehash(mem)
      <3>1. todo' = <<>>
        BY <2>2 DEF Add
      <3>2. Leads(mem, <<>>, C, TRUE, mem)
        BY <1>4, LeadsNowhere
      <3>3. Program(<<>>)
        BY EmptyProgram
      <3> QED
        BY <1>2, <3>1, <3>2, <3>3
    <2> QED
      BY <2>1, <2>2
  <1>6. PICK y : /\ Leads(mem', todo', {acked', pending'}, TRUE, y) /\ Sound(y)
                 /\ Content(y) = acked'
                 /\ y.garbage # NIL \/ y.curr_rec < MaxId
    <2>1. PICK y : /\ Leads(mem, todo', C, TRUE, y) /\ Sound(y)
                   /\ Content(y) = Content(mem)
                   /\ y.garbage = mem.garbage /\ y.curr_rec = mem.curr_rec
      BY <1>5
    <2>2. Leads(mem', todo', {acked', pending'}, TRUE, y)
      BY <1>1, <1>4, <2>1, Zenon
    <2>3. y.garbage # NIL \/ y.curr_rec < MaxId
      BY <1>1, <2>1
    <2>4. Content(y) = acked'
      BY <1>1, <2>1
    <2> QED
      BY <2>1, <2>2, <2>3, <2>4, Zenon
  <1>7. Rehashing'
    <2>1. key' \in Keys
      BY <1>1
    <2>2. pending' = [acked' EXCEPT ![key'] = IF acked'[key'] = Absent THEN 0 ELSE acked'[key']]
      BY <1>1, <1>3
    <2> QED
      BY <1>5, <1>6, <2>1, <2>2 DEF Rehashing
  <1> QED
    BY <1>1, <1>7 DEF HInv

\* Delete and SetValue start a program that ends with what it promises.
LEMMA HStart ==
    ASSUME HInv, crashes = 0, crashes' = crashes, mem' = mem, status' = "running",
           Program(todo'), NEW y, Sound(y), Content(y) = pending',
           Leads(mem, todo', {acked', pending'}, FALSE, y)
    PROVE  HInv'
  <1>1. Leads(mem', todo', {acked', pending'}, FALSE, y)
    BY Zenon
  <1>2. Running'
    BY <1>1, Zenon DEF Running
  <1> QED
    BY <1>2 DEF HInv

LEMMA HDelete ==
    ASSUME HInv, crashes = 0, NEW k \in Keys, Delete(k)
    PROVE  HInv'
  <1>1. /\ status = "ready" /\ status' = "running" /\ mem' = mem /\ todo' = delete(mem, k)
        /\ crashes' = crashes /\ acked' = Content(mem) /\ get(mem, k) # NIL
        /\ pending' = [Content(mem) EXCEPT ![k] = Absent]
    BY DEF Delete, Begin
  <1>2. Sound(mem)
    BY <1>1, BeginIsIdle DEF Idle
  <1>3. PICK C : C = {Content(mem), [Content(mem) EXCEPT ![k] = Absent]}
    OBVIOUS
  <1>4. PICK y : /\ Leads(mem, delete(mem, k), C, FALSE, y) /\ Program(delete(mem, k))
                 /\ Sound(y) /\ Content(y) = [Content(mem) EXCEPT ![k] = Absent]
    BY <1>1, <1>2, <1>3, DeleteLeads
  <1>5. C = {acked', pending'}
    BY <1>1, <1>3
  <1>6. Leads(mem, todo', {acked', pending'}, FALSE, y) /\ Program(todo')
    BY <1>1, <1>4, <1>5, Zenon
  <1>7. Content(y) = pending'
    BY <1>1, <1>4
  <1> QED
    BY <1>1, <1>4, <1>6, <1>7, HStart

LEMMA HSetValue ==
    ASSUME HInv, crashes = 0, NEW k \in Keys, NEW v \in Values, SetValue(k, v)
    PROVE  HInv'
  <1>1. /\ status = "ready" /\ status' = "running" /\ mem' = mem
        /\ todo' = set_value(get(mem, k), v)
        /\ crashes' = crashes /\ acked' = Content(mem) /\ get(mem, k) # NIL
        /\ pending' = [Content(mem) EXCEPT ![k] = v]
    BY DEF SetValue, Begin
  <1>2. Sound(mem)
    BY <1>1, BeginIsIdle DEF Idle
  <1>3. PICK id : id = get(mem, k) /\ id # NIL
    BY <1>1
  <1>4. PICK P : P = set_value(id, v) /\ P = todo'
    BY <1>1, <1>3
  <1>5. PICK c : c = Changed(Content(mem), k, v) /\ c = pending'
    BY <1>1 DEF Changed
  <1>6. PICK C : C = {Content(mem), c} /\ C = {acked', pending'}
    BY <1>1, <1>5, Zenon
  <1>7. get(mem, k) # NIL /\ Content(mem) \in C /\ c \in C
    BY <1>1, <1>6
  <1>8. PICK y : Leads(mem, P, C, FALSE, y) /\ Program(P) /\ Sound(y) /\ Content(y) = c
    <2>1. Promised(mem, set_value(id, v), C, Changed(Content(mem), k, v))
      <3>1. /\ id = get(mem, k) /\ get(mem, k) # NIL
            /\ Content(mem) \in C /\ Changed(Content(mem), k, v) \in C
        BY <1>3, <1>5, <1>7
      <3> QED
        BY <1>2, <3>1, SetValueLeads
    <2>2. Promised(mem, P, C, c)
      BY <1>4, <1>5, <2>1
    <2> QED
      BY <2>2 DEF Promised
  <1>9. Leads(mem, todo', {acked', pending'}, FALSE, y) /\ Program(todo') /\ Content(y) = pending'
    BY <1>4, <1>5, <1>6, <1>8, Zenon
  <1> QED
    BY <1>1, <1>8, <1>9, HStart

LEMMA HAddEntry ==
    ASSUME HInv, crashes = 0, AddEntry
    PROVE  HInv'
  <1>1. /\ status = "rehashing" /\ todo = <<>> /\ mem' = mem /\ acked' = acked
        /\ crashes' = crashes
    BY DEF AddEntry
  <1>2. Rehashing
    BY <1>1 DEF HInv
  <1>3. /\ Sound(mem) /\ Content(mem) = acked /\ key \in Keys
        /\ mem.garbage # NIL \/ mem.curr_rec < MaxId
    <2>1. PICK y : /\ Leads(mem, todo, {acked, pending}, TRUE, y) /\ Sound(y)
                   /\ Content(y) = acked
                   /\ y.garbage # NIL \/ y.curr_rec < MaxId
      BY <1>2 DEF Rehashing
    <2>2. Program(todo)
      BY <1>2 DEF Rehashing
    <2>3. mem = y
      BY <1>1, <2>1, <2>2, LeadsNow
    <2> QED
      BY <1>2, <2>1, <2>3 DEF Rehashing
  <1>4. CASE get(mem, key) # NIL \/ TableIsFull(mem, key) \/ needs_rehash(mem)
    <2>1. status' = "ready" /\ pending' = acked /\ todo' = todo
      BY <1>4 DEF AddEntry
    <2>2. Idle'
      BY <1>1, <1>3, <2>1 DEF Idle
    <2> QED
      BY <1>1, <2>1, <2>2 DEF HInv
  <1>5. CASE ~(get(mem, key) # NIL \/ TableIsFull(mem, key) \/ needs_rehash(mem))
    <2>1. status' = "running" /\ todo' = io_hash_add(mem, key) /\ pending' = pending
      BY <1>5 DEF AddEntry
    <2>2. PICK C : C = {Content(mem), [Content(mem) EXCEPT ![key] = 0]}
      OBVIOUS
    <2>3. PICK y : /\ Leads(mem, io_hash_add(mem, key), C, FALSE, y)
                   /\ Program(io_hash_add(mem, key))
                   /\ Sound(y) /\ Content(y) = [Content(mem) EXCEPT ![key] = 0]
      BY <1>3, <1>5, <2>2, AddLeads
    <2>4. pending' = [Content(mem) EXCEPT ![key] = 0]
      <3>1. Content(mem)[key] = Absent
        BY <1>3, <1>5, ContentOfGet
      <3>2. pending = [acked EXCEPT ![key] = IF acked[key] = Absent THEN 0 ELSE acked[key]]
        BY <1>2 DEF Rehashing
      <3> QED
        BY <1>3, <2>1, <3>1, <3>2
    <2>5. C = {acked', pending'}
      BY <1>1, <1>3, <2>2, <2>4
    <2>6. Leads(mem, todo', {acked', pending'}, FALSE, y) /\ Program(todo')
      BY <2>1, <2>3, <2>5, Zenon
    <2>7. Content(y) = pending'
      BY <2>3, <2>4
    <2> QED
      BY <1>1, <2>1, <2>3, <2>6, <2>7, HStart
  <1> QED
    BY <1>4, <1>5

\* One store or append.
LEMMA HStep ==
    ASSUME HInv, crashes = 0, Step
    PROVE  HInv'
  <1>1. /\ todo # <<>> /\ todo' = Tail(todo) /\ status' = status /\ key' = key
        /\ acked' = acked /\ pending' = pending /\ crashes' = crashes
    BY DEF Step, ghosts
  <1>2. mem' = After(mem, Head(todo))
    <2>1. IF "log" \in DOMAIN Head(todo) THEN mem' = mem ELSE mem' = Execute(mem, Head(todo))
      BY DEF Step
    <2> QED
      BY <2>1 DEF After
  <1>3. ASSUME NEW b, NEW y, Program(todo), Leads(mem, todo, {acked, pending}, b, y)
        PROVE  Program(todo') /\ Leads(mem', todo', {acked', pending'}, b, y)
    <2>1. PICK C : C = {acked, pending}
      OBVIOUS
    <2>2. Leads(mem, todo, C, b, y)
      BY <1>3, <2>1, Zenon
    <2>3. Leads(After(mem, Head(todo)), Tail(todo), C, b, y) /\ Program(Tail(todo))
      BY <1>1, <1>3, <2>2, LeadsStep
    <2>4. C = {acked', pending'}
      BY <1>1, <2>1
    <2> QED
      BY <1>1, <1>2, <2>3, <2>4, Zenon
  <1>4. CASE status = "rehashing"
    <2>1. Rehashing
      BY <1>4 DEF HInv
    <2>2. PICK y : /\ Leads(mem, todo, {acked, pending}, TRUE, y) /\ Sound(y)
                   /\ Content(y) = acked
                   /\ y.garbage # NIL \/ y.curr_rec < MaxId
      BY <2>1 DEF Rehashing
    <2>3. Program(todo') /\ Leads(mem', todo', {acked', pending'}, TRUE, y)
      BY <1>3, <2>1, <2>2 DEF Rehashing
    <2>4. /\ key' \in Keys /\ Content(y) = acked'
          /\ pending' = [acked' EXCEPT ![key'] = IF acked'[key'] = Absent THEN 0
                                                 ELSE acked'[key']]
      BY <1>1, <2>1, <2>2 DEF Rehashing
    <2>5. Rehashing'
      BY <2>2, <2>3, <2>4 DEF Rehashing
    <2> QED
      BY <1>1, <1>4, <2>5 DEF HInv
  <1>5. CASE status = "running"
    <2>1. Running
      BY <1>5 DEF HInv
    <2>2. PICK y : /\ Leads(mem, todo, {acked, pending}, FALSE, y) /\ Sound(y)
                   /\ Content(y) = pending
      BY <2>1 DEF Running
    <2>3. Program(todo') /\ Leads(mem', todo', {acked', pending'}, FALSE, y)
      BY <1>3, <2>1, <2>2 DEF Running
    <2>4. Content(y) = pending'
      BY <1>1, <2>2
    <2>5. Running'
      BY <2>2, <2>3, <2>4 DEF Running
    <2> QED
      BY <1>1, <1>5, <2>5 DEF HInv
  <1>6. CASE status \in {"ready", "flushing"}
    BY <1>1, <1>6 DEF HInv, Idle
  <1> QED
    BY <1>4, <1>5, <1>6 DEF HInv

LEMMA HReturn ==
    ASSUME HInv, crashes = 0, Return
    PROVE  HInv'
  <1>1. /\ status = "running" /\ todo = <<>> /\ status' = "ready" /\ acked' = pending
        /\ mem' = mem /\ todo' = todo /\ pending' = pending /\ crashes' = crashes
    BY DEF Return, process
  <1>2. Running
    BY <1>1 DEF HInv
  <1>3. PICK y : /\ Leads(mem, todo, {acked, pending}, FALSE, y) /\ Sound(y)
                 /\ Content(y) = pending
    BY <1>2 DEF Running
  <1>4. mem = y
    <2>1. Program(todo)
      BY <1>2 DEF Running
    <2> QED
      BY <1>1, <1>3, <2>1, LeadsNow
  <1>5. Idle'
    BY <1>1, <1>3, <1>4 DEF Idle
  <1> QED
    BY <1>1, <1>5 DEF HInv

LEMMA HFlush ==
    ASSUME HInv, crashes = 0, Flush \/ ClearWal
    PROVE  HInv'
  <1>1. /\ status \in {"ready", "flushing"} /\ status' \in {"ready", "flushing"}
        /\ mem' = mem /\ todo' = todo /\ acked' = acked /\ pending' = pending
        /\ crashes' = crashes
    BY DEF Flush, ClearWal, process, ghosts
  <1>2. Idle
    BY <1>1 DEF HInv
  <1>3. Idle'
    BY <1>1, <1>2 DEF Idle
  <1> QED
    BY <1>1, <1>3 DEF HInv

LEMMA HNext ==
    HInv /\ [Next]_vars => HInv'
  <1> SUFFICES ASSUME HInv, [Next]_vars PROVE HInv'
    OBVIOUS
  <1>1. crashes \in Nat
    BY DEF HInv
  <1>2. CASE UNCHANGED vars
    <2>1. UNCHANGED <<mem, status, todo, key, acked, pending, crashes>>
      BY <1>2 DEF vars
    <2> QED
      BY <2>1 DEF HInv, Idle, Rehashing, Running
  <1>3. CASE \E mode \in CrashModes : Crash(mode)
    <2>1. crashes' = crashes + 1
      BY <1>3 DEF Crash
    <2>2. crashes' \in Nat /\ crashes' # 0
      BY <1>1, <2>1
    <2> QED
      BY <2>2 DEF HInv
  <1>4. CASE Next /\ crashes # 0 /\ ~\E mode \in CrashModes : Crash(mode)
    <2>1. crashes' = crashes
      BY <1>4 DEF Next, Add, Delete, SetValue, Begin, Flush, Work, Step, AddEntry, Return,
                  ClearWal, Open, ReplayEntry, RemovePartial, RecoverFlush
    <2> QED
      BY <1>1, <1>4, <2>1 DEF HInv
  <1>5. CASE Next /\ crashes = 0 /\ ~\E mode \in CrashModes : Crash(mode)
    <2>1. CASE \E k \in Keys : Add(k) \/ Delete(k) \/ \E v \in Values : SetValue(k, v)
      BY <1>5, <2>1, HAdd, HDelete, HSetValue
    <2>2. CASE Flush \/ ClearWal
      BY <1>5, <2>2, HFlush
    <2>3. CASE Step
      BY <1>5, <2>3, HStep
    <2>4. CASE AddEntry
      BY <1>5, <2>4, HAddEntry
    <2>5. CASE Return
      BY <1>5, <2>5, HReturn
    <2>6. CASE Open \/ ReplayEntry \/ RemovePartial \/ RecoverFlush
      <3>1. status \in {"dead", "replaying", "removing"}
        BY <2>6 DEF Open, ReplayEntry, RemovePartial, RecoverFlush
      <3> QED
        BY <1>5, <3>1 DEF HInv
    <2> QED
      BY <1>5, <2>1, <2>2, <2>3, <2>4, <2>5, <2>6 DEF Next, Work
  <1> QED
    BY <1>2, <1>3, <1>4, <1>5

\* Until the first crash the steps left of every operation lead to a sound
\* memory with the content the operation promises.
THEOREM HashInvariant ==
    Spec => []HInv
  BY HInit, HNext, PTL DEF Spec

-----------------------------------------------------------------------------
(* What the properties of HashWal say of a sound memory.                   *)

LEMMA ReadyIsIdle ==
    ASSUME HInv, crashes = 0, Ready
    PROVE  Sound(mem) /\ Content(mem) \in {acked, pending}
  BY DEF HInv, Ready, Idle

\* A live record is one a search finds.
LEMMA ScanIsSearch ==
    ASSUME NEW m, Sound(m)
    PROVE  m.n_entries = Cardinality(m.bits) /\ m.bits = {get(m, k) : k \in Keys} \ {NIL}
  <1>1. ASSUME NEW i \in m.bits PROVE i \in {get(m, k) : k \in Keys} \ {NIL}
    <2>1. PICK k \in Keys : compare_key(m, i, k)
      BY DEF Sound, Owned
    <2>2. get(m, k) = i
      BY <2>1, SoundPlaced, GetFinds DEF Sound
    <2>3. i # NIL
      BY SoundPlaced, IdsAreRecords
    <2> QED
      BY <2>2, <2>3
  <1>2. ASSUME NEW i \in {get(m, k) : k \in Keys} \ {NIL} PROVE i \in m.bits
    <2>1. PICK k \in Keys : i = get(m, k)
      OBVIOUS
    <2> QED
      BY <2>1, Found
  <1> QED
    BY <1>1, <1>2, SoundPlaced

\* A space that is not full of records and garbage has an empty slot.
LEMMA EmptySlot ==
    ASSUME NEW m, Sound(m), m.n_entries + m.n_garbages <= m.max_offset
    PROVE  \E p \in Space(m) : m.index[p] = NIL
  <1> SUFFICES ASSUME \A p \in Space(m) : m.index[p] # NIL PROVE FALSE
    OBVIOUS
  <1> DEFINE Live == {p \in Space(m) : m.index[p] \in m.bits}
  <1>1. IsFiniteSet(Space(m)) /\ Cardinality(Space(m)) = m.max_offset + 1
    BY SoundPlaced, SpaceSize
  <1>2. Space(m) = Live \cup GarbageSlots(m) /\ GarbageSlots(m) \subseteq Space(m)
    BY DEF Sound, Owned, GarbageSlots
  <1>3. IsFiniteSet(m.bits) /\ m.n_entries = Cardinality(m.bits)
        /\ m.n_entries \in Nat /\ m.n_garbages \in Nat /\ m.max_offset \in Nat
        /\ Cardinality(GarbageSlots(m)) <= m.n_garbages
    BY SoundPlaced DEF Typed, Sound, Counted
  <1>4. IsFiniteSet(Live) /\ Cardinality(Live) <= m.n_entries
    <2> DEFINE f == [p \in Live |-> m.index[p]]
    <2>1. f \in [Live -> m.bits]
      OBVIOUS
    <2>2. \A p, q \in Live : f[p] = f[q] => p = q
      BY SoundPlaced DEF Placed
    <2>3. f \in Injection(Live, m.bits)
      BY <2>1, <2>2 DEF Injection, IsInjective
    <2> HIDE DEF f, Live
    <2> QED
      BY <1>3, <2>3, FS_Injection
  <1>5. IsFiniteSet(GarbageSlots(m))
    BY <1>1, <1>2, FS_Subset
  <1> HIDE DEF Live
  <1>6. /\ Cardinality(Live) \in Nat /\ Cardinality(GarbageSlots(m)) \in Nat
        /\ Cardinality(Live \cap GarbageSlots(m)) \in Nat
    <2>1. IsFiniteSet(Live \cap GarbageSlots(m))
      BY <1>4, FS_Subset
    <2> QED
      BY <1>4, <1>5, <2>1, FS_CardinalityType
  <1>7. Cardinality(Live \cup GarbageSlots(m)) =
           Cardinality(Live) + Cardinality(GarbageSlots(m)) - Cardinality(Live \cap GarbageSlots(m))
    BY <1>4, <1>5, FS_Union
  <1>8. m.max_offset + 1 = Cardinality(Live) + Cardinality(GarbageSlots(m))
                             - Cardinality(Live \cap GarbageSlots(m))
    BY <1>1, <1>2, <1>7
  <1> QED
    BY <1>3, <1>4, <1>6, <1>8

LEMMA EveryProbeEnds ==
    ASSUME NEW m, Sound(m), NEW p \in Space(m), m.index[p] = NIL, NEW k \in Keys
    PROVE  Ends(m, k) # {}
  <1>1. HashOf[k] \in Nat
    BY HashAssumption
  <1>2. PICK n \in 0 .. (m.max_offset + 1) - 1 :
           Slot(m.idx_offset, m.max_offset + 1, HashOf[k], n) = p
    BY <1>1, SoundPlaced, ProbeSurjective
  <1>3. n \in Tries(m) /\ Probed(m, HashOf[k], n) = NIL
    BY <1>1, <1>2, SoundPlaced, ShapeFacts
  <1> QED
    BY <1>3 DEF Ends

\* Key places.
LEMMA PlacesArePrivate ==
    ASSUME NEW m, Sound(m), VarSize
    PROVE  \A i \in m.bits :
              /\ m.key_offset[i] < m.curr_key
              /\ \A j \in m.bits : m.key_offset[i] = m.key_offset[j] => i = j
  <1>1. /\ m.curr_key = m.curr_rec /\ m.curr_rec \in 0 .. MaxId
        /\ \A i \in 1 .. m.curr_rec : m.key_offset[i] = i - 1
        /\ m.bits \in SUBSET (1 .. m.curr_rec)
    BY DEF Sound, KeyArea, Typed
  <1>2. m.curr_rec \in Nat /\ \A i \in m.bits : i \in Nat /\ i <= m.curr_rec /\ m.key_offset[i] = i - 1
    BY <1>1
  <1> QED
    BY <1>1, <1>2

-----------------------------------------------------------------------------
(* The theorems.                                                           *)

\* No reuse is cut before the first crash: the condition ~cut of the properties
\* takes nothing from the theorems.
LEMMA NothingCut == Spec => [](crashes = 0 => ~cut)
  <1> DEFINE I == crashes \in Nat /\ (crashes = 0 => ~cut)
  <1>1. Init => I
    BY DEF Init
  <1>2. I /\ [Next]_vars => I'
    <2> SUFFICES ASSUME I, [Next]_vars PROVE I'
      OBVIOUS
    <2>1. ASSUME NEW mode, Crash(mode) PROVE I'
      BY <2>1 DEF Crash
    <2>2. ASSUME UNCHANGED <<cut, crashes>> PROVE I'
      BY <2>2
    <2>3. CASE UNCHANGED vars
      BY <2>2, <2>3 DEF vars
    <2>4. ASSUME NEW k, Add(k) \/ Delete(k) \/ \E v \in Values : SetValue(k, v) PROVE I'
      BY <2>2, <2>4 DEF Add, Delete, SetValue
    <2>5. CASE Flush \/ Step \/ AddEntry \/ Return \/ ClearWal
      BY <2>2, <2>5 DEF Flush, Step, AddEntry, Return, ClearWal, ghosts
    <2>6. CASE Open \/ ReplayEntry \/ RemovePartial \/ RecoverFlush
      BY <2>2, <2>6 DEF Open, ReplayEntry, RemovePartial, RecoverFlush, ghosts
    <2> QED
      BY <2>1, <2>3, <2>4, <2>5, <2>6 DEF Next, Work
  <1>3. I => (crashes = 0 => ~cut)
    OBVIOUS
  <1> QED
    BY <1>1, <1>2, <1>3, PTL DEF Spec

\* Until the first crash, a search of every key finds exactly what the finished
\* operations have made, whatever the hash values and however the index has
\* filled, been emptied and grown (grn_hash_add, grn_hash_delete, grn_hash_get).
THEOREM AcknowledgedHolds ==
    Spec => [](crashes = 0 => AcknowledgedSurvives)
  <1>1. HInv => (crashes = 0 => AcknowledgedSurvives)
    BY ReadyIsIdle DEF AcknowledgedSurvives
  <1> QED
    BY <1>1, HashInvariant, PTL

\* Until the first crash, and as long as no hash value is also the identifier of
\* a record (a deleted entry keeps the next garbage identifier in the word its
\* hash value was in), a search that takes no lock finds between any two stores
\* of an operation the content before it or the content after it, except between
\* the last three stores of grn_hash_rehash.
THEOREM NoLockHolds ==
    Spec => [](crashes = 0 /\ HashesApart => SearchNeedsNoLock)
  <1>1. HInv => (crashes = 0 /\ HashesApart => SearchNeedsNoLock)
    <2> SUFFICES ASSUME HInv, crashes = 0, HashesApart, status \in {"rehashing", "running"}
                 PROVE  Switching \/ Content(mem) \in {acked, pending}
      BY DEF SearchNeedsNoLock
    <2>1. CASE status = "rehashing"
      <3>1. PICK y : Program(todo) /\ Leads(mem, todo, {acked, pending}, TRUE, y)
        BY <2>1 DEF HInv, Rehashing
      <3>2. Content(mem) \in {acked, pending} \/ (todo # <<>> /\ Switches(Head(todo)))
        BY <3>1, LeadsNow
      <3> QED
        BY <2>1, <3>2 DEF Switching, Switches
    <2>2. CASE status = "running"
      <3>1. PICK y : Program(todo) /\ Leads(mem, todo, {acked, pending}, FALSE, y)
        BY <2>2 DEF HInv, Running
      <3> QED
        BY <3>1, LeadsNow
    <2> QED
      BY <2>1, <2>2
  <1> QED
    BY <1>1, HashInvariant, PTL

\* Until the first crash, the bitmap a cursor walks holds exactly the records a
\* search finds, and n_entries counts them.
THEOREM ScanHolds ==
    Spec => [](crashes = 0 => ScanAgreesWithSearch)
  <1>1. HInv => (crashes = 0 => ScanAgreesWithSearch)
    BY ReadyIsIdle, ScanIsSearch DEF ScanAgreesWithSearch
  <1> QED
    BY <1>1, HashInvariant, PTL

\* Until the first crash, no two records share a place in the key area
\* (grn_hash_entry_put_key), deleted and reused ones included.
THEOREM KeyPlacesHold ==
    Spec => [](crashes = 0 => KeyPlacesArePrivate)
  <1>1. HInv => (crashes = 0 => KeyPlacesArePrivate)
    BY ReadyIsIdle, PlacesArePrivate DEF KeyPlacesArePrivate
  <1> QED
    BY <1>1, HashInvariant, PTL

\* Until the first crash, a search ends as long as the counters leave a slot,
\* and they do in every table that can still grow, unless its keys are
\* references: grn_hash_ensure_rehash then does not double what it compares with
\* the size, and the last slot may be filled.
HasRoom ==
    \/ mem.n_entries + mem.n_garbages <= mem.max_offset
    \/ ~IsReference /\ mem.max_offset # MaxIndexSize - 1

THEOREM SearchEndsHolds ==
    Spec => [](crashes = 0 /\ HasRoom => SearchEnds)
  <1>1. HInv => (crashes = 0 /\ HasRoom => SearchEnds)
    <2> SUFFICES ASSUME HInv, crashes = 0, HasRoom, Ready, NEW k \in Keys
                 PROVE  Ends(mem, k) # {}
      BY DEF SearchEnds
    <2>1. Sound(mem)
      BY ReadyIsIdle
    <2>2. mem.n_entries + mem.n_garbages <= mem.max_offset
      BY <2>1 DEF HasRoom, Sound, Roomy
    <2> QED
      BY <2>1, <2>2, EmptySlot, EveryProbeEnds
  <1> QED
    BY <1>1, HashInvariant, PTL

-----------------------------------------------------------------------------
(* The garbage list.                                                       *)

\* The entry the list reaches after n links is the one that Chained says.
LEMMA NextGarbageIs ==
    ASSUME NEW m, NEW g, NEW len \in Nat, Chained(m, g, len), NEW n \in 0 .. len,
           \A i \in 0 .. len - 1 : g[i] # NIL
    PROVE  NextGarbage(m, n) = g[n]
  <1> DEFINE rest(f, i) == IF i = 0 THEN m.garbage
                           ELSE IF f[i - 1] = NIL THEN NIL ELSE m.word[f[i - 1]]
             Is(f) == f = [i \in 0 .. n |-> rest(f, i)]
             list == [i \in 0 .. n |-> g[i]]
             chain == CHOOSE f : Is(f)
  <1>1. NextGarbage(m, n) = chain[n]
    BY DEF NextGarbage
  <1>2. \A i \in 1 .. n : /\ i - 1 \in 0 .. n /\ i - 1 \in 0 .. len - 1 /\ i # 0 /\ (i - 1) + 1 = i
                          /\ g[i - 1] # NIL /\ m.word[g[i - 1]] = g[i]
    <2> TAKE i \in 1 .. n
    <2>1. i - 1 \in 0 .. n /\ i - 1 \in 0 .. len - 1 /\ i # 0 /\ (i - 1) + 1 = i
      OBVIOUS
    <2> QED
      BY <2>1 DEF Chained
  <1>3. g[0] = m.garbage
    BY DEF Chained
  <1>4. Is(list)
    <2>1. ASSUME NEW i \in 0 .. n PROVE list[i] = rest(list, i)
      <3>1. CASE i = 0
        BY <1>3, <3>1
      <3>2. CASE i # 0
        <4>1. i \in 1 .. n
          BY <3>2
        <4>2. i - 1 \in 0 .. n /\ g[i - 1] # NIL /\ m.word[g[i - 1]] = g[i]
          BY <1>2, <4>1
        <4>3. list[i - 1] = g[i - 1] /\ list[i] = g[i]
          BY <4>2
        <4> HIDE DEF list
        <4> QED
          BY <3>2, <4>2, <4>3
      <3> QED
        BY <3>1, <3>2
    <2> QED
      BY <2>1
  <1>5. Is(chain)
    <2> HIDE DEF Is, list
    <2> QED
      BY <1>4
  <1>6. \A i \in 0 .. n : chain[i] = rest(chain, i)
    <2> HIDE DEF chain
    <2> QED
      BY <1>5
  <1> HIDE DEF chain
  <1> DEFINE S == {i \in 0 .. n : chain[i] = g[i]}
  <1>7. n \in Nat /\ 0 \in S
    BY <1>3, <1>6
  <1>8. ASSUME NEW i \in 0 .. n - 1, i \in S PROVE i + 1 \in S
    <2>1. i + 1 \in 1 .. n /\ i + 1 \in 0 .. n /\ (i + 1) - 1 = i /\ i + 1 # 0
      BY <1>7
    <2>2. g[i] # NIL /\ m.word[g[i]] = g[i + 1]
      BY <1>2, <2>1
    <2>3. chain[i] = g[i]
      BY <1>8
    <2>4. chain[i + 1] = g[i + 1]
      BY <1>6, <2>1, <2>2, <2>3
    <2> QED
      BY <2>1, <2>4
  <1> HIDE DEF S
  <1>9. n \in S
    BY <1>7, <1>8, UpTo
  <1> QED
    BY <1>1, <1>9 DEF S

LEMMA GarbageIsListed ==
    ASSUME NEW m, Sound(m), NEW len, len = Cardinality(Free(m))
    PROVE  /\ {NextGarbage(m, n) : n \in 0 .. len - 1} = Free(m)
           /\ NextGarbage(m, len) = NIL
  <1>1. PICK c \in Nat : \E g : Chained(m, g, c)
    BY DEF Sound, GarbageListed
  <1>2. PICK g : Chained(m, g, c)
    BY <1>1
  <1>3. /\ g[c] = NIL
        /\ \A i \in 0 .. c - 1 : g[i] \in Free(m)
        /\ \A i, j \in 0 .. c - 1 : g[i] = g[j] => i = j
        /\ \A x \in Free(m) : \E i \in 0 .. c - 1 : g[i] = x
    BY <1>2 DEF Chained
  <1>4. \A x \in Free(m) : x # NIL
    BY DEF Free, NIL
  <1>5. len = c
    <2> DEFINE f == [i \in 0 .. c - 1 |-> g[i]]
    <2>1. f \in [0 .. c - 1 -> Free(m)]
      BY <1>3
    <2>2. f \in Injection(0 .. c - 1, Free(m))
      BY <1>3, <2>1 DEF Injection, IsInjective
    <2>3. f \in Surjection(0 .. c - 1, Free(m))
      BY <1>3, <2>1 DEF Surjection
    <2> HIDE DEF f
    <2>4. f \in Bijection(0 .. c - 1, Free(m))
      BY <2>2, <2>3 DEF Bijection
    <2>5. ExistsBijection(0 .. c - 1, Free(m))
      BY <2>4 DEF ExistsBijection
    <2>6. IsFiniteSet(0 .. c - 1) /\ Cardinality(0 .. c - 1) = c
      <3>1. 0 \in Int /\ c - 1 \in Int
        OBVIOUS
      <3>2. /\ IsFiniteSet(0 .. c - 1)
            /\ Cardinality(0 .. c - 1) = IF 0 > c - 1 THEN 0 ELSE (c - 1) - 0 + 1
        BY <3>1, FS_Interval
      <3> QED
        BY <3>2
    <2> QED
      BY <2>5, <2>6, FS_Bijection
  <1>6. \A n \in 0 .. c : NextGarbage(m, n) = g[n]
    BY <1>2, <1>3, <1>4, NextGarbageIs
  <1>7. c \in 0 .. c /\ \A n \in 0 .. c - 1 : n \in 0 .. c
    OBVIOUS
  <1>8. NextGarbage(m, len) = NIL
    BY <1>3, <1>5, <1>6, <1>7
  <1>9. {NextGarbage(m, n) : n \in 0 .. c - 1} = {g[n] : n \in 0 .. c - 1}
    BY <1>6, <1>7
  <1>10. {g[n] : n \in 0 .. c - 1} = Free(m)
    BY <1>3
  <1> QED
    BY <1>5, <1>8, <1>9, <1>10

\* Until the first crash, the garbage list goes through every deleted record
\* exactly once, through no live one, and ends: io_hash_add never hands out a
\* record in use and loses none.
THEOREM GarbageListHolds ==
    Spec => [](crashes = 0 => GarbageListIsExact)
  <1>1. HInv => (crashes = 0 => GarbageListIsExact)
    <2> SUFFICES ASSUME HInv, crashes = 0, Ready
                 PROVE  /\ {NextGarbage(mem, n) : n \in 0 .. Cardinality(Free(mem)) - 1}
                             = Free(mem)
                        /\ NextGarbage(mem, Cardinality(Free(mem))) = NIL
      BY DEF GarbageListIsExact, Free
    <2> QED
      BY ReadyIsIdle, GarbageIsListed
  <1> QED
    BY <1>1, HashInvariant, PTL

=============================================================================
