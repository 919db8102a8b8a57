------------------------ MODULE BoundedBufferProofs -------------------------
(***************************************************************************)
(* producer() and consumer() of main.c for every number of either, every   *)
(* BUFFER_SIZE and every schedule: the cursors agree whenever the monitor  *)
(* is free, and the ring buffer is a FIFO channel.                         *)
(***************************************************************************)
EXTENDS BoundedBuffer, SyncProofs, SequenceTheorems, FiniteSetTheorems

-----------------------------------------------------------------------------
(* What BufferAssumption says of the tasks and of the monitor. *)
LEMMA Workers ==
  /\ Worker \subseteq Task \ {Idle}
  /\ \A w \in Worker : w \in Consumers <=> w \notin Producers
  /\ Buffer \in Mutex /\ NotEmpty \in Cond /\ NotFull \in Cond
  /\ NotEmpty[1] = Buffer /\ NotFull[1] = Buffer /\ NotEmpty # NotFull
BY BufferAssumption, SyncAssumption DEF Worker, Buffer, Cond, NotEmpty, NotFull

LEMMA WaitsOnType == \A w : WaitsOn(w) \in Cond /\ WaitsOn(w)[1] = Buffer
BY Workers DEF WaitsOn

(* Walking round the ring: every sum of an index and a number of slots that the
   code and the properties reduce is less than twice the size. *)
LEMMA RingStep ==
  ASSUME NEW x \in Nat, x < 2 * BUFFER_SIZE
  PROVE  x % BUFFER_SIZE = IF x < BUFFER_SIZE THEN x ELSE x - BUFFER_SIZE
BY BufferAssumption

-----------------------------------------------------------------------------
(* The steps that leave the buffer and its lock alone move no task into or out of
   the monitor. *)
Inert(w) ==
  Sleep(w) \/ SetSleeping(w) \/ YieldAsleep(w) \/ YieldInWait(w)

LEMMA InertMoves ==
  ASSUME TypeOK, NEW w \in Worker, Inert(w)
  PROVE  /\ UNCHANGED <<syncVars, bufferVars>>
         /\ pc' \in [Worker -> Outside \cup Blocking \cup Inside]
         /\ pc[w] \notin Inside /\ pc'[w] \notin Inside
         /\ \A v \in Worker \ {w} : pc'[v] = pc[v]
         /\ SchedTypeOK'
<1>1. CASE Sleep(w)
  BY <1>1, Workers, BufferAssumption
     DEF Sleep, At, Goto, TypeOK, SchedTypeOK, Inside, Outside
<1>2. CASE SetSleeping(w)
  BY <1>2, Workers
     DEF SetSleeping, At, Goto, TypeOK, SchedTypeOK, TaskState, Inside, Outside
<1>3. CASE YieldAsleep(w)
  <2>1. SchedTypeOK'
    BY <1>3, TimerType DEF YieldAsleep, TypeOK, SchedTypeOK
  <2>. QED
    BY <1>3, <2>1 DEF YieldAsleep, At, Goto, TypeOK, Inside, Outside
<1>4. CASE YieldInWait(w)
  <2>1. SchedTypeOK'
    BY <1>4, TimerType DEF YieldInWait, TypeOK, SchedTypeOK
  <2>. QED
    BY <1>4, <2>1 DEF YieldInWait, At, Goto, TypeOK, Inside, Blocking
<1>. QED
  BY <1>1, <1>2, <1>3, <1>4 DEF Inert

(* Inside the monitor: the lock is taken and records the task. *)
LockInv ==
  \A w \in Worker : pc[w] \in Inside => locked[Buffer] /\ owner[Buffer] = w

(* tail is n slots further from head than count says. *)
Ahead(n) == tail = (head + count + n) % BUFFER_SIZE

(* CursorsAgree is not inductive: a pass through the monitor moves a cursor, then
   loads count, then stores it, and count stays in range only because the while
   loop before has tested it and nobody else has been in since. *)
DataInv ==
  /\ NobodyInside => Ahead(0)
  /\ \A w \in Worker :
       /\ pc[w] \in Inside => Ahead(IF pc[w] \notin {"load", "store"} THEN 0
                                    ELSE IF w \in Producers THEN 1 ELSE -1)
       /\ pc[w] \in {"item", "index", "load", "store"} =>
            IF w \in Producers THEN count < BUFFER_SIZE ELSE count > 0
       /\ pc[w] = "store" => reg[w] = count

BufferInv == TypeOK /\ LockInv /\ DataInv

LEMMA BufferInvInit == Init => BufferInv
<1>. SUFFICES ASSUME Init PROVE BufferInv
  OBVIOUS
<1>1. SchedTypeOK
  BY NAssumption DEF Init, SchedInit, SchedTypeOK, Task, TaskState, Idle
<1>2. SyncTypeOK
  BY DEF Init, SyncInit, SyncTypeOK, TaskPtr, NULL
<1>3. TypeOK
  BY <1>1, <1>2, BufferAssumption DEF Init, TypeOK, Outside, Slot, Item
<1>4. \A w \in Worker : pc[w] \notin Inside
  BY DEF Init, Inside
<1>5. Ahead(0)
  BY RingStep, BufferAssumption DEF Init, Ahead
<1>. QED
  BY <1>3, <1>4, <1>5 DEF BufferInv, LockInv, DataInv, Inside

LEMMA BufferInvInert ==
  ASSUME BufferInv, NEW w \in Worker, Inert(w)
  PROVE  BufferInv'
<1>1. /\ UNCHANGED <<syncVars, bufferVars>>
      /\ pc' \in [Worker -> Outside \cup Blocking \cup Inside]
      /\ pc[w] \notin Inside /\ pc'[w] \notin Inside
      /\ \A v \in Worker \ {w} : pc'[v] = pc[v]
      /\ SchedTypeOK'
  BY InertMoves DEF BufferInv
<1>2. TypeOK'
  BY <1>1 DEF BufferInv, TypeOK, SyncTypeOK, syncVars, bufferVars
<1>3. LockInv'
  BY <1>1 DEF BufferInv, LockInv, syncVars
<1>4. DataInv'
  BY <1>1 DEF BufferInv, DataInv, Ahead, NobodyInside, Inside, bufferVars
<1>. QED
  BY <1>2, <1>3, <1>4 DEF BufferInv

(* monitor_enter and the mutex_lock of cond_wait. *)
LEMMA BufferInvLock ==
  ASSUME BufferInv, NEW w \in Worker, Lock(w)
  PROVE  BufferInv'
<1>. USE DEF BufferInv
<1>1. w \in Task /\ pc[w] \notin Inside /\ Buffer \in Mutex
  BY Workers DEF Lock, Inside
<1>2. SchedTypeOK' /\ SyncTypeOK'
  BY <1>1, MutexTakeType, MutexWaitType DEF Lock, TypeOK
<1>3. TypeOK'
  BY <1>2 DEF Lock, TypeOK, Goto, Inside, Blocking, bufferVars
<1>4. CASE MutexTake(w, Buffer) /\ Goto(w, "check")
  <2>1. /\ ~locked[Buffer] /\ locked'[Buffer] /\ owner'[Buffer] = w
    BY <1>1, <1>4 DEF MutexTake, TypeOK, SyncTypeOK
  <2>2. pc' = [pc EXCEPT ![w] = "check"]
    BY <1>4 DEF Goto
  <2>3. \A v \in Worker : pc[v] \notin Inside
    BY <2>1 DEF LockInv
  <2>4. \A v \in Worker : pc'[v] \in Inside => v = w
    BY <2>2, <2>3 DEF TypeOK
  <2>5. LockInv'
    BY <2>1, <2>4 DEF LockInv
  <2>6. DataInv'
    <3>1. Ahead(0)'
      BY <2>3 DEF Lock, DataInv, NobodyInside, Ahead, bufferVars
    <3>2. pc'[w] = "check"
      BY <2>2 DEF TypeOK
    <3>. QED
      BY <2>4, <3>1, <3>2 DEF DataInv, NobodyInside, Ahead, Inside
  <2>. QED
    BY <1>3, <2>5, <2>6
<1>5. CASE MutexWait(w, Buffer) /\ Goto(w, "retry")
  <2>1. pc' = [pc EXCEPT ![w] = "retry"] /\ locked' = locked /\ owner' = owner
    BY <1>5 DEF Goto, MutexWait
  <2>2. \A v \in Worker : /\ pc'[v] \in Inside <=> pc[v] \in Inside
                          /\ pc'[v] \in Inside => pc'[v] = pc[v]
    BY <1>1, <2>1 DEF TypeOK, Inside
  <2>3. LockInv'
    BY <2>1, <2>2 DEF LockInv
  <2>4. DataInv'
    BY <2>2 DEF Lock, DataInv, NobodyInside, Ahead, Inside, bufferVars
  <2>. QED
    BY <1>3, <2>3, <2>4
<1>. QED
  BY <1>4, <1>5 DEF Lock

(* The task that is inside is there alone. *)
LEMMA InsideAlone ==
  ASSUME BufferInv, NEW w \in Worker, pc[w] \in Inside
  PROVE  \A v \in Worker \ {w} : pc[v] \notin Inside
BY DEF BufferInv, LockInv

(* A step of the task inside that keeps it there, the lock untouched. *)
LEMMA BufferInvPass ==
  ASSUME BufferInv, NEW w \in Worker, pc[w] \in Inside, NEW to \in Inside, Goto(w, to),
         SchedTypeOK', SyncTypeOK', locked' = locked, owner' = owner,
         buffer' \in [Slot -> Item \cup {0}], count' \in 0 .. BUFFER_SIZE,
         head' \in Slot, tail' \in Slot, item' \in [Worker -> Item \cup {0}],
         reg' \in [Worker -> 0 .. BUFFER_SIZE],
         Ahead(IF to \notin {"load", "store"} THEN 0
               ELSE IF w \in Producers THEN 1 ELSE -1)',
         to \in {"item", "index", "load", "store"} =>
           IF w \in Producers THEN count' < BUFFER_SIZE ELSE count' > 0,
         to = "store" => reg'[w] = count'
  PROVE  BufferInv'
<1>1. pc'[w] = to /\ \A v \in Worker \ {w} : pc'[v] = pc[v]
  BY DEF Goto, BufferInv, TypeOK
<1>2. \A v \in Worker \ {w} : pc'[v] \notin Inside
  BY <1>1, InsideAlone
<1>3. TypeOK'
  BY DEF Goto, BufferInv, TypeOK
<1>4. LockInv'
  BY <1>1 DEF BufferInv, LockInv
<1>5. DataInv'
  BY <1>1, <1>2 DEF DataInv, NobodyInside, Ahead, Inside
<1>. QED
  BY <1>3, <1>4, <1>5 DEF BufferInv

(* monitor_exit and the mutex_unlock of cond_wait, at a point where the cursors
   agree. *)
LEMMA BufferInvLeave ==
  ASSUME BufferInv, NEW w \in Worker, pc[w] \in Inside \ {"load", "store"},
         NEW to \in (Outside \cup Blocking) \ Inside, Goto(w, to),
         SchedTypeOK', SyncTypeOK', UNCHANGED bufferVars
  PROVE  BufferInv'
<1>1. \A v \in Worker : pc'[v] \notin Inside
  BY InsideAlone DEF Goto, BufferInv, TypeOK
<1>2. TypeOK'
  BY DEF Goto, BufferInv, TypeOK, bufferVars
<1>3. LockInv'
  BY <1>1 DEF LockInv
<1>4. DataInv'
  BY <1>1 DEF BufferInv, DataInv, NobodyInside, Ahead, Inside, bufferVars
<1>. QED
  BY <1>2, <1>3, <1>4 DEF BufferInv

LEMMA BufferInvCheck ==
  ASSUME BufferInv, NEW w \in Worker, Check(w)
  PROVE  BufferInv'
<1>1. /\ pc[w] = "check" /\ pc[w] \in Inside \ {"load", "store"} /\ w \in Task
      /\ UNCHANGED bufferVars /\ SchedTypeOK /\ SyncTypeOK /\ Ahead(0)
  BY Workers DEF Check, At, Inside, BufferInv, TypeOK, DataInv
<1>2. CASE MustWait(w)
  <2>1. CondBlock(w, WaitsOn(w)) /\ Goto(w, "yield")
    BY <1>2 DEF Check
  <2>2. SchedTypeOK' /\ SyncTypeOK'
    BY <1>1, <2>1, WaitsOnType, CondBlockType
  <2>3. "yield" \in (Outside \cup Blocking) \ Inside
    BY DEF Outside, Blocking, Inside
  <2>. QED
    BY <1>1, <2>1, <2>2, <2>3, BufferInvLeave
<1>3. CASE ~MustWait(w)
  <2>1. UNCHANGED <<schedVars, syncVars>> /\ Goto(w, "item") /\ "item" \in Inside
    BY <1>3 DEF Check, Inside
  <2>2. IF w \in Producers THEN count < BUFFER_SIZE ELSE count > 0
    BY <1>3, BufferAssumption DEF MustWait, BufferInv, TypeOK
  <2>3. SchedTypeOK' /\ SyncTypeOK' /\ locked' = locked /\ owner' = owner
    BY <1>1, <2>1 DEF schedVars, syncVars, SchedTypeOK, SyncTypeOK
  <2>. QED
    BY <1>1, <2>1, <2>2, <2>3, BufferInvPass
       DEF BufferInv, TypeOK, Ahead, bufferVars
<1>. QED
  BY <1>2, <1>3

LEMMA BufferInvProduce ==
  ASSUME BufferInv, NEW w \in Worker, Produce(w)
  PROVE  BufferInv'
<1>1. /\ w \in Producers /\ SchedTypeOK' /\ SyncTypeOK'
      /\ UNCHANGED <<locked, owner, count, head, reg>>
  BY DEF Produce, BufferInv, TypeOK, schedVars, syncVars, SchedTypeOK, SyncTypeOK
<1>. TypeOK
  BY DEF BufferInv
<1>2. pc[w] \in {"item", "index"}
  BY DEF Produce, At
<1>3. count < BUFFER_SIZE /\ Ahead(0) /\ pc[w] \in Inside
  BY <1>1, <1>2 DEF BufferInv, DataInv, Inside
<1>4. CASE At(w, "item")
  <2>1. /\ buffer' = [buffer EXCEPT ![tail] = item[w]]
        /\ item' = [item EXCEPT ![w] = (@ % ItemWrap) + 1]
        /\ Goto(w, "index") /\ tail' = tail
    BY <1>4 DEF Produce, At
  <2>2. (item[w] % ItemWrap) + 1 \in Item
    BY BufferAssumption DEF TypeOK, Item
  <2>3. /\ buffer' \in [Slot -> Item \cup {0}]
        /\ item' \in [Worker -> Item \cup {0}]
    BY <2>1, <2>2 DEF TypeOK
  <2>4. "index" \in Inside
    BY DEF Inside
  <2>. QED
    BY <1>1, <1>3, <2>1, <2>3, <2>4, BufferInvPass DEF TypeOK, Ahead
<1>5. CASE At(w, "index")
  <2>1. /\ tail' = (tail + 1) % BUFFER_SIZE
        /\ Goto(w, "load") /\ buffer' = buffer /\ item' = item
    BY <1>5 DEF Produce, At
  <2>2. tail' \in Slot
    BY <2>1, BufferAssumption DEF TypeOK, Slot
  <2>3. tail' = (head + count + 1) % BUFFER_SIZE
    <3>1. /\ head \in 0 .. BUFFER_SIZE - 1 /\ tail \in 0 .. BUFFER_SIZE - 1
          /\ count \in 0 .. BUFFER_SIZE - 1
          /\ tail = (head + count) % BUFFER_SIZE
      BY <1>3, BufferAssumption DEF TypeOK, Slot, Ahead
    <3>. QED
      BY <2>1, <3>1, RingStep, BufferAssumption
  <2>4. "load" \in Inside
    BY DEF Inside
  <2>5. Ahead(1)'
    BY <1>1, <2>3 DEF Ahead
  <2>. QED
    BY <1>1, <1>3, <2>1, <2>2, <2>4, <2>5, BufferInvPass DEF TypeOK
<1>. QED
  BY <1>4, <1>5 DEF Produce

LEMMA BufferInvConsume ==
  ASSUME BufferInv, NEW w \in Worker, Consume(w)
  PROVE  BufferInv'
<1>1. /\ w \in Consumers /\ w \notin Producers /\ SchedTypeOK' /\ SyncTypeOK'
      /\ UNCHANGED <<locked, owner, count, tail, reg, buffer>>
  BY Workers
     DEF Consume, BufferInv, TypeOK, schedVars, syncVars, SchedTypeOK, SyncTypeOK
<1>. TypeOK
  BY DEF BufferInv
<1>2. pc[w] \in {"item", "index"}
  BY DEF Consume, At
<1>3. count > 0 /\ Ahead(0) /\ pc[w] \in Inside
  BY <1>1, <1>2 DEF BufferInv, DataInv, Inside
<1>4. CASE At(w, "item")
  <2>1. /\ item' = [item EXCEPT ![w] = buffer[head]]
        /\ Goto(w, "index") /\ head' = head
    BY <1>4 DEF Consume, At
  <2>2. item' \in [Worker -> Item \cup {0}]
    BY <2>1 DEF TypeOK
  <2>3. "index" \in Inside
    BY DEF Inside
  <2>. QED
    BY <1>1, <1>3, <2>1, <2>2, <2>3, BufferInvPass DEF TypeOK, Ahead
<1>5. CASE At(w, "index")
  <2>1. /\ head' = (head + 1) % BUFFER_SIZE
        /\ Goto(w, "load") /\ item' = item
    BY <1>5 DEF Consume, At
  <2>2. head' \in Slot
    BY <2>1, BufferAssumption DEF TypeOK, Slot
  <2>3. tail = (head' + count - 1) % BUFFER_SIZE
    <3>1. /\ head \in 0 .. BUFFER_SIZE - 1 /\ head' \in 0 .. BUFFER_SIZE - 1
          /\ count \in 1 .. BUFFER_SIZE
          /\ tail = (head + count) % BUFFER_SIZE
      BY <1>3, <2>2, BufferAssumption DEF TypeOK, Slot, Ahead
    <3>. QED
      BY <2>1, <3>1, RingStep, BufferAssumption, SMTT(60)
  <2>4. "load" \in Inside
    BY DEF Inside
  <2>5. Ahead(-1)'
    BY <1>1, <2>2, <2>3 DEF Ahead, TypeOK, Slot
  <2>. QED
    BY <1>1, <1>3, <2>1, <2>2, <2>4, <2>5, BufferInvPass DEF TypeOK
<1>. QED
  BY <1>4, <1>5 DEF Consume

LEMMA BufferInvCount ==
  ASSUME BufferInv, NEW w \in Worker, LoadCount(w) \/ StoreCount(w)
  PROVE  BufferInv'
<1>. TypeOK
  BY DEF BufferInv
<1>1. /\ SchedTypeOK' /\ SyncTypeOK'
      /\ UNCHANGED <<locked, owner, buffer, head, tail, item>>
  BY DEF LoadCount, StoreCount, TypeOK, schedVars, syncVars, SchedTypeOK, SyncTypeOK
<1>2. pc[w] \in {"load", "store"} /\ pc[w] \in Inside
  BY DEF LoadCount, StoreCount, At, Inside
<1>3. /\ IF w \in Producers THEN count < BUFFER_SIZE ELSE count > 0
      /\ Ahead(IF w \in Producers THEN 1 ELSE -1)
  BY <1>2 DEF BufferInv, DataInv
<1>4. CASE LoadCount(w)
  <2>1. reg' = [reg EXCEPT ![w] = count] /\ Goto(w, "store") /\ count' = count
    BY <1>4 DEF LoadCount
  <2>2. reg'[w] = count /\ reg' \in [Worker -> 0 .. BUFFER_SIZE]
    BY <2>1 DEF TypeOK
  <2>3. "store" \in Inside /\ Ahead(IF w \in Producers THEN 1 ELSE -1)'
    BY <1>1, <1>3, <2>1 DEF Inside, Ahead
  <2>. QED
    BY <1>1, <1>2, <1>3, <2>1, <2>2, <2>3, BufferInvPass DEF TypeOK
<1>5. CASE StoreCount(w)
  <2>1. /\ count' = IF w \in Producers THEN reg[w] + 1 ELSE reg[w] - 1
        /\ reg' = [reg EXCEPT ![w] = 0] /\ Goto(w, "notify") /\ reg[w] = count
    BY <1>5 DEF StoreCount, At, BufferInv, DataInv
  <2>2. count' \in 0 .. BUFFER_SIZE /\ reg' \in [Worker -> 0 .. BUFFER_SIZE]
    BY <1>3, <2>1, BufferAssumption DEF TypeOK
  <2>3. "notify" \in Inside
    BY DEF Inside
  <2>4. Ahead(0)'
    <3>1. head \in Int /\ count \in Int
      BY BufferAssumption DEF TypeOK, Slot
    <3>2. CASE w \in Producers
      BY <1>1, <1>3, <2>1, <3>1, <3>2 DEF Ahead
    <3>3. CASE w \notin Producers
      <4>1. count' = count - 1 /\ head + count + (-1) = head + count' + 0
        BY <2>1, <3>1, <3>3
      <4>. QED
        BY <1>1, <1>3, <3>3, <4>1 DEF Ahead
    <3>. QED
      BY <3>2, <3>3
  <2>. QED
    BY <1>1, <1>2, <2>1, <2>2, <2>3, <2>4, BufferInvPass DEF TypeOK
<1>. QED
  BY <1>4, <1>5

LEMMA BufferInvNotify ==
  ASSUME BufferInv, NEW w \in Worker, NotifyOther(w)
  PROVE  BufferInv'
<1>. DEFINE c == IF w \in Producers THEN NotEmpty ELSE NotFull
<1>1. /\ pc[w] = "notify" /\ CondSignal(c) /\ Goto(w, "exit") /\ UNCHANGED bufferVars
      /\ SchedTypeOK /\ SyncTypeOK
  BY DEF NotifyOther, At, BufferInv, TypeOK
<1>2. SchedTypeOK' /\ SyncTypeOK' /\ locked' = locked /\ owner' = owner
  <2>1. c \in Cond
    BY Workers
  <2>2. locked' = locked /\ owner' = owner
    BY <1>1 DEF CondSignal
  <2>. HIDE DEF c
  <2>. QED
    BY <1>1, <2>1, <2>2, SignalType
<1>3. pc[w] \in Inside /\ "exit" \in Inside /\ Ahead(0)'
  BY <1>1 DEF Inside, BufferInv, DataInv, Ahead, bufferVars
<1>. QED
  BY <1>1, <1>2, <1>3, BufferInvPass DEF BufferInv, TypeOK, bufferVars

LEMMA BufferInvExit ==
  ASSUME BufferInv, NEW w \in Worker, Exit(w)
  PROVE  BufferInv'
<1>1. /\ pc[w] = "exit" /\ MonitorExit(Buffer) /\ Goto(w, "sleep")
      /\ UNCHANGED bufferVars /\ SchedTypeOK /\ SyncTypeOK /\ Buffer \in Mutex
  BY Workers DEF Exit, At, BufferInv, TypeOK
<1>2. SchedTypeOK' /\ SyncTypeOK'
  BY <1>1, UnlockType DEF MonitorExit, SchedTypeOK, SyncTypeOK
<1>3. pc[w] \in Inside \ {"load", "store"} /\ "sleep" \in (Outside \cup Blocking) \ Inside
  BY <1>1 DEF Outside, Blocking, Inside
<1>. QED
  BY <1>1, <1>2, <1>3, BufferInvLeave

LEMMA BufferInvNext == BufferInv /\ [Next]_vars => BufferInv'
<1>. SUFFICES ASSUME BufferInv, [Next]_vars PROVE BufferInv'
  OBVIOUS
<1>1. CASE TimerIrq
  <2>1. SchedTypeOK' /\ UNCHANGED <<syncVars, pc, bufferVars>>
    BY <1>1, TimerType DEF TimerIrq, BufferInv, TypeOK, SchedTypeOK
  <2>2. TypeOK'
    BY <2>1 DEF BufferInv, TypeOK, SyncTypeOK, syncVars, bufferVars
  <2>. QED
    BY <2>1, <2>2
       DEF BufferInv, LockInv, DataInv, NobodyInside, Ahead, syncVars, bufferVars
<1>2. CASE UNCHANGED vars
  BY <1>2 DEF vars, schedVars, syncVars, bufferVars, BufferInv, TypeOK, SchedTypeOK,
              SyncTypeOK, LockInv, DataInv, NobodyInside, Ahead
<1>3. ASSUME NEW w \in Worker, Step(w) PROVE BufferInv'
  BY <1>3, BufferInvInert, BufferInvLock, BufferInvCheck, BufferInvProduce,
     BufferInvConsume, BufferInvCount, BufferInvNotify, BufferInvExit
     DEF Step, Inert
<1>. QED
  BY <1>1, <1>2, <1>3 DEF Next

(* main.c: at most one task is inside buffer_monitor, and count, head and tail stay
   in range and agree whenever nobody is, for every BUFFER_SIZE and any number of
   producers and consumers. *)
THEOREM CursorsAlwaysAgree == Spec => []CursorsAgree
<1>1. BufferInv => CursorsAgree
  <2>1. ASSUME BufferInv, NobodyInside PROVE tail = (head + count) % BUFFER_SIZE
    <3>1. Ahead(0) /\ head + count + 0 = head + count
      BY <2>1, BufferAssumption DEF BufferInv, DataInv, TypeOK, Slot
    <3>. QED
      BY <3>1 DEF Ahead
  <2>2. ASSUME BufferInv, NEW v \in Worker, NEW w \in Worker,
               pc[v] \in Inside, pc[w] \in Inside
        PROVE  v = w
    BY <2>2 DEF BufferInv, LockInv
  <2>. QED
    BY <2>1, <2>2 DEF BufferInv, CursorsAgree
<1>. QED
  BY BufferInvInit, BufferInvNext, <1>1, PTL DEF Spec

-----------------------------------------------------------------------------
(* The refinement of Channel.  How long the channel is and where it begins. *)
Held  == IF ReadUncounted THEN count - 1 ELSE count
First == IF ReadUnadvanced THEN head + 1 ELSE head

LEMMA RingSlice ==
  ASSUME NEW b \in [Slot -> Item \cup {0}],
         NEW first \in 0 .. BUFFER_SIZE, NEW held \in 0 .. BUFFER_SIZE
  PROVE  LET s == [k \in 1 .. held |-> b[(first + k - 1) % BUFFER_SIZE]]
         IN  /\ s \in Seq(Item \cup {0}) /\ Len(s) = held
             /\ \A k \in 1 .. held : (first + k - 1) % BUFFER_SIZE \in Slot
<1>. DEFINE s == [k \in 1 .. held |-> b[(first + k - 1) % BUFFER_SIZE]]
<1>1. BUFFER_SIZE \in Nat \ {0}
  BY BufferAssumption
<1>2. \A k \in 1 .. held : (first + k - 1) % BUFFER_SIZE \in Slot
  BY <1>1 DEF Slot
<1>3. s \in [1 .. held -> Item \cup {0}]
  BY <1>2
<1>. HIDE DEF s
<1>4. s \in Seq(Item \cup {0}) /\ Len(s) = held
  BY <1>1, <1>3
<1>. QED
  BY <1>2, <1>4 DEF s

LEMMA ContentsShape ==
  ASSUME BufferInv
  PROVE  /\ Held \in 0 .. BUFFER_SIZE /\ First \in 0 .. BUFFER_SIZE
         /\ ReadUncounted => Held < BUFFER_SIZE
         /\ Contents = [k \in 1 .. Held |-> buffer[(First + k - 1) % BUFFER_SIZE]]
         /\ \A k \in 1 .. Held : (First + k - 1) % BUFFER_SIZE \in Slot
         /\ Contents \in Seq(Item \cup {0}) /\ Len(Contents) = Held
<1>1. /\ count \in 0 .. BUFFER_SIZE /\ head \in 0 .. BUFFER_SIZE - 1
      /\ BUFFER_SIZE \in Nat \ {0} /\ buffer \in [Slot -> Item \cup {0}]
  BY BufferAssumption DEF BufferInv, TypeOK, Slot
<1>2. ReadUncounted => count > 0
  <2>1. \A c \in Consumers : c \in Worker /\ c \notin Producers
    BY Workers DEF Worker
  <2>. QED
    BY <2>1 DEF ReadUncounted, BufferInv, DataInv
<1>3. Held \in 0 .. BUFFER_SIZE /\ (ReadUncounted => Held < BUFFER_SIZE)
  BY <1>1, <1>2 DEF Held
<1>4. First \in 0 .. BUFFER_SIZE
  BY <1>1 DEF First
<1>5. Contents = [k \in 1 .. Held |-> buffer[(First + k - 1) % BUFFER_SIZE]]
  BY DEF Contents, Held, First
<1>6. /\ Contents \in Seq(Item \cup {0}) /\ Len(Contents) = Held
      /\ \A k \in 1 .. Held : (First + k - 1) % BUFFER_SIZE \in Slot
  BY <1>1, <1>3, <1>4, <1>5, RingSlice, ZenonT(60)
<1>. QED
  BY <1>3, <1>4, <1>5, <1>6

(* Whose passes the mapping looks at: only a consumer between its read and its
   count-- matters. *)
LEMMA ReadsFrame ==
  ASSUME BufferInv, NEW w \in Worker, NEW to, Goto(w, to),
         \/ w \in Producers
         \/ /\ pc[w] \in {"index", "load", "store"} <=> to \in {"index", "load", "store"}
            /\ pc[w] = "index" <=> to = "index"
  PROVE  ReadUncounted' = ReadUncounted /\ ReadUnadvanced' = ReadUnadvanced
<1>1. pc'[w] = to /\ \A v \in Worker \ {w} : pc'[v] = pc[v]
  BY DEF Goto, BufferInv, TypeOK
<1>2. \A c \in Consumers : c \in Worker /\ c \notin Producers
  BY Workers DEF Worker
<1>. QED
  BY <1>1, <1>2 DEF ReadUncounted, ReadUnadvanced

(* When the task inside is a consumer, it is the one the mapping looks at. *)
LEMMA ReadsInside ==
  ASSUME BufferInv, NEW w \in Consumers, pc[w] \in Inside
  PROVE  /\ ReadUncounted <=> pc[w] \in {"index", "load", "store"}
         /\ ReadUnadvanced <=> pc[w] = "index"
<1>1. w \in Worker /\ \A c \in Consumers : c \in Worker
  BY DEF Worker
<1>2. \A c \in Consumers \ {w} : pc[c] \notin Inside
  BY <1>1, InsideAlone
<1>. QED
  BY <1>2 DEF ReadUncounted, ReadUnadvanced, Inside

Got == [c \in Consumers |-> item[c]]

LEMMA SameContents ==
  ASSUME BufferInv, BufferInv', Held' = Held,
         \A k \in 1 .. Held : buffer'[(First' + k - 1) % BUFFER_SIZE] =
                                buffer[(First + k - 1) % BUFFER_SIZE]
  PROVE  Contents' = Contents
<1>1. Contents = [k \in 1 .. Held |-> buffer[(First + k - 1) % BUFFER_SIZE]]
  BY ContentsShape
<1>2. Contents' = [k \in 1 .. Held' |-> buffer'[(First' + k - 1) % BUFFER_SIZE]]
  BY DEF Contents, Held, First
<1>. QED
  BY <1>1, <1>2

(* Steps that touch neither the buffer nor the point of a read. *)
LEMMA ChannelUntouched ==
  ASSUME BufferInv, BufferInv', NEW w \in Worker, NEW to, Goto(w, to),
         UNCHANGED <<buffer, count, head, item>>,
         \/ w \in Producers
         \/ /\ pc[w] \in {"index", "load", "store"} <=> to \in {"index", "load", "store"}
            /\ pc[w] = "index" <=> to = "index"
  PROVE  UNCHANGED Chan!vars
<1>1. Held' = Held /\ First' = First
  BY ReadsFrame DEF Held, First
<1>2. Contents' = Contents
  BY <1>1, SameContents
<1>. QED
  BY <1>2 DEF Chan!vars

LEMMA ChannelProduce ==
  ASSUME BufferInv, BufferInv', NEW w \in Worker, Produce(w)
  PROVE  UNCHANGED Chan!vars
<1>. TypeOK
  BY DEF BufferInv
<1>1. w \in Producers /\ count' = count /\ head' = head
  BY DEF Produce
<1>2. CASE At(w, "item")
  <2>1. /\ buffer' = [buffer EXCEPT ![tail] = item[w]] /\ Goto(w, "index")
        /\ item' = [item EXCEPT ![w] = (@ % ItemWrap) + 1]
    BY <1>2 DEF Produce, At
  <2>2. Held' = Held /\ First' = First
    BY <1>1, <2>1, ReadsFrame DEF Held, First
  <2>3. ~ReadUncounted /\ ~ReadUnadvanced /\ count < BUFFER_SIZE /\ Ahead(0)
    <3>1. pc[w] = "item" /\ pc[w] \in Inside
      BY <1>2 DEF At, Inside
    <3>2. \A c \in Consumers : c \in Worker /\ c # w
      BY <1>1, Workers DEF Worker
    <3>3. \A c \in Consumers : pc[c] \notin Inside
      BY <3>1, <3>2, InsideAlone
    <3>. QED
      BY <1>1, <3>1, <3>3
         DEF ReadUncounted, ReadUnadvanced, Inside, BufferInv, DataInv
  <2>4. ASSUME NEW k \in 1 .. Held
        PROVE  buffer'[(First' + k - 1) % BUFFER_SIZE] =
                 buffer[(First + k - 1) % BUFFER_SIZE]
    <3>1. /\ head \in 0 .. BUFFER_SIZE - 1 /\ count \in 0 .. BUFFER_SIZE - 1
          /\ First = head /\ Held = count
          /\ tail = (head + count) % BUFFER_SIZE
      BY <2>3, BufferAssumption DEF TypeOK, Slot, Held, First, Ahead
    <3>2. (First + k - 1) % BUFFER_SIZE # tail
      BY <2>4, <3>1, RingStep, BufferAssumption
    <3>3. (First + k - 1) % BUFFER_SIZE \in Slot
      BY <2>4, ContentsShape
    <3>. QED
      BY <2>1, <2>2, <3>2, <3>3 DEF TypeOK
  <2>5. Contents' = Contents
    BY <2>2, <2>4, SameContents
  <2>6. Got' = Got
    <3>1. \A c \in Consumers : c \in Worker /\ c # w
      BY <1>1, Workers DEF Worker
    <3>2. \A c \in Consumers : item'[c] = item[c]
      BY <2>1, <3>1 DEF TypeOK
    <3>. QED
      BY <3>2 DEF Got
  <2>. QED
    BY <2>5, <2>6 DEF Chan!vars, Got
<1>3. CASE At(w, "index")
  BY <1>1, <1>3, ChannelUntouched DEF Produce, At
<1>. QED
  BY <1>2, <1>3 DEF Produce

(* item = buffer[head] is the receive; head = (head + 1) % BUFFER_SIZE is seen by
   nobody. *)
LEMMA ChannelConsume ==
  ASSUME BufferInv, BufferInv', NEW w \in Worker, Consume(w)
  PROVE  Chan!Receive \/ UNCHANGED Chan!vars
<1>. TypeOK
  BY DEF BufferInv
<1>1. /\ w \in Consumers /\ w \notin Producers
      /\ UNCHANGED <<buffer, count, tail>> /\ pc[w] \in {"item", "index"}
  BY Workers DEF Consume, At
<1>2. /\ ReadUncounted <=> pc[w] = "index"
      /\ ReadUnadvanced <=> pc[w] = "index"
  BY <1>1, ReadsInside DEF Inside
<1>3. /\ head \in 0 .. BUFFER_SIZE - 1 /\ count \in 1 .. BUFFER_SIZE
      /\ BUFFER_SIZE \in Nat \ {0}
  BY <1>1, BufferAssumption DEF BufferInv, TypeOK, DataInv, Slot
<1>4. CASE At(w, "item")
  <2>1. item' = [item EXCEPT ![w] = buffer[head]] /\ Goto(w, "index") /\ head' = head
    BY <1>4 DEF Consume, At
  <2>2. Held = count /\ First = head
    BY <1>2, <1>4 DEF Held, First, At
  <2>3. Held' = count - 1 /\ First' = head + 1
    <3>1. pc'[w] = "index"
      BY <2>1 DEF Goto, TypeOK
    <3>. QED
      BY <1>1, <2>1, <3>1 DEF Held, First, ReadUncounted, ReadUnadvanced
  <2>4. /\ Contents \in Seq(Item \cup {0}) /\ Len(Contents) = count
        /\ Contents = [k \in 1 .. count |-> buffer[(head + k - 1) % BUFFER_SIZE]]
    BY <2>2, ContentsShape
  <2>5. Contents # <<>> /\ Head(Contents) = buffer[head]
    <3>1. Contents # <<>> /\ Head(Contents) = Contents[1]
      BY <1>3, <2>4, EmptySeq
    <3>2. (head + 1 - 1) % BUFFER_SIZE = head
      BY <1>3, RingStep
    <3>3. Contents[1] = buffer[(head + 1 - 1) % BUFFER_SIZE]
      BY <1>3, <2>4
    <3>. QED
      BY <3>1, <3>2, <3>3
  <2>6. Contents' = Tail(Contents)
    <3>1. /\ Contents' \in Seq(Item \cup {0}) /\ Len(Contents') = count - 1
          /\ Contents' = [k \in 1 .. count - 1 |->
                            buffer[(head + 1 + k - 1) % BUFFER_SIZE]]
      <4>1. Contents' = [k \in 1 .. Held' |-> buffer'[(First' + k - 1) % BUFFER_SIZE]]
        BY DEF Contents, Held, First
      <4>. HIDE DEF Held, First
      <4>2. Contents' = [k \in 1 .. count - 1 |->
                            buffer[(head + 1 + k - 1) % BUFFER_SIZE]]
        BY <1>1, <2>3, <4>1
      <4>3. /\ buffer \in [Slot -> Item \cup {0}]
            /\ head + 1 \in 0 .. BUFFER_SIZE /\ count - 1 \in 0 .. BUFFER_SIZE
        BY <1>3 DEF TypeOK
      <4>. QED
        BY <4>2, <4>3, RingSlice
    <3>2. /\ Tail(Contents) \in Seq(Item \cup {0}) /\ Len(Tail(Contents)) = count - 1
          /\ \A k \in 1 .. count - 1 : Tail(Contents)[k] = Contents[k + 1]
      BY <1>3, <2>4, <2>5, SMTT(60)
    <3>3. \A k \in 1 .. count - 1 : Contents'[k] = Tail(Contents)[k]
      <4>. TAKE k \in 1 .. count - 1
      <4>1. head + (k + 1) - 1 = head + 1 + k - 1 /\ k + 1 \in 1 .. count
        BY <1>3
      <4>2. Contents[k + 1] = buffer[(head + (k + 1) - 1) % BUFFER_SIZE]
        BY <2>4, <4>1
      <4>3. Contents'[k] = buffer[(head + 1 + k - 1) % BUFFER_SIZE]
        BY <3>1
      <4>. QED
        BY <3>2, <4>1, <4>2, <4>3
    <3>. QED
      BY <3>1, <3>2, <3>3, SeqEqual
  <2>7. Got' = [Got EXCEPT ![w] = Head(Contents)]
    <3>1. \A c \in Consumers : c \in Worker
      BY DEF Worker
    <3>. QED
      BY <1>1, <2>1, <2>5, <3>1 DEF Got, TypeOK
  <2>. QED
    BY <1>1, <2>5, <2>6, <2>7 DEF Chan!Receive, Got
<1>5. CASE At(w, "index")
  <2>1. head' = (head + 1) % BUFFER_SIZE /\ Goto(w, "load") /\ item' = item
    BY <1>5 DEF Consume, At
  <2>2. Held = count - 1 /\ First = head + 1
    BY <1>2, <1>5 DEF Held, First, At
  <2>3. pc'[w] = "load" /\ w \in Consumers /\ BufferInv'
    BY <1>1, <2>1 DEF Goto, TypeOK
  <2>4. ReadUncounted' /\ ~ReadUnadvanced'
    <3>1. \A v \in Consumers \ {w} : pc'[v] = pc[v] /\ pc[v] \notin Inside
      <4>1. pc[w] \in Inside /\ \A v \in Consumers : v \in Worker
        BY <1>1 DEF Inside, Worker
      <4>. QED
        BY <2>1, <4>1, InsideAlone DEF Goto, TypeOK
    <3>. QED
      BY <2>3, <3>1 DEF ReadUncounted, ReadUnadvanced, Inside
  <2>5. Held' = count - 1 /\ First' = (head + 1) % BUFFER_SIZE
    BY <1>1, <2>1, <2>4 DEF Held, First
  <2>6. ASSUME NEW k \in 1 .. Held
        PROVE  buffer'[(First' + k - 1) % BUFFER_SIZE] =
                 buffer[(First + k - 1) % BUFFER_SIZE]
    <3>1. (((head + 1) % BUFFER_SIZE) + k - 1) % BUFFER_SIZE =
            (head + 1 + k - 1) % BUFFER_SIZE
      BY <1>3, <2>2, <2>6, RingStep
    <3>. QED
      BY <1>1, <2>2, <2>5, <3>1
  <2>7. Contents' = Contents
    BY <2>2, <2>5, <2>6, SameContents
  <2>. QED
    BY <2>1, <2>7 DEF Chan!vars
<1>. QED
  BY <1>4, <1>5 DEF Consume

(* What is sent is an item: the slot the next count++ puts in the channel has
   been written, by the producer that is about to store count. *)
WrittenInv ==
  \A w \in Producers :
    /\ item[w] \in Item
    /\ pc[w] \in {"index", "load", "store"} =>
         buffer[(head + count) % BUFFER_SIZE] \in Item

(* A step that leaves the data alone and starts no producer's pass. *)
Passive(w) ==
  Inert(w) \/ Lock(w) \/ Check(w) \/ NotifyOther(w) \/ Exit(w)

LEMMA PassiveMoves ==
  ASSUME BufferInv, NEW w \in Worker, Passive(w)
  PROVE  /\ UNCHANGED bufferVars
         /\ \E to \in (Outside \cup Blocking \cup Inside) \ {"index", "load", "store"} :
              Goto(w, to)
         /\ pc[w] \notin {"index", "load", "store"}
<1>1. CASE Inert(w)
  BY <1>1 DEF Inert, Sleep, SetSleeping, YieldAsleep, YieldInWait, At, Outside, Blocking
<1>2. CASE Lock(w)
  BY <1>2 DEF Lock, Inside, Blocking
<1>3. CASE Check(w) \/ NotifyOther(w) \/ Exit(w)
  BY <1>3 DEF Check, NotifyOther, Exit, At, Inside, Outside, Blocking
<1>. QED
  BY <1>1, <1>2, <1>3 DEF Passive

LEMMA WrittenInvNext == BufferInv /\ WrittenInv /\ [Next]_vars => WrittenInv'
<1>. SUFFICES ASSUME BufferInv, WrittenInv, [Next]_vars PROVE WrittenInv'
  OBVIOUS
<1>. TypeOK /\ (\A v \in Producers : v \in Worker)
  BY DEF BufferInv, Worker
<1>1. CASE TimerIrq \/ UNCHANGED vars
  BY <1>1 DEF TimerIrq, vars, bufferVars, WrittenInv
<1>2. ASSUME NEW w \in Worker, Step(w) PROVE WrittenInv'
  <2>1. CASE Passive(w)
    <3>1. /\ UNCHANGED bufferVars
          /\ \A v \in Producers : pc'[v] \in {"index", "load", "store"} => pc'[v] = pc[v]
      BY <2>1, PassiveMoves DEF Goto, TypeOK
    <3>. QED
      BY <3>1 DEF WrittenInv, bufferVars
  <2>2. CASE Produce(w)
    <3>1. w \in Producers /\ count' = count /\ head' = head
      BY <2>2 DEF Produce
    <3>2. pc[w] \in {"item", "index"} /\ pc[w] \in Inside
      BY <2>2 DEF Produce, At, Inside
    <3>3. \A v \in Producers \ {w} : pc'[v] = pc[v] /\ pc[v] \notin Inside
      BY <2>2, <3>2, InsideAlone DEF Produce, Goto, TypeOK
    <3>4. CASE At(w, "item")
      <4>1. /\ buffer' = [buffer EXCEPT ![tail] = item[w]]
            /\ item' = [item EXCEPT ![w] = (@ % ItemWrap) + 1]
        BY <2>2, <3>4 DEF Produce, At
      <4>2. (item[w] % ItemWrap) + 1 \in Item
        BY BufferAssumption DEF TypeOK, Item
      <4>3. tail = (head + count) % BUFFER_SIZE
        <5>1. Ahead(0) /\ head + count + 0 = head + count
          BY <3>2, <3>4, BufferAssumption, SMTT(60)
             DEF At, BufferInv, DataInv, TypeOK, Slot
        <5>. QED
          BY <5>1 DEF Ahead
      <4>4. buffer'[(head' + count') % BUFFER_SIZE] \in Item
        BY <3>1, <4>1, <4>3 DEF WrittenInv, TypeOK
      <4>. QED
        BY <3>1, <3>3, <4>1, <4>2, <4>4 DEF WrittenInv, TypeOK
    <3>5. CASE At(w, "index")
      BY <2>2, <3>1, <3>3, <3>5 DEF Produce, At, WrittenInv
    <3>. QED
      BY <2>2, <3>4, <3>5 DEF Produce
  <2>3. CASE Consume(w) \/ LoadCount(w) \/ StoreCount(w)
    <3>1. pc[w] \in Inside /\ buffer' = buffer
      BY <2>3 DEF Consume, LoadCount, StoreCount, At, Inside
    <3>2. \A v \in Producers \ {w} : pc'[v] = pc[v] /\ pc[v] \notin Inside
      BY <2>3, <3>1, InsideAlone DEF Consume, LoadCount, StoreCount, Goto, TypeOK
    <3>3. \A v \in Producers : item'[v] = item[v]
      BY <2>3, Workers DEF Consume, LoadCount, StoreCount, TypeOK
    <3>4. w \in Producers /\ pc'[w] \in {"index", "load", "store"} =>
            /\ pc[w] \in {"index", "load", "store"}
            /\ head' = head /\ count' = count
      BY <2>3, Workers DEF Consume, LoadCount, StoreCount, At, Goto, TypeOK
    <3>. QED
      BY <3>1, <3>2, <3>3, <3>4 DEF WrittenInv, Inside
  <2>. QED
    BY <1>2, <2>1, <2>2, <2>3 DEF Step, Passive, Inert
<1>. QED
  BY <1>1, <1>2 DEF Next

(* count++ is the send, count-- is seen by nobody. *)
LEMMA ChannelStore ==
  ASSUME BufferInv, BufferInv', WrittenInv, NEW w \in Worker, StoreCount(w)
  PROVE  Chan!Send \/ UNCHANGED Chan!vars
<1>. TypeOK
  BY DEF BufferInv
<1>1. /\ pc[w] = "store" /\ reg[w] = count /\ Goto(w, "notify")
      /\ UNCHANGED <<buffer, head, item>> /\ pc[w] \in Inside
  BY DEF StoreCount, At, BufferInv, DataInv, Inside
<1>2. \A c \in Consumers : c \in Worker /\ c \notin Producers
  BY Workers DEF Worker
<1>3. \A v \in Worker \ {w} : pc[v] \notin Inside /\ pc'[v] = pc[v]
  BY <1>1, InsideAlone DEF Goto, TypeOK
<1>4. pc'[w] = "notify"
  BY <1>1 DEF Goto, TypeOK
<1>5. ~ReadUncounted' /\ ~ReadUnadvanced' /\ ~ReadUnadvanced
  BY <1>1, <1>2, <1>3, <1>4 DEF ReadUncounted, ReadUnadvanced, Inside
<1>6. First' = First /\ First = head /\ Held' = count' /\ Got' = Got
  BY <1>1, <1>5 DEF First, Held, Got
<1>7. CASE w \in Producers
  <2>1. count' = count + 1 /\ count \in 0 .. BUFFER_SIZE - 1
    BY <1>1, <1>7, BufferAssumption
       DEF StoreCount, BufferInv, DataInv, TypeOK
  <2>2. Held = count
    BY <1>2, <1>3, <1>7 DEF ReadUncounted, Inside, Held
  <2>. DEFINE x == buffer[(head + count) % BUFFER_SIZE]
  <2>3. x \in Item
    BY <1>1, <1>7 DEF WrittenInv
  <2>4. /\ Contents \in Seq(Item \cup {0}) /\ Len(Contents) = count
        /\ Contents = [k \in 1 .. count |-> buffer[(head + k - 1) % BUFFER_SIZE]]
    BY <1>6, <2>2, ContentsShape
  <2>5. /\ Contents' = [k \in 1 .. count + 1 |-> buffer[(head + k - 1) % BUFFER_SIZE]]
        /\ Contents' \in Seq(Item \cup {0}) /\ Len(Contents') = count + 1
    <3>1. Contents' = [k \in 1 .. Held' |-> buffer'[(First' + k - 1) % BUFFER_SIZE]]
      BY DEF Contents, Held, First
    <3>2. Contents' = [k \in 1 .. count + 1 |-> buffer[(head + k - 1) % BUFFER_SIZE]]
      BY <1>1, <1>6, <2>1, <3>1
    <3>3. /\ buffer \in [Slot -> Item \cup {0}] /\ count + 1 \in 0 .. BUFFER_SIZE
          /\ head \in 0 .. BUFFER_SIZE
      BY <2>1, BufferAssumption DEF TypeOK, Slot
    <3>. QED
      BY <3>2, <3>3, RingSlice, ZenonT(60)
  <2>. HIDE DEF x
  <2>6. /\ Append(Contents, x) \in Seq(Item \cup {0})
        /\ Len(Append(Contents, x)) = count + 1
        /\ Append(Contents, x)[count + 1] = x
        /\ \A k \in 1 .. count : Append(Contents, x)[k] = Contents[k]
    <3>1. Contents \in Seq(Item \cup {0}) /\ x \in Item \cup {0} /\ Len(Contents) = count
      BY <2>3, <2>4
    <3>. QED
      BY <3>1, AppendProperties
  <2>7. \A k \in 1 .. count + 1 : Contents'[k] = Append(Contents, x)[k]
    <3>1. ASSUME NEW k \in 1 .. count
          PROVE  Contents'[k] = Append(Contents, x)[k]
      <4>1. Contents[k] = buffer[(head + k - 1) % BUFFER_SIZE]
        BY <2>4
      <4>2. Contents'[k] = buffer[(head + k - 1) % BUFFER_SIZE]
        BY <2>1, <2>5
      <4>. QED
        BY <2>6, <4>1, <4>2
    <3>2. Contents'[count + 1] = x
      <4>1. head + (count + 1) - 1 = head + count
        BY <2>1, BufferAssumption DEF TypeOK, Slot
      <4>2. Contents'[count + 1] = buffer[(head + (count + 1) - 1) % BUFFER_SIZE]
        BY <2>1, <2>5
      <4>. QED
        BY <4>1, <4>2 DEF x
    <3>. QED
      BY <2>1, <2>6, <3>1, <3>2
  <2>8. Contents' = Append(Contents, x)
    BY <2>5, <2>6, <2>7, SeqEqual
  <2>9. Len(Contents) < BUFFER_SIZE
    BY <2>1, <2>4, BufferAssumption
  <2>. QED
    BY <1>6, <2>3, <2>8, <2>9 DEF Chan!Send, Got
<1>8. CASE w \notin Producers
  <2>1. count' = count - 1 /\ ReadUncounted
    <3>1. w \in Consumers
      BY <1>8 DEF Worker
    <3>. QED
      BY <1>1, <1>8, <3>1 DEF StoreCount, ReadUncounted
  <2>2. Held' = Held
    BY <1>6, <2>1 DEF Held
  <2>3. Contents' = Contents
    BY <1>1, <1>6, <2>2, SameContents
  <2>. QED
    BY <1>6, <2>3 DEF Chan!vars, Got
<1>. QED
  BY <1>7, <1>8

LEMMA ChannelNext ==
  BufferInv /\ BufferInv' /\ WrittenInv /\ [Next]_vars => [Chan!Next]_(Chan!vars)
<1>. SUFFICES ASSUME BufferInv, BufferInv', WrittenInv, [Next]_vars
              PROVE  Chan!Next \/ UNCHANGED Chan!vars
  OBVIOUS
<1>1. CASE TimerIrq \/ UNCHANGED vars
  BY <1>1 DEF TimerIrq, vars, bufferVars, Chan!vars, Contents, ReadUncounted,
              ReadUnadvanced
<1>2. ASSUME NEW w \in Worker, Step(w) PROVE Chan!Next \/ UNCHANGED Chan!vars
  <2>1. CASE Passive(w)
    <3>1. PICK to \in (Outside \cup Blocking \cup Inside) \ {"index", "load", "store"} :
            Goto(w, to)
      BY <2>1, PassiveMoves
    <3>2. UNCHANGED bufferVars /\ pc[w] \notin {"index", "load", "store"}
      BY <2>1, PassiveMoves
    <3>. QED
      BY <3>1, <3>2, ChannelUntouched DEF bufferVars
  <2>2. CASE LoadCount(w)
    BY <2>2, ChannelUntouched DEF LoadCount, At
  <2>3. CASE Produce(w)
    BY <2>3, ChannelProduce
  <2>4. CASE Consume(w)
    BY <2>4, ChannelConsume DEF Chan!Next
  <2>5. CASE StoreCount(w)
    BY <2>5, ChannelStore DEF Chan!Next
  <2>. QED
    BY <1>2, <2>1, <2>2, <2>3, <2>4, <2>5 DEF Step, Passive, Inert
<1>. QED
  BY <1>1, <1>2 DEF Next

(* main.c: the ring buffer is a FIFO channel for every BUFFER_SIZE, whoever
   produces, consumes and is preempted: no item is lost, duplicated, overwritten
   or overtaken. *)
THEOREM BufferIsAChannel == Spec => ImplementsChannel
<1>1. Init => Chan!Init
  <2>. SUFFICES ASSUME Init PROVE Chan!Init
    OBVIOUS
  <2>1. BufferInv /\ \A c \in Consumers : item[c] = 0 /\ pc[c] = "sleep"
    BY BufferInvInit, Workers DEF Init, Worker
  <2>2. Held = 0
    BY <2>1 DEF Init, Held, ReadUncounted
  <2>3. Contents = <<>>
    BY <2>1, <2>2, ContentsShape, EmptySeq
  <2>. QED
    BY <2>1, <2>3 DEF Chan!Init
<1>2. Init => WrittenInv
  BY BufferAssumption DEF Init, WrittenInv, Worker, Item
<1>. QED
  BY BufferInvInit, BufferInvNext, WrittenInvNext, ChannelNext, <1>1, <1>2, PTL
     DEF Spec, ImplementsChannel, Chan!Spec
-----------------------------------------------------------------------------
(* Nobody waits in vain.  Who can be in which queue: as in Monitor, the task on
   the CPU is in none. *)
WaitersInv ==
  /\ QueuesApart
  /\ Runnable(state, Idle)
  /\ \/ state[running] = "RUNNING"
     \/ running \in Worker /\ pc[running] \in {"yield", "asleep"}
  /\ \A t \in Task : \A m \in Mutex :
       t \in MutexQueue(m) => t \in Worker /\ state[t] = "BLOCKED" /\ pc[t] = "retry"
  /\ \A t \in Task : \A c \in Cond :
       t \in CondQueue(c) => /\ t \in Worker /\ state[t] = "BLOCKED"
                             /\ pc[t] \in {"yield", "relock"} /\ c = WaitsOn(t)

LEMMA RunnerRuns ==
  ASSUME WaitersInv, NEW w \in Worker, running = w, pc[w] \notin {"yield", "asleep"}
  PROVE  Unqueued(w) /\ state[w] = "RUNNING" /\ w \in Task \ {Idle}
BY Workers DEF WaitersInv, Unqueued

(* The steps that leave the queues alone. *)
LEMMA WaitersInvFrame ==
  ASSUME WaitersInv, UNCHANGED <<mutexWaiters, condWaiters, waitNext>>,
         Runnable(state', Idle),
         \/ state'[running'] = "RUNNING"
         \/ running' \in Worker /\ pc'[running'] \in {"yield", "asleep"},
         \A w \in Worker : state[w] = "BLOCKED" /\ pc[w] \in Blocking =>
           /\ state'[w] = "BLOCKED"
           /\ pc'[w] = pc[w] \/ (pc[w] = "yield" /\ pc'[w] = "relock")
  PROVE  WaitersInv'
<1>1. /\ \A m \in Mutex : MutexQueue(m)' = MutexQueue(m)
      /\ \A c \in Cond : CondQueue(c)' = CondQueue(c)
  BY DEF MutexQueue, CondQueue
<1>2. QueuesApart'
  BY <1>1 DEF WaitersInv, QueuesApart
<1>3. ASSUME NEW t \in Task, NEW m \in Mutex, t \in MutexQueue(m)'
      PROVE  t \in Worker /\ state'[t] = "BLOCKED" /\ pc'[t] = "retry"
  BY <1>1, <1>3 DEF WaitersInv, Blocking
<1>4. ASSUME NEW t \in Task, NEW c \in Cond, t \in CondQueue(c)'
      PROVE  /\ t \in Worker /\ state'[t] = "BLOCKED"
             /\ pc'[t] \in {"yield", "relock"} /\ c = WaitsOn(t)
  BY <1>1, <1>4 DEF WaitersInv, Blocking
<1>. QED
  BY <1>2, <1>3, <1>4 DEF WaitersInv, WaitsOn

LEMMA WaitersInvTimer ==
  ASSUME TypeOK, WaitersInv, timer_callback(state), UNCHANGED syncVars,
         \/ pc' = pc
         \/ \E w \in Worker : \/ pc[w] = "yield" /\ Goto(w, "relock")
                              \/ pc[w] = "asleep" /\ Goto(w, "enter")
  PROVE  WaitersInv'
<1>1. /\ state'[running'] = "RUNNING"
      /\ \A t \in Task : state'[t] = "BLOCKED" <=> state[t] = "BLOCKED"
      /\ Runnable(state', Idle)
  BY TimerKeeps, NAssumption DEF TypeOK, SchedTypeOK, WaitersInv, Task, Idle
<1>2. \A w \in Worker : pc[w] \in Blocking =>
        pc'[w] = pc[w] \/ (pc[w] = "yield" /\ pc'[w] = "relock")
  BY DEF TypeOK, Goto, Blocking
<1>. QED
  BY <1>1, <1>2, Workers, WaitersInvFrame DEF syncVars

(* A step of a task that runs, without a call of the scheduler, and stays
   runnable or falls asleep. *)
LEMMA WaitersInvOwn ==
  ASSUME TypeOK, WaitersInv, NEW w \in Worker, running = w, running' = w,
         pc[w] \notin {"yield", "asleep"}, NEW to, Goto(w, to),
         UNCHANGED <<mutexWaiters, condWaiters, waitNext>>,
         \/ state' = state
         \/ to = "asleep" /\ state' = [state EXCEPT ![w] = "SLEEPING"]
  PROVE  WaitersInv'
<1>1. state[w] = "RUNNING" /\ w \in Task \ {Idle}
  BY RunnerRuns
<1>2. pc'[w] = to /\ \A v \in Worker \ {w} : pc'[v] = pc[v]
  BY DEF Goto, TypeOK
<1>3. \A v \in Task \ {w} : state'[v] = state[v]
  BY <1>1 DEF TypeOK, SchedTypeOK
<1>4. state'[w] = "RUNNING" \/ to = "asleep"
  BY <1>1
<1>5. Idle \in Task
  BY NAssumption DEF Task, Idle
<1>6. Runnable(state', Idle)
  BY <1>1, <1>3, <1>5 DEF WaitersInv, Runnable
<1>. QED
  BY <1>1, <1>2, <1>3, <1>4, <1>6, Workers, WaitersInvFrame

LEMMA WaitersInvLock ==
  ASSUME TypeOK, WaitersInv, NEW w \in Worker, Lock(w)
  PROVE  WaitersInv'
<1>1. /\ running = w /\ pc[w] \notin {"yield", "asleep"} /\ Buffer \in Mutex
  BY Workers DEF Lock
<1>2. Unqueued(w) /\ state[w] = "RUNNING" /\ w \in Task \ {Idle}
  BY <1>1, RunnerRuns
<1>3. CASE MutexTake(w, Buffer) /\ Goto(w, "check")
  BY <1>1, <1>3, WaitersInvOwn DEF MutexTake, schedVars
<1>4. CASE MutexWait(w, Buffer) /\ Goto(w, "retry")
  <2>1. pc'[w] = "retry" /\ \A v \in Worker \ {w} : pc'[v] = pc[v]
    BY <1>4 DEF Goto, TypeOK
  <2>2. /\ QueuesApart'
        /\ MutexQueue(Buffer)' = MutexQueue(Buffer) \cup {w}
        /\ \A n \in Mutex \ {Buffer} : MutexQueue(n)' = MutexQueue(n)
        /\ \A c \in Cond : CondQueue(c)' = CondQueue(c)
        /\ state'[running'] = "RUNNING"
        /\ \A u \in Task : state'[u] = "BLOCKED" <=> u = w \/ state[u] = "BLOCKED"
        /\ \A u \in Task \ {w} : Runnable(state, u) => Runnable(state', u)
    BY <1>1, <1>2, <1>4, MutexWaitQueues DEF TypeOK, WaitersInv
  <2>3. Runnable(state', Idle)
    BY <1>2, <2>2, NAssumption DEF WaitersInv, Task, Idle
  <2>4. ASSUME NEW t \in Task, NEW m \in Mutex, t \in MutexQueue(m)'
        PROVE  t \in Worker /\ state'[t] = "BLOCKED" /\ pc'[t] = "retry"
    BY <2>1, <2>2, <2>4 DEF WaitersInv
  <2>5. ASSUME NEW t \in Task, NEW c \in Cond, t \in CondQueue(c)'
        PROVE  /\ t \in Worker /\ state'[t] = "BLOCKED"
               /\ pc'[t] \in {"yield", "relock"} /\ c = WaitsOn(t)
    BY <1>2, <2>1, <2>2, <2>5 DEF WaitersInv, Unqueued
  <2>. QED
    BY <2>2, <2>3, <2>4, <2>5 DEF WaitersInv, WaitsOn
<1>. QED
  BY <1>3, <1>4 DEF Lock

LEMMA WaitersInvWait ==
  ASSUME TypeOK, WaitersInv, NEW w \in Worker, running = w, pc[w] = "check",
         CondBlock(w, WaitsOn(w)), Goto(w, "yield")
  PROVE  WaitersInv'
<1>1. Unqueued(w) /\ state[w] = "RUNNING" /\ w \in Task \ {Idle}
  BY RunnerRuns
<1>2. pc'[w] = "yield" /\ \A v \in Worker \ {w} : pc'[v] = pc[v]
  BY DEF Goto, TypeOK
<1>3. PICK c \in Cond : c = WaitsOn(w)
  BY WaitsOnType
<1>4. PICK m \in Mutex : m = Buffer
  BY Workers
<1>5. /\ QueuesApart'
      /\ CondQueue(c)' = CondQueue(c) \cup {w}
      /\ \A d \in Cond \ {c} : CondQueue(d)' = CondQueue(d)
      /\ MutexQueue(m)' = MutexQueue(m) \ {mutexWaiters[m]}
      /\ \A n \in Mutex \ {m} : MutexQueue(n)' = MutexQueue(n)
      /\ w # mutexWaiters[m]
      /\ \A u \in Task : state'[u] = IF u = mutexWaiters[m] THEN "READY"
                                     ELSE IF u = w THEN "BLOCKED" ELSE state[u]
  BY <1>1, <1>3, <1>4, WaitsOnType, CondBlockQueues DEF TypeOK, WaitersInv
<1>6. mutexWaiters[m] \in Task => mutexWaiters[m] \in MutexQueue(m)
  BY ReachHas DEF MutexQueue
<1>7. running' = w
  BY DEF CondBlock, MutexUnlock
<1>8. Runnable(state', Idle)
  BY <1>1, <1>5, NAssumption DEF WaitersInv, Runnable, Task, Idle
<1>9. ASSUME NEW t \in Task, NEW n \in Mutex, t \in MutexQueue(n)'
      PROVE  t \in Worker /\ state'[t] = "BLOCKED" /\ pc'[t] = "retry"
  <2>1. t \in MutexQueue(n) /\ t # w /\ t # mutexWaiters[m]
    BY <1>1, <1>5, <1>6, <1>9 DEF WaitersInv, QueuesApart, Unqueued
  <2>. QED
    BY <1>2, <1>5, <2>1 DEF WaitersInv
<1>10. ASSUME NEW t \in Task, NEW d \in Cond, t \in CondQueue(d)'
       PROVE  /\ t \in Worker /\ state'[t] = "BLOCKED"
              /\ pc'[t] \in {"yield", "relock"} /\ d = WaitsOn(t)
  <2>1. CASE t = w
    BY <1>1, <1>2, <1>3, <1>5, <1>10, <2>1 DEF Unqueued
  <2>2. CASE t # w
    <3>1. t \in CondQueue(d) /\ t # mutexWaiters[m]
      BY <1>5, <1>6, <1>10, <2>2 DEF WaitersInv, QueuesApart
    <3>. QED
      BY <1>2, <1>5, <2>2, <3>1 DEF WaitersInv
  <2>. QED
    BY <2>1, <2>2
<1>. QED
  BY <1>2, <1>5, <1>7, <1>8, <1>9, <1>10 DEF WaitersInv, WaitsOn

LEMMA WaitersInvNotify ==
  ASSUME TypeOK, WaitersInv, NEW w \in Worker, NotifyOther(w)
  PROVE  WaitersInv'
<1>1. PICK c \in Cond : c = IF w \in Producers THEN NotEmpty ELSE NotFull
  BY Workers
<1>2. running = w /\ pc[w] = "notify" /\ CondSignal(c) /\ Goto(w, "exit")
  BY <1>1 DEF NotifyOther, At
<1>3. Unqueued(w) /\ state[w] = "RUNNING" /\ w \in Task \ {Idle}
  BY <1>2, RunnerRuns
<1>4. pc'[w] = "exit" /\ \A v \in Worker \ {w} : pc'[v] = pc[v]
  BY <1>2 DEF Goto, TypeOK
<1>5. /\ QueuesApart'
      /\ CondQueue(c)' = CondQueue(c) \ {condWaiters[c]}
      /\ \A d \in Cond \ {c} : CondQueue(d)' = CondQueue(d)
      /\ \A m \in Mutex : MutexQueue(m)' = MutexQueue(m)
      /\ \A u \in Task : state'[u] = IF u = condWaiters[c] THEN "READY" ELSE state[u]
  BY <1>2, SignalQueues DEF TypeOK, WaitersInv
<1>6. condWaiters[c] \in Task => condWaiters[c] \in CondQueue(c)
  BY ReachHas DEF CondQueue
<1>7. running' = w
  BY <1>2 DEF CondSignal
<1>8. Runnable(state', Idle) /\ state'[w] = "RUNNING"
  BY <1>3, <1>5, <1>6, NAssumption DEF WaitersInv, Runnable, Task, Idle, Unqueued
<1>9. ASSUME NEW t \in Task, NEW n \in Mutex, t \in MutexQueue(n)'
      PROVE  t \in Worker /\ state'[t] = "BLOCKED" /\ pc'[t] = "retry"
  <2>1. t \in MutexQueue(n) /\ t # w /\ t # condWaiters[c]
    BY <1>3, <1>5, <1>6, <1>9 DEF WaitersInv, QueuesApart, Unqueued
  <2>. QED
    BY <1>4, <1>5, <2>1 DEF WaitersInv
<1>10. ASSUME NEW t \in Task, NEW d \in Cond, t \in CondQueue(d)'
       PROVE  /\ t \in Worker /\ state'[t] = "BLOCKED"
              /\ pc'[t] \in {"yield", "relock"} /\ d = WaitsOn(t)
  <2>1. t \in CondQueue(d) /\ t # condWaiters[c] /\ t # w
    BY <1>3, <1>5, <1>6, <1>10 DEF WaitersInv, QueuesApart, Unqueued
  <2>. QED
    BY <1>4, <1>5, <2>1 DEF WaitersInv
<1>. QED
  BY <1>5, <1>7, <1>8, <1>9, <1>10 DEF WaitersInv, WaitsOn

LEMMA WaitersInvExit ==
  ASSUME TypeOK, WaitersInv, NEW w \in Worker, Exit(w)
  PROVE  WaitersInv'
<1>1. PICK m \in Mutex : m = Buffer
  BY Workers
<1>2. running = w /\ pc[w] = "exit" /\ MonitorExit(m) /\ Goto(w, "sleep")
  BY <1>1 DEF Exit, At
<1>3. Unqueued(w) /\ state[w] = "RUNNING" /\ w \in Task \ {Idle}
  BY <1>2, RunnerRuns
<1>4. pc'[w] = "sleep" /\ \A v \in Worker \ {w} : pc'[v] = pc[v]
  BY <1>2 DEF Goto, TypeOK
<1>5. /\ QueuesApart'
      /\ MutexQueue(m)' = MutexQueue(m) \ {mutexWaiters[m]}
      /\ \A n \in Mutex \ {m} : MutexQueue(n)' = MutexQueue(n)
      /\ \A c \in Cond : CondQueue(c)' = CondQueue(c)
      /\ \A u \in Task :
           state'[u] = IF u = mutexWaiters[m] THEN "READY" ELSE state[u]
  BY <1>2, ExitQueues DEF TypeOK, WaitersInv
<1>6. mutexWaiters[m] \in Task => mutexWaiters[m] \in MutexQueue(m)
  BY ReachHas DEF MutexQueue
<1>7. running' = w
  BY <1>2 DEF MonitorExit, MutexUnlock
<1>8. Runnable(state', Idle) /\ state'[w] = "RUNNING"
  BY <1>3, <1>5, <1>6, NAssumption DEF WaitersInv, Runnable, Task, Idle, Unqueued
<1>9. ASSUME NEW t \in Task, NEW n \in Mutex, t \in MutexQueue(n)'
      PROVE  t \in Worker /\ state'[t] = "BLOCKED" /\ pc'[t] = "retry"
  <2>1. t \in MutexQueue(n) /\ t # w /\ t # mutexWaiters[m]
    BY <1>3, <1>5, <1>6, <1>9 DEF WaitersInv, QueuesApart, Unqueued
  <2>. QED
    BY <1>4, <1>5, <2>1 DEF WaitersInv
<1>10. ASSUME NEW t \in Task, NEW d \in Cond, t \in CondQueue(d)'
       PROVE  /\ t \in Worker /\ state'[t] = "BLOCKED"
              /\ pc'[t] \in {"yield", "relock"} /\ d = WaitsOn(t)
  <2>1. t \in CondQueue(d) /\ t # mutexWaiters[m] /\ t # w
    BY <1>3, <1>5, <1>6, <1>10 DEF WaitersInv, QueuesApart, Unqueued
  <2>. QED
    BY <1>4, <1>5, <2>1 DEF WaitersInv
<1>. QED
  BY <1>5, <1>7, <1>8, <1>9, <1>10 DEF WaitersInv, WaitsOn

LEMMA WaitersInvNext == TypeOK /\ WaitersInv /\ [Next]_vars => WaitersInv'
<1>. SUFFICES ASSUME TypeOK, WaitersInv, [Next]_vars PROVE WaitersInv'
  OBVIOUS
<1>1. CASE TimerIrq
  BY <1>1, WaitersInvTimer DEF TimerIrq
<1>2. CASE UNCHANGED vars
  <2>1. UNCHANGED <<mutexWaiters, condWaiters, waitNext, state, running, pc>>
    BY <1>2 DEF vars, schedVars, syncVars
  <2>. QED
    BY <2>1, WaitersInvFrame DEF WaitersInv
<1>3. ASSUME NEW w \in Worker, Step(w) PROVE WaitersInv'
  <2>1. CASE YieldAsleep(w) \/ YieldInWait(w)
    BY <2>1, WaitersInvTimer DEF YieldAsleep, YieldInWait, At
  <2>2. CASE Sleep(w)
    BY <2>2, WaitersInvOwn DEF Sleep, At, syncVars
  <2>3. CASE SetSleeping(w)
    BY <2>3, WaitersInvOwn DEF SetSleeping, At, syncVars
  <2>4. CASE Check(w)
    <3>1. CASE MustWait(w)
      BY <2>4, <3>1, WaitersInvWait DEF Check, At
    <3>2. CASE ~MustWait(w)
      BY <2>4, <3>2, WaitersInvOwn DEF Check, At, schedVars, syncVars
    <3>. QED
      BY <3>1, <3>2
  <2>5. CASE Produce(w)
    BY <2>5, WaitersInvOwn DEF Produce, At, schedVars, syncVars
  <2>6. CASE Consume(w)
    BY <2>6, WaitersInvOwn DEF Consume, At, schedVars, syncVars
  <2>7. CASE LoadCount(w) \/ StoreCount(w)
    BY <2>7, WaitersInvOwn DEF LoadCount, StoreCount, At, schedVars, syncVars
  <2>. QED
    BY <1>3, <2>1, <2>2, <2>3, <2>4, <2>5, <2>6, <2>7, WaitersInvLock,
       WaitersInvNotify, WaitersInvExit DEF Step
<1>. QED
  BY <1>1, <1>2, <1>3 DEF Next

(* How a step changes the number of workers on their way. *)
LEMMA OnWayCount ==
  ASSUME NEW A \in SUBSET Task, NEW B \in SUBSET Task
  PROVE  /\ Cardinality(A) \in Nat
         /\ A \subseteq B => Cardinality(A) <= Cardinality(B)
         /\ \A x \in B \ A : A \subseteq B => Cardinality(A) + 1 <= Cardinality(B)
         /\ \A x : A \ {x} \subseteq B => Cardinality(A) <= Cardinality(B) + 1
<1>1. IsFiniteSet(Task)
  BY FS_Interval, NAssumption DEF Task
<1>2. IsFiniteSet(A) /\ IsFiniteSet(B)
  BY <1>1, FS_Subset
<1>3. Cardinality(A) \in Nat /\ Cardinality(B) \in Nat
  BY <1>2, FS_CardinalityType
<1>4. ASSUME A \subseteq B PROVE Cardinality(A) <= Cardinality(B)
  BY <1>2, <1>4, FS_Subset
<1>5. ASSUME NEW x \in B \ A, A \subseteq B
      PROVE  Cardinality(A) + 1 <= Cardinality(B)
  <2>1. Cardinality(A \cup {x}) = Cardinality(A) + 1
    BY <1>2, <1>5, FS_AddElement
  <2>2. Cardinality(A \cup {x}) <= Cardinality(B)
    BY <1>2, <1>5, FS_Subset
  <2>. QED
    BY <2>1, <2>2
<1>6. ASSUME NEW x, A \ {x} \subseteq B
      PROVE  Cardinality(A) <= Cardinality(B) + 1
  <2>1. Cardinality(A \ {x}) \in {Cardinality(A), Cardinality(A) - 1}
    BY <1>2, FS_RemoveElement
  <2>2. Cardinality(A \ {x}) <= Cardinality(B)
    BY <1>2, <1>6, FS_Subset
  <2>. QED
    BY <1>3, <2>1, <2>2
<1>. QED
  BY <1>3, <1>4, <1>5, <1>6

(* While somebody is inside, one more worker of a side is provided for: the one
   that is inside and has not yet used the slot or the item it came for, or the
   one that the task inside is about to notify. *)
AtWork(side)   == \E w \in side : pc[w] \in {"check", "item", "index", "load", "store"}
AtNotify(side) == \E w \in side : pc[w] = "notify"

InHand(side, other) == IF AtWork(side) \/ AtNotify(other) THEN 1 ELSE 0

ServedInv ==
  /\ condWaiters[NotFull] # NULL =>
       BUFFER_SIZE - count <=
         Cardinality(OnTheirWay(Producers)) + InHand(Producers, Consumers)
  /\ condWaiters[NotEmpty] # NULL =>
       count <= Cardinality(OnTheirWay(Consumers)) + InHand(Consumers, Producers)

LEMMA OnWayTasks ==
  /\ OnTheirWay(Producers) \in SUBSET Task /\ OnTheirWay(Consumers) \in SUBSET Task
  /\ OnTheirWay(Producers)' \in SUBSET Task /\ OnTheirWay(Consumers)' \in SUBSET Task
  /\ Cardinality(OnTheirWay(Producers)) \in Nat
  /\ Cardinality(OnTheirWay(Consumers)) \in Nat
  /\ Cardinality(OnTheirWay(Producers)') \in Nat
  /\ Cardinality(OnTheirWay(Consumers)') \in Nat
<1>1. /\ OnTheirWay(Producers) \in SUBSET Task /\ OnTheirWay(Consumers) \in SUBSET Task
      /\ OnTheirWay(Producers)' \in SUBSET Task /\ OnTheirWay(Consumers)' \in SUBSET Task
  BY BufferAssumption DEF OnTheirWay
<1>. QED
  BY <1>1, OnWayCount

(* Nobody takes back the way it has come: the steps in which the task inside, if
   any, stays at work or leaves for good. *)
LEMMA ServedInvKept ==
  ASSUME TypeOK, ServedInv, UNCHANGED <<condWaiters, count>>,
         \A w \in Worker :
           /\ pc[w] = "notify" <=> pc'[w] = "notify"
           /\ pc[w] \in {"check", "item", "index", "load", "store"} <=>
                pc'[w] \in {"check", "item", "index", "load", "store"}
           /\ pc[w] = "retry" \/ (pc[w] \in {"yield", "relock"} /\ Runnable(state, w)) =>
                pc'[w] = "retry" \/ (pc'[w] \in {"yield", "relock"} /\ Runnable(state', w))
  PROVE  ServedInv'
<1>1. /\ InHand(Producers, Consumers)' = InHand(Producers, Consumers)
      /\ InHand(Consumers, Producers)' = InHand(Consumers, Producers)
  BY DEF InHand, AtWork, AtNotify, Worker
<1>2. /\ OnTheirWay(Producers) \subseteq OnTheirWay(Producers)'
      /\ OnTheirWay(Consumers) \subseteq OnTheirWay(Consumers)'
  BY DEF OnTheirWay, Worker
<1>3. /\ Cardinality(OnTheirWay(Producers)) <= Cardinality(OnTheirWay(Producers)')
      /\ Cardinality(OnTheirWay(Consumers)) <= Cardinality(OnTheirWay(Consumers)')
  BY <1>2, OnWayTasks, OnWayCount
<1>4. InHand(Producers, Consumers) \in 0 .. 1 /\ InHand(Consumers, Producers) \in 0 .. 1
  BY DEF InHand
<1>5. count \in Int /\ BUFFER_SIZE \in Int
  BY BufferAssumption DEF TypeOK
<1>. QED
  BY <1>1, <1>3, <1>4, <1>5, OnWayTasks DEF ServedInv

LEMMA ServedInvTimer ==
  ASSUME TypeOK, WaitersInv, ServedInv, timer_callback(state),
         UNCHANGED <<syncVars, bufferVars>>,
         \/ pc' = pc
         \/ \E w \in Worker : \/ pc[w] = "yield" /\ Goto(w, "relock")
                              \/ pc[w] = "asleep" /\ Goto(w, "enter")
  PROVE  ServedInv'
<1>1. \A t \in Task : Runnable(state, t) => Runnable(state', t)
  BY TimerKeeps DEF TypeOK, SchedTypeOK, WaitersInv
<1>2. \A w \in Worker : \/ pc'[w] = pc[w]
                        \/ pc[w] = "yield" /\ pc'[w] = "relock"
                        \/ pc[w] = "asleep" /\ pc'[w] = "enter"
  BY DEF TypeOK, Goto
<1>. QED
  BY <1>1, <1>2, Workers, ServedInvKept DEF syncVars, bufferVars

LEMMA ServedInvLock ==
  ASSUME BufferInv, WaitersInv, ServedInv, NEW w \in Worker, Lock(w)
  PROVE  ServedInv'
<1>1. TypeOK /\ UNCHANGED bufferVars
  BY DEF BufferInv, Lock
<1>2. /\ running = w /\ pc[w] \in {"enter", "retry", "relock"} /\ Buffer \in Mutex
      /\ Unqueued(w) /\ w \in Task \ {Idle}
  BY Workers, RunnerRuns DEF Lock
<1>3. CASE MutexTake(w, Buffer) /\ Goto(w, "check")
  <2>1. pc'[w] = "check" /\ \A v \in Worker \ {w} : pc'[v] = pc[v]
    BY <1>1, <1>3 DEF Goto, TypeOK
  <2>2. \A v \in Worker : pc[v] \notin Inside
    BY <1>3 DEF MutexTake, BufferInv, LockInv
  <2>3. state' = state /\ condWaiters' = condWaiters /\ count' = count
    BY <1>1, <1>3 DEF MutexTake, schedVars, bufferVars
  <2>4. InHand(Producers, Consumers) = 0 /\ InHand(Consumers, Producers) = 0
    BY <2>2 DEF InHand, AtWork, AtNotify, Inside, Worker
  <2>5. /\ OnTheirWay(Producers) \ {w} \subseteq OnTheirWay(Producers)'
        /\ OnTheirWay(Consumers) \ {w} \subseteq OnTheirWay(Consumers)'
        /\ w \in Consumers => OnTheirWay(Producers) \subseteq OnTheirWay(Producers)'
        /\ w \in Producers => OnTheirWay(Consumers) \subseteq OnTheirWay(Consumers)'
    BY <2>1, <2>3, Workers DEF OnTheirWay, Worker
  <2>6. count \in Int /\ BUFFER_SIZE \in Int
    BY <1>1, BufferAssumption DEF TypeOK
  <2>7. CASE w \in Producers
    <3>1. InHand(Producers, Consumers)' = 1 /\ InHand(Consumers, Producers)' \in 0 .. 1
      BY <2>1, <2>7 DEF InHand, AtWork
    <3>2. /\ Cardinality(OnTheirWay(Producers)) <= Cardinality(OnTheirWay(Producers)') + 1
          /\ Cardinality(OnTheirWay(Consumers)) <= Cardinality(OnTheirWay(Consumers)')
      BY <2>5, <2>7, OnWayTasks, OnWayCount
    <3>. QED
      BY <2>3, <2>4, <2>6, <3>1, <3>2, OnWayTasks DEF ServedInv
  <2>8. CASE w \in Consumers
    <3>1. InHand(Consumers, Producers)' = 1 /\ InHand(Producers, Consumers)' \in 0 .. 1
      BY <2>1, <2>8 DEF InHand, AtWork
    <3>2. /\ Cardinality(OnTheirWay(Consumers)) <= Cardinality(OnTheirWay(Consumers)') + 1
          /\ Cardinality(OnTheirWay(Producers)) <= Cardinality(OnTheirWay(Producers)')
      BY <2>5, <2>8, OnWayTasks, OnWayCount
    <3>. QED
      BY <2>3, <2>4, <2>6, <3>1, <3>2, OnWayTasks DEF ServedInv
  <2>. QED
    BY <2>7, <2>8 DEF Worker
<1>4. CASE MutexWait(w, Buffer) /\ Goto(w, "retry")
  <2>1. pc'[w] = "retry" /\ \A v \in Worker \ {w} : pc'[v] = pc[v]
    BY <1>1, <1>4 DEF Goto, TypeOK
  <2>2. \A u \in Task \ {w} : Runnable(state, u) => Runnable(state', u)
    BY <1>1, <1>2, <1>4, MutexWaitQueues DEF TypeOK, WaitersInv
  <2>3. condWaiters' = condWaiters /\ count' = count
    BY <1>1, <1>4 DEF MutexWait, bufferVars
  <2>. QED
    BY <1>1, <1>2, <2>1, <2>2, <2>3, Workers, ServedInvKept
<1>. QED
  BY <1>3, <1>4 DEF Lock

(* The steps of a task that move neither the queues nor count. *)
LEMMA ServedInvOwn ==
  ASSUME TypeOK, ServedInv, NEW w \in Worker, NEW to, Goto(w, to),
         pc[w] \notin Blocking \cup {"notify"}, to \notin Blocking \cup {"notify"},
         pc[w] \in {"check", "item", "index", "load", "store"} <=>
           to \in {"check", "item", "index", "load", "store"},
         \A v \in Worker \ {w} : Runnable(state, v) => Runnable(state', v),
         UNCHANGED <<condWaiters, count>>
  PROVE  ServedInv'
<1>1. pc'[w] = to /\ \A v \in Worker \ {w} : pc'[v] = pc[v]
  BY DEF Goto, TypeOK
<1>. QED
  BY <1>1, ServedInvKept DEF Blocking

(* What the wait of a task costs the workers of the other side: nothing. *)
LEMMA ServedInvWait ==
  ASSUME BufferInv, WaitersInv, ServedInv, NEW w \in Worker, Check(w), MustWait(w)
  PROVE  ServedInv'
<1>1. /\ TypeOK /\ UNCHANGED bufferVars /\ running = w /\ pc[w] = "check"
      /\ CondBlock(w, WaitsOn(w)) /\ Goto(w, "yield")
  BY DEF BufferInv, Check, At
<1>2. Unqueued(w) /\ w \in Task \ {Idle} /\ WaitsOn(w) \in Cond
  BY <1>1, RunnerRuns, WaitsOnType
<1>3. pc'[w] = "yield" /\ \A v \in Worker \ {w} : pc'[v] = pc[v]
  BY <1>1 DEF Goto, TypeOK
<1>4. \A v \in Task \ {w} : Runnable(state, v) => Runnable(state', v)
  <2>1. PICK c \in Cond : c = WaitsOn(w) /\ c[1] = Buffer
    BY <1>2, WaitsOnType
  <2>2. PICK m \in Mutex : m = Buffer
    BY Workers
  <2>3. \A u \in Task : state'[u] = IF u = mutexWaiters[m] THEN "READY"
                                    ELSE IF u = w THEN "BLOCKED" ELSE state[u]
    BY <1>1, <1>2, <2>1, <2>2, CondBlockQueues DEF TypeOK, WaitersInv
  <2>. QED
    BY <2>3 DEF Runnable
<1>5. \A c \in Cond \ {WaitsOn(w)} : condWaiters'[c] = condWaiters[c]
  BY <1>1, <1>2 DEF CondBlock, TypeOK, SyncTypeOK
<1>6. \A v \in Worker \ {w} : pc[v] \notin Inside
  BY <1>1, InsideAlone DEF Inside
<1>7. /\ count \in Int /\ BUFFER_SIZE \in Int /\ count' = count
      /\ InHand(Producers, Consumers)' \in 0 .. 1
      /\ InHand(Consumers, Producers)' \in 0 .. 1
  BY <1>1, BufferAssumption DEF TypeOK, bufferVars, InHand
<1>8. CASE w \in Producers
  <2>1. w \notin Consumers /\ WaitsOn(w) # NotEmpty /\ count = BUFFER_SIZE
    BY <1>8, Workers DEF WaitsOn, MustWait
  <2>2. condWaiters'[NotEmpty] = condWaiters[NotEmpty]
    BY <1>5, <2>1, Workers
  <2>3. InHand(Consumers, Producers) = 0
    BY <1>1, <1>6, <2>1 DEF InHand, AtWork, AtNotify, Inside, Worker
  <2>4. OnTheirWay(Consumers) \subseteq OnTheirWay(Consumers)'
    BY <1>3, <1>4, <2>1, Workers DEF OnTheirWay, Worker
  <2>5. Cardinality(OnTheirWay(Consumers)) <= Cardinality(OnTheirWay(Consumers)')
    BY <2>4, OnWayTasks, OnWayCount
  <2>. QED
    BY <1>7, <2>1, <2>2, <2>3, <2>5, OnWayTasks DEF ServedInv
<1>9. CASE w \in Consumers
  <2>1. w \notin Producers /\ WaitsOn(w) # NotFull /\ count = 0
    BY <1>9, Workers DEF WaitsOn, MustWait
  <2>2. condWaiters'[NotFull] = condWaiters[NotFull]
    BY <1>5, <2>1, Workers
  <2>3. InHand(Producers, Consumers) = 0
    BY <1>1, <1>6, <2>1 DEF InHand, AtWork, AtNotify, Inside, Worker
  <2>4. OnTheirWay(Producers) \subseteq OnTheirWay(Producers)'
    BY <1>3, <1>4, <2>1, Workers DEF OnTheirWay, Worker
  <2>5. Cardinality(OnTheirWay(Producers)) <= Cardinality(OnTheirWay(Producers)')
    BY <2>4, OnWayTasks, OnWayCount
  <2>. QED
    BY <1>7, <2>1, <2>2, <2>3, <2>5, OnWayTasks DEF ServedInv
<1>. QED
  BY <1>8, <1>9 DEF Worker

LEMMA ServedInvStore ==
  ASSUME BufferInv, WaitersInv, ServedInv, NEW w \in Worker, StoreCount(w)
  PROVE  ServedInv'
<1>1. /\ TypeOK /\ pc[w] = "store" /\ reg[w] = count /\ Goto(w, "notify")
      /\ condWaiters' = condWaiters /\ state' = state
      /\ count' = IF w \in Producers THEN count + 1 ELSE count - 1
  BY DEF BufferInv, DataInv, StoreCount, At, syncVars, schedVars
<1>2. pc'[w] = "notify" /\ \A v \in Worker \ {w} : pc'[v] = pc[v] /\ pc[v] \notin Inside
  BY <1>1, InsideAlone DEF Goto, TypeOK, Inside
<1>3. /\ OnTheirWay(Producers) \subseteq OnTheirWay(Producers)'
      /\ OnTheirWay(Consumers) \subseteq OnTheirWay(Consumers)'
  BY <1>1, <1>2, Workers DEF OnTheirWay, Worker
<1>4. /\ Cardinality(OnTheirWay(Producers)) <= Cardinality(OnTheirWay(Producers)')
      /\ Cardinality(OnTheirWay(Consumers)) <= Cardinality(OnTheirWay(Consumers)')
  BY <1>3, OnWayTasks, OnWayCount
<1>5. count \in Int /\ BUFFER_SIZE \in Int
  BY <1>1, BufferAssumption DEF TypeOK
<1>6. CASE w \in Producers
  <2>1. w \notin Consumers
    BY <1>6, Workers
  <2>2. /\ InHand(Producers, Consumers) = 1 /\ InHand(Producers, Consumers)' = 0
        /\ InHand(Consumers, Producers) = 0 /\ InHand(Consumers, Producers)' = 1
    BY <1>1, <1>2, <1>6, <2>1 DEF InHand, AtWork, AtNotify, Inside, Worker
  <2>. QED
    BY <1>1, <1>4, <1>5, <1>6, <2>2, OnWayTasks DEF ServedInv
<1>7. CASE w \in Consumers
  <2>1. w \notin Producers
    BY <1>7, Workers
  <2>2. /\ InHand(Consumers, Producers) = 1 /\ InHand(Consumers, Producers)' = 0
        /\ InHand(Producers, Consumers) = 0 /\ InHand(Producers, Consumers)' = 1
    BY <1>1, <1>2, <1>7, <2>1 DEF InHand, AtWork, AtNotify, Inside, Worker
  <2>. QED
    BY <1>1, <1>4, <1>5, <2>1, <2>2, OnWayTasks DEF ServedInv
<1>. QED
  BY <1>6, <1>7 DEF Worker

(* The notification makes the waiter it wakes one more worker on its way. *)
LEMMA ServedInvNotify ==
  ASSUME BufferInv, WaitersInv, ServedInv, NEW w \in Worker, NotifyOther(w)
  PROVE  ServedInv'
<1>1. PICK c \in Cond : c = IF w \in Producers THEN NotEmpty ELSE NotFull
  BY Workers
<1>2. /\ TypeOK /\ running = w /\ pc[w] = "notify" /\ CondSignal(c) /\ Goto(w, "exit")
      /\ count' = count
  BY <1>1 DEF BufferInv, NotifyOther, At, bufferVars
<1>3. pc'[w] = "exit" /\ \A v \in Worker \ {w} : pc'[v] = pc[v] /\ pc[v] \notin Inside
  BY <1>2, InsideAlone DEF Goto, TypeOK, Inside
<1>4. /\ \A d \in Cond \ {c} : condWaiters'[d] = condWaiters[d]
      /\ \A u \in Task : state'[u] = IF u = condWaiters[c] THEN "READY" ELSE state[u]
      /\ condWaiters[c] = NULL => condWaiters'[c] = NULL
      /\ condWaiters[c] \in TaskPtr
  <2>1. condWaiters' = IF condWaiters[c] = NULL THEN condWaiters
                       ELSE [condWaiters EXCEPT ![c] = waitNext[condWaiters[c]]]
    BY <1>2 DEF CondSignal
  <2>2. \A u \in Task : state'[u] = IF u = condWaiters[c] THEN "READY" ELSE state[u]
    BY <1>2, SignalQueues DEF TypeOK, WaitersInv
  <2>. QED
    BY <1>2, <2>1, <2>2 DEF TypeOK, SyncTypeOK
<1>5. /\ OnTheirWay(Producers) \subseteq OnTheirWay(Producers)'
      /\ OnTheirWay(Consumers) \subseteq OnTheirWay(Consumers)'
  BY <1>2, <1>3, <1>4, Workers DEF OnTheirWay, Worker, Runnable
<1>6. /\ Cardinality(OnTheirWay(Producers)) <= Cardinality(OnTheirWay(Producers)')
      /\ Cardinality(OnTheirWay(Consumers)) <= Cardinality(OnTheirWay(Consumers)')
  BY <1>5, OnWayTasks, OnWayCount
<1>7. count \in Int /\ BUFFER_SIZE \in Int
  BY <1>2, BufferAssumption DEF TypeOK
<1>8. ASSUME condWaiters[c] # NULL
      PROVE  \E x \in Task : /\ x = condWaiters[c] /\ x \in Worker \ {w}
                             /\ c = WaitsOn(x) /\ pc'[x] \in {"yield", "relock"}
                             /\ ~Runnable(state, x) /\ Runnable(state', x)
                             /\ pc[x] # "retry"
  <2>1. PICK x \in Task : x = condWaiters[c]
    BY <1>4, <1>8 DEF TaskPtr
  <2>2. x \in CondQueue(c)
    BY <2>1, ReachHas DEF CondQueue
  <2>3. /\ x \in Worker /\ state[x] = "BLOCKED" /\ pc[x] \in {"yield", "relock"}
        /\ c = WaitsOn(x)
    BY <2>2 DEF WaitersInv
  <2>. QED
    BY <1>2, <1>3, <1>4, <2>1, <2>3 DEF Runnable
<1>9. CASE w \in Producers
  <2>1. w \notin Consumers /\ c = NotEmpty /\ NotFull \in Cond \ {c}
    BY <1>1, <1>9, Workers
  <2>2. /\ InHand(Consumers, Producers) = 1 /\ InHand(Consumers, Producers)' = 0
        /\ InHand(Producers, Consumers) = 0 /\ InHand(Producers, Consumers)' = 0
    BY <1>2, <1>3, <1>9, <2>1 DEF InHand, AtWork, AtNotify, Inside, Worker
  <2>3. condWaiters[c] # NULL =>
          Cardinality(OnTheirWay(Consumers)) + 1 <= Cardinality(OnTheirWay(Consumers)')
    <3>. SUFFICES ASSUME condWaiters[c] # NULL
                  PROVE  Cardinality(OnTheirWay(Consumers)) + 1
                           <= Cardinality(OnTheirWay(Consumers)')
      OBVIOUS
    <3>1. PICK x \in OnTheirWay(Consumers)' : x \notin OnTheirWay(Consumers)
      BY <1>8, <2>1, Workers DEF WaitsOn, OnTheirWay, Worker
    <3>. QED
      BY <1>5, <3>1, OnWayTasks, OnWayCount
  <2>. QED
    BY <1>2, <1>4, <1>6, <1>7, <2>1, <2>2, <2>3, OnWayTasks DEF ServedInv
<1>10. CASE w \in Consumers
  <2>1. w \notin Producers /\ c = NotFull /\ NotEmpty \in Cond \ {c}
    BY <1>1, <1>10, Workers
  <2>2. /\ InHand(Producers, Consumers) = 1 /\ InHand(Producers, Consumers)' = 0
        /\ InHand(Consumers, Producers) = 0 /\ InHand(Consumers, Producers)' = 0
    BY <1>2, <1>3, <1>10, <2>1 DEF InHand, AtWork, AtNotify, Inside, Worker
  <2>3. condWaiters[c] # NULL =>
          Cardinality(OnTheirWay(Producers)) + 1 <= Cardinality(OnTheirWay(Producers)')
    <3>. SUFFICES ASSUME condWaiters[c] # NULL
                  PROVE  Cardinality(OnTheirWay(Producers)) + 1
                           <= Cardinality(OnTheirWay(Producers)')
      OBVIOUS
    <3>1. PICK x \in OnTheirWay(Producers)' : x \notin OnTheirWay(Producers)
      BY <1>8, <2>1, Workers DEF WaitsOn, OnTheirWay, Worker
    <3>. QED
      BY <1>5, <3>1, OnWayTasks, OnWayCount
  <2>. QED
    BY <1>2, <1>4, <1>6, <1>7, <2>1, <2>2, <2>3, OnWayTasks DEF ServedInv
<1>. QED
  BY <1>9, <1>10 DEF Worker

LEMMA ServedInvExit ==
  ASSUME BufferInv, WaitersInv, ServedInv, NEW w \in Worker, Exit(w)
  PROVE  ServedInv'
<1>1. PICK m \in Mutex : m = Buffer
  BY Workers
<1>2. /\ TypeOK /\ pc[w] = "exit" /\ MonitorExit(m) /\ Goto(w, "sleep")
      /\ UNCHANGED <<condWaiters, count>>
  BY <1>1 DEF BufferInv, Exit, At, MonitorExit, bufferVars
<1>3. \A u \in Task : state'[u] = IF u = mutexWaiters[m] THEN "READY" ELSE state[u]
  BY <1>2, ExitQueues DEF TypeOK, WaitersInv
<1>4. \A v \in Worker \ {w} : Runnable(state, v) => Runnable(state', v)
  BY <1>3, Workers DEF Runnable
<1>. QED
  BY <1>2, <1>4, ServedInvOwn DEF Blocking

LEMMA ServedInvNext ==
  BufferInv /\ WaitersInv /\ ServedInv /\ [Next]_vars => ServedInv'
<1>. SUFFICES ASSUME BufferInv, WaitersInv, ServedInv, [Next]_vars PROVE ServedInv'
  OBVIOUS
<1>1. TypeOK
  BY DEF BufferInv
<1>2. CASE TimerIrq
  BY <1>1, <1>2, ServedInvTimer DEF TimerIrq
<1>3. CASE UNCHANGED vars
  BY <1>1, <1>3, ServedInvKept DEF vars, schedVars, syncVars, bufferVars
<1>4. ASSUME NEW w \in Worker, Step(w) PROVE ServedInv'
  <2>1. CASE YieldAsleep(w) \/ YieldInWait(w)
    BY <1>1, <2>1, ServedInvTimer DEF YieldAsleep, YieldInWait, At
  <2>2. CASE Sleep(w)
    BY <1>1, <2>2, ServedInvOwn DEF Sleep, At, syncVars, bufferVars, Blocking
  <2>3. CASE SetSleeping(w)
    <3>1. \A v \in Worker \ {w} : state'[v] = state[v]
      BY <1>1, <2>3, Workers DEF SetSleeping, TypeOK, SchedTypeOK
    <3>. QED
      BY <1>1, <2>3, <3>1, ServedInvOwn
         DEF SetSleeping, At, syncVars, bufferVars, Blocking, Runnable
  <2>4. CASE Check(w) /\ ~MustWait(w)
    BY <1>1, <2>4, ServedInvOwn
       DEF Check, At, schedVars, syncVars, bufferVars, Blocking
  <2>5. CASE Produce(w)
    BY <1>1, <2>5, ServedInvOwn DEF Produce, At, schedVars, syncVars, Blocking
  <2>6. CASE Consume(w)
    BY <1>1, <2>6, ServedInvOwn DEF Consume, At, schedVars, syncVars, Blocking
  <2>7. CASE LoadCount(w)
    BY <1>1, <2>7, ServedInvOwn DEF LoadCount, At, schedVars, syncVars, Blocking
  <2>. QED
    BY <1>4, <2>1, <2>2, <2>3, <2>4, <2>5, <2>6, <2>7, ServedInvLock, ServedInvWait,
       ServedInvStore, ServedInvNotify, ServedInvExit DEF Step
<1>. QED
  BY <1>2, <1>3, <1>4 DEF Next

(* main.c: with one notification per item, for every number of producers and of
   consumers and every BUFFER_SIZE, no producer stays blocked while a slot is
   free that nobody is coming for, and no consumer while such an item is there. *)
THEOREM NobodyEverWaitsInVain == Spec => []NobodyWaitsInVain
<1>1. Init => WaitersInv /\ ServedInv
  <2>. SUFFICES ASSUME Init PROVE WaitersInv /\ ServedInv
    OBVIOUS
  <2>1. /\ \A m \in Mutex : mutexWaiters[m] = NULL
        /\ \A c \in Cond : condWaiters[c] = NULL
    BY DEF Init, SyncInit
  <2>2. /\ \A m \in Mutex : MutexQueue(m) = {}
        /\ \A c \in Cond : CondQueue(c) = {}
    BY <2>1, ReachNull DEF MutexQueue, CondQueue
  <2>3. QueuesApart
    BY <2>1, <2>2, ReachNull DEF QueuesApart
  <2>4. state[running] = "RUNNING" /\ Runnable(state, Idle)
    BY NAssumption DEF Init, SchedInit, Runnable, Task, Idle
  <2>. QED
    BY <2>1, <2>2, <2>3, <2>4, Workers DEF WaitersInv, ServedInv
<1>2. BufferInv /\ ServedInv => NobodyWaitsInVain
  <2>. SUFFICES ASSUME BufferInv, ServedInv, NobodyInside PROVE NobodyWaitsInVain
    BY DEF NobodyWaitsInVain
  <2>1. InHand(Producers, Consumers) = 0 /\ InHand(Consumers, Producers) = 0
    BY DEF NobodyInside, Inside, InHand, AtWork, AtNotify, Worker
  <2>. QED
    BY <2>1, OnWayTasks DEF ServedInv, NobodyWaitsInVain
<1>3. BufferInv => TypeOK
  BY DEF BufferInv
<1>. QED
  BY BufferInvInit, BufferInvNext, WaitersInvNext, ServedInvNext, <1>1, <1>2, <1>3,
     PTL DEF Spec
=============================================================================
