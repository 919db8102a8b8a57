---------------------------- MODULE BoundedBuffer ---------------------------
(***************************************************************************)
(* producer() and consumer() of src/kernel/main.c over buffer_monitor: one *)
(* action per C statement that touches shared state, the timer preempting  *)
(* between any two of them.                                                *)
(***************************************************************************)
EXTENDS Sync, FiniteSets

CONSTANTS
  Producers, Consumers,         \* the tasks that run producer(), consumer()
  BUFFER_SIZE,
  ProducerTicks, ConsumerTicks, \* sleep(300), sleep(800), in ticks
  ItemWrap                      \* items are an int counter: kept in 1..ItemWrap

ASSUME BufferAssumption ==
  /\ Mutex # {} /\ MAX_MONITOR_CONDS >= 2   \* monitor_init: buffer_monitor exists
  /\ Producers \subseteq Task \ {Idle}
  /\ Consumers \subseteq Task \ {Idle}
  /\ Producers \cap Consumers = {}
  /\ BUFFER_SIZE \in Nat \ {0}
  /\ ItemWrap \in Nat \ {0}
  /\ ProducerTicks \in Nat \ {0} /\ ConsumerTicks \in Nat \ {0}

VARIABLES
  pc,                           \* the statement each task is about to execute
  buffer, count, head, tail,    \* main.c's globals
  item,                         \* the local variable of producer, of consumer
  reg                           \* the register of count++ or count--

bufferVars == <<buffer, count, head, tail, item, reg>>
vars       == <<schedVars, syncVars, pc, bufferVars>>

Worker   == Producers \cup Consumers
Slot     == 0 .. BUFFER_SIZE - 1
Item     == 1 .. ItemWrap
Buffer   == CHOOSE m \in Mutex : TRUE        \* &buffer_monitor
NotEmpty == <<Buffer, 0>>                    \* COND_NOT_EMPTY
NotFull  == <<Buffer, 1>>                    \* COND_NOT_FULL

Outside  == {"sleep", "set_state", "asleep", "enter"}
Blocking == {"retry", "yield", "relock"}
Inside   == {"check", "item", "index", "load", "store", "notify", "exit"}

TypeOK ==
  /\ SchedTypeOK
  /\ SyncTypeOK
  /\ pc \in [Worker -> Outside \cup Blocking \cup Inside]
  /\ buffer \in [Slot -> Item \cup {0}]
  /\ count \in 0 .. BUFFER_SIZE
  /\ head \in Slot /\ tail \in Slot
  /\ item \in [Worker -> Item \cup {0}]
  /\ reg \in [Worker -> 0 .. BUFFER_SIZE]

Init ==
  /\ SchedInit
  /\ SyncInit
  /\ pc = [w \in Worker |-> "sleep"]
  /\ buffer = [s \in Slot |-> 0]
  /\ count = 0 /\ head = 0 /\ tail = 0
  /\ item = [w \in Worker |-> IF w \in Producers THEN 1 ELSE 0]
  /\ reg = [w \in Worker |-> 0]

At(w, point) == running = w /\ pc[w] = point
Goto(w, to)  == pc' = [pc EXCEPT ![w] = to]

-----------------------------------------------------------------------------
(* sleep(), its three statements. *)
Sleep(w) ==
  /\ At(w, "sleep")
  /\ sleepTicks' = [sleepTicks EXCEPT ![w] =
                      IF w \in Producers THEN ProducerTicks ELSE ConsumerTicks]
  /\ Goto(w, "set_state")
  /\ UNCHANGED <<state, running, syncVars, bufferVars>>

SetSleeping(w) ==
  /\ At(w, "set_state")
  /\ state' = [state EXCEPT ![w] = "SLEEPING"]
  /\ Goto(w, "asleep")
  /\ UNCHANGED <<sleepTicks, running, syncVars, bufferVars>>

YieldAsleep(w) ==
  /\ At(w, "asleep")
  /\ timer_callback(state)
  /\ Goto(w, "enter")
  /\ UNCHANGED <<syncVars, bufferVars>>

(* monitor_enter(), the loop in mutex_lock, and mutex_lock in cond_wait: all
   three return into the while loop that tests the buffer. *)
Lock(w) ==
  /\ running = w
  /\ pc[w] \in {"enter", "retry", "relock"}
  /\ \/ MutexTake(w, Buffer) /\ Goto(w, "check")
     \/ MutexWait(w, Buffer) /\ Goto(w, "retry")
  /\ UNCHANGED bufferVars

\* Mutant: the producer waits one item too late.
MustWaitLate(w) == IF w \in Producers THEN count > BUFFER_SIZE ELSE count = 0

(* while (count == BUFFER_SIZE), while (count == 0). *)
MustWait(w) == IF w \in Producers THEN count = BUFFER_SIZE ELSE count = 0

WaitsOn(w) == IF w \in Producers THEN NotFull ELSE NotEmpty

Check(w) ==
  /\ At(w, "check")
  /\ IF MustWait(w)
       THEN CondBlock(w, WaitsOn(w)) /\ Goto(w, "yield")
       ELSE UNCHANGED <<schedVars, syncVars>> /\ Goto(w, "item")
  /\ UNCHANGED bufferVars

YieldInWait(w) ==
  /\ At(w, "yield")
  /\ timer_callback(state)
  /\ Goto(w, "relock")
  /\ UNCHANGED <<syncVars, bufferVars>>

-----------------------------------------------------------------------------
(* count++ and count-- are a load, an addition and a store; reg is dead, and 0,
   after the store. *)
LoadCount(w) ==
  /\ At(w, "load")
  /\ reg' = [reg EXCEPT ![w] = count]
  /\ Goto(w, "store")
  /\ UNCHANGED <<schedVars, syncVars, buffer, count, head, tail, item>>

StoreCount(w) ==
  /\ At(w, "store")
  /\ count' = IF w \in Producers THEN reg[w] + 1 ELSE reg[w] - 1
  /\ reg' = [reg EXCEPT ![w] = 0]
  /\ Goto(w, "notify")
  /\ UNCHANGED <<schedVars, syncVars, buffer, head, tail, item>>

(* buffer[tail] = item++, tail = (tail + 1) % BUFFER_SIZE. *)
Produce(w) ==
  /\ w \in Producers
  /\ \/ /\ At(w, "item")
        /\ buffer' = [buffer EXCEPT ![tail] = item[w]]
        /\ item' = [item EXCEPT ![w] = (@ % ItemWrap) + 1]
        /\ Goto(w, "index")
        /\ UNCHANGED tail
     \/ /\ At(w, "index")
        /\ tail' = (tail + 1) % BUFFER_SIZE
        /\ Goto(w, "load")
        /\ UNCHANGED <<buffer, item>>
  /\ UNCHANGED <<schedVars, syncVars, count, head, reg>>

(* item = buffer[head], head = (head + 1) % BUFFER_SIZE. *)
Consume(w) ==
  /\ w \in Consumers
  /\ \/ /\ At(w, "item")
        /\ item' = [item EXCEPT ![w] = buffer[head]]
        /\ Goto(w, "index")
        /\ UNCHANGED head
     \/ /\ At(w, "index")
        /\ head' = (head + 1) % BUFFER_SIZE
        /\ Goto(w, "load")
        /\ UNCHANGED item
  /\ UNCHANGED <<schedVars, syncVars, buffer, count, tail, reg>>

\* Mutant: both sides notify COND_NOT_EMPTY.
NotifyNotEmpty(w) ==
  /\ At(w, "notify")
  /\ CondSignal(NotEmpty)
  /\ Goto(w, "exit")
  /\ UNCHANGED bufferVars

(* monitor_notify() of the other side's condition. *)
NotifyOther(w) ==
  /\ At(w, "notify")
  /\ CondSignal(IF w \in Producers THEN NotEmpty ELSE NotFull)
  /\ Goto(w, "exit")
  /\ UNCHANGED bufferVars

Exit(w) ==
  /\ At(w, "exit")
  /\ MonitorExit(Buffer)
  /\ Goto(w, "sleep")
  /\ UNCHANGED bufferVars

TimerIrq ==
  /\ \A w \in Worker : ~At(w, "retry")
  /\ timer_callback(state)
  /\ UNCHANGED <<syncVars, pc, bufferVars>>

Step(w) ==
  \/ Sleep(w) \/ SetSleeping(w) \/ YieldAsleep(w)
  \/ Lock(w) \/ Check(w) \/ YieldInWait(w)
  \/ Produce(w) \/ Consume(w) \/ LoadCount(w) \/ StoreCount(w)
  \/ NotifyOther(w) \/ Exit(w)

Next == TimerIrq \/ \E w \in Worker : Step(w)

(* As in Timer: the PIT never stops, a scheduled task executes statements. *)
Fairness == WF_vars(TimerIrq) /\ \A w \in Worker : SF_vars(Step(w))

Spec     == Init /\ [][Next]_vars
FairSpec == Spec /\ Fairness

-----------------------------------------------------------------------------
NobodyInside == \A w \in Worker : pc[w] \notin Inside

(* At most one worker is inside the monitor, count stays within its type, and the
   three cursors agree whenever nobody is inside, though each is stored in a
   statement of its own. *)
CursorsAgree ==
  /\ TypeOK
  /\ \A v, w \in Worker : pc[v] \in Inside /\ pc[w] \in Inside => v = w
  /\ NobodyInside => tail = (head + count) % BUFFER_SIZE

(* Workers of a side that are going to look at the buffer without anybody's
   help: woken from the condition, or on their way into the monitor. *)
OnTheirWay(side) ==
  {w \in side : \/ pc[w] = "retry"
                \/ pc[w] \in {"yield", "relock"} /\ Runnable(state, w)}

(* main.c notifies one waiter per item: while the monitor is free, a producer
   stays blocked on COND_NOT_FULL only if every free slot has a woken producer
   coming for it, and likewise for consumers and items. *)
NobodyWaitsInVain ==
  NobodyInside =>
    /\ condWaiters[NotFull] # NULL =>
         BUFFER_SIZE - count <= Cardinality(OnTheirWay(Producers))
    /\ condWaiters[NotEmpty] # NULL =>
         count <= Cardinality(OnTheirWay(Consumers))

(* The contents of the channel: an item is in from its count++ until the
   consumer reads it. *)
ReadUncounted  == \E c \in Consumers : pc[c] \in {"index", "load", "store"}
ReadUnadvanced == \E c \in Consumers : pc[c] = "index"

Contents ==
  LET len   == IF ReadUncounted THEN count - 1 ELSE count
      first == IF ReadUnadvanced THEN head + 1 ELSE head
  IN  [k \in 1 .. len |-> buffer[(first + k - 1) % BUFFER_SIZE]]

Chan == INSTANCE Channel WITH
  Receivers <- Consumers, Items <- Item, Capacity <- BUFFER_SIZE,
  q <- Contents, got <- [c \in Consumers |-> item[c]]

(* The ring buffer is a FIFO channel: no item is lost, duplicated, overwritten
   or overtaken, whatever the preemption. *)
ImplementsChannel == Chan!Spec

(* Every call of monitor_enter completes its pass through the monitor. *)
PassCompletes == \A w \in Worker : pc[w] = "enter" ~> pc[w] = "exit"
=============================================================================
