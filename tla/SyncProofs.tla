----------------------------- MODULE SyncProofs -----------------------------
(***************************************************************************)
(* What one timer interrupt does to the tasks, for every number of tasks,  *)
(* and what mutex.c and cond.c do to the tasks and the wait queues, one    *)
(* lemma per stretch of code that runs with interrupts disabled: cited by  *)
(* the proofs of every module whose tasks sleep or call monitors.          *)
(***************************************************************************)
EXTENDS Sync, TLAPS

-----------------------------------------------------------------------------
(* schedule() and the sleep ticks. *)

(* timer_callback keeps the types of task_t's fields: in particular
   tasks_update_sleep_ticks never decrements a sleep_ticks of 0. *)
LEMMA TimerType ==
  ASSUME SchedTypeOK, NEW st \in [Task -> TaskState], timer_callback(st)
  PROVE  SchedTypeOK'
<1>1. Woken(st) \in [Task -> TaskState]
  BY DEF Woken, TaskState
<1>2. TicksLeft(st) \in [Task -> Nat]
  BY DEF TicksLeft, SchedTypeOK
<1>. QED
  BY <1>1, <1>2 DEF timer_callback, SchedTypeOK, TaskState

(* schedule() leaves RUNNING the task it picks and no other: whatever state the
   other tasks are in, none of them was or stays RUNNING but the running one. *)
LEMMA TimerRunning ==
  ASSUME SchedTypeOK, NEW st \in [Task -> TaskState], timer_callback(st),
         \A t \in Task : st[t] = "RUNNING" => t = running
  PROVE  /\ state'[running'] = "RUNNING"
         /\ \A t \in Task : state'[t] = "RUNNING" => t = running'
<1>1. Woken(st) \in [Task -> TaskState]
  BY DEF Woken, TaskState
<1>2. \A t \in Task : Woken(st)[t] = "RUNNING" => st[t] = "RUNNING"
  BY DEF Woken
<1>. QED
  BY <1>1, <1>2 DEF timer_callback, SchedTypeOK, TaskState

(* A task that is BLOCKED before the interrupt and not the one it picks is
   BLOCKED after it, and the interrupt blocks nobody. *)
LEMMA TimerBlocks ==
  ASSUME SchedTypeOK, NEW st \in [Task -> TaskState], timer_callback(st),
         NEW t \in Task
  PROVE  /\ st[t] = "BLOCKED" /\ t # running' => state'[t] = "BLOCKED"
         /\ state'[t] = "BLOCKED" => st[t] = "BLOCKED"
         /\ state'[t] = "SLEEPING" => st[t] = "SLEEPING"
BY DEF timer_callback, SchedTypeOK, TaskState, Woken

(* schedule() gives the CPU to a BLOCKED task only when it has it already and
   nobody else is runnable. *)
LEMMA TimerResumes ==
  ASSUME SchedTypeOK, NEW st \in [Task -> TaskState], timer_callback(st),
         st[running'] = "BLOCKED"
  PROVE  running' = running /\ \A u \in Task : ~Runnable(st, u)
<1>. DEFINE saved == [t \in Task |-> IF t = running /\ st[t] = "RUNNING"
                                        THEN "READY" ELSE Woken(st)[t]]
<1>1. Picked(saved, running, running') /\ running' \in Task
  BY DEF timer_callback
<1>2. ~Runnable(saved, running')
  BY <1>1 DEF Runnable, Woken
<1>3. \A u \in Task : Runnable(st, u) => Runnable(saved, u)
  BY DEF Runnable, Woken
<1>. HIDE DEF saved
<1>. QED
  BY <1>1, <1>2, <1>3 DEF Picked

(* Sleepers: who is SLEEPING after the interrupt has ticks left if all of them
   had before it, and the others keep their sleep_ticks. *)
LEMMA TimerSleep ==
  ASSUME SchedTypeOK, NEW st \in [Task -> TaskState], timer_callback(st),
         NEW t \in Task
  PROVE  /\ st[t] = "SLEEPING" /\ sleepTicks[t] > 0 /\ state'[t] = "SLEEPING"
              => sleepTicks'[t] > 0
         /\ st[t] # "SLEEPING" => sleepTicks'[t] = sleepTicks[t]
<1>1. /\ sleepTicks[t] \in Nat
      /\ sleepTicks'[t] = IF st[t] = "SLEEPING" /\ sleepTicks[t] > 0
                            THEN sleepTicks[t] - 1 ELSE sleepTicks[t]
  BY DEF timer_callback, SchedTypeOK, TicksLeft
<1>2. state'[t] = "SLEEPING" => ~(st[t] = "SLEEPING" /\ sleepTicks[t] = 1)
  BY DEF timer_callback, Woken
<1>. QED
  BY <1>1, <1>2

(* kmain's loop never leaves the CPU for good, so that schedule() always finds a
   runnable task: the interrupt then blocks nobody, unblocks nobody, takes the
   CPU for good from nobody and leaves it to a RUNNING task. *)
LEMMA TimerKeeps ==
  ASSUME SchedTypeOK, NEW st \in [Task -> TaskState], timer_callback(st),
         Runnable(st, Idle)
  PROVE  /\ state'[running'] = "RUNNING"
         /\ \A t \in Task : state'[t] = "BLOCKED" <=> st[t] = "BLOCKED"
         /\ \A t \in Task : Runnable(st, t) => Runnable(state', t)
<1>. DEFINE saved == [t \in Task |-> IF t = running /\ st[t] = "RUNNING"
                                       THEN "READY" ELSE Woken(st)[t]]
<1>1. /\ running' \in Task
      /\ Picked(saved, running, running')
      /\ state' = [t \in Task |-> IF t = running' THEN "RUNNING" ELSE saved[t]]
  BY DEF timer_callback
<1>2. saved \in [Task -> TaskState]
  BY DEF Woken, TaskState
<1>3. \A t \in Task :
        /\ saved[t] = "BLOCKED" <=> st[t] = "BLOCKED"
        /\ Runnable(st, t) => Runnable(saved, t)
  BY DEF Woken, Runnable
<1>4. Idle \in Task
  BY NAssumption DEF Task, Idle
<1>. HIDE DEF saved
<1>5. Runnable(saved, running')
  BY <1>1, <1>3, <1>4 DEF Picked
<1>. QED
  BY <1>1, <1>2, <1>3, <1>5 DEF Runnable

-----------------------------------------------------------------------------
(* Types. *)

LEMMA LinkType ==
  ASSUME SyncTypeOK, NEW head, NEW t \in Task, Link(head, t)
  PROVE  waitNext' \in [Task -> TaskPtr]
<1>. DEFINE cut == [waitNext EXCEPT ![t] = NULL]
<1>1. cut \in [Task -> TaskPtr]
  BY DEF SyncTypeOK, TaskPtr
<1>2. CASE head = NULL
  BY <1>1, <1>2 DEF Link
<1>3. CASE head # NULL
  <2>1. PICK last : waitNext' = [cut EXCEPT ![last] = t]
    BY <1>3 DEF Link
  <2>. QED
    BY <1>1, <2>1 DEF TaskPtr
<1>. QED
  BY <1>2, <1>3

LEMMA UnlockType ==
  ASSUME SyncTypeOK, SchedTypeOK, NEW m \in Mutex, NEW st \in [Task -> TaskState],
         waitNext' \in [Task -> TaskPtr], MutexUnlock(m, st)
  PROVE  /\ SchedTypeOK'
         /\ locked' \in [Mutex -> BOOLEAN]
         /\ owner' \in [Mutex -> TaskPtr]
         /\ mutexWaiters' \in [Mutex -> TaskPtr]
BY DEF SyncTypeOK, SchedTypeOK, MutexUnlock, TaskPtr, TaskState

LEMMA MutexTakeType ==
  ASSUME SyncTypeOK, SchedTypeOK, NEW t \in Task, NEW m \in Mutex, MutexTake(t, m)
  PROVE  SyncTypeOK' /\ SchedTypeOK'
BY DEF SyncTypeOK, SchedTypeOK, MutexTake, TaskPtr, schedVars

LEMMA MutexWaitType ==
  ASSUME SyncTypeOK, SchedTypeOK, NEW t \in Task, NEW m \in Mutex, MutexWait(t, m)
  PROVE  SyncTypeOK' /\ SchedTypeOK'
<1>1. [state EXCEPT ![t] = "BLOCKED"] \in [Task -> TaskState]
  BY DEF SchedTypeOK, TaskState
<1>2. SchedTypeOK'
  BY <1>1, TimerType DEF MutexWait
<1>3. waitNext' \in [Task -> TaskPtr]
  BY LinkType DEF MutexWait
<1>4. mutexWaiters' \in [Mutex -> TaskPtr]
  BY DEF MutexWait, SyncTypeOK, HeadAfter, TaskPtr
<1>. QED
  BY <1>2, <1>3, <1>4 DEF MutexWait, SyncTypeOK

LEMMA CondBlockType ==
  ASSUME SyncTypeOK, SchedTypeOK, NEW t \in Task, NEW c \in Cond, CondBlock(t, c)
  PROVE  SyncTypeOK' /\ SchedTypeOK'
<1>1. [state EXCEPT ![t] = "BLOCKED"] \in [Task -> TaskState]
  BY DEF SchedTypeOK, TaskState
<1>2. c[1] \in Mutex
  BY DEF Cond
<1>3. waitNext' \in [Task -> TaskPtr]
  BY LinkType DEF CondBlock
<1>4. condWaiters' \in [Cond -> TaskPtr]
  BY DEF CondBlock, SyncTypeOK, HeadAfter, TaskPtr
<1>. QED
  BY <1>1, <1>2, <1>3, <1>4, UnlockType DEF CondBlock, SyncTypeOK

LEMMA SignalType ==
  ASSUME SyncTypeOK, SchedTypeOK, NEW c \in Cond, CondSignal(c) \/ CondBroadcast(c)
  PROVE  SyncTypeOK' /\ SchedTypeOK'
<1>1. CASE CondSignal(c)
  BY <1>1 DEF CondSignal, SyncTypeOK, SchedTypeOK, TaskPtr, TaskState
<1>2. CASE CondBroadcast(c)
  BY <1>2 DEF CondBroadcast, SyncTypeOK, SchedTypeOK, TaskPtr, TaskState
<1>. QED
  BY <1>1, <1>2
-----------------------------------------------------------------------------
(* Linked lists: what a walk along wait_next meets, before and after a task is
   linked in at the end or taken out at the head. *)

(* Reach is the least set that has the head and is closed under `next`. *)
LEMMA ReachHas ==
  ASSUME NEW next, NEW h \in Task
  PROVE  /\ h \in Reach(next, h)
         /\ Reach(next, h) \subseteq Task
         /\ \A u \in Reach(next, h) : next[u] \in Task => next[u] \in Reach(next, h)
<1>1. h # NULL
  BY NAssumption DEF Task, NULL
<1>2. ASSUME NEW u \in Reach(next, h), next[u] \in Task
      PROVE  next[u] \in Reach(next, h)
  <2>1. next[u] # NULL
    BY <1>2, NAssumption DEF Task, NULL
  <2>2. SUFFICES ASSUME NEW S \in SUBSET Task, h \in S,
                        \A v \in S : next[v] # NULL => next[v] \in S
                 PROVE  next[u] \in S
    BY <1>1, <1>2 DEF Reach
  <2>3. u \in S
    BY <1>1, <2>2 DEF Reach
  <2>. QED
    BY <2>1, <2>2, <2>3
<1>. QED
  BY <1>1, <1>2 DEF Reach

LEMMA ReachLeast ==
  ASSUME NEW next, NEW h \in Task, NEW S \in SUBSET Task, h \in S,
         \A u \in S : next[u] # NULL => next[u] \in S
  PROVE  Reach(next, h) \subseteq S
BY DEF Reach

LEMMA ReachNull == \A next : Reach(next, NULL) = {} /\ Ends(next, NULL)
BY DEF Reach, Ends

LEMMA ReachUnfolds ==
  ASSUME NEW next \in [Task -> TaskPtr], NEW h \in Task
  PROVE  Reach(next, h) = {h} \cup Reach(next, next[h])
<1>. DEFINE rest == Reach(next, next[h])
<1>1. CASE next[h] = NULL
  <2>1. rest = {}
    BY <1>1, ReachNull
  <2>2. Reach(next, h) \subseteq {h}
    <3>1. {h} \in SUBSET Task
      OBVIOUS
    <3>. QED
      BY <1>1, <3>1, ReachLeast
  <2>. QED
    BY <2>1, <2>2, ReachHas
<1>2. CASE next[h] \in Task
  <2>1. /\ next[h] \in rest /\ rest \subseteq Task
        /\ \A u \in rest : next[u] \in Task => next[u] \in rest
    BY <1>2, ReachHas
  <2>2. Reach(next, h) \subseteq {h} \cup rest
    <3>. DEFINE both == {h} \cup rest
    <3>1. /\ both \in SUBSET Task /\ h \in both
          /\ \A u \in both : next[u] # NULL => next[u] \in both
      BY <2>1 DEF TaskPtr
    <3>. HIDE DEF both
    <3>2. Reach(next, h) \subseteq both
      BY <3>1, ReachLeast
    <3>. QED
      BY <3>2 DEF both
  <2>3. rest \subseteq Reach(next, h)
    BY <1>2, ReachHas, ReachLeast DEF TaskPtr
  <2>. QED
    BY <2>2, <2>3, ReachHas
<1>. QED
  BY <1>1, <1>2 DEF TaskPtr

(* A queue is untouched by changes to the wait_next of other tasks. *)
LEMMA ReachFrame ==
  ASSUME NEW next \in [Task -> TaskPtr], NEW new \in [Task -> TaskPtr],
         NEW h \in TaskPtr, \A u \in Reach(next, h) : new[u] = next[u]
  PROVE  /\ Reach(new, h) = Reach(next, h)
         /\ Ends(next, h) => Ends(new, h)
<1>1. CASE h = NULL
  BY <1>1, ReachNull
<1>2. CASE h \in Task
  <2>1. /\ h \in Reach(next, h) /\ Reach(next, h) \subseteq Task
        /\ \A u \in Reach(next, h) : next[u] \in Task => next[u] \in Reach(next, h)
    BY <1>2, ReachHas
  <2>2. Reach(new, h) \subseteq Reach(next, h)
    BY <1>2, <2>1, ReachLeast DEF TaskPtr
  <2>3. /\ h \in Reach(new, h) /\ Reach(new, h) \subseteq Task
        /\ \A u \in Reach(new, h) : new[u] \in Task => new[u] \in Reach(new, h)
    BY <1>2, ReachHas
  <2>4. Reach(next, h) \subseteq Reach(new, h)
    BY <1>2, <2>2, <2>3, ReachLeast DEF TaskPtr
  <2>. QED
    BY <2>2, <2>4 DEF Ends
<1>. QED
  BY <1>1, <1>2 DEF TaskPtr

(* "Add current task to the wait queue", at its end. *)
LEMMA ReachAppend ==
  ASSUME NEW next \in [Task -> TaskPtr], NEW h \in Task,
         NEW t \in Task, t \notin Reach(next, h), next[t] = NULL,
         NEW last \in Reach(next, h), next[last] = NULL
  PROVE  LET new == [next EXCEPT ![last] = t]
         IN  Reach(new, h) = Reach(next, h) \cup {t} /\ Ends(new, h)
<1>. DEFINE new == [next EXCEPT ![last] = t]
             R   == Reach(next, h)
<1>1. /\ h \in R /\ R \subseteq Task
      /\ \A u \in R : next[u] \in Task => next[u] \in R
  BY ReachHas
<1>2. /\ new \in [Task -> TaskPtr] /\ new[last] = t /\ new[t] = NULL
      /\ \A u \in Task \ {last} : new[u] = next[u]
  BY <1>1 DEF TaskPtr
<1>. HIDE DEF R, new
<1>3. Reach(new, h) \subseteq R \cup {t}
  <2>1. \A u \in R \cup {t} : new[u] # NULL => new[u] \in R \cup {t}
    BY <1>1, <1>2 DEF TaskPtr
  <2>2. R \cup {t} \in SUBSET Task
    BY <1>1
  <2>. QED
    BY <1>1, <2>1, <2>2, ReachLeast
<1>4. /\ h \in Reach(new, h) /\ Reach(new, h) \subseteq Task
      /\ \A u \in Reach(new, h) : new[u] \in Task => new[u] \in Reach(new, h)
  BY ReachHas
<1>5. R \subseteq Reach(new, h) \ {t}
  <2>1. \A u \in Reach(new, h) \ {t} :
          next[u] # NULL => next[u] \in Reach(new, h) \ {t}
    BY <1>1, <1>2, <1>3, <1>4 DEF TaskPtr, R
  <2>2. h # t
    BY <1>1 DEF R
  <2>. QED
    BY <1>4, <2>1, <2>2, ReachLeast DEF R
<1>6. t \in Reach(new, h)
  BY <1>2, <1>4, <1>5 DEF R
<1>. QED
  BY <1>2, <1>3, <1>5, <1>6, ZenonT(60) DEF R, new, Ends

(* A queue that ends has no task twice: its head is not among its successors. *)
LEMMA ReachPop ==
  ASSUME NEW next \in [Task -> TaskPtr], NEW h \in Task, Ends(next, h)
  PROVE  /\ Reach(next, next[h]) = Reach(next, h) \ {h}
         /\ Ends(next, next[h])
<1>1. PICK last \in Reach(next, h) : next[last] = NULL
  BY NAssumption DEF Ends, Task, NULL
<1>2. Reach(next, h) = {h} \cup Reach(next, next[h])
  BY ReachUnfolds
<1>3. ASSUME h \in Reach(next, next[h]) PROVE FALSE
  <2>. DEFINE A == {u \in Task : h \in Reach(next, u)}
  <2>1. next[h] \in Task
    BY <1>3, ReachNull DEF TaskPtr
  <2>2. next[h] \in A
    BY <1>3, <2>1
  <2>3. \A u \in A : next[u] # NULL => next[u] \in A
    BY <2>2, ReachUnfolds DEF TaskPtr
  <2>4. Reach(next, next[h]) \subseteq A
    BY <2>1, <2>2, <2>3, ReachLeast
  <2>5. last \in A
    BY <1>1, <1>2, <1>3, <2>4
  <2>6. h = last
    BY <1>1, <2>5, ReachUnfolds, ReachNull
  <2>. QED
    BY <1>1, <2>1, <2>6, NAssumption DEF Task, NULL
<1>4. Ends(next, next[h])
  BY <1>1, <1>2 DEF Ends, TaskPtr
<1>. QED
  BY <1>2, <1>3, <1>4

-----------------------------------------------------------------------------
(* Wait queues: what each operation does to all of them. *)

(* The queues are lists of their own: each has an end, and no task is in two. *)
QueuesApart ==
  /\ \A m \in Mutex : Ends(waitNext, mutexWaiters[m])
  /\ \A c \in Cond : Ends(waitNext, condWaiters[c])
  /\ \A m, n \in Mutex : m # n => MutexQueue(m) \cap MutexQueue(n) = {}
  /\ \A c, d \in Cond : c # d => CondQueue(c) \cap CondQueue(d) = {}
  /\ \A m \in Mutex, c \in Cond : MutexQueue(m) \cap CondQueue(c) = {}

Unqueued(t) ==
  /\ \A m \in Mutex : t \notin MutexQueue(m)
  /\ \A c \in Cond : t \notin CondQueue(c)

LEMMA LinkQueue ==
  ASSUME SyncTypeOK, NEW h \in TaskPtr, NEW t \in Task, Link(h, t),
         t \notin Reach(waitNext, h), Ends(waitNext, h)
  PROVE  /\ Reach(waitNext', HeadAfter(h, t)) = Reach(waitNext, h) \cup {t}
         /\ Ends(waitNext', HeadAfter(h, t))
         /\ \A g \in TaskPtr :
              /\ t \notin Reach(waitNext, g)
              /\ Reach(waitNext, g) \cap Reach(waitNext, h) = {}
              => /\ Reach(waitNext', g) = Reach(waitNext, g)
                 /\ Ends(waitNext, g) => Ends(waitNext', g)
<1>. DEFINE cut == [waitNext EXCEPT ![t] = NULL]
<1>1. /\ waitNext \in [Task -> TaskPtr] /\ cut \in [Task -> TaskPtr]
      /\ cut[t] = NULL /\ \A u \in Task \ {t} : cut[u] = waitNext[u]
  BY DEF SyncTypeOK, TaskPtr
<1>2. waitNext' \in [Task -> TaskPtr]
  BY LinkType
<1>3. CASE h = NULL
  <2>1. waitNext' = cut /\ HeadAfter(h, t) = t
    BY <1>3 DEF Link, HeadAfter
  <2>2. Reach(waitNext, h) = {} /\ Reach(cut, t) = {t}
    BY <1>1, <1>3, ReachNull, ReachUnfolds
  <2>3. Ends(cut, t)
    BY <1>1, <2>2 DEF Ends
  <2>4. \A g \in TaskPtr : Reach(waitNext, g) \subseteq Task
    BY ReachNull, ReachHas DEF TaskPtr
  <2>. HIDE DEF cut
  <2>. QED
    BY <1>1, <2>1, <2>2, <2>3, <2>4, ReachFrame
<1>4. CASE h \in Task
  <2>1. HeadAfter(h, t) = h /\ h # NULL
    BY <1>4, NAssumption DEF HeadAfter, Task, NULL
  <2>2. \E last \in Reach(cut, h) :
          cut[last] = NULL /\ waitNext' = [cut EXCEPT ![last] = t]
    BY <2>1 DEF Link
  <2>. HIDE DEF cut
  <2>3. Reach(waitNext, h) \subseteq Task
    BY <1>4, ReachHas
  <2>4. Reach(cut, h) = Reach(waitNext, h)
    <3>1. \A u \in Reach(waitNext, h) : cut[u] = waitNext[u]
      BY <1>1, <2>3
    <3>. QED
      BY <1>1, <1>4, <3>1, ReachFrame
  <2>5. PICK last \in Reach(cut, h) :
          cut[last] = NULL /\ waitNext' = [cut EXCEPT ![last] = t]
    BY <2>2
  <2>6. Reach(waitNext', h) = Reach(cut, h) \cup {t} /\ Ends(waitNext', h)
    <3>1. t \notin Reach(cut, h) /\ last \in Reach(cut, h)
      BY <2>4
    <3>2. LET new == [cut EXCEPT ![last] = t]
          IN  Reach(new, h) = Reach(cut, h) \cup {t} /\ Ends(new, h)
      BY <1>1, <1>4, <2>5, <3>1, ReachAppend
    <3>. QED
      BY <2>5, <3>2
  <2>7. ASSUME NEW g \in TaskPtr, t \notin Reach(waitNext, g),
               Reach(waitNext, g) \cap Reach(waitNext, h) = {}
        PROVE  \A u \in Reach(waitNext, g) : waitNext'[u] = waitNext[u]
    <3>1. Reach(waitNext, g) \subseteq Task
      BY ReachNull, ReachHas DEF TaskPtr
    <3>2. \A u \in Task \ {t, last} : waitNext'[u] = waitNext[u]
      BY <1>1, <2>5
    <3>. QED
      BY <2>4, <2>7, <3>1, <3>2
  <2>. QED
    BY <1>1, <1>2, <2>1, <2>4, <2>6, <2>7, ReachFrame
<1>. QED
  BY <1>3, <1>4 DEF TaskPtr

(* mutex_lock, the lock being taken: t joins the queue of m and no other. *)
LEMMA MutexWaitLinks ==
  ASSUME SyncTypeOK, QueuesApart, NEW t \in Task, Unqueued(t), NEW m \in Mutex,
         MutexWait(t, m)
  PROVE  /\ QueuesApart'
         /\ MutexQueue(m)' = MutexQueue(m) \cup {t}
         /\ \A n \in Mutex \ {m} : MutexQueue(n)' = MutexQueue(n)
         /\ \A c \in Cond : CondQueue(c)' = CondQueue(c)
<1>1. /\ mutexWaiters \in [Mutex -> TaskPtr] /\ condWaiters \in [Cond -> TaskPtr]
      /\ condWaiters' = condWaiters
      /\ mutexWaiters'[m] = HeadAfter(mutexWaiters[m], t)
      /\ \A n \in Mutex \ {m} : mutexWaiters'[n] = mutexWaiters[n]
  BY DEF SyncTypeOK, MutexWait
<1>2. Link(mutexWaiters[m], t)
  BY DEF MutexWait
<1>3. /\ Reach(waitNext', mutexWaiters'[m]) = MutexQueue(m) \cup {t}
      /\ Ends(waitNext', mutexWaiters'[m])
      /\ \A g \in TaskPtr :
           t \notin Reach(waitNext, g) /\ Reach(waitNext, g) \cap MutexQueue(m) = {}
           => /\ Reach(waitNext', g) = Reach(waitNext, g)
              /\ Ends(waitNext, g) => Ends(waitNext', g)
  BY <1>1, <1>2, LinkQueue DEF MutexQueue, QueuesApart, Unqueued
<1>4. \A n \in Mutex \ {m} :
        MutexQueue(n)' = MutexQueue(n) /\ Ends(waitNext', mutexWaiters'[n])
  BY <1>1, <1>3 DEF MutexQueue, QueuesApart, Unqueued
<1>5. \A c \in Cond : CondQueue(c)' = CondQueue(c) /\ Ends(waitNext', condWaiters'[c])
  BY <1>1, <1>3 DEF MutexQueue, CondQueue, QueuesApart, Unqueued
<1>6. MutexQueue(m)' = MutexQueue(m) \cup {t}
  BY <1>3 DEF MutexQueue
<1>7. QueuesApart'
  BY <1>3, <1>4, <1>5, <1>6 DEF QueuesApart, Unqueued
<1>. QED
  BY <1>4, <1>5, <1>6, <1>7

(* Where kmain's task can always be run, t goes BLOCKED and somebody RUNNING. *)
LEMMA MutexWaitQueues ==
  ASSUME SyncTypeOK, SchedTypeOK, QueuesApart, Runnable(state, Idle),
         NEW t \in Task \ {Idle}, Unqueued(t), NEW m \in Mutex, MutexWait(t, m)
  PROVE  /\ QueuesApart'
         /\ MutexQueue(m)' = MutexQueue(m) \cup {t}
         /\ \A n \in Mutex \ {m} : MutexQueue(n)' = MutexQueue(n)
         /\ \A c \in Cond : CondQueue(c)' = CondQueue(c)
         /\ state'[running'] = "RUNNING"
         /\ \A u \in Task : state'[u] = "BLOCKED" <=> u = t \/ state[u] = "BLOCKED"
         /\ \A u \in Task \ {t} : Runnable(state, u) => Runnable(state', u)
<1>. DEFINE st == [state EXCEPT ![t] = "BLOCKED"]
<1>1. /\ state'[running'] = "RUNNING"
      /\ \A u \in Task : state'[u] = "BLOCKED" <=> st[u] = "BLOCKED"
      /\ \A u \in Task : Runnable(st, u) => Runnable(state', u)
  <2>1. st \in [Task -> TaskState] /\ Runnable(st, Idle)
    BY DEF SchedTypeOK, TaskState, Runnable
  <2>2. timer_callback(st)
    BY DEF MutexWait
  <2>. HIDE DEF st
  <2>. QED
    BY <2>1, <2>2, TimerKeeps
<1>2. \A u \in Task : st[u] = IF u = t THEN "BLOCKED" ELSE state[u]
  BY DEF SchedTypeOK
<1>. HIDE DEF st
<1>. QED
  BY <1>1, <1>2, MutexWaitLinks DEF Runnable

(* mutex_unlock takes the first task out of the queue of m and makes it READY. *)
LEMMA UnlockQueues ==
  ASSUME SyncTypeOK, SchedTypeOK, NEW m \in Mutex, NEW st \in [Task -> TaskState],
         MutexUnlock(m, st), waitNext' \in [Task -> TaskPtr],
         Ends(waitNext', mutexWaiters[m])
  PROVE  /\ MutexQueue(m)' = Reach(waitNext', mutexWaiters[m]) \ {mutexWaiters[m]}
         /\ Ends(waitNext', mutexWaiters'[m])
         /\ \A n \in Mutex \ {m} : mutexWaiters'[n] = mutexWaiters[n]
         /\ \A u \in Task :
              state'[u] = IF u = mutexWaiters[m] THEN "READY" ELSE st[u]
<1>1. mutexWaiters \in [Mutex -> TaskPtr]
  BY DEF SyncTypeOK
<1>2. CASE mutexWaiters[m] = NULL
  <2>1. mutexWaiters' = mutexWaiters /\ state' = st
    BY <1>2 DEF MutexUnlock
  <2>. QED
    BY <1>2, <2>1, ReachNull, NAssumption DEF MutexQueue, Task, NULL
<1>3. CASE mutexWaiters[m] \in Task
  <2>1. mutexWaiters[m] # NULL
    BY <1>3, NAssumption DEF Task, NULL
  <2>2. /\ mutexWaiters' = [mutexWaiters EXCEPT ![m] = waitNext'[mutexWaiters[m]]]
        /\ state' = [st EXCEPT ![mutexWaiters[m]] = "READY"]
    BY <2>1 DEF MutexUnlock
  <2>3. mutexWaiters'[m] = waitNext'[mutexWaiters[m]]
    BY <1>1, <2>2
  <2>4. /\ Reach(waitNext', mutexWaiters'[m]) =
             Reach(waitNext', mutexWaiters[m]) \ {mutexWaiters[m]}
        /\ Ends(waitNext', mutexWaiters'[m])
    BY <1>3, <2>3, ReachPop
  <2>. QED
    BY <1>1, <2>2, <2>4 DEF MutexQueue
<1>. QED
  BY <1>1, <1>2, <1>3 DEF TaskPtr

(* monitor_exit. *)
LEMMA ExitQueues ==
  ASSUME SyncTypeOK, SchedTypeOK, QueuesApart, NEW m \in Mutex, MonitorExit(m)
  PROVE  /\ QueuesApart'
         /\ MutexQueue(m)' = MutexQueue(m) \ {mutexWaiters[m]}
         /\ \A n \in Mutex \ {m} : MutexQueue(n)' = MutexQueue(n)
         /\ \A c \in Cond : CondQueue(c)' = CondQueue(c)
         /\ \A u \in Task :
              state'[u] = IF u = mutexWaiters[m] THEN "READY" ELSE state[u]
<1>1. waitNext' = waitNext /\ condWaiters' = condWaiters /\ MutexUnlock(m, state)
  BY DEF MonitorExit
<1>2. /\ MutexQueue(m)' = MutexQueue(m) \ {mutexWaiters[m]}
      /\ Ends(waitNext', mutexWaiters'[m])
      /\ \A n \in Mutex \ {m} : mutexWaiters'[n] = mutexWaiters[n]
      /\ \A u \in Task :
           state'[u] = IF u = mutexWaiters[m] THEN "READY" ELSE state[u]
  BY <1>1, UnlockQueues DEF SyncTypeOK, SchedTypeOK, QueuesApart, MutexQueue
<1>3. /\ \A n \in Mutex \ {m} : MutexQueue(n)' = MutexQueue(n)
      /\ \A c \in Cond : CondQueue(c)' = CondQueue(c)
  BY <1>1, <1>2 DEF MutexQueue, CondQueue
<1>4. QueuesApart'
  BY <1>1, <1>2, <1>3 DEF QueuesApart
<1>. QED
  BY <1>2, <1>3, <1>4

(* cond_wait up to its mutex_unlock: t joins the queue of c, and the first task
   in the queue of the monitor's lock is made READY. *)
LEMMA CondBlockQueues ==
  ASSUME SyncTypeOK, SchedTypeOK, QueuesApart, NEW t \in Task, Unqueued(t),
         NEW c \in Cond, NEW m \in Mutex, m = c[1], CondBlock(t, c)
  PROVE  /\ QueuesApart'
         /\ CondQueue(c)' = CondQueue(c) \cup {t}
         /\ \A d \in Cond \ {c} : CondQueue(d)' = CondQueue(d)
         /\ MutexQueue(m)' = MutexQueue(m) \ {mutexWaiters[m]}
         /\ \A n \in Mutex \ {m} : MutexQueue(n)' = MutexQueue(n)
         /\ t # mutexWaiters[m]
         /\ \A u \in Task : state'[u] = IF u = mutexWaiters[m] THEN "READY"
                                        ELSE IF u = t THEN "BLOCKED" ELSE state[u]
<1>. DEFINE st == [state EXCEPT ![t] = "BLOCKED"]
<1>1. /\ mutexWaiters \in [Mutex -> TaskPtr] /\ condWaiters \in [Cond -> TaskPtr]
      /\ condWaiters'[c] = HeadAfter(condWaiters[c], t)
      /\ \A d \in Cond \ {c} : condWaiters'[d] = condWaiters[d]
  BY DEF SyncTypeOK, CondBlock
<1>2. Link(condWaiters[c], t) /\ MutexUnlock(m, st)
  BY DEF CondBlock
<1>3. /\ Reach(waitNext', condWaiters'[c]) = CondQueue(c) \cup {t}
      /\ Ends(waitNext', condWaiters'[c])
      /\ \A g \in TaskPtr :
           t \notin Reach(waitNext, g) /\ Reach(waitNext, g) \cap CondQueue(c) = {}
           => /\ Reach(waitNext', g) = Reach(waitNext, g)
              /\ Ends(waitNext, g) => Ends(waitNext', g)
  BY <1>1, <1>2, LinkQueue DEF CondQueue, QueuesApart, Unqueued
<1>4. \A d \in Cond \ {c} :
        CondQueue(d)' = CondQueue(d) /\ Ends(waitNext', condWaiters'[d])
  BY <1>1, <1>3 DEF CondQueue, QueuesApart, Unqueued
<1>5. \A n \in Mutex : /\ Reach(waitNext', mutexWaiters[n]) = MutexQueue(n)
                       /\ Ends(waitNext', mutexWaiters[n])
  BY <1>1, <1>3 DEF MutexQueue, CondQueue, QueuesApart, Unqueued
<1>6. /\ MutexQueue(m)' = MutexQueue(m) \ {mutexWaiters[m]}
      /\ Ends(waitNext', mutexWaiters'[m])
      /\ \A n \in Mutex \ {m} : mutexWaiters'[n] = mutexWaiters[n]
      /\ \A u \in Task : state'[u] = IF u = mutexWaiters[m] THEN "READY" ELSE st[u]
  <2>1. st \in [Task -> TaskState] /\ waitNext' \in [Task -> TaskPtr]
    BY <1>2, LinkType DEF SchedTypeOK, TaskState
  <2>. HIDE DEF st
  <2>. QED
    BY <1>2, <1>5, <2>1, UnlockQueues
<1>7. \A n \in Mutex \ {m} :
        MutexQueue(n)' = MutexQueue(n) /\ Ends(waitNext', mutexWaiters'[n])
  BY <1>5, <1>6 DEF MutexQueue
<1>8. CondQueue(c)' = CondQueue(c) \cup {t}
  BY <1>3 DEF CondQueue
<1>9. QueuesApart'
  BY <1>3, <1>4, <1>6, <1>7, <1>8 DEF QueuesApart, Unqueued
<1>10. t # mutexWaiters[m]
  BY ReachHas DEF Unqueued, MutexQueue
<1>11. \A u \in Task : st[u] = IF u = t THEN "BLOCKED" ELSE state[u]
  BY DEF SchedTypeOK
<1>. HIDE DEF st
<1>. QED
  BY <1>4, <1>6, <1>7, <1>8, <1>9, <1>10, <1>11

(* cond_signal takes the first task out of the queue of c, cond_broadcast all of
   them; whom they take out they make READY. *)
LEMMA SignalQueues ==
  ASSUME SyncTypeOK, SchedTypeOK, QueuesApart, NEW c \in Cond, CondSignal(c)
  PROVE  /\ QueuesApart'
         /\ CondQueue(c)' = CondQueue(c) \ {condWaiters[c]}
         /\ \A d \in Cond \ {c} : CondQueue(d)' = CondQueue(d)
         /\ \A m \in Mutex : MutexQueue(m)' = MutexQueue(m)
         /\ \A u \in Task :
              state'[u] = IF u = condWaiters[c] THEN "READY" ELSE state[u]
<1>1. condWaiters \in [Cond -> TaskPtr] /\ waitNext \in [Task -> TaskPtr]
  BY DEF SyncTypeOK
<1>2. mutexWaiters' = mutexWaiters /\ waitNext' = waitNext
  BY DEF CondSignal
<1>3. \A m \in Mutex : MutexQueue(m)' = MutexQueue(m)
  BY <1>2 DEF MutexQueue
<1>4. /\ CondQueue(c)' = CondQueue(c) \ {condWaiters[c]}
      /\ Ends(waitNext, condWaiters'[c])
      /\ \A d \in Cond \ {c} : condWaiters'[d] = condWaiters[d]
      /\ \A u \in Task : state'[u] = IF u = condWaiters[c] THEN "READY" ELSE state[u]
  <2>1. CASE condWaiters[c] = NULL
    <3>1. condWaiters' = condWaiters /\ state' = state
      BY <2>1 DEF CondSignal
    <3>. QED
      BY <1>2, <2>1, <3>1, ReachNull, NAssumption DEF CondQueue, Task, NULL
  <2>2. CASE condWaiters[c] \in Task
    <3>1. condWaiters[c] # NULL
      BY <2>2, NAssumption DEF Task, NULL
    <3>2. /\ condWaiters' = [condWaiters EXCEPT ![c] = waitNext[condWaiters[c]]]
          /\ state' = [state EXCEPT ![condWaiters[c]] = "READY"]
      BY <3>1 DEF CondSignal
    <3>3. condWaiters'[c] = waitNext[condWaiters[c]]
      BY <1>1, <3>2
    <3>4. /\ Reach(waitNext, condWaiters'[c]) = CondQueue(c) \ {condWaiters[c]}
          /\ Ends(waitNext, condWaiters'[c])
      BY <1>1, <2>2, <3>3, ReachPop DEF CondQueue, QueuesApart
    <3>. QED
      BY <1>1, <1>2, <3>2, <3>4 DEF CondQueue, SchedTypeOK
  <2>. QED
    BY <1>1, <2>1, <2>2 DEF TaskPtr
<1>5. \A d \in Cond \ {c} : CondQueue(d)' = CondQueue(d)
  BY <1>2, <1>4 DEF CondQueue
<1>6. QueuesApart'
  BY <1>2, <1>3, <1>4, <1>5 DEF QueuesApart
<1>. QED
  BY <1>3, <1>4, <1>5, <1>6

LEMMA BroadcastQueues ==
  ASSUME SyncTypeOK, SchedTypeOK, QueuesApart, NEW c \in Cond, CondBroadcast(c)
  PROVE  /\ QueuesApart'
         /\ CondQueue(c)' = {}
         /\ \A d \in Cond \ {c} : CondQueue(d)' = CondQueue(d)
         /\ \A m \in Mutex : MutexQueue(m)' = MutexQueue(m)
         /\ \A u \in Task :
              state'[u] = IF u \in CondQueue(c) THEN "READY" ELSE state[u]
<1>1. /\ mutexWaiters' = mutexWaiters /\ waitNext' = waitNext
      /\ condWaiters'[c] = NULL
      /\ \A d \in Cond \ {c} : condWaiters'[d] = condWaiters[d]
      /\ \A u \in Task : state'[u] = IF u \in CondQueue(c) THEN "READY" ELSE state[u]
  BY DEF CondBroadcast, SyncTypeOK, CondQueue
<1>2. /\ CondQueue(c)' = {} /\ Ends(waitNext', condWaiters'[c])
      /\ \A d \in Cond \ {c} : CondQueue(d)' = CondQueue(d)
      /\ \A m \in Mutex : MutexQueue(m)' = MutexQueue(m)
  BY <1>1, ReachNull DEF CondQueue, MutexQueue
<1>3. QueuesApart'
  BY <1>1, <1>2 DEF QueuesApart
<1>. QED
  BY <1>1, <1>2, <1>3
=============================================================================
