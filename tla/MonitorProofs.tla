--------------------------- MODULE MonitorProofs ----------------------------
(***************************************************************************)
(* The promises of monitor.c, for any number of tasks, of monitors and of  *)
(* condition variables.                                                    *)
(***************************************************************************)
EXTENDS MCMonitor, SyncProofs, FiniteSetTheorems, SequenceTheorems

-----------------------------------------------------------------------------
(* Types. *)

LEMMA MutexLockType ==
  ASSUME TypeOK, NEW t \in Task, NEW m \in Mutex, MutexLock(t, m)
  PROVE  SyncTypeOK' /\ SchedTypeOK' /\ pc' \in [Task -> Point]
BY MutexTakeType, MutexWaitType DEF MutexLock, TypeOK, Goto, Point

LEMMA TypeInit == Init => TypeOK
BY NAssumption
   DEF Init, SchedInit, SyncInit, TypeOK, SchedTypeOK, SyncTypeOK, Task,
       TaskState, Idle, TaskPtr, Point, NULL

(* A task that is in a call has a monitor to call. *)
InCall == \A t \in Task : pc[t] # "out" => mon[t] \in Mutex

LEMMA TypeNext == TypeOK /\ InCall /\ [Next]_vars => TypeOK' /\ InCall'
<1>. SUFFICES ASSUME TypeOK, InCall, [Next]_vars PROVE TypeOK' /\ InCall'
  OBVIOUS
<1>. USE DEF TypeOK, InCall
<1>1. CASE TimerIrq
  <2>1. SchedTypeOK'
    BY <1>1, TimerType DEF TimerIrq, SchedTypeOK
  <2>. QED
    BY <1>1, <2>1 DEF TimerIrq, SyncTypeOK, syncVars
<1>2. ASSUME NEW t \in Client, NEW m \in Mutex, Enter(t, m)
      PROVE  TypeOK' /\ InCall'
  BY <1>2, MutexLockType DEF Enter, MutexLock, Goto, Client
<1>3. ASSUME NEW t \in Client, Retry(t) \/ Relock(t) PROVE TypeOK' /\ InCall'
  <2>1. mon[t] \in Mutex /\ MutexLock(t, mon[t]) /\ mon' = mon
    BY <1>3 DEF Retry, Relock, At, Client
  <2>. QED
    BY <2>1, MutexLockType DEF MutexLock, Goto, Client
<1>4. ASSUME NEW t \in Client, Exit(t) PROVE TypeOK' /\ InCall'
  <2>1. mon[t] \in Mutex /\ waitNext' = waitNext /\ condWaiters' = condWaiters
    BY <1>4 DEF Exit, At, MonitorExit, Client
  <2>2. SyncTypeOK' /\ SchedTypeOK'
    BY <1>4, <2>1, UnlockType DEF Exit, MonitorExit, SchedTypeOK, SyncTypeOK
  <2>. QED
    BY <1>4, <2>2 DEF Exit, Goto, Client, Point
<1>5. ASSUME NEW t \in Client, YieldInWait(t) PROVE TypeOK' /\ InCall'
  <2>1. SchedTypeOK'
    BY <1>5, TimerType DEF YieldInWait, SchedTypeOK
  <2>. QED
    BY <1>5, <2>1 DEF YieldInWait, SyncTypeOK, syncVars, Goto, At, Client, Point
<1>6. ASSUME NEW t \in Client, NEW i \in 0 .. MAX_MONITOR_CONDS - 1, CallOn(t, i)
      PROVE  TypeOK' /\ InCall'
  <2>1. <<mon[t], i>> \in Cond
    BY <1>6 DEF CallOn, Wait, Notify, NotifyAll, At, Cond, Client
  <2>2. SyncTypeOK' /\ SchedTypeOK'
    BY <1>6, <2>1, CondBlockType, SignalType
       DEF CallOn, Wait, Notify, NotifyAll, Client
  <2>. QED
    BY <1>6, <2>2 DEF CallOn, Wait, Notify, NotifyAll, At, Goto, Client, Point
<1>7. CASE UNCHANGED vars
  BY <1>7 DEF vars, schedVars, syncVars, SchedTypeOK, SyncTypeOK
<1>. QED
  BY <1>1, <1>2, <1>3, <1>4, <1>5, <1>6, <1>7 DEF Next, Step

(* mutex.c, cond.c: every queue head and every wait_next is NULL or a task. *)
THEOREM TypeCorrect == Spec => [](TypeOK /\ InCall)
<1>1. Init => InCall
  BY DEF Init, InCall
<1>. QED
  BY TypeInit, TypeNext, <1>1, PTL DEF Spec

-----------------------------------------------------------------------------
(* The inductive half of mutual exclusion: the lock of the monitor a task is
   inside is taken and records that task.  The other half follows from it. *)
LockInv ==
  \A t \in Task : pc[t] = "in" => locked[mon[t]] /\ owner[mon[t]] = t

LEMMA LockInvLock ==
  ASSUME TypeOK, InCall, LockInv, NEW t \in Task, NEW m \in Mutex,
         MutexLock(t, m), mon' = [mon EXCEPT ![t] = m], pc[t] # "in"
  PROVE  LockInv'
<1>1. CASE MutexTake(t, m) /\ Goto(t, "in")
  BY <1>1 DEF MutexTake, Goto, LockInv, InCall, TypeOK, SyncTypeOK
<1>2. CASE MutexWait(t, m) /\ Goto(t, "retry")
  BY <1>2 DEF MutexWait, Goto, LockInv, TypeOK, SyncTypeOK
<1>. QED
  BY <1>1, <1>2 DEF MutexLock

LEMMA LockInvNext == TypeOK /\ InCall /\ LockInv /\ [Next]_vars => LockInv'
<1>. SUFFICES ASSUME TypeOK, InCall, LockInv, [Next]_vars PROVE LockInv'
  OBVIOUS
<1>1. CASE TimerIrq
  BY <1>1 DEF TimerIrq, LockInv, syncVars
<1>2. ASSUME NEW t \in Client, NEW m \in Mutex, Enter(t, m) PROVE LockInv'
  BY <1>2, LockInvLock DEF Enter, At, Client
<1>3. ASSUME NEW t \in Client, Retry(t) \/ Relock(t) PROVE LockInv'
  <2>1. mon[t] \in Mutex /\ MutexLock(t, mon[t]) /\ mon' = mon /\ pc[t] # "in"
    BY <1>3 DEF Retry, Relock, At, Client, InCall
  <2>2. mon' = [mon EXCEPT ![t] = mon[t]]
    BY <2>1 DEF TypeOK
  <2>. QED
    BY <2>1, <2>2, LockInvLock DEF Client
<1>4. ASSUME NEW t \in Client, Exit(t) PROVE LockInv'
  BY <1>4 DEF Exit, MonitorExit, MutexUnlock, At, Goto, LockInv, InCall, TypeOK,
              SyncTypeOK, Client
<1>5. ASSUME NEW t \in Client, YieldInWait(t) PROVE LockInv'
  BY <1>5 DEF YieldInWait, Goto, LockInv, TypeOK, syncVars
<1>6. ASSUME NEW t \in Client, NEW i \in 0 .. MAX_MONITOR_CONDS - 1, CallOn(t, i)
      PROVE  LockInv'
  <2>1. CASE Wait(t, i)
    BY <2>1 DEF Wait, CondBlock, MutexUnlock, At, Goto, LockInv, InCall, TypeOK,
                SyncTypeOK, Client
  <2>2. CASE Notify(t, i) \/ NotifyAll(t, i)
    BY <2>2 DEF Notify, NotifyAll, CondSignal, CondBroadcast, LockInv
  <2>. QED
    BY <1>6, <2>1, <2>2 DEF CallOn
<1>7. CASE UNCHANGED vars
  BY <1>7 DEF vars, syncVars, LockInv
<1>. QED
  BY <1>1, <1>2, <1>3, <1>4, <1>5, <1>6, <1>7 DEF Next, Step

(* mutex.c: two tasks are never inside the same monitor, and the lock of each
   monitor that a task is inside is taken in that task's name. *)
THEOREM MonitorsExclude == Spec => []MutualExclusion
<1>1. Init => LockInv
  BY DEF Init, LockInv
<1>2. LockInv => MutualExclusion
  BY DEF LockInv, MutualExclusion
<1>. QED
  BY TypeCorrect, LockInvNext, <1>1, <1>2, PTL DEF Spec

-----------------------------------------------------------------------------
(* The queues.  QueuesHoldTheBlocked relates each queue to the tasks' states; a
   step preserves it because the task on the CPU is in no queue, which holds
   because schedule() gives the CPU to RUNNING tasks only, which holds because
   kmain's loop is always there to be picked. *)
QueueInv ==
  /\ QueuesApart
  /\ Runnable(state, Idle)
  /\ state[running] = "RUNNING" \/ pc[running] = "yield"
  /\ \A t \in Task : \A m \in Mutex :
       t \in MutexQueue(m) <=>
         state[t] = "BLOCKED" /\ pc[t] = "retry" /\ mon[t] = m
  /\ \A t \in Task : \A c \in Cond :
       t \in CondQueue(c) =>
         state[t] = "BLOCKED" /\ pc[t] \in {"yield", "relock"} /\ mon[t] = c[1]
  /\ \A t \in Task :
       state[t] = "BLOCKED" /\ pc[t] \in {"yield", "relock"} =>
         \E c \in Cond : t \in CondQueue(c)

LEMMA RunnerUnqueued ==
  ASSUME QueueInv, running \in Task, pc[running] # "yield"
  PROVE  Unqueued(running) /\ state[running] = "RUNNING"
BY DEF QueueInv, Unqueued

LEMMA QueueInvTimer ==
  ASSUME TypeOK, QueueInv, timer_callback(state), UNCHANGED <<syncVars, mon>>,
         \/ pc' = pc
         \/ \E t \in Task : pc[t] = "yield" /\ pc' = [pc EXCEPT ![t] = "relock"]
  PROVE  QueueInv'
<1>1. /\ state'[running'] = "RUNNING"
      /\ \A t \in Task : state'[t] = "BLOCKED" <=> state[t] = "BLOCKED"
      /\ Runnable(state', Idle)
  BY TimerKeeps, NAssumption DEF TypeOK, SchedTypeOK, QueueInv, Task, Idle
<1>2. /\ \A m \in Mutex : MutexQueue(m)' = MutexQueue(m)
      /\ \A c \in Cond : CondQueue(c)' = CondQueue(c)
  BY DEF syncVars, MutexQueue, CondQueue
<1>3. QueuesApart'
  BY <1>2 DEF QueueInv, QueuesApart, syncVars
<1>4. \A t \in Task : /\ pc'[t] = "retry" <=> pc[t] = "retry"
                      /\ pc'[t] \in {"yield", "relock"} <=> pc[t] \in {"yield", "relock"}
  BY DEF TypeOK
<1>. QED
  BY <1>1, <1>2, <1>3, <1>4 DEF QueueInv

(* mutex_lock of a task that is not waiting. *)
LEMMA QueueInvLock ==
  ASSUME TypeOK, QueueInv, NEW t \in Client, NEW m \in Mutex, running = t,
         pc[t] # "yield", MutexLock(t, m), mon' = [mon EXCEPT ![t] = m]
  PROVE  QueueInv'
<1>1. Unqueued(t) /\ state[t] = "RUNNING" /\ t \in Task \ {Idle}
  BY RunnerUnqueued DEF Client
<1>2. \A u \in Task \ {t} : pc'[u] = pc[u] /\ mon'[u] = mon[u]
  BY DEF MutexLock, Goto, TypeOK
<1>3. mon'[t] = m
  BY <1>1 DEF TypeOK
<1>4. CASE MutexTake(t, m) /\ Goto(t, "in")
  <2>1. /\ UNCHANGED schedVars
        /\ \A n \in Mutex : MutexQueue(n)' = MutexQueue(n)
        /\ \A c \in Cond : CondQueue(c)' = CondQueue(c)
    BY <1>4 DEF MutexTake, MutexQueue, CondQueue
  <2>2. QueuesApart'
    BY <1>4, <2>1 DEF QueueInv, QueuesApart, MutexTake
  <2>3. pc'[t] = "in"
    BY <1>1, <1>4 DEF Goto, TypeOK
  <2>. QED
    BY <1>1, <1>2, <2>1, <2>2, <2>3 DEF QueueInv, Unqueued, schedVars
<1>5. CASE MutexWait(t, m) /\ Goto(t, "retry")
  <2>1. pc'[t] = "retry"
    BY <1>1, <1>5 DEF Goto, TypeOK
  <2>2. /\ QueuesApart'
        /\ MutexQueue(m)' = MutexQueue(m) \cup {t}
        /\ \A n \in Mutex \ {m} : MutexQueue(n)' = MutexQueue(n)
        /\ \A c \in Cond : CondQueue(c)' = CondQueue(c)
        /\ state'[running'] = "RUNNING"
        /\ \A u \in Task : state'[u] = "BLOCKED" <=> u = t \/ state[u] = "BLOCKED"
        /\ \A u \in Task \ {t} : Runnable(state, u) => Runnable(state', u)
    BY <1>1, <1>5, MutexWaitQueues DEF TypeOK, QueueInv
  <2>3. Runnable(state', Idle)
    BY <1>1, <2>2, NAssumption DEF QueueInv, Task, Idle
  <2>. QED
    BY <1>1, <1>2, <1>3, <2>1, <2>2, <2>3 DEF QueueInv, Unqueued
<1>. QED
  BY <1>4, <1>5 DEF MutexLock

LEMMA QueueInvExit ==
  ASSUME TypeOK, InCall, QueueInv, NEW t \in Client, Exit(t)
  PROVE  QueueInv'
<1>1. PICK m \in Mutex : m = mon[t]
  BY DEF Exit, At, InCall, Client
<1>. running = t /\ pc[t] = "in" /\ t \in Task /\ MonitorExit(m)
  BY <1>1 DEF Exit, At, Client
<1>2. Unqueued(t) /\ state[t] = "RUNNING"
  BY RunnerUnqueued
<1>3. pc'[t] = "out" /\ \A u \in Task \ {t} : pc'[u] = pc[u] /\ mon'[u] = mon[u]
  BY DEF Exit, Goto, TypeOK
<1>4. /\ QueuesApart'
      /\ MutexQueue(m)' = MutexQueue(m) \ {mutexWaiters[m]}
      /\ \A n \in Mutex \ {m} : MutexQueue(n)' = MutexQueue(n)
      /\ \A c \in Cond : CondQueue(c)' = CondQueue(c)
      /\ \A u \in Task :
           state'[u] = IF u = mutexWaiters[m] THEN "READY" ELSE state[u]
  BY ExitQueues DEF TypeOK, QueueInv
<1>5. mutexWaiters[m] \in Task => mutexWaiters[m] \in MutexQueue(m)
  BY ReachHas DEF MutexQueue
<1>6. Runnable(state', Idle)
  BY <1>4, NAssumption DEF QueueInv, Runnable, Task, Idle
<1>7. running' = t
  BY DEF MonitorExit, MutexUnlock
<1>8. state'[t] = "RUNNING"
  BY <1>2, <1>4, <1>5 DEF Unqueued
<1>. QED
  BY <1>1, <1>2, <1>3, <1>4, <1>5, <1>6, <1>7, <1>8 DEF QueueInv, Unqueued

LEMMA QueueInvWait ==
  ASSUME TypeOK, InCall, QueueInv, NEW t \in Client,
         NEW i \in 0 .. MAX_MONITOR_CONDS - 1, Wait(t, i)
  PROVE  QueueInv'
<1>1. PICK m \in Mutex : m = mon[t]
  BY DEF Wait, At, InCall, Client
<1>. DEFINE c == <<m, i>>
<1>2. c \in Cond /\ c[1] = m /\ CondBlock(t, c)
  BY <1>1 DEF Wait, Cond
<1>. HIDE DEF c
<1>. running = t /\ pc[t] = "in" /\ t \in Task \ {Idle} /\ mon' = mon
  BY DEF Wait, At, Client
<1>3. Unqueued(t) /\ state[t] = "RUNNING"
  BY RunnerUnqueued
<1>4. pc'[t] = "yield" /\ \A u \in Task \ {t} : pc'[u] = pc[u]
  BY DEF Wait, Goto, TypeOK
<1>5. /\ QueuesApart'
      /\ CondQueue(c)' = CondQueue(c) \cup {t}
      /\ \A d \in Cond \ {c} : CondQueue(d)' = CondQueue(d)
      /\ MutexQueue(m)' = MutexQueue(m) \ {mutexWaiters[m]}
      /\ \A n \in Mutex \ {m} : MutexQueue(n)' = MutexQueue(n)
      /\ t # mutexWaiters[m]
      /\ \A u \in Task : state'[u] = IF u = mutexWaiters[m] THEN "READY"
                                     ELSE IF u = t THEN "BLOCKED" ELSE state[u]
  BY <1>2, <1>3, CondBlockQueues DEF TypeOK, QueueInv
<1>6. mutexWaiters[m] \in Task => mutexWaiters[m] \in MutexQueue(m)
  BY ReachHas DEF MutexQueue
<1>7. Runnable(state', Idle)
  BY <1>5, NAssumption DEF QueueInv, Runnable, Task, Idle
<1>8. running' = t
  BY <1>2 DEF CondBlock, MutexUnlock
<1>9. state'[t] = "BLOCKED"
  BY <1>5
<1>. QED
  BY <1>1, <1>2, <1>3, <1>4, <1>5, <1>6, <1>7, <1>8, <1>9 DEF QueueInv, Unqueued

LEMMA QueueInvNotify ==
  ASSUME TypeOK, InCall, QueueInv, NEW t \in Client,
         NEW i \in 0 .. MAX_MONITOR_CONDS - 1, Notify(t, i) \/ NotifyAll(t, i)
  PROVE  QueueInv'
<1>1. PICK m \in Mutex : m = mon[t]
  BY DEF Notify, NotifyAll, At, InCall, Client
<1>. DEFINE c == <<m, i>>
<1>2. c \in Cond /\ (CondSignal(c) \/ CondBroadcast(c))
  BY <1>1 DEF Notify, NotifyAll, Cond
<1>. HIDE DEF c
<1>. /\ running = t /\ pc[t] = "in" /\ t \in Task
     /\ mon' = mon /\ pc' = pc /\ running' = running
  BY <1>2 DEF Notify, NotifyAll, At, Client, CondSignal, CondBroadcast
<1>3. Unqueued(t) /\ state[t] = "RUNNING"
  BY RunnerUnqueued
<1>4. condWaiters[c] \in Task => condWaiters[c] \in CondQueue(c)
  BY ReachHas DEF CondQueue
<1>5. PICK woken \in SUBSET CondQueue(c) :
        /\ QueuesApart'
        /\ CondQueue(c)' = CondQueue(c) \ woken
        /\ \A d \in Cond \ {c} : CondQueue(d)' = CondQueue(d)
        /\ \A n \in Mutex : MutexQueue(n)' = MutexQueue(n)
        /\ \A u \in Task : state'[u] = IF u \in woken THEN "READY" ELSE state[u]
  <2>1. CASE CondSignal(c)
    <3>. DEFINE woken == {condWaiters[c]} \cap CondQueue(c)
    <3>1. /\ QueuesApart'
          /\ CondQueue(c)' = CondQueue(c) \ {condWaiters[c]}
          /\ \A d \in Cond \ {c} : CondQueue(d)' = CondQueue(d)
          /\ \A n \in Mutex : MutexQueue(n)' = MutexQueue(n)
          /\ \A u \in Task :
               state'[u] = IF u = condWaiters[c] THEN "READY" ELSE state[u]
      BY <1>2, <2>1, SignalQueues DEF TypeOK, QueueInv
    <3>2. /\ woken \in SUBSET CondQueue(c)
          /\ CondQueue(c)' = CondQueue(c) \ woken
          /\ \A u \in Task : state'[u] = IF u \in woken THEN "READY" ELSE state[u]
      BY <1>4, <3>1
    <3>. QED
      BY <3>1, <3>2
  <2>2. CASE CondBroadcast(c)
    <3>1. /\ QueuesApart'
          /\ CondQueue(c)' = CondQueue(c) \ CondQueue(c)
          /\ \A d \in Cond \ {c} : CondQueue(d)' = CondQueue(d)
          /\ \A n \in Mutex : MutexQueue(n)' = MutexQueue(n)
          /\ \A u \in Task :
               state'[u] = IF u \in CondQueue(c) THEN "READY" ELSE state[u]
      BY <1>2, <2>2, BroadcastQueues DEF TypeOK, QueueInv
    <3>2. CondQueue(c) \in SUBSET CondQueue(c)
      OBVIOUS
    <3>. QED
      BY <3>1, <3>2
  <2>. QED
    BY <1>2, <2>1, <2>2
<1>6. Runnable(state', Idle)
  BY <1>5, NAssumption DEF QueueInv, Runnable, Task, Idle
<1>7. state'[t] = "RUNNING"
  BY <1>2, <1>3, <1>5 DEF Unqueued
<1>8. \A u \in Task : \A n \in Mutex :
        u \in MutexQueue(n)' <=>
          state'[u] = "BLOCKED" /\ pc'[u] = "retry" /\ mon'[u] = n
  BY <1>2, <1>5 DEF QueueInv
<1>9. \A u \in Task : \A d \in Cond :
        u \in CondQueue(d)' =>
          state'[u] = "BLOCKED" /\ pc'[u] \in {"yield", "relock"} /\ mon'[u] = d[1]
  <2>1. ASSUME NEW u \in Task, NEW d \in Cond, u \in CondQueue(d)'
        PROVE  u \in CondQueue(d) /\ u \notin woken
    BY <1>2, <1>5, <2>1 DEF QueueInv, QueuesApart
  <2>. QED
    BY <1>5, <2>1 DEF QueueInv
<1>10. \A u \in Task :
        state'[u] = "BLOCKED" /\ pc'[u] \in {"yield", "relock"} =>
          \E d \in Cond : u \in CondQueue(d)'
  <2>1. ASSUME NEW u \in Task, state'[u] = "BLOCKED", pc[u] \in {"yield", "relock"}
        PROVE  \E d \in Cond : u \in CondQueue(d)'
    <3>1. u \notin woken /\ state[u] = "BLOCKED"
      BY <1>5, <2>1
    <3>2. PICK d \in Cond : u \in CondQueue(d)
      BY <2>1, <3>1 DEF QueueInv
    <3>. QED
      BY <1>5, <3>1, <3>2
  <2>. QED
    BY <2>1
<1>. QED
  BY <1>5, <1>6, <1>7, <1>8, <1>9, <1>10 DEF QueueInv

LEMMA QueueInvNext == TypeOK /\ InCall /\ QueueInv /\ [Next]_vars => QueueInv'
<1>. SUFFICES ASSUME TypeOK, InCall, QueueInv, [Next]_vars PROVE QueueInv'
  OBVIOUS
<1>1. CASE TimerIrq
  BY <1>1, QueueInvTimer DEF TimerIrq
<1>2. ASSUME NEW t \in Client, NEW m \in Mutex, Enter(t, m) PROVE QueueInv'
  BY <1>2, QueueInvLock DEF Enter, At
<1>3. ASSUME NEW t \in Client, Retry(t) \/ Relock(t) PROVE QueueInv'
  <2>1. /\ mon[t] \in Mutex /\ MutexLock(t, mon[t]) /\ running = t
        /\ pc[t] # "yield" /\ mon' = [mon EXCEPT ![t] = mon[t]]
    BY <1>3 DEF Retry, Relock, At, Client, InCall, TypeOK
  <2>. QED
    BY <2>1, QueueInvLock
<1>4. ASSUME NEW t \in Client, YieldInWait(t) PROVE QueueInv'
  BY <1>4, QueueInvTimer DEF YieldInWait, At, Goto, Client
<1>5. ASSUME NEW t \in Client, NEW i \in 0 .. MAX_MONITOR_CONDS - 1, CallOn(t, i)
      PROVE  QueueInv'
  BY <1>5, QueueInvWait, QueueInvNotify DEF CallOn
<1>6. CASE UNCHANGED vars
  BY <1>6 DEF vars, schedVars, syncVars, QueueInv, QueuesApart, MutexQueue,
              CondQueue, Runnable
<1>. QED
  BY <1>1, <1>2, <1>3, <1>4, <1>5, <1>6, QueueInvExit DEF Next, Step

LEMMA QueueInvInit == Init => QueueInv
<1>. SUFFICES ASSUME Init PROVE QueueInv
  OBVIOUS
<1>1. /\ \A m \in Mutex : MutexQueue(m) = {} /\ Ends(waitNext, mutexWaiters[m])
      /\ \A c \in Cond : CondQueue(c) = {} /\ Ends(waitNext, condWaiters[c])
  BY ReachNull DEF Init, SyncInit, MutexQueue, CondQueue
<1>2. Runnable(state, Idle) /\ state[running] = "RUNNING"
  BY NAssumption DEF Init, SchedInit, Runnable, Task, Idle
<1>3. \A t \in Task : pc[t] = "out"
  BY DEF Init
<1>. QED
  BY <1>1, <1>2, <1>3 DEF QueueInv, QueuesApart

LEMMA QueueInvHolds == TypeOK /\ QueueInv => QueuesHoldTheBlocked
<1>. SUFFICES ASSUME TypeOK, QueueInv PROVE QueuesHoldTheBlocked
  OBVIOUS
<1>1. \A h \in TaskPtr : Reach(waitNext, h) \subseteq Task
  BY ReachNull, ReachHas DEF TaskPtr
<1>2. /\ \A m \in Mutex : MutexQueue(m) \subseteq Task
      /\ \A c \in Cond : CondQueue(c) \subseteq Task
  BY <1>1 DEF MutexQueue, CondQueue, TypeOK, SyncTypeOK
<1>3. ASSUME NEW m \in Mutex
      PROVE  MutexQueue(m) = {t \in Task : /\ state[t] = "BLOCKED"
                                           /\ pc[t] = "retry" /\ mon[t] = m}
  BY <1>2 DEF QueueInv
<1>4. ASSUME NEW m \in Mutex
      PROVE  UNION {CondQueue(<<m, i>>) : i \in 0 .. MAX_MONITOR_CONDS - 1} =
               {t \in Task : /\ state[t] = "BLOCKED"
                             /\ pc[t] \in {"yield", "relock"} /\ mon[t] = m}
  <2>1. ASSUME NEW i \in 0 .. MAX_MONITOR_CONDS - 1, NEW t \in CondQueue(<<m, i>>)
        PROVE  /\ t \in Task /\ state[t] = "BLOCKED"
               /\ pc[t] \in {"yield", "relock"} /\ mon[t] = m
    <3>1. <<m, i>> \in Cond /\ <<m, i>>[1] = m
      BY DEF Cond
    <3>. QED
      BY <1>2, <3>1 DEF QueueInv
  <2>2. ASSUME NEW t \in Task, state[t] = "BLOCKED", pc[t] \in {"yield", "relock"},
               mon[t] = m
        PROVE  \E i \in 0 .. MAX_MONITOR_CONDS - 1 : t \in CondQueue(<<m, i>>)
    <3>1. PICK c \in Cond : t \in CondQueue(c)
      BY <2>2 DEF QueueInv
    <3>2. c[1] = m
      BY <2>2, <3>1 DEF QueueInv
    <3>3. c = <<m, c[2]>> /\ c[2] \in 0 .. MAX_MONITOR_CONDS - 1
      BY <3>2 DEF Cond
    <3>. QED
      BY <3>1, <3>3
  <2>. QED
    BY <2>1, <2>2
<1>. QED
  BY <1>3, <1>4 DEF QueueInv, QueuesApart, QueuesHoldTheBlocked

(* mutex.c, cond.c: whatever the tasks call and wherever they are preempted, a
   wait queue is a list with an end that holds exactly the tasks waiting for it,
   all of them BLOCKED. *)
THEOREM QueuesAlwaysHoldTheBlocked == Spec => []QueuesHoldTheBlocked
BY TypeCorrect, QueueInvInit, QueueInvNext, QueueInvHolds, PTL DEF Spec

-----------------------------------------------------------------------------
(* WakeupPending is inductive together with the queues: mutex_unlock makes READY
   the task at the head of the queue, which is in mutex_lock for that lock. *)
LEMMA WakeupInit == Init => WakeupPending
BY DEF Init, SyncInit, WakeupPending

LEMMA WakeupTimer ==
  ASSUME TypeOK, QueueInv, WakeupPending, timer_callback(state),
         UNCHANGED <<syncVars, mon>>,
         \/ pc' = pc
         \/ \E t \in Task : pc[t] = "yield" /\ pc' = [pc EXCEPT ![t] = "relock"]
  PROVE  WakeupPending'
<1>1. \A t \in Task : Runnable(state, t) => Runnable(state', t)
  BY TimerKeeps DEF TypeOK, SchedTypeOK, QueueInv
<1>2. \A t \in Task : pc[t] = "retry" => pc'[t] = "retry"
  BY DEF TypeOK
<1>. QED
  BY <1>1, <1>2 DEF WakeupPending, syncVars

LEMMA WakeupLock ==
  ASSUME TypeOK, QueueInv, WakeupPending, NEW t \in Client, NEW m \in Mutex,
         running = t, pc[t] # "yield", pc[t] = "retry" => mon[t] = m,
         MutexLock(t, m), mon' = [mon EXCEPT ![t] = m]
  PROVE  WakeupPending'
<1>1. Unqueued(t) /\ t \in Task \ {Idle}
  BY RunnerUnqueued DEF Client
<1>2. \A u \in Task \ {t} : pc'[u] = pc[u] /\ mon'[u] = mon[u]
  BY DEF MutexLock, Goto, TypeOK
<1>3. locked'[m] /\ \A n \in Mutex \ {m} : /\ locked'[n] = locked[n]
                                           /\ mutexWaiters'[n] = mutexWaiters[n]
  BY DEF MutexLock, MutexTake, MutexWait, TypeOK, SyncTypeOK
<1>4. \A u \in Task \ {t} : Runnable(state, u) => Runnable(state', u)
  <2>1. CASE MutexTake(t, m)
    BY <2>1 DEF MutexTake, schedVars
  <2>2. CASE MutexWait(t, m)
    BY <1>1, <2>2, MutexWaitQueues DEF TypeOK, QueueInv
  <2>. QED
    BY <2>1, <2>2 DEF MutexLock
<1>5. ASSUME NEW n \in Mutex, ~locked'[n], mutexWaiters'[n] # NULL
      PROVE  \E u \in Task : pc'[u] = "retry" /\ mon'[u] = n /\ Runnable(state', u)
  <2>1. n # m
    BY <1>3, <1>5
  <2>2. PICK u \in Task : pc[u] = "retry" /\ mon[u] = n /\ Runnable(state, u)
    BY <1>3, <1>5, <2>1 DEF WakeupPending
  <2>. QED
    BY <1>2, <1>4, <2>1, <2>2
<1>. QED
  BY <1>5 DEF WakeupPending

(* mutex_unlock, in monitor_exit and in cond_wait: what it leaves in the queue of
   m has somebody READY before it. *)
LEMMA WakeupUnlock ==
  ASSUME TypeOK, QueueInv, WakeupPending, NEW t \in Task, pc[t] = "in",
         NEW m \in Mutex, NEW st \in [Task -> TaskState], MutexUnlock(m, st),
         \A u \in Task \ {t} : /\ st[u] = state[u]
                               /\ pc'[u] = pc[u]
                               /\ mon'[u] = mon[u]
  PROVE  WakeupPending'
<1>1. /\ \A n \in Mutex \ {m} : /\ locked'[n] = locked[n]
                                /\ mutexWaiters'[n] = mutexWaiters[n]
      /\ mutexWaiters[m] = NULL => mutexWaiters'[m] = NULL
      /\ mutexWaiters[m] # NULL => state' = [st EXCEPT ![mutexWaiters[m]] = "READY"]
      /\ \A u \in Task : Runnable(st, u) => Runnable(state', u)
  BY DEF MutexUnlock, TypeOK, SyncTypeOK, Runnable
<1>2. ASSUME mutexWaiters[m] # NULL
      PROVE  \E u \in Task : pc'[u] = "retry" /\ mon'[u] = m /\ Runnable(state', u)
  <2>1. PICK w \in Task : w = mutexWaiters[m]
    BY <1>2 DEF TypeOK, SyncTypeOK, TaskPtr
  <2>2. w \in MutexQueue(m)
    BY <2>1, ReachHas DEF MutexQueue
  <2>3. pc[w] = "retry" /\ mon[w] = m /\ w # t
    BY <2>2 DEF QueueInv
  <2>4. state'[w] = "READY"
    BY <1>1, <1>2, <2>1
  <2>. QED
    BY <2>3, <2>4 DEF Runnable
<1>3. ASSUME NEW n \in Mutex \ {m}, ~locked'[n], mutexWaiters'[n] # NULL
      PROVE  \E u \in Task : pc'[u] = "retry" /\ mon'[u] = n /\ Runnable(state', u)
  <2>1. PICK u \in Task : pc[u] = "retry" /\ mon[u] = n /\ Runnable(state, u)
    BY <1>1, <1>3 DEF WakeupPending
  <2>2. u # t /\ Runnable(st, u)
    BY <2>1 DEF Runnable
  <2>. QED
    BY <1>1, <2>1, <2>2
<1>. QED
  BY <1>1, <1>2, <1>3 DEF WakeupPending

LEMMA WakeupNext ==
  TypeOK /\ InCall /\ QueueInv /\ WakeupPending /\ [Next]_vars => WakeupPending'
<1>. SUFFICES ASSUME TypeOK, InCall, QueueInv, WakeupPending, [Next]_vars
              PROVE  WakeupPending'
  OBVIOUS
<1>1. CASE TimerIrq
  BY <1>1, WakeupTimer DEF TimerIrq
<1>2. ASSUME NEW t \in Client, NEW m \in Mutex, Enter(t, m) PROVE WakeupPending'
  BY <1>2, WakeupLock DEF Enter, At
<1>3. ASSUME NEW t \in Client, Retry(t) \/ Relock(t) PROVE WakeupPending'
  <2>1. /\ mon[t] \in Mutex /\ MutexLock(t, mon[t]) /\ running = t
        /\ pc[t] # "yield" /\ mon' = [mon EXCEPT ![t] = mon[t]]
    BY <1>3 DEF Retry, Relock, At, Client, InCall, TypeOK
  <2>. QED
    BY <2>1, WakeupLock
<1>4. ASSUME NEW t \in Client, Exit(t) PROVE WakeupPending'
  <2>1. /\ t \in Task /\ pc[t] = "in" /\ mon[t] \in Mutex
        /\ MutexUnlock(mon[t], state) /\ state \in [Task -> TaskState]
    BY <1>4 DEF Exit, At, Client, InCall, MonitorExit, TypeOK, SchedTypeOK
  <2>2. \A u \in Task \ {t} : pc'[u] = pc[u] /\ mon'[u] = mon[u]
    BY <1>4 DEF Exit, Goto, TypeOK
  <2>. QED
    BY <2>1, <2>2, WakeupUnlock
<1>5. ASSUME NEW t \in Client, YieldInWait(t) PROVE WakeupPending'
  BY <1>5, WakeupTimer DEF YieldInWait, At, Goto, Client
<1>6. ASSUME NEW t \in Client, NEW i \in 0 .. MAX_MONITOR_CONDS - 1, CallOn(t, i)
      PROVE  WakeupPending'
  <2>1. CASE Wait(t, i)
    <3>. DEFINE st == [state EXCEPT ![t] = "BLOCKED"]
    <3>1. /\ t \in Task /\ pc[t] = "in" /\ mon[t] \in Mutex
          /\ MutexUnlock(mon[t], st)
      BY <2>1 DEF Wait, At, Client, InCall, CondBlock
    <3>2. st \in [Task -> TaskState] /\ \A u \in Task \ {t} : st[u] = state[u]
      BY DEF TypeOK, SchedTypeOK, TaskState
    <3>3. \A u \in Task \ {t} : pc'[u] = pc[u] /\ mon'[u] = mon[u]
      BY <2>1 DEF Wait, Goto, TypeOK
    <3>. HIDE DEF st
    <3>. QED
      BY <3>1, <3>2, <3>3, WakeupUnlock
  <2>2. CASE Notify(t, i) \/ NotifyAll(t, i)
    <3>1. /\ pc' = pc /\ mon' = mon /\ locked' = locked
          /\ mutexWaiters' = mutexWaiters
      BY <2>2 DEF Notify, NotifyAll, CondSignal, CondBroadcast
    <3>2. \A u \in Task : Runnable(state, u) => Runnable(state', u)
      BY <2>2 DEF Notify, NotifyAll, CondSignal, CondBroadcast, Runnable, TypeOK,
                  SchedTypeOK
    <3>. QED
      BY <3>1, <3>2 DEF WakeupPending
  <2>. QED
    BY <1>6, <2>1, <2>2 DEF CallOn
<1>7. CASE UNCHANGED vars
  BY <1>7 DEF vars, schedVars, syncVars, WakeupPending, Runnable
<1>. QED
  BY <1>1, <1>2, <1>3, <1>4, <1>5, <1>6, <1>7 DEF Next, Step

(* mutex.c: no lost wakeup, for any number of tasks and of locks. *)
THEOREM WakeupAlwaysPending == Spec => []WakeupPending
BY TypeCorrect, QueueInvInit, QueueInvNext, WakeupInit, WakeupNext, PTL DEF Spec
-----------------------------------------------------------------------------
(* Wait queues as sequences: QueueSeq lists the queue from its head, each task
   once, and follows what the operations do to the links. *)

LEMMA TasksFinite == \A S \in SUBSET Task : IsFiniteSet(S) /\ Cardinality(S) \in Nat
<1>1. IsFiniteSet(Task)
  BY FS_Interval, NAssumption DEF Task
<1>. QED
  BY <1>1, FS_Subset, FS_CardinalityType

LEMMA ReachIn ==
  ASSUME NEW next, NEW h \in TaskPtr
  PROVE  Reach(next, h) \subseteq Task /\ Line(next, h) \in Nat
<1>1. Reach(next, h) \subseteq Task
  BY ReachNull, ReachHas DEF TaskPtr
<1>. QED
  BY <1>1, TasksFinite DEF Line

(* Of two tasks in a queue, one is behind the other. *)
LEMMA ReachTotal ==
  ASSUME NEW next \in [Task -> TaskPtr], NEW h \in Task,
         NEW t \in Reach(next, h), NEW u \in Reach(next, h)
  PROVE  u \in Reach(next, t) \/ t \in Reach(next, u)
<1>. DEFINE S == {v \in Task : t \in Reach(next, v) \/ v \in Reach(next, t)}
<1>1. t \in Task
  BY ReachHas
<1>2. ASSUME NEW v \in S, next[v] # NULL PROVE next[v] \in S
  <2>1. v \in Task /\ next[v] \in Task
    BY <1>2 DEF TaskPtr
  <2>2. CASE t \in Reach(next, v)
    <3>1. t = v \/ t \in Reach(next, next[v])
      BY <2>1, <2>2, ReachUnfolds
    <3>2. next[t] \in Task => next[t] \in Reach(next, t)
      BY <1>1, ReachHas
    <3>. QED
      BY <2>1, <3>1, <3>2
  <2>3. CASE v \in Reach(next, t)
    BY <1>1, <2>1, <2>3, ReachHas
  <2>. QED
    BY <2>2, <2>3
<1>3. h \in S /\ S \in SUBSET Task
  OBVIOUS
<1>. HIDE DEF S
<1>4. Reach(next, h) \subseteq S
  BY <1>2, <1>3, ReachLeast
<1>. QED
  BY <1>4 DEF S

(* What is behind a task of a queue is in the queue, which ends for it too. *)
LEMMA ReachWithin ==
  ASSUME NEW next \in [Task -> TaskPtr], NEW h \in Task, NEW t \in Reach(next, h)
  PROVE  /\ t \in Task
         /\ Reach(next, t) \subseteq Reach(next, h)
         /\ Ends(next, h) => Ends(next, t)
<1>1. /\ t \in Task /\ Reach(next, h) \subseteq Task
      /\ \A u \in Reach(next, h) : next[u] # NULL => next[u] \in Reach(next, h)
  BY ReachHas DEF TaskPtr
<1>2. Reach(next, t) \subseteq Reach(next, h)
  BY <1>1, ReachLeast
<1>3. ASSUME Ends(next, h) PROVE Ends(next, t)
  <2>1. PICK last \in Reach(next, h) : next[last] = NULL
    BY <1>3, NAssumption DEF Ends, Task, NULL
  <2>2. Reach(next, last) = {last}
    BY <1>1, <2>1, ReachUnfolds, ReachNull
  <2>3. last \in Reach(next, t)
    BY <1>1, <2>2, ReachTotal, ReachHas
  <2>. QED
    BY <2>1, <2>3 DEF Ends
<1>. QED
  BY <1>1, <1>2, <1>3

LEMMA LinePop ==
  ASSUME NEW next \in [Task -> TaskPtr], NEW t \in Task, Ends(next, t)
  PROVE  Line(next, t) = Line(next, next[t]) + 1 /\ Line(next, next[t]) \in Nat
<1>1. t \in Reach(next, t) /\ Reach(next, next[t]) = Reach(next, t) \ {t}
  BY ReachHas, ReachPop
<1>2. IsFiniteSet(Reach(next, t)) /\ Line(next, t) \in Nat
  BY TasksFinite, ReachHas DEF Line
<1>3. Line(next, next[t]) = Line(next, t) - 1
  BY <1>1, <1>2, FS_RemoveElement DEF Line
<1>4. Line(next, next[t]) \in Nat
  BY ReachIn
<1>. QED
  BY <1>2, <1>3, <1>4

LEMMA LineBehind ==
  ASSUME NEW next \in [Task -> TaskPtr], NEW t \in Task, Ends(next, t),
         NEW u \in Reach(next, t), u # t
  PROVE  Line(next, u) < Line(next, t)
<1>1. u \in Reach(next, next[t]) /\ next[t] \in Task
  BY ReachUnfolds, ReachNull DEF TaskPtr
<1>2. Reach(next, u) \subseteq Reach(next, next[t]) /\ u \in Task
  BY <1>1, ReachWithin
<1>3. Line(next, u) <= Line(next, next[t])
  <2>1. IsFiniteSet(Reach(next, next[t]))
    BY <1>1, TasksFinite, ReachHas
  <2>. QED
    BY <1>2, <2>1, FS_Subset DEF Line
<1>4. Line(next, u) \in Nat
  BY <1>2, ReachIn DEF TaskPtr
<1>. QED
  BY <1>3, <1>4, LinePop

(* Each place in the line has its task. *)
LEMMA LinePlaces ==
  ASSUME NEW next \in [Task -> TaskPtr], NEW h \in Task, Ends(next, h)
  PROVE  /\ \A t \in Reach(next, h) : Line(next, t) \in 1 .. Line(next, h)
         /\ \A t, u \in Reach(next, h) : Line(next, t) = Line(next, u) => t = u
         /\ \A k \in 1 .. Line(next, h) : \E t \in Reach(next, h) : Line(next, t) = k
<1>. DEFINE Q == Reach(next, h)
            n == Line(next, h)
            place == [t \in Q |-> Line(next, t)]
<1>1. n \in Nat /\ n = Cardinality(Q)
  BY ReachIn DEF Line, TaskPtr
<1>2. ASSUME NEW t \in Q PROVE Line(next, t) \in 1 .. n
  <2>1. t \in Task /\ Ends(next, t)
    BY <1>2, ReachWithin
  <2>2. Line(next, t) \in Nat \ {0}
    BY <2>1, LinePop
  <2>3. Line(next, t) <= n
    BY <1>1, <1>2, <2>2, LineBehind
  <2>. QED
    BY <1>1, <2>2, <2>3
<1>3. ASSUME NEW t \in Q, NEW u \in Q, Line(next, t) = Line(next, u) PROVE t = u
  <2>1. t \in Task /\ u \in Task /\ Ends(next, t) /\ Ends(next, u)
    BY ReachWithin
  <2>2. u \in Reach(next, t) \/ t \in Reach(next, u)
    BY ReachTotal
  <2>3. Line(next, t) \in Nat
    BY <1>2
  <2>. QED
    BY <1>3, <2>1, <2>2, <2>3, LineBehind
<1>4. place \in Injection(Q, 1 .. n)
  BY <1>2, <1>3 DEF Injection, IsInjective
<1>5. IsFiniteSet(1 .. n) /\ Cardinality(1 .. n) = n
  BY <1>1, FS_Interval
<1>6. place \in Surjection(Q, 1 .. n)
  <2>. HIDE DEF place, Q, n
  <2>. QED
    BY <1>1, <1>4, <1>5, FS_Injection
<1>7. \A k \in 1 .. n : \E t \in Q : place[t] = k
  BY <1>6 DEF Surjection
<1>. QED
  BY <1>2, <1>3, <1>7

LEMMA QueueSeqIs ==
  ASSUME NEW next \in [Task -> TaskPtr], NEW h \in Task, Ends(next, h)
  PROVE  /\ QueueSeq(next, h) \in Seq(Task)
         /\ Len(QueueSeq(next, h)) = Line(next, h) /\ Line(next, h) \in Nat \ {0}
         /\ \A k \in 1 .. Line(next, h) :
              \A t \in Reach(next, h) :
                QueueSeq(next, h)[k] = t <=> Line(next, t) = Line(next, h) + 1 - k
<1>. DEFINE n == Line(next, h)
            Q == Reach(next, h)
            at(k) == CHOOSE t \in Q : Line(next, t) = n + 1 - k
            q == [k \in 1 .. n |-> at(k)]
<1>1. n \in Nat \ {0} /\ Q \subseteq Task
  BY ReachHas, LinePlaces
<1>2. QueueSeq(next, h) = q
  BY DEF QueueSeq
<1>3. ASSUME NEW k \in 1 .. n
      PROVE  at(k) \in Q /\ \A t \in Q : at(k) = t <=> Line(next, t) = n + 1 - k
  <2>1. n + 1 - k \in 1 .. n
    BY <1>1
  <2>2. \E t \in Q : Line(next, t) = n + 1 - k
    <3>. HIDE DEF n
    <3>. QED
      BY <2>1, LinePlaces DEF n
  <2>3. at(k) \in Q /\ Line(next, at(k)) = n + 1 - k
    BY <2>2
  <2>. QED
    BY <2>3, LinePlaces
<1>. HIDE DEF n, Q, at
<1>4. q \in Seq(Task) /\ Len(q) = n
  BY <1>1, <1>3
<1>5. \A k \in 1 .. n : q[k] = at(k)
  OBVIOUS
<1>. HIDE DEF q
<1>. QED
  BY <1>1, <1>2, <1>3, <1>4, <1>5 DEF n, Q

LEMMA QueueSeqNull ==
  \A next : QueueSeq(next, NULL) = <<>> /\ Line(next, NULL) = 0
<1>. SUFFICES ASSUME NEW next
              PROVE  QueueSeq(next, NULL) = <<>> /\ Line(next, NULL) = 0
  OBVIOUS
<1>1. Line(next, NULL) = 0
  BY ReachNull, FS_EmptySet DEF Line
<1>2. \A k \in 1 .. 0 : FALSE
  OBVIOUS
<1>. DEFINE e == [k \in 1 .. 0 |-> CHOOSE t \in Reach(next, NULL) : Line(next, t) = 0 + 1 - k]
<1>3. QueueSeq(next, NULL) = e
  BY <1>1 DEF QueueSeq
<1>4. e \in Seq(Task) /\ Len(e) = 0
  BY <1>2
<1>. HIDE DEF e
<1>5. e = <<>>
  BY <1>4, EmptySeq
<1>. QED
  BY <1>1, <1>3, <1>5

(* The tasks listed are those of the queue. *)
LEMMA QueueSeqRange ==
  ASSUME NEW next \in [Task -> TaskPtr], NEW h \in TaskPtr, Ends(next, h)
  PROVE  /\ QueueSeq(next, h) \in Seq(Task)
         /\ h = NULL <=> QueueSeq(next, h) = <<>>
         /\ {QueueSeq(next, h)[k] : k \in 1 .. Len(QueueSeq(next, h))} = Reach(next, h)
<1>1. CASE h = NULL
  <2>1. QueueSeq(next, h) = <<>> /\ Reach(next, h) = {}
    BY <1>1, QueueSeqNull, ReachNull
  <2>2. <<>> \in Seq(Task) /\ {<<>>[k] : k \in 1 .. Len(<<>>)} = {}
    BY EmptySeq
  <2>. QED
    BY <1>1, <2>1, <2>2
<1>2. CASE h \in Task
  <2>. DEFINE n == Line(next, h)
              q == QueueSeq(next, h)
  <2>1. q \in Seq(Task) /\ Len(q) = n /\ n \in Nat \ {0}
    BY <1>2, QueueSeqIs
  <2>2. ASSUME NEW k \in 1 .. n PROVE q[k] \in Reach(next, h)
    <3>1. n + 1 - k \in 1 .. n
      BY <2>1
    <3>2. PICK t \in Reach(next, h) : Line(next, t) = n + 1 - k
      BY <1>2, <3>1, LinePlaces
    <3>. QED
      BY <1>2, <3>2, QueueSeqIs
  <2>3. ASSUME NEW t \in Reach(next, h) PROVE \E k \in 1 .. n : q[k] = t
    <3>1. Line(next, t) \in 1 .. n
      BY <1>2, LinePlaces
    <3>. DEFINE k == n + 1 - Line(next, t)
    <3>2. k \in 1 .. n /\ Line(next, t) = n + 1 - k
      BY <2>1, <3>1
    <3>. HIDE DEF k, n
    <3>3. q[k] = t
      BY <1>2, <3>2, QueueSeqIs DEF n
    <3>. QED
      BY <3>2, <3>3
  <2>4. h # NULL
    BY <1>2, NAssumption DEF Task, NULL
  <2>. HIDE DEF n, q
  <2>5. q # <<>>
    BY <2>1, EmptySeq
  <2>. QED
    BY <2>1, <2>2, <2>3, <2>4, <2>5 DEF q
<1>. QED
  BY <1>1, <1>2 DEF TaskPtr

LEMMA QueueSeqOnly ==
  ASSUME NEW next \in [Task -> TaskPtr], NEW h \in Task, Ends(next, h),
         NEW s \in Seq(Task), Len(s) = Line(next, h),
         \A k \in 1 .. Line(next, h) :
           s[k] \in Reach(next, h) /\ Line(next, s[k]) = Line(next, h) + 1 - k
  PROVE  QueueSeq(next, h) = s
<1>1. /\ QueueSeq(next, h) \in Seq(Task)
      /\ Len(QueueSeq(next, h)) = Line(next, h)
      /\ \A k \in 1 .. Line(next, h) : QueueSeq(next, h)[k] = s[k]
  BY QueueSeqIs
<1>. QED
  BY <1>1, SeqEqual

(* The first task is taken out: the rest of the line stays in order. *)
LEMMA QueueSeqPop ==
  ASSUME NEW next \in [Task -> TaskPtr], NEW h \in Task, Ends(next, h)
  PROVE  /\ Head(QueueSeq(next, h)) = h
         /\ QueueSeq(next, next[h]) = Tail(QueueSeq(next, h))
<1>. DEFINE n == Line(next, h)
            q == QueueSeq(next, h)
<1>1. q \in Seq(Task) /\ Len(q) = n /\ n \in Nat \ {0}
  BY QueueSeqIs
<1>2. \A k \in 1 .. n : \A t \in Reach(next, h) : q[k] = t <=> Line(next, t) = n + 1 - k
  BY QueueSeqIs
<1>3. Line(next, next[h]) = n - 1
  BY <1>1, LinePop
<1>4. /\ Reach(next, next[h]) = Reach(next, h) \ {h} /\ Ends(next, next[h])
      /\ h \in Reach(next, h)
  BY ReachPop, ReachHas
<1>. HIDE DEF q
<1>5. q # <<>>
  BY <1>1, EmptySeq
<1>6. Head(q) = h
  <2>1. q[1] = h
    BY <1>1, <1>2, <1>4
  <2>. QED
    BY <1>1, <1>5, <2>1
<1>7. /\ Tail(q) \in Seq(Task) /\ Len(Tail(q)) = n - 1
      /\ \A k \in 1 .. n - 1 : Tail(q)[k] = q[k + 1]
  BY <1>1, <1>5, HeadTailProperties
<1>8. CASE next[h] = NULL
  <2>1. n - 1 = 0
    BY <1>3, <1>8, QueueSeqNull
  <2>2. Tail(q) = <<>>
    BY <1>7, <2>1, EmptySeq
  <2>. QED
    BY <1>6, <1>8, <2>2, QueueSeqNull DEF q
<1>9. CASE next[h] \in Task
  <2>1. ASSUME NEW k \in 1 .. n - 1
        PROVE  /\ Tail(q)[k] \in Reach(next, next[h])
               /\ Line(next, Tail(q)[k]) = n - 1 + 1 - k
    <3>1. n - k \in 1 .. n - 1 /\ k + 1 \in 1 .. n
      BY <1>1
    <3>2. PICK t \in Reach(next, next[h]) : Line(next, t) = n - k
      BY <1>3, <1>4, <1>9, <3>1, LinePlaces
    <3>3. Line(next, t) = n + 1 - (k + 1) /\ n - 1 + 1 - k = n - k
      BY <1>1, <3>2
    <3>4. q[k + 1] = t
      BY <1>2, <1>4, <3>1, <3>3
    <3>. QED
      BY <1>7, <3>2, <3>3, <3>4
  <2>2. /\ Len(Tail(q)) = Line(next, next[h])
        /\ \A k \in 1 .. Line(next, next[h]) :
             /\ Tail(q)[k] \in Reach(next, next[h])
             /\ Line(next, Tail(q)[k]) = Line(next, next[h]) + 1 - k
    BY <1>3, <1>7, <2>1
  <2>3. QueueSeq(next, next[h]) = Tail(q)
    BY <1>4, <1>7, <1>9, <2>2, QueueSeqOnly
  <2>. QED
    BY <1>6, <2>3 DEF q
<1>. QED
  BY <1>8, <1>9 DEF TaskPtr

(* Links of other tasks do not matter. *)
LEMMA QueueSeqFrame ==
  ASSUME NEW next \in [Task -> TaskPtr], NEW new \in [Task -> TaskPtr],
         NEW h \in TaskPtr, Ends(next, h),
         \A u \in Reach(next, h) : new[u] = next[u]
  PROVE  QueueSeq(new, h) = QueueSeq(next, h)
<1>1. CASE h = NULL
  BY <1>1, QueueSeqNull
<1>2. CASE h \in Task
  <2>1. \A u \in Reach(next, h) : Reach(new, u) = Reach(next, u)
    BY <1>2, ReachWithin, ReachFrame DEF TaskPtr
  <2>2. h \in Reach(next, h) /\ Ends(new, h)
    BY <1>2, ReachHas, ReachFrame
  <2>3. \A u \in Reach(next, h) : Line(new, u) = Line(next, u)
    BY <2>1 DEF Line
  <2>4. /\ QueueSeq(new, h) \in Seq(Task) /\ Len(QueueSeq(new, h)) = Line(next, h)
        /\ \A k \in 1 .. Line(next, h) : \A t \in Reach(next, h) :
             QueueSeq(new, h)[k] = t <=> Line(next, t) = Line(next, h) + 1 - k
    BY <1>2, <2>1, <2>2, <2>3, QueueSeqIs
  <2>5. \A k \in 1 .. Line(next, h) : \E t \in Reach(next, h) :
          Line(next, t) = Line(next, h) + 1 - k
    <3>. SUFFICES ASSUME NEW k \in 1 .. Line(next, h)
                  PROVE  \E t \in Reach(next, h) : Line(next, t) = Line(next, h) + 1 - k
      OBVIOUS
    <3>1. Line(next, h) + 1 - k \in 1 .. Line(next, h)
      BY <1>2, QueueSeqIs
    <3>. QED
      BY <1>2, <3>1, LinePlaces
  <2>6. \A k \in 1 .. Line(next, h) :
          /\ QueueSeq(new, h)[k] \in Reach(next, h)
          /\ Line(next, QueueSeq(new, h)[k]) = Line(next, h) + 1 - k
    BY <2>4, <2>5
  <2>. QED
    BY <1>2, <2>4, <2>6, QueueSeqOnly
<1>. QED
  BY <1>1, <1>2 DEF TaskPtr

(* A task linked to the last one comes last. *)
LEMMA QueueSeqAppend ==
  ASSUME NEW next \in [Task -> TaskPtr], NEW h \in Task, Ends(next, h),
         NEW t \in Task, t \notin Reach(next, h), next[t] = NULL,
         NEW last \in Reach(next, h), next[last] = NULL
  PROVE  QueueSeq([next EXCEPT ![last] = t], h) = Append(QueueSeq(next, h), t)
<1>. DEFINE new == [next EXCEPT ![last] = t]
            Q == Reach(next, h)
            n == Line(next, h)
            q == QueueSeq(next, h)
            s == Append(q, t)
<1>1. /\ Q \subseteq Task /\ new \in [Task -> TaskPtr] /\ new[t] = NULL
      /\ last \in Task
  BY ReachHas DEF TaskPtr
<1>2. ASSUME NEW u \in Q
      PROVE  Reach(new, u) = Reach(next, u) \cup {t} /\ t \notin Reach(next, u)
  <2>1. u \in Task /\ t \notin Reach(next, u)
    BY <1>2, ReachWithin
  <2>2. Reach(next, last) = {last}
    BY <1>1, ReachUnfolds, ReachNull
  <2>3. last \in Reach(next, u)
    BY <1>2, <2>1, <2>2, ReachTotal, ReachHas
  <2>4. LET linked == [next EXCEPT ![last] = t]
        IN  Reach(linked, u) = Reach(next, u) \cup {t} /\ Ends(linked, u)
    BY <2>1, <2>3, ReachAppend
  <2>. QED
    BY <2>1, <2>4
<1>3. ASSUME NEW u \in Q PROVE Line(new, u) = Line(next, u) + 1
  <2>1. IsFiniteSet(Reach(next, u))
    BY <1>1, <1>3, ReachHas, TasksFinite
  <2>. QED
    BY <1>2, <1>3, <2>1, FS_AddElement DEF Line
<1>4. Line(new, t) = 1
  <2>1. Reach(new, t) = {t}
    BY <1>1, ReachUnfolds, ReachNull, ZenonT(60)
  <2>. QED
    BY <2>1, FS_Singleton DEF Line
<1>5. /\ Reach(new, h) = Q \cup {t} /\ Ends(new, h) /\ Line(new, h) = n + 1
      /\ h \in Q
  BY <1>2, <1>3, ReachHas, ReachAppend
<1>6. q \in Seq(Task) /\ Len(q) = n /\ n \in Nat \ {0}
  BY QueueSeqIs
<1>7. ASSUME NEW k \in 1 .. n PROVE q[k] \in Q /\ Line(next, q[k]) = n + 1 - k
  <2>1. n + 1 - k \in 1 .. n
    BY <1>6
  <2>2. PICK u \in Q : Line(next, u) = n + 1 - k
    BY <2>1, LinePlaces
  <2>3. q[k] = u
    BY <2>2, QueueSeqIs
  <2>. QED
    BY <2>2, <2>3
<1>. HIDE DEF n, q, new
<1>8. /\ s \in Seq(Task) /\ Len(s) = n + 1 /\ s[n + 1] = t
      /\ \A k \in 1 .. n : s[k] = q[k]
  BY <1>6
<1>. HIDE DEF s, Q
<1>9. \A k \in 1 .. Line(new, h) :
        s[k] \in Reach(new, h) /\ Line(new, s[k]) = Line(new, h) + 1 - k
  <2>. SUFFICES ASSUME NEW k \in 1 .. n + 1
                PROVE  s[k] \in Reach(new, h) /\ Line(new, s[k]) = n + 1 + 1 - k
    BY <1>5
  <2>1. CASE k = n + 1
    BY <1>4, <1>5, <1>6, <1>8, <2>1
  <2>2. CASE k \in 1 .. n
    <3>1. s[k] = q[k] /\ q[k] \in Q /\ Line(next, q[k]) = n + 1 - k
      BY <1>7, <1>8, <2>2
    <3>2. Line(new, s[k]) = n + 1 - k + 1
      BY <1>3, <3>1
    <3>. QED
      BY <1>5, <1>6, <3>1, <3>2
  <2>. QED
    BY <1>6, <2>1, <2>2
<1>10. QueueSeq(new, h) = s
  BY <1>1, <1>5, <1>8, <1>9, QueueSeqOnly
<1>. QED
  BY <1>10 DEF new, s, q

(* "Add current task to the wait queue" adds it at the end and touches the links
   of no task outside that queue. *)
LEMMA LinkSeq ==
  ASSUME SyncTypeOK, NEW h \in TaskPtr, NEW t \in Task, Link(h, t),
         t \notin Reach(waitNext, h), Ends(waitNext, h)
  PROVE  /\ QueueSeq(waitNext', HeadAfter(h, t)) = Append(QueueSeq(waitNext, h), t)
         /\ \A u \in Task : u # t /\ u \notin Reach(waitNext, h) =>
              waitNext'[u] = waitNext[u]
<1>. DEFINE cut == [waitNext EXCEPT ![t] = NULL]
<1>1. /\ waitNext \in [Task -> TaskPtr] /\ cut \in [Task -> TaskPtr]
      /\ cut[t] = NULL /\ \A u \in Task \ {t} : cut[u] = waitNext[u]
  BY DEF SyncTypeOK, TaskPtr
<1>2. CASE h = NULL
  <2>1. waitNext' = cut /\ HeadAfter(h, t) = t
    BY <1>2 DEF Link, HeadAfter
  <2>. HIDE DEF cut
  <2>2. Reach(cut, t) = {t} /\ Ends(cut, t)
    BY <1>1, ReachUnfolds, ReachNull DEF Ends
  <2>3. Line(cut, t) = 1
    BY <2>2, FS_Singleton DEF Line
  <2>4. <<t>> \in Seq(Task) /\ Len(<<t>>) = 1 /\ <<t>>[1] = t
    OBVIOUS
  <2>5. \A k \in 1 .. Line(cut, t) :
          <<t>>[k] \in Reach(cut, t) /\ Line(cut, <<t>>[k]) = Line(cut, t) + 1 - k
    BY <2>2, <2>3, <2>4
  <2>6. QueueSeq(cut, t) = <<t>>
    BY <1>1, <2>2, <2>3, <2>4, <2>5, QueueSeqOnly
  <2>7. QueueSeq(waitNext, h) = <<>> /\ Append(<<>>, t) = <<t>>
    BY <1>2, QueueSeqNull
  <2>. QED
    BY <1>1, <2>1, <2>6, <2>7
<1>3. CASE h \in Task
  <2>1. HeadAfter(h, t) = h /\ h # NULL
    BY <1>3, NAssumption DEF HeadAfter, Task, NULL
  <2>2. \E last \in Reach(cut, h) :
          cut[last] = NULL /\ waitNext' = [cut EXCEPT ![last] = t]
    BY <2>1 DEF Link
  <2>. HIDE DEF cut
  <2>3. PICK last \in Reach(cut, h) :
          cut[last] = NULL /\ waitNext' = [cut EXCEPT ![last] = t]
    BY <2>2
  <2>4. \A u \in Reach(waitNext, h) : cut[u] = waitNext[u]
    BY <1>1, <1>3, ReachHas
  <2>5. Reach(cut, h) = Reach(waitNext, h) /\ Ends(cut, h)
    BY <1>1, <1>3, <2>4, ReachFrame
  <2>6. QueueSeq(cut, h) = QueueSeq(waitNext, h)
    BY <1>1, <1>3, <2>4, QueueSeqFrame
  <2>7. QueueSeq(waitNext', h) = Append(QueueSeq(cut, h), t)
    BY <1>1, <1>3, <2>3, <2>5, QueueSeqAppend, ZenonT(60)
  <2>8. \A u \in Task : u # t /\ u # last => waitNext'[u] = waitNext[u]
    BY <1>1, <2>3
  <2>. QED
    BY <2>1, <2>3, <2>5, <2>6, <2>7, <2>8
<1>. QED
  BY <1>2, <1>3 DEF TaskPtr
-----------------------------------------------------------------------------
(* monitor.c implements MesaMonitor.  A lock that is taken has somebody inside,
   so mutex_lock finds the lock free exactly when the promised monitor is. *)
HeldInv ==
  \A m \in Mutex : locked[m] => \E t \in Client : pc[t] = "in" /\ mon[t] = m

MesaInv == TypeOK /\ InCall /\ LockInv /\ QueueInv /\ HeldInv

LEMMA HeldInvLock ==
  ASSUME TypeOK, HeldInv, NEW t \in Client, NEW m \in Mutex,
         MutexLock(t, m), mon' = [mon EXCEPT ![t] = m], pc[t] # "in"
  PROVE  HeldInv'
<1>1. \A u \in Client \ {t} : pc'[u] = pc[u] /\ mon'[u] = mon[u]
  BY DEF MutexLock, Goto, TypeOK, Client
<1>2. ASSUME NEW n \in Mutex, locked'[n]
      PROVE  \E u \in Client : pc'[u] = "in" /\ mon'[u] = n
  <2>1. CASE locked[n]
    BY <1>1, <2>1 DEF HeldInv
  <2>2. CASE ~locked[n]
    <3>1. MutexTake(t, m) /\ Goto(t, "in") /\ n = m
      BY <1>2, <2>2 DEF MutexLock, MutexTake, MutexWait, TypeOK, SyncTypeOK
    <3>. QED
      BY <3>1 DEF Goto, TypeOK, Client
  <2>. QED
    BY <2>1, <2>2
<1>. QED
  BY <1>2 DEF HeldInv

LEMMA HeldInvUnlock ==
  ASSUME TypeOK, HeldInv, NEW t \in Client, NEW m \in Mutex, NEW st, mon[t] = m,
         MutexUnlock(m, st),
         \A u \in Client \ {t} : pc'[u] = pc[u] /\ mon'[u] = mon[u]
  PROVE  HeldInv'
<1>1. locked' = [locked EXCEPT ![m] = FALSE]
  BY DEF MutexUnlock
<1>2. ASSUME NEW n \in Mutex, locked'[n]
      PROVE  \E u \in Client : pc'[u] = "in" /\ mon'[u] = n
  <2>1. locked[n] /\ n # m
    BY <1>1, <1>2 DEF TypeOK, SyncTypeOK
  <2>2. PICK u \in Client : pc[u] = "in" /\ mon[u] = n
    BY <2>1 DEF HeldInv
  <2>. QED
    BY <2>1, <2>2
<1>. QED
  BY <1>2 DEF HeldInv

LEMMA HeldInvNext == TypeOK /\ InCall /\ HeldInv /\ [Next]_vars => HeldInv'
<1>. SUFFICES ASSUME TypeOK, InCall, HeldInv, [Next]_vars PROVE HeldInv'
  OBVIOUS
<1>1. CASE TimerIrq
  BY <1>1 DEF TimerIrq, HeldInv, syncVars
<1>2. ASSUME NEW t \in Client, NEW m \in Mutex, Enter(t, m) PROVE HeldInv'
  BY <1>2, HeldInvLock DEF Enter, At
<1>3. ASSUME NEW t \in Client, Retry(t) \/ Relock(t) PROVE HeldInv'
  <2>1. /\ mon[t] \in Mutex /\ MutexLock(t, mon[t]) /\ pc[t] # "in"
        /\ mon' = [mon EXCEPT ![t] = mon[t]]
    BY <1>3 DEF Retry, Relock, At, Client, InCall, TypeOK
  <2>. QED
    BY <2>1, HeldInvLock
<1>4. ASSUME NEW t \in Client, Exit(t) PROVE HeldInv'
  <2>1. mon[t] \in Mutex /\ MutexUnlock(mon[t], state)
    BY <1>4 DEF Exit, At, Client, InCall, MonitorExit
  <2>2. \A u \in Client \ {t} : pc'[u] = pc[u] /\ mon'[u] = mon[u]
    BY <1>4 DEF Exit, Goto, TypeOK, Client
  <2>. QED
    BY <2>1, <2>2, HeldInvUnlock
<1>5. ASSUME NEW t \in Client, YieldInWait(t) PROVE HeldInv'
  BY <1>5 DEF YieldInWait, Goto, At, HeldInv, TypeOK, syncVars, Client
<1>6. ASSUME NEW t \in Client, NEW i \in 0 .. MAX_MONITOR_CONDS - 1, CallOn(t, i)
      PROVE  HeldInv'
  <2>1. CASE Wait(t, i)
    <3>1. mon[t] \in Mutex /\ \E st : MutexUnlock(mon[t], st)
      BY <2>1 DEF Wait, At, Client, InCall, CondBlock
    <3>2. \A u \in Client \ {t} : pc'[u] = pc[u] /\ mon'[u] = mon[u]
      BY <2>1 DEF Wait, Goto, TypeOK, Client
    <3>. QED
      BY <3>1, <3>2, HeldInvUnlock
  <2>2. CASE Notify(t, i) \/ NotifyAll(t, i)
    BY <2>2 DEF Notify, NotifyAll, CondSignal, CondBroadcast, HeldInv
  <2>. QED
    BY <1>6, <2>1, <2>2 DEF CallOn
<1>7. CASE UNCHANGED vars
  BY <1>7 DEF vars, syncVars, HeldInv
<1>. QED
  BY <1>1, <1>2, <1>3, <1>4, <1>5, <1>6, <1>7 DEF Next, Step

LEMMA MesaInvHolds == Spec => []MesaInv
<1>1. Init => LockInv /\ HeldInv
  BY DEF Init, SyncInit, LockInv, HeldInv
<1>2. Init => InCall
  BY DEF Init, InCall
<1>3. Init => MesaInv
  BY <1>1, <1>2, TypeInit, QueueInvInit DEF MesaInv
<1>4. MesaInv /\ [Next]_vars => MesaInv'
  BY TypeNext, LockInvNext, QueueInvNext, HeldInvNext DEF MesaInv
<1>. QED
  BY <1>3, <1>4, PTL DEF Spec

LEMMA PhaseIs ==
  \A t : /\ Phase(t) = IF pc[t] \in {"out", "in"} THEN pc[t]
                       ELSE IF pc[t] \in {"yield", "relock"} /\ state[t] = "BLOCKED"
                         THEN "wait" ELSE "want"
         /\ Phase(t)' = IF pc'[t] \in {"out", "in"} THEN pc'[t]
                        ELSE IF pc'[t] \in {"yield", "relock"} /\ state'[t] = "BLOCKED"
                          THEN "wait" ELSE "want"
BY DEF Phase

LEMMA FreeIs ==
  ASSUME MesaInv, NEW m \in Mutex
  PROVE  Mesa!Free(m) <=> ~locked[m]
<1>1. \A t \in Client : phaseOf[t] = "in" <=> pc[t] = "in"
  BY PhaseIs DEF phaseOf
<1>2. \A t \in Client : t \in Task /\ monitorOf[t] = mon[t]
  BY DEF monitorOf, Client
<1>. QED
  BY <1>1, <1>2 DEF MesaInv, LockInv, HeldInv, Mesa!Free

(* The waiters of a condition variable whose head and links a step leaves alone
   stay as they were. *)
LEMMA WaitersKept ==
  ASSUME SyncTypeOK, waitNext' \in [Task -> TaskPtr], QueuesApart, NEW c \in Cond,
         condWaiters'[c] = condWaiters[c],
         \A u \in CondQueue(c) : waitNext'[u] = waitNext[u]
  PROVE  QueueSeq(waitNext', condWaiters'[c]) = QueueSeq(waitNext, condWaiters[c])
BY QueueSeqFrame DEF SyncTypeOK, QueuesApart, CondQueue

(* mutex_lock: inside at once if the monitor is free, else among those who want
   to be. *)
LEMMA MesaLock ==
  ASSUME MesaInv, NEW t \in Client, NEW m \in Mutex, running = t,
         pc[t] \notin {"in", "yield"}, MutexLock(t, m), mon' = [mon EXCEPT ![t] = m]
  PROVE  /\ waitersOf' = waitersOf
         /\ monitorOf' = [monitorOf EXCEPT ![t] = m]
         /\ phaseOf' = [phaseOf EXCEPT ![t] = IF Mesa!Free(m) THEN "in" ELSE "want"]
         /\ phaseOf[t] = IF pc[t] = "out" THEN "out" ELSE "want"
<1>. USE DEF MesaInv
<1>1. Unqueued(t) /\ state[t] = "RUNNING" /\ t \in Task \ {Idle}
  BY RunnerUnqueued DEF Client
<1>2. monitorOf' = [monitorOf EXCEPT ![t] = m]
  BY DEF monitorOf, TypeOK, Client
<1>3. phaseOf[t] = IF pc[t] = "out" THEN "out" ELSE "want"
  BY <1>1, PhaseIs DEF phaseOf, TypeOK, Point
<1>4. CASE MutexTake(t, m) /\ Goto(t, "in")
  <2>1. ~locked[m] /\ state' = state /\ UNCHANGED <<waitNext, condWaiters>>
    BY <1>4 DEF MutexTake, schedVars
  <2>2. waitersOf' = waitersOf
    BY <2>1 DEF waitersOf
  <2>3. pc' = [pc EXCEPT ![t] = "in"] /\ pc \in [Task -> Point]
    BY <1>4 DEF Goto, TypeOK
  <2>4. phaseOf' = [phaseOf EXCEPT ![t] = "in"]
    BY <2>1, <2>3, PhaseIs DEF phaseOf, Client
  <2>. QED
    BY <1>2, <1>3, <2>1, <2>2, <2>4, FreeIs
<1>5. CASE MutexWait(t, m) /\ Goto(t, "retry")
  <2>1. locked[m] /\ Link(mutexWaiters[m], t) /\ condWaiters' = condWaiters
    BY <1>5 DEF MutexWait
  <2>2. \A u \in Task : state'[u] = "BLOCKED" <=> u = t \/ state[u] = "BLOCKED"
    BY <1>1, <1>5, MutexWaitQueues DEF TypeOK, QueueInv
  <2>3. pc' = [pc EXCEPT ![t] = "retry"] /\ pc \in [Task -> Point]
    BY <1>5 DEF Goto, TypeOK
  <2>4. phaseOf' = [phaseOf EXCEPT ![t] = "want"]
    BY <2>2, <2>3, PhaseIs DEF phaseOf, Client
  <2>5. \A u \in Task : u # t /\ u \notin MutexQueue(m) => waitNext'[u] = waitNext[u]
    BY <1>1, <2>1, LinkSeq DEF TypeOK, SyncTypeOK, MutexQueue, Unqueued, QueueInv,
                               QueuesApart
  <2>6. waitNext' \in [Task -> TaskPtr]
    BY <1>1, <2>1, LinkType DEF TypeOK
  <2>7. ASSUME NEW c \in Cond
        PROVE  QueueSeq(waitNext', condWaiters'[c]) = QueueSeq(waitNext, condWaiters[c])
    <3>1. CondQueue(c) \subseteq Task
      BY ReachIn DEF CondQueue, TypeOK, SyncTypeOK
    <3>2. \A u \in CondQueue(c) : waitNext'[u] = waitNext[u]
      BY <1>1, <2>5, <3>1 DEF Unqueued, QueueInv, QueuesApart
    <3>. QED
      BY <2>1, <2>6, <3>2, WaitersKept DEF TypeOK, QueueInv
  <2>8. waitersOf' = waitersOf
    BY <2>7 DEF waitersOf
  <2>. QED
    BY <1>2, <1>3, <2>1, <2>4, <2>8, FreeIs
<1>. QED
  BY <1>4, <1>5 DEF MutexLock

(* The timer interrupt and the yield of cond_wait are invisible. *)
LEMMA MesaTimer ==
  ASSUME MesaInv, timer_callback(state), UNCHANGED <<syncVars, mon>>,
         \/ pc' = pc
         \/ \E t \in Task : pc[t] = "yield" /\ pc' = [pc EXCEPT ![t] = "relock"]
  PROVE  UNCHANGED Mesa!vars
<1>1. \A t \in Task : state'[t] = "BLOCKED" <=> state[t] = "BLOCKED"
  BY TimerKeeps DEF MesaInv, TypeOK, SchedTypeOK, QueueInv
<1>2. \A t \in Task : /\ pc'[t] \in {"yield", "relock"} <=> pc[t] \in {"yield", "relock"}
                      /\ pc'[t] = pc[t] \/ pc'[t] \in {"yield", "relock"}
  BY DEF MesaInv, TypeOK
<1>3. \A t \in Client : Phase(t)' = Phase(t)
  BY <1>1, <1>2, PhaseIs DEF Client
<1>4. phaseOf' = phaseOf
  BY <1>3 DEF phaseOf
<1>5. monitorOf' = monitorOf /\ waitersOf' = waitersOf
  BY DEF monitorOf, waitersOf, syncVars
<1>. QED
  BY <1>4, <1>5 DEF Mesa!vars

(* monitor_exit: the task it makes READY goes on wanting to be inside. *)
LEMMA MesaExit ==
  ASSUME MesaInv, NEW t \in Client, Exit(t)
  PROVE  Mesa!Leave(t)
<1>. USE DEF MesaInv
<1>1. PICK m \in Mutex : m = mon[t]
  BY DEF Exit, At, InCall, Client
<1>2. /\ pc[t] = "in" /\ MonitorExit(m) /\ pc' = [pc EXCEPT ![t] = "out"]
      /\ mon' = [mon EXCEPT ![t] = NoMonitor] /\ pc \in [Task -> Point]
  BY <1>1 DEF Exit, At, Goto, TypeOK
<1>3. \A u \in Task : state'[u] = IF u = mutexWaiters[m] THEN "READY" ELSE state[u]
  BY <1>2, ExitQueues DEF TypeOK, QueueInv
<1>4. \A u \in Task : u = mutexWaiters[m] => pc[u] = "retry"
  BY ReachHas DEF MutexQueue, QueueInv
<1>5. phaseOf' = [phaseOf EXCEPT ![t] = "out"] /\ phaseOf[t] = "in"
  BY <1>2, <1>3, <1>4, PhaseIs DEF phaseOf, Client
<1>6. monitorOf' = [monitorOf EXCEPT ![t] = NoMonitor]
  BY <1>2 DEF monitorOf, TypeOK, Client
<1>7. waitersOf' = waitersOf
  BY <1>2 DEF waitersOf, MonitorExit
<1>. QED
  BY <1>5, <1>6, <1>7 DEF Mesa!Leave

(* monitor_wait: the caller goes to the end of the line. *)
LEMMA MesaWait ==
  ASSUME MesaInv, NEW t \in Client, NEW i \in 0 .. MAX_MONITOR_CONDS - 1, Wait(t, i)
  PROVE  Mesa!Wait(t, i)
<1>. USE DEF MesaInv
<1>1. PICK m \in Mutex : m = mon[t]
  BY DEF Wait, At, InCall, Client
<1>2. PICK c \in Cond : c = <<m, i>> /\ c[1] = m
  <2>1. <<m, i>> \in Cond /\ <<m, i>>[1] = m
    BY DEF Cond
  <2>. QED
    BY <2>1
<1>3. /\ running = t /\ pc[t] = "in" /\ t \in Task /\ CondBlock(t, c)
      /\ pc' = [pc EXCEPT ![t] = "yield"] /\ pc \in [Task -> Point] /\ mon' = mon
  BY <1>1, <1>2 DEF Wait, At, Goto, TypeOK, Client
<1>4. Unqueued(t) /\ state[t] = "RUNNING"
  BY <1>3, RunnerUnqueued
<1>5. /\ t # mutexWaiters[m]
      /\ \A u \in Task : state'[u] = IF u = mutexWaiters[m] THEN "READY"
                                     ELSE IF u = t THEN "BLOCKED" ELSE state[u]
  BY <1>2, <1>3, <1>4, CondBlockQueues DEF TypeOK, QueueInv
<1>6. \A u \in Task : u = mutexWaiters[m] => pc[u] = "retry"
  BY ReachHas DEF MutexQueue, QueueInv
<1>7. phaseOf' = [phaseOf EXCEPT ![t] = "wait"] /\ phaseOf[t] = "in"
  BY <1>3, <1>5, <1>6, PhaseIs DEF phaseOf, Client
<1>8. monitorOf' = monitorOf /\ monitorOf[t] = m
  BY <1>1, <1>3 DEF monitorOf
<1>9. /\ Link(condWaiters[c], t) /\ condWaiters[c] \in TaskPtr
      /\ condWaiters'[c] = HeadAfter(condWaiters[c], t)
      /\ \A d \in Cond \ {c} : condWaiters'[d] = condWaiters[d]
  BY <1>3 DEF CondBlock, TypeOK, SyncTypeOK
<1>10. /\ QueueSeq(waitNext', condWaiters'[c]) = Append(QueueSeq(waitNext, condWaiters[c]), t)
       /\ \A u \in Task : u # t /\ u \notin CondQueue(c) => waitNext'[u] = waitNext[u]
  BY <1>3, <1>4, <1>9, LinkSeq DEF TypeOK, CondQueue, Unqueued, QueueInv, QueuesApart
<1>11. waitNext' \in [Task -> TaskPtr]
  BY <1>3, <1>9, LinkType DEF TypeOK
<1>12. ASSUME NEW d \in Cond \ {c}
       PROVE  QueueSeq(waitNext', condWaiters'[d]) = QueueSeq(waitNext, condWaiters[d])
  <2>1. CondQueue(d) \subseteq Task
    BY ReachIn DEF CondQueue, TypeOK, SyncTypeOK
  <2>2. \A u \in CondQueue(d) : waitNext'[u] = waitNext[u]
    BY <1>4, <1>10, <2>1 DEF Unqueued, QueueInv, QueuesApart
  <2>. QED
    BY <1>9, <1>11, <2>2, WaitersKept DEF TypeOK, QueueInv
<1>13. waitersOf' = [waitersOf EXCEPT ![c] = Append(@, t)]
  BY <1>10, <1>12 DEF waitersOf
<1>. QED
  BY <1>2, <1>7, <1>8, <1>13 DEF Mesa!Wait

(* monitor_notify: it takes the first in line, and does nothing to an empty line. *)
LEMMA MesaNotify ==
  ASSUME MesaInv, NEW t \in Client, NEW i \in 0 .. MAX_MONITOR_CONDS - 1, Notify(t, i)
  PROVE  Mesa!Notify(t, i) \/ UNCHANGED Mesa!vars
<1>. USE DEF MesaInv
<1>1. PICK m \in Mutex : m = mon[t]
  BY DEF Notify, At, InCall, Client
<1>2. PICK c \in Cond : c = <<m, i>>
  BY DEF Cond
<1>3. /\ pc[t] = "in" /\ CondSignal(c) /\ UNCHANGED <<pc, mon>>
      /\ waitNext' = waitNext /\ condWaiters \in [Cond -> TaskPtr]
      /\ waitNext \in [Task -> TaskPtr]
  BY <1>1, <1>2 DEF Notify, At, CondSignal, TypeOK, SyncTypeOK
<1>4. monitorOf' = monitorOf /\ monitorOf[t] = m
  BY <1>1, <1>3 DEF monitorOf
<1>5. CASE condWaiters[c] = NULL
  <2>1. state' = state /\ condWaiters' = condWaiters
    BY <1>3, <1>5 DEF CondSignal
  <2>2. phaseOf' = phaseOf /\ waitersOf' = waitersOf
    BY <1>3, <2>1, PhaseIs DEF phaseOf, waitersOf
  <2>. QED
    BY <1>4, <2>2 DEF Mesa!vars
<1>6. CASE condWaiters[c] \in Task
  <2>1. PICK w \in Task : w = condWaiters[c]
    BY <1>6
  <2>2. /\ condWaiters' = [condWaiters EXCEPT ![c] = waitNext[w]]
        /\ state' = [state EXCEPT ![w] = "READY"]
    BY <1>3, <2>1, NAssumption DEF CondSignal, Task, NULL
  <2>3. pc[w] \in {"yield", "relock"}
    BY <2>1, ReachHas DEF CondQueue, QueueInv
  <2>4. /\ Head(waitersOf[c]) = w /\ waitersOf[c] # <<>>
        /\ QueueSeq(waitNext, waitNext[w]) = Tail(waitersOf[c])
    <3>1. Ends(waitNext, w) /\ waitersOf[c] = QueueSeq(waitNext, w) /\ w # NULL
      BY <2>1, NAssumption DEF waitersOf, QueueInv, QueuesApart, Task, NULL
    <3>. QED
      BY <1>3, <3>1, QueueSeqPop, QueueSeqRange DEF TaskPtr
  <2>5. phaseOf' = [phaseOf EXCEPT ![w] = "want"] /\ phaseOf[t] = "in"
    BY <1>3, <2>2, <2>3, PhaseIs DEF phaseOf, Client, TypeOK, SchedTypeOK
  <2>6. waitersOf' = [waitersOf EXCEPT ![c] = Tail(@)]
    BY <1>3, <2>2, <2>4 DEF waitersOf
  <2>. QED
    BY <1>2, <1>4, <2>4, <2>5, <2>6 DEF Mesa!Notify
<1>. QED
  BY <1>3, <1>5, <1>6 DEF TaskPtr

(* monitor_notify_all: it takes all of them. *)
LEMMA MesaNotifyAll ==
  ASSUME MesaInv, NEW t \in Client, NEW i \in 0 .. MAX_MONITOR_CONDS - 1,
         NotifyAll(t, i)
  PROVE  Mesa!NotifyAll(t, i)
<1>. USE DEF MesaInv
<1>1. PICK m \in Mutex : m = mon[t]
  BY DEF NotifyAll, At, InCall, Client
<1>2. PICK c \in Cond : c = <<m, i>>
  BY DEF Cond
<1>3. /\ pc[t] = "in" /\ CondBroadcast(c) /\ UNCHANGED <<pc, mon>>
      /\ waitNext' = waitNext /\ condWaiters \in [Cond -> TaskPtr]
      /\ condWaiters' = [condWaiters EXCEPT ![c] = NULL]
      /\ waitNext \in [Task -> TaskPtr]
  BY <1>1, <1>2 DEF NotifyAll, At, CondBroadcast, TypeOK, SyncTypeOK
<1>4. monitorOf' = monitorOf /\ monitorOf[t] = m
  BY <1>1, <1>3 DEF monitorOf
<1>5. /\ \A u \in Task : state'[u] = IF u \in CondQueue(c) THEN "READY" ELSE state[u]
      /\ \A u \in Task : u \in CondQueue(c) => pc[u] \in {"yield", "relock"}
  BY <1>3 DEF CondBroadcast, CondQueue, QueueInv
<1>6. /\ {waitersOf[c][k] : k \in 1 .. Len(waitersOf[c])} = CondQueue(c)
      /\ CondQueue(c) \subseteq Task
  <2>1. Ends(waitNext, condWaiters[c]) /\ condWaiters[c] \in TaskPtr
    BY <1>3 DEF QueueInv, QueuesApart
  <2>. QED
    BY <1>3, <2>1, QueueSeqRange, ReachIn DEF waitersOf, CondQueue
<1>7. phaseOf[t] = "in"
  BY <1>3, PhaseIs DEF phaseOf
<1>8. phaseOf' = [u \in Client |-> IF u \in CondQueue(c) THEN "want" ELSE phaseOf[u]]
  BY <1>3, <1>5, PhaseIs DEF phaseOf, Client
<1>9. waitersOf' = [waitersOf EXCEPT ![c] = <<>>]
  BY <1>3, QueueSeqNull DEF waitersOf
<1>. QED
  BY <1>2, <1>4, <1>6, <1>7, <1>8, <1>9 DEF Mesa!NotifyAll

LEMMA MesaInit == Init => Mesa!Init
<1>. SUFFICES ASSUME Init PROVE Mesa!Init
  OBVIOUS
<1>1. phaseOf = [t \in Client |-> "out"] /\ monitorOf = [t \in Client |-> NoMonitor]
  BY PhaseIs DEF Init, phaseOf, monitorOf, Client
<1>2. waitersOf = [c \in Mutex \X (0 .. MAX_MONITOR_CONDS - 1) |-> <<>>]
  BY QueueSeqNull DEF Init, SyncInit, waitersOf, Cond
<1>. QED
  BY <1>1, <1>2 DEF Mesa!Init

LEMMA MesaStep == MesaInv /\ [Next]_vars => [Mesa!Next]_(Mesa!vars)
<1>. SUFFICES ASSUME MesaInv, [Next]_vars PROVE Mesa!Next \/ UNCHANGED Mesa!vars
  OBVIOUS
<1>1. CASE TimerIrq
  BY <1>1, MesaTimer DEF TimerIrq
<1>2. ASSUME NEW t \in Client, NEW m \in Mutex, Enter(t, m) PROVE Mesa!Next
  <2>1. /\ waitersOf' = waitersOf
        /\ monitorOf' = [monitorOf EXCEPT ![t] = m]
        /\ phaseOf' = [phaseOf EXCEPT ![t] = IF Mesa!Free(m) THEN "in" ELSE "want"]
        /\ phaseOf[t] = "out"
    BY <1>2, MesaLock DEF Enter, At
  <2>. QED
    BY <2>1 DEF Mesa!Next, Mesa!Enter
<1>3. ASSUME NEW t \in Client, Retry(t) \/ Relock(t)
      PROVE  Mesa!Next \/ UNCHANGED Mesa!vars
  <2>1. PICK m \in Mutex : m = mon[t]
    BY <1>3 DEF Retry, Relock, At, Client, MesaInv, InCall
  <2>2. /\ MutexLock(t, m) /\ running = t /\ pc[t] \in {"retry", "relock"}
        /\ mon' = mon /\ mon' = [mon EXCEPT ![t] = m]
    BY <1>3, <2>1 DEF Retry, Relock, At, Client, MesaInv, TypeOK
  <2>3. /\ waitersOf' = waitersOf
        /\ phaseOf' = [phaseOf EXCEPT ![t] = IF Mesa!Free(m) THEN "in" ELSE "want"]
        /\ phaseOf[t] = "want"
    BY <2>2, MesaLock
  <2>4. monitorOf' = monitorOf /\ monitorOf[t] = m
    BY <2>1, <2>2 DEF monitorOf
  <2>5. CASE Mesa!Free(m)
    BY <2>3, <2>4, <2>5 DEF Mesa!Next, Mesa!Acquire
  <2>6. CASE ~Mesa!Free(m)
    <3>1. phaseOf' = phaseOf
      BY <2>3, <2>6 DEF phaseOf
    <3>. QED
      BY <2>3, <2>4, <3>1 DEF Mesa!vars
  <2>. QED
    BY <2>5, <2>6
<1>4. ASSUME NEW t \in Client, Exit(t) PROVE Mesa!Next
  BY <1>4, MesaExit DEF Mesa!Next
<1>5. ASSUME NEW t \in Client, YieldInWait(t) PROVE UNCHANGED Mesa!vars
  BY <1>5, MesaTimer DEF YieldInWait, At, Goto, Client
<1>6. ASSUME NEW t \in Client, NEW i \in 0 .. MAX_MONITOR_CONDS - 1, CallOn(t, i)
      PROVE  Mesa!Next \/ UNCHANGED Mesa!vars
  BY <1>6, MesaWait, MesaNotify, MesaNotifyAll DEF CallOn, Mesa!Next
<1>7. CASE UNCHANGED vars
  <2>1. phaseOf' = phaseOf /\ monitorOf' = monitorOf /\ waitersOf' = waitersOf
    BY <1>7, PhaseIs DEF vars, schedVars, syncVars, phaseOf, monitorOf, waitersOf
  <2>. QED
    BY <2>1 DEF Mesa!vars
<1>. QED
  BY <1>1, <1>2, <1>3, <1>4, <1>5, <1>6, <1>7 DEF Next, Step

(* monitor.c over mutex.c and cond.c, for any number of tasks, of monitors and of
   condition variables: every step is a step of the promised monitor or invisible
   to the callers. *)
THEOREM MonitorIsMesa == Spec => ImplementsMesaMonitor
BY MesaInvHolds, MesaInit, MesaStep, PTL DEF Spec, ImplementsMesaMonitor, Mesa!Spec
=============================================================================
