------------------------------- MODULE Monitor ------------------------------
(***************************************************************************)
(* The promise of monitor.c to tasks: any number of tasks calling any      *)
(* monitors, in any legal order, under a preemptive scheduler.  A task is  *)
(* inside at most one monitor at a time and calls monitor_wait, notify and *)
(* exit only from inside, as every caller in the kernel does.  Interrupt   *)
(* handlers that call a monitor are not in this module.                    *)
(***************************************************************************)
EXTENDS Sync

VARIABLES
  pc,     \* the point a task has reached in the monitor's code
  mon     \* the monitor of the call in progress, NoMonitor outside

CONSTANT NoMonitor

ASSUME NoMonitorAssumption == NoMonitor \notin Mutex

vars == <<schedVars, syncVars, pc, mon>>

Client == Task \ {Idle}

(* "out"     outside every monitor
   "retry"   in mutex_lock, switched out by its task_yield: the only point that
             is left, and therefore resumed, with interrupts disabled
   "in"      inside the monitor, the lock held
   "yield"   in cond_wait, mutex_unlock done, about to call task_yield
   "relock"  in cond_wait, back from task_yield, about to call mutex_lock     *)
Point == {"out", "retry", "in", "yield", "relock"}

TypeOK ==
  /\ SchedTypeOK
  /\ SyncTypeOK
  /\ pc \in [Task -> Point]
  /\ mon \in [Task -> Mutex \cup {NoMonitor}]

Init ==
  /\ SchedInit
  /\ SyncInit
  /\ pc = [t \in Task |-> "out"]
  /\ mon = [t \in Task |-> NoMonitor]

At(t, point)   == running = t /\ pc[t] = point
Goto(t, point) == pc' = [pc EXCEPT ![t] = point]

-----------------------------------------------------------------------------
(* mutex_lock(&m->lock), from its cli to the sti or to the next task_yield. *)
MutexLock(t, m) ==
  \/ MutexTake(t, m) /\ Goto(t, "in")
  \/ MutexWait(t, m) /\ Goto(t, "retry")

Enter(t, m) ==
  /\ At(t, "out")
  /\ MutexLock(t, m)
  /\ mon' = [mon EXCEPT ![t] = m]

Retry(t) ==
  /\ At(t, "retry")
  /\ MutexLock(t, mon[t])
  /\ UNCHANGED mon

Exit(t) ==
  /\ At(t, "in")
  /\ MonitorExit(mon[t])
  /\ Goto(t, "out")
  /\ mon' = [mon EXCEPT ![t] = NoMonitor]

Wait(t, i) ==
  /\ At(t, "in")
  /\ CondBlock(t, <<mon[t], i>>)
  /\ Goto(t, "yield")
  /\ UNCHANGED mon

YieldInWait(t) ==
  /\ At(t, "yield")
  /\ timer_callback(state)
  /\ Goto(t, "relock")
  /\ UNCHANGED <<syncVars, mon>>

Relock(t) ==
  /\ At(t, "relock")
  /\ MutexLock(t, mon[t])
  /\ UNCHANGED mon

Notify(t, i) ==
  /\ At(t, "in")
  /\ CondSignal(<<mon[t], i>>)
  /\ UNCHANGED <<pc, mon>>

NotifyAll(t, i) ==
  /\ At(t, "in")
  /\ CondBroadcast(<<mon[t], i>>)
  /\ UNCHANGED <<pc, mon>>

(* The PIT fires wherever interrupts are enabled. *)
TimerIrq ==
  /\ pc[running] # "retry"
  /\ timer_callback(state)
  /\ UNCHANGED <<syncVars, pc, mon>>

(* monitor_wait and its kin return at once for an index out of range: the
   calls worth a step are those inside it. *)
CallOn(t, i) == Wait(t, i) \/ Notify(t, i) \/ NotifyAll(t, i)

Step(t) ==
  \/ \E m \in Mutex : Enter(t, m)
  \/ Retry(t)
  \/ Exit(t)
  \/ YieldInWait(t)
  \/ Relock(t)
  \/ \E i \in 0 .. MAX_MONITOR_CONDS - 1 : CallOn(t, i)

Next == TimerIrq \/ \E t \in Client : Step(t)

Spec == Init /\ [][Next]_vars

-----------------------------------------------------------------------------
(* mutex.c: at most one task is inside a monitor; its lock is taken, and the task
   is the one recorded as the owner. *)
MutualExclusion ==
  /\ \A t, u \in Task :
       pc[t] = "in" /\ pc[u] = "in" /\ mon[t] = mon[u] => t = u
  /\ \A t \in Task :
       pc[t] = "in" => locked[mon[t]] /\ owner[mon[t]] = t

(* A wait queue holds exactly the tasks that wait for it: the tasks whose
   mutex_lock found m taken, those of cond_wait that nobody has signalled, all
   of them BLOCKED, each in one queue, each queue with an end.  A BLOCKED task
   outside every queue is never made READY again. *)
QueuesHoldTheBlocked ==
  /\ \A m \in Mutex : Ends(waitNext, mutexWaiters[m])
  /\ \A c \in Cond : Ends(waitNext, condWaiters[c])
  /\ \A m \in Mutex :
       MutexQueue(m) = {t \in Task : /\ state[t] = "BLOCKED"
                                     /\ pc[t] = "retry" /\ mon[t] = m}
  /\ \A m \in Mutex :
       UNION {CondQueue(<<m, i>>) : i \in 0 .. MAX_MONITOR_CONDS - 1} =
         {t \in Task : /\ state[t] = "BLOCKED"
                       /\ pc[t] \in {"yield", "relock"} /\ mon[t] = m}
  /\ \A c, d \in Cond : c # d => CondQueue(c) \cap CondQueue(d) = {}

(* No lost wakeup: when a lock is free and tasks still queue for it, a task that
   mutex_unlock took out of the queue is on its way to take it. *)
WakeupPending ==
  \A m \in Mutex :
    ~locked[m] /\ mutexWaiters[m] # NULL =>
      \E t \in Task : pc[t] = "retry" /\ mon[t] = m /\ Runnable(state, t)
=============================================================================
