-------------------------------- MODULE Sync --------------------------------
(***************************************************************************)
(* mutex.c, cond.c and monitor.c over the scheduler: the data of every     *)
(* monitor_t and the code between a cli and the next sti or task_yield,    *)
(* one operator per such stretch.  Interrupts are disabled inside, so each *)
(* operator is one atomic step of whoever executes it; the modules that    *)
(* extend this one say where control goes before and after.                *)
(*                                                                         *)
(* A wait queue is what the code makes it: a head pointer and the          *)
(* wait_next fields of the tasks, one field per task for all queues.       *)
(***************************************************************************)
EXTENDS Sched

CONSTANTS
  Mutex,                  \* the monitors, named by their lock
  MAX_MONITOR_CONDS

ASSUME SyncAssumption == MAX_MONITOR_CONDS \in Nat

Cond == Mutex \X (0 .. MAX_MONITOR_CONDS - 1)

VARIABLES
  locked,                 \* mutex->locked
  owner,                  \* mutex->owner
  mutexWaiters,           \* mutex->waiters
  condWaiters,            \* cond->waiters
  waitNext                \* task->wait_next

syncVars == <<locked, owner, mutexWaiters, condWaiters, waitNext>>

TaskPtr == Task \cup {NULL}

SyncTypeOK ==
  /\ locked \in [Mutex -> BOOLEAN]
  /\ owner \in [Mutex -> TaskPtr]
  /\ mutexWaiters \in [Mutex -> TaskPtr]
  /\ condWaiters \in [Cond -> TaskPtr]
  /\ waitNext \in [Task -> TaskPtr]

(* monitor_init(). *)
SyncInit ==
  /\ locked = [m \in Mutex |-> FALSE]
  /\ owner = [m \in Mutex |-> NULL]
  /\ mutexWaiters = [m \in Mutex |-> NULL]
  /\ condWaiters = [c \in Cond |-> NULL]
  /\ waitNext = [t \in Task |-> NULL]

-----------------------------------------------------------------------------
(* Wait queues. *)

(* The tasks a walk along `next` from `head` visits: the least set that holds
   head and is closed under next. *)
Reach(next, head) ==
  IF head = NULL THEN {}
  ELSE {t \in Task : \A S \in SUBSET Task :
          (head \in S /\ \A u \in S : next[u] # NULL => next[u] \in S) => t \in S}

(* A walk that meets no NULL never ends, and with interrupts disabled the
   machine hangs: the steps below that walk a queue require its end. *)
Ends(next, head) ==
  head = NULL \/ \E t \in Reach(next, head) : next[t] = NULL

(* The tasks in the queue of a mutex, of a condition variable. *)
MutexQueue(m) == Reach(waitNext, mutexWaiters[m])
CondQueue(c)  == Reach(waitNext, condWaiters[c])

HeadAfter(head, t) == IF head = NULL THEN t ELSE head

\* Mutant: t->wait_next keeps the value its last queue left in it.
LinkUncut(head, t) ==
  IF head = NULL
    THEN waitNext' = waitNext
    ELSE \E last \in Reach(waitNext, head) :
           /\ waitNext[last] = NULL
           /\ waitNext' = [waitNext EXCEPT ![last] = t]

(* "Add current task to the wait queue": t->wait_next = NULL, then t becomes
   the head or the successor of the last task. *)
Link(head, t) ==
  LET cut == [waitNext EXCEPT ![t] = NULL]
  IN  IF head = NULL
        THEN waitNext' = cut
        ELSE \E last \in Reach(cut, head) :
               /\ cut[last] = NULL
               /\ waitNext' = [cut EXCEPT ![last] = t]

-----------------------------------------------------------------------------
(* mutex.c *)

\* Mutant: the lock is not looked at.
MutexTakeAnyway(t, m) ==
  /\ locked' = [locked EXCEPT ![m] = TRUE]
  /\ owner' = [owner EXCEPT ![m] = t]
  /\ UNCHANGED <<schedVars, mutexWaiters, condWaiters, waitNext>>

(* mutex_lock(), the lock being free: to the final sti. *)
MutexTake(t, m) ==
  /\ ~locked[m]
  /\ locked' = [locked EXCEPT ![m] = TRUE]
  /\ owner' = [owner EXCEPT ![m] = t]
  /\ UNCHANGED <<schedVars, mutexWaiters, condWaiters, waitNext>>

(* mutex_lock(), one turn of its loop: t queues up and yields the CPU. *)
MutexWait(t, m) ==
  /\ locked[m]
  /\ Link(mutexWaiters[m], t)
  /\ mutexWaiters' = [mutexWaiters EXCEPT ![m] = HeadAfter(@, t)]
  /\ timer_callback([state EXCEPT ![t] = "BLOCKED"])
  /\ UNCHANGED <<locked, owner, condWaiters>>

\* Mutant: the first waiter is taken out of the queue but not made READY.
MutexUnlockSilent(m, st) ==
  LET waiter == mutexWaiters[m]
  IN  /\ locked' = [locked EXCEPT ![m] = FALSE]
      /\ owner' = [owner EXCEPT ![m] = NULL]
      /\ mutexWaiters' = IF waiter = NULL THEN mutexWaiters
                         ELSE [mutexWaiters EXCEPT ![m] = waitNext'[waiter]]
      /\ state' = st
      /\ UNCHANGED <<sleepTicks, running>>

(* mutex_unlock(), called when the task states are st.  waitNext' is the link
   field as its caller leaves it. *)
MutexUnlock(m, st) ==
  LET waiter == mutexWaiters[m]
  IN  /\ locked' = [locked EXCEPT ![m] = FALSE]
      /\ owner' = [owner EXCEPT ![m] = NULL]
      /\ IF waiter = NULL
           THEN /\ mutexWaiters' = mutexWaiters
                /\ state' = st
           ELSE /\ mutexWaiters' = [mutexWaiters EXCEPT ![m] = waitNext'[waiter]]
                /\ state' = [st EXCEPT ![waiter] = "READY"]
      /\ UNCHANGED <<sleepTicks, running>>

(* mutex_unlock() as monitor_exit() calls it. *)
MonitorExit(m) ==
  /\ UNCHANGED <<waitNext, condWaiters>>
  /\ MutexUnlock(m, state)

-----------------------------------------------------------------------------
(* cond.c *)

(* cond_wait() up to the sti of its mutex_unlock: t is in the queue and BLOCKED
   but still on the CPU. *)
CondBlock(t, c) ==
  /\ Link(condWaiters[c], t)
  /\ condWaiters' = [condWaiters EXCEPT ![c] = HeadAfter(@, t)]
  /\ MutexUnlock(c[1], [state EXCEPT ![t] = "BLOCKED"])

CondBroadcast(c) ==
  /\ Ends(waitNext, condWaiters[c])
  /\ condWaiters' = [condWaiters EXCEPT ![c] = NULL]
  /\ state' = [t \in Task |-> IF t \in Reach(waitNext, condWaiters[c])
                                THEN "READY" ELSE state[t]]
  /\ UNCHANGED <<locked, owner, mutexWaiters, waitNext, sleepTicks, running>>

\* Mutant: the first waiter is taken out of the queue but not made READY.
CondSignalSilent(c) ==
  LET waiter == condWaiters[c]
  IN  /\ IF waiter = NULL
           THEN UNCHANGED condWaiters
           ELSE condWaiters' = [condWaiters EXCEPT ![c] = waitNext[waiter]]
      /\ UNCHANGED <<schedVars, locked, owner, mutexWaiters, waitNext>>

CondSignal(c) ==
  LET waiter == condWaiters[c]
  IN  /\ IF waiter = NULL
           THEN UNCHANGED <<condWaiters, state>>
           ELSE /\ condWaiters' = [condWaiters EXCEPT ![c] = waitNext[waiter]]
                /\ state' = [state EXCEPT ![waiter] = "READY"]
      /\ UNCHANGED <<locked, owner, mutexWaiters, waitNext, sleepTicks, running>>
=============================================================================
