------------------------------- MODULE Sched --------------------------------
(***************************************************************************)
(* The round-robin scheduler of src/kernel/task.c and the timer interrupt  *)
(* of src/kernel/drivers/timer.c that drives it, as operators that the     *)
(* modules with tasks in them use.  One CPU executes `running`; every      *)
(* other task is parked in timer_callback, on its own stack.               *)
(*                                                                         *)
(* A task is the number task_init or task_create gave it (next_task_id).   *)
(* ready_queue links the tasks in that order and kmain creates all of them *)
(* before it enables interrupts, so task->next is t + 1, and after task N  *)
(* schedule() goes back to task 1, kmain's own hlt loop.                   *)
(***************************************************************************)
EXTENDS Integers

CONSTANT N        \* number of tasks in ready_queue, kmain's included

ASSUME NAssumption == N \in Nat \ {0}

Task      == 1 .. N
Idle      == 1
NULL      == 0    \* the null task_t pointer
TaskState == {"RUNNING", "READY", "BLOCKED", "SLEEPING"}

VARIABLES
  state,          \* task->state
  sleepTicks,     \* task->sleep_ticks
  running         \* running_task

schedVars == <<state, sleepTicks, running>>

SchedTypeOK ==
  /\ state \in [Task -> TaskState]
  /\ sleepTicks \in [Task -> Nat]
  /\ running \in Task

(* The state kmain leaves behind when it executes sti. *)
SchedInit ==
  /\ state = [t \in Task |-> IF t = Idle THEN "RUNNING" ELSE "READY"]
  /\ sleepTicks = [t \in Task |-> 0]
  /\ running = Idle

-----------------------------------------------------------------------------
(* tasks_update_sleep_ticks(): what it leaves in sleep_ticks and in state. *)

\* Mutant: decrements every task's counter, sleeping or not.
TicksLeftAlways(st) == [t \in Task |-> sleepTicks[t] - 1]

\* Mutant: the loop stops at the first sleeper of ready_queue.
TicksLeftFirst(st) ==
  [t \in Task |->
     IF /\ st[t] = "SLEEPING" /\ sleepTicks[t] > 0
        /\ \A u \in Task : u < t => st[u] # "SLEEPING"
       THEN sleepTicks[t] - 1 ELSE sleepTicks[t]]

TicksLeft(st) ==
  [t \in Task |-> IF st[t] = "SLEEPING" /\ sleepTicks[t] > 0
                    THEN sleepTicks[t] - 1 ELSE sleepTicks[t]]

Woken(st) ==
  [t \in Task |-> IF st[t] = "SLEEPING" /\ sleepTicks[t] = 1
                    THEN "READY" ELSE st[t]]

(* schedule(): u comes before n when the list is walked from r's successor. *)
WalkedBefore(r, u, n) == IF r < n THEN r < u /\ u < n ELSE r < u \/ u < n

Runnable(st, t) == st[t] \in {"READY", "RUNNING"}

\* Mutant: the walk starts at ready_queue instead of running_task->next.
PickedFromHead(st, r, n) ==
  /\ Runnable(st, n)
  /\ \A u \in Task : u < n => ~Runnable(st, u)

(* n is the first runnable task after r, r itself being looked at last; when
   nothing at all is runnable the loop ends at r, whatever r's state. *)
Picked(st, r, n) ==
  \/ /\ Runnable(st, n)
     /\ \A u \in Task \ {n} : WalkedBefore(r, u, n) => ~Runnable(st, u)
  \/ /\ n = r
     /\ \A u \in Task : ~Runnable(st, u)

(* The timer interrupt, raised by the PIT or by the int $0x20 of task_yield(),
   hitting the running task when the task states are st. *)
timer_callback(st) ==
  LET saved == [t \in Task |-> IF t = running /\ st[t] = "RUNNING"
                                 THEN "READY" ELSE Woken(st)[t]]
  IN  /\ sleepTicks' = TicksLeft(st)
      /\ \E n \in Task :
           /\ Picked(saved, running, n)
           /\ running' = n
           /\ state' = [t \in Task |-> IF t = n THEN "RUNNING" ELSE saved[t]]
=============================================================================
