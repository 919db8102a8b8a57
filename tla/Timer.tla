------------------------------- MODULE Timer --------------------------------
(***************************************************************************)
(* Preemption and sleep(): every task but kmain's loops over some work and *)
(* a sleep(), as producer() and consumer() do, and the PIT interrupts it   *)
(* between any two statements.  sleep() runs with interrupts enabled, so   *)
(* its three statements are three steps.                                   *)
(***************************************************************************)
EXTENDS Sched

CONSTANTS
  SleepMs,        \* the arguments sleep() is called with
  TickWrap        \* tick is a uint32_t that nothing reads: kept modulo this

ASSUME TimerAssumption == SleepMs \subseteq Nat /\ TickWrap \in Nat \ {0}

VARIABLES
  pc,             \* the statement of sleep() a task is about to execute
  tick            \* timer.c's tick

vars == <<schedVars, pc, tick>>

Sleeper == Task \ {Idle}

TypeOK ==
  /\ SchedTypeOK
  /\ pc \in [Task -> {"work", "set_state", "yield"}]
  /\ tick \in 0 .. TickWrap - 1

Init ==
  /\ SchedInit
  /\ pc = [t \in Task |-> "work"]
  /\ tick = 0

Goto(t, from, to) ==
  /\ running = t
  /\ pc[t] = from
  /\ pc' = [pc EXCEPT ![t] = to]

Interrupt ==
  /\ timer_callback(state)
  /\ tick' = (tick + 1) % TickWrap

(* The PIT fires: interrupts are enabled at every point of this module. *)
TimerIrq ==
  /\ Interrupt
  /\ UNCHANGED pc

\* Mutant: sleep() without its "at least one tick" correction.
TicksToWaitUnchecked(ms) == ms \div 10

TicksToWait(ms) == IF ms \div 10 = 0 THEN 1 ELSE ms \div 10

Sleep(t, ms) ==
  /\ Goto(t, "work", "set_state")
  /\ sleepTicks' = [sleepTicks EXCEPT ![t] = TicksToWait(ms)]
  /\ UNCHANGED <<state, running, tick>>

SetSleeping(t) ==
  /\ Goto(t, "set_state", "yield")
  /\ state' = [state EXCEPT ![t] = "SLEEPING"]
  /\ UNCHANGED <<sleepTicks, running, tick>>

YieldAsleep(t) ==
  /\ Goto(t, "yield", "work")
  /\ Interrupt

Step(t) ==
  \/ \E ms \in SleepMs : Sleep(t, ms)
  \/ SetSleeping(t)
  \/ YieldAsleep(t)

Next == TimerIrq \/ \E t \in Sleeper : Step(t)

(* The PIT never stops, and a task that is given the CPU executes statements
   before the next tick: 10 ms are far longer than a statement. *)
Fairness == WF_vars(TimerIrq) /\ \A t \in Sleeper : SF_vars(Step(t))

Spec     == Init /\ [][Next]_vars
FairSpec == Spec /\ Fairness

-----------------------------------------------------------------------------
(* Whatever sleep() and the interrupts interleave, only the task on the CPU can
   be RUNNING, and a SLEEPING task has ticks left: tasks_update_sleep_ticks
   never wakes a sleeper whose count is already 0, so such a task is lost. *)
SleepersCanWake ==
  \A t \in Task :
    /\ state[t] = "RUNNING" => t = running
    /\ state[t] = "SLEEPING" => sleepTicks[t] > 0

(* sleep() returns: a task that has stored its ticks gets the CPU again behind its
   task_yield.  Past the yield alone is not enough, since the yield that switches
   the task out leaves it there, asleep. *)
SleepReturns ==
  \A t \in Sleeper : pc[t] = "set_state" ~> running = t /\ pc[t] = "work"
=============================================================================
