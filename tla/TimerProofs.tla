---------------------------- MODULE TimerProofs -----------------------------
(***************************************************************************)
(* sleep() loses no task and keeps none asleep for longer than it asked,   *)
(* and schedule() is a round robin, for every number of tasks and every    *)
(* argument.                                                               *)
(***************************************************************************)
EXTENDS MCTimer, SyncProofs

LEMMA TypeInit == Init => TypeOK
BY NAssumption, TimerAssumption
   DEF Init, SchedInit, TypeOK, SchedTypeOK, Task, TaskState, Idle

LEMMA TypeNext == TypeOK /\ [Next]_vars => TypeOK'
<1>. SUFFICES ASSUME TypeOK, [Next]_vars PROVE TypeOK'
  OBVIOUS
<1>. USE NAssumption, TimerAssumption DEF TypeOK
<1>1. CASE TimerIrq
  <2>1. SchedTypeOK'
    BY <1>1, TimerType DEF TimerIrq, Interrupt, SchedTypeOK
  <2>2. tick' \in 0 .. TickWrap - 1
    BY <1>1 DEF TimerIrq, Interrupt
  <2>. QED
    BY <1>1, <2>1, <2>2 DEF TimerIrq
<1>2. ASSUME NEW t \in Sleeper, NEW ms \in SleepMs, Sleep(t, ms) PROVE TypeOK'
  <2>1. TicksToWait(ms) \in Nat
    BY DEF TicksToWait
  <2>. QED
    BY <1>2, <2>1 DEF Sleep, Goto, SchedTypeOK, Sleeper
<1>3. ASSUME NEW t \in Sleeper, SetSleeping(t) PROVE TypeOK'
  BY <1>3 DEF SetSleeping, Goto, SchedTypeOK, Sleeper, TaskState
<1>4. ASSUME NEW t \in Sleeper, YieldAsleep(t) PROVE TypeOK'
  <2>1. SchedTypeOK'
    BY <1>4, TimerType DEF YieldAsleep, Interrupt, SchedTypeOK
  <2>2. tick' \in 0 .. TickWrap - 1
    BY <1>4 DEF YieldAsleep, Interrupt
  <2>. QED
    BY <1>4, <2>1, <2>2 DEF YieldAsleep, Goto
<1>5. CASE UNCHANGED vars
  BY <1>5 DEF vars, schedVars, SchedTypeOK
<1>. QED
  BY <1>1, <1>2, <1>3, <1>4, <1>5 DEF Next, Step

(* Timer's variables keep their types: every counter the interrupts touch stays
   a natural number. *)
THEOREM TypeCorrect == Spec => []TypeOK
BY TypeInit, TypeNext, PTL DEF Spec

-----------------------------------------------------------------------------
(* SleepersCanWake is not inductive: a task that has stored its ticks and not
   yet marked itself could have been SLEEPING already and lose them to a tick,
   and the task on the CPU could be SLEEPING anywhere.  It is the order of the
   statements of sleep() that excludes both. *)
SleepInv ==
  /\ SleepersCanWake
  /\ state[running] = "SLEEPING" => pc[running] = "yield"
  /\ \A t \in Sleeper :
       pc[t] = "set_state" => state[t] # "SLEEPING" /\ sleepTicks[t] > 0

LEMMA SleepInvInit == Init => SleepInv
BY NAssumption
   DEF Init, SchedInit, SleepInv, SleepersCanWake, Task, Sleeper, Idle

LEMMA SleepInvTimer ==
  ASSUME TypeOK, SleepInv, timer_callback(state)
  PROVE  /\ SleepersCanWake'
         /\ state'[running'] # "SLEEPING"
         /\ \A t \in Sleeper :
              pc[t] = "set_state" => state'[t] # "SLEEPING" /\ sleepTicks'[t] > 0
<1>. USE DEF TypeOK
<1>. state \in [Task -> TaskState]
  BY DEF SchedTypeOK
<1>1. /\ state'[running'] = "RUNNING"
      /\ \A u \in Task : state'[u] = "RUNNING" => u = running'
  BY TimerRunning DEF SleepInv, SleepersCanWake
<1>2. \A u \in Task : state'[u] = "SLEEPING" => sleepTicks'[u] > 0
  BY TimerBlocks, TimerSleep DEF SleepInv, SleepersCanWake
<1>3. \A t \in Sleeper :
        pc[t] = "set_state" => state'[t] # "SLEEPING" /\ sleepTicks'[t] > 0
  BY TimerBlocks, TimerSleep DEF SleepInv, Sleeper
<1>. QED
  BY <1>1, <1>2, <1>3 DEF SleepersCanWake

LEMMA SleepInvNext == TypeOK /\ SleepInv /\ [Next]_vars => SleepInv'
<1>. SUFFICES ASSUME TypeOK, SleepInv, [Next]_vars PROVE SleepInv'
  OBVIOUS
<1>. USE NAssumption, TimerAssumption
<1>1. CASE TimerIrq
  BY <1>1, SleepInvTimer DEF TimerIrq, Interrupt, SleepInv
<1>2. ASSUME NEW t \in Sleeper, NEW ms \in SleepMs, Sleep(t, ms) PROVE SleepInv'
  <2>1. TicksToWait(ms) \in Nat \ {0}
    BY DEF TicksToWait
  <2>. QED
    BY <1>2, <2>1
       DEF Sleep, Goto, SleepInv, SleepersCanWake, TypeOK, SchedTypeOK, Sleeper
<1>3. ASSUME NEW t \in Sleeper, SetSleeping(t) PROVE SleepInv'
  BY <1>3 DEF SetSleeping, Goto, SleepInv, SleepersCanWake, TypeOK, SchedTypeOK,
              Sleeper, TaskState
<1>4. ASSUME NEW t \in Sleeper, YieldAsleep(t) PROVE SleepInv'
  BY <1>4, SleepInvTimer
     DEF YieldAsleep, Interrupt, Goto, SleepInv, TypeOK, Sleeper
<1>5. CASE UNCHANGED vars
  BY <1>5 DEF vars, schedVars, SleepInv, SleepersCanWake
<1>. QED
  BY <1>1, <1>2, <1>3, <1>4, <1>5 DEF Next, Step

(* timer.c, task.c: whatever the PIT interrupts, only the task on the CPU is
   RUNNING and a SLEEPING task has ticks left to be woken by. *)
THEOREM SleepersAlwaysCanWake == Spec => []SleepersCanWake
<1>1. SleepInv => SleepersCanWake
  BY DEF SleepInv
<1>. QED
  BY TypeCorrect, SleepInvInit, SleepInvNext, <1>1, PTL DEF Spec

-----------------------------------------------------------------------------
(* The history variables record Timer and do not steer it: every step of HNext
   is a step of Next, so that Timer's invariants hold of HSpec. *)
LEMMA HistoryRecords == [HNext]_histVars => [Next]_vars
BY DEF HNext, HTimerIrq, HStep, Next, histVars

LEMMA HistoryInvariants == HSpec => [](TypeOK /\ SleepInv)
<1>1. HInit => TypeOK /\ SleepInv
  BY TypeInit, SleepInvInit DEF HInit
<1>2. TypeOK /\ SleepInv /\ [HNext]_histVars => TypeOK' /\ SleepInv'
  BY HistoryRecords, TypeNext, SleepInvNext
<1>. QED
  BY <1>1, <1>2, PTL DEF HSpec

(* A tick is owed for every tick left to a sleeper, and owed holds naturals. *)
OwedInv == owed \in [Task -> Nat] /\ SleepsNoLonger

LEMMA OwedInvNext ==
  TypeOK /\ SleepInv /\ OwedInv /\ [HNext]_histVars => OwedInv'
<1>. SUFFICES ASSUME TypeOK, SleepInv, OwedInv, [HNext]_histVars PROVE OwedInv'
  OBVIOUS
<1>. USE DEF OwedInv, SleepsNoLonger, TypeOK, SchedTypeOK
<1>1. ASSUME timer_callback(state), NEW t \in Task, state'[t] = "SLEEPING"
      PROVE  state[t] = "SLEEPING" /\ sleepTicks'[t] = sleepTicks[t] - 1
  <2>1. state[t] = "SLEEPING" /\ sleepTicks[t] > 0
    BY <1>1, TimerBlocks DEF SleepInv, SleepersCanWake
  <2>. QED
    BY <1>1, <2>1 DEF timer_callback, TicksLeft
<1>2. CASE HTimerIrq
  <2>1. ASSUME NEW t \in Task, state'[t] = "SLEEPING"
        PROVE  sleepTicks'[t] <= owed'[t]
    <3>1. sleepTicks[t] > 0 /\ sleepTicks[t] <= owed[t]
          /\ sleepTicks'[t] = sleepTicks[t] - 1
      BY <1>1, <1>2, <2>1
         DEF HTimerIrq, TimerIrq, Interrupt, SleepInv, SleepersCanWake
    <3>2. owed'[t] = IF owed[t] > 0 THEN owed[t] - 1 ELSE 0
      BY <1>2 DEF HTimerIrq
    <3>. QED
      BY <3>1, <3>2
  <2>. QED
    BY <1>2, <2>1 DEF HTimerIrq
<1>3. ASSUME NEW t \in Sleeper, HStep(t) PROVE OwedInv'
  <2>1. ASSUME NEW ms \in SleepMs, Sleep(t, ms) PROVE OwedInv'
    BY <1>3, <2>1 DEF HStep, Sleep, Goto, SleepInv, Sleeper
  <2>2. CASE SetSleeping(t)
    BY <1>3, <2>2 DEF HStep, SetSleeping, Goto, Sleeper
  <2>3. CASE YieldAsleep(t)
    <3>1. owed' = owed
      BY <1>3, <2>3 DEF HStep, YieldAsleep, Goto
    <3>. QED
      BY <1>1, <2>3, <3>1 DEF YieldAsleep, Interrupt
  <2>. QED
    BY <1>3, <2>1, <2>2, <2>3 DEF HStep, Step
<1>4. CASE UNCHANGED histVars
  BY <1>4 DEF histVars, vars, schedVars
<1>. QED
  BY <1>2, <1>3, <1>4 DEF HNext

(* timer.c:40 as an upper bound: once the PIT has fired as often as a sleeper
   asked for, the sleeper is not SLEEPING any more. *)
THEOREM SleepersAreWokenInTime == HSpec => []SleepsNoLonger
<1>1. HInit => OwedInv
  BY DEF HInit, Init, SchedInit, OwedInv, SleepsNoLonger
<1>2. OwedInv => SleepsNoLonger
  BY DEF OwedInv
<1>. QED
  BY HistoryInvariants, OwedInvNext, <1>1, <1>2, PTL DEF HSpec

-----------------------------------------------------------------------------
(* How far schedule()'s walk from r is from t. *)
Distance(r, t) == IF r < t THEN t - r ELSE N + t - r

LEMMA DistanceRange ==
  ASSUME NEW r \in Task, NEW t \in Task
  PROVE  Distance(r, t) \in 1 .. N /\ (t # r => Distance(r, t) \in 1 .. N - 1)
BY NAssumption DEF Distance, Task

(* The task schedule() picks is nearer to running_task than every other task
   that it could have picked. *)
LEMMA PickedIsNearest ==
  ASSUME NEW st \in [Task -> TaskState], NEW r \in Task, NEW n \in Task,
         Picked(st, r, n), NEW t \in Task, Runnable(st, t), t # n
  PROVE  t # r => Distance(n, t) < Distance(r, t)
<1>1. ~WalkedBefore(r, t, n)
  BY DEF Picked
<1>. QED
  BY <1>1, NAssumption DEF WalkedBefore, Distance, Task

(* BoundedBypass is not inductive: a task that was passed N - 1 times must have
   its turn next.  Every time a task is passed the walk has come nearer to it,
   and it is N - 1 steps away at most when it becomes runnable. *)
BypassInv ==
  /\ passed \in [Task -> Nat]
  /\ \A t \in Task :
       IF t # running /\ Runnable(state, t)
         THEN passed[t] + Distance(running, t) <= N
         ELSE passed[t] = 0

LEMMA BypassInvDecision ==
  ASSUME TypeOK, BypassInv, timer_callback(state), CountPassed
  PROVE  BypassInv'
<1>. USE NAssumption DEF TypeOK, SchedTypeOK
<1>. DEFINE saved == [t \in Task |-> IF t = running /\ state[t] = "RUNNING"
                                       THEN "READY" ELSE Woken(state)[t]]
<1>1. saved \in [Task -> TaskState]
  BY DEF Woken, TaskState
<1>2. /\ running' \in Task
      /\ Picked(saved, running, running')
      /\ state' = [t \in Task |-> IF t = running' THEN "RUNNING" ELSE saved[t]]
  BY DEF timer_callback
<1>3. passed' = [t \in Task |-> IF t # running' /\ Runnable(state', t)
                                  THEN passed[t] + 1 ELSE 0]
  BY DEF CountPassed
<1>4. ASSUME NEW t \in Task, t # running', Runnable(state', t)
      PROVE  passed[t] + 1 + Distance(running', t) <= N
  <2>1. Runnable(saved, t)
    BY <1>2, <1>4 DEF Runnable
  <2>2. Distance(running', t) \in 1 .. N - 1
    BY <1>2, <1>4, DistanceRange
  <2>3. CASE t = running \/ ~Runnable(state, t)
    <3>1. passed[t] = 0
      BY <2>3 DEF BypassInv
    <3>. QED
      BY <2>2, <3>1
  <2>4. CASE t # running /\ Runnable(state, t)
    <3>1. Distance(running', t) < Distance(running, t)
      BY <1>1, <1>2, <1>4, <2>1, <2>4, PickedIsNearest
    <3>2. passed[t] + Distance(running, t) <= N /\ passed[t] \in Nat
      BY <2>4 DEF BypassInv
    <3>3. Distance(running, t) \in 1 .. N
      BY DistanceRange
    <3>. QED
      BY <2>2, <3>1, <3>2, <3>3
  <2>. QED
    BY <2>3, <2>4
<1>. QED
  BY <1>3, <1>4 DEF BypassInv

LEMMA BypassInvNext == TypeOK /\ BypassInv /\ [HNext]_histVars => BypassInv'
<1>. SUFFICES ASSUME TypeOK, BypassInv, [HNext]_histVars PROVE BypassInv'
  OBVIOUS
<1>1. CASE HTimerIrq
  BY <1>1, BypassInvDecision DEF HTimerIrq, TimerIrq, Interrupt
<1>2. ASSUME NEW t \in Sleeper, HStep(t) PROVE BypassInv'
  <2>1. ASSUME NEW ms \in SleepMs, Sleep(t, ms) PROVE BypassInv'
    BY <1>2, <2>1 DEF HStep, Sleep, Goto, BypassInv, Runnable
  <2>2. CASE SetSleeping(t)
    <3>1. running = t /\ running' = t /\ passed' = passed
      BY <1>2, <2>2 DEF HStep, SetSleeping, Goto
    <3>2. \A u \in Task \ {t} : state'[u] = state[u]
      BY <2>2 DEF SetSleeping, TypeOK, SchedTypeOK
    <3>. QED
      BY <3>1, <3>2 DEF BypassInv, Runnable
  <2>3. CASE YieldAsleep(t)
    BY <1>2, <2>3, BypassInvDecision DEF HStep, YieldAsleep, Interrupt, Goto
  <2>. QED
    BY <1>2, <2>1, <2>2, <2>3 DEF HStep, Step
<1>3. CASE UNCHANGED histVars
  BY <1>3 DEF histVars, vars, schedVars, BypassInv, Runnable
<1>. QED
  BY <1>1, <1>2, <1>3 DEF HNext

(* task.c, schedule(): a runnable task sees every other task chosen at most once
   before its own turn. *)
THEOREM ScheduleIsRoundRobin == HSpec => []BoundedBypass
<1>1. HInit => BypassInv
  BY NAssumption DEF HInit, Init, SchedInit, BypassInv, Distance, Runnable, Task,
                     Idle
<1>2. TypeOK /\ BypassInv => BoundedBypass
  <2>. SUFFICES ASSUME TypeOK, BypassInv, NEW t \in Task PROVE passed[t] <= N - 1
    BY DEF BoundedBypass
  <2>1. running \in Task /\ passed[t] \in Nat
    BY DEF TypeOK, SchedTypeOK, BypassInv
  <2>2. Distance(running, t) \in 1 .. N
    BY <2>1, DistanceRange
  <2>3. passed[t] + Distance(running, t) <= N \/ passed[t] = 0
    BY DEF BypassInv
  <2>. QED
    BY <2>1, <2>2, <2>3, NAssumption
<1>. QED
  BY HistoryInvariants, BypassInvNext, <1>1, <1>2, PTL DEF HSpec
=============================================================================
