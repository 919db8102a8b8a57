------------------------------ MODULE MCTimer -------------------------------
(***************************************************************************)
(* Timer with two history variables: how often a runnable task was passed  *)
(* over, and how many PIT interrupts a sleeper may still be made to wait.  *)
(***************************************************************************)
EXTENDS Timer

VARIABLES
  passed,         \* scheduling decisions since the task became runnable
  owed            \* ticks the task asked for, less the PIT interrupts since

histVars == <<vars, passed, owed>>

HInit == Init /\ passed = [t \in Task |-> 0] /\ owed = [t \in Task |-> 0]

CountPassed ==
  passed' = [t \in Task |-> IF t # running' /\ Runnable(state', t)
                              THEN passed[t] + 1 ELSE 0]

HTimerIrq ==
  /\ TimerIrq
  /\ CountPassed
  /\ owed' = [t \in Task |-> IF owed[t] > 0 THEN owed[t] - 1 ELSE 0]

HStep(t) ==
  /\ Step(t)
  /\ IF pc[t] = "yield" THEN CountPassed ELSE UNCHANGED passed
  /\ owed' = IF pc[t] = "set_state" THEN [owed EXCEPT ![t] = sleepTicks[t]]
                                    ELSE owed

HNext == HTimerIrq \/ \E t \in Sleeper : HStep(t)

HSpec == /\ HInit /\ [][HNext]_histVars
         /\ WF_histVars(HTimerIrq) /\ \A t \in Sleeper : SF_histVars(HStep(t))

(* schedule() is a round robin: a runnable task sees every other task chosen at
   most once before its own turn. *)
BoundedBypass == \A t \in Task : passed[t] <= N - 1

(* timer.c:40, "Since timer is 100Hz, 1 tick = 10ms", as an upper bound: every
   interrupt of the PIT counts for every sleeper, whichever task it hits, so a
   task is no longer SLEEPING once the ticks it asked for have passed.  (Not as
   a lower bound: the int $0x20 of another task's task_yield counts as well.) *)
SleepsNoLonger ==
  \A t \in Task : state[t] = "SLEEPING" => sleepTicks[t] <= owed[t]
=============================================================================
