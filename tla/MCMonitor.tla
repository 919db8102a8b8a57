----------------------------- MODULE MCMonitor ------------------------------
(***************************************************************************)
(* monitor.c implements MesaMonitor: the refinement mapping.               *)
(***************************************************************************)
EXTENDS Monitor, FiniteSets

(* The tasks of a wait queue, first in line first: k-th is the task from which
   all but k - 1 of the queue are met. *)
Line(next, t) == Cardinality(Reach(next, t))

QueueSeq(next, head) ==
  LET length == Line(next, head)
  IN  [k \in 1 .. length |->
         CHOOSE t \in Reach(next, head) : Line(next, t) = length + 1 - k]

(* A task in cond_wait waits until it is signalled: BLOCKED says which. *)
Phase(t) ==
  CASE pc[t] \in {"out", "in"}                                -> pc[t]
    [] pc[t] \in {"yield", "relock"} /\ state[t] = "BLOCKED"  -> "wait"
    [] OTHER                                                  -> "want"

phaseOf   == [t \in Client |-> Phase(t)]
monitorOf == [t \in Client |-> mon[t]]
waitersOf == [c \in Cond |-> QueueSeq(waitNext, condWaiters[c])]

Mesa == INSTANCE MesaMonitor WITH
  Process  <- Client,
  Monitors <- Mutex,
  CondIdx  <- 0 .. MAX_MONITOR_CONDS - 1,
  phase    <- phaseOf,
  where    <- monitorOf,
  condQ    <- waitersOf

(* monitor.c: every step is one of the promised monitor's, or invisible to the
   callers.  In particular a task gets out of cond_wait only after a
   notification meant for it, notifications serve the waiters in the order of
   their arrival, and nobody is inside beside them. *)
ImplementsMesaMonitor == Mesa!Spec
=============================================================================
