----------------------------- MODULE MesaMonitor ----------------------------
(***************************************************************************)
(* What a monitor promises its callers, with no scheduler, no pointers and *)
(* no interrupts: one process inside at a time; a process that waits gets  *)
(* out of the way, is notified in the order of arrival, and only then      *)
(* competes for the monitor again with everybody else.                     *)
(***************************************************************************)
EXTENDS Naturals, Sequences

CONSTANTS Process, Monitors, CondIdx, NoMonitor

VARIABLES
  phase,    \* "out", "want" to be inside, "in", or "wait" on a condition
  where,    \* the monitor concerned, NoMonitor outside
  condQ     \* the processes waiting on each condition, first come first

vars == <<phase, where, condQ>>

Init ==
  /\ phase = [p \in Process |-> "out"]
  /\ where = [p \in Process |-> NoMonitor]
  /\ condQ = [c \in Monitors \X CondIdx |-> <<>>]

Free(m) == \A p \in Process : ~(phase[p] = "in" /\ where[p] = m)

Enter(p, m) ==
  /\ phase[p] = "out"
  /\ phase' = [phase EXCEPT ![p] = IF Free(m) THEN "in" ELSE "want"]
  /\ where' = [where EXCEPT ![p] = m]
  /\ UNCHANGED condQ

Acquire(p) ==
  /\ phase[p] = "want"
  /\ Free(where[p])
  /\ phase' = [phase EXCEPT ![p] = "in"]
  /\ UNCHANGED <<where, condQ>>

Leave(p) ==
  /\ phase[p] = "in"
  /\ phase' = [phase EXCEPT ![p] = "out"]
  /\ where' = [where EXCEPT ![p] = NoMonitor]
  /\ UNCHANGED condQ

Wait(p, i) ==
  /\ phase[p] = "in"
  /\ phase' = [phase EXCEPT ![p] = "wait"]
  /\ condQ' = [condQ EXCEPT ![<<where[p], i>>] = Append(@, p)]
  /\ UNCHANGED where

Notify(p, i) ==
  LET c == <<where[p], i>>
  IN  /\ phase[p] = "in"
      /\ condQ[c] # <<>>
      /\ phase' = [phase EXCEPT ![Head(condQ[c])] = "want"]
      /\ condQ' = [condQ EXCEPT ![c] = Tail(@)]
      /\ UNCHANGED where

NotifyAll(p, i) ==
  LET c     == <<where[p], i>>
      woken == {condQ[c][k] : k \in 1 .. Len(condQ[c])}
  IN  /\ phase[p] = "in"
      /\ phase' = [q \in Process |-> IF q \in woken THEN "want" ELSE phase[q]]
      /\ condQ' = [condQ EXCEPT ![c] = <<>>]
      /\ UNCHANGED where

Next ==
  \E p \in Process :
    \/ \E m \in Monitors : Enter(p, m)
    \/ Acquire(p)
    \/ Leave(p)
    \/ \E i \in CondIdx : Wait(p, i) \/ Notify(p, i) \/ NotifyAll(p, i)

Spec == Init /\ [][Next]_vars
=============================================================================
