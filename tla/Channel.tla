------------------------------ MODULE Channel -------------------------------
(***************************************************************************)
(* A bounded first-in first-out channel: what a ring buffer behind a       *)
(* monitor is for.  A sender may find it full and either wait or, where    *)
(* the caller does that, drop the item; both leave the channel alone.      *)
(***************************************************************************)
EXTENDS Naturals, Sequences

CONSTANTS Receivers, Items, Capacity

VARIABLES
  q,      \* the items sent and not yet received
  got     \* the last item each receiver got

vars == <<q, got>>

Init == q = <<>> /\ got \in [Receivers -> {0}]

Send ==
  /\ Len(q) < Capacity
  /\ \E x \in Items : q' = Append(q, x)
  /\ UNCHANGED got

Receive ==
  \E r \in Receivers :
    /\ q # <<>>
    /\ q' = Tail(q)
    /\ got' = [got EXCEPT ![r] = Head(q)]

Next == Send \/ Receive

Spec == Init /\ [][Next]_vars
=============================================================================
