---------------------------- MODULE AddressSpace ----------------------------
(***************************************************************************)
(* What paging promises: pages get mapped one at a time, each to a frame   *)
(* that is right for it, and a mapping stays what it is.                   *)
(***************************************************************************)
EXTENDS Integers

CONSTANTS
  Linear, High, Offset,   \* the pages that lead to themselves, and Offset below
  Ram                     \* the frames of everything else, one page each

VARIABLES
  space,                  \* the frame of every page that is mapped
  device                  \* pages beside Linear that lead to themselves

Init == space = <<>>

Promised(v) ==
  IF v \in Linear \cup device THEN {v}
  ELSE IF v \in High THEN {v - Offset}
  ELSE Ram \ {space[u] : u \in DOMAIN space \ (Linear \cup High)}

Map ==
  /\ \E v \in DOMAIN space' \ DOMAIN space :
       \E f \in Promised(v) :
         space' = [u \in {v} \cup DOMAIN space |-> IF u = v THEN f ELSE space[u]]
  /\ UNCHANGED device

Spec == Init /\ [][Map]_<<space, device>>
=============================================================================
