--------------------------- MODULE PageAllocator ----------------------------
(***************************************************************************)
(* What a physical page allocator promises: aligned runs of 2^order pages, *)
(* each handed to one caller at a time and taken back whole.               *)
(***************************************************************************)
EXTENDS Integers

CONSTANTS Pages, Orders, Region

VARIABLE held     \* the runs handed out, as <<first page, order>>

Run(p, o) == p .. p + 2^o - 1
Free      == Region \ UNION {Run(h[1], h[2]) : h \in held}

Candidates(o) == {p \in Pages : p % 2^o = 0 /\ Run(p, o) \subseteq Free}

Init == held = {}

Alloc(o)   == \E p \in Candidates(o) : held' = held \cup {<<p, o>>}
Release(h) == held' = held \ {h}

Next == (\E o \in Orders : Alloc(o)) \/ (\E h \in held : Release(h))

Spec == Init /\ [][Next]_held
=============================================================================
