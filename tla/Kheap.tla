------------------------------- MODULE Kheap --------------------------------
(***************************************************************************)
(* The kernel heap of src/kernel/mm/kheap.c: a doubly linked list of       *)
(* headers, each followed by its data.  The list is the sequence of its    *)
(* headers, a header its address, its size and its is_hole; addresses are  *)
(* relative to KHEAP_START.  kmalloc_internal calls itself after           *)
(* expand_heap: one search of the list is one step.                        *)
(***************************************************************************)
EXTENDS Integers, Sequences, FiniteSets, SequencesExt

CONSTANTS
  HDR,                      \* sizeof(header_t)
  PAGE_SIZE,
  KHEAP_INITIAL_SIZE,
  Sizes,                    \* the sizes kmalloc is called with
  AlignedSizes,             \* the sizes kmalloc_a is called with
  MaxHeap                   \* bound: the heap does not grow beyond it

ASSUME KheapAssumption ==
  /\ HDR \in Nat \ {0} /\ PAGE_SIZE \in Nat \ {0} /\ HDR < PAGE_SIZE
  /\ KHEAP_INITIAL_SIZE \in Nat /\ KHEAP_INITIAL_SIZE > HDR
  /\ KHEAP_INITIAL_SIZE % PAGE_SIZE = 0
  /\ Sizes \subseteq Nat /\ AlignedSizes \subseteq Nat \ {0} /\ MaxHeap \in Nat

VARIABLES
  headers,                  \* the list from heap_start
  heap_end,
  call,                     \* the kmalloc in progress, if any: a set of one or none
  live                      \* what callers got and have not freed

vars == <<headers, heap_end, call, live>>

Header  == [at : Nat, size : Nat, is_hole : BOOLEAN]
Request == [size : Nat, align : BOOLEAN, expanded : BOOLEAN]

TypeOK ==
  /\ headers \in Seq(Header)
  /\ heap_end \in Nat
  /\ call \subseteq Request
  /\ live \subseteq [ptr : Nat, size : Nat, align : BOOLEAN]

(* kheap_init() *)
Init ==
  /\ headers = <<[at |-> 0, size |-> KHEAP_INITIAL_SIZE - HDR, is_hole |-> TRUE]>>
  /\ heap_end = KHEAP_INITIAL_SIZE
  /\ call = {}
  /\ live = {}

-----------------------------------------------------------------------------
\* Mutant: the remainder of a split is counted one header too large.
SplitNoHeader(list, k, size) ==
  IF list[k].size <= size + HDR THEN list
  ELSE InsertAt(ReplaceAt(list, k, [list[k] EXCEPT !.size = size]), k + 1,
         [at |-> list[k].at + HDR + size, size |-> list[k].size - size,
          is_hole |-> TRUE])

\* Mutant: the early return is gone.
SplitAlways(list, k, size) ==
  InsertAt(ReplaceAt(list, k, [list[k] EXCEPT !.size = size]), k + 1,
    [at |-> list[k].at + HDR + size, size |-> list[k].size - size - HDR,
     is_hole |-> TRUE])

(* split_block(): the k-th block keeps `size`, a hole gets the rest. *)
Split(list, k, size) ==
  IF list[k].size <= size + HDR THEN list
  ELSE InsertAt(ReplaceAt(list, k, [list[k] EXCEPT !.size = size]), k + 1,
         [at |-> list[k].at + HDR + size, size |-> list[k].size - size - HDR,
          is_hole |-> TRUE])

\* Mutant: kmalloc_a does not align.
PaddingIgnored(b, align) == 0

(* From the data of a block to the next page boundary. *)
Padding(b, align) == IF align THEN (-(b.at + HDR)) % PAGE_SIZE ELSE 0

(* The tests of the search loop: big enough, and the padding either none or
   enough to become a hole of its own. *)
Fits(b, size, align) ==
  LET padding == Padding(b, align)
  IN  b.is_hole /\ b.size >= padding + size /\ (padding > HDR \/ padding = 0)

(* First fit. *)
Found(size, align) ==
  {k \in DOMAIN headers : /\ Fits(headers[k], size, align)
                          /\ \A j \in 1 .. k - 1 : ~Fits(headers[j], size, align)}

(* kmalloc(size), kmalloc_a(size). *)
Call(size, align) ==
  /\ call = {}
  /\ call' = {[size |-> size, align |-> align, expanded |-> FALSE]}
  /\ UNCHANGED <<headers, heap_end, live>>

Allocate ==
  /\ \E r \in call : \E k \in Found(r.size, r.align) :
       LET padding == Padding(headers[k], r.align)
           cut     == IF padding > 0 THEN Split(headers, k, padding - HDR) ELSE headers
           j       == IF padding > 0 THEN k + 1 ELSE k
           fitted  == Split(cut, j, r.size)
       IN  /\ headers' = ReplaceAt(fitted, j, [fitted[j] EXCEPT !.is_hole = FALSE])
           /\ live' = live \cup
                {[ptr |-> fitted[j].at + HDR, size |-> r.size, align |-> r.align]}
  /\ call' = {}
  /\ UNCHANGED heap_end

\* Mutant: the new pages hold the data, but not its header.
ExpansionTight(r) == r.size + (IF r.align THEN PAGE_SIZE ELSE 0)

(* What kmalloc_internal asks expand_heap for, and its rounding. *)
Expansion(r) == r.size + (IF r.align THEN PAGE_SIZE ELSE 0) + HDR

RoundUp(n) == ((n + PAGE_SIZE - 1) \div PAGE_SIZE) * PAGE_SIZE

(* expand_heap(), the frames being there. *)
Expand ==
  \E r \in call :
    LET added == RoundUp(Expansion(r))
        last  == Len(headers)
    IN  /\ Found(r.size, r.align) = {}
        /\ heap_end + added <= MaxHeap
        /\ heap_end' = heap_end + added
        /\ headers' = IF headers[last].is_hole
                        THEN [headers EXCEPT ![last].size = @ + added]
                        ELSE Append(headers, [at |-> heap_end, size |-> added - HDR,
                                              is_hole |-> TRUE])
        /\ call' = {[r EXCEPT !.expanded = TRUE]}
        /\ UNCHANGED live

-----------------------------------------------------------------------------
\* Mutant: a freed block is merged with its successor only.
MergeForwardOnly(list, k) ==
  IF k < Len(list) /\ list[k + 1].is_hole
    THEN RemoveAt([list EXCEPT ![k].size = @ + list[k + 1].size + HDR], k + 1)
    ELSE list

(* "Merge forward", "Merge backward": the k-th block, just made a hole. *)
MergeNext(list, k) ==
  IF k < Len(list) /\ list[k + 1].is_hole
    THEN RemoveAt([list EXCEPT ![k].size = @ + list[k + 1].size + HDR], k + 1)
    ELSE list

Merge(list, k) ==
  LET forward == MergeNext(list, k)
  IN  IF k > 1 /\ forward[k - 1].is_hole THEN MergeNext(forward, k - 1) ELSE forward

(* kfree(ptr), for a ptr that kmalloc returned: its magic is valid, and beyond
   heap_end the call returns without freeing anything. *)
Free(x) ==
  /\ call = {}
  /\ \E k \in DOMAIN headers :
       /\ headers[k].at + HDR = x.ptr
       /\ headers' = IF x.ptr >= heap_end THEN headers
                     ELSE Merge([headers EXCEPT ![k].is_hole = TRUE], k)
  /\ live' = live \ {x}
  /\ UNCHANGED <<heap_end, call>>

Next ==
  \/ \E size \in Sizes : Call(size, FALSE)
  \/ \E size \in AlignedSizes : Call(size, TRUE)
  \/ Allocate
  \/ Expand
  \/ \E x \in live : Free(x)

Spec == Init /\ [][Next]_vars

-----------------------------------------------------------------------------
End(b) == b.at + HDR + b.size

(* The headers lie in the heap one after the other, in list order, with no gap
   and no overlap, from heap_start to heap_end: split_block, the two merges and
   expand_heap, which extends the last hole blindly, agree on every size. *)
HeapTiles ==
  /\ headers[1].at = 0
  /\ \A k \in 1 .. Len(headers) - 1 : headers[k + 1].at = End(headers[k])
  /\ End(headers[Len(headers)]) = heap_end

(* The used blocks are exactly what callers have, each as large and as aligned
   as was asked for. *)
UsedIsLive ==
  /\ \A x \in live : \E k \in DOMAIN headers :
       /\ headers[k].at + HDR = x.ptr
       /\ ~headers[k].is_hole
       /\ headers[k].size >= x.size
       /\ x.align => x.ptr % PAGE_SIZE = 0
  /\ Cardinality(live) = Cardinality({k \in DOMAIN headers : ~headers[k].is_hole})

(* Free memory does not fragment: no two holes are neighbours. *)
HolesMerge ==
  \A k \in 1 .. Len(headers) - 1 : ~(headers[k].is_hole /\ headers[k + 1].is_hole)

(* kmalloc calls itself once at most: what expand_heap adds is enough.  So does
   kmalloc_a, unless the list ends in a hole whose data starts a header or less
   before a page boundary: the search rejects that hole whatever its size and
   expand_heap makes it larger and leaves it where it is, so that the recursion
   goes on for as long as there is memory. *)
Hopeless(r) == r.align /\ Padding(Last(headers), TRUE) \in 1 .. HDR

OneExpansionServes ==
  \A r \in call : r.expanded => (Found(r.size, r.align) # {} <=> ~Hopeless(r))
=============================================================================
