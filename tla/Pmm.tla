-------------------------------- MODULE Pmm ---------------------------------
(***************************************************************************)
(* The buddy allocator of src/kernel/mm/pmm.c.  Addresses are divided by   *)
(* PAGE_SIZE; a page_t is its index in pages[]; a free list is the         *)
(* sequence of the pages that list_add and list_remove link, head first.   *)
(*                                                                         *)
(* order and flags of a page inside a larger block are never reset: what   *)
(* they say there is stale, and pmm_free_pages reads them all the same.    *)
(***************************************************************************)
EXTENDS Integers, Sequences, FiniteSets, SequencesExt

CONSTANTS
  TotalPages,               \* mem_size / PAGE_SIZE
  MAX_ORDER,
  StartPage, EndPage        \* the region given to pmm_add_region

ASSUME PmmAssumption ==
  /\ TotalPages \in Nat /\ MAX_ORDER \in Nat \ {0}
  /\ StartPage \in 1 .. TotalPages /\ EndPage \in StartPage .. TotalPages

VARIABLES
  order, flags,             \* pages[].order, pages[].flags
  free_lists,
  held                      \* what callers got and have not freed: <<page, order>>

vars == <<order, flags, free_lists, held>>

Page   == 0 .. TotalPages - 1
Order  == 0 .. MAX_ORDER - 1

Run(p, o) == p .. p + 2^o - 1

TypeOK ==
  /\ order \in [Page -> Order]
  /\ flags \in [Page -> {0, 1}]
  /\ free_lists \in [Order -> Seq(Page)]
  /\ held \subseteq Page \X Order

-----------------------------------------------------------------------------
(* pmm_add_region: the order of the block that starts at i is the first at
   which the next larger block does not fit or is not aligned. *)
RegionOrder(i) ==
  CHOOSE o \in Order :
    /\ o < MAX_ORDER - 1 => i + 2^(o + 1) > EndPage \/ i % 2^(o + 1) # 0
    /\ \A k \in 0 .. o - 1 : i + 2^(k + 1) <= EndPage /\ i % 2^(k + 1) = 0

(* The pages its loop stops at, from page i on. *)
RegionFrom[i \in StartPage .. EndPage] ==
  IF i = EndPage THEN {} ELSE {i} \cup RegionFrom[i + 2^RegionOrder(i)]

RegionStarts == RegionFrom[StartPage]

(* A list whose pages came in ascending order: list_add puts each in front. *)
Stacked(S) ==
  [j \in 1 .. Cardinality(S) |->
     CHOOSE p \in S : Cardinality({q \in S : q >= p}) = j]

(* pmm_init, then the pmm_add_region of kmain. *)
Init ==
  /\ order = [p \in Page |-> IF p \in RegionStarts THEN RegionOrder(p) ELSE 0]
  /\ flags = [p \in Page |-> IF p \in RegionStarts THEN 0 ELSE 1]
  /\ free_lists = [o \in Order |-> Stacked({p \in RegionStarts : RegionOrder(p) = o})]
  /\ held = {}

-----------------------------------------------------------------------------
(* The list pmm_alloc_pages(o) takes its block from: the first non-empty one. *)
Source(o) ==
  {i \in o .. MAX_ORDER - 1 : /\ free_lists[i] # <<>>
                              /\ \A k \in o .. i - 1 : free_lists[k] = <<>>}

\* Mutant: the buddy is looked for one order too high.
HalfAbove(page, k) == page + 2^(k + 1)

(* Where the upper half starts when a block is split down to order k. *)
Half(page, k) == page + 2^k

(* pages[p].order after the block of order i at page was split down to o. *)
CutOrder(page, o, i, p) ==
  IF p = page THEN o
  ELSE IF \E k \in o .. i - 1 : p = Half(page, k)
         THEN CHOOSE k \in o .. i - 1 : p = Half(page, k)
         ELSE order[p]

(* pmm_alloc_pages(o) that succeeds: the block loses its upper half, then the
   upper half of what is left, down to order o. *)
Alloc(o) ==
  \E i \in Source(o) :
    LET page == Head(free_lists[i])
    IN  /\ free_lists' = [k \in Order |->
             IF k = i THEN Tail(free_lists[i])
             ELSE IF k \in o .. i - 1 THEN <<Half(page, k)>> \o free_lists[k]
             ELSE free_lists[k]]
        /\ order' = [p \in Page |-> CutOrder(page, o, i, p)]
        /\ flags' = [p \in Page |->
             IF p = page THEN 1
             ELSE IF \E k \in o .. i - 1 : p = Half(page, k) THEN 0
             ELSE flags[p]]
        /\ held' = held \cup {<<page, o>>}

(* pmm_alloc_pages(o) that returns NULL. *)
AllocFails(o) ==
  /\ Source(o) = {}
  /\ UNCHANGED vars

-----------------------------------------------------------------------------
(* The block around page p at order k, and page_idx ^ (1 << k) for it. *)
Block(p, k) == (p \div 2^k) * 2^k
Buddy(p, k) ==
  LET b == Block(p, k) IN IF (b \div 2^k) % 2 = 0 THEN b + 2^k ELSE b - 2^k

\* Mutant: the order of the buddy is not compared.
MergeableAnyOrder(p, k) ==
  /\ k < MAX_ORDER - 1
  /\ Buddy(p, k) < TotalPages
  /\ flags[Buddy(p, k)] = 0

\* Mutant: whether the buddy is free is not looked at.
MergeableUsed(p, k) ==
  /\ k < MAX_ORDER - 1
  /\ Buddy(p, k) < TotalPages
  /\ order[Buddy(p, k)] = k

(* The buddy at order k is within bounds, free and whole. *)
Mergeable(p, k) ==
  /\ k < MAX_ORDER - 1
  /\ Buddy(p, k) < TotalPages
  /\ flags[Buddy(p, k)] = 0
  /\ order[Buddy(p, k)] = k

\* Mutant: a freed block is never merged.
MergedNever(p, o) == o

(* The order at which the merging loop stops. *)
Merged(p, o) ==
  CHOOSE f \in o .. MAX_ORDER - 1 :
    ~Mergeable(p, f) /\ \A k \in o .. f - 1 : Mergeable(p, k)

(* pmm_free_pages(p, o), for a block the caller has. *)
Free(p, o) ==
  LET f     == Merged(p, o)
      whole == Block(p, f)
  IN  /\ <<p, o>> \in held
      /\ free_lists' = [k \in Order |->
           IF k \in o .. f - 1 THEN RemoveFirst(free_lists[k], Buddy(p, k))
           ELSE IF k = f THEN <<whole>> \o free_lists[k]
           ELSE free_lists[k]]
      /\ order' = [order EXCEPT ![whole] = f]
      /\ flags' = [flags EXCEPT ![whole] = 0]
      /\ held' = held \ {<<p, o>>}

Next ==
  \/ \E o \in Order : Alloc(o) \/ AllocFails(o)
  \/ \E h \in held : Free(h[1], h[2])

Spec == Init /\ [][Next]_vars

-----------------------------------------------------------------------------
FreeBlocks == UNION {{<<p, k>> : p \in ToSet(free_lists[k])} : k \in Order}
Blocks     == FreeBlocks \cup held

(* Every page of the region is in one block, free or handed out, and every
   block is aligned to its size. *)
BlocksTileRegion ==
  /\ \A k \in Order : IsInjective(free_lists[k])
  /\ \A b \in Blocks : b[1] % 2^b[2] = 0
  /\ \A a, b \in Blocks : a # b => Run(a[1], a[2]) \cap Run(b[1], b[2]) = {}
  /\ FreeBlocks \cap held = {}
  /\ UNION {Run(b[1], b[2]) : b \in Blocks} = StartPage .. EndPage - 1

(* pmm_free_pages trusts order and flags of the buddy, stale or not: whenever a
   caller frees what it has, each buddy it merges with is in that free list. *)
MergesWhatIsListed ==
  \A h \in held : \A k \in h[2] .. Merged(h[1], h[2]) - 1 :
    Buddy(h[1], k) \in ToSet(free_lists[k])

(* NULL means what it says: pmm_alloc_pages refuses a request only when no
   aligned run of that many pages is free, however the blocks got split. *)
RefusedOnlyWhenFull ==
  \A o \in Order : Source(o) = {} =>
    \A p \in StartPage .. EndPage - 2^o : p % 2^o = 0 =>
      \E h \in held : Run(h[1], h[2]) \cap Run(p, o) # {}

Allocator == INSTANCE PageAllocator WITH
  Pages <- Page, Orders <- Order, Region <- StartPage .. EndPage - 1

(* Every block handed out is aligned and free, and freed as it was handed out. *)
ImplementsPageAllocator == Allocator!Spec
=============================================================================
