-------------------------------- MODULE Vmm ---------------------------------
(***************************************************************************)
(* Paging: the boot directory of kernel_entry.asm, vmm_init(), and the two *)
(* loops of kheap.c that map the heap, over the page allocator of Pmm.     *)
(* Addresses are page numbers, virtual and physical.                       *)
(*                                                                         *)
(* The kernel writes a directory or a table through its physical address,  *)
(* so the write faults unless that page is mapped to itself.  One step is  *)
(* one turn of a loop.  All of it runs in one context: kmain, before sti,  *)
(* and then the only task that calls kmalloc.                              *)
(***************************************************************************)
EXTENDS Pmm

CONSTANTS
  TABLE,                  \* entries of a page table
  DIRECTORY,              \* entries of the directory
  IDENTITY,               \* the 8 MB that boot maps to themselves and to KERNEL
  KERNEL,                 \* 0xC0000000
  KHEAP_START, KHEAP_INITIAL_SIZE,
  FbStarts, FbSizes,      \* the framebuffers that the BIOS may report
  Expansions              \* the sizes expand_heap is called with

Window(first, pages) == first .. first + pages - 1

Linear == Window(0, IDENTITY)
High   == Window(KERNEL, IDENTITY)

pd_index(v) == v \div TABLE
pt_index(v) == v % TABLE

(* The framebuffer is where no RAM and no other window is; nothing in vmm_init
   checks that. *)
ASSUME VmmAssumption ==
  /\ TABLE \in Nat \ {0} /\ DIRECTORY \in Nat \ {0}
  /\ IDENTITY \in 1 .. TotalPages /\ KERNEL \in Nat /\ KERNEL >= IDENTITY
  /\ KERNEL % TABLE = 0 /\ IDENTITY % TABLE = 0 /\ KHEAP_START % TABLE = 0
  /\ KHEAP_START \in Nat /\ KHEAP_START >= KERNEL + IDENTITY
  /\ KHEAP_INITIAL_SIZE \in 1 .. TABLE /\ Expansions \subseteq Nat \ {0}
  /\ FbStarts \subseteq Nat /\ FbSizes \subseteq Nat
  /\ \A b \in FbStarts \X FbSizes :
       /\ b[2] > 0 /\ b[1] >= TotalPages /\ b[1] + b[2] <= DIRECTORY * TABLE
       /\ Window(b[1], b[2]) \cap (High \cup Window(KHEAP_START, TotalPages)) = {}

(* What the sizes in main.c, vmm.c and kheap.h owe each other, though nothing in
   the code compares them.  Only the last of the largest blocks below IDENTITY is
   cut by the start of the region, so that the pages there are handed out first.
   They are enough for the page tables of vmm_init and the heap's first one, and
   used up when the heap needs its second. *)
ASSUME MemoryAssumption ==
  /\ IDENTITY % 2^(MAX_ORDER - 1) = 0 /\ EndPage % 2^(MAX_ORDER - 1) = 0
  /\ StartPage \in IDENTITY - 2^(MAX_ORDER - 1) + 1 .. IDENTITY - 1 /\ IDENTITY <= EndPage
  /\ 2 * TABLE <= TotalPages /\ KHEAP_START + 2 * TABLE <= DIRECTORY * TABLE
  /\ \A b \in FbStarts \X FbSizes :
       LET n == Cardinality({pd_index(v) : v \in Linear \cup High \cup Window(b[1], b[2])})
       IN  /\ n + 2 < IDENTITY - StartPage
           /\ IDENTITY - StartPage <= n + TABLE + 3
           /\ n + TABLE + 3 < EndPage - StartPage

VARIABLES
  fb,                     \* framebuffer and height * pitch of the VBE mode
  kernel_directory,       \* its frame
  directory,              \* its entries: the frame of a table, or None
  tables,                 \* the entries of the tables, by the frame they are in
  cr3,                    \* "boot" or "kernel"
  pc, turn,               \* the loop and its counter
  heap_end, new_size, phys  \* of kheap.c

pmmVars   == vars
tableVars == <<directory, tables>>
heapVars  == <<heap_end, new_size, phys>>
vmmVars   == <<pmmVars, fb, kernel_directory, tableVars, cr3, pc, turn, heapVars>>

None == -1

Frame  == 0 .. DIRECTORY * TABLE - 1
Entry  == Frame \cup {None}

(* memset(..., 0, ...) of a directory or a table: nothing is present. *)
Blank(n) == [e \in 0 .. n - 1 |-> None]

VmmTypeOK ==
  /\ fb \in FbStarts \X FbSizes
  /\ kernel_directory \in Page
  /\ directory \in [0 .. DIRECTORY - 1 -> Page \cup {None}]
  /\ \A f \in DOMAIN tables : tables[f] \in [0 .. TABLE - 1 -> Entry]
  /\ cr3 \in {"boot", "kernel"}
  /\ pc \in {"directory", "identity", "kernel", "framebuffer", "switch",
             "frame", "map", "kmain", "halted"}
  /\ turn \in Nat /\ heap_end \in Nat /\ new_size \in Nat /\ phys \in Page

(* kernel_entry.asm has enabled paging, kmain has called pmm_add_region. *)
VmmInit ==
  /\ Init
  /\ fb \in FbStarts \X FbSizes
  /\ kernel_directory = 0
  /\ directory = Blank(DIRECTORY)
  /\ tables = <<>>
  /\ cr3 = "boot"
  /\ pc = "directory" /\ turn = 0
  /\ heap_end = KHEAP_START /\ new_size = KHEAP_INITIAL_SIZE /\ phys = 0

-----------------------------------------------------------------------------
(* The frame that kernel_directory has for page v. *)
Walk(v) ==
  LET table == directory[pd_index(v)]
  IN  IF table = None THEN None ELSE tables[table][pt_index(v)]

(* boot_page_table and boot_page_table2 are in the directory twice. *)
BootWalk(v) ==
  IF v \in Linear THEN v ELSE IF v \in High THEN v - KERNEL ELSE None

Translate(v) == IF cr3 = "boot" THEN BootWalk(v) ELSE Walk(v)

(* What pmm_alloc_pages(0) is about to return; NULL is frame 0. *)
NextFrame ==
  IF Source(0) = {} THEN 0
  ELSE Head(free_lists[CHOOSE k \in Source(0) : TRUE])

pmm_alloc_page == Alloc(0) \/ AllocFails(0)

(* A page fault goes through isr_handler to page_fault_handler, or before that
   is registered to the message for exceptions: both end in for (;;). *)
Continue(reached, to) == pc' = IF reached THEN to ELSE "halted"

\* Mutant: the page table is allocated whether there is one or not.
TableMissingAlways(v) == TRUE

TableMissing(v) == directory[pd_index(v)] = None

TableFor(v) == IF TableMissing(v) THEN NextFrame ELSE directory[pd_index(v)]

(* The write of the table lands in it. *)
Reached(table) == Translate(table) = table

(* vmm_map_page(v, p, PAGE_PRESENT | PAGE_RW). *)
vmm_map_page(v, p) ==
  LET table   == TableFor(v)
      entries == IF TableMissing(v) THEN Blank(TABLE) ELSE tables[table]
  IN  /\ IF TableMissing(v) THEN pmm_alloc_page ELSE UNCHANGED pmmVars
      /\ IF Reached(table)
           THEN /\ directory' = [directory EXCEPT ![pd_index(v)] = table]
                /\ tables' = [t \in {table} \cup DOMAIN tables |->
                     IF t = table THEN [entries EXCEPT ![pt_index(v)] = p] ELSE tables[t]]
           ELSE UNCHANGED tableVars

-----------------------------------------------------------------------------
(* kernel_directory = pmm_alloc_pages(0) and its memset. *)
AllocDirectory ==
  /\ pc = "directory"
  /\ pmm_alloc_page
  /\ kernel_directory' = NextFrame
  /\ Continue(Reached(NextFrame), "identity")
  /\ UNCHANGED <<fb, tableVars, cr3, turn, heapVars>>

\* Mutant: the loop maps the first of the two tables only.
LoopEndsHalf(loop) ==
  IF loop = "framebuffer" THEN fb[2] ELSE IF loop = "identity" THEN TABLE ELSE IDENTITY

LoopEnds(loop) == IF loop = "framebuffer" THEN fb[2] ELSE IDENTITY

(* A turn of one of the three loops of vmm_init. *)
Loop(loop, v, p, next) ==
  /\ pc = loop
  /\ vmm_map_page(v, p)
  /\ Continue(Reached(TableFor(v)), IF turn + 1 < LoopEnds(loop) THEN loop ELSE next)
  /\ turn' = IF turn + 1 < LoopEnds(loop) THEN turn + 1 ELSE 0
  /\ UNCHANGED <<fb, kernel_directory, cr3, heapVars>>

MapIdentity    == Loop("identity", turn, turn, "kernel")
MapKernel      == Loop("kernel", KERNEL + turn, turn, "framebuffer")
MapFramebuffer == Loop("framebuffer", fb[1] + turn, fb[1] + turn, "switch")

(* vmm_switch_page_directory(kernel_directory); kmain goes on to kheap_init. *)
Switch ==
  /\ pc = "switch"
  /\ cr3' = "kernel"
  /\ pc' = "frame"
  /\ UNCHANGED <<pmmVars, fb, kernel_directory, tableVars, turn, heapVars>>

-----------------------------------------------------------------------------
(* The loops of kheap_init and expand_heap are the same but for their bounds. *)

\* Mutant: one frame for all the pages of an expansion.
HeapFrameOnce ==
  /\ pc = "frame"
  /\ IF turn = 0 THEN pmm_alloc_page /\ phys' = NextFrame ELSE UNCHANGED <<pmmVars, phys>>
  /\ pc' = "map"
  /\ UNCHANGED <<fb, kernel_directory, tableVars, cr3, turn, heap_end, new_size>>

(* void* phys = pmm_alloc_pages(0), not tested for NULL. *)
HeapFrame ==
  /\ pc = "frame"
  /\ pmm_alloc_page
  /\ phys' = NextFrame
  /\ pc' = "map"
  /\ UNCHANGED <<fb, kernel_directory, tableVars, cr3, turn, heap_end, new_size>>

\* Mutant: the page within the expansion is left out.
HeapPageFirst == heap_end

HeapPage == heap_end + turn

MapHeap ==
  /\ pc = "map"
  /\ vmm_map_page(HeapPage, phys)
  /\ LET reached == Reached(TableFor(HeapPage))
         more    == turn + 1 < new_size
     IN  /\ Continue(reached, IF more THEN "frame" ELSE "kmain")
         /\ turn' = IF ~reached THEN turn ELSE IF more THEN turn + 1 ELSE 0
         /\ heap_end' = IF reached /\ ~more THEN heap_end + new_size ELSE heap_end
  /\ UNCHANGED <<fb, kernel_directory, cr3, new_size, phys>>

(* A kmalloc that no hole serves. *)
Expand ==
  /\ pc = "kmain"
  /\ new_size' \in Expansions
  /\ pc' = "frame"
  /\ UNCHANGED <<pmmVars, fb, kernel_directory, tableVars, cr3, turn, heap_end, phys>>

VmmNext ==
  \/ AllocDirectory \/ MapIdentity \/ MapKernel \/ MapFramebuffer \/ Switch
  \/ HeapFrame \/ MapHeap \/ Expand

VmmSpec == VmmInit /\ [][VmmNext]_vmmVars

-----------------------------------------------------------------------------
Mapped     == {v \in Frame : Walk(v) # None}
Space      == [v \in Mapped |-> Walk(v)]
HeapMapped == {v \in Mapped : v >= KHEAP_START /\ v \notin Window(fb[1], fb[2])}
Tables     == {directory[d] : d \in {e \in DOMAIN directory : directory[e] # None}}

(* pmm_alloc_pages hands the directory, every page table and every page of the
   heap a frame of its own, out of the region that kmain gave it: none is NULL,
   none shared, whatever its callers do not test. *)
FramesApart ==
  /\ VmmTypeOK
  /\ pc # "directory" =>
    /\ Cardinality({kernel_directory} \cup Tables \cup {Walk(v) : v \in HeapMapped})
         = 1 + Cardinality({e \in DOMAIN directory : directory[e] # None})
             + Cardinality(HeapMapped)
    /\ {kernel_directory} \cup Tables \cup {Walk(v) : v \in HeapMapped}
         \subseteq StartPage .. EndPage - 1

(* vmm_init and kheap_init never fault, and expand_heap can map all the pages of
   the heap's first table: a fault is the write of the second one, for which
   pmm_alloc_pages has no frame left that is mapped to itself. *)
FirstTableServes ==
  pc = "halted" =>
    /\ HeapPage = KHEAP_START + TABLE
    /\ TableMissing(HeapPage)
    /\ kernel_directory \in Linear /\ Tables \subseteq Linear

(* Whenever kmain, or later a task, has the CPU, the pages that are mapped are
   those it relies on, no more and no fewer: 8 MB twice, the framebuffer to its
   last line, and the heap to heap_end. *)
MappedIsExact ==
  pc = "kmain" =>
    Mapped = Linear \cup High \cup Window(fb[1], fb[2])
               \cup KHEAP_START .. heap_end - 1

PageTables == INSTANCE AddressSpace WITH
  Offset <- KERNEL, Ram <- StartPage .. EndPage - 1,
  space <- Space, device <- Window(fb[1], fb[2])

(* vmm_map_page: the identity map, the higher half, the framebuffer and the heap
   come to be what vmm_init and kheap.c say, page by page, and no later call
   ever changes a page that is mapped, or loses one. *)
ImplementsAddressSpace == PageTables!Spec
=============================================================================
