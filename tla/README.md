# A verification development for Bab-OS

Bab-OS is a small 32-bit x86 teaching kernel: a two-stage BIOS loader, a
higher-half C kernel with paging, a buddy allocator, a heap, preemptive
round-robin tasks, mutexes, condition variables and monitors, a keyboard
driver, a read-only initial ramdisk and a shell. It has no tests. This directory
holds TLA+ models of the parts of it that run concurrently or keep non-trivial
data structures, the TLC runs that check them, and proofs about them.

Paths below are relative to the repository (`src/kernel/...`, `include/...`);
"the code" is that commit.

## 1. The system

### Components, their state and their operations

| Component | State | Operations | Talks to |
|---|---|---|---|
| Scheduler (`task.c`) | `ready_queue`, `running_task`, per task `state`, `sleep_ticks`, saved `esp` | `task_create`, `schedule`, `task_yield`, `tasks_update_sleep_ticks` | called by the timer interrupt; `task_yield` raises that interrupt in software |
| Timer (`drivers/timer.c`) | `tick` | `timer_callback` (IRQ0), `sleep` | scheduler |
| Mutex, condition, monitor (`mutex.c`, `cond.c`, `monitor.c`) | `locked`, `owner`, a `waiters` list per mutex and per condition, one `wait_next` per task | `mutex_lock/unlock`, `cond_wait/signal/broadcast`, `monitor_*` | scheduler; mutual exclusion by `cli`/`sti` |
| Demo tasks (`main.c`) | `buffer`, `count`, `head`, `tail` | `producer`, `consumer` | `buffer_monitor`, `sleep` |
| Keyboard (`drivers/keyboard.c`) | modifier flags, `kbd_buffer` ring | `keyboard_callback` (IRQ1), `getchar` | `kbd_monitor`, called from an interrupt and from the shell |
| Interrupt dispatch (`sys/`, `drivers/pic.c`) | handler table, the PIC's in-service bits | `irq_handler`: callback, EOI, stack switch | everything above |
| Physical pages (`mm/pmm.c`) | `pages[]` (`order`, `flags`), `free_lists[]` | `pmm_add_region`, `pmm_alloc_pages`, `pmm_free_pages` | paging, heap |
| Paging (`mm/vmm.c`, `kernel_entry.asm`) | page directory and tables, CR3 | `vmm_init`, `vmm_map_page`, `vmm_switch_page_directory`; a page fault halts | pages; written through physical addresses, so it relies on its own identity map |
| Heap (`mm/kheap.c`) | doubly linked list of `header_t`, `heap_end` | `kmalloc`, `kmalloc_a`, `kfree`, internal `expand_heap`, `split_block` | pages, paging |
| VFS and initrd (`vfs.c`, `initrd.c`) | node table, static `dirent` | `vfs_read/readdir/finddir` | heap, shell |
| Shell (`main.c`) | line buffer | `ls`, `cat` | `getchar`, VFS, heap |
| Terminal (`terminal.c`) | cursor, frame buffer | `terminal_putchar`, `terminal_scroll`, `printf` | every task and IRQ1 |
| Loader (`boot/`) | registers, the memory loaded so far | `load_kernel`, `load_initrd`, `disk_load_lba` | the BIOS; hands over to the kernel |
| Image tools (`tools/mkinitrd.py`, `Makefile`) | the disk image | pack, pad | loader and initrd rely on the layout |
| GDT, IDT, C library | set up once, or none | | |

### What is hard

One CPU, but the PIT interrupts any code that runs with interrupts enabled, and
`schedule()` switches tasks at every tick. Every critical section is a stretch
between `cli` and the next `sti` or `task_yield`, and the functions call each
other with the `sti` in the middle: `mutex_unlock` inside `cond_wait` enables
interrupts before the yield. All wait queues share the one `wait_next` field of
a task. `keyboard_callback` is an interrupt handler that takes a *blocking*
lock, on the stack and under the name of whatever task it interrupted. The EOI
is not specific, and a software yield sends one too. The allocators keep
redundant data (order and flags that go stale inside larger blocks; sizes,
links and `heap_end`) that every operation must keep in step.

What makes each component correct:

- scheduler and sleep: no runnable task is passed over for ever; no sleeper is
  lost; only the task on the CPU is RUNNING;
- monitors: one task inside; a BLOCKED task is in the queue that will wake it,
  in no other, and queues end; no wakeup is lost; notification wakes the first
  waiter and it re-enters only by competing for the lock;
- the two ring buffers: FIFO channels without loss, duplication, overwriting;
  nobody sleeps beside the thing it waits for;
- page allocator: blocks tile the memory, merges touch only what is free and
  listed, nothing stays split that could be merged;
- heap: headers tile the heap, used blocks are exactly the callers', holes are
  merged, a request is served after one expansion;
- paging: what is mapped is what the kernel relies on, and stays as it is; no
  frame serves two purposes; no page table is written where it cannot be reached;
- keyboard decoder: the character is the one the modifiers held call for, and no
  modifier sticks, whatever extended keys send in between;
- terminal: the screen shows what was printed; nothing is drawn outside it;
- loader, ramdisk, VFS: every sector of both images where it belongs and from
  the right drive; a read returns what mkinitrd.py packed, `ls` the whole directory.

`PROJECT.json` lists the hazards one by one with their lines, and the
properties that would notice each.

## 2. The modules

```
   Sched --- Timer --- MCTimer             task.c, timer.c
     |
   Sync ---- Monitor --- MCMonitor ==> MesaMonitor     mutex.c cond.c monitor.c
     |------ BoundedBuffer ==> Channel     main.c
     |------ Keyboard      ==> Channel     keyboard.c, irq_handler, the PIC
   KeyDecode                               keyboard.c
   Pmm ==> PageAllocator                   pmm.c
     \--- Vmm ==> AddressSpace             vmm.c, kheap.c's mapping loops, kernel_entry.asm
   Kheap                                   kheap.c
   Terminal                                terminal.c
   DiskLoad -- Ramdisk                     disk_load.asm; mkinitrd.py stage2.asm initrd.c vfs.c ls cat

   SyncProofs --- TimerProofs              (over MCTimer)
     |----------- MonitorProofs            (over MCMonitor)
     |----------- BoundedBufferProofs
     \----------- KeyboardProofs
   KeyDecodeProofs    KheapProofs    PagingProofs (over Vmm)
```
(`---` EXTENDS; `==>` is shown to implement)

**Sched** holds the task states and one operator per function: `TicksLeft` and
`Woken` are the two effects of `tasks_update_sleep_ticks`, `Picked` is the walk of
`schedule()` (including that it ends at its start task when nothing is runnable,
and marks that one RUNNING), `timer_callback(st)` the whole interrupt. A task is
its number: kmain creates all tasks before `sti`, tasks never end, so
`ready_queue` is 1, 2, ..., N for ever, and task 1 is kmain's own `hlt` loop.
The saved `esp` and the register frame are represented by a task's program
counter in the modules above.

**Timer** adds `sleep()`, whose three statements (store the ticks, set SLEEPING,
yield) are three actions since it runs with interrupts enabled. **MCTimer** adds
two history variables.

**Sync** is the data of all monitors and one operator per stretch of code with
interrupts disabled. A queue is modelled as in C, a head and `wait_next` fields,
because that sharing is what could go wrong; `Reach` is the set a walk visits.
A walk of an endless list with interrupts disabled would hang the machine: `Link`
and `CondBroadcast` are then not enabled, and `QueuesHoldTheBlocked` says that
lists always end.

**Monitor** lets every task but kmain's make any legal call: enter only from
outside, wait, notify and exit only from inside, as all callers do. Program
points are the places where control can be while another task runs. "retry" is
inside `mutex_lock`'s loop and is the only one left with interrupts disabled: the
PIT cannot fire there until the task has gone round the loop.

**MesaMonitor** is the promise: a process is out, wants in, is in, or waits in a
FIFO queue. **MCMonitor** gives the refinement mapping; a task inside `cond_wait`
counts as waiting while it is BLOCKED.

**BoundedBuffer** is `producer()` and `consumer()`: each C statement on a shared
variable is an action, `count++` and `count--` even two (the build does not
optimise: a load, then a store), so that the timer can preempt between them. **Keyboard** is
`getchar()` and `keyboard_callback()`; because the callback is an interrupt
handler that may block, a task is a stack of contexts: its own code (`pc`), and
the handlers that hit it (`handlers`, latest first). `inService` is IRQ1's bit
in the PIC, cleared by `pic_send_eoi` at the end of a callback and by any
`task_yield()` in between. **Channel** is the abstract FIFO that both implement.
**KeyDecode** is the first half of the callback, scancodes to characters, which
runs with interrupts disabled and so is a sequential module of its own. Its keys
are what a user presses, holds and releases. An extended key sends 0xE0 first, which the
callback takes for the release of a key nobody has; `Fakes` are the extended keys
that a keyboard wraps in a Shift of its own, E0 2A ... E0 AA, which the callback
cannot tell from the user's left Shift.

**Pmm** has one action per call of `pmm_alloc_pages`/`pmm_free_pages`: nothing in the
kernel calls them concurrently. `Init` is `pmm_init` followed by `pmm_add_region`.
A free list is the sequence that `list_add` and `list_remove` keep; `order` and
`flags` are kept for every page, stale values included, since
`pmm_free_pages` reads them. **PageAllocator** is the promise to callers.

**Vmm** EXTENDS Pmm with the variables and actions of paging: every `pmm_alloc_pages(0)` in it is Pmm's
`Alloc`. Addresses are page numbers. `directory` holds the frame of each table,
`tables` the entries of each, `cr3` says which directory translates. The kernel
writes a table through its physical address, so `Reached` asks whether the address
translates to itself; if not, the page fault ends in the `for (;;)` of
`page_fault_handler` or, before that is registered, of `isr_handler`: "halted". One turn
of a loop is one step (two in the heap's loops: the frame, then the mapping).
**AddressSpace** is the promise: windows that grow page by page, linear for the
identity map, the higher half and the framebuffer, RAM of its own behind every
other page, and nothing that is mapped ever changes.

**Kheap** has the header list as a sequence of (address, size, is_hole).
`kmalloc_internal` is recursive: one search of the list is one step
(`Allocate` or `Expand`), `call` the call in progress.

**DiskLoad** is `disk_load_lba`, one action per BIOS call, its state the 16-bit
registers that the loop carries from one turn to the next. **Ramdisk** follows a
byte of a file through the whole system: to its place in the image, to the
memory the loader puts it in, past the zeroing of the BSS in `kernel_entry`, and to the
place `initrd_read` copies it from. A
byte's content is its place on the disk, so that a byte that comes from
elsewhere is seen. mkinitrd.py drops directories and cuts names, so that several files
may have one name and one may be called dev. It goes on with the directory loop of `ls`, and reads as
`cat` makes them, at other offsets and sizes too. Only `shell_task` uses the VFS,
which is why the module is sequential.

**Terminal** has `terminal_putchar` and `terminal_scroll` at the grain of single accesses to the
cursor, because nobody locks it: `+=` is a load and a store. A printer is whoever
calls it; `stack` orders the calls in progress, so that nested calls (an
interrupt that prints) can be told from interleaved ones (a task switch). The
history `text` is what was printed as long as no two calls met.

Definitions whose comment starts with *Mutant* are not part of any
specification: each is a wrong version of the definition after it, used to see
that the properties notice.

## 3. The runs

| Run | Checks | Bounds |
|---|---|---|
| `Timer` (MCTimer) | `SleepersCanWake`, `BoundedBypass`, `SleepsNoLonger`, and under fairness `SleepReturns`: the task has the CPU again behind its yield | 3 sleepers and kmain; sleeps of 5, 10 and 30 ms: rounding up, exactly one tick, several; `tick` modulo 3 |
| `Monitor` (MCMonitor) | `MutualExclusion`, `QueuesHoldTheBlocked`, `WakeupPending`, `ImplementsMesaMonitor` | 3 tasks (owner, waiter, thief), 2 monitors x 2 conditions, so that `wait_next` is used by queues of the same and of different monitors |
| `BoundedBuffer` | `CursorsAgree`, `NobodyWaitsInVain`, `ImplementsChannel`, `PassCompletes` under fairness | 1 producer, 1 consumer as in main.c, 2 slots, the producer faster; items modulo 4 |
| `Keyboard` | `OneContextInside`, `ShellIsTold` while nobody queues twice, `ImplementsChannel` | shell, one sleeping task, kmain; 2 slots, 3 keys, so that the ring fills, drops and wraps and three callbacks can nest; with 3 keys nobody queues twice, and the premise of `ShellIsTold` always holds |
| `KeyDecode` | `ShiftsAreHeld`, `TypesWhatIsExpected` | one key of each kind the two tables distinguish, both Shifts, CapsLock, and two extended keys that come with a Shift |
| `Pmm` | `BlocksTileRegion`, `MergesWhatIsListed`, `RefusedOnlyWhenFull`, `ImplementsPageAllocator` | 12 pages, orders 0..3, region 2..11: not aligned to the largest block at its start, with pages below that never become free; every buddy computation, in bounds and out, occurs |
| `Vmm` | `FramesApart`, `FirstTableServes`, `MappedIsExact`, `ImplementsAddressSpace` | tables of 8 entries, 16 pages mapped to themselves, 44 pages of RAM of which 12 are among those, as 768 of 31488 are in the code; framebuffers within a table, filling one, and across two; expansions by 1, 2 and 5 pages, so that the heap fills its first table exactly, overshoots it, and needs the second |
| `Kheap` | `HeapTiles`, `UsedIsLive`, `HolesMerge`, `OneExpansionServes` | pages of 8 units, header 2, heap of 2 to 4 pages; sizes 1, 7 and an aligned 4 so that exact fits, remainders of at most a header, paddings none, too small and sufficient all occur |
| `KeysAreEchoed` (violation) | keyboard.c:157, the echo in the callback | 1 key |
| `Ramdisk` | `ImagesInPlace`, `ReadsTheFile`, `LsIsComplete`, `LoadEnds` under fairness | 1 or 2 files, of three names of which one is dev, the same name twice included, of 0, 1, 434 and 40000 bytes: none, one, just over a sector with its header, more than a chunk; kernels of 40, 64, 65 and 376 sectors: less than a chunk, one, a byte more, and one whose BSS of 4096 bytes ends exactly where the ramdisk begins |
| `Terminal` | `ShowsTheText`, `NestedStaysOnScreen` | two printers, five characters, two letters and the newline; a screen of 2 characters by 2 lines with 8 pixels left over below, as the 768 lines of the mode leave |
| `DriveKept` (violation) | disk_load.asm:40, "DL = Drive ID" | as `Ramdisk` |

Counters are capped by the constants named above: `TickWrap` (nothing reads
`tick`), `ItemWrap` (items are a running `int`), `MaxKeys`, `MaxHeap`. `KHEAP`
and `PMM` sizes are scaled down with their ratios kept where they matter (a
header is smaller than a page, the initial heap is a whole number of pages).
`MAX_MONITOR_CONDS` is 8 in the code; the conditions are independent, and two
are enough to mix up. Deadlock is checked everywhere but in Kheap, where the
bound `MaxHeap` may stop an expansion, in Vmm, where a page fault halts the machine, and in
Terminal, where `MaxChars` ends the text. A type invariant, `TypeOK` (`VmmTypeOK` in Vmm), is checked in every
run: by itself, or as the first conjunct of the invariant named first in the table
(of `NestedStaysOnScreen` in Terminal).

**Fairness.** The PIT never stops and interrupts are only disabled for stretches
that end: weak fairness of `TimerIrq`. A task that is on the CPU executes its
next statement before the next tick, 10 ms later, so a task that gets the CPU
again and again goes on: strong fairness of each task's step (strong, because
being switched out disables it). In Ramdisk the loader and the shell go on as long as
they can (weak fairness); the disk need not fail, except for a drive that is not
there. Nothing is assumed of keys: nobody must press one.

### What the runs show

Tasks that use the monitors as intended get what they expect, in spite of two
oddities. `mutex_unlock` inside `cond_wait` really enables interrupts before the
yield, contrary to the comment at cond.c:26; a waiter can be signalled, and even
run, before it yields, and all that happens is that it gives up one turn.
A woken waiter of a mutex may find it taken by a newcomer and queues again
behind the others; this can happen to it for ever when two producers compete
(which is why `PassCompletes` is checked with one, as main.c has), but never loses it.

Two disagreements between the code and its own text have a run:

- *The keyboard handler may block the code it interrupted.* If a key arrives
  while the shell is between `monitor_enter` and `monitor_exit` of `getchar`, the
  callback finds the lock taken and blocks the shell, its owner: from then on
  neither typing nor the shell works (`KeysAreEchoed`).
- *The loader changes drives.* `disk_load_lba` computes the advance of ES in DX, whose
  low byte is the drive: after a chunk of 64 sectors DL is 0. Started from drive
  0x80, as `make run` does, a kernel or ramdisk of more than 32 KB stops in "Disk Error!"
  or is continued from another disk (`DriveKept`).

The models bring out more, without a run of its own:

- *Sleep ends early.* `task_yield()` is `int $0x20`, the timer's own vector, so each
  yield, of `sleep` as of a blocked lock, takes a tick off every sleeper, against
  timer.c:40, "1 tick = 10ms". Only the other bound holds: `SleepsNoLonger`.
- *The heap ends at 4 MB.* `vmm_init` and `kheap_init` take their frames from the part of
  RAM that is mapped to itself, and so do all expansions within the heap's first
  page table. When the second table is needed `pmm_alloc_pages` has long been handing out
  frames from beyond 8 MB, and the first write to the table faults: kheap.h's
  "Up to 3.75 GB" is out of reach, and KHEAP_MAX_ADDRESS, which nothing compares, with
  it. `FirstTableServes` says that this is the only fault. It also means that
  RAM is never exhausted, which is as well, since no caller tests for NULL.
- *Two printers that the timer interleaves* may lose or double an update of
  `terminal_row`, which can then pass below 0, or behind the last line, and glyphs fall
  outside the frame buffer. The echo of a key, nested in a printer, cannot do
  that, but only because 768 lines leave 8 pixels below the last line
  (`TerminalAssumption`); two handlers nested in a printer would have no such room.
- *kmalloc_a may never return.* `OneExpansionServes` names the one shape of the heap: a last
  hole that needs a padding between 1 and `sizeof(header_t)`. Expanding it changes
  nothing and the recursion goes on. No code calls `kmalloc_a` today.
- *The gap in cond_wait.* A key that arrives between the `sti` of `mutex_unlock` and the
  yield in `cond_wait` runs its callback in a task already BLOCKED, against
  cond.c:30, "that's okay because we already marked ourselves as BLOCKED"; a tick
  inside the callback switches it away for good, with the lock.
- *A task may queue twice.* schedule() gives the CPU back to a BLOCKED task when its walk finds
  nobody else, and the loop of `mutex_lock` then puts the task into the queue again, at whose
  end it stands already: its `wait_next` points to itself, whoever was linked behind it is
  dropped, and the next unlock finds the same task for ever. It takes kmain's task to
  be blocked by a callback, another callback to hold the lock on a sleeping task, and
  no fewer than four keys: a behaviour of 82 steps that the run, with
  three, cannot contain, and after which the shell is BLOCKED beside a key and a free lock.
  `ShellIsTold` is therefore stated for behaviours in which `NobodyQueuesTwice` holds
  throughout, and says nothing of the others. `OneContextInside` does not depend on it.
  Nor does `ShellIsTold` promise that each key reaches the shell: it speaks of a free
  buffer, and in the behaviour of `KeysAreEchoed`, where nobody queues twice, the lock is
  never free again.
- *An extended key* with a Shift of its own lets go of the left Shift that the user
  is holding; the exceptions of `TypesWhatIsExpected` are exactly this.
- *A BSS on the ramdisk.* `kernel_entry.asm` zeroes the BSS behind kernel.bin, which
  KERNEL_SECTORS does not count, since a flat binary leaves it out. Nothing in the build
  checks that it ends below 0x40000. If it does not, it wipes the ramdisk's `nfiles`, and
  `ls` lists only dev: `LsIsComplete` fails as soon as `KernelAssumption` is dropped.
- *Files of one name.* `ls` shows each, with the size of the first (`LsIsComplete`).

`Keyboard` nevertheless shows the ring buffer itself safe in all of these
interleavings: what fails is progress, not exclusion. The README of the
repository also says that tasks are switched every 100 ms; the code switches at
every tick of 10 ms.

## 4. The proofs

Checked by TLAPS for every value of the constants under the named assumptions
of the modules. Most say no more than the code or its constants do. Three leave something
out that the code would accept: `KheapAssumption` the call kmalloc_a(0), which no code
makes; `VmmAssumption` a framebuffer that overlaps another window, which the BIOS chooses;
`MemoryAssumption` sizes other than those kmain passes, and their like. (Of the
modules that are only model-checked, `KernelAssumption` in Ramdisk leaves out larger kernels.)

| Assumption | Says |
|---|---|
| `NAssumption` | there is at least one task, kmain's |
| `TimerAssumption` | sleep times are naturals, the modulus of `tick` is positive |
| `SyncAssumption`, `NoMonitorAssumption` | MAX_MONITOR_CONDS is a natural; "in no monitor" is not a monitor |
| `BufferAssumption` | there is a monitor with at least two conditions; producers and consumers are tasks other than kmain's, nobody is both; the buffer has a slot, items are counted modulo something positive, and a sleep takes at least a tick |
| `KeyboardAssumption` | there is a task, the shell, besides kmain's; kbd_monitor has a condition; the ring has a slot; a sleep takes at least a tick |
| `KeyAssumption` | every key is of one kind; an extended key with a Shift of its own gives a character that Shift does not change |
| `PmmAssumption` | there is at least one order; the region lies in the memory and begins at page 1 or later, since page 0 is what NULL looks like (it may be empty, of any length, and aligned to nothing) |
| `VmmAssumption` | table, directory, windows and framebuffers have sizes; the windows are aligned to tables and do not overlap, which nothing in vmm_init checks of the framebuffer; the memory is mapped to itself at most in part |
| `MemoryAssumption` | what the sizes owe each other, below |
| `KheapAssumption` | a header is smaller than a page, the initial heap a whole number of pages with room for a header and a byte; kmalloc_a is not called with 0 |

### Tasks and sleep

- **SyncProofs**, first part: what one timer interrupt does: it keeps the
  types (`TimerType`); afterwards exactly the task on the CPU is RUNNING if that
  was so before (`TimerRunning`); it neither blocks nor unblocks nor puts to
  sleep anybody who can be switched to (`TimerBlocks`); it resumes a BLOCKED task only where
  the walk ends with nobody runnable (`TimerResumes`); a sleeper that stays
  asleep keeps at least one tick (`TimerSleep`); who could be run can be run still
  (`TimerKeeps`).
- **TimerProofs**, over MCTimer: `SleepersAlwaysCanWake` is not
  inductive: between its first and second statement a sleeper has stored its
  ticks but not yet its state, and a tick there must not count them down.
  `SleepInv` adds exactly that: a task before "set_state" is not SLEEPING and has
  ticks, and the running task can only be SLEEPING just before its yield.
  `SleepersAreWokenInTime` follows from it by the history `owed`.
  `ScheduleIsRoundRobin` needs `BypassInv`: the number of times a task was passed plus its
  distance from the cursor is at most N, because the walk stops at the first task it can run
  and so cannot jump over the one that waits.

### Monitors

- **SyncProofs**, the rest: linked lists. `Reach` is a least fixed point, so that facts about a walk
  need no induction: `ReachHas` and `ReachLeast` are its two halves, `ReachAppend` and
  `ReachPop` what linking at the end and unlinking at the head do to it, `ReachFrame` that
  a queue does not see the links of others. From these, for every function of mutex.c and
  cond.c, what it does to *all* queues, which are lists of their own (`QueuesApart`) although
  they share `wait_next`.
- **MonitorProofs**: `MonitorsExclude`: whoever is inside has its monitor's lock taken
  and is its recorded owner (`LockInv`, the second half of `MutualExclusion`). That half is
  inductive, and gives the other: two tasks inside the same monitor would both be the owner. `QueuesAlwaysHoldTheBlocked`: `QueueInv`
  says by program point which queue a BLOCKED task is in. A task can only be appended
  safely while it is in no queue; the task that calls is, since schedule() gives the CPU
  to RUNNING tasks only, since kmain's task is always there to be picked.
  `WakeupAlwaysPending`: a queue that is not empty has a lock that is taken or a task on its
  way; it follows from `QueueInv` and an invariant of its own, one step per function.
  `MonitorIsMesa` is the refinement of `MesaMonitor`. That a list without a cycle *is* a sequence
  is a matter of counting and needs no induction: of two tasks in a queue one is behind
  the other (`ReachTotal`), so the number of tasks from a task on gives each of them its
  place (`LinePlaces`), and linking, unlinking and the links of other queues
  become Append, Tail and a stutter (`QueueSeqAppend`, `QueueSeqPop`, `QueueSeqFrame`).
  `HeldInv` adds that a taken lock has somebody inside, so that mutex_lock finds the lock
  free exactly when the promised monitor is.
- **BoundedBufferProofs**: `CursorsAlwaysAgree`: that one worker at most is inside follows from
  the owner of the lock, as above; that the cursors agree when nobody is, from `DataInv`: what each program point
  between the load of `count` and its store knows of the cursors (`Ahead`), and that the
  test of the while loop is still true, nobody having been inside since.
  `BufferIsAChannel` is the refinement of `Channel`: the channel holds the slots from
  `head` on, an item is sent by the store of `count` and received by the other; `WrittenInv` says
  that the slot counted in has been written. `NobodyEverWaitsInVain` is a counting
  argument (`ServedInv`): while anybody waits for items, count is at most the number of
  consumers that were woken and are on their way, plus one if somebody inside is
  about to notify or to take an item, and the same for slots. `WaitersInv` says who can be in
  which queue.

### Keyboard

- **KeyboardProofs**: the contexts of a task are numbered from the bottom of its stack,
  0 its own code, so that a callback keeps its number while others come and go above
  it. `LockInv` says that at most one context (t, k) is inside, and that the lock is taken
  exactly if one is; owner cannot serve, as in MonitorProofs, since it names the task and
  several contexts of it may be in the monitor's code. `DataInv` is what each context
  inside knows of the ring. `KeyboardIsAChannel` is the refinement of `Channel`, by the
  argument of the bounded buffer: the read of `kbd_head` receives, kbd_count++ sends. `Roles`
  says that context 0 of the shell is the only reader, `WrittenInv` that the slot
  a callback is about to count has been written with a key.
  `ShellIsAlwaysTold` proves `NoKeyLeft` for every behaviour in which `NobodyQueuesTwice` holds
  throughout, by `ToldInv`, which has three parts besides kmain's hlt loop. `KbdQueues`: the queues
  hold exactly the BLOCKED tasks, those for the lock by their latest callback or their own code,
  that for `NotEmpty` at most the shell. `GapInv`: if the shell waits and has the CPU, it is
  in the gap of cond_wait, with at most one callback on top that has not signalled yet, and somebody is
  runnable, so that no yield or tick gives the CPU back to a task that waits (`TimerResumes`).
  `NewsInv`: a shell that waits beside a key has a callback at its signal. The premise
  is used where mutex_lock queues a task: the yield there must not return to the same task,
  which would then be RUNNING and in the queue.
- **KeyDecodeProofs**: `ShiftsAlwaysHeld`, where `ShiftsAreHeld` is inductive as it
  stands, thanks to `confused`: without that history nothing could be said of the
  left Shift after an E0 AA. `TypesAlwaysWhatIsExpected`, an action property, follows from it
  and from `CapsAgree` by cases on the kind of the key (lemma `Decodes`).

### Heap

- **KheapProofs**: five theorems from one invariant, `HeapInv`. `Tiled` is `HeapTiles` with
  two additions: that a block ends before *any* later one starts, which follows from the
  neighbours only by an induction over the list, and is kept by each operation; and that the last
  block is never empty, so that kfree never mistakes a pointer for one beyond
  `heap_end`. `Used` and `Twins`, the used blocks and the pairs of holes, do not mention
  positions in the list: a split or a merge, which moves all that follow, leaves
  `Used` alone and changes `Twins` at one place only (`SplitTwins`, `MergeTwins`).
  `LiveInv` says that `live` and `Used` are in bijection; `CallInv`
  that after an expansion the last block is a hole of the size asked for, and that nothing before it
  fits. The lemmas go from the list operations (`InsertAtProperties`) over split_block and the
  merges (`SplitFits`, `MergeJoins`) to the calls (`AllocateFits`, `FreeJoins`).
  The first block that fits is a least element, which `LeastOf` takes from the
  well-foundedness of the naturals.

### Physical pages

- **PagingProofs**, first part: five theorems of Pmm from one invariant, `PmmInv`, in four layers.
  *Powers of two.* The provers do not compute with 2^k; but 2^k is the number of subsets of
  1 .. k, and the library's facts about cardinalities say that one more element
  doubles it (`PowerStep`), which is all that is needed.
  *Blocks.* `Block(p, k)` is the one aligned run of 2^k pages around p (`BlockAround`,
  `BlockUnique`). `Halves` says what page_idx ^ (1 << order) computes: the
  block of the next order consists of the block and its buddy. From it, aligned
  runs are nested or apart (`NestedOrApart`), and a split and a merge are mirror images:
  `PiecesTile` says that the block of order f around p is the block of order o and its
  buddies at o .. f - 1. pmm_alloc_pages puts these in place of the large block,
  pmm_free_pages the large block in place of these; both are one `Exchange`.
  *Steps.* `BlocksTileRegion` is not inductive. `Marked` says what pmm_free_pages relies on: a
  block in a list has order and flags to match, the first page of a used one and every page
  outside the region are marked used. Nothing is said of pages inside a block, and
  nothing can be: they are stale. That they are harmless is `BuddyIsListed`: a buddy that
  says "free, of this order" and heads no such block would lie inside a larger one, which would
  hold the block being freed too. `NoBuddies`, that no block and its buddy are both free,
  gives `RefusedOnlyWhenReallyFull`: a free aligned run that meets no used block is
  covered by free ones, and the smallest of those would have a free buddy, if all
  are smaller than the run.
  *pmm_add_region.* `RegionFrom` is a recursive function over pages; it has the value its equation
  says (`RegionFromIs`) because the pages it stops at are those that every set closed
  under its step contains. `RegionTiles` is then an induction from the end of the
  region, taken as the least distance at which it fails (`LeastOf`). That no two of its blocks are
  buddies (`InitBuddies`) is what the choice of the largest order is for. A list is
  `Stacked`: the place of a page is the number of pages from it on, which lists each once
  (`StackedIs`).
  `PmmIsAPageAllocator` is the refinement of `PageAllocator`: what is handed out was
  a free block or the lower end of one, so no page of it is in use.

### Paging

- **PagingProofs**, the rest: four theorems of Vmm. They are not true of every memory:
  vmm.c writes tables through their physical addresses and trusts pmm_alloc_pages to return frames
  below 8 MB while it does. `MemoryAssumption` names what makes that so. The 8 MB and the
  region's end are multiples of the largest block (2048 pages), and the region begins
  within the last such block below 8 MB (at page 1280). The 768 pages there are enough for the
  directory, the tables of vmm_init and the heap's first table, but not for these and the 1024
  pages of heap that the table maps: none is left when the heap needs its second table. The
  region (31488 pages) is not used up by then. No line of the code compares these numbers.
  *Frames.* `FramesInv` says where the next frame comes from. While a page below
  `IDENTITY` is left, all free blocks above it are of the largest order (`SmallBlocksAreLow`), so that
  the first list that is not empty has a block from below (`LowBlock`: the cut block cannot be
  of the largest order). `AllocFrame` is one call on top of the layers of Pmm; `FramesCount`
  turns "are there any left" into the number of frames handed out.
  *Tables.* `MapStep` is one call of vmm_map_page that does not fault: `Walk` changes at that page
  only, since the tables are apart (`TablesInv`), a new one is blank, and a page is where its two
  indices say (`IndexUnique`).
  *The invariant.* `VmmInv`: everything in the tables follows from the loop and its
  counter. `Mapping` is the set of pages mapped so far, `MappedInv` their frames and the
  entries of the directory they need; `HeapInv` that the heap's frames are not shared;
  `CountInv` that no frame is lost: one for the directory, one per entry, one per page of the heap and one
  on its way. The counting decides the faults. In the loops of vmm_init at most `Needed` entries are
  present, so a frame below `IDENTITY` is left (`LoopInv`), and it is for the heap's first table
  (`HeapCount`, `MapHeapInv`); for the second there is none, and no frame beyond is mapped to itself, the
  framebuffer being beyond all memory and the frames of the heap being others (`SecondTable`).
  `PagingKeepsItsPromise` is the refinement of `AddressSpace`: `Maps` is what a step
  does to the address space, and each page it maps gets a frame that was promised
  (`MapIsPromised`, `HeapPromised`).

### What stays model-checked, and why

- Liveness (`SleepReturns`, `PassCompletes`, `LoadEnds`): the prover has no rules for fairness.
- Terminal and Ramdisk: their properties compare with recursive definitions of the text as
  it wraps and of the image.

## 5. Not modelled

- the shell's line editor: a buffer that one task appends to and cuts, with
  nothing else that sees it;
- of the terminal, the shapes of the glyphs, colours and pixel formats, and how
  printf formats; a glyph is drawn in one step, so that tearing is not seen;
- a framebuffer that overlaps another window: nothing in `vmm_init` checks it
  (`VmmAssumption`); the flags of page table entries, which are always the same;
- the bytes of a kernel stack, on which each nested handler takes a frame of its own;
- 32-bit wrap of sizes;
- the rest of the boot loader (stage1, video mode, protected mode), GDT, IDT, PIC setup
  and C library: sequential code that runs once, or byte loops;
- kernels that end beyond 0x40000, their BSS included (`KernelAssumption`), which the Makefile
  accepts: load_initrd overwrites the end of kernel.bin, or the BSS the head of the ramdisk;
- ramdisks of more than 256 KB, which the Makefile cuts (`FileAssumption`);
- calls outside the contracts: kfree of a freed pointer, monitor_exit from outside.

## 6. Plan

1. *Done:* scheduler and sleep; monitors and their refinement; the two ring
   buffers; decoder with extended keys; page allocator; paging over it and its
   refinement; heap; terminal; loader, ramdisk and VFS.
2. *Done:* proofs about sleep and the round robin; exclusion, queues and wakeups of the
   monitors and their refinement; the bounded buffer, the keyboard driver and
   their refinements; that the shell is told of its keys; the decoder; the heap; the page
   allocator and paging, and their refinements.
3. The shell's line editor.
