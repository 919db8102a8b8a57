------------------------------ MODULE Keyboard ------------------------------
(***************************************************************************)
(* keyboard.c: getchar(), called by shell_task, and keyboard_callback(),   *)
(* which is an interrupt handler and calls the same monitor.  The handler  *)
(* runs on the stack of whichever task IRQ1 interrupts and mutex_lock's    *)
(* sti lets it be interrupted in its turn, so a task is a stack of         *)
(* contexts: its own code below, the handlers that hit it above.           *)
(*                                                                         *)
(* The interrupt controller matters: IRQ1 stays in service, and no other   *)
(* IRQ1 is delivered, until somebody sends an EOI.  irq_handler sends one  *)
(* when the callback returns, but so does every task_yield(), because      *)
(* int $0x20 runs irq_handler too and the EOI is not specific.             *)
(***************************************************************************)
EXTENDS Sync, Sequences

CONSTANTS
  Kbd,                    \* &kbd_monitor, the one monitor of this module
  KBD_BUFFER_SIZE,
  SleepTicks,             \* what the other tasks sleep
  MaxKeys                 \* bound: key presses are numbered 1 .. MaxKeys

ASSUME KeyboardAssumption ==
  /\ N > 1                              \* kmain creates shell_task
  /\ Mutex = {Kbd} /\ MAX_MONITOR_CONDS > 0
  /\ KBD_BUFFER_SIZE \in Nat \ {0} /\ SleepTicks \in Nat \ {0} /\ MaxKeys \in Nat

VARIABLES
  pc,                     \* where the task's own code is
  handlers,               \* the callbacks on its stack, the latest first
  inService,              \* IRQ1 is in service at the PIC
  keys,                   \* key presses delivered so far
  kbd_buffer, kbd_head, kbd_tail, kbd_count,
  c,                      \* getchar's local variable
  echoed                  \* the keys terminal_putchar has shown

ringVars == <<kbd_buffer, kbd_head, kbd_tail, kbd_count, c>>
vars     == <<schedVars, syncVars, pc, handlers, inService, keys, ringVars, echoed>>

Shell    == N                           \* the last task kmain creates
Sleeper  == Task \ {Idle, Shell}
NotEmpty == <<Kbd, 0>>
Slot     == 0 .. KBD_BUFFER_SIZE - 1
Key      == 1 .. MaxKeys

Inside == {"check", "put", "read", "index", "count", "notify", "exit"}

HandlerPoint == Inside \cup {"retry", "echo", "return"}
TaskPoint    == Inside \cup {"retry", "hlt", "sleep", "set_state", "asleep",
                             "enter", "yield", "relock"}

TypeOK ==
  /\ SchedTypeOK
  /\ SyncTypeOK
  /\ pc \in [Task -> TaskPoint]
  /\ handlers \in [Task -> Seq([at : HandlerPoint, key : Key])]
  /\ inService \in BOOLEAN
  /\ keys \in 0 .. MaxKeys
  /\ kbd_buffer \in [Slot -> Key \cup {0}]
  /\ kbd_head \in Slot /\ kbd_tail \in Slot
  /\ kbd_count \in 0 .. KBD_BUFFER_SIZE
  /\ c \in Key \cup {0}
  /\ echoed \subseteq Key

Init ==
  /\ SchedInit
  /\ SyncInit
  /\ pc = [t \in Task |-> IF t = Idle THEN "hlt"
                          ELSE IF t = Shell THEN "enter" ELSE "sleep"]
  /\ handlers = [t \in Task |-> <<>>]
  /\ inService = FALSE
  /\ keys = 0
  /\ kbd_buffer = [s \in Slot |-> 0]
  /\ kbd_head = 0 /\ kbd_tail = 0 /\ kbd_count = 0
  /\ c = 0
  /\ echoed = {}

-----------------------------------------------------------------------------
Point(t) == IF handlers[t] = <<>> THEN pc[t] ELSE handlers[t][1].at

(* The task's own code, respectively its latest handler, has the CPU. *)
TaskAt(t, point)    == running = t /\ handlers[t] = <<>> /\ pc[t] = point
HandlerAt(t, point) == running = t /\ handlers[t] # <<>> /\ handlers[t][1].at = point

TaskGoto(t, point) ==
  /\ pc' = [pc EXCEPT ![t] = point]
  /\ UNCHANGED <<handlers, keys>>

HandlerGoto(t, point) ==
  /\ handlers' = [handlers EXCEPT ![t][1].at = point]
  /\ UNCHANGED <<pc, keys>>

(* task_yield(): the scheduler, and the EOI of irq_handler. *)
Yield == timer_callback(state) /\ inService' = FALSE

(* mutex_lock in the two contexts it is called from: the lock is taken, or the
   task queues up and yields. *)
TakeOrWait(t) ==
  \/ MutexTake(t, Kbd) /\ UNCHANGED inService
  \/ MutexWait(t, Kbd) /\ inService' = FALSE

-----------------------------------------------------------------------------
(* The tasks that have nothing to do with the keyboard: sleep() in a loop. *)
Sleep(t) ==
  /\ t \in Sleeper
  /\ TaskAt(t, "sleep")
  /\ sleepTicks' = [sleepTicks EXCEPT ![t] = SleepTicks]
  /\ TaskGoto(t, "set_state")
  /\ UNCHANGED <<state, running, syncVars, inService, ringVars, echoed>>

SetSleeping(t) ==
  /\ TaskAt(t, "set_state")
  /\ state' = [state EXCEPT ![t] = "SLEEPING"]
  /\ TaskGoto(t, "asleep")
  /\ UNCHANGED <<sleepTicks, running, syncVars, inService, ringVars, echoed>>

YieldAsleep(t) ==
  /\ TaskAt(t, "asleep")
  /\ Yield
  /\ TaskGoto(t, "sleep")
  /\ UNCHANGED <<syncVars, ringVars, echoed>>

-----------------------------------------------------------------------------
(* getchar() *)
Lock(t) ==
  /\ \E point \in {"enter", "retry", "relock"} : TaskAt(t, point)
  /\ TakeOrWait(t)
  /\ TaskGoto(t, IF locked[Kbd] THEN "retry" ELSE "check")
  /\ UNCHANGED <<ringVars, echoed>>

CheckEmpty(t) ==
  /\ TaskAt(t, "check")
  /\ IF kbd_count = 0
       THEN CondBlock(t, NotEmpty) /\ TaskGoto(t, "yield")
       ELSE UNCHANGED <<schedVars, syncVars>> /\ TaskGoto(t, "read")
  /\ UNCHANGED <<inService, ringVars, echoed>>

YieldInWait(t) ==
  /\ TaskAt(t, "yield")
  /\ Yield
  /\ TaskGoto(t, "relock")
  /\ UNCHANGED <<syncVars, ringVars, echoed>>

(* c = kbd_buffer[kbd_head], kbd_head = ..., kbd_count--. *)
Pop(t) ==
  /\ \/ /\ TaskAt(t, "read")
        /\ c' = kbd_buffer[kbd_head]
        /\ TaskGoto(t, "index")
        /\ UNCHANGED <<kbd_buffer, kbd_head, kbd_tail, kbd_count>>
     \/ /\ TaskAt(t, "index")
        /\ kbd_head' = (kbd_head + 1) % KBD_BUFFER_SIZE
        /\ TaskGoto(t, "count")
        /\ UNCHANGED <<kbd_buffer, kbd_tail, kbd_count, c>>
     \/ /\ TaskAt(t, "count")
        /\ kbd_count' = kbd_count - 1
        /\ TaskGoto(t, "exit")
        /\ UNCHANGED <<kbd_buffer, kbd_head, kbd_tail, c>>
  /\ UNCHANGED <<schedVars, syncVars, inService, echoed>>

(* monitor_exit and the return to shell_task, which calls getchar again. *)
Exit(t) ==
  /\ TaskAt(t, "exit")
  /\ MonitorExit(Kbd)
  /\ TaskGoto(t, "enter")
  /\ UNCHANGED <<inService, ringVars, echoed>>

-----------------------------------------------------------------------------
(* keyboard_callback(), for a key press that is a character. *)

\* Mutant: the handler runs unaware of who holds the lock.
KeyIrqUnlocked(t) ==
  /\ running = t /\ Point(t) # "retry" /\ ~inService /\ keys < MaxKeys
  /\ keys' = keys + 1
  /\ inService' = TRUE
  /\ handlers' = [handlers EXCEPT ![t] = <<[at |-> "check", key |-> keys + 1]>> \o @]
  /\ UNCHANGED <<schedVars, syncVars, pc, ringVars, echoed>>

(* IRQ1 hits t wherever it executes with interrupts enabled; the handler starts
   with them disabled and runs to the end of monitor_enter, or to its yield. *)
KeyIrq(t) ==
  /\ running = t /\ Point(t) # "retry"
  /\ ~inService
  /\ keys < MaxKeys
  /\ keys' = keys + 1
  /\ \/ MutexTake(t, Kbd) /\ inService' = TRUE
     \/ MutexWait(t, Kbd) /\ inService' = FALSE
  /\ handlers' = [handlers EXCEPT ![t] =
       <<[at |-> IF locked[Kbd] THEN "retry" ELSE "check", key |-> keys']>> \o @]
  /\ UNCHANGED <<pc, ringVars, echoed>>

HandlerRetry(t) ==
  /\ HandlerAt(t, "retry")
  /\ TakeOrWait(t)
  /\ HandlerGoto(t, IF locked[Kbd] THEN "retry" ELSE "check")
  /\ UNCHANGED <<ringVars, echoed>>

\* Mutant: the key goes in whether there is room or not.
CheckNothing(t) ==
  /\ HandlerAt(t, "check")
  /\ HandlerGoto(t, "put")
  /\ UNCHANGED <<schedVars, syncVars, inService, ringVars, echoed>>

(* if (kbd_count < KBD_BUFFER_SIZE): a key that finds the buffer full is only
   echoed. *)
CheckFull(t) ==
  /\ HandlerAt(t, "check")
  /\ HandlerGoto(t, IF kbd_count < KBD_BUFFER_SIZE THEN "put" ELSE "exit")
  /\ UNCHANGED <<schedVars, syncVars, inService, ringVars, echoed>>

Push(t) ==
  /\ \/ /\ HandlerAt(t, "put")
        /\ kbd_buffer' = [kbd_buffer EXCEPT ![kbd_tail] = handlers[t][1].key]
        /\ HandlerGoto(t, "index")
        /\ UNCHANGED <<kbd_tail, kbd_count>>
     \/ /\ HandlerAt(t, "index")
        /\ kbd_tail' = (kbd_tail + 1) % KBD_BUFFER_SIZE
        /\ HandlerGoto(t, "count")
        /\ UNCHANGED <<kbd_buffer, kbd_count>>
     \/ /\ HandlerAt(t, "count")
        /\ kbd_count' = kbd_count + 1
        /\ HandlerGoto(t, "notify")
        /\ UNCHANGED <<kbd_buffer, kbd_tail>>
  /\ UNCHANGED <<schedVars, syncVars, inService, kbd_head, c, echoed>>

\* Mutant: nobody is told of the new key.
NotifyNobody(t) ==
  /\ HandlerAt(t, "notify")
  /\ HandlerGoto(t, "exit")
  /\ UNCHANGED <<schedVars, syncVars, inService, ringVars, echoed>>

NotifyShell(t) ==
  /\ HandlerAt(t, "notify")
  /\ CondSignal(NotEmpty)
  /\ HandlerGoto(t, "exit")
  /\ UNCHANGED <<inService, ringVars, echoed>>

HandlerExit(t) ==
  /\ HandlerAt(t, "exit")
  /\ MonitorExit(Kbd)
  /\ HandlerGoto(t, "echo")
  /\ UNCHANGED <<inService, ringVars, echoed>>

Echo(t) ==
  /\ HandlerAt(t, "echo")
  /\ echoed' = echoed \cup {handlers[t][1].key}
  /\ HandlerGoto(t, "return")
  /\ UNCHANGED <<schedVars, syncVars, inService, ringVars>>

(* pic_send_eoi(1) and the iret of irq_common_stub. *)
Return(t) ==
  /\ HandlerAt(t, "return")
  /\ inService' = FALSE
  /\ handlers' = [handlers EXCEPT ![t] = Tail(@)]
  /\ UNCHANGED <<schedVars, syncVars, pc, keys, ringVars, echoed>>

-----------------------------------------------------------------------------
(* IRQ0 has priority over IRQ1: the PIT interrupts handlers as well, and its
   own EOI leaves IRQ1 in service. *)
TimerIrq ==
  /\ Point(running) # "retry"
  /\ timer_callback(state)
  /\ UNCHANGED <<syncVars, pc, handlers, inService, keys, ringVars, echoed>>

TaskStep(t) ==
  \/ Sleep(t) \/ SetSleeping(t) \/ YieldAsleep(t)
  \/ Lock(t) \/ CheckEmpty(t) \/ YieldInWait(t) \/ Pop(t) \/ Exit(t)

HandlerStep(t) ==
  \/ HandlerRetry(t) \/ CheckFull(t) \/ Push(t) \/ NotifyShell(t)
  \/ HandlerExit(t) \/ Echo(t) \/ Return(t)

Step(t) == TaskStep(t) \/ HandlerStep(t)

Next == TimerIrq \/ \E t \in Task : Step(t) \/ KeyIrq(t)

(* The PIT never stops and the code that has the CPU goes on; nobody is obliged
   to press a key. *)
Fairness == WF_vars(TimerIrq) /\ \A t \in Task : SF_vars(Step(t))

Spec     == Init /\ [][Next]_vars
FairSpec == Spec /\ Fairness

-----------------------------------------------------------------------------
(* The contexts that are between monitor_enter and monitor_exit: the code of
   the task itself is its context 0. *)
Holders ==
  {<<t, 0>> : t \in {u \in Task : pc[u] \in Inside}} \cup
  UNION {{<<t, k>> : k \in {j \in DOMAIN handlers[t] : handlers[t][j].at \in Inside}}
           : t \in Task}

(* keyboard.c: kbd_monitor keeps getchar and every callback out of each other's
   way, on whatever stack they run; the lock is taken exactly while one is in. *)
OneContextInside ==
  /\ \A x, y \in Holders : x = y
  /\ locked[Kbd] <=> Holders # {}

(* schedule() resumes a BLOCKED task when it finds nobody else: mutex_lock then
   returns from its task_yield unwoken, and links its task into the queue a
   second time. *)
NobodyQueuesTwice ==
  Point(running) = "retry" => running \notin MutexQueue(Kbd)

(* No character is left in the buffer, the monitor being free, while the shell
   is blocked on the condition that announces it. *)
NoKeyLeft ==
  ~locked[Kbd] /\ kbd_count > 0 =>
    ~(Point(Shell) \in {"yield", "relock"} /\ state[Shell] = "BLOCKED")

(* getchar: in a behaviour in which nobody ever queues twice, no key is left in a
   free buffer beside a shell that is BLOCKED waiting for one.  Not that the shell
   gets every key: in the behaviour that KeysAreEchoed finds, where nobody queues
   twice either, the lock is never free again.  Without the premise four keys are
   enough to lose the order of the queues: see the README. *)
ShellIsTold == []NobodyQueuesTwice => []NoKeyLeft

(* The contents of the channel: a key is in from kbd_count++ until getchar has
   read it. *)
Contents ==
  LET len   == IF pc[Shell] \in {"index", "count"} THEN kbd_count - 1 ELSE kbd_count
      first == IF pc[Shell] = "index" THEN kbd_head + 1 ELSE kbd_head
  IN  [k \in 1 .. len |-> kbd_buffer[(first + k - 1) % KBD_BUFFER_SIZE]]

Chan == INSTANCE Channel WITH
  Receivers <- {Shell}, Items <- Key, Capacity <- KBD_BUFFER_SIZE,
  q <- Contents, got <- [r \in {Shell} |-> c]

(* kbd_buffer is a FIFO channel from the callbacks to getchar: a key that was
   put in is returned once, in the order of the puts; a full buffer drops the
   new key and keeps the old ones. *)
ImplementsChannel == Chan!Spec

(* keyboard.c:155, "Let's keep it here for now so we see feedback": a key that
   arrives while getchar is at work is echoed. *)
KeysAreEchoed ==
  \A k \in Key : keys = k /\ pc[Shell] \in Inside ~> k \in echoed
=============================================================================
