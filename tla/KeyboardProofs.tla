--------------------------- MODULE KeyboardProofs ---------------------------
(***************************************************************************)
(* getchar() and keyboard_callback(), for every number of tasks, every     *)
(* number of key presses and every size of the ring: one context at a time *)
(* is inside kbd_monitor, on whatever stacks the callbacks pile up; the    *)
(* ring is a FIFO channel from the callbacks to getchar; and the shell is  *)
(* told of what is in it, as long as no task queues for the lock twice.    *)
(***************************************************************************)
EXTENDS Keyboard, SyncProofs, SequenceTheorems

-----------------------------------------------------------------------------
(* Contexts.  Context 0 of a task is its own code, context k the k-th callback
   counted from the bottom of its stack: a callback keeps its number while
   others come and go above it. *)
Frame    == [at : HandlerPoint, key : Key]
Depth(t) == Len(handlers[t])
Ctx(t, k) == IF k = 0 THEN pc[t] ELSE handlers[t][Len(handlers[t]) + 1 - k].at

LEMMA StackPush ==
  ASSUME NEW s \in Seq(Frame), NEW h \in Frame
  PROVE  /\ <<h>> \o s \in Seq(Frame) /\ Len(<<h>> \o s) = Len(s) + 1
         /\ (<<h>> \o s)[1] = h
         /\ \A k \in 1 .. Len(s) : (<<h>> \o s)[k + 1] = s[k]
<1>1. <<h>> \in Seq(Frame) /\ Len(<<h>>) = 1 /\ Len(s) \in Nat
  OBVIOUS
<1>. QED
  BY <1>1, ConcatProperties

LEMMA StackTop ==
  ASSUME NEW s \in Seq(Frame), s # <<>>, NEW point \in HandlerPoint
  PROVE  LET r == [s EXCEPT ![1].at = point]
         IN  /\ r \in Seq(Frame) /\ Len(r) = Len(s)
             /\ r[1].at = point /\ r[1].key = s[1].key
             /\ \A k \in 2 .. Len(s) : r[k] = s[k]
<1>. DEFINE e == [s[1] EXCEPT !.at = point]
<1>1. 1 \in 1 .. Len(s) /\ s[1] \in Frame
  BY EmptySeq, ElementOfSeq
<1>2. e \in Frame /\ e.at = point /\ e.key = s[1].key
  BY <1>1 DEF Frame
<1>. HIDE DEF e
<1>3. [s EXCEPT ![1].at = point] = [s EXCEPT ![1] = e]
  BY DEF e
<1>. QED
  BY <1>1, <1>2, <1>3, ExceptSeq

LEMMA StackPop ==
  ASSUME NEW s \in Seq(Frame), s # <<>>
  PROVE  /\ Tail(s) \in Seq(Frame) /\ Len(Tail(s)) = Len(s) - 1
         /\ \A k \in 1 .. Len(s) - 1 : Tail(s)[k] = s[k + 1]
BY HeadTailProperties, EmptySeq

LEMMA Stacks ==
  ASSUME TypeOK, NEW t \in Task
  PROVE  /\ handlers[t] \in Seq(Frame) /\ Depth(t) \in Nat
         /\ handlers[t] = <<>> <=> Depth(t) = 0
         /\ Point(t) = Ctx(t, Depth(t))
         /\ pc[t] = Ctx(t, 0)
<1>1. handlers[t] \in Seq(Frame)
  BY DEF TypeOK, Frame
<1>2. Depth(t) \in Nat /\ (handlers[t] = <<>> <=> Depth(t) = 0)
  BY <1>1, EmptySeq DEF Depth
<1>. QED
  BY <1>1, <1>2 DEF Point, Ctx, Depth

(* The three ways a step moves the contexts: the one on top of t's stack goes
   on, a callback comes on top, the callback on top returns. *)
Moves(t, to) ==
  /\ \A u \in Task : Depth(u)' = Depth(u)
  /\ \A u \in Task : \A k \in 0 .. Depth(u) :
       Ctx(u, k)' = IF u = t /\ k = Depth(t) THEN to ELSE Ctx(u, k)

Comes(t, to) ==
  /\ \A u \in Task : Depth(u)' = IF u = t THEN Depth(t) + 1 ELSE Depth(u)
  /\ \A u \in Task : \A k \in 0 .. Depth(u) : Ctx(u, k)' = Ctx(u, k)
  /\ Ctx(t, Depth(t))' = to

Goes(t) ==
  /\ Depth(t) > 0
  /\ \A u \in Task : Depth(u)' = IF u = t THEN Depth(t) - 1 ELSE Depth(u)
  /\ \A u \in Task : \A k \in 0 .. Depth(u) :
       k <= Depth(u)' => Ctx(u, k)' = Ctx(u, k)

StackTypeOK ==
  /\ pc \in [Task -> TaskPoint]
  /\ handlers \in [Task -> Seq(Frame)]
  /\ keys \in 0 .. MaxKeys

LEMMA TaskMoves ==
  ASSUME TypeOK, NEW t \in Task, handlers[t] = <<>>, NEW to \in TaskPoint,
         TaskGoto(t, to)
  PROVE  Moves(t, to) /\ StackTypeOK'
<1>1. /\ pc' = [pc EXCEPT ![t] = to] /\ handlers' = handlers /\ keys' = keys
  BY DEF TaskGoto
<1>2. StackTypeOK'
  BY <1>1 DEF StackTypeOK, TypeOK, Frame
<1>3. /\ pc'[t] = to /\ \A u \in Task \ {t} : pc'[u] = pc[u]
      /\ Len(handlers[t]) = 0
  BY <1>1, Stacks DEF TypeOK, Depth
<1>. QED
  BY <1>1, <1>2, <1>3 DEF Moves, Ctx, Depth

LEMMA HandlerMoves ==
  ASSUME TypeOK, NEW t \in Task, handlers[t] # <<>>, NEW to \in HandlerPoint,
         HandlerGoto(t, to)
  PROVE  Moves(t, to) /\ StackTypeOK'
<1>. DEFINE s == handlers[t]
            r == [handlers[t] EXCEPT ![1].at = to]
<1>1. s \in Seq(Frame) /\ Len(s) \in Nat \ {0}
  BY Stacks DEF Depth
<1>2. /\ r \in Seq(Frame) /\ Len(r) = Len(s) /\ r[1].at = to
      /\ \A k \in 2 .. Len(s) : r[k] = s[k]
  BY <1>1, StackTop
<1>3. handlers' = [handlers EXCEPT ![t] = r] /\ pc' = pc /\ keys' = keys
  BY DEF HandlerGoto
<1>. HIDE DEF r
<1>4. handlers'[t] = r /\ \A u \in Task \ {t} : handlers'[u] = handlers[u]
  BY <1>3 DEF TypeOK
<1>5. StackTypeOK'
  <2>1. handlers \in [Task -> Seq(Frame)]
    BY DEF TypeOK, Frame
  <2>. QED
    BY <1>2, <1>3, <2>1 DEF StackTypeOK, TypeOK
<1>6. \A u \in Task : Depth(u)' = Depth(u)
  BY <1>2, <1>4 DEF Depth
<1>7. ASSUME NEW u \in Task, NEW k \in 0 .. Depth(u)
      PROVE  Ctx(u, k)' = IF u = t /\ k = Depth(t) THEN to ELSE Ctx(u, k)
  <2>1. CASE u # t \/ k = 0
    BY <1>1, <1>3, <1>4, <2>1 DEF Ctx, Depth
  <2>2. CASE u = t /\ k # 0
    <3>1. Len(s) + 1 - k \in 1 .. Len(s) /\ (Len(s) + 1 - k = 1 <=> k = Len(s))
      BY <1>1, <1>7, <2>2 DEF Depth
    <3>2. Ctx(u, k)' = r[Len(s) + 1 - k].at /\ Ctx(u, k) = s[Len(s) + 1 - k].at
      BY <1>2, <1>4, <2>2 DEF Ctx
    <3>. QED
      BY <1>1, <1>2, <2>2, <3>1, <3>2 DEF Depth
  <2>. QED
    BY <2>1, <2>2
<1>. QED
  BY <1>5, <1>6, <1>7 DEF Moves

LEMMA CallbackComes ==
  ASSUME TypeOK, NEW t \in Task, NEW to \in HandlerPoint, keys < MaxKeys,
         keys' = keys + 1, pc' = pc,
         handlers' = [handlers EXCEPT ![t] = <<[at |-> to, key |-> keys']>> \o @]
  PROVE  Comes(t, to) /\ StackTypeOK'
<1>. DEFINE s == handlers[t]
            h == [at |-> to, key |-> keys + 1]
            r == <<h>> \o s
<1>1. s \in Seq(Frame) /\ Len(s) \in Nat
  BY Stacks DEF Depth
<1>2. keys + 1 \in Key /\ keys' \in 0 .. MaxKeys
  BY KeyboardAssumption DEF TypeOK, Key
<1>3. h \in Frame /\ h.at = to
  BY <1>2 DEF Frame
<1>. HIDE DEF h
<1>4. /\ r \in Seq(Frame) /\ Len(r) = Len(s) + 1 /\ r[1] = h
      /\ \A k \in 1 .. Len(s) : r[k + 1] = s[k]
  BY <1>1, <1>3, StackPush
<1>5. handlers' = [handlers EXCEPT ![t] = r]
  BY DEF h
<1>. HIDE DEF r
<1>6. handlers'[t] = r /\ \A u \in Task \ {t} : handlers'[u] = handlers[u]
  BY <1>5 DEF TypeOK
<1>7. StackTypeOK'
  <2>1. handlers \in [Task -> Seq(Frame)]
    BY DEF TypeOK, Frame
  <2>. QED
    BY <1>2, <1>4, <1>5, <2>1 DEF StackTypeOK, TypeOK
<1>8. \A u \in Task : Depth(u)' = IF u = t THEN Depth(t) + 1 ELSE Depth(u)
  BY <1>4, <1>6 DEF Depth
<1>9. ASSUME NEW u \in Task, NEW k \in 0 .. Depth(u)
      PROVE  Ctx(u, k)' = Ctx(u, k)
  <2>1. CASE u # t \/ k = 0
    BY <1>6, <2>1 DEF Ctx
  <2>2. CASE u = t /\ k # 0
    <3>1. Len(s) + 1 - k \in 1 .. Len(s) /\ Len(r) + 1 - k = (Len(s) + 1 - k) + 1
      BY <1>1, <1>4, <1>9, <2>2, SMTT(60) DEF Depth
    <3>2. Ctx(u, k)' = r[Len(r) + 1 - k].at /\ Ctx(u, k) = s[Len(s) + 1 - k].at
      BY <1>6, <2>2 DEF Ctx
    <3>. QED
      BY <1>4, <3>1, <3>2
  <2>. QED
    BY <2>1, <2>2
<1>10. Ctx(t, Depth(t))' = to
  <2>1. Ctx(t, Depth(t))' = r[1].at
    BY <1>1, <1>4, <1>6 DEF Ctx, Depth
  <2>. QED
    BY <1>3, <1>4, <2>1
<1>. QED
  BY <1>7, <1>8, <1>9, <1>10 DEF Comes

LEMMA CallbackGoes ==
  ASSUME TypeOK, NEW t \in Task, handlers[t] # <<>>, pc' = pc, keys' = keys,
         handlers' = [handlers EXCEPT ![t] = Tail(@)]
  PROVE  Goes(t) /\ StackTypeOK'
<1>. DEFINE s == handlers[t]
            r == Tail(s)
<1>1. s \in Seq(Frame) /\ Len(s) \in Nat \ {0}
  BY Stacks DEF Depth
<1>2. /\ r \in Seq(Frame) /\ Len(r) = Len(s) - 1
      /\ \A k \in 1 .. Len(s) - 1 : r[k] = s[k + 1]
  BY <1>1, StackPop
<1>. HIDE DEF r
<1>3. handlers' = [handlers EXCEPT ![t] = r]
  BY DEF r
<1>4. handlers'[t] = r /\ \A u \in Task \ {t} : handlers'[u] = handlers[u]
  BY <1>3 DEF TypeOK
<1>5. StackTypeOK'
  <2>1. handlers \in [Task -> Seq(Frame)]
    BY DEF TypeOK, Frame
  <2>. QED
    BY <1>2, <1>3, <2>1 DEF StackTypeOK, TypeOK
<1>6. /\ Depth(t) > 0
      /\ \A u \in Task : Depth(u)' = IF u = t THEN Depth(t) - 1 ELSE Depth(u)
  BY <1>1, <1>2, <1>4 DEF Depth
<1>7. ASSUME NEW u \in Task, NEW k \in 0 .. Depth(u), k <= Depth(u)'
      PROVE  Ctx(u, k)' = Ctx(u, k)
  <2>1. CASE u # t \/ k = 0
    BY <1>4, <2>1 DEF Ctx
  <2>2. CASE u = t /\ k # 0
    <3>1. Len(r) + 1 - k \in 1 .. Len(s) - 1 /\ Len(s) + 1 - k = (Len(r) + 1 - k) + 1
      BY <1>1, <1>2, <1>4, <1>7, <2>2 DEF Depth
    <3>2. Ctx(u, k)' = r[Len(r) + 1 - k].at /\ Ctx(u, k) = s[Len(s) + 1 - k].at
      BY <1>4, <2>2 DEF Ctx
    <3>. QED
      BY <1>2, <3>1, <3>2
  <2>. QED
    BY <2>1, <2>2
<1>. QED
  BY <1>5, <1>6, <1>7 DEF Goes
-----------------------------------------------------------------------------
(* The lock and the ring.  OneContextInside is about the contexts inside, the
   lock says whether there is one; kbd_count stays in range because the context
   inside has tested it and nobody else has been in since. *)
LockInv ==
  /\ \A t, u \in Task : \A j \in 0 .. Depth(t), k \in 0 .. Depth(u) :
       Ctx(t, j) \in Inside /\ Ctx(u, k) \in Inside => t = u /\ j = k
  /\ locked[Kbd] <=> \E t \in Task : \E k \in 0 .. Depth(t) : Ctx(t, k) \in Inside

(* kbd_tail is n slots further from kbd_head than kbd_count says. *)
Ahead(n) == kbd_tail = (kbd_head + kbd_count + n) % KBD_BUFFER_SIZE

(* What the point `at` of a context numbered k says of the ring. *)
Knows(at, k) ==
  /\ Ahead(IF at # "count" THEN 0 ELSE IF k = 0 THEN -1 ELSE 1)
  /\ k = 0 /\ at \in {"read", "index", "count"} => kbd_count > 0
  /\ k > 0 /\ at \in {"put", "index", "count"} => kbd_count < KBD_BUFFER_SIZE

DataInv ==
  /\ ~locked[Kbd] => Ahead(0)
  /\ \A t \in Task : \A k \in 0 .. Depth(t) :
       Ctx(t, k) \in Inside => Knows(Ctx(t, k), k)

KbdInv == TypeOK /\ LockInv /\ DataInv

LEMMA Depths == TypeOK => \A t \in Task : Depth(t) \in Nat
BY Stacks

(* Steps of a context that is outside and stays there. *)
LEMMA InvOutside ==
  ASSUME KbdInv, UNCHANGED locked, UNCHANGED ringVars, NEW t \in Task, NEW to,
         \/ UNCHANGED <<pc, handlers>>
         \/ Moves(t, to) /\ Point(t) \notin Inside /\ to \notin Inside
         \/ Comes(t, to) /\ to \notin Inside
         \/ Goes(t) /\ Point(t) \notin Inside
  PROVE  LockInv' /\ DataInv'
<1>. TypeOK
  BY DEF KbdInv
<1>1. Point(t) = Ctx(t, Depth(t)) /\ \A u \in Task : Depth(u) \in Nat
  BY Stacks, Depths
<1>2. \A u \in Task :
        /\ \A k \in 0 .. Depth(u)' :
             Ctx(u, k)' \in Inside => k \in 0 .. Depth(u) /\ Ctx(u, k)' = Ctx(u, k)
        /\ \A k \in 0 .. Depth(u) :
             Ctx(u, k) \in Inside => k \in 0 .. Depth(u)' /\ Ctx(u, k)' = Ctx(u, k)
  <2>1. CASE UNCHANGED <<pc, handlers>>
    BY <2>1 DEF Ctx, Depth
  <2>2. CASE Moves(t, to) /\ Point(t) \notin Inside /\ to \notin Inside
    BY <1>1, <2>2 DEF Moves
  <2>3. CASE Comes(t, to) /\ to \notin Inside
    <3>. SUFFICES ASSUME NEW u \in Task
                  PROVE  /\ \A k \in 0 .. Depth(u)' : Ctx(u, k)' \in Inside =>
                              k \in 0 .. Depth(u) /\ Ctx(u, k)' = Ctx(u, k)
                         /\ \A k \in 0 .. Depth(u) : Ctx(u, k) \in Inside =>
                              k \in 0 .. Depth(u)' /\ Ctx(u, k)' = Ctx(u, k)
      OBVIOUS
    <3>1. /\ Depth(u)' = IF u = t THEN Depth(u) + 1 ELSE Depth(u)
          /\ \A k \in 0 .. Depth(u) : Ctx(u, k)' = Ctx(u, k)
      BY <2>3 DEF Comes
    <3>2. ASSUME NEW k \in 0 .. Depth(u)', Ctx(u, k)' \in Inside
          PROVE  k \in 0 .. Depth(u)
      <4>1. CASE u = t /\ k = Depth(u)'
        BY <2>3, <3>2, <4>1 DEF Comes
      <4>2. CASE ~(u = t /\ k = Depth(u)')
        BY <1>1, <3>1, <4>2
      <4>. QED
        BY <4>1, <4>2
    <3>. QED
      BY <1>1, <3>1, <3>2
  <2>4. CASE Goes(t) /\ Point(t) \notin Inside
    <3>1. \A u \in Task : Depth(u)' = IF u = t THEN Depth(u) - 1 ELSE Depth(u)
      BY <2>4 DEF Goes
    <3>2. \A u \in Task : \A k \in 0 .. Depth(u)' :
            k \in 0 .. Depth(u) /\ Ctx(u, k)' = Ctx(u, k)
      BY <1>1, <2>4, <3>1 DEF Goes
    <3>3. \A u \in Task : \A k \in 0 .. Depth(u) :
            Ctx(u, k) \in Inside => k \in 0 .. Depth(u)'
      BY <1>1, <2>4, <3>1
    <3>. QED
      BY <3>2, <3>3
  <2>. QED
    BY <2>1, <2>2, <2>3, <2>4
<1>3. LockInv'
  BY <1>2 DEF KbdInv, LockInv
<1>4. DataInv'
  <2>1. ~locked'[Kbd] => Ahead(0)'
    BY DEF KbdInv, DataInv, Ahead, ringVars
  <2>2. ASSUME NEW u \in Task, NEW k \in 0 .. Depth(u)', Ctx(u, k)' \in Inside
        PROVE  Knows(Ctx(u, k), k)'
    <3>1. k \in 0 .. Depth(u) /\ Ctx(u, k)' = Ctx(u, k) /\ Knows(Ctx(u, k), k)
      BY <1>2, <2>2 DEF KbdInv, DataInv
    <3>. QED
      BY <3>1 DEF Knows, Ahead, ringVars
  <2>. QED
    BY <2>1, <2>2 DEF DataInv
<1>. QED
  BY <1>3, <1>4

(* mutex_lock returns to the context on top of t, old or new. *)
LEMMA InvEnter ==
  ASSUME KbdInv, ~locked[Kbd], locked'[Kbd], UNCHANGED ringVars,
         NEW t \in Task, Moves(t, "check") \/ Comes(t, "check")
  PROVE  LockInv' /\ DataInv'
<1>. TypeOK
  BY DEF KbdInv
<1>1. \A u \in Task : Depth(u) \in Nat
  BY Depths
<1>2. \A u \in Task : \A k \in 0 .. Depth(u) : Ctx(u, k) \notin Inside
  BY DEF KbdInv, LockInv
<1>3. Depth(t)' \in Nat /\ Ctx(t, Depth(t))' = "check"
  <2>1. CASE Moves(t, "check")
    <3>1. Depth(t)' = Depth(t) /\ Depth(t) \in 0 .. Depth(t)
      BY <1>1, <2>1 DEF Moves
    <3>2. PICK d \in 0 .. Depth(t) : d = Depth(t)
      BY <3>1
    <3>3. Ctx(t, d)' = "check"
      BY <2>1, <3>2 DEF Moves
    <3>. QED
      BY <1>1, <3>1, <3>2, <3>3 DEF Ctx, Depth
  <2>2. CASE Comes(t, "check")
    BY <1>1, <2>2 DEF Comes
  <2>. QED
    BY <2>1, <2>2
<1>4. \A u \in Task : \A k \in 0 .. Depth(u)' :
        Ctx(u, k)' \in Inside => u = t /\ k = Depth(t)'
  <2>. SUFFICES ASSUME NEW u \in Task, NEW k \in 0 .. Depth(u)',
                       Ctx(u, k)' \in Inside, ~(u = t /\ k = Depth(t)')
                PROVE  FALSE
    OBVIOUS
  <2>1. k \in 0 .. Depth(u) /\ Ctx(u, k)' = Ctx(u, k)
    <3>1. CASE Moves(t, "check")
      BY <1>1, <3>1 DEF Moves
    <3>2. CASE Comes(t, "check")
      <4>1. Depth(u)' = IF u = t THEN Depth(u) + 1 ELSE Depth(u)
        BY <3>2 DEF Comes
      <4>2. k \in 0 .. Depth(u)
        BY <1>1, <4>1
      <4>. QED
        BY <3>2, <4>2 DEF Comes
    <3>. QED
      BY <3>1, <3>2
  <2>. QED
    BY <1>2, <2>1
<1>5. "check" \in Inside /\ Depth(t)' \in 0 .. Depth(t)'
  BY <1>3 DEF Inside
<1>6. LockInv'
  BY <1>3, <1>4, <1>5 DEF LockInv
<1>7. Ahead(0)'
  BY DEF KbdInv, DataInv, Ahead, ringVars
<1>8. DataInv'
  <2>1. ASSUME NEW u \in Task, NEW k \in 0 .. Depth(u)', Ctx(u, k)' \in Inside
        PROVE  Knows(Ctx(u, k), k)'
    <3>1. Ctx(u, k)' = "check"
      BY <1>3, <1>4, <2>1
    <3>. QED
      BY <1>7, <3>1 DEF Knows, Ahead
  <2>. QED
    BY <1>7, <2>1 DEF DataInv
<1>. QED
  BY <1>6, <1>8

(* What a move leaves where it was. *)
LEMMA MovedOnly ==
  ASSUME TypeOK, NEW t \in Task, NEW to, Moves(t, to)
  PROVE  /\ Depth(t)' = Depth(t) /\ Depth(t) \in Nat
         /\ \E d \in 0 .. Depth(t) : d = Depth(t) /\ Ctx(t, d) = Point(t) /\ Ctx(t, d)' = to
         /\ \A u \in Task : \A k \in 0 .. Depth(u)' :
              k \in 0 .. Depth(u) /\ ((u = t /\ k = Depth(t)) \/ Ctx(u, k)' = Ctx(u, k))
<1>1. \A u \in Task : Depth(u) \in Nat /\ Depth(u)' = Depth(u)
  BY Depths DEF Moves
<1>2. Point(t) = Ctx(t, Depth(t))
  BY Stacks
<1>3. PICK d \in 0 .. Depth(t) : d = Depth(t)
  BY <1>1
<1>4. Ctx(t, d)' = to
  BY <1>3 DEF Moves
<1>. QED
  BY <1>1, <1>2, <1>3, <1>4 DEF Moves

(* The context inside goes on inside. *)
LEMMA InvPass ==
  ASSUME KbdInv, UNCHANGED locked, NEW t \in Task, Point(t) \in Inside,
         NEW to \in Inside, Moves(t, to), Knows(to, Depth(t))'
  PROVE  LockInv' /\ DataInv'
<1>. TypeOK
  BY DEF KbdInv
<1>1. PICK d \in 0 .. Depth(t) :
        d = Depth(t) /\ Ctx(t, d) = Point(t) /\ Ctx(t, d)' = to
  BY MovedOnly
<1>2. Depth(t)' = Depth(t) /\ Depth(t) \in Nat
  BY MovedOnly
<1>3. \A u \in Task : \A k \in 0 .. Depth(u) : Ctx(u, k) \in Inside => u = t /\ k = d
  BY <1>1 DEF KbdInv, LockInv
<1>4. \A u \in Task : \A k \in 0 .. Depth(u)' : Ctx(u, k)' \in Inside => u = t /\ k = d
  BY <1>1, <1>3, MovedOnly
<1>5. locked[Kbd]
  BY <1>1 DEF KbdInv, LockInv
<1>6. LockInv'
  BY <1>1, <1>2, <1>4, <1>5 DEF LockInv
<1>7. DataInv'
  <2>1. Knows(to, d)'
    BY <1>1, <1>2 DEF Knows, Ahead
  <2>2. ASSUME NEW u \in Task, NEW k \in 0 .. Depth(u)', Ctx(u, k)' \in Inside
        PROVE  Knows(Ctx(u, k), k)'
    <3>1. u = t /\ k = d /\ Ctx(u, k)' = to
      BY <1>1, <1>4, <2>2
    <3>. QED
      BY <2>1, <3>1 DEF Knows, Ahead
  <2>. QED
    BY <1>5, <2>2 DEF DataInv
<1>. QED
  BY <1>6, <1>7

(* The context inside leaves, at a point where the cursors agree. *)
LEMMA InvLeave ==
  ASSUME KbdInv, ~locked'[Kbd], UNCHANGED ringVars, NEW t \in Task,
         Point(t) \in Inside \ {"count"}, NEW to, to \notin Inside, Moves(t, to)
  PROVE  LockInv' /\ DataInv'
<1>. TypeOK
  BY DEF KbdInv
<1>1. PICK d \in 0 .. Depth(t) :
        d = Depth(t) /\ Ctx(t, d) = Point(t) /\ Ctx(t, d)' = to
  BY MovedOnly
<1>2. \A u \in Task : \A k \in 0 .. Depth(u) : Ctx(u, k) \in Inside => u = t /\ k = d
  BY <1>1 DEF KbdInv, LockInv
<1>3. \A u \in Task : \A k \in 0 .. Depth(u)' : Ctx(u, k)' \notin Inside
  BY <1>1, <1>2, MovedOnly
<1>4. LockInv'
  BY <1>3 DEF LockInv
<1>5. Ahead(0)'
  <2>1. Knows(Point(t), d)
    BY <1>1 DEF KbdInv, DataInv
  <2>. QED
    BY <2>1 DEF Knows, Ahead, ringVars
<1>6. DataInv'
  BY <1>3, <1>5 DEF DataInv
<1>. QED
  BY <1>4, <1>6

LEMMA KnowsNow ==
  ASSUME KbdInv, NEW t \in Task, Point(t) \in Inside
  PROVE  Knows(Point(t), Depth(t)) /\ locked[Kbd]
<1>1. PICK d \in 0 .. Depth(t) : d = Depth(t) /\ Ctx(t, d) = Point(t)
  BY Stacks DEF KbdInv
<1>. QED
  BY <1>1 DEF KbdInv, LockInv, DataInv

-----------------------------------------------------------------------------
(* The steps, one lemma for those of a kind. *)
RingTypeOK ==
  /\ kbd_buffer \in [Slot -> Key \cup {0}]
  /\ kbd_head \in Slot /\ kbd_tail \in Slot
  /\ kbd_count \in 0 .. KBD_BUFFER_SIZE
  /\ c \in Key \cup {0}

RestTypeOK == inService \in BOOLEAN /\ echoed \subseteq Key

LEMMA TypeParts ==
  TypeOK <=> SchedTypeOK /\ SyncTypeOK /\ StackTypeOK /\ RingTypeOK /\ RestTypeOK
BY DEF TypeOK, StackTypeOK, RingTypeOK, RestTypeOK, Frame

LEMMA TypePartsNext ==
  SchedTypeOK' /\ SyncTypeOK' /\ StackTypeOK' /\ RingTypeOK' /\ RestTypeOK' => TypeOK'
BY DEF TypeOK, StackTypeOK, RingTypeOK, RestTypeOK, Frame

LEMMA RingFrame == RingTypeOK /\ UNCHANGED ringVars => RingTypeOK'
BY DEF RingTypeOK, ringVars

LEMMA SyncFrame ==
  SyncTypeOK /\ SchedTypeOK /\ UNCHANGED <<schedVars, syncVars>> =>
    SyncTypeOK' /\ SchedTypeOK'
BY DEF SyncTypeOK, SchedTypeOK, syncVars, schedVars

LEMMA Tasks ==
  /\ Idle \in Task /\ Shell \in Task /\ Shell # Idle /\ Kbd \in Mutex
  /\ NotEmpty \in Cond /\ NotEmpty[1] = Kbd
BY KeyboardAssumption, NAssumption, SyncAssumption
   DEF Task, Idle, Shell, Cond, NotEmpty

(* sleep(), the yield of cond_wait and the timer: nothing but the scheduler. *)
LEMMA KbdInvSchedule ==
  ASSUME KbdInv, NEW t \in Task,
         TimerIrq \/ Sleep(t) \/ SetSleeping(t) \/ YieldAsleep(t) \/ YieldInWait(t)
  PROVE  KbdInv'
<1>1. SchedTypeOK /\ SyncTypeOK /\ StackTypeOK /\ RingTypeOK /\ RestTypeOK /\ TypeOK
  BY TypeParts DEF KbdInv
<1>2. UNCHANGED <<syncVars, ringVars, echoed>> /\ inService' \in BOOLEAN
  BY <1>1 DEF TimerIrq, Sleep, SetSleeping, YieldAsleep, YieldInWait, Yield, RestTypeOK
<1>3. SchedTypeOK'
  <2>1. CASE TimerIrq \/ YieldAsleep(t) \/ YieldInWait(t)
    BY <1>1, <2>1, TimerType DEF TimerIrq, YieldAsleep, YieldInWait, Yield, SchedTypeOK
  <2>2. CASE Sleep(t) \/ SetSleeping(t)
    BY <1>1, <2>2, KeyboardAssumption DEF Sleep, SetSleeping, SchedTypeOK, TaskState
  <2>. QED
    BY <2>1, <2>2
<1>4. \/ UNCHANGED <<pc, handlers, keys>>
      \/ \E to \in TaskPoint \ Inside :
           TaskGoto(t, to) /\ handlers[t] = <<>> /\ pc[t] \notin Inside
  BY DEF TimerIrq, Sleep, SetSleeping, YieldAsleep, YieldInWait, TaskAt, TaskPoint, Inside
<1>5. StackTypeOK' /\ LockInv' /\ DataInv'
  <2>1. CASE UNCHANGED <<pc, handlers, keys>>
    BY <1>1, <1>2, <2>1, InvOutside DEF syncVars, StackTypeOK
  <2>2. CASE \E to \in TaskPoint \ Inside :
               TaskGoto(t, to) /\ handlers[t] = <<>> /\ pc[t] \notin Inside
    <3>1. PICK to \in TaskPoint \ Inside :
            TaskGoto(t, to) /\ handlers[t] = <<>> /\ pc[t] \notin Inside
      BY <2>2
    <3>2. Moves(t, to) /\ StackTypeOK' /\ Point(t) \notin Inside
      BY <1>1, <3>1, TaskMoves DEF Point
    <3>. QED
      BY <1>2, <3>1, <3>2, InvOutside DEF syncVars
  <2>. QED
    BY <1>4, <2>1, <2>2
<1>6. SyncTypeOK' /\ RingTypeOK' /\ RestTypeOK'
  BY <1>1, <1>2, RingFrame DEF SyncTypeOK, syncVars, RestTypeOK
<1>. QED
  BY <1>3, <1>5, <1>6, TypePartsNext DEF KbdInv

(* mutex_lock: of getchar, of a callback, and of a callback that begins. *)
LEMMA KbdInvLock ==
  ASSUME KbdInv, NEW t \in Task, Lock(t) \/ HandlerRetry(t) \/ KeyIrq(t)
  PROVE  KbdInv'
<1>1. /\ SchedTypeOK /\ SyncTypeOK /\ StackTypeOK /\ RingTypeOK /\ RestTypeOK /\ TypeOK
      /\ Kbd \in Mutex
  BY TypeParts, Tasks DEF KbdInv
<1>2. UNCHANGED <<ringVars, echoed>> /\ inService' \in BOOLEAN
  BY <1>1 DEF Lock, HandlerRetry, KeyIrq, TakeOrWait, RestTypeOK
<1>3. MutexTake(t, Kbd) \/ MutexWait(t, Kbd)
  BY DEF Lock, HandlerRetry, KeyIrq, TakeOrWait
<1>4. SchedTypeOK' /\ SyncTypeOK'
  BY <1>1, <1>3, MutexTakeType, MutexWaitType
<1>5. PICK to \in {"retry", "check"} : to = IF locked[Kbd] THEN "retry" ELSE "check"
  OBVIOUS
<1>6. to \in TaskPoint /\ to \in HandlerPoint
  BY DEF TaskPoint, HandlerPoint, Inside
<1>7. /\ StackTypeOK'
      /\ \/ Moves(t, to) /\ Point(t) \notin Inside
         \/ Comes(t, to)
  <2>1. CASE Lock(t)
    <3>1. handlers[t] = <<>> /\ TaskGoto(t, to) /\ Point(t) \notin Inside
      BY <1>5, <2>1 DEF Lock, TaskAt, Point, Inside
    <3>. QED
      BY <1>1, <1>6, <3>1, TaskMoves
  <2>2. CASE HandlerRetry(t)
    <3>1. handlers[t] # <<>> /\ HandlerGoto(t, to) /\ Point(t) \notin Inside
      BY <1>5, <2>2 DEF HandlerRetry, HandlerAt, Point, Inside
    <3>. QED
      BY <1>1, <1>6, <3>1, HandlerMoves
  <2>3. CASE KeyIrq(t)
    BY <1>1, <1>5, <1>6, <2>3, CallbackComes DEF KeyIrq
  <2>. QED
    BY <2>1, <2>2, <2>3
<1>8. LockInv' /\ DataInv'
  <2>1. CASE MutexTake(t, Kbd)
    <3>1. ~locked[Kbd] /\ locked'[Kbd]
      BY <1>1, <2>1 DEF MutexTake, SyncTypeOK
    <3>. QED
      BY <1>2, <1>5, <1>7, <3>1, InvEnter
  <2>2. CASE MutexWait(t, Kbd)
    <3>1. locked[Kbd] /\ locked' = locked /\ to \notin Inside
      BY <1>5, <2>2 DEF MutexWait, Inside
    <3>. QED
      BY <1>2, <1>7, <3>1, InvOutside
  <2>. QED
    BY <1>3, <2>1, <2>2
<1>9. RingTypeOK' /\ RestTypeOK'
  BY <1>1, <1>2, RingFrame DEF RestTypeOK
<1>. QED
  BY <1>4, <1>7, <1>8, <1>9, TypePartsNext DEF KbdInv

(* The steps of a callback or of getchar between monitor_enter and monitor_exit. *)
LEMMA KbdInvPass ==
  ASSUME KbdInv, NEW t \in Task, Point(t) \in Inside, NEW to \in Inside,
         \/ TaskGoto(t, to) /\ handlers[t] = <<>> /\ Knows(to, 0)'
         \/ HandlerGoto(t, to) /\ handlers[t] # <<>> /\ \A k \in Nat \ {0} : Knows(to, k)',
         SchedTypeOK', SyncTypeOK', UNCHANGED locked, RingTypeOK',
         UNCHANGED <<inService, echoed>>
  PROVE  KbdInv'
<1>1. TypeOK /\ RestTypeOK /\ to \in TaskPoint /\ to \in HandlerPoint
  BY TypeParts DEF KbdInv, TaskPoint, HandlerPoint
<1>2. Moves(t, to) /\ StackTypeOK'
  BY <1>1, TaskMoves, HandlerMoves
<1>3. PICK d \in Nat : d = Depth(t) /\ d = Depth(t)' /\ (handlers[t] = <<>> <=> d = 0)
  BY <1>1, <1>2, Stacks DEF Moves
<1>4. Knows(to, d)'
  BY <1>3
<1>5. Knows(to, Depth(t))'
  BY <1>3, <1>4 DEF Knows, Ahead
<1>6. LockInv' /\ DataInv'
  BY <1>2, <1>5, InvPass
<1>. QED
  BY <1>1, <1>2, <1>6, TypePartsNext DEF KbdInv, RestTypeOK

LEMMA KbdInvCheck ==
  ASSUME KbdInv, NEW t \in Task, CheckEmpty(t)
  PROVE  KbdInv'
<1>1. /\ SchedTypeOK /\ SyncTypeOK /\ RingTypeOK /\ RestTypeOK /\ TypeOK
      /\ UNCHANGED <<inService, ringVars, echoed>>
      /\ handlers[t] = <<>> /\ pc[t] = "check" /\ Point(t) = "check"
  BY TypeParts DEF KbdInv, CheckEmpty, TaskAt, Point
<1>2. Knows("check", Depth(t)) /\ "check" \in Inside
  BY <1>1, KnowsNow DEF Inside
<1>3. CASE kbd_count = 0
  <2>1. CondBlock(t, NotEmpty) /\ TaskGoto(t, "yield")
    BY <1>1, <1>3 DEF CheckEmpty
  <2>2. SchedTypeOK' /\ SyncTypeOK'
    BY <1>1, <2>1, Tasks, CondBlockType
  <2>3. Moves(t, "yield") /\ StackTypeOK' /\ "yield" \notin Inside
    BY <1>1, <2>1, TaskMoves DEF TaskPoint, Inside
  <2>4. ~locked'[Kbd]
    BY <1>1, <2>1, Tasks DEF CondBlock, MutexUnlock, SyncTypeOK
  <2>5. LockInv' /\ DataInv'
    BY <1>1, <1>2, <2>3, <2>4, InvLeave
  <2>. QED
    BY <1>1, <2>2, <2>3, <2>5, RingFrame, TypePartsNext DEF KbdInv, RestTypeOK
<1>4. CASE kbd_count # 0
  <2>1. UNCHANGED <<schedVars, syncVars>> /\ TaskGoto(t, "read") /\ "read" \in Inside
    BY <1>1, <1>4 DEF CheckEmpty, Inside
  <2>2. Knows("read", 0)'
    BY <1>1, <1>2, <1>4 DEF Knows, Ahead, ringVars, RingTypeOK
  <2>3. SchedTypeOK' /\ SyncTypeOK' /\ RingTypeOK' /\ locked' = locked
    BY <1>1, <2>1, SyncFrame, RingFrame DEF syncVars
  <2>. QED
    BY <1>1, <1>2, <2>1, <2>2, <2>3, KbdInvPass
<1>. QED
  BY <1>3, <1>4

LEMMA KbdInvCheckFull ==
  ASSUME KbdInv, NEW t \in Task, CheckFull(t)
  PROVE  KbdInv'
<1>1. /\ SchedTypeOK /\ SyncTypeOK /\ RingTypeOK /\ TypeOK
      /\ UNCHANGED <<schedVars, syncVars, inService, ringVars, echoed>>
      /\ handlers[t] # <<>> /\ Point(t) = "check"
  BY TypeParts DEF KbdInv, CheckFull, HandlerAt, Point
<1>2. Knows("check", Depth(t)) /\ "check" \in Inside
  BY <1>1, KnowsNow DEF Inside
<1>3. PICK to \in Inside : to = IF kbd_count < KBD_BUFFER_SIZE THEN "put" ELSE "exit"
  BY DEF Inside
<1>4. HandlerGoto(t, to)
  BY <1>3 DEF CheckFull
<1>5. \A k \in Nat \ {0} : Knows(to, k)'
  BY <1>1, <1>2, <1>3 DEF Knows, Ahead, ringVars
<1>6. SchedTypeOK' /\ SyncTypeOK' /\ RingTypeOK' /\ locked' = locked
  BY <1>1, SyncFrame, RingFrame DEF syncVars
<1>. QED
  BY <1>1, <1>2, <1>4, <1>5, <1>6, KbdInvPass

(* Walking round the ring. *)
LEMMA KbdRingStep ==
  ASSUME NEW x \in Nat, x < 2 * KBD_BUFFER_SIZE
  PROVE  x % KBD_BUFFER_SIZE = IF x < KBD_BUFFER_SIZE THEN x ELSE x - KBD_BUFFER_SIZE
BY KeyboardAssumption

LEMMA KbdInvPop ==
  ASSUME KbdInv, NEW t \in Task, Pop(t)
  PROVE  KbdInv'
<1>1. /\ SchedTypeOK /\ SyncTypeOK /\ RingTypeOK /\ TypeOK
      /\ UNCHANGED <<schedVars, syncVars, inService, echoed>>
      /\ handlers[t] = <<>> /\ Point(t) \in {"read", "index", "count"}
      /\ Point(t) = pc[t]
  BY TypeParts DEF KbdInv, Pop, TaskAt, Point
<1>2. Knows(Point(t), 0) /\ Point(t) \in Inside
  BY <1>1, KnowsNow, Stacks DEF Inside
<1>3. SchedTypeOK' /\ SyncTypeOK' /\ locked' = locked
  BY <1>1, SyncFrame DEF syncVars
<1>4. /\ kbd_head \in 0 .. KBD_BUFFER_SIZE - 1 /\ kbd_tail \in 0 .. KBD_BUFFER_SIZE - 1
      /\ kbd_count \in 1 .. KBD_BUFFER_SIZE /\ KBD_BUFFER_SIZE \in Nat \ {0}
  BY <1>1, <1>2, KeyboardAssumption DEF RingTypeOK, Slot, Knows
<1>5. CASE TaskAt(t, "read")
  <2>1. /\ c' = kbd_buffer[kbd_head] /\ TaskGoto(t, "index")
        /\ UNCHANGED <<kbd_buffer, kbd_head, kbd_tail, kbd_count>> /\ pc[t] = "read"
    BY <1>5 DEF Pop, TaskAt
  <2>2. RingTypeOK'
    BY <1>1, <2>1 DEF RingTypeOK
  <2>3. Knows("index", 0)' /\ "index" \in Inside
    BY <1>1, <1>2, <2>1 DEF Knows, Ahead, Inside
  <2>. QED
    BY <1>1, <1>2, <1>3, <2>1, <2>2, <2>3, KbdInvPass
<1>6. CASE TaskAt(t, "index")
  <2>1. /\ kbd_head' = (kbd_head + 1) % KBD_BUFFER_SIZE /\ TaskGoto(t, "count")
        /\ UNCHANGED <<kbd_buffer, kbd_tail, kbd_count, c>> /\ pc[t] = "index"
    BY <1>6 DEF Pop, TaskAt
  <2>2. kbd_head' \in 0 .. KBD_BUFFER_SIZE - 1
    BY <1>4, <2>1
  <2>3. RingTypeOK'
    BY <1>1, <2>1, <2>2 DEF RingTypeOK, Slot
  <2>4. kbd_tail = (kbd_head' + kbd_count - 1) % KBD_BUFFER_SIZE
    <3>1. kbd_tail = (kbd_head + kbd_count) % KBD_BUFFER_SIZE
      BY <1>1, <1>2, <1>4, <2>1 DEF Knows, Ahead
    <3>. QED
      BY <1>4, <2>1, <2>2, <3>1, KbdRingStep, SMTT(60)
  <2>5. Knows("count", 0)' /\ "count" \in Inside
    BY <1>4, <2>1, <2>2, <2>4 DEF Knows, Ahead, Inside
  <2>. QED
    BY <1>1, <1>2, <1>3, <2>1, <2>3, <2>5, KbdInvPass
<1>7. CASE TaskAt(t, "count")
  <2>1. /\ kbd_count' = kbd_count - 1 /\ TaskGoto(t, "exit")
        /\ UNCHANGED <<kbd_buffer, kbd_head, kbd_tail, c>> /\ pc[t] = "count"
    BY <1>7 DEF Pop, TaskAt
  <2>2. RingTypeOK'
    BY <1>1, <1>4, <2>1 DEF RingTypeOK
  <2>3. Knows("exit", 0)' /\ "exit" \in Inside
    <3>1. kbd_head + kbd_count + (-1) = kbd_head + kbd_count' + 0
      BY <1>4, <2>1
    <3>2. kbd_tail = (kbd_head + kbd_count + (-1)) % KBD_BUFFER_SIZE
      BY <1>1, <1>2, <2>1 DEF Knows, Ahead
    <3>. QED
      BY <2>1, <3>1, <3>2 DEF Knows, Ahead, Inside
  <2>. QED
    BY <1>1, <1>2, <1>3, <2>1, <2>2, <2>3, KbdInvPass
<1>. QED
  BY <1>5, <1>6, <1>7 DEF Pop

LEMMA KbdInvPush ==
  ASSUME KbdInv, NEW t \in Task, Push(t)
  PROVE  KbdInv'
<1>1. /\ SchedTypeOK /\ SyncTypeOK /\ RingTypeOK /\ TypeOK
      /\ UNCHANGED <<schedVars, syncVars, inService, echoed, kbd_head, c>>
      /\ handlers[t] # <<>> /\ Point(t) \in {"put", "index", "count"}
  BY TypeParts DEF KbdInv, Push, HandlerAt, Point
<1>2. PICK d \in Nat \ {0} : d = Depth(t) /\ Knows(Point(t), d) /\ Point(t) \in Inside
  BY <1>1, KnowsNow, Stacks DEF Inside
<1>3. SchedTypeOK' /\ SyncTypeOK' /\ locked' = locked
  BY <1>1, SyncFrame DEF syncVars
<1>4. /\ kbd_head \in 0 .. KBD_BUFFER_SIZE - 1 /\ kbd_tail \in 0 .. KBD_BUFFER_SIZE - 1
      /\ kbd_count \in 0 .. KBD_BUFFER_SIZE - 1 /\ KBD_BUFFER_SIZE \in Nat \ {0}
  BY <1>1, <1>2, KeyboardAssumption DEF RingTypeOK, Slot, Knows
<1>5. CASE HandlerAt(t, "put")
  <2>1. /\ kbd_buffer' = [kbd_buffer EXCEPT ![kbd_tail] = handlers[t][1].key]
        /\ HandlerGoto(t, "index") /\ UNCHANGED <<kbd_tail, kbd_count>>
        /\ Point(t) = "put"
    BY <1>5 DEF Push, HandlerAt, Point
  <2>2. handlers[t][1].key \in Key
    <3>1. handlers[t] \in Seq(Frame) /\ 1 \in 1 .. Len(handlers[t])
      BY <1>1, Stacks, EmptySeq
    <3>2. handlers[t][1] \in Frame
      BY <3>1, ElementOfSeq
    <3>. QED
      BY <3>2 DEF Frame
  <2>3. RingTypeOK'
    BY <1>1, <2>1, <2>2 DEF RingTypeOK
  <2>4. (\A k \in Nat \ {0} : Knows("index", k)') /\ "index" \in Inside
    BY <1>1, <1>2, <2>1 DEF Knows, Ahead, Inside
  <2>. QED
    BY <1>1, <1>2, <1>3, <2>1, <2>3, <2>4, KbdInvPass
<1>6. CASE HandlerAt(t, "index")
  <2>1. /\ kbd_tail' = (kbd_tail + 1) % KBD_BUFFER_SIZE
        /\ HandlerGoto(t, "count") /\ UNCHANGED <<kbd_buffer, kbd_count>>
        /\ Point(t) = "index"
    BY <1>6 DEF Push, HandlerAt, Point
  <2>2. kbd_tail' \in 0 .. KBD_BUFFER_SIZE - 1
    BY <1>4, <2>1
  <2>3. RingTypeOK'
    BY <1>1, <2>1, <2>2 DEF RingTypeOK, Slot
  <2>4. kbd_tail' = (kbd_head + kbd_count + 1) % KBD_BUFFER_SIZE
    <3>1. kbd_tail = (kbd_head + kbd_count) % KBD_BUFFER_SIZE
      BY <1>2, <1>4, <2>1 DEF Knows, Ahead
    <3>. QED
      BY <1>4, <2>1, <3>1, KbdRingStep
  <2>5. (\A k \in Nat \ {0} : Knows("count", k)') /\ "count" \in Inside
    BY <1>1, <1>4, <2>1, <2>4 DEF Knows, Ahead, Inside
  <2>. QED
    BY <1>1, <1>2, <1>3, <2>1, <2>3, <2>5, KbdInvPass
<1>7. CASE HandlerAt(t, "count")
  <2>1. /\ kbd_count' = kbd_count + 1
        /\ HandlerGoto(t, "notify") /\ UNCHANGED <<kbd_buffer, kbd_tail>>
        /\ Point(t) = "count"
    BY <1>7 DEF Push, HandlerAt, Point
  <2>2. RingTypeOK'
    BY <1>1, <1>4, <2>1 DEF RingTypeOK
  <2>3. (\A k \in Nat \ {0} : Knows("notify", k)') /\ "notify" \in Inside
    <3>1. kbd_head + kbd_count + 1 = kbd_head + kbd_count' + 0
      BY <1>4, <2>1
    <3>2. kbd_tail = (kbd_head + kbd_count + 1) % KBD_BUFFER_SIZE
      BY <1>2, <2>1 DEF Knows, Ahead
    <3>. QED
      BY <1>1, <2>1, <3>1, <3>2 DEF Knows, Ahead, Inside
  <2>. QED
    BY <1>1, <1>2, <1>3, <2>1, <2>2, <2>3, KbdInvPass
<1>. QED
  BY <1>5, <1>6, <1>7 DEF Push

LEMMA KbdInvNotify ==
  ASSUME KbdInv, NEW t \in Task, NotifyShell(t)
  PROVE  KbdInv'
<1>1. /\ SchedTypeOK /\ SyncTypeOK /\ RingTypeOK /\ TypeOK
      /\ UNCHANGED <<inService, ringVars, echoed>>
      /\ handlers[t] # <<>> /\ Point(t) = "notify"
      /\ CondSignal(NotEmpty) /\ HandlerGoto(t, "exit")
  BY TypeParts DEF KbdInv, NotifyShell, HandlerAt, Point
<1>2. Knows("notify", Depth(t)) /\ Point(t) \in Inside /\ "exit" \in Inside
  BY <1>1, KnowsNow DEF Inside
<1>3. \A k \in Nat \ {0} : Knows("exit", k)'
  BY <1>1, <1>2 DEF Knows, Ahead, ringVars
<1>4. SchedTypeOK' /\ SyncTypeOK' /\ RingTypeOK' /\ locked' = locked
  <2>1. SchedTypeOK' /\ SyncTypeOK'
    BY <1>1, Tasks, SignalType
  <2>2. locked' = locked
    BY <1>1 DEF CondSignal
  <2>. QED
    BY <1>1, <2>1, <2>2, RingFrame
<1>. QED
  BY <1>1, <1>2, <1>3, <1>4, KbdInvPass

(* monitor_exit of getchar and of the callback. *)
LEMMA KbdInvExit ==
  ASSUME KbdInv, NEW t \in Task, Exit(t) \/ HandlerExit(t)
  PROVE  KbdInv'
<1>1. /\ SchedTypeOK /\ SyncTypeOK /\ RingTypeOK /\ RestTypeOK /\ TypeOK
      /\ UNCHANGED <<inService, ringVars, echoed>>
      /\ Point(t) = "exit" /\ MonitorExit(Kbd) /\ Kbd \in Mutex
  BY TypeParts, Tasks
     DEF KbdInv, Exit, HandlerExit, TaskAt, HandlerAt, Point
<1>2. \E to \in {"enter", "echo"} : Moves(t, to) /\ StackTypeOK'
  <2>1. CASE Exit(t)
    <3>1. handlers[t] = <<>> /\ TaskGoto(t, "enter") /\ "enter" \in TaskPoint
      BY <2>1 DEF Exit, TaskAt, TaskPoint
    <3>. QED
      BY <1>1, <3>1, TaskMoves
  <2>2. CASE HandlerExit(t)
    <3>1. handlers[t] # <<>> /\ HandlerGoto(t, "echo") /\ "echo" \in HandlerPoint
      BY <2>2 DEF HandlerExit, HandlerAt, HandlerPoint
    <3>. QED
      BY <1>1, <3>1, HandlerMoves
  <2>. QED
    BY <2>1, <2>2
<1>3. SchedTypeOK' /\ SyncTypeOK'
  BY <1>1, UnlockType DEF MonitorExit, SyncTypeOK, SchedTypeOK
<1>4. ~locked'[Kbd]
  BY <1>1 DEF MonitorExit, MutexUnlock, SyncTypeOK
<1>5. LockInv' /\ DataInv'
  BY <1>1, <1>2, <1>4, InvLeave DEF Inside
<1>. QED
  BY <1>1, <1>2, <1>3, <1>5, RingFrame, TypePartsNext DEF KbdInv, RestTypeOK

(* The callback after monitor_exit. *)
LEMMA KbdInvFinish ==
  ASSUME KbdInv, NEW t \in Task, Echo(t) \/ Return(t)
  PROVE  KbdInv'
<1>1. /\ SchedTypeOK /\ SyncTypeOK /\ RingTypeOK /\ RestTypeOK /\ TypeOK
      /\ UNCHANGED <<schedVars, syncVars, ringVars>>
      /\ handlers[t] # <<>> /\ Point(t) \notin Inside
  BY TypeParts DEF KbdInv, Echo, Return, HandlerAt, Point, Inside
<1>2. SchedTypeOK' /\ SyncTypeOK' /\ RingTypeOK' /\ locked' = locked
  BY <1>1, SyncFrame, RingFrame DEF syncVars
<1>3. CASE Echo(t)
  <2>1. HandlerGoto(t, "return") /\ "return" \in HandlerPoint /\ "return" \notin Inside
    BY <1>3 DEF Echo, HandlerPoint, Inside
  <2>2. Moves(t, "return") /\ StackTypeOK'
    BY <1>1, <2>1, HandlerMoves
  <2>3. RestTypeOK'
    <3>1. handlers[t] \in Seq(Frame) /\ 1 \in 1 .. Len(handlers[t])
      BY <1>1, Stacks, EmptySeq
    <3>2. handlers[t][1] \in Frame
      BY <3>1, ElementOfSeq
    <3>. QED
      BY <1>1, <1>3, <3>2 DEF Echo, Frame, RestTypeOK
  <2>4. LockInv' /\ DataInv'
    BY <1>1, <1>2, <2>1, <2>2, InvOutside
  <2>. QED
    BY <1>2, <2>2, <2>3, <2>4, TypePartsNext DEF KbdInv
<1>4. CASE Return(t)
  <2>1. Goes(t) /\ StackTypeOK'
    BY <1>1, <1>4, CallbackGoes DEF Return
  <2>2. RestTypeOK'
    BY <1>1, <1>4 DEF Return, RestTypeOK
  <2>3. LockInv' /\ DataInv'
    BY <1>1, <1>2, <2>1, InvOutside
  <2>. QED
    BY <1>2, <2>1, <2>2, <2>3, TypePartsNext DEF KbdInv
<1>. QED
  BY <1>3, <1>4

LEMMA KbdInvInit == Init => KbdInv
<1>. SUFFICES ASSUME Init PROVE KbdInv
  OBVIOUS
<1>1. \A t \in Task : pc[t] \in {"hlt", "enter", "sleep"} /\ handlers[t] = <<>>
  BY DEF Init
<1>2. \A t \in Task : Depth(t) = 0 /\ Ctx(t, 0) = pc[t] /\ pc[t] \notin Inside
  BY <1>1 DEF Depth, Ctx, Inside
<1>3. TypeOK
  <2>1. SchedTypeOK
    BY NAssumption DEF Init, SchedInit, SchedTypeOK, TaskState, Task, Idle
  <2>2. SyncTypeOK
    BY DEF Init, SyncInit, SyncTypeOK, TaskPtr
  <2>3. StackTypeOK
    BY KeyboardAssumption DEF Init, StackTypeOK, TaskPoint
  <2>4. RingTypeOK
    BY KeyboardAssumption DEF Init, RingTypeOK, Slot
  <2>5. RestTypeOK
    BY DEF Init, RestTypeOK
  <2>. QED
    BY <2>1, <2>2, <2>3, <2>4, <2>5, TypeParts
<1>4. ~locked[Kbd] /\ \A t \in Task : \A k \in 0 .. Depth(t) : Ctx(t, k) \notin Inside
  BY <1>2, Tasks DEF Init, SyncInit
<1>5. Ahead(0)
  BY KeyboardAssumption DEF Init, Ahead
<1>. QED
  BY <1>3, <1>4, <1>5 DEF KbdInv, LockInv, DataInv

LEMMA KbdInvNext == KbdInv /\ [Next]_vars => KbdInv'
<1>. SUFFICES ASSUME KbdInv, [Next]_vars PROVE KbdInv'
  OBVIOUS
<1>1. ASSUME NEW t \in Task, TaskStep(t) PROVE KbdInv'
  BY <1>1, KbdInvSchedule, KbdInvLock, KbdInvCheck, KbdInvPop, KbdInvExit DEF TaskStep
<1>2. ASSUME NEW t \in Task, HandlerStep(t) PROVE KbdInv'
  BY <1>2, KbdInvLock, KbdInvCheckFull, KbdInvPush, KbdInvNotify, KbdInvExit, KbdInvFinish
     DEF HandlerStep
<1>3. ASSUME NEW t \in Task, KeyIrq(t) PROVE KbdInv'
  BY <1>3, KbdInvLock
<1>4. CASE TimerIrq
  BY <1>4, KbdInvSchedule, Tasks
<1>5. CASE UNCHANGED vars
  <2>1. UNCHANGED <<schedVars, syncVars, pc, handlers, keys, inService, ringVars, echoed>>
    BY <1>5 DEF vars
  <2>2. LockInv' /\ DataInv'
    BY <2>1, InvOutside, Tasks DEF syncVars
  <2>3. /\ SchedTypeOK /\ SyncTypeOK /\ StackTypeOK /\ RingTypeOK /\ RestTypeOK
    BY TypeParts DEF KbdInv
  <2>4. SchedTypeOK' /\ SyncTypeOK' /\ RingTypeOK'
    BY <2>1, <2>3, SyncFrame, RingFrame
  <2>5. StackTypeOK' /\ RestTypeOK'
    BY <2>1, <2>3 DEF StackTypeOK, RestTypeOK
  <2>. QED
    BY <2>2, <2>4, <2>5, TypePartsNext DEF KbdInv
<1>. QED
  BY <1>1, <1>2, <1>3, <1>4, <1>5 DEF Next, Step

LEMMA KbdInvAlways == Spec => []KbdInv
BY KbdInvInit, KbdInvNext, PTL DEF Spec

(* The stacks of callbacks, the ring and its cursors stay what they are declared
   to be, whatever number of callbacks interrupt one another. *)
THEOREM KeyboardTypeCorrect == Spec => []TypeOK
<1>1. KbdInv => TypeOK
  BY DEF KbdInv
<1>. QED
  BY <1>1, KbdInvAlways, PTL

(* monitor_enter of getchar and of keyboard_callback: never two contexts inside,
   and the lock is taken exactly while there is one. *)
THEOREM OneContextAlwaysInside == Spec => []OneContextInside
<1>1. KbdInv => OneContextInside
  <2>. SUFFICES ASSUME KbdInv PROVE OneContextInside
    OBVIOUS
  <2>1. TypeOK /\ LockInv
    BY DEF KbdInv
  (* The k-th callback from the top of t is context Depth(t) + 1 - k. *)
  <2>. DEFINE Number(t, k) == IF k = 0 THEN 0 ELSE Depth(t) + 1 - k
  <2>2. ASSUME NEW x \in Holders
        PROVE  \E t \in Task : \E k \in 0 .. Depth(t) :
                 x = <<t, k>> /\ Number(t, k) \in 0 .. Depth(t) /\ Ctx(t, Number(t, k)) \in Inside
    <3>1. CASE \E t \in Task : x = <<t, 0>> /\ pc[t] \in Inside
      <4>1. PICK t \in Task : x = <<t, 0>> /\ pc[t] \in Inside
        BY <3>1
      <4>2. Depth(t) \in Nat
        BY <2>1, Depths
      <4>. QED
        BY <4>1, <4>2 DEF Ctx
    <3>2. CASE \E t \in Task : \E k \in DOMAIN handlers[t] :
                 x = <<t, k>> /\ handlers[t][k].at \in Inside
      <4>. PICK t \in Task : \E k \in DOMAIN handlers[t] :
              x = <<t, k>> /\ handlers[t][k].at \in Inside
        BY <3>2
      <4>1. PICK k \in DOMAIN handlers[t] : x = <<t, k>> /\ handlers[t][k].at \in Inside
        OBVIOUS
      <4>2. Depth(t) \in Nat /\ k \in 1 .. Depth(t)
        BY <2>1, <4>1, Stacks DEF Depth
      <4>3. Number(t, k) \in 1 .. Depth(t) /\ Len(handlers[t]) + 1 - Number(t, k) = k
        BY <4>2 DEF Depth
      <4>4. Ctx(t, Number(t, k)) \in Inside
        BY <4>1, <4>3 DEF Ctx
      <4>. QED
        BY <4>1, <4>2, <4>3, <4>4, SMTT(60)
    <3>. QED
      BY <3>1, <3>2 DEF Holders
  <2>3. \A x, y \in Holders : x = y
    <3>. SUFFICES ASSUME NEW x \in Holders, NEW y \in Holders PROVE x = y
      OBVIOUS
    <3>. PICK t \in Task : \E j \in 0 .. Depth(t) :
           x = <<t, j>> /\ Number(t, j) \in 0 .. Depth(t) /\ Ctx(t, Number(t, j)) \in Inside
      BY <2>2
    <3>1. PICK j \in 0 .. Depth(t) :
            x = <<t, j>> /\ Number(t, j) \in 0 .. Depth(t) /\ Ctx(t, Number(t, j)) \in Inside
      OBVIOUS
    <3>. PICK u \in Task : \E k \in 0 .. Depth(u) :
           y = <<u, k>> /\ Number(u, k) \in 0 .. Depth(u) /\ Ctx(u, Number(u, k)) \in Inside
      BY <2>2
    <3>2. PICK k \in 0 .. Depth(u) :
            y = <<u, k>> /\ Number(u, k) \in 0 .. Depth(u) /\ Ctx(u, Number(u, k)) \in Inside
      OBVIOUS
    <3>3. t = u /\ Number(t, j) = Number(u, k)
      BY <2>1, <3>1, <3>2 DEF LockInv
    <3>. QED
      BY <2>1, <3>1, <3>2, <3>3, Depths
  <2>4. (\E t \in Task : \E k \in 0 .. Depth(t) : Ctx(t, k) \in Inside) => Holders # {}
    <3>. SUFFICES ASSUME NEW t \in Task, NEW k \in 0 .. Depth(t), Ctx(t, k) \in Inside
                  PROVE  Holders # {}
      OBVIOUS
    <3>1. CASE k = 0
      BY <3>1 DEF Holders, Ctx
    <3>2. CASE k # 0
      <4>1. Depth(t) \in Nat /\ handlers[t] \in Seq(Frame)
        BY <2>1, Stacks
      <4>2. Depth(t) + 1 - k \in DOMAIN handlers[t]
        BY <3>2, <4>1 DEF Depth
      <4>3. handlers[t][Depth(t) + 1 - k].at \in Inside
        BY <3>2 DEF Ctx, Depth
      <4>4. PICK j \in DOMAIN handlers[t] : handlers[t][j].at \in Inside
        BY <4>2, <4>3
      <4>5. <<t, j>> \in Holders
        BY <4>4 DEF Holders
      <4>. QED
        BY <4>5
    <3>. QED
      BY <3>1, <3>2
  <2>5. Holders # {} => \E t \in Task : \E k \in 0 .. Depth(t) : Ctx(t, k) \in Inside
    BY <2>2
  <2>. QED
    BY <2>1, <2>3, <2>4, <2>5 DEF OneContextInside, LockInv
<1>. QED
  BY <1>1, KbdInvAlways, PTL
-----------------------------------------------------------------------------
(* The refinement of Channel.  Only shell_task runs getchar, so context 0 of it
   is the only reader; the callbacks, contexts 1 and up of any task, write. *)
Roles == \A t \in Task \ {Shell} : pc[t] \in {"hlt", "sleep", "set_state", "asleep"}

(* What is sent is a key: the slot the next kbd_count++ puts in the channel has
   been written, by the callback that is about to count it. *)
WrittenInv ==
  \A t \in Task : \A k \in 0 .. Depth(t) :
    k > 0 /\ Ctx(t, k) \in {"index", "count"} =>
      kbd_buffer[(kbd_head + kbd_count) % KBD_BUFFER_SIZE] \in Key

LEMMA RolesNext == TypeOK /\ Roles /\ [Next]_vars => Roles'
<1>. SUFFICES ASSUME TypeOK, Roles, [Next]_vars PROVE Roles'
  OBVIOUS
<1>1. CASE pc' = pc
  BY <1>1 DEF Roles
<1>2. ASSUME NEW t \in Task, TaskStep(t) PROVE Roles'
  <2>1. PICK to \in TaskPoint : TaskGoto(t, to) /\ (t # Shell => to \in {"asleep", "sleep", "set_state"})
    <3>1. CASE Sleep(t) \/ SetSleeping(t) \/ YieldAsleep(t)
      BY <3>1 DEF Sleep, SetSleeping, YieldAsleep, TaskPoint
    <3>2. CASE Lock(t) \/ CheckEmpty(t) \/ YieldInWait(t) \/ Pop(t) \/ Exit(t)
      <4>1. t = Shell
        BY <3>2 DEF Lock, CheckEmpty, YieldInWait, Pop, Exit, TaskAt, Roles
      <4>. QED
        BY <3>2, <4>1 DEF Lock, CheckEmpty, YieldInWait, Pop, Exit, TaskPoint, Inside
    <3>. QED
      BY <1>2, <3>1, <3>2 DEF TaskStep
  <2>. QED
    BY <2>1 DEF TaskGoto, Roles, TypeOK
<1>3. ASSUME NEW t \in Task, HandlerStep(t) \/ KeyIrq(t) PROVE pc' = pc
  BY <1>3 DEF HandlerStep, HandlerRetry, CheckFull, Push, NotifyShell, HandlerExit, Echo,
              Return, KeyIrq, HandlerGoto
<1>. QED
  BY <1>1, <1>2, <1>3 DEF Next, Step, TimerIrq, vars

(* Every step but those of Pop and Push leaves the ring alone, and moves a
   context between points that are not in the middle of a read or a write. *)
LEMMA QuietMoves ==
  ASSUME KbdInv, NEW t \in Task, Step(t) \/ KeyIrq(t), ~Pop(t), ~Push(t)
  PROVE  /\ UNCHANGED ringVars
         /\ \E to \in (TaskPoint \cup HandlerPoint) \ {"index", "count"} :
              \/ Moves(t, to) /\ (pc' = pc \/ (TaskGoto(t, to) /\ pc[t] \notin {"index", "count"}))
              \/ pc' = pc /\ (Comes(t, to) \/ Goes(t))
<1>. TypeOK
  BY DEF KbdInv
<1>1. CASE TaskStep(t)
  <2>1. \E to \in TaskPoint \ {"index", "count"} :
          TaskGoto(t, to) /\ handlers[t] = <<>> /\ pc[t] \notin {"index", "count"}
    BY <1>1 DEF TaskStep, Sleep, SetSleeping, YieldAsleep, Lock, CheckEmpty, YieldInWait,
                Exit, TaskAt, TaskPoint, Inside
  <2>2. UNCHANGED ringVars
    BY <1>1 DEF TaskStep, Sleep, SetSleeping, YieldAsleep, Lock, CheckEmpty, YieldInWait, Exit
  <2>. QED
    BY <2>1, <2>2, TaskMoves
<1>2. CASE HandlerStep(t) /\ ~Return(t)
  <2>1. \E to \in HandlerPoint \ {"index", "count"} :
          HandlerGoto(t, to) /\ handlers[t] # <<>>
    BY <1>2 DEF HandlerStep, HandlerRetry, CheckFull, NotifyShell, HandlerExit, Echo,
                HandlerAt, HandlerPoint, Inside
  <2>2. UNCHANGED ringVars
    BY <1>2 DEF HandlerStep, HandlerRetry, CheckFull, NotifyShell, HandlerExit, Echo
  <2>. QED
    BY <2>1, <2>2, HandlerMoves DEF HandlerGoto
<1>3. CASE Return(t)
  BY <1>3, CallbackGoes DEF Return, HandlerAt, HandlerPoint
<1>4. CASE KeyIrq(t)
  <2>1. PICK to \in {"retry", "check"} : to = IF locked[Kbd] THEN "retry" ELSE "check"
    OBVIOUS
  <2>2. to \in HandlerPoint
    BY <2>1 DEF HandlerPoint, Inside
  <2>. QED
    BY <1>4, <2>1, <2>2, CallbackComes DEF KeyIrq
<1>. QED
  BY <1>1, <1>2, <1>3, <1>4 DEF Step

(* The context inside, and what it leaves to the others. *)
LEMMA InsideOnly ==
  ASSUME KbdInv, NEW t \in Task, Point(t) \in Inside
  PROVE  \A u \in Task : \A k \in 0 .. Depth(u) :
           Ctx(u, k) \in Inside => u = t /\ k = Depth(t)
<1>1. PICK d \in 0 .. Depth(t) : d = Depth(t) /\ Ctx(t, d) = Point(t)
  BY Stacks DEF KbdInv
<1>. QED
  BY <1>1 DEF KbdInv, LockInv

LEMMA PopIsShell ==
  ASSUME KbdInv, Roles, NEW t \in Task, Pop(t)
  PROVE  /\ t = Shell /\ handlers[t] = <<>> /\ Depth(t) = 0
         /\ Point(t) = pc[t] /\ pc[t] \in {"read", "index", "count"}
         /\ Knows(pc[t], 0)
         /\ \E to \in {"index", "count", "exit"} : TaskGoto(t, to) /\ Moves(t, to)
<1>1. handlers[t] = <<>> /\ pc[t] \in {"read", "index", "count"} /\ Point(t) = pc[t]
  BY DEF Pop, TaskAt, Point
<1>2. t = Shell
  BY <1>1 DEF Roles
<1>3. Depth(t) = 0 /\ Knows(pc[t], 0)
  BY <1>1, Stacks, KnowsNow DEF KbdInv, Inside
<1>4. \E to \in {"index", "count", "exit"} : TaskGoto(t, to) /\ to \in TaskPoint
  BY DEF Pop, TaskPoint, Inside
<1>. QED
  BY <1>1, <1>2, <1>3, <1>4, TaskMoves DEF KbdInv

LEMMA PushMoves ==
  ASSUME KbdInv, NEW t \in Task, Push(t)
  PROVE  /\ Depth(t) \in Nat \ {0} /\ Point(t) \in {"put", "index", "count"}
         /\ Knows(Point(t), Depth(t)) /\ pc[Shell] \notin Inside /\ pc' = pc
         /\ \E to \in {"index", "count", "notify"} : HandlerGoto(t, to) /\ Moves(t, to)
<1>1. handlers[t] # <<>> /\ Point(t) \in {"put", "index", "count"} /\ Point(t) \in Inside
  BY DEF Push, HandlerAt, Point, Inside
<1>2. Depth(t) \in Nat \ {0} /\ Knows(Point(t), Depth(t))
  BY <1>1, Stacks, KnowsNow DEF KbdInv
<1>3. pc[Shell] \notin Inside
  <2>1. Ctx(Shell, 0) = pc[Shell] /\ 0 \in 0 .. Depth(Shell)
    BY Tasks, Stacks DEF KbdInv
  <2>. QED
    BY <1>1, <1>2, <2>1, Tasks, InsideOnly
<1>4. \E to \in {"index", "count", "notify"} :
        HandlerGoto(t, to) /\ to \in HandlerPoint
  BY DEF Push, HandlerPoint, Inside
<1>. QED
  BY <1>1, <1>2, <1>3, <1>4, HandlerMoves DEF KbdInv, HandlerGoto

LEMMA WrittenInvNext == KbdInv /\ Roles /\ WrittenInv /\ [Next]_vars => WrittenInv'
<1>. SUFFICES ASSUME KbdInv, Roles, WrittenInv, [Next]_vars,
                     NEW u \in Task, NEW k \in (0 .. Depth(u))', k > 0,
                     Ctx(u, k)' \in {"index", "count"}
              PROVE  (kbd_buffer[(kbd_head + kbd_count) % KBD_BUFFER_SIZE] \in Key)'
  BY DEF WrittenInv
<1>. TypeOK /\ \A v \in Task : Depth(v) \in Nat
  BY Depths DEF KbdInv
<1>1. CASE TimerIrq \/ UNCHANGED vars
  BY <1>1 DEF TimerIrq, vars, ringVars, WrittenInv, Ctx, Depth
<1>2. ASSUME NEW t \in Task, Step(t) \/ KeyIrq(t), ~Pop(t), ~Push(t)
      PROVE  (kbd_buffer[(kbd_head + kbd_count) % KBD_BUFFER_SIZE] \in Key)'
  <2>1. UNCHANGED ringVars
    BY <1>2, QuietMoves
  <2>2. PICK to \in (TaskPoint \cup HandlerPoint) \ {"index", "count"} :
          Moves(t, to) \/ Comes(t, to) \/ Goes(t)
    BY <1>2, QuietMoves
  <2>3. k \in 0 .. Depth(u) /\ Ctx(u, k) = Ctx(u, k)'
    <3>1. CASE Moves(t, to)
      BY <2>2, <3>1, MovedOnly DEF Moves
    <3>2. CASE Comes(t, to)
      <4>1. /\ Depth(u)' = IF u = t THEN Depth(u) + 1 ELSE Depth(u)
            /\ \A j \in 0 .. Depth(u) : Ctx(u, j)' = Ctx(u, j)
        BY <3>2 DEF Comes
      <4>2. k \in 0 .. Depth(u)
        <5>1. CASE u = t /\ k = Depth(t) + 1
          <6>1. Ctx(t, Depth(t))' = to /\ Depth(t)' = Depth(t) + 1
            BY <3>2 DEF Comes
          <6>. QED
            BY <2>2, <5>1, <6>1 DEF Ctx, Depth
        <5>. QED
          BY <4>1, <5>1
      <4>. QED
        BY <4>1, <4>2
    <3>3. CASE Goes(t)
      <4>1. /\ Depth(u)' = IF u = t THEN Depth(u) - 1 ELSE Depth(u)
            /\ \A j \in 0 .. Depth(u) : j <= Depth(u)' => Ctx(u, j)' = Ctx(u, j)
        BY <3>3 DEF Goes
      <4>2. k \in 0 .. Depth(u) /\ k <= Depth(u)'
        BY <4>1
      <4>. QED
        BY <4>1, <4>2
    <3>. QED
      BY <2>2, <3>1, <3>2, <3>3
  <2>. QED
    BY <2>1, <2>3 DEF WrittenInv, ringVars
<1>3. ASSUME NEW t \in Task, Pop(t)
      PROVE  FALSE
  <2>1. t = Shell /\ Depth(t) = 0 /\ Point(t) \in Inside
    BY <1>3, PopIsShell DEF Inside
  <2>2. PICK to \in {"index", "count", "exit"} : Moves(t, to)
    BY <1>3, PopIsShell
  <2>3. k \in 0 .. Depth(u) /\ Ctx(u, k)' = Ctx(u, k)
    BY <2>1, <2>2, MovedOnly
  <2>. QED
    BY <2>1, <2>3, InsideOnly DEF Inside
<1>4. ASSUME NEW t \in Task, Push(t)
      PROVE  (kbd_buffer[(kbd_head + kbd_count) % KBD_BUFFER_SIZE] \in Key)'
  <2>1. PICK to \in {"index", "count", "notify"} : HandlerGoto(t, to) /\ Moves(t, to)
    BY <1>4, PushMoves
  <2>2. /\ Point(t) \in {"put", "index", "count"} /\ Point(t) \in Inside
        /\ Depth(t) \in Nat \ {0} /\ Knows(Point(t), Depth(t)) /\ kbd_head' = kbd_head
    BY <1>4, PushMoves DEF Inside, Push
  <2>3. u = t /\ k = Depth(t)
    <3>1. k \in 0 .. Depth(u) /\ ((u = t /\ k = Depth(t)) \/ Ctx(u, k)' = Ctx(u, k))
      BY <2>1, MovedOnly
    <3>. QED
      BY <2>2, <3>1, InsideOnly DEF Inside
  <2>4. Ctx(u, k)' = to /\ k \in 0 .. Depth(u) /\ Ctx(u, k) = Point(t)
    <3>1. k \in 0 .. Depth(u)
      BY <2>3
    <3>. QED
      BY <2>1, <2>3, <3>1, Stacks DEF Moves
  <2>5. CASE Point(t) = "put"
    <3>1. /\ kbd_buffer' = [kbd_buffer EXCEPT ![kbd_tail] = handlers[t][1].key]
          /\ UNCHANGED <<kbd_head, kbd_count>> /\ handlers[t] # <<>>
      BY <1>4, <2>5 DEF Push, HandlerAt, Point
    <3>2. handlers[t][1].key \in Key
      <4>1. handlers[t] \in Seq(Frame) /\ 1 \in 1 .. Len(handlers[t])
        BY <3>1, Stacks, EmptySeq
      <4>2. handlers[t][1] \in Frame
        BY <4>1, ElementOfSeq
      <4>. QED
        BY <4>2 DEF Frame
    <3>3. kbd_tail = (kbd_head + kbd_count) % KBD_BUFFER_SIZE
      <4>1. kbd_head + kbd_count + 0 = kbd_head + kbd_count
        BY KeyboardAssumption DEF TypeOK, Slot
      <4>. QED
        BY <2>2, <2>5, <4>1 DEF Knows, Ahead
    <3>. QED
      BY <3>1, <3>2, <3>3 DEF TypeOK
  <2>6. CASE Point(t) = "index"
    <3>1. UNCHANGED <<kbd_head, kbd_count, kbd_buffer>>
      BY <1>4, <2>6 DEF Push, HandlerAt, Point
    <3>. QED
      BY <2>4, <2>6, <3>1 DEF WrittenInv
  <2>7. CASE Point(t) = "count"
    <3>1. HandlerGoto(t, "notify") /\ handlers[t] # <<>>
      BY <1>4, <2>7 DEF Push, HandlerAt, Point
    <3>2. Moves(t, "notify")
      BY <3>1, HandlerMoves DEF HandlerPoint, Inside
    <3>3. Ctx(u, k)' = "notify"
      BY <2>3, <2>4, <3>2 DEF Moves
    <3>. QED
      BY <3>3
  <2>. QED
    BY <2>2, <2>5, <2>6, <2>7
<1>. QED
  BY <1>1, <1>2, <1>3, <1>4 DEF Next

-----------------------------------------------------------------------------
(* How long the channel is and where it begins. *)
Reading == pc[Shell] \in {"index", "count"}
Held    == IF Reading THEN kbd_count - 1 ELSE kbd_count
First   == IF pc[Shell] = "index" THEN kbd_head + 1 ELSE kbd_head

LEMMA KbdRingSlice ==
  ASSUME NEW b \in [Slot -> Key \cup {0}],
         NEW first \in 0 .. KBD_BUFFER_SIZE, NEW held \in 0 .. KBD_BUFFER_SIZE
  PROVE  LET s == [k \in 1 .. held |-> b[(first + k - 1) % KBD_BUFFER_SIZE]]
         IN  /\ s \in Seq(Key \cup {0}) /\ Len(s) = held
             /\ \A k \in 1 .. held : (first + k - 1) % KBD_BUFFER_SIZE \in Slot
<1>. DEFINE s == [k \in 1 .. held |-> b[(first + k - 1) % KBD_BUFFER_SIZE]]
<1>1. KBD_BUFFER_SIZE \in Nat \ {0}
  BY KeyboardAssumption
<1>2. \A k \in 1 .. held : (first + k - 1) % KBD_BUFFER_SIZE \in Slot
  BY <1>1 DEF Slot
<1>3. s \in [1 .. held -> Key \cup {0}]
  BY <1>2
<1>. HIDE DEF s
<1>4. s \in Seq(Key \cup {0}) /\ Len(s) = held
  BY <1>1, <1>3
<1>. QED
  BY <1>2, <1>4 DEF s

LEMMA ContentsIs ==
  Contents = [k \in 1 .. Held |-> kbd_buffer[(First + k - 1) % KBD_BUFFER_SIZE]]
BY DEF Contents, Held, First, Reading

LEMMA ContentsShape ==
  ASSUME KbdInv
  PROVE  /\ Held \in 0 .. KBD_BUFFER_SIZE /\ First \in 0 .. KBD_BUFFER_SIZE
         /\ \A k \in 1 .. Held : (First + k - 1) % KBD_BUFFER_SIZE \in Slot
         /\ Contents \in Seq(Key \cup {0}) /\ Len(Contents) = Held
<1>1. /\ kbd_count \in 0 .. KBD_BUFFER_SIZE /\ kbd_head \in 0 .. KBD_BUFFER_SIZE - 1
      /\ KBD_BUFFER_SIZE \in Nat \ {0} /\ kbd_buffer \in [Slot -> Key \cup {0}]
  BY KeyboardAssumption DEF KbdInv, TypeOK, Slot
<1>2. Reading => kbd_count > 0
  <2>1. Ctx(Shell, 0) = pc[Shell] /\ 0 \in 0 .. Depth(Shell)
    BY Tasks, Stacks DEF KbdInv
  <2>2. Reading => Knows(pc[Shell], 0)
    BY <2>1, Tasks DEF Reading, Inside, KbdInv, DataInv
  <2>. QED
    BY <2>2 DEF Reading, Knows
<1>3. Held \in 0 .. KBD_BUFFER_SIZE /\ First \in 0 .. KBD_BUFFER_SIZE
  BY <1>1, <1>2 DEF Held, First
<1>4. /\ Contents \in Seq(Key \cup {0}) /\ Len(Contents) = Held
      /\ \A k \in 1 .. Held : (First + k - 1) % KBD_BUFFER_SIZE \in Slot
  <2>. HIDE DEF Held, First
  <2>. QED
    BY <1>1, <1>3, ContentsIs, KbdRingSlice
<1>. QED
  BY <1>3, <1>4

LEMMA SameContents ==
  ASSUME Held' = Held,
         \A k \in 1 .. Held : kbd_buffer'[(First' + k - 1) % KBD_BUFFER_SIZE] =
                                kbd_buffer[(First + k - 1) % KBD_BUFFER_SIZE]
  PROVE  Contents' = Contents
<1>1. Contents' = [k \in 1 .. Held' |-> kbd_buffer'[(First' + k - 1) % KBD_BUFFER_SIZE]]
  BY DEF Contents, Held, First, Reading
<1>. QED
  BY <1>1, ContentsIs

(* Steps that neither read nor write. *)
LEMMA ChannelQuiet ==
  ASSUME KbdInv, UNCHANGED ringVars, NEW t \in Task,
         \/ pc' = pc
         \/ /\ pc[t] \notin {"index", "count"}
            /\ \E to \in (TaskPoint \cup HandlerPoint) \ {"index", "count"} : TaskGoto(t, to)
  PROVE  UNCHANGED Chan!vars
<1>1. pc'[Shell] = pc[Shell]
        \/ (pc[Shell] \notin {"index", "count"} /\ pc'[Shell] \notin {"index", "count"})
  BY Tasks DEF TaskGoto, KbdInv, TypeOK
<1>2. Held' = Held /\ First' = First
  BY <1>1 DEF Held, First, Reading, ringVars
<1>3. Contents' = Contents
  BY <1>2, SameContents DEF ringVars
<1>. QED
  BY <1>3 DEF Chan!vars, ringVars

(* getchar: c = kbd_buffer[kbd_head] is the receive; the steps of kbd_head and of
   kbd_count after it are seen by nobody. *)
LEMMA ChannelPop ==
  ASSUME KbdInv, Roles, NEW t \in Task, Pop(t)
  PROVE  Chan!Receive \/ UNCHANGED Chan!vars
<1>1. /\ t = Shell /\ pc[Shell] \in {"read", "index", "count"} /\ Knows(pc[Shell], 0)
      /\ UNCHANGED <<kbd_buffer, kbd_tail>>
  BY PopIsShell DEF Pop
<1>2. /\ kbd_head \in 0 .. KBD_BUFFER_SIZE - 1 /\ kbd_count \in 1 .. KBD_BUFFER_SIZE
      /\ KBD_BUFFER_SIZE \in Nat \ {0} /\ kbd_buffer \in [Slot -> Key \cup {0}]
      /\ pc \in [Task -> TaskPoint] /\ Shell \in Task
  BY <1>1, KeyboardAssumption, Tasks DEF KbdInv, TypeOK, Slot, Knows
<1>3. CASE TaskAt(t, "read")
  <2>1. /\ c' = kbd_buffer[kbd_head] /\ TaskGoto(t, "index") /\ pc[Shell] = "read"
        /\ UNCHANGED <<kbd_head, kbd_count>>
    BY <1>1, <1>3 DEF Pop, TaskAt
  <2>2. pc'[Shell] = "index"
    BY <1>1, <1>2, <2>1 DEF TaskGoto
  <2>3. /\ Held = kbd_count /\ First = kbd_head
        /\ Held' = kbd_count - 1 /\ First' = kbd_head + 1
    BY <2>1, <2>2 DEF Held, First, Reading
  <2>4. /\ Contents \in Seq(Key \cup {0}) /\ Len(Contents) = kbd_count
        /\ Contents = [k \in 1 .. kbd_count |->
                         kbd_buffer[(kbd_head + k - 1) % KBD_BUFFER_SIZE]]
    BY <2>3, ContentsShape, ContentsIs
  <2>5. Contents # <<>> /\ Head(Contents) = kbd_buffer[kbd_head]
    <3>1. Contents # <<>> /\ Head(Contents) = Contents[1]
      <4>1. Contents \in Seq(Key \cup {0}) /\ Len(Contents) # 0
        BY <1>2, <2>4
      <4>. QED
        BY <4>1, EmptySeq, HeadTailProperties
    <3>2. (kbd_head + 1 - 1) % KBD_BUFFER_SIZE = kbd_head
      BY <1>2, KbdRingStep
    <3>3. Contents[1] = kbd_buffer[(kbd_head + 1 - 1) % KBD_BUFFER_SIZE]
      BY <1>2, <2>4
    <3>. QED
      BY <3>1, <3>2, <3>3
  <2>6. Contents' = Tail(Contents)
    <3>1. /\ Contents' \in Seq(Key \cup {0}) /\ Len(Contents') = kbd_count - 1
          /\ Contents' = [k \in 1 .. kbd_count - 1 |->
                            kbd_buffer[(kbd_head + 1 + k - 1) % KBD_BUFFER_SIZE]]
      <4>1. Contents' = [k \in 1 .. Held' |->
                           kbd_buffer'[(First' + k - 1) % KBD_BUFFER_SIZE]]
        BY DEF Contents, Held, First, Reading
      <4>. HIDE DEF Held, First
      <4>2. Contents' = [k \in 1 .. kbd_count - 1 |->
                            kbd_buffer[(kbd_head + 1 + k - 1) % KBD_BUFFER_SIZE]]
        BY <1>1, <2>3, <4>1
      <4>3. kbd_head + 1 \in 0 .. KBD_BUFFER_SIZE /\ kbd_count - 1 \in 0 .. KBD_BUFFER_SIZE
        BY <1>2
      <4>. QED
        BY <1>2, <4>2, <4>3, KbdRingSlice, ZenonT(60)
    <3>2. /\ Tail(Contents) \in Seq(Key \cup {0}) /\ Len(Tail(Contents)) = kbd_count - 1
          /\ \A k \in 1 .. kbd_count - 1 : Tail(Contents)[k] = Contents[k + 1]
      <4>1. Contents \in Seq(Key \cup {0}) /\ Contents # <<>> /\ Len(Contents) = kbd_count
        BY <2>4, <2>5
      <4>. QED
        BY <4>1, HeadTailProperties
    <3>3. \A k \in 1 .. kbd_count - 1 : Contents'[k] = Tail(Contents)[k]
      <4>. TAKE k \in 1 .. kbd_count - 1
      <4>1. kbd_head + (k + 1) - 1 = kbd_head + 1 + k - 1 /\ k + 1 \in 1 .. kbd_count
        BY <1>2
      <4>2. Contents[k + 1] = kbd_buffer[(kbd_head + (k + 1) - 1) % KBD_BUFFER_SIZE]
        BY <2>4, <4>1
      <4>3. Contents'[k] = kbd_buffer[(kbd_head + 1 + k - 1) % KBD_BUFFER_SIZE]
        BY <3>1
      <4>. QED
        BY <3>2, <4>1, <4>2, <4>3
    <3>. QED
      BY <3>1, <3>2, <3>3, SeqEqual
  <2>7. [r \in {Shell} |-> c'] =
          [[r \in {Shell} |-> c] EXCEPT ![Shell] = Head(Contents)]
    BY <2>1, <2>5
  <2>. QED
    BY <2>5, <2>6, <2>7 DEF Chan!Receive
<1>4. CASE TaskAt(t, "index")
  <2>1. /\ kbd_head' = (kbd_head + 1) % KBD_BUFFER_SIZE /\ TaskGoto(t, "count")
        /\ UNCHANGED <<kbd_count, c>> /\ pc[Shell] = "index"
    BY <1>1, <1>4 DEF Pop, TaskAt
  <2>2. pc'[Shell] = "count"
    BY <1>1, <1>2, <2>1 DEF TaskGoto
  <2>3. /\ Held = kbd_count - 1 /\ First = kbd_head + 1
        /\ Held' = kbd_count - 1 /\ First' = (kbd_head + 1) % KBD_BUFFER_SIZE
    BY <2>1, <2>2 DEF Held, First, Reading
  <2>4. ASSUME NEW k \in 1 .. Held
        PROVE  kbd_buffer'[(First' + k - 1) % KBD_BUFFER_SIZE] =
                 kbd_buffer[(First + k - 1) % KBD_BUFFER_SIZE]
    <3>1. (((kbd_head + 1) % KBD_BUFFER_SIZE) + k - 1) % KBD_BUFFER_SIZE =
            (kbd_head + 1 + k - 1) % KBD_BUFFER_SIZE
      BY <1>2, <2>3, <2>4, KbdRingStep
    <3>. QED
      BY <1>1, <2>3, <3>1
  <2>5. Contents' = Contents
    BY <2>3, <2>4, SameContents
  <2>. QED
    BY <2>1, <2>5 DEF Chan!vars
<1>5. CASE TaskAt(t, "count")
  <2>1. /\ kbd_count' = kbd_count - 1 /\ TaskGoto(t, "exit")
        /\ UNCHANGED <<kbd_head, c>> /\ pc[Shell] = "count"
    BY <1>1, <1>5 DEF Pop, TaskAt
  <2>2. pc'[Shell] = "exit"
    BY <1>1, <1>2, <2>1 DEF TaskGoto
  <2>3. Held' = Held /\ First' = First
    BY <2>1, <2>2 DEF Held, First, Reading
  <2>4. Contents' = Contents
    BY <1>1, <2>3, SameContents
  <2>. QED
    BY <2>1, <2>4 DEF Chan!vars
<1>. QED
  BY <1>3, <1>4, <1>5 DEF Pop

(* keyboard_callback: kbd_count++ is the send; kbd_buffer[kbd_tail] = key writes a
   slot that is not in the channel, because the callback has found room. *)
LEMMA ChannelPush ==
  ASSUME KbdInv, WrittenInv, NEW t \in Task, Push(t)
  PROVE  Chan!Send \/ UNCHANGED Chan!vars
<1>1. /\ Depth(t) \in Nat \ {0} /\ Point(t) \in {"put", "index", "count"}
      /\ Knows(Point(t), Depth(t)) /\ pc[Shell] \notin Inside /\ pc' = pc
      /\ UNCHANGED <<kbd_head, c>>
  BY PushMoves DEF Push
<1>2. /\ kbd_head \in 0 .. KBD_BUFFER_SIZE - 1 /\ kbd_count \in 0 .. KBD_BUFFER_SIZE - 1
      /\ KBD_BUFFER_SIZE \in Nat \ {0} /\ kbd_buffer \in [Slot -> Key \cup {0}]
  BY <1>1, KeyboardAssumption DEF KbdInv, TypeOK, Slot, Knows
<1>3. ~Reading /\ ~Reading' /\ Held = kbd_count /\ First = kbd_head
      /\ Held' = kbd_count' /\ First' = kbd_head
  BY <1>1 DEF Held, First, Reading, Inside
<1>4. CASE HandlerAt(t, "put")
  <2>1. /\ kbd_buffer' = [kbd_buffer EXCEPT ![kbd_tail] = handlers[t][1].key]
        /\ UNCHANGED <<kbd_tail, kbd_count>> /\ Point(t) = "put"
    BY <1>4 DEF Push, HandlerAt, Point
  <2>2. kbd_tail = (kbd_head + kbd_count) % KBD_BUFFER_SIZE
    <3>1. kbd_head + kbd_count + 0 = kbd_head + kbd_count
      BY <1>2
    <3>. QED
      BY <1>1, <2>1, <3>1 DEF Knows, Ahead
  <2>3. ASSUME NEW k \in 1 .. Held
        PROVE  kbd_buffer'[(First' + k - 1) % KBD_BUFFER_SIZE] =
                 kbd_buffer[(First + k - 1) % KBD_BUFFER_SIZE]
    <3>1. (First + k - 1) % KBD_BUFFER_SIZE # kbd_tail
      BY <1>2, <1>3, <2>2, <2>3, KbdRingStep
    <3>2. (First + k - 1) % KBD_BUFFER_SIZE \in Slot
      BY <2>3, ContentsShape
    <3>. QED
      BY <1>2, <1>3, <2>1, <3>1, <3>2
  <2>4. Contents' = Contents
    BY <1>3, <2>1, <2>3, SameContents
  <2>. QED
    BY <1>1, <2>4 DEF Chan!vars
<1>5. CASE HandlerAt(t, "index")
  <2>1. UNCHANGED <<kbd_buffer, kbd_count>>
    BY <1>5 DEF Push, HandlerAt
  <2>2. Contents' = Contents
    BY <1>3, <2>1, SameContents
  <2>. QED
    BY <1>1, <2>2 DEF Chan!vars
<1>6. CASE HandlerAt(t, "count")
  <2>1. kbd_count' = kbd_count + 1 /\ kbd_buffer' = kbd_buffer /\ Point(t) = "count"
    BY <1>6 DEF Push, HandlerAt, Point
  <2>. DEFINE x == kbd_buffer[(kbd_head + kbd_count) % KBD_BUFFER_SIZE]
  <2>2. x \in Key
    <3>1. PICK d \in 0 .. Depth(t) : d = Depth(t) /\ Ctx(t, d) = Point(t)
      BY Stacks DEF KbdInv
    <3>. QED
      BY <1>1, <2>1, <3>1 DEF WrittenInv
  <2>3. /\ Contents \in Seq(Key \cup {0}) /\ Len(Contents) = kbd_count
        /\ Contents = [k \in 1 .. kbd_count |->
                         kbd_buffer[(kbd_head + k - 1) % KBD_BUFFER_SIZE]]
    BY <1>3, ContentsShape, ContentsIs
  <2>4. /\ Contents' = [k \in 1 .. kbd_count + 1 |->
                          kbd_buffer[(kbd_head + k - 1) % KBD_BUFFER_SIZE]]
        /\ Contents' \in Seq(Key \cup {0}) /\ Len(Contents') = kbd_count + 1
    <3>1. Contents' = [k \in 1 .. Held' |->
                         kbd_buffer'[(First' + k - 1) % KBD_BUFFER_SIZE]]
      BY DEF Contents, Held, First, Reading
    <3>. HIDE DEF Held, First
    <3>2. Contents' = [k \in 1 .. kbd_count + 1 |->
                         kbd_buffer[(kbd_head + k - 1) % KBD_BUFFER_SIZE]]
      BY <1>3, <2>1, <3>1
    <3>3. kbd_count + 1 \in 0 .. KBD_BUFFER_SIZE /\ kbd_head \in 0 .. KBD_BUFFER_SIZE
      BY <1>2
    <3>. QED
      BY <1>2, <3>2, <3>3, KbdRingSlice, ZenonT(60)
  <2>. HIDE DEF x
  <2>5. /\ Append(Contents, x) \in Seq(Key \cup {0})
        /\ Len(Append(Contents, x)) = kbd_count + 1
        /\ Append(Contents, x)[kbd_count + 1] = x
        /\ \A k \in 1 .. kbd_count : Append(Contents, x)[k] = Contents[k]
    <3>1. Contents \in Seq(Key \cup {0}) /\ x \in Key \cup {0} /\ Len(Contents) = kbd_count
      BY <2>2, <2>3
    <3>. QED
      BY <3>1, AppendProperties
  <2>6. \A k \in 1 .. kbd_count + 1 : Contents'[k] = Append(Contents, x)[k]
    <3>1. ASSUME NEW k \in 1 .. kbd_count
          PROVE  Contents'[k] = Append(Contents, x)[k]
      <4>1. Contents[k] = kbd_buffer[(kbd_head + k - 1) % KBD_BUFFER_SIZE]
        BY <2>3
      <4>2. Contents'[k] = kbd_buffer[(kbd_head + k - 1) % KBD_BUFFER_SIZE]
        BY <1>2, <2>4
      <4>. QED
        BY <2>5, <4>1, <4>2
    <3>2. Contents'[kbd_count + 1] = x
      <4>1. kbd_head + (kbd_count + 1) - 1 = kbd_head + kbd_count
        BY <1>2
      <4>2. Contents'[kbd_count + 1] =
              kbd_buffer[(kbd_head + (kbd_count + 1) - 1) % KBD_BUFFER_SIZE]
        BY <1>2, <2>4
      <4>. QED
        BY <4>1, <4>2 DEF x
    <3>. QED
      BY <1>2, <2>5, <3>1, <3>2
  <2>7. Contents' = Append(Contents, x)
    BY <2>4, <2>5, <2>6, SeqEqual
  <2>8. Len(Contents) < KBD_BUFFER_SIZE
    BY <1>2, <2>3
  <2>. QED
    BY <1>1, <2>2, <2>7, <2>8 DEF Chan!Send
<1>. QED
  BY <1>4, <1>5, <1>6 DEF Push

LEMMA ChannelNext ==
  KbdInv /\ Roles /\ WrittenInv /\ [Next]_vars => [Chan!Next]_(Chan!vars)
<1>. SUFFICES ASSUME KbdInv, Roles, WrittenInv, [Next]_vars
              PROVE  Chan!Next \/ UNCHANGED Chan!vars
  OBVIOUS
<1>1. CASE TimerIrq \/ UNCHANGED vars
  <2>1. UNCHANGED ringVars /\ pc' = pc
    BY <1>1 DEF TimerIrq, vars
  <2>. QED
    BY <2>1, ChannelQuiet, Tasks
<1>2. ASSUME NEW t \in Task, Step(t) \/ KeyIrq(t), ~Pop(t), ~Push(t)
      PROVE  UNCHANGED Chan!vars
  <2>1. UNCHANGED ringVars
    BY <1>2, QuietMoves
  <2>2. \/ pc' = pc
        \/ /\ pc[t] \notin {"index", "count"}
           /\ \E to \in (TaskPoint \cup HandlerPoint) \ {"index", "count"} : TaskGoto(t, to)
    BY <1>2, QuietMoves
  <2>. QED
    BY <2>1, <2>2, ChannelQuiet
<1>3. ASSUME NEW t \in Task, Pop(t) PROVE Chan!Next \/ UNCHANGED Chan!vars
  BY <1>3, ChannelPop DEF Chan!Next
<1>4. ASSUME NEW t \in Task, Push(t) PROVE Chan!Next \/ UNCHANGED Chan!vars
  BY <1>4, ChannelPush DEF Chan!Next
<1>. QED
  BY <1>1, <1>2, <1>3, <1>4 DEF Next

(* keyboard.c: kbd_buffer is a FIFO channel for every size of it, however the
   callbacks pile up and whoever yields out of them: a key that was put in is
   returned by getchar once, in the order of the puts, and a full buffer drops the
   new key only. *)
THEOREM KeyboardIsAChannel == Spec => ImplementsChannel
<1>1. Init => Chan!Init
  <2>. SUFFICES ASSUME Init PROVE Chan!Init
    OBVIOUS
  <2>1. KbdInv /\ c = 0 /\ Held = 0
    BY KbdInvInit, Tasks DEF Init, Held, Reading
  <2>2. Contents = <<>>
    BY <2>1, ContentsShape, EmptySeq
  <2>. QED
    BY <2>1, <2>2 DEF Chan!Init
<1>2. Init => Roles /\ WrittenInv
  BY DEF Init, Roles, WrittenInv, Depth
<1>3. KbdInv => TypeOK
  BY DEF KbdInv
<1>. QED
  BY KbdInvInit, KbdInvNext, RolesNext, WrittenInvNext, ChannelNext, <1>1, <1>2, <1>3, PTL
     DEF Spec, ImplementsChannel, Chan!Spec
-----------------------------------------------------------------------------
(* The shell is told of every key, as long as nobody queues twice.  Who waits for
   the lock, and who for NotEmpty.  As in MonitorProofs the queues hold BLOCKED
   tasks, and a BLOCKED task is in one of them; but a task may have the CPU and
   be BLOCKED, between the unlock and the yield of cond_wait. *)
Queues(t) == \E m \in Mutex : t \in MutexQueue(m)
Waits(t)  == \E d \in Cond : t \in CondQueue(d)

KbdQueues ==
  /\ QueuesApart
  /\ \A d \in Cond : \A t \in CondQueue(d) : d = NotEmpty
  /\ \A t \in Task : Queues(t) => state[t] = "BLOCKED" /\ Point(t) = "retry"
  /\ \A t \in Task : Waits(t) => /\ t = Shell /\ state[t] = "BLOCKED"
                                 /\ pc[t] \in {"yield", "relock"}
  /\ \A t \in Task : state[t] = "BLOCKED" => Queues(t) \/ Waits(t)

(* kmain's task calls nothing: it is BLOCKED by the callbacks on its stack only. *)
IdleInv == pc[Idle] = "hlt" /\ state[Idle] # "SLEEPING"

(* The shell waits and has the CPU: in the gap of cond_wait, alone or below one
   callback, which found the lock free and cannot be interrupted by a key. *)
GapInv ==
  running = Shell /\ Waits(Shell) =>
    /\ pc[Shell] = "yield"
    /\ \E u \in Task : Runnable(state, u)
    /\ handlers[Shell] = <<>> => ~locked[Kbd]
    /\ handlers[Shell] # <<>> =>
         inService /\ Point(Shell) \in {"check", "put", "index", "count", "notify"}

(* While the shell waits beside a key, somebody is about to signal. *)
NewsInv ==
  Waits(Shell) /\ kbd_count > 0 =>
    \E t \in Task : \E k \in 0 .. Depth(t) : Ctx(t, k) = "notify"

ToldInv == KbdQueues /\ IdleInv /\ GapInv /\ NewsInv

(* A step of t is a step of the task on the CPU and moves no other. *)
Stays(t) == \A u \in Task \ {t} : pc'[u] = pc[u] /\ handlers'[u] = handlers[u]

LEMMA StaysPoint ==
  ASSUME NEW t \in Task, Stays(t)
  PROVE  \A u \in Task \ {t} : Point(u)' = Point(u)
BY DEF Stays, Point

LEMMA PointNext ==
  ASSUME TypeOK', NEW t \in Task
  PROVE  Point(t)' = Ctx(t, Depth(t))'
<1>1. handlers'[t] \in Seq(Frame)
  BY DEF TypeOK, Frame
<1>2. Len(handlers'[t]) \in Nat /\ (handlers'[t] = <<>> <=> Len(handlers'[t]) = 0)
  BY <1>1, EmptySeq
<1>. QED
  BY <1>2 DEF Point, Ctx, Depth

LEMMA StepOwn ==
  ASSUME TypeOK, NEW t \in Task, Step(t) \/ KeyIrq(t)
  PROVE  running = t /\ Stays(t)
<1>1. CASE TaskStep(t)
  <2>1. running = t
    BY <1>1 DEF TaskStep, Sleep, SetSleeping, YieldAsleep, Lock, CheckEmpty, YieldInWait,
                Pop, Exit, TaskAt
  <2>2. PICK to \in TaskPoint : TaskGoto(t, to)
    BY <1>1 DEF TaskStep, Sleep, SetSleeping, YieldAsleep, Lock, CheckEmpty, YieldInWait,
                Pop, Exit, TaskPoint, Inside
  <2>. QED
    BY <2>1, <2>2 DEF TaskGoto, Stays, TypeOK
<1>2. CASE HandlerStep(t)
  <2>1. running = t
    BY <1>2 DEF HandlerStep, HandlerRetry, CheckFull, Push, NotifyShell, HandlerExit, Echo,
                Return, HandlerAt
  <2>2. pc' = pc /\ \E r : handlers' = [handlers EXCEPT ![t] = r]
    <3>1. CASE Return(t)
      BY <3>1 DEF Return
    <3>2. CASE ~Return(t)
      <4>1. \E to : HandlerGoto(t, to)
        BY <1>2, <3>2 DEF HandlerStep, HandlerRetry, CheckFull, Push, NotifyShell,
                          HandlerExit, Echo
      <4>. QED
        BY <4>1 DEF HandlerGoto
    <3>. QED
      BY <3>1, <3>2
  <2>. QED
    BY <2>1, <2>2 DEF Stays, TypeOK
<1>3. CASE KeyIrq(t)
  BY <1>3 DEF KeyIrq, Stays, TypeOK
<1>. QED
  BY <1>1, <1>2, <1>3 DEF Step

LEMMA IdleStays == TypeOK /\ IdleInv /\ [Next]_vars => pc'[Idle] = "hlt"
<1>. SUFFICES ASSUME TypeOK, IdleInv, [Next]_vars PROVE pc'[Idle] = "hlt"
  OBVIOUS
<1>1. ASSUME NEW t \in Task, TaskStep(t) PROVE t # Idle
  BY <1>1 DEF TaskStep, Sleep, SetSleeping, YieldAsleep, Lock, CheckEmpty, YieldInWait,
              Pop, Exit, TaskAt, IdleInv
<1>2. ASSUME NEW t \in Task, HandlerStep(t) \/ KeyIrq(t) PROVE pc' = pc
  BY <1>2 DEF HandlerStep, HandlerRetry, CheckFull, Push, NotifyShell, HandlerExit, Echo,
              Return, KeyIrq, HandlerGoto
<1>3. ASSUME NEW t \in Task, TaskStep(t) PROVE pc'[Idle] = pc[Idle]
  BY <1>1, <1>3, StepOwn, Tasks DEF Step, Stays
<1>. QED
  BY <1>2, <1>3 DEF Next, Step, TimerIrq, vars, IdleInv

(* Whoever has the CPU queues for nothing, and waits only in the gap. *)
LEMMA RunnerOut ==
  ASSUME TypeOK, KbdQueues, NobodyQueuesTwice
  PROVE  ~Queues(running)
<1>1. running \in Task /\ Mutex = {Kbd}
  BY KeyboardAssumption DEF TypeOK, SchedTypeOK
<1>. QED
  BY <1>1 DEF KbdQueues, NobodyQueuesTwice, Queues

LEMMA RunnerWaits ==
  ASSUME TypeOK, KbdQueues, GapInv, Waits(running)
  PROVE  /\ running = Shell /\ pc[running] = "yield" /\ state[running] = "BLOCKED"
         /\ \E u \in Task : Runnable(state, u)
         /\ handlers[running] = <<>> => ~locked[Kbd]
         /\ handlers[running] # <<>> =>
              inService /\ Point(running) \in {"check", "put", "index", "count", "notify"}
<1>1. running \in Task
  BY DEF TypeOK, SchedTypeOK
<1>. QED
  BY <1>1 DEF KbdQueues, GapInv

LEMMA SameQueues ==
  ASSUME QueuesApart, UNCHANGED <<mutexWaiters, condWaiters, waitNext>>
  PROVE  /\ QueuesApart'
         /\ \A d \in Cond : CondQueue(d)' = CondQueue(d)
         /\ \A t \in Task : Queues(t)' = Queues(t) /\ Waits(t)' = Waits(t)
<1>1. /\ \A m \in Mutex : MutexQueue(m)' = MutexQueue(m)
      /\ \A d \in Cond : CondQueue(d)' = CondQueue(d)
  BY DEF MutexQueue, CondQueue
<1>2. QueuesApart'
  BY <1>1 DEF QueuesApart
<1>. QED
  BY <1>1, <1>2 DEF Queues, Waits

(* Steps that leave the queues, and who is BLOCKED, alone. *)
LEMMA KbdQueuesKept ==
  ASSUME TypeOK, KbdQueues, NobodyQueuesTwice, Stays(running),
         UNCHANGED <<mutexWaiters, condWaiters, waitNext>>,
         \A u \in Task : state'[u] = "BLOCKED" <=> state[u] = "BLOCKED",
         Waits(running) => pc'[running] \in {"yield", "relock"}
  PROVE  KbdQueues'
<1>. running \in Task
  BY DEF TypeOK, SchedTypeOK
<1>1. /\ QueuesApart' /\ \A d \in Cond : CondQueue(d)' = CondQueue(d)
      /\ \A t \in Task : Queues(t)' = Queues(t) /\ Waits(t)' = Waits(t)
  BY SameQueues DEF KbdQueues
<1>2. ~Queues(running)
  BY RunnerOut
<1>3. \A u \in Task \ {running} : Point(u)' = Point(u) /\ pc'[u] = pc[u]
  BY StaysPoint DEF Stays
<1>4. ASSUME NEW t \in Task, Queues(t)'
      PROVE  state'[t] = "BLOCKED" /\ Point(t)' = "retry"
  BY <1>1, <1>2, <1>3, <1>4 DEF KbdQueues
<1>5. ASSUME NEW t \in Task, Waits(t)'
      PROVE  t = Shell /\ state'[t] = "BLOCKED" /\ pc'[t] \in {"yield", "relock"}
  BY <1>1, <1>3, <1>5 DEF KbdQueues
<1>6. ASSUME NEW t \in Task, state'[t] = "BLOCKED" PROVE Queues(t)' \/ Waits(t)'
  BY <1>1, <1>6 DEF KbdQueues
<1>7. \A d \in Cond : \A t \in CondQueue(d)' : d = NotEmpty
  BY <1>1 DEF KbdQueues
<1>. QED
  BY <1>1, <1>4, <1>5, <1>6, <1>7 DEF KbdQueues, NotEmpty, Shell

LEMMA NewsKept ==
  ASSUME TypeOK, NewsInv, kbd_count' = kbd_count, Waits(Shell)' => Waits(Shell),
         NEW t \in Task, NEW to,
         \/ Comes(t, to)
         \/ Point(t) # "notify" /\ (Moves(t, to) \/ Goes(t))
  PROVE  NewsInv'
<1>. SUFFICES ASSUME Waits(Shell)', kbd_count' > 0
              PROVE  \E u \in Task : \E k \in (0 .. Depth(u))' : Ctx(u, k)' = "notify"
  BY DEF NewsInv
<1>1. PICK u \in Task : \E k \in 0 .. Depth(u) : Ctx(u, k) = "notify"
  BY DEF NewsInv
<1>2. PICK k \in 0 .. Depth(u) : Ctx(u, k) = "notify"
  BY <1>1
<1>3. Point(t) = Ctx(t, Depth(t)) /\ Depth(u) \in Nat /\ Depth(t) \in Nat
  BY Stacks, Depths
<1>4. Point(t) # "notify" => ~(u = t /\ k = Depth(t))
  BY <1>2, <1>3
<1>5. k \in (0 .. Depth(u))' /\ Ctx(u, k)' = Ctx(u, k)
  <2>1. CASE Moves(t, to) /\ Point(t) # "notify"
    BY <1>4, <2>1 DEF Moves
  <2>2. CASE Comes(t, to)
    <3>1. Depth(u)' = IF u = t THEN Depth(u) + 1 ELSE Depth(u)
      BY <2>2 DEF Comes
    <3>. QED
      BY <1>3, <2>2, <3>1 DEF Comes
  <2>3. CASE Goes(t) /\ Point(t) # "notify"
    <3>1. Depth(u)' = IF u = t THEN Depth(u) - 1 ELSE Depth(u)
      BY <2>3 DEF Goes
    <3>2. k <= Depth(u)'
      BY <1>3, <1>4, <2>3, <3>1
    <3>. QED
      BY <1>3, <2>3, <3>1, <3>2 DEF Goes
  <2>. QED
    BY <2>1, <2>2, <2>3
<1>. QED
  BY <1>2, <1>5

(* When the context inside is not about to signal, nobody is. *)
LEMMA NoNews ==
  ASSUME KbdInv, NewsInv, NEW t \in Task, Point(t) \in Inside \ {"notify"}, Waits(Shell)
  PROVE  kbd_count = 0
<1>1. ASSUME NEW u \in Task, NEW k \in 0 .. Depth(u), Ctx(u, k) = "notify"
      PROVE  FALSE
  <2>1. u = t /\ k = Depth(t)
    BY <1>1, InsideOnly DEF Inside
  <2>. QED
    BY <1>1, <2>1, Stacks DEF KbdInv
<1>. QED
  BY <1>1 DEF NewsInv, KbdInv, TypeOK

-----------------------------------------------------------------------------
(* The timer, and the yields but mutex_lock's: nobody who waits gets the CPU. *)
LEMMA ToldTimer ==
  ASSUME KbdInv, Roles, ToldInv, NobodyQueuesTwice,
         NEW t \in Task, TimerIrq \/ YieldAsleep(t) \/ YieldInWait(t)
  PROVE  ToldInv'
<1>1. TypeOK /\ SchedTypeOK /\ KbdQueues /\ IdleInv /\ GapInv /\ NewsInv
  BY DEF KbdInv, TypeOK, ToldInv
<1>2. timer_callback(state) /\ UNCHANGED <<syncVars, ringVars>>
  BY DEF TimerIrq, YieldAsleep, YieldInWait, Yield
<1>3. state \in [Task -> TaskState] /\ running \in Task /\ running' \in Task
  BY <1>1, <1>2, TimerType DEF SchedTypeOK
<1>4. state[running'] # "BLOCKED"
  <2>. SUFFICES ASSUME state[running'] = "BLOCKED" PROVE FALSE
    OBVIOUS
  <2>1. running' = running /\ \A u \in Task : ~Runnable(state, u)
    BY <1>1, <1>2, <1>3, TimerResumes
  <2>2. Waits(running)
    BY <1>1, <1>3, <2>1, RunnerOut DEF KbdQueues
  <2>. QED
    BY <1>1, <2>1, <2>2, RunnerWaits
<1>5. \A u \in Task : state'[u] = "BLOCKED" <=> state[u] = "BLOCKED"
  BY <1>1, <1>2, <1>3, <1>4, TimerBlocks
<1>6. UNCHANGED <<mutexWaiters, condWaiters, waitNext>>
  BY <1>2 DEF syncVars
<1>7. \/ UNCHANGED <<pc, handlers>>
      \/ /\ running = t /\ handlers[t] = <<>> /\ pc[t] \in {"asleep", "yield"}
         /\ \E to \in {"sleep", "relock"} : TaskGoto(t, to) /\ (pc[t] = "yield" => to = "relock")
  BY DEF TimerIrq, YieldAsleep, YieldInWait, TaskAt
<1>8. KbdQueues'
  <2>1. Stays(running)
    BY <1>1, <1>7 DEF Stays, TaskGoto, TypeOK
  <2>2. Waits(running) => pc'[running] \in {"yield", "relock"}
    BY <1>1, <1>7, RunnerWaits DEF TaskGoto, TypeOK
  <2>. QED
    BY <1>1, <1>5, <1>6, <2>1, <2>2, KbdQueuesKept
<1>9. IdleInv'
  <2>1. state'[Idle] # "SLEEPING"
    BY <1>1, <1>2, <1>3, Tasks, TimerBlocks DEF IdleInv
  <2>2. [Next]_vars
    BY DEF Next, Step, TaskStep
  <2>. QED
    BY <1>1, <2>1, <2>2, IdleStays DEF IdleInv, Idle
<1>10. \A u \in Task : Waits(u)' = Waits(u)
  BY <1>1, <1>6, SameQueues DEF KbdQueues
<1>11. GapInv'
  <2>1. Waits(Shell)' => state[Shell] = "BLOCKED"
    BY <1>1, <1>10, Tasks DEF KbdQueues
  <2>2. ~(running' = Shell /\ Waits(Shell)')
    BY <1>4, <2>1
  <2>. QED
    BY <2>2 DEF GapInv, Shell
<1>12. NewsInv'
  <2>1. UNCHANGED <<pc, handlers>> \/ \E to : Moves(t, to) /\ Point(t) # "notify"
    <3>1. ASSUME NEW to \in {"sleep", "relock"}, TaskGoto(t, to), handlers[t] = <<>>
          PROVE  Moves(t, to)
      BY <1>1, <3>1, TaskMoves DEF TaskPoint
    <3>. QED
      BY <1>7, <3>1 DEF Point
  <2>2. kbd_count' = kbd_count /\ (Waits(Shell)' => Waits(Shell))
    BY <1>2, <1>10, Tasks DEF ringVars
  <2>3. CASE UNCHANGED <<pc, handlers>>
    BY <1>1, <2>2, <2>3 DEF NewsInv, Ctx, Depth
  <2>4. CASE \E to : Moves(t, to) /\ Point(t) # "notify"
    BY <1>1, <2>2, <2>4, NewsKept
  <2>. QED
    BY <2>1, <2>3, <2>4
<1>. QED
  BY <1>8, <1>9, <1>11, <1>12 DEF ToldInv

(* mutex_lock, the lock being taken, in getchar and in callbacks, old and new. *)
LEMMA ToldQueue ==
  ASSUME KbdInv, Roles, ToldInv, NobodyQueuesTwice, NobodyQueuesTwice',
         NEW t \in Task, Lock(t) \/ HandlerRetry(t) \/ KeyIrq(t), MutexWait(t, Kbd)
  PROVE  ToldInv'
<1>1. /\ TypeOK /\ SchedTypeOK /\ SyncTypeOK /\ KbdQueues /\ IdleInv /\ GapInv /\ NewsInv
      /\ locked[Kbd] /\ Kbd \in Mutex
  BY Tasks DEF KbdInv, TypeOK, ToldInv, MutexWait
<1>2. running = t /\ Stays(t) /\ [Next]_vars
  BY <1>1, StepOwn DEF Step, TaskStep, HandlerStep, Next
<1>3. Unqueued(t)
  <2>1. ~Waits(t)
    <3>. SUFFICES ASSUME Waits(t) PROVE FALSE
      OBVIOUS
    <3>1. CASE Lock(t)
      BY <1>1, <1>2, <3>1, RunnerWaits DEF Lock, TaskAt
    <3>2. CASE HandlerRetry(t)
      BY <1>1, <1>2, <3>2, RunnerWaits DEF HandlerRetry, HandlerAt, Point
    <3>3. CASE KeyIrq(t)
      BY <1>1, <1>2, <3>3, RunnerWaits DEF KeyIrq
    <3>. QED
      BY <3>1, <3>2, <3>3
  <2>. QED
    BY <1>1, <1>2, <2>1, RunnerOut DEF Unqueued, Queues, Waits
<1>4. /\ QueuesApart'
      /\ \A d \in Cond : CondQueue(d)' = CondQueue(d)
      /\ \A u \in Task : /\ Queues(u)' = (Queues(u) \/ u = t)
                         /\ Waits(u)' = Waits(u)
  <2>1. /\ QueuesApart'
        /\ MutexQueue(Kbd)' = MutexQueue(Kbd) \cup {t}
        /\ \A n \in Mutex \ {Kbd} : MutexQueue(n)' = MutexQueue(n)
        /\ \A d \in Cond : CondQueue(d)' = CondQueue(d)
    BY <1>1, <1>3, MutexWaitLinks DEF KbdQueues
  <2>2. ASSUME NEW u \in Task PROVE Queues(u)' <=> Queues(u) \/ u = t
    BY <1>1, <2>1 DEF Queues
  <2>3. ASSUME NEW u \in Task PROVE Waits(u)' <=> Waits(u)
    BY <2>1 DEF Waits
  <2>. QED
    BY <2>1, <2>2, <2>3 DEF Queues, Waits
<1>5. /\ Point(t)' = "retry"
      /\ \E to : Comes(t, to) \/ (Point(t) # "notify" /\ Moves(t, to))
  <2>1. CASE Lock(t)
    <3>1. handlers[t] = <<>> /\ TaskGoto(t, "retry") /\ "retry" \in TaskPoint
      BY <1>1, <2>1 DEF Lock, TaskAt, TaskPoint
    <3>2. Moves(t, "retry")
      BY <1>1, <3>1, TaskMoves
    <3>3. Point(t)' = "retry"
      BY <1>1, <3>1 DEF TaskGoto, Point, TypeOK
    <3>4. Point(t) # "notify"
      BY <2>1 DEF Lock, TaskAt, Point
    <3>. QED
      BY <3>2, <3>3, <3>4
  <2>2. CASE HandlerRetry(t)
    <3>1. handlers[t] # <<>> /\ HandlerGoto(t, "retry") /\ "retry" \in HandlerPoint
      BY <1>1, <2>2 DEF HandlerRetry, HandlerAt, HandlerPoint
    <3>2. Moves(t, "retry") /\ StackTypeOK'
      BY <1>1, <3>1, HandlerMoves
    <3>3. PICK d \in 0 .. Depth(t) : d = Depth(t) /\ Ctx(t, d)' = "retry"
      BY <1>1, <3>2, MovedOnly
    <3>4. Depth(t)' = Depth(t)
      BY <1>1, <3>2, MovedOnly
    <3>5. TypeOK'
      BY <2>2, KbdInvLock DEF KbdInv
    <3>6. Point(t)' = Ctx(t, Depth(t))'
      BY <3>5, PointNext
    <3>7. Point(t)' = "retry"
      BY <3>3, <3>4, <3>6 DEF Ctx, Depth
    <3>8. Point(t) # "notify"
      BY <2>2 DEF HandlerRetry, HandlerAt, Point
    <3>. QED
      BY <3>2, <3>7, <3>8
  <2>3. CASE KeyIrq(t)
    <3>1. Comes(t, "retry")
      BY <1>1, <2>3, CallbackComes DEF KeyIrq, HandlerPoint
    <3>2. TypeOK'
      BY <2>3, KbdInvLock DEF KbdInv
    <3>3. Point(t)' = Ctx(t, Depth(t))'
      BY <3>2, PointNext
    <3>4. Point(t)' = "retry"
      BY <3>1, <3>3 DEF Comes
    <3>. QED
      BY <3>1, <3>4
  <2>. QED
    BY <2>1, <2>2, <2>3
<1>. DEFINE st == [state EXCEPT ![t] = "BLOCKED"]
<1>6. st \in [Task -> TaskState] /\ timer_callback(st) /\ running' \in Task
  <2>1. st \in [Task -> TaskState] /\ timer_callback(st)
    BY <1>1 DEF SchedTypeOK, TaskState, MutexWait
  <2>. QED
    BY <1>1, <2>1, TimerType DEF SchedTypeOK
<1>7. \A u \in Task : st[u] = IF u = t THEN "BLOCKED" ELSE state[u]
  BY <1>1 DEF SchedTypeOK
<1>. HIDE DEF st
<1>8. st[running'] # "BLOCKED"
  <2>. SUFFICES ASSUME st[running'] = "BLOCKED" PROVE FALSE
    OBVIOUS
  <2>1. running' = t
    BY <1>1, <1>2, <1>6, TimerResumes
  <2>2. t \in MutexQueue(Kbd)'
    <3>1. Queues(t)' /\ Mutex = {Kbd}
      BY <1>4, KeyboardAssumption
    <3>. QED
      BY <3>1 DEF Queues
  <2>. QED
    BY <1>5, <2>1, <2>2 DEF NobodyQueuesTwice, Point
<1>9. \A u \in Task : state'[u] = "BLOCKED" <=> u = t \/ state[u] = "BLOCKED"
  BY <1>1, <1>6, <1>7, <1>8, TimerBlocks
<1>10. KbdQueues'
  <2>1. ASSUME NEW u \in Task, Queues(u)'
        PROVE  state'[u] = "BLOCKED" /\ Point(u)' = "retry"
    <3>1. CASE u = t
      BY <1>5, <1>9, <3>1 DEF Point
    <3>2. CASE u # t
      BY <1>1, <1>2, <1>4, <1>9, <2>1, <3>2, StaysPoint DEF KbdQueues
    <3>. QED
      BY <3>1, <3>2
  <2>2. ASSUME NEW u \in Task, Waits(u)'
        PROVE  u = Shell /\ state'[u] = "BLOCKED" /\ pc'[u] \in {"yield", "relock"}
    <3>1. Waits(u) /\ u # t
      BY <1>3, <1>4, <2>2 DEF Unqueued, Waits
    <3>. QED
      BY <1>1, <1>2, <1>9, <3>1 DEF KbdQueues, Stays
  <2>3. ASSUME NEW u \in Task, state'[u] = "BLOCKED" PROVE Queues(u)' \/ Waits(u)'
    BY <1>1, <1>4, <1>9, <2>3 DEF KbdQueues
  <2>4. \A d \in Cond : \A u \in CondQueue(d)' : d = NotEmpty
    BY <1>1, <1>4 DEF KbdQueues
  <2>. QED
    BY <1>4, <2>1, <2>2, <2>3, <2>4 DEF KbdQueues, NotEmpty, Shell
<1>11. IdleInv'
  <2>1. state'[Idle] # "SLEEPING"
    <3>1. st[Idle] # "SLEEPING"
      BY <1>1, <1>7, Tasks DEF IdleInv
    <3>. QED
      BY <1>1, <1>6, <3>1, Tasks, TimerBlocks
  <2>. QED
    BY <1>1, <1>2, <2>1, IdleStays DEF IdleInv, Idle
<1>12. GapInv'
  <2>1. Waits(Shell)' => state[Shell] = "BLOCKED"
    BY <1>1, <1>4, Tasks DEF KbdQueues
  <2>2. ~(running' = Shell /\ Waits(Shell)')
    BY <1>7, <1>8, <2>1, Tasks
  <2>. QED
    BY <2>2 DEF GapInv, Shell
<1>13. NewsInv'
  <2>1. kbd_count' = kbd_count /\ (Waits(Shell)' => Waits(Shell))
    BY <1>4, Tasks DEF Lock, HandlerRetry, KeyIrq, ringVars
  <2>. QED
    BY <1>1, <1>5, <2>1, NewsKept
<1>. QED
  BY <1>10, <1>11, <1>12, <1>13 DEF ToldInv

(* cond_wait of getchar, up to its yield.  Whoever queued for the lock first is
   runnable now, or else kmain's task is: the yield will find somebody. *)
LEMMA ToldWait ==
  ASSUME KbdInv, Roles, ToldInv, NobodyQueuesTwice,
         NEW t \in Task, CheckEmpty(t), kbd_count = 0
  PROVE  ToldInv'
<1>1. /\ TypeOK /\ SchedTypeOK /\ SyncTypeOK /\ KbdQueues /\ IdleInv /\ GapInv /\ NewsInv
      /\ CondBlock(t, NotEmpty) /\ TaskGoto(t, "yield") /\ UNCHANGED <<inService, ringVars>>
      /\ handlers[t] = <<>> /\ pc[t] = "check" /\ Kbd \in Mutex /\ NotEmpty \in Cond
      /\ NotEmpty[1] = Kbd
  BY Tasks DEF KbdInv, TypeOK, ToldInv, CheckEmpty, TaskAt
<1>2. running = t /\ Stays(t) /\ [Next]_vars
  BY StepOwn DEF Step, TaskStep, Next, KbdInv
<1>3. t = Shell
  BY <1>1 DEF Roles
<1>4. ~Waits(t) /\ ~Queues(t) /\ Unqueued(t)
  <2>1. ~Waits(t)
    BY <1>1, <1>2, RunnerWaits
  <2>. QED
    BY <1>1, <1>2, <2>1, RunnerOut DEF Unqueued, Queues, Waits
<1>. DEFINE woken == mutexWaiters[Kbd]
<1>5. /\ QueuesApart'
      /\ CondQueue(NotEmpty)' = CondQueue(NotEmpty) \cup {t}
      /\ \A d \in Cond \ {NotEmpty} : CondQueue(d)' = CondQueue(d)
      /\ MutexQueue(Kbd)' = MutexQueue(Kbd) \ {woken}
      /\ \A n \in Mutex \ {Kbd} : MutexQueue(n)' = MutexQueue(n)
      /\ t # woken
      /\ \A u \in Task : state'[u] = IF u = woken THEN "READY"
                                     ELSE IF u = t THEN "BLOCKED" ELSE state[u]
  <2>1. PICK d \in Cond : d = NotEmpty
    BY <1>1
  <2>. QED
    BY <1>1, <1>4, <2>1, CondBlockQueues DEF KbdQueues
<1>6. woken \in Task => woken \in MutexQueue(Kbd)
  BY ReachHas DEF MutexQueue
<1>7. woken \in TaskPtr
  BY <1>1 DEF SyncTypeOK
<1>. HIDE DEF woken
<1>8. \A u \in Task : /\ Queues(u)' <=> Queues(u) /\ u # woken
                      /\ Waits(u)' <=> Waits(u) \/ u = t
  <2>1. ASSUME NEW u \in Task PROVE Queues(u)' <=> Queues(u) /\ u # woken
    <3>1. Mutex = {Kbd}
      BY KeyboardAssumption
    <3>. QED
      BY <1>5, <3>1 DEF Queues
  <2>2. ASSUME NEW u \in Task PROVE Waits(u)' <=> Waits(u) \/ u = t
    BY <1>1, <1>5 DEF Waits
  <2>. QED
    BY <2>1, <2>2 DEF Queues, Waits
<1>9. woken \in Task => Queues(woken)
  BY <1>1, <1>6 DEF Queues
<1>10. pc'[t] = "yield" /\ handlers' = handlers /\ running' = t
  BY <1>1, <1>2 DEF TaskGoto, TypeOK, CondBlock, MutexUnlock
<1>11. KbdQueues'
  <2>1. ASSUME NEW u \in Task, Queues(u)'
        PROVE  state'[u] = "BLOCKED" /\ Point(u)' = "retry"
    <3>1. Queues(u) /\ u # woken /\ u # t
      BY <1>4, <1>8, <2>1
    <3>. QED
      BY <1>1, <1>2, <1>5, <3>1, StaysPoint DEF KbdQueues
  <2>2. ASSUME NEW u \in Task, Waits(u)'
        PROVE  u = Shell /\ state'[u] = "BLOCKED" /\ pc'[u] \in {"yield", "relock"}
    <3>1. u = t
      BY <1>1, <1>3, <1>8, <2>2 DEF KbdQueues
    <3>. QED
      BY <1>3, <1>5, <1>10, <3>1
  <2>3. ASSUME NEW u \in Task, state'[u] = "BLOCKED" PROVE Queues(u)' \/ Waits(u)'
    BY <1>1, <1>5, <1>8, <2>3 DEF KbdQueues
  <2>4. \A d \in Cond : \A u \in CondQueue(d)' : d = NotEmpty
    BY <1>1, <1>5 DEF KbdQueues
  <2>. QED
    BY <1>5, <2>1, <2>2, <2>3, <2>4 DEF KbdQueues, NotEmpty, Shell
<1>12. IdleInv'
  <2>1. state'[Idle] # "SLEEPING"
    BY <1>1, <1>5, Tasks DEF IdleInv
  <2>. QED
    BY <1>1, <1>2, <2>1, IdleStays DEF IdleInv, Idle
<1>13. GapInv'
  <2>1. \E u \in Task : Runnable(state', u)
    <3>1. CASE woken \in Task
      BY <1>5, <3>1 DEF Runnable
    <3>2. CASE woken \notin Task
      <4>1. ~Queues(Idle)
        <5>1. MutexQueue(Kbd) = {} /\ Mutex = {Kbd}
          BY <1>7, <3>2, ReachNull, KeyboardAssumption DEF MutexQueue, TaskPtr, woken
        <5>. QED
          BY <5>1 DEF Queues
      <4>2. state[Idle] # "BLOCKED"
        BY <1>1, <4>1, Tasks DEF KbdQueues
      <4>3. Runnable(state, Idle)
        BY <1>1, <4>2, Tasks DEF SchedTypeOK, TaskState, IdleInv, Runnable
      <4>. QED
        BY <1>3, <1>5, <3>2, <4>3, Tasks DEF Runnable
    <3>. QED
      BY <3>1, <3>2
  <2>2. ~locked'[Kbd]
    BY <1>1 DEF CondBlock, MutexUnlock, SyncTypeOK
  <2>. QED
    BY <1>1, <1>3, <1>10, <2>1, <2>2 DEF GapInv, Shell
<1>14. NewsInv'
  BY <1>1 DEF NewsInv, ringVars
<1>. QED
  BY <1>11, <1>12, <1>13, <1>14 DEF ToldInv

(* The signal of a callback. *)
LEMMA ToldNotify ==
  ASSUME KbdInv, Roles, ToldInv, NobodyQueuesTwice, NEW t \in Task, NotifyShell(t)
  PROVE  ToldInv'
<1>1. /\ TypeOK /\ SchedTypeOK /\ SyncTypeOK /\ KbdQueues /\ IdleInv
      /\ CondSignal(NotEmpty) /\ NotEmpty \in Cond /\ NotEmpty[1] = Kbd
  BY Tasks DEF KbdInv, TypeOK, ToldInv, NotifyShell
<1>2. running = t /\ Stays(t) /\ [Next]_vars
  BY StepOwn DEF Step, HandlerStep, Next, KbdInv
<1>3. ~Queues(t)
  BY <1>1, <1>2, RunnerOut
<1>. DEFINE woken == condWaiters[NotEmpty]
<1>4. /\ QueuesApart'
      /\ CondQueue(NotEmpty)' = CondQueue(NotEmpty) \ {woken}
      /\ \A d \in Cond \ {NotEmpty} : CondQueue(d)' = CondQueue(d)
      /\ \A m \in Mutex : MutexQueue(m)' = MutexQueue(m)
      /\ \A u \in Task : state'[u] = IF u = woken THEN "READY" ELSE state[u]
  <2>1. PICK d \in Cond : d = NotEmpty
    BY <1>1
  <2>. QED
    BY <1>1, <2>1, SignalQueues DEF KbdQueues
<1>5. woken \in TaskPtr /\ (woken \in Task => woken \in CondQueue(NotEmpty))
  BY <1>1, ReachHas DEF CondQueue, SyncTypeOK
<1>6. CondQueue(NotEmpty) \subseteq Task /\ (woken \notin Task => CondQueue(NotEmpty) = {})
  <2>1. CASE woken \in Task
    BY <2>1, ReachHas DEF CondQueue
  <2>2. CASE woken \notin Task
    BY <1>5, <2>2, ReachNull DEF CondQueue, TaskPtr
  <2>. QED
    BY <2>1, <2>2
<1>. HIDE DEF woken
<1>7. \A u \in CondQueue(NotEmpty) : u = Shell
  BY <1>1, <1>6 DEF KbdQueues, Waits
<1>8. \A d \in Cond : CondQueue(d)' = {}
  <2>1. CondQueue(NotEmpty)' = {}
    BY <1>4, <1>5, <1>6, <1>7
  <2>2. \A d \in Cond \ {NotEmpty} : CondQueue(d) = {}
    BY <1>1 DEF KbdQueues
  <2>. QED
    BY <1>4, <2>1, <2>2
<1>9. \A u \in Task : ~Waits(u)' /\ (Queues(u)' <=> Queues(u)) /\ (Waits(u) <=> u = woken)
  <2>1. \A u \in Task : ~Waits(u)'
    BY <1>8 DEF Waits
  <2>2. ASSUME NEW u \in Task PROVE Queues(u)' <=> Queues(u)
    BY <1>4 DEF Queues
  <2>3. ASSUME NEW u \in Task PROVE Waits(u) <=> u = woken
    <3>1. Waits(u) => u \in CondQueue(NotEmpty)
      BY <1>1 DEF KbdQueues, Waits
    <3>2. u = woken => Waits(u)
      BY <1>1, <1>5 DEF Waits
    <3>. QED
      BY <1>5, <1>6, <1>7, <3>1, <3>2
  <2>. QED
    BY <2>1, <2>2, <2>3 DEF Queues, Waits
<1>10. KbdQueues'
  <2>1. ASSUME NEW u \in Task, Queues(u)'
        PROVE  state'[u] = "BLOCKED" /\ Point(u)' = "retry"
    <3>1. Queues(u) /\ u # t
      BY <1>3, <1>9, <2>1
    <3>2. u # woken
      <4>1. Queues(u) => ~Waits(u)
        BY <1>1 DEF KbdQueues, QueuesApart, Queues, Waits
      <4>. QED
        BY <1>9, <3>1, <4>1
    <3>. QED
      BY <1>1, <1>2, <1>4, <3>1, <3>2, StaysPoint DEF KbdQueues
  <2>2. ASSUME NEW u \in Task, state'[u] = "BLOCKED" PROVE Queues(u)' \/ Waits(u)'
    BY <1>1, <1>4, <1>9, <2>2 DEF KbdQueues
  <2>. QED
    BY <1>4, <1>8, <1>9, <2>1, <2>2 DEF KbdQueues
<1>11. IdleInv'
  <2>1. state'[Idle] # "SLEEPING"
    BY <1>1, <1>4, Tasks DEF IdleInv
  <2>. QED
    BY <1>1, <1>2, <2>1, IdleStays DEF IdleInv, Idle
<1>12. GapInv' /\ NewsInv'
  <2>1. ~Waits(Shell)'
    BY <1>9, Tasks
  <2>. QED
    BY <2>1 DEF GapInv, NewsInv, Shell
<1>. QED
  BY <1>10, <1>11, <1>12 DEF ToldInv

(* monitor_exit of getchar and of the callbacks. *)
LEMMA ToldExit ==
  ASSUME KbdInv, Roles, ToldInv, NobodyQueuesTwice,
         NEW t \in Task, Exit(t) \/ HandlerExit(t)
  PROVE  ToldInv'
<1>1. /\ TypeOK /\ SchedTypeOK /\ SyncTypeOK /\ KbdQueues /\ IdleInv /\ GapInv /\ NewsInv
      /\ MonitorExit(Kbd) /\ Kbd \in Mutex /\ Mutex = {Kbd}
      /\ Point(t) = "exit" /\ UNCHANGED ringVars
  BY Tasks, KeyboardAssumption
     DEF KbdInv, TypeOK, ToldInv, Exit, HandlerExit, TaskAt, HandlerAt, Point
<1>2. running = t /\ Stays(t) /\ [Next]_vars
  BY StepOwn DEF Step, TaskStep, HandlerStep, Next, KbdInv
<1>3. ~Queues(t) /\ ~Waits(t)
  <2>1. ~Waits(t)
    <3>. SUFFICES ASSUME Waits(t) PROVE FALSE
      OBVIOUS
    <3>1. CASE handlers[t] = <<>>
      BY <1>1, <1>2, <3>1, RunnerWaits DEF Point
    <3>2. CASE handlers[t] # <<>>
      BY <1>1, <1>2, <3>2, RunnerWaits
    <3>. QED
      BY <3>1, <3>2
  <2>. QED
    BY <1>1, <1>2, <2>1, RunnerOut
<1>. DEFINE woken == mutexWaiters[Kbd]
<1>4. /\ QueuesApart'
      /\ MutexQueue(Kbd)' = MutexQueue(Kbd) \ {woken}
      /\ \A d \in Cond : CondQueue(d)' = CondQueue(d)
      /\ \A u \in Task : state'[u] = IF u = woken THEN "READY" ELSE state[u]
  BY <1>1, ExitQueues DEF KbdQueues
<1>5. woken \in Task => Queues(woken)
  BY <1>1, ReachHas DEF MutexQueue, Queues
<1>. HIDE DEF woken
<1>6. ASSUME NEW u \in Task
      PROVE  (Queues(u)' <=> Queues(u) /\ u # woken) /\ (Waits(u)' <=> Waits(u))
  BY <1>1, <1>4 DEF Queues, Waits
<1>7. \A u \in Task : Queues(u) => ~Waits(u)
  BY <1>1 DEF KbdQueues, QueuesApart, Queues, Waits
<1>8. KbdQueues'
  <2>1. ASSUME NEW u \in Task, Queues(u)'
        PROVE  state'[u] = "BLOCKED" /\ Point(u)' = "retry"
    <3>1. Queues(u) /\ u # woken /\ u # t
      BY <1>3, <1>6, <2>1
    <3>. QED
      BY <1>1, <1>2, <1>4, <3>1, StaysPoint DEF KbdQueues
  <2>2. ASSUME NEW u \in Task, Waits(u)'
        PROVE  u = Shell /\ state'[u] = "BLOCKED" /\ pc'[u] \in {"yield", "relock"}
    <3>1. Waits(u) /\ u # woken /\ u # t
      BY <1>3, <1>5, <1>6, <1>7, <2>2
    <3>. QED
      BY <1>1, <1>2, <1>4, <3>1 DEF KbdQueues, Stays
  <2>3. ASSUME NEW u \in Task, state'[u] = "BLOCKED" PROVE Queues(u)' \/ Waits(u)'
    <3>1. state[u] = "BLOCKED" /\ u # woken
      BY <1>4, <2>3
    <3>. QED
      BY <1>1, <1>6, <3>1 DEF KbdQueues
  <2>4. \A d \in Cond : \A u \in CondQueue(d)' : d = NotEmpty
    BY <1>1, <1>4 DEF KbdQueues
  <2>. QED
    BY <1>4, <2>1, <2>2, <2>3, <2>4 DEF KbdQueues, NotEmpty, Shell
<1>9. IdleInv'
  <2>1. state'[Idle] # "SLEEPING"
    BY <1>1, <1>4, Tasks DEF IdleInv
  <2>. QED
    BY <1>1, <1>2, <2>1, IdleStays DEF IdleInv, Idle
<1>10. GapInv'
  <2>1. running' = t
    BY <1>1, <1>2 DEF MonitorExit, MutexUnlock
  <2>2. ~(running' = Shell /\ Waits(Shell)')
    BY <1>3, <1>6, <2>1
  <2>. QED
    BY <2>2 DEF GapInv, Shell
<1>11. NewsInv'
  <2>1. kbd_count' = kbd_count /\ (Waits(Shell)' => Waits(Shell))
    BY <1>1, <1>6, Tasks DEF ringVars
  <2>2. \E to : Moves(t, to)
    <3>1. CASE Exit(t)
      BY <1>1, <3>1, TaskMoves DEF Exit, TaskAt, TaskPoint
    <3>2. CASE HandlerExit(t)
      BY <1>1, <3>2, HandlerMoves DEF HandlerExit, HandlerAt, HandlerPoint
    <3>. QED
      BY <3>1, <3>2
  <2>. QED
    BY <1>1, <2>1, <2>2, NewsKept
<1>. QED
  BY <1>8, <1>9, <1>10, <1>11 DEF ToldInv

(* Steps without scheduler and without queues. *)
LEMMA HandlerPointNext ==
  ASSUME TypeOK, NEW t \in Task, handlers[t] # <<>>, NEW to \in HandlerPoint,
         HandlerGoto(t, to)
  PROVE  handlers'[t] # <<>> /\ Point(t)' = to /\ pc' = pc
<1>. DEFINE r == [handlers[t] EXCEPT ![1].at = to]
<1>1. r \in Seq(Frame) /\ Len(r) = Len(handlers[t]) /\ r[1].at = to
  BY Stacks, StackTop
<1>2. Len(handlers[t]) \in Nat \ {0}
  BY Stacks DEF Depth
<1>3. handlers' = [handlers EXCEPT ![t] = r] /\ pc' = pc
  BY DEF HandlerGoto
<1>. HIDE DEF r
<1>4. handlers'[t] = r /\ r # <<>>
  BY <1>1, <1>2, <1>3, EmptySeq DEF TypeOK
<1>. QED
  BY <1>1, <1>3, <1>4 DEF Point

(* What can happen on the shell's stack in the gap of cond_wait, before a signal:
   a callback comes, which finds the lock free, and goes on. *)
LEMMA GapSteps ==
  ASSUME KbdInv, ToldInv, NEW t \in Task, Waits(t),
         Step(t) \/ KeyIrq(t), ~NotifyShell(t), ~YieldInWait(t)
  PROVE  /\ pc' = pc /\ inService' /\ handlers'[t] # <<>>
         /\ Point(t)' \in {"check", "put", "index", "count", "notify"}
<1>1. TypeOK /\ KbdQueues /\ GapInv /\ NewsInv /\ Kbd \in Mutex
  BY Tasks DEF KbdInv, ToldInv
<1>2. running = t
  BY <1>1, StepOwn
<1>3. /\ t = Shell /\ pc[t] = "yield"
      /\ handlers[t] = <<>> => ~locked[Kbd]
      /\ handlers[t] # <<>> =>
           inService /\ Point(t) \in {"check", "put", "index", "count", "notify"}
  BY <1>1, <1>2, RunnerWaits
<1>4. ~TaskStep(t)
  BY <1>3 DEF TaskStep, Sleep, SetSleeping, YieldAsleep, Lock, CheckEmpty, Pop, Exit, TaskAt
<1>5. CASE HandlerStep(t)
  <2>1. handlers[t] # <<>> /\ handlers[t][1].at = Point(t)
    BY <1>5 DEF HandlerStep, HandlerRetry, CheckFull, Push, NotifyShell, HandlerExit, Echo,
                Return, HandlerAt, Point
  <2>2. CheckFull(t) \/ Push(t)
    BY <1>3, <1>5, <2>1 DEF HandlerStep, HandlerRetry, HandlerExit, Echo, Return, HandlerAt
  <2>3. CASE CheckFull(t)
    <3>1. kbd_count < KBD_BUFFER_SIZE
      <4>1. kbd_count = 0
        BY <1>3, <2>1, <2>3, NoNews, <1>1 DEF CheckFull, HandlerAt, Inside
      <4>. QED
        BY <4>1, KeyboardAssumption
    <3>2. HandlerGoto(t, "put") /\ "put" \in HandlerPoint /\ inService' = inService
      BY <2>3, <3>1 DEF CheckFull, HandlerPoint, Inside
    <3>. QED
      BY <1>1, <1>3, <2>1, <3>2, HandlerPointNext
  <2>4. CASE Push(t)
    <3>1. PICK to \in {"index", "count", "notify"} : HandlerGoto(t, to)
      BY <2>4 DEF Push
    <3>2. to \in HandlerPoint /\ inService' = inService
      BY <2>4 DEF Push, HandlerPoint, Inside
    <3>. QED
      BY <1>1, <1>3, <2>1, <3>1, <3>2, HandlerPointNext
  <2>. QED
    BY <2>2, <2>3, <2>4
<1>6. CASE KeyIrq(t)
  <2>1. ~locked[Kbd]
    BY <1>3, <1>6 DEF KeyIrq
  <2>2. inService' = TRUE /\ pc' = pc /\ "check" \in HandlerPoint
    BY <1>6, <2>1 DEF KeyIrq, MutexWait, HandlerPoint, Inside
  <2>3. Comes(t, "check")
    BY <1>1, <1>6, <2>1, <2>2, CallbackComes DEF KeyIrq
  <2>4. TypeOK'
    BY <1>6, KbdInvLock DEF KbdInv
  <2>5. Point(t)' = "check" /\ Depth(t)' = Depth(t) + 1
    BY <2>3, <2>4, PointNext DEF Comes
  <2>6. handlers'[t] # <<>>
    BY <1>1, <2>5, Depths, EmptySeq DEF Depth
  <2>. QED
    BY <2>2, <2>5, <2>6
<1>. QED
  BY <1>4, <1>5, <1>6 DEF Step

LEMMA ToldOwn ==
  ASSUME KbdInv, Roles, ToldInv, NobodyQueuesTwice, NEW t \in Task,
         Step(t) \/ KeyIrq(t), ~NotifyShell(t), ~YieldInWait(t),
         UNCHANGED <<running, mutexWaiters, condWaiters, waitNext>>,
         \A u \in Task : state'[u] = "BLOCKED" <=> state[u] = "BLOCKED",
         state'[Idle] # "SLEEPING", Waits(t) => state' = state
  PROVE  ToldInv'
<1>1. TypeOK /\ KbdQueues /\ IdleInv /\ GapInv /\ NewsInv
  BY DEF KbdInv, ToldInv
<1>2. running = t /\ Stays(t) /\ [Next]_vars
  BY <1>1, StepOwn DEF Next
<1>3. \A u \in Task : Waits(u)' = Waits(u)
  BY <1>1, SameQueues DEF KbdQueues
<1>4. KbdQueues'
  <2>1. Waits(running) => pc'[running] \in {"yield", "relock"}
    BY <1>1, <1>2, GapSteps, RunnerWaits
  <2>. QED
    BY <1>1, <1>2, <2>1, KbdQueuesKept
<1>5. IdleInv'
  BY <1>1, <1>2, IdleStays DEF IdleInv, Idle
<1>6. GapInv'
  <2>. SUFFICES ASSUME running' = Shell, Waits(Shell)' PROVE GapInv'
    BY DEF GapInv, Shell
  <2>1. t = Shell /\ Waits(t) /\ state' = state
    BY <1>2, <1>3, Tasks
  <2>2. pc[t] = "yield" /\ \E u \in Task : Runnable(state, u)
    BY <1>1, <1>2, <2>1, RunnerWaits
  <2>3. /\ pc' = pc /\ inService' /\ handlers'[t] # <<>>
        /\ Point(t)' \in {"check", "put", "index", "count", "notify"}
    BY <2>1, GapSteps
  <2>. QED
    BY <2>1, <2>2, <2>3 DEF GapInv, Shell, Runnable
<1>7. NewsInv'
  <2>1. Waits(Shell)' = Waits(Shell)
    BY <1>3, Tasks
  <2>2. CASE Pop(t)
    <3>1. t = Shell /\ pc[t] # "yield"
      BY <2>2, PopIsShell
    <3>2. ~Waits(Shell)'
      BY <1>1, <1>2, <2>1, <3>1, RunnerWaits
    <3>. QED
      BY <3>2 DEF NewsInv
  <2>3. CASE Push(t)
    <3>1. Point(t) \in {"put", "index", "count"}
      BY <2>3, PushMoves
    <3>2. Waits(Shell) => kbd_count = 0
      BY <1>1, <3>1, NoNews DEF Inside
    <3>3. CASE kbd_count' = kbd_count
      BY <2>1, <3>2, <3>3 DEF NewsInv
    <3>4. CASE kbd_count' # kbd_count
      <4>1. HandlerGoto(t, "notify") /\ handlers[t] # <<>> /\ "notify" \in HandlerPoint
        BY <2>3, <3>4 DEF Push, HandlerAt, HandlerPoint, Inside
      <4>2. Moves(t, "notify")
        BY <1>1, <4>1, HandlerMoves
      <4>3. \E k \in (0 .. Depth(t))' : Ctx(t, k)' = "notify"
        BY <1>1, <4>2, MovedOnly
      <4>. QED
        BY <4>3 DEF NewsInv
    <3>. QED
      BY <3>3, <3>4
  <2>4. CASE ~Pop(t) /\ ~Push(t)
    <3>1. UNCHANGED ringVars /\ \E to : Moves(t, to) \/ Comes(t, to) \/ Goes(t)
      BY <2>4, QuietMoves
    <3>2. CASE KeyIrq(t)
      <4>1. \E to \in HandlerPoint : Comes(t, to)
        <5>1. PICK to \in HandlerPoint : to = IF locked[Kbd] THEN "retry" ELSE "check"
          BY DEF HandlerPoint, Inside
        <5>. QED
          BY <1>1, <3>2, <5>1, CallbackComes DEF KeyIrq
      <4>. QED
        BY <1>1, <2>1, <3>1, <4>1, NewsKept DEF ringVars
    <3>3. CASE Step(t)
      <4>1. Point(t) # "notify"
        BY <3>3 DEF Step, TaskStep, HandlerStep, Sleep, SetSleeping, YieldAsleep, Lock,
                    CheckEmpty, YieldInWait, Pop, Exit, HandlerRetry, CheckFull, Push,
                    NotifyShell, HandlerExit, Echo, Return, TaskAt, HandlerAt, Point
      <4>. QED
        BY <1>1, <2>1, <3>1, <4>1, NewsKept DEF ringVars
    <3>. QED
      BY <3>2, <3>3
  <2>. QED
    BY <2>2, <2>3, <2>4
<1>. QED
  BY <1>4, <1>5, <1>6, <1>7 DEF ToldInv

LEMMA ToldInit == Init => ToldInv
<1>. SUFFICES ASSUME Init PROVE ToldInv
  OBVIOUS
<1>1. /\ \A m \in Mutex : mutexWaiters[m] = NULL
      /\ \A d \in Cond : condWaiters[d] = NULL
  BY DEF Init, SyncInit
<1>2. /\ \A m \in Mutex : MutexQueue(m) = {} /\ Ends(waitNext, mutexWaiters[m])
      /\ \A d \in Cond : CondQueue(d) = {} /\ Ends(waitNext, condWaiters[d])
  BY <1>1, ReachNull DEF MutexQueue, CondQueue
<1>3. QueuesApart
  BY <1>2 DEF QueuesApart
<1>4. \A t \in Task : ~Queues(t) /\ ~Waits(t)
  BY <1>2 DEF Queues, Waits
<1>5. \A t \in Task : state[t] \in {"READY", "RUNNING"}
  BY DEF Init, SchedInit
<1>6. KbdQueues
  BY <1>2, <1>3, <1>4, <1>5 DEF KbdQueues
<1>7. IdleInv
  BY <1>5, Tasks DEF Init, IdleInv
<1>. QED
  BY <1>4, <1>6, <1>7, Tasks DEF ToldInv, GapInv, NewsInv

LEMMA ToldNext ==
  KbdInv /\ Roles /\ ToldInv /\ NobodyQueuesTwice /\ NobodyQueuesTwice' /\ [Next]_vars
    => ToldInv'
<1>. SUFFICES ASSUME KbdInv, Roles, ToldInv, NobodyQueuesTwice, NobodyQueuesTwice',
                     [Next]_vars
              PROVE  ToldInv'
  OBVIOUS
<1>1. TypeOK /\ SchedTypeOK /\ KbdQueues /\ IdleInv /\ GapInv
  BY DEF KbdInv, TypeOK, ToldInv
<1>2. ASSUME NEW t \in Task, Lock(t) \/ HandlerRetry(t) \/ KeyIrq(t) PROVE ToldInv'
  <2>1. MutexTake(t, Kbd) \/ MutexWait(t, Kbd)
    BY <1>2 DEF Lock, HandlerRetry, KeyIrq, TakeOrWait
  <2>2. CASE MutexTake(t, Kbd)
    <3>1. UNCHANGED <<running, mutexWaiters, condWaiters, waitNext>> /\ state' = state
      BY <2>2 DEF MutexTake, schedVars
    <3>2. (Step(t) \/ KeyIrq(t)) /\ ~NotifyShell(t) /\ ~YieldInWait(t)
      <4>1. CASE Lock(t)
        BY <4>1 DEF Step, TaskStep, Lock, NotifyShell, YieldInWait, TaskAt, HandlerAt
      <4>2. CASE HandlerRetry(t)
        BY <4>2 DEF Step, HandlerStep, HandlerRetry, NotifyShell, YieldInWait, TaskAt,
                    HandlerAt
      <4>3. CASE KeyIrq(t)
        <5>1. keys' = keys + 1 /\ keys \in Nat
          BY <1>1, <4>3, KeyboardAssumption DEF KeyIrq, TypeOK
        <5>2. keys' # keys
          BY <5>1
        <5>. QED
          BY <4>3, <5>2 DEF NotifyShell, YieldInWait, HandlerGoto, TaskGoto
      <4>. QED
        BY <1>2, <4>1, <4>2, <4>3
    <3>. QED
      BY <1>1, <3>1, <3>2, ToldOwn DEF IdleInv
  <2>3. CASE MutexWait(t, Kbd)
    BY <1>2, <2>3, ToldQueue
  <2>. QED
    BY <2>1, <2>2, <2>3
<1>3. ASSUME NEW t \in Task, Sleep(t) \/ SetSleeping(t) PROVE ToldInv'
  <2>1. /\ Step(t) /\ ~NotifyShell(t) /\ ~YieldInWait(t)
        /\ running = t /\ pc[t] \in {"sleep", "set_state"}
    BY <1>3 DEF Step, TaskStep, Sleep, SetSleeping, NotifyShell, YieldInWait, TaskAt, HandlerAt
  <2>2. UNCHANGED <<running, mutexWaiters, condWaiters, waitNext>>
    BY <1>3 DEF Sleep, SetSleeping, syncVars
  <2>3. ~Waits(t) /\ state[t] # "BLOCKED" /\ t # Idle
    <3>1. ~Waits(t)
      BY <1>1, <2>1, RunnerWaits
    <3>. QED
      BY <1>1, <2>1, <3>1, RunnerOut DEF KbdQueues, IdleInv
  <2>4. state' = state \/ state' = [state EXCEPT ![t] = "SLEEPING"]
    BY <1>3 DEF Sleep, SetSleeping
  <2>5. /\ \A u \in Task : state'[u] = "BLOCKED" <=> state[u] = "BLOCKED"
        /\ state'[Idle] # "SLEEPING"
    BY <1>1, <2>3, <2>4, Tasks DEF SchedTypeOK, IdleInv
  <2>. QED
    BY <2>1, <2>2, <2>3, <2>5, ToldOwn
<1>4. ASSUME NEW t \in Task,
             \/ CheckEmpty(t) /\ kbd_count # 0
             \/ Pop(t) \/ CheckFull(t) \/ Push(t) \/ Echo(t) \/ Return(t)
      PROVE  ToldInv'
  <2>1. Step(t) /\ ~NotifyShell(t) /\ ~YieldInWait(t)
    BY <1>4 DEF Step, TaskStep, HandlerStep, CheckEmpty, Pop, CheckFull, Push, Echo, Return,
                NotifyShell, YieldInWait, TaskAt, HandlerAt
  <2>2. UNCHANGED <<schedVars, syncVars>>
    BY <1>4 DEF CheckEmpty, Pop, CheckFull, Push, Echo, Return
  <2>3. UNCHANGED <<running, mutexWaiters, condWaiters, waitNext>> /\ state' = state
    BY <2>2 DEF schedVars, syncVars
  <2>. QED
    BY <1>1, <2>1, <2>3, ToldOwn DEF IdleInv
<1>5. CASE UNCHANGED vars
  <2>1. UNCHANGED <<state, running, locked, mutexWaiters, condWaiters, waitNext, pc,
                    handlers, inService, kbd_count>>
    BY <1>5 DEF vars, schedVars, syncVars, ringVars
  <2>2. /\ QueuesApart' /\ \A d \in Cond : CondQueue(d)' = CondQueue(d)
        /\ \A t \in Task : Queues(t)' = Queues(t) /\ Waits(t)' = Waits(t)
    BY <1>1, <2>1, SameQueues DEF KbdQueues
  <2>3. Stays(running) /\ running \in Task /\ pc'[running] = pc[running]
    BY <1>1, <2>1 DEF Stays, SchedTypeOK
  <2>4. KbdQueues'
    BY <1>1, <2>1, <2>3, KbdQueuesKept, RunnerWaits
  <2>5. IdleInv'
    BY <1>1, <2>1 DEF IdleInv, Idle
  <2>6. GapInv'
    BY <1>1, <2>1, <2>2, Tasks DEF GapInv, Point, Runnable, Shell
  <2>7. NewsInv'
    BY <2>1, <2>2, Tasks DEF ToldInv, NewsInv, Ctx, Depth
  <2>. QED
    BY <2>4, <2>5, <2>6, <2>7 DEF ToldInv
<1>6. ASSUME NEW t \in Task, TaskStep(t) PROVE ToldInv'
  BY <1>2, <1>3, <1>4, <1>6, ToldTimer, ToldWait, ToldExit DEF TaskStep
<1>7. ASSUME NEW t \in Task, HandlerStep(t) PROVE ToldInv'
  BY <1>2, <1>4, <1>7, ToldNotify, ToldExit DEF HandlerStep
<1>8. CASE TimerIrq
  BY <1>8, ToldTimer, Tasks
<1>. QED
  BY <1>2, <1>5, <1>6, <1>7, <1>8 DEF Next, Step

(* getchar: as long as no task queues for the lock twice, no character is left in
   the buffer, the monitor being free, while the shell is blocked on the condition
   that announces it.  Of the premise the proof needs one instance, at the step of
   mutex_lock that queues: four key presses can make it false. *)
THEOREM ShellIsAlwaysTold == Spec => ShellIsTold
<1>1. KbdInv /\ ToldInv => NoKeyLeft
  <2>. SUFFICES ASSUME KbdInv, ToldInv, ~locked[Kbd], kbd_count > 0,
                       Point(Shell) \in {"yield", "relock"}, state[Shell] = "BLOCKED"
                PROVE  FALSE
    BY DEF NoKeyLeft
  <2>1. Waits(Shell)
    BY Tasks DEF ToldInv, KbdQueues
  <2>2. PICK t \in Task : \E k \in 0 .. Depth(t) : Ctx(t, k) = "notify"
    BY <2>1 DEF ToldInv, NewsInv
  <2>3. locked[Kbd]
    BY <2>2 DEF KbdInv, LockInv, Inside
  <2>. QED
    BY <2>3
<1>2. Init => Roles
  BY DEF Init, Roles
<1>3. KbdInv => TypeOK
  BY DEF KbdInv
<1>. QED
  BY KbdInvInit, KbdInvNext, RolesNext, ToldInit, ToldNext, <1>1, <1>2, <1>3, PTL
     DEF Spec, ShellIsTold
=============================================================================
