--------------------------- MODULE FrameLoopProofs ---------------------------
(***************************************************************************)
(* Proofs about the idle queue and the outputs on it, for any number of    *)
(* outputs of either kind, and about any number of nested Wayland outputs. *)
(*                                                                         *)
(* NoLostWakeup is inductive with the types of the queue.  That the loop   *)
(* implements FrameClock needs to know where a callback can be: in one     *)
(* place at most of the queue, the copy of it, the timers and the timers   *)
(* taken out, and only while frameScheduled is raised (OnceInv).           *)
(*                                                                         *)
(* WlScheduledIsPending speaks of the event loop only; WlInv says it of    *)
(* every step of every handler.  A handler's rest has one of a few shapes  *)
(* (WlShape), a raised flag has something that lowers it among that rest,  *)
(* the host's answer or the idle callbacks that the loop has not passed    *)
(* (Pend), and onFrameDone lowers frameScheduledWhileWaiting only when no  *)
(* request depends on it (Answering).                                      *)
(***************************************************************************)
EXTENDS FrameLoop, WaylandOutput, Basics, SequenceTheorems, FiniteSetTheorems, TLAPS

-----------------------------------------------------------------------------
(* Sequences.                                                              *)

\* What a queue contains after the operations on it.
LEMMA AppendContains ==
    ASSUME NEW S, NEW q \in Seq(S), NEW e \in S
    PROVE  /\ Append(q, e) \in Seq(S)
           /\ \A d : Contains(Append(q, e), d) <=> Contains(q, d) \/ d = e
           /\ Once(q) /\ ~Contains(q, e) => Once(Append(q, e))
<1> DEFINE a == Append(q, e)
<1>1. /\ a \in Seq(S) /\ Len(a) = Len(q) + 1 /\ a[Len(a)] = e
      /\ \A i \in 1 .. Len(q) : a[i] = q[i]
  OBVIOUS
<1> HIDE DEF a
<1>2. ASSUME NEW d PROVE Contains(a, d) <=> Contains(q, d) \/ d = e
  <2>1. ASSUME Contains(a, d) PROVE Contains(q, d) \/ d = e
    <3>1. PICK i \in 1 .. Len(a) : a[i] = d
      BY <2>1 DEF Contains
    <3>2. i = Len(a) \/ i \in 1 .. Len(q)
      BY <1>1
    <3> QED BY <1>1, <3>1, <3>2 DEF Contains
  <2>2. ASSUME Contains(q, d) PROVE Contains(a, d)
    <3>1. PICK i \in 1 .. Len(q) : q[i] = d
      BY <2>2 DEF Contains
    <3>2. i \in 1 .. Len(a) /\ a[i] = d
      BY <1>1, <3>1
    <3> QED BY <3>2 DEF Contains
  <2>3. Contains(a, e)
    BY <1>1 DEF Contains
  <2> QED BY <2>1, <2>2, <2>3
<1>3. ASSUME Once(q), ~Contains(q, e) PROVE Once(a)
  <2> SUFFICES ASSUME NEW i \in 1 .. Len(a), NEW j \in 1 .. Len(a), a[i] = a[j], i < j
               PROVE  FALSE
    BY <1>1 DEF Once
  <2>1. i \in 1 .. Len(q) /\ a[i] = q[i]
    BY <1>1
  <2>2. CASE j = Len(a)
    <3>1. q[i] = e
      BY <1>1, <2>1, <2>2
    <3> QED BY <1>3, <2>1, <3>1 DEF Contains
  <2>3. CASE j # Len(a)
    <3>1. j \in 1 .. Len(q) /\ a[j] = q[j]
      BY <1>1, <2>3
    <3>2. q[i] = q[j]
      BY <2>1, <3>1
    <3>3. i = j
      BY <1>3, <2>1, <3>1, <3>2 DEF Once
    <3> QED BY <3>3
  <2> QED BY <2>2, <2>3
<1> QED BY <1>1, <1>2, <1>3 DEF a

LEMMA TailContains ==
    ASSUME NEW S, NEW q \in Seq(S), q # <<>>
    PROVE  /\ Tail(q) \in Seq(S) /\ Head(q) \in S
           /\ Contains(q, Head(q))
           /\ \A d : Contains(Tail(q), d) => Contains(q, d)
           /\ Once(q) => Once(Tail(q)) /\ ~Contains(Tail(q), Head(q))
<1> DEFINE t == Tail(q)
<1>1. /\ t \in Seq(S) /\ Len(t) = Len(q) - 1 /\ Len(q) \in Nat /\ Len(q) > 0 /\ Head(q) = q[1]
      /\ \A i \in 1 .. Len(t) : t[i] = q[i + 1]
  OBVIOUS
<1> HIDE DEF t
<1>2. Head(q) \in S /\ Contains(q, Head(q))
  BY <1>1 DEF Contains
<1>3. ASSUME NEW i \in 1 .. Len(t) PROVE i + 1 \in 1 .. Len(q) /\ t[i] = q[i + 1]
  BY <1>1
<1>4. ASSUME NEW d, Contains(t, d) PROVE Contains(q, d)
  <2>1. PICK i \in 1 .. Len(t) : t[i] = d
    BY <1>4 DEF Contains
  <2> QED BY <1>3, <2>1 DEF Contains
<1>5. ASSUME Once(q) PROVE Once(t) /\ ~Contains(t, Head(q))
  <2>1. ASSUME NEW i \in 1 .. Len(t), NEW j \in 1 .. Len(t), t[i] = t[j] PROVE i = j
    <3>1. q[i + 1] = q[j + 1] /\ i + 1 \in 1 .. Len(q) /\ j + 1 \in 1 .. Len(q)
      BY <1>3, <2>1
    <3>2. i + 1 = j + 1
      BY <1>5, <3>1 DEF Once
    <3> QED BY <3>2
  <2>2. ASSUME NEW i \in 1 .. Len(t), t[i] = Head(q) PROVE FALSE
    <3>1. q[i + 1] = q[1] /\ i + 1 \in 1 .. Len(q) /\ 1 \in 1 .. Len(q)
      BY <1>1, <1>3, <2>2
    <3>2. i + 1 = 1
      BY <1>5, <3>1 DEF Once
    <3> QED BY <3>2
  <2> QED BY <2>1, <2>2 DEF Once, Contains
<1> QED BY <1>1, <1>2, <1>4, <1>5 DEF t

LEMMA ConcatContains ==
    ASSUME NEW S, NEW p \in Seq(S), NEW q \in Seq(S)
    PROVE  /\ p \o q \in Seq(S)
           /\ \A d : Contains(p, d) \/ Contains(q, d) => Contains(p \o q, d)
<1> DEFINE a == p \o q
<1>1. /\ a \in Seq(S) /\ Len(a) = Len(p) + Len(q) /\ Len(p) \in Nat /\ Len(q) \in Nat
      /\ \A i \in 1 .. Len(p) : a[i] = p[i]
      /\ \A i \in 1 .. Len(q) : a[Len(p) + i] = q[i]
  OBVIOUS
<1> HIDE DEF a
<1>2. ASSUME NEW d, Contains(p, d) PROVE Contains(a, d)
  <2>1. PICK i \in 1 .. Len(p) : p[i] = d
    BY <1>2 DEF Contains
  <2>2. i \in 1 .. Len(a) /\ a[i] = d
    BY <1>1, <2>1
  <2> QED BY <2>2 DEF Contains
<1>3. ASSUME NEW d, Contains(q, d) PROVE Contains(a, d)
  <2>1. PICK i \in 1 .. Len(q) : q[i] = d
    BY <1>3 DEF Contains
  <2>2. Len(p) + i \in 1 .. Len(a) /\ a[Len(p) + i] = d
    BY <1>1, <2>1
  <2> QED BY <2>2 DEF Contains
<1> QED BY <1>1, <1>2, <1>3 DEF a

LEMMA SetToSeqsContains ==
    ASSUME NEW T, IsFiniteSet(T), NEW q \in SetToSeqs(T)
    PROVE  /\ q \in Seq(T)
           /\ Once(q)
           /\ \A d : Contains(q, d) => d \in T
<1>1. Cardinality(T) \in Nat
  BY FS_CardinalityType
<1>2. q \in [1 .. Cardinality(T) -> T]
  BY DEF SetToSeqs
<1>3. \A i, j \in 1 .. Cardinality(T) : i # j => q[i] # q[j]
  BY DEF SetToSeqs
<1>4. q \in Seq(T) /\ Len(q) = Cardinality(T)
  BY <1>1, <1>2
<1> QED BY <1>2, <1>3, <1>4 DEF Once, Contains

-----------------------------------------------------------------------------
(* The invariants.                                                         *)

\* The queue with its wakeup, and the types.
WakeupInv == FrameLoopTypeOK /\ NoLostWakeup

\* Where a callback can be.
Queued(c) == Contains(pending, c) \/ Contains(batch, c)
OnceInv ==
    /\ dispatch = "off" => batch = <<>>
    /\ firing = "off" => toFire = <<>>
    /\ Once(pending) /\ Once(batch) /\ Once(toFire)
    /\ \A c \in Callbacks :
        /\ ~(Contains(pending, c) /\ Contains(batch, c))
        /\ ~(Queued(c) /\ Contains(toFire, c))
        /\ timer[c] # "none" => ~Queued(c) /\ ~Contains(toFire, c)
        /\ Queued(c) \/ Contains(toFire, c) \/ timer[c] # "none" => scheduled[c]

\* Nothing calls back a destroyed output from the queue.
AliveInv == \A c \in Callbacks : Queued(c) => c \in alive

LEMMA TypesInit == FrameLoopInit => WakeupInv
<1> SUFFICES ASSUME FrameLoopInit PROVE WakeupInv
  OBVIOUS
<1>1. IdleTypeOK /\ NoLostWakeup
  <2>1. pending \in Seq(Callbacks) /\ batch \in Seq(Callbacks)
    BY DEF FrameLoopInit, IdleInit
  <2> QED BY <2>1 DEF FrameLoopInit, IdleInit, IdleTypeOK, NoLostWakeup
<1>2. scheduled \in [Callbacks -> BOOLEAN]
  BY DEF FrameLoopInit
<1>3. toFire \in Seq(Callbacks)
  BY DEF FrameLoopInit
<1> QED BY <1>1, <1>2, <1>3 DEF FrameLoopInit, WakeupInv, FrameLoopTypeOK

\* Every step keeps the types and leaves no callback without a wakeup.
LEMMA WakeupStep ==
    ASSUME WakeupInv, [FrameLoopNext]_loopVars
    PROVE  WakeupInv'
<1> USE DEF WakeupInv, FrameLoopTypeOK, IdleTypeOK, NoLostWakeup
<1>1. ASSUME NEW c \in Callbacks, ScheduleNow(c) PROVE WakeupInv'
  <2>1. pending' \in Seq(Callbacks)
    BY <1>1, AppendContains DEF ScheduleNow, AddIdleEvent
  <2>2. armed' \in BOOLEAN /\ readable' \in BOOLEAN
    BY <1>1 DEF ScheduleNow, AddIdleEvent, UpdateIdleTimer
  <2>3. scheduled' \in [Callbacks -> BOOLEAN]
    BY <1>1 DEF ScheduleNow
  <2>4. NoLostWakeup'
    BY <1>1 DEF ScheduleNow, AddIdleEvent, UpdateIdleTimer
  <2> QED BY <1>1, <2>1, <2>2, <2>3, <2>4 DEF ScheduleNow, AddIdleEvent, timerVars
<1>2. ASSUME NEW c \in Callbacks, ScheduleLater(c) PROVE WakeupInv'
  <2>1. scheduled' \in [Callbacks -> BOOLEAN]
    BY <1>2 DEF ScheduleLater
  <2>2. timer' \in [Callbacks -> {"none", "waiting", "now", "past"}] /\ timerfd' \in {"far", "set", "readable"}
    BY <1>2 DEF ScheduleLater, AddTimer, UpdateTimerFD
  <2> QED BY <1>2, <2>1, <2>2 DEF ScheduleLater, idleVars
<1>3. ASSUME NEW c \in Callbacks, CreateOutput(c) PROVE WakeupInv'
  <2>1. scheduled' \in [Callbacks -> BOOLEAN]
    BY <1>3 DEF CreateOutput
  <2> QED BY <1>3, <2>1 DEF CreateOutput, idleVars, timerVars
<1>4. ASSUME NEW c \in Callbacks, DestroyHeadless(c) PROVE WakeupInv'
  BY <1>4 DEF DestroyHeadless, idleVars, timerVars
<1>5. ASSUME NEW c \in Callbacks, DestroyDrm(c) PROVE WakeupInv'
  <2>1. pending' = Keep(pending, Callbacks \ {c})
    BY <1>5 DEF DestroyDrm, RemoveIdleEvent
  <2>2. pending' \in Seq(Callbacks) /\ (pending = <<>> => pending' = <<>>)
    BY <2>1, KeepProperties
  <2> QED BY <1>5, <2>2 DEF DestroyDrm, RemoveIdleEvent, timerVars
<1>6. ASSUME NEW c \in Callbacks, TimerDue(c) \/ TimerPasses(c) PROVE WakeupInv'
  <2>1. timer' \in [Callbacks -> {"none", "waiting", "now", "past"}] /\ timerfd' \in {"far", "set", "readable"}
    BY <1>6 DEF TimerDue, TimerPasses
  <2> QED BY <1>6, <2>1 DEF TimerDue, TimerPasses, idleVars
<1>7. ASSUME IdleFrame PROVE WakeupInv'
  <2>1. Head(batch) \in Callbacks /\ batch' \in Seq(Callbacks)
    BY <1>7, TailContains DEF IdleFrame, CallNext
  <2>2. scheduled' \in [Callbacks -> BOOLEAN]
    BY <1>7, <2>1 DEF IdleFrame, FrameCb
  <2>3. frames' \in [Callbacks -> {0, 1}]
    <3>1. frames[Head(batch)] \in {0, 1} => 1 - frames[Head(batch)] \in {0, 1}
      OBVIOUS
    <3> QED BY <1>7, <2>1, <3>1 DEF IdleFrame, FrameCb
  <2> QED BY <1>7, <2>1, <2>2, <2>3 DEF IdleFrame, CallNext, timerVars
<1>8. ASSUME IdleStep PROVE WakeupInv'
  <2>1. armed' \in BOOLEAN /\ readable' \in BOOLEAN
    BY <1>8 DEF IdleStep, DispatchIdle, CallReturns, DispatchEnds, Expire, UpdateIdleTimer
  <2>2. IdleTypeOK'
    <3>1. pending' \in Seq(Callbacks) /\ batch' \in Seq(Callbacks)
      <4>1. CASE DispatchIdle
        <5>1. pending' = <<>> /\ batch' = pending
          BY <4>1 DEF DispatchIdle
        <5> QED BY <5>1
      <4>2. CASE CallReturns \/ DispatchEnds \/ Expire
        BY <4>2 DEF CallReturns, DispatchEnds, Expire
      <4> QED BY <1>8, <4>1, <4>2 DEF IdleStep
    <3>2. dispatch' \in {"off", "between", "inside"}
      BY <1>8 DEF IdleStep, DispatchIdle, CallReturns, DispatchEnds, Expire
    <3> QED BY <2>1, <3>1, <3>2
  <2>3. NoLostWakeup'
    BY <1>8 DEF IdleStep, DispatchIdle, CallReturns, DispatchEnds, Expire, UpdateIdleTimer
  <2> QED BY <1>8, <2>2, <2>3 DEF IdleStep, timerVars
<1>9. ASSUME DispatchTimers PROVE WakeupInv'
  <2> DEFINE past == {c \in Callbacks : timer[c] = "past"}
  <2>1. IsFiniteSet(past)
    BY FrameLoopAssumption, FS_Subset
  <2>2. toFire' \in Seq(past)
    BY <1>9, <2>1, SetToSeqsContains DEF DispatchTimers
  <2>3. toFire' \in Seq(Callbacks)
    BY <2>2
  <2>4. timer' \in [Callbacks -> {"none", "waiting", "now", "past"}]
    BY <1>9 DEF DispatchTimers
  <2> QED BY <1>9, <2>3, <2>4 DEF DispatchTimers, idleVars
<1>10. ASSUME FireNext PROVE WakeupInv'
  <2>1. Head(toFire) \in Callbacks /\ toFire' \in Seq(Callbacks)
    BY <1>10, TailContains DEF FireNext
  <2>2. scheduled' \in [Callbacks -> BOOLEAN]
    BY <1>10, <2>1 DEF FireNext, FrameCb
  <2>3. frames' \in [Callbacks -> {0, 1}]
    BY <1>10, <2>1 DEF FireNext, FrameCb
  <2> QED BY <1>10, <2>1, <2>2, <2>3 DEF FireNext, idleVars
<1>11. ASSUME FireReturns \/ FiringEnds PROVE WakeupInv'
  <2>1. timerfd' \in {"far", "set", "readable"} /\ firing' \in {"off", "between", "inside"}
    BY <1>11 DEF FireReturns, FiringEnds, UpdateTimerFD
  <2> QED BY <1>11, <2>1 DEF FireReturns, FiringEnds, idleVars
<1>12. ASSUME UNCHANGED loopVars PROVE WakeupInv'
  BY <1>12 DEF loopVars, idleVars, timerVars
<1> QED BY <1>1, <1>2, <1>3, <1>4, <1>5, <1>6, <1>7, <1>8, <1>9, <1>10, <1>11, <1>12 DEF FrameLoopNext

\* A queued callback always finds the timer of the queue expired, for any number
\* of outputs, whoever queued it and whatever was removed meanwhile, and also
\* when outputs are destroyed with their callback queued (addIdleEvent,
\* removeIdleEvent, dispatchIdle and updateIdleTimer of Backend.cpp).
THEOREM NoWakeupIsLost == FrameLoopSpec => []NoLostWakeup
<1>1. FrameLoopInit => WakeupInv
  BY TypesInit
<1>2. WakeupInv /\ [FrameLoopNext]_loopVars => WakeupInv'
  BY WakeupStep
<1>3. WakeupInv => NoLostWakeup
  BY DEF WakeupInv
<1> QED BY <1>1, <1>2, <1>3, PTL DEF FrameLoopSpec

-----------------------------------------------------------------------------
(* One place for every callback.                                           *)

\* Nothing is in an empty queue.
LEMMA EmptyContains == Once(<<>>) /\ \A d : ~Contains(<<>>, d)
  BY DEF Once, Contains

LEMMA OnceInit == FrameLoopInit => OnceInv /\ AliveInv
  BY EmptyContains DEF FrameLoopInit, IdleInit, OnceInv, AliveInv, Queued

\* A step that touches neither the queues nor what is known of the outputs.
LEMMA OnceUnchanged ==
    ASSUME OnceInv, UNCHANGED <<pending, batch, toFire, timer, scheduled, dispatch, firing>>
    PROVE  OnceInv'
  BY DEF OnceInv, Queued, Once, Contains

LEMMA OnceStep ==
    ASSUME WakeupInv, OnceInv, [FrameLoopNext]_loopVars
    PROVE  OnceInv'
<1> USE DEF OnceInv, Queued
<1>t. /\ pending \in Seq(Callbacks) /\ batch \in Seq(Callbacks) /\ toFire \in Seq(Callbacks)
      /\ scheduled \in [Callbacks -> BOOLEAN]
      /\ timer \in [Callbacks -> {"none", "waiting", "now", "past"}]
  BY DEF WakeupInv, FrameLoopTypeOK, IdleTypeOK
<1>1. ASSUME NEW c \in Callbacks, ScheduleNow(c) PROVE OnceInv'
  <2>1. ~Queued(c) /\ ~Contains(toFire, c) /\ timer[c] = "none"
    BY <1>1 DEF ScheduleNow
  <2>2. /\ pending' = Append(pending, c)
        /\ UNCHANGED <<batch, toFire, timer, dispatch, firing>>
    BY <1>1 DEF ScheduleNow, AddIdleEvent, timerVars
  <2>3. Once(pending') /\ \A d : Contains(pending', d) <=> Contains(pending, d) \/ d = c
    BY <1>t, <2>1, <2>2, AppendContains
  <2>4. scheduled'[c] /\ \A d \in Callbacks : scheduled[d] => scheduled'[d]
    BY <1>1, <1>t DEF ScheduleNow
  <2> QED BY <2>1, <2>2, <2>3, <2>4 DEF Once, Contains
<1>2. ASSUME NEW c \in Callbacks, ScheduleLater(c) PROVE OnceInv'
  <2>1. ~Queued(c) /\ ~Contains(toFire, c)
    BY <1>2 DEF ScheduleLater
  <2>2. /\ \A d \in Callbacks \ {c} : timer'[d] = timer[d]
        /\ UNCHANGED <<pending, batch, toFire, dispatch, firing>>
    BY <1>2, <1>t DEF ScheduleLater, AddTimer, idleVars
  <2>4. scheduled'[c] /\ \A d \in Callbacks : scheduled[d] => scheduled'[d]
    BY <1>2, <1>t DEF ScheduleLater
  <2> QED BY <2>1, <2>2, <2>4 DEF Once, Contains
<1>3. ASSUME NEW c \in Callbacks, CreateOutput(c) PROVE OnceInv'
  <2>1. ~Contains(pending \o batch \o toFire, c) /\ timer[c] = "none"
    BY <1>3 DEF CreateOutput
  <2>2. ~Queued(c) /\ ~Contains(toFire, c)
    <3>1. pending \o batch \in Seq(Callbacks) /\ (Queued(c) => Contains(pending \o batch, c))
      BY <1>t, ConcatContains
    <3> QED BY <1>t, <2>1, <3>1, ConcatContains
  <2>3. UNCHANGED <<pending, batch, toFire, timer, dispatch, firing>>
    BY <1>3 DEF CreateOutput, idleVars, timerVars
  <2>4. \A d \in Callbacks \ {c} : scheduled'[d] = scheduled[d]
    BY <1>3, <1>t DEF CreateOutput
  <2> QED BY <2>1, <2>2, <2>3, <2>4 DEF Once, Contains
<1>4. ASSUME NEW c \in Callbacks, DestroyHeadless(c) PROVE OnceInv'
  BY <1>4, OnceUnchanged DEF DestroyHeadless, idleVars, timerVars
<1>5. ASSUME NEW c \in Callbacks, DestroyDrm(c) PROVE OnceInv'
  <2>1. /\ pending' = Keep(pending, Callbacks \ {c})
        /\ UNCHANGED <<batch, toFire, timer, scheduled, dispatch, firing>>
    BY <1>5 DEF DestroyDrm, RemoveIdleEvent, timerVars
  <2>2. Once(pending') /\ \A d : Contains(pending', d) => Contains(pending, d)
    BY <1>t, <2>1, KeepProperties
  <2>3. /\ Once(batch') /\ \A d : Contains(batch', d) <=> Contains(batch, d)
        /\ Once(toFire') /\ \A d : Contains(toFire', d) <=> Contains(toFire, d)
    BY <2>1 DEF Once, Contains
  <2> QED BY <2>1, <2>2, <2>3
<1>6. ASSUME NEW c \in Callbacks, TimerDue(c) \/ TimerPasses(c) PROVE OnceInv'
  <2>1. /\ \A d \in Callbacks : timer'[d] # "none" => timer[d] # "none"
        /\ UNCHANGED <<pending, batch, toFire, scheduled, dispatch, firing>>
    BY <1>6, <1>t DEF TimerDue, TimerPasses, idleVars
  <2> QED BY <2>1 DEF Once, Contains
<1>7. ASSUME IdleFrame PROVE OnceInv'
  <2> DEFINE c == Head(batch)
  <2>1. /\ batch # <<>> /\ batch' = Tail(batch) /\ dispatch' = "inside"
        /\ UNCHANGED <<pending, toFire, timer, firing>>
    BY <1>7 DEF IdleFrame, CallNext, timerVars
  <2>2. /\ c \in Callbacks /\ Contains(batch, c) /\ Once(batch') /\ ~Contains(batch', c)
        /\ \A d : Contains(batch', d) => Contains(batch, d)
    BY <1>t, <2>1, TailContains
  <2>3. \A d \in Callbacks \ {c} : scheduled'[d] = scheduled[d]
    BY <1>7, <1>t, <2>2 DEF IdleFrame, FrameCb
  <2> HIDE DEF c
  <2>4. ~Contains(pending, c) /\ ~Contains(toFire, c) /\ timer[c] = "none"
    BY <2>2
  <2> QED BY <2>1, <2>2, <2>3, <2>4 DEF Once, Contains
<1>8. ASSUME IdleStep PROVE OnceInv'
  <2>1. CASE DispatchIdle
    <3>1. batch' = pending /\ pending' = <<>> /\ dispatch' = "between" /\ batch = <<>>
      BY <2>1 DEF DispatchIdle
    <3>2. UNCHANGED <<toFire, timer, scheduled, firing>>
      BY <1>8 DEF IdleStep, timerVars
    <3>3. Once(pending') /\ \A d : ~Contains(pending', d)
      BY <3>1, EmptyContains
    <3>4. Once(batch') /\ \A d : Contains(batch', d) <=> Contains(pending, d)
      BY <3>1 DEF Once, Contains
    <3>5. Once(toFire') /\ \A d : Contains(toFire', d) <=> Contains(toFire, d)
      BY <3>2 DEF Once, Contains
    <3> QED BY <3>1, <3>2, <3>3, <3>4, <3>5
  <2>2. CASE CallReturns \/ DispatchEnds \/ Expire
    <3>1. UNCHANGED <<pending, batch, toFire, timer, scheduled, firing>>
      BY <1>8, <2>2 DEF IdleStep, timerVars, CallReturns, DispatchEnds, Expire
    <3>2. dispatch' = "off" => batch = <<>>
      BY <2>2 DEF CallReturns, DispatchEnds, Expire
    <3> QED BY <3>1, <3>2 DEF Once, Contains
  <2> QED BY <1>8, <2>1, <2>2 DEF IdleStep
<1>9. ASSUME DispatchTimers PROVE OnceInv'
  <2> DEFINE past == {c \in Callbacks : timer[c] = "past"}
  <2>1. IsFiniteSet(past)
    BY FrameLoopAssumption, FS_Subset
  <2>2. Once(toFire') /\ \A d : Contains(toFire', d) => d \in past
    BY <1>9, <2>1, SetToSeqsContains DEF DispatchTimers
  <2>3. /\ \A d \in Callbacks : timer'[d] = IF d \in past THEN "none" ELSE timer[d]
        /\ firing' = "between" /\ toFire = <<>>
        /\ UNCHANGED <<pending, batch, scheduled, dispatch>>
    BY <1>9 DEF DispatchTimers, idleVars
  <2> QED BY <2>2, <2>3, SMTT(30) DEF Once, Contains
<1>10. ASSUME FireNext PROVE OnceInv'
  <2> DEFINE c == Head(toFire)
  <2>1. /\ toFire # <<>> /\ toFire' = Tail(toFire) /\ firing' # "off"
        /\ UNCHANGED <<pending, batch, timer, dispatch>>
    BY <1>10 DEF FireNext, idleVars
  <2>2. /\ c \in Callbacks /\ Contains(toFire, c) /\ Once(toFire') /\ ~Contains(toFire', c)
        /\ \A d : Contains(toFire', d) => Contains(toFire, d)
    BY <1>t, <2>1, TailContains
  <2>3. \A d \in Callbacks \ {c} : scheduled'[d] = scheduled[d]
    BY <1>10, <1>t, <2>2 DEF FireNext, FrameCb
  <2> HIDE DEF c
  <2>4. ~Queued(c) /\ timer[c] = "none"
    BY <2>2
  <2> QED BY <2>1, <2>2, <2>3, <2>4 DEF Once, Contains
<1>11. ASSUME FireReturns \/ FiringEnds PROVE OnceInv'
  <2>1. /\ UNCHANGED <<pending, batch, toFire, timer, scheduled, dispatch>>
        /\ firing' = "off" => toFire = <<>>
    BY <1>11 DEF FireReturns, FiringEnds, idleVars
  <2> QED BY <2>1 DEF Once, Contains
<1>12. ASSUME UNCHANGED loopVars PROVE OnceInv'
  BY <1>12, OnceUnchanged DEF loopVars, idleVars, timerVars
<1> QED BY <1>1, <1>2, <1>3, <1>4, <1>5, <1>6, <1>7, <1>8, <1>9, <1>10, <1>11, <1>12 DEF FrameLoopNext

\* An output that cannot be destroyed with its callback out of reach is there
\* when the queue calls it.
LEMMA AliveStep ==
    ASSUME ~DestroyQueued, WakeupInv, OnceInv, AliveInv, [FrameLoopNext]_loopVars
    PROVE  AliveInv'
<1> USE DEF AliveInv, Queued
<1>t. pending \in Seq(Callbacks) /\ batch \in Seq(Callbacks)
  BY DEF WakeupInv, FrameLoopTypeOK, IdleTypeOK
<1>1. ASSUME NEW c \in Callbacks, ScheduleNow(c) PROVE AliveInv'
  <2>1. /\ pending' = Append(pending, c) /\ c \in alive
        /\ UNCHANGED <<batch, alive>>
    BY <1>1 DEF ScheduleNow, AddIdleEvent
  <2>2. \A d : Contains(pending', d) <=> Contains(pending, d) \/ d = c
    BY <1>t, <2>1, AppendContains
  <2> QED BY <2>1, <2>2 DEF Contains
<1>2. ASSUME NEW c \in Callbacks, CreateOutput(c) PROVE AliveInv'
  BY <1>2 DEF CreateOutput, idleVars, Contains
<1>3. ASSUME NEW c \in Callbacks, DestroyHeadless(c) PROVE AliveInv'
  <2>1. ~Queued(c)
    BY <1>3, <1>t, ConcatContains DEF DestroyHeadless
  <2> QED BY <1>3, <2>1 DEF DestroyHeadless, idleVars, Contains
<1>4. ASSUME NEW c \in Callbacks, DestroyDrm(c) PROVE AliveInv'
  <2>1. /\ pending' = Keep(pending, Callbacks \ {c}) /\ batch' = batch /\ alive' = alive \ {c}
        /\ ~Contains(batch, c)
    BY <1>4 DEF DestroyDrm, RemoveIdleEvent
  <2>2. \A d : Contains(pending', d) => Contains(pending, d) /\ d # c
    BY <1>t, <2>1, KeepProperties
  <2>3. \A d : Contains(batch', d) => Contains(batch, d) /\ d # c
    BY <2>1
  <2> QED BY <2>1, <2>2, <2>3
<1>5. ASSUME IdleFrame PROVE AliveInv'
  <2>1. batch # <<>> /\ batch' = Tail(batch) /\ UNCHANGED <<pending, alive>>
    BY <1>5 DEF IdleFrame, CallNext
  <2>2. \A d : Contains(batch', d) => Contains(batch, d)
    BY <1>t, <2>1, TailContains
  <2> QED BY <2>1, <2>2 DEF Contains
<1>6. ASSUME IdleStep PROVE AliveInv'
  <2>1. CASE DispatchIdle
    BY <1>6, <2>1, EmptyContains DEF DispatchIdle, IdleStep, Contains
  <2>2. CASE CallReturns \/ DispatchEnds \/ Expire
    BY <1>6, <2>2 DEF IdleStep, CallReturns, DispatchEnds, Expire, Contains
  <2> QED BY <1>6, <2>1, <2>2 DEF IdleStep
<1>7. ASSUME UNCHANGED <<pending, batch, alive>> PROVE AliveInv'
  BY <1>7 DEF Contains
<1>8. ASSUME \/ \E c \in Callbacks : ScheduleLater(c) \/ TimerDue(c) \/ TimerPasses(c)
             \/ DispatchTimers \/ FireNext \/ FireReturns \/ FiringEnds
             \/ UNCHANGED loopVars
      PROVE  UNCHANGED <<pending, batch, alive>>
  BY <1>8 DEF ScheduleLater, TimerDue, TimerPasses, DispatchTimers, FireNext, FireReturns,
              FiringEnds, loopVars, idleVars
<1> QED BY <1>1, <1>2, <1>3, <1>4, <1>5, <1>6, <1>7, <1>8 DEF FrameLoopNext

-----------------------------------------------------------------------------
(* The refinement.                                                         *)

asked == {c \in alive : scheduled[c]}

\* Every step of the loop is one of the promise, or changes nothing the user
\* can see.
LEMMA ClockStep ==
    ASSUME ~DestroyQueued, WakeupInv, OnceInv, AliveInv, [FrameLoopNext]_loopVars
    PROVE  [Clock!ClockNext]_(Clock!clock)
<1>s. ASSUME UNCHANGED <<alive, scheduled, frames>> PROVE UNCHANGED Clock!clock
  BY <1>s DEF Clock!clock
<1>t. /\ scheduled \in [Callbacks -> BOOLEAN] /\ alive \subseteq Callbacks
      /\ frames \in [Callbacks -> {0, 1}]
      /\ batch \in Seq(Callbacks) /\ toFire \in Seq(Callbacks)
  BY DEF WakeupInv, FrameLoopTypeOK, IdleTypeOK
<1>1. ASSUME NEW c \in Callbacks, ScheduleNow(c) \/ ScheduleLater(c) PROVE Clock!Ask(c)
  <2>1. /\ c \in alive /\ UNCHANGED <<alive, frames>>
        /\ scheduled' = [scheduled EXCEPT ![c] = TRUE]
    BY <1>1 DEF ScheduleNow, ScheduleLater
  <2>2. asked' = asked \cup {c}
    BY <1>t, <2>1 DEF asked
  <2> QED BY <2>1, <2>2 DEF Clock!Ask, asked
<1>2. ASSUME NEW c \in Callbacks, CreateOutput(c) PROVE Clock!Open(c)
  <2>1. /\ c \notin alive /\ alive' = alive \cup {c} /\ UNCHANGED frames
        /\ scheduled' = [scheduled EXCEPT ![c] = FALSE]
    BY <1>2 DEF CreateOutput
  <2>2. asked' = asked
    BY <1>t, <2>1 DEF asked
  <2> QED BY <2>1, <2>2 DEF Clock!Open, asked
<1>3. ASSUME NEW c \in Callbacks, DestroyHeadless(c) \/ DestroyDrm(c) PROVE Clock!Close(c)
  <2>1. c \in alive /\ alive' = alive \ {c} /\ UNCHANGED <<scheduled, frames>>
    BY <1>3 DEF DestroyHeadless, DestroyDrm
  <2>2. asked' = asked \ {c}
    BY <2>1 DEF asked
  <2> QED BY <2>1, <2>2 DEF Clock!Close, asked
<1>4. ASSUME NEW c \in alive, scheduled[c], FrameCb(c), UNCHANGED alive PROVE Clock!Give(c)
  <2>1. asked' = asked \ {c} /\ c \in asked
    BY <1>4, <1>t DEF asked, FrameCb
  <2> QED BY <1>4, <2>1 DEF Clock!Give, asked, FrameCb
<1>5. ASSUME IdleFrame PROVE \E c \in Callbacks : Clock!Give(c)
  <2>1. batch # <<>> /\ FrameCb(Head(batch)) /\ UNCHANGED alive
    BY <1>5 DEF IdleFrame, CallNext
  <2>2. Head(batch) \in Callbacks /\ Contains(batch, Head(batch))
    BY <1>t, <2>1, TailContains
  <2>3. Head(batch) \in alive /\ scheduled[Head(batch)]
    BY <2>2 DEF OnceInv, AliveInv, Queued
  <2> QED BY <1>4, <2>1, <2>2, <2>3
<1>6. ASSUME FireNext PROVE \/ \E c \in Callbacks : Clock!Give(c)
                            \/ UNCHANGED <<alive, scheduled, frames>>
  <2>1. toFire # <<>> /\ UNCHANGED alive
    BY <1>6 DEF FireNext
  <2>2. Head(toFire) \in Callbacks /\ Contains(toFire, Head(toFire))
    BY <1>t, <2>1, TailContains
  <2>3. scheduled[Head(toFire)]
    BY <2>2 DEF OnceInv
  <2>4. CASE Head(toFire) \in alive
    <3>1. FrameCb(Head(toFire))
      BY <1>6, <2>4 DEF FireNext
    <3> QED BY <1>4, <2>1, <2>2, <2>3, <2>4, <3>1
  <2>5. CASE Head(toFire) \notin alive
    BY <1>6, <2>5 DEF FireNext
  <2> QED BY <2>4, <2>5
<1>7. ASSUME \/ \E c \in Callbacks : TimerDue(c) \/ TimerPasses(c)
             \/ IdleStep \/ DispatchTimers \/ FireReturns \/ FiringEnds
             \/ UNCHANGED loopVars
      PROVE  UNCHANGED <<alive, scheduled, frames>>
  BY <1>7 DEF TimerDue, TimerPasses, IdleStep, DispatchTimers, FireReturns, FiringEnds, loopVars
<1>8. CASE \E c \in Callbacks : Clock!Open(c) \/ Clock!Close(c) \/ Clock!Ask(c) \/ Clock!Give(c)
  BY <1>8 DEF Clock!ClockNext
<1> QED BY <1>1, <1>2, <1>3, <1>5, <1>6, <1>7, <1>8, <1>s DEF FrameLoopNext

\* The outputs keep the safety half of scheduleFrame's promise, for any number
\* of them: a frame event is given only to an output that exists and asked for
\* it, once for every request, through the queue, through timers, and whatever
\* the user does inside the events.  The assumption is the one the code needs:
\* an output is not destroyed while its callback is where the destructor does
\* not take it back from (~CHeadlessOutput, and ~CDRMOutput during dispatchIdle).
THEOREM LoopIsFrameClock ==
    ASSUME ~DestroyQueued
    PROVE  FrameLoopSpec => Clock!ClockSafe
<1> DEFINE Inv == WakeupInv /\ OnceInv /\ AliveInv
<1>1. FrameLoopInit => Inv
  BY TypesInit, OnceInit
<1>2. Inv /\ [FrameLoopNext]_loopVars => Inv'
  BY WakeupStep, OnceStep, AliveStep
<1>3. FrameLoopInit => Clock!ClockInit
  BY DEF FrameLoopInit, Clock!ClockInit
<1>4. Inv /\ [FrameLoopNext]_loopVars => [Clock!ClockNext]_(Clock!clock)
  BY ClockStep
<1> HIDE DEF Inv
<1> QED BY <1>1, <1>2, <1>3, <1>4, PTL DEF FrameLoopSpec, Clock!ClockSafe

-----------------------------------------------------------------------------
(* Nested outputs.                                                         *)

\* The handlers' plans are short: what is in them, their heads and tails.
LEMMA TupleContents ==
    /\ \A x : ~Contains(<<>>, x)
    /\ \A a, x : Contains(<<a>>, x) <=> x = a
    /\ \A a, b, x : Contains(<<a, b>>, x) <=> x \in {a, b}
    /\ \A a, b, c, x : Contains(<<a, b, c>>, x) <=> x \in {a, b, c}
    /\ \A a, b, c, d, x : Contains(<<a, b, c, d>>, x) <=> x \in {a, b, c, d}
    /\ \A a, b, c, d, e, x : Contains(<<a, b, c, d, e>>, x) <=> x \in {a, b, c, d, e}
  BY DEF Contains

LEMMA TupleTails ==
    /\ \A a : Tail(<<a>>) = <<>>
    /\ \A a, b : Tail(<<a, b>>) = <<b>>
    /\ \A a, b, c : Tail(<<a, b, c>>) = <<b, c>>
    /\ \A a, b, c, d : Tail(<<a, b, c, d>>) = <<b, c, d>>
    /\ \A a, b, c, d, e : Tail(<<a, b, c, d, e>>) = <<b, c, d, e>>
  OBVIOUS

LEMMA TupleHeads ==
    /\ \A a : Head(<<a>>) = a /\ <<a>> # <<>>
    /\ \A a, b : Head(<<a, b>>) = a /\ <<a, b>> # <<>>
    /\ \A a, b, c : Head(<<a, b, c>>) = a /\ <<a, b, c>> # <<>>
    /\ \A a, b, c, d : Head(<<a, b, c, d>>) = a /\ <<a, b, c, d>> # <<>>
    /\ \A a, b, c, d, e : Head(<<a, b, c, d, e>>) = a /\ <<a, b, c, d, e>> # <<>>
  OBVIOUS

LEMMA Joined ==
    ASSUME NEW T, NEW p \in Seq(T), NEW q \in Seq(T), NEW r \in Seq(T), Len(r) = Len(p) + Len(q),
           \A i \in 1 .. Len(r) : r[i] = IF i <= Len(p) THEN p[i] ELSE q[i - Len(p)]
    PROVE  p \o q = r
<1>1. /\ p \o q \in Seq(T) /\ Len(p \o q) = Len(p) + Len(q)
      /\ \A i \in 1 .. Len(p) + Len(q) : (p \o q)[i] = IF i <= Len(p) THEN p[i] ELSE q[i - Len(p)]
  BY ConcatProperties
<1>2. PICK s : s = p \o q
  OBVIOUS
<1>3. s \in Seq(T) /\ Len(s) = Len(r) /\ \A i \in 1 .. Len(s) : s[i] = r[i]
  BY <1>1, <1>2
<1> QED BY <1>2, <1>3, SeqEqual

LEMMA TupleJoins ==
    /\ \A a, b : <<a>> \o <<b>> = <<a, b>>
    /\ \A a, b, c : <<a, b>> \o <<c>> = <<a, b, c>>
    /\ \A a, b, c : <<a>> \o <<b, c>> = <<a, b, c>>
    /\ \A a, b, c, d : <<a, b>> \o <<c, d>> = <<a, b, c, d>>
    /\ \A a, b, c, d, e : <<a, b, c, d>> \o <<e>> = <<a, b, c, d, e>>
    /\ \A a : <<>> \o <<a>> = <<a>>
    /\ \A a, b : <<>> \o <<a, b>> = <<a, b>>
<1>1. ASSUME NEW a, NEW b PROVE <<a>> \o <<b>> = <<a, b>>
  <2>1. PICK T, p, q, r : T = {a, b} /\ p = <<a>> /\ q = <<b>> /\ r = <<a, b>>
    OBVIOUS
  <2>2. /\ p \in Seq(T) /\ q \in Seq(T) /\ r \in Seq(T) /\ Len(r) = Len(p) + Len(q)
        /\ \A i \in 1 .. Len(r) : r[i] = IF i <= Len(p) THEN p[i] ELSE q[i - Len(p)]
    BY <2>1
  <2>3. p \o q = r
    BY <2>2, Joined
  <2> QED BY <2>1, <2>3
<1>2. ASSUME NEW a, NEW b, NEW c PROVE <<a, b>> \o <<c>> = <<a, b, c>>
  <2>1. PICK T, p, q, r : T = {a, b, c} /\ p = <<a, b>> /\ q = <<c>> /\ r = <<a, b, c>>
    OBVIOUS
  <2>2. /\ p \in Seq(T) /\ q \in Seq(T) /\ r \in Seq(T) /\ Len(r) = Len(p) + Len(q)
        /\ \A i \in 1 .. Len(r) : r[i] = IF i <= Len(p) THEN p[i] ELSE q[i - Len(p)]
    BY <2>1
  <2>3. p \o q = r
    BY <2>2, Joined
  <2> QED BY <2>1, <2>3
<1>3. ASSUME NEW a, NEW b, NEW c PROVE <<a>> \o <<b, c>> = <<a, b, c>>
  <2>1. PICK T, p, q, r : T = {a, b, c} /\ p = <<a>> /\ q = <<b, c>> /\ r = <<a, b, c>>
    OBVIOUS
  <2>2. /\ p \in Seq(T) /\ q \in Seq(T) /\ r \in Seq(T) /\ Len(r) = Len(p) + Len(q)
        /\ \A i \in 1 .. Len(r) : r[i] = IF i <= Len(p) THEN p[i] ELSE q[i - Len(p)]
    BY <2>1
  <2>3. p \o q = r
    BY <2>2, Joined
  <2> QED BY <2>1, <2>3
<1>4. ASSUME NEW a, NEW b, NEW c, NEW d PROVE <<a, b>> \o <<c, d>> = <<a, b, c, d>>
  <2>1. PICK T, p, q, r : T = {a, b, c, d} /\ p = <<a, b>> /\ q = <<c, d>> /\ r = <<a, b, c, d>>
    OBVIOUS
  <2>2. /\ p \in Seq(T) /\ q \in Seq(T) /\ r \in Seq(T) /\ Len(r) = Len(p) + Len(q)
        /\ \A i \in 1 .. Len(r) : r[i] = IF i <= Len(p) THEN p[i] ELSE q[i - Len(p)]
    BY <2>1
  <2>3. p \o q = r
    BY <2>2, Joined
  <2> QED BY <2>1, <2>3
<1>5. ASSUME NEW a, NEW b, NEW c, NEW d, NEW e PROVE <<a, b, c, d>> \o <<e>> = <<a, b, c, d, e>>
  <2>1. PICK T, p, q, r : T = {a, b, c, d, e} /\ p = <<a, b, c, d>> /\ q = <<e>> /\ r = <<a, b, c, d, e>>
    OBVIOUS
  <2>2. /\ p \in Seq(T) /\ q \in Seq(T) /\ r \in Seq(T) /\ Len(r) = Len(p) + Len(q)
        /\ \A i \in 1 .. Len(r) : r[i] = IF i <= Len(p) THEN p[i] ELSE q[i - Len(p)]
    BY <2>1
  <2>3. p \o q = r
    BY <2>2, Joined
  <2> QED BY <2>1, <2>3
<1>6. ASSUME NEW a, NEW b PROVE <<>> \o <<a>> = <<a>> /\ <<>> \o <<a, b>> = <<a, b>>
  <2>1. <<a>> \in Seq({a, b}) /\ <<a, b>> \in Seq({a, b})
    OBVIOUS
  <2> QED BY <2>1, ConcatEmptySeq
<1> QED BY <1>1, <1>2, <1>3, <1>4, <1>5, <1>6

Has(what, o) == Contains(steps, Step(what, o))

\* The ends of a handler: the idle callbacks that are still to run, or the loop
\* over them.
Lasts == {Flush} \cup {Step("idle", <<i, Len(idleCbs)>>) : i \in 1 .. Len(idleCbs) + 1}

\* What a handler may have left to do: of a frame event, ...
SendPlans(o, l) == {<<User, Step("send", o), l>>, <<Step("send", o), l>>,
                    <<User, Step("sent", o), l>>, <<Step("sent", o), l>>}

\* ... and of onFrameDone.
DonePlans(o) == {<<User, Step("schedule", o), Step("answer", o), Step("answered", o), Flush>>,
                 <<Step("schedule", o), Step("answer", o), Step("answered", o), Flush>>,
                 <<Step("answer", o), Step("answered", o), Flush>>,
                 <<Step("send", o), Step("answered", o), Flush>>,
                 <<User, Step("sent", o), Step("answered", o), Flush>>,
                 <<Step("sent", o), Step("answered", o), Flush>>,
                 <<User, Step("answered", o), Flush>>,
                 <<Step("answered", o), Flush>>}

WlShape ==
    \/ steps = <<>>
    \/ \E l \in Lasts : steps \in {<<l>>, <<User, l>>}
    \/ \E o \in WlOutputs : \E l \in Lasts : steps \in SendPlans(o, l)
    \/ \E o \in WlOutputs : steps \in DonePlans(o)

\* Something is on its way that lowers frameScheduled: the rest of the handler,
\* the host's answer, or an idle callback that the loop has not passed.
Pend(o) ==
    wl[o].alive /\ wl[o].scheduled =>
        \/ Has("send", o) \/ Has("sent", o)
        \/ Has("answer", o) /\ wl[o].waiting
        \/ wl[o].waiting /\ wl[o].callback
        \/ \E k \in 1 .. Len(idleCbs) :
              /\ idleCbs[k] = Step("frame", o)
              /\ \A i : Contains(steps, Step("idle", i)) => i[1] <= k

\* onFrameDone forgets that a frame was waited for only when no new frame
\* callback was set, or nothing is scheduled.
Answering(o) ==
    wl[o].alive /\ wl[o].callback /\ Has("answered", o) =>
        Head(steps) = Step("answered", o) /\ ~wl[o].scheduled

WlTypes ==
    /\ wl \in [WlOutputs -> WlState]
    /\ idleCbs \in Seq({"new", "frame"} \X WlOutputs)
    /\ crash \in BOOLEAN

WlInv ==
    /\ WlTypes
    /\ ~crash => WlShape /\ \A o \in WlOutputs : Pend(o) /\ Answering(o)

LEMMA LastTags ==
    ASSUME NEW l \in Lasts, WlTypes
    PROVE  /\ l[1] = "flush" \/ l[1] = "idle"
           /\ l # User /\ (l[1] = "flush" => l = Flush)
           /\ \A o \in WlOutputs : l[1] = "flush" => l[2] # o
           /\ l[1] = "idle" => \E i \in 1 .. Len(idleCbs) + 1 : l = Step("idle", <<i, Len(idleCbs)>>)
<1>1. CASE l = Flush
  BY <1>1, WlAssumption DEF Flush, User
<1>2. CASE l # Flush
  BY <1>2 DEF Lasts, Step, User
<1> QED BY <1>1, <1>2

\* What the first step of the running handler says of the others.
LEMMA AtUser ==
    ASSUME WlTypes, WlShape, steps # <<>>, Head(steps)[1] = "user"
    PROVE  \/ \E l \in Lasts : steps = <<User, l>>
           \/ \E o \in WlOutputs : \E l \in Lasts :
                steps \in {<<User, Step("send", o), l>>, <<User, Step("sent", o), l>>}
           \/ \E o \in WlOutputs :
                steps \in {<<User, Step("schedule", o), Step("answer", o), Step("answered", o), Flush>>,
                           <<User, Step("sent", o), Step("answered", o), Flush>>,
                           <<User, Step("answered", o), Flush>>}
<1>1. ASSUME NEW l \in Lasts, steps \in {<<l>>, <<User, l>>} PROVE steps = <<User, l>>
  BY <1>1, LastTags, TupleHeads
<1>2. ASSUME NEW o \in WlOutputs, NEW l \in Lasts, steps \in SendPlans(o, l)
      PROVE  steps \in {<<User, Step("send", o), l>>, <<User, Step("sent", o), l>>}
  BY <1>2, TupleHeads DEF SendPlans, Step, User
<1>3. ASSUME NEW o \in WlOutputs, steps \in DonePlans(o)
      PROVE  steps \in {<<User, Step("schedule", o), Step("answer", o), Step("answered", o), Flush>>,
                        <<User, Step("sent", o), Step("answered", o), Flush>>,
                        <<User, Step("answered", o), Flush>>}
  BY <1>3, TupleHeads DEF DonePlans, Step, User
<1> QED BY <1>1, <1>2, <1>3 DEF WlShape

LEMMA AtLast ==
    ASSUME WlTypes, WlShape, steps # <<>>, Head(steps)[1] \in {"flush", "idle"}
    PROVE  \E l \in Lasts : steps = <<l>> /\ Head(steps) = l
<1>1. ASSUME NEW l \in Lasts, steps \in {<<l>>, <<User, l>>} PROVE steps = <<l>> /\ Head(steps) = l
  BY <1>1, TupleHeads DEF User
<1>2. ASSUME NEW o \in WlOutputs, NEW l \in Lasts, steps \in SendPlans(o, l) PROVE FALSE
  BY <1>2, TupleHeads DEF SendPlans, Step, User
<1>3. ASSUME NEW o \in WlOutputs, steps \in DonePlans(o) PROVE FALSE
  BY <1>3, TupleHeads DEF DonePlans, Step, User
<1> QED BY <1>1, <1>2, <1>3 DEF WlShape

LEMMA AtOutput ==
    ASSUME WlTypes, WlShape, steps # <<>>, Head(steps)[1] \notin {"flush", "idle", "user"}
    PROVE  \E o \in WlOutputs :
              /\ Of = o
              /\ \/ \E l \in Lasts : steps \in {<<Step("send", o), l>>, <<Step("sent", o), l>>}
                 \/ steps \in {<<Step("schedule", o), Step("answer", o), Step("answered", o), Flush>>,
                               <<Step("answer", o), Step("answered", o), Flush>>,
                               <<Step("send", o), Step("answered", o), Flush>>,
                               <<Step("sent", o), Step("answered", o), Flush>>,
                               <<Step("answered", o), Flush>>}
<1>1. ASSUME NEW l \in Lasts, steps \in {<<l>>, <<User, l>>} PROVE FALSE
  BY <1>1, TupleHeads, LastTags DEF User
<1>2. ASSUME NEW o \in WlOutputs, NEW l \in Lasts, steps \in SendPlans(o, l)
      PROVE  Of = o /\ steps \in {<<Step("send", o), l>>, <<Step("sent", o), l>>}
  BY <1>2, TupleHeads DEF SendPlans, Step, User, Of
<1>3. ASSUME NEW o \in WlOutputs, steps \in DonePlans(o)
      PROVE  /\ Of = o
             /\ steps \in {<<Step("schedule", o), Step("answer", o), Step("answered", o), Flush>>,
                           <<Step("answer", o), Step("answered", o), Flush>>,
                           <<Step("send", o), Step("answered", o), Flush>>,
                           <<Step("sent", o), Step("answered", o), Flush>>,
                           <<Step("answered", o), Flush>>}
  BY <1>3, TupleHeads DEF DonePlans, Step, User, Of
<1> QED BY <1>1, <1>2, <1>3 DEF WlShape

LEMMA PendKept ==
    ASSUME NEW p \in WlOutputs, Pend(p), idleCbs' = idleCbs,
           wl'[p].alive /\ wl'[p].scheduled =>
               /\ wl[p].alive /\ wl[p].scheduled
               /\ wl[p].waiting => wl'[p].waiting
               /\ wl[p].waiting /\ wl[p].callback => wl'[p].callback,
           Has("send", p) \/ Has("sent", p) => Has("send", p)' \/ Has("sent", p)',
           Has("answer", p) /\ wl[p].waiting => Has("answer", p)' \/ Has("send", p)',
           \A i : Contains(steps', Step("idle", i)) => Contains(steps, Step("idle", i))
    PROVE  Pend(p)'
  BY DEF Pend, Has, Step

\* The handlers that do not run in the loop over the idle callbacks.
FlushShape ==
    \/ steps = <<>>
    \/ steps \in {<<Flush>>, <<User, Flush>>}
    \/ \E o \in WlOutputs : steps \in SendPlans(o, Flush) \cup DonePlans(o)

LEMMA NotIterating ==
    ASSUME WlTypes, WlShape, ~Iterating
    PROVE  FlushShape /\ \A i : ~Contains(steps, Step("idle", i))
<1>1. \A i : ~Contains(steps, Step("idle", i))
  BY DEF Iterating, Contains, Step
<1>2. ASSUME NEW l \in Lasts, Contains(steps, l) PROVE l = Flush
  <2>1. CASE l[1] = "idle"
    BY <1>1, <1>2, <2>1, LastTags
  <2> QED BY <2>1, LastTags
<1>3. ASSUME NEW l \in Lasts, steps \in {<<l>>, <<User, l>>} PROVE FlushShape
  <2>1. Contains(steps, l)
    BY <1>3, TupleContents
  <2> QED BY <1>2, <1>3, <2>1 DEF FlushShape
<1>4. ASSUME NEW o \in WlOutputs, NEW l \in Lasts, steps \in SendPlans(o, l) PROVE FlushShape
  <2>1. Contains(steps, l)
    BY <1>4, TupleContents DEF SendPlans
  <2>2. l = Flush
    BY <1>2, <2>1
  <2> QED BY <1>4, <2>2 DEF FlushShape
<1> QED BY <1>1, <1>3, <1>4 DEF WlShape, FlushShape

LEMMA FlushIsLast == Flush \in Lasts /\ (Flush \in Lasts)'
  BY DEF Lasts

LEMMA FlushShapes == (FlushShape => WlShape) /\ (FlushShape' => WlShape')
<1>1. FlushShape => WlShape
  BY FlushIsLast DEF FlushShape, WlShape
<1>2. FlushShape' => WlShape'
  BY FlushIsLast DEF FlushShape, WlShape, SendPlans, DonePlans
<1> QED BY <1>1, <1>2

\* scheduleFrame.
LEMMA ScheduledFacts ==
    ASSUME ~BusyIdle, WlTypes, ~crash, NEW o \in WlOutputs, Scheduled(o)
    PROVE  /\ WlTypes' /\ ~crash'
           /\ \A p \in WlOutputs : /\ wl'[p].alive = wl[p].alive
                                   /\ wl'[p].callback = wl[p].callback
                                   /\ wl[p].waiting => wl'[p].waiting
                                   /\ p # o => wl'[p] = wl[p]
           /\ \/ wl' = wl /\ idleCbs' = idleCbs
              \/ wl[o].callback /\ wl'[o].waiting /\ ~wl[o].scheduled /\ idleCbs' = idleCbs
              \/ /\ ~wl[o].callback /\ ~Iterating
                 /\ idleCbs' = Append(idleCbs, Step("frame", o))
<1>1. CASE wl[o].scheduled /\ UNCHANGED <<wl, idleCbs, crash>>
  BY <1>1 DEF WlTypes
<1>o. wl[o] \in WlState
  BY DEF WlTypes
<1>2. CASE /\ ~wl[o].scheduled /\ wl[o].callback
           /\ wl' = [wl EXCEPT ![o].scheduled = TRUE, ![o].waiting = TRUE]
           /\ UNCHANGED <<idleCbs, crash>>
  <2>1. PICK e : e = [wl[o] EXCEPT !.scheduled = TRUE, !.waiting = TRUE]
    OBVIOUS
  <2>2. /\ e \in WlState /\ e.alive = wl[o].alive /\ e.callback = wl[o].callback
        /\ e.waiting = TRUE /\ e.scheduled = TRUE
    BY <1>o, <2>1 DEF WlState
  <2>3. wl' = [wl EXCEPT ![o] = e]
    BY <1>2, <2>1
  <2>4. wl' \in [WlOutputs -> WlState] /\ wl'[o] = e /\ \A p \in WlOutputs : p # o => wl'[p] = wl[p]
    BY <2>2, <2>3 DEF WlTypes
  <2> QED BY <1>2, <2>2, <2>4 DEF WlTypes
<1>3. CASE /\ ~wl[o].scheduled /\ ~wl[o].callback
           /\ wl' = [wl EXCEPT ![o].scheduled = TRUE]
           /\ Queue(Step("frame", o))
  <2>1. PICK e : e = [wl[o] EXCEPT !.scheduled = TRUE]
    OBVIOUS
  <2>2. /\ e \in WlState /\ e.alive = wl[o].alive /\ e.callback = wl[o].callback
        /\ e.waiting = wl[o].waiting /\ e.scheduled = TRUE
    BY <1>o, <2>1 DEF WlState
  <2>3. wl' = [wl EXCEPT ![o] = e]
    BY <1>3, <2>1
  <2>4. wl' \in [WlOutputs -> WlState] /\ wl'[o] = e /\ \A p \in WlOutputs : p # o => wl'[p] = wl[p]
    BY <2>2, <2>3 DEF WlTypes
  <2>5. ~Iterating /\ idleCbs' = Append(idleCbs, Step("frame", o)) /\ crash' = crash
    BY <1>3 DEF Queue
  <2>6. Step("frame", o) \in {"new", "frame"} \X WlOutputs
    BY DEF Step
  <2>7. idleCbs' \in Seq({"new", "frame"} \X WlOutputs)
    BY <2>5, <2>6, AppendProperties DEF WlTypes
  <2> QED BY <1>3, <2>2, <2>4, <2>5, <2>7 DEF WlTypes
<1> QED BY <1>1, <1>2, <1>3 DEF Scheduled

\* What the handler still does may not be less than before.
LEMMA ScheduledPends ==
    ASSUME ~BusyIdle, WlInv, ~crash, NEW o \in WlOutputs, Scheduled(o), NEW p \in WlOutputs,
           Has("send", p) \/ Has("sent", p) => Has("send", p)' \/ Has("sent", p)',
           Has("answer", p) => Has("answer", p)',
           \A i : Contains(steps', Step("idle", i)) => Contains(steps, Step("idle", i))
    PROVE  Pend(p)'
<1>1. WlTypes /\ WlShape /\ Pend(p)
  BY DEF WlInv
<1>2. /\ \A q \in WlOutputs : /\ wl'[q].alive = wl[q].alive
                              /\ wl'[q].callback = wl[q].callback
                              /\ wl[q].waiting => wl'[q].waiting
                              /\ q # o => wl'[q] = wl[q]
      /\ \/ wl' = wl /\ idleCbs' = idleCbs
         \/ wl[o].callback /\ wl'[o].waiting /\ ~wl[o].scheduled /\ idleCbs' = idleCbs
         \/ /\ ~wl[o].callback /\ ~Iterating
            /\ idleCbs' = Append(idleCbs, Step("frame", o))
  BY <1>1, ScheduledFacts
<1>3. CASE wl' = wl /\ idleCbs' = idleCbs
  BY <1>1, <1>3, PendKept
<1>4. CASE wl[o].callback /\ wl'[o].waiting /\ ~wl[o].scheduled /\ idleCbs' = idleCbs
  <2>1. CASE p = o
    BY <1>2, <1>4, <2>1 DEF Pend
  <2>2. CASE p # o
    <3>1. wl'[p] = wl[p]
      BY <1>2, <2>2
    <3> QED BY <1>1, <1>4, <3>1, PendKept
  <2> QED BY <2>1, <2>2
<1>5. CASE ~Iterating /\ idleCbs' = Append(idleCbs, Step("frame", o))
  <2>1. \A i : ~Contains(steps', Step("idle", i))
    BY <1>1, <1>5, NotIterating
  <2>2. PICK f : f = Step("frame", o)
    OBVIOUS
  <2>3. /\ Len(idleCbs') = Len(idleCbs) + 1 /\ idleCbs'[Len(idleCbs) + 1] = f
        /\ \A k \in 1 .. Len(idleCbs) : idleCbs'[k] = idleCbs[k]
        /\ Len(idleCbs) \in Nat
    <3>1. f \in {"new", "frame"} \X WlOutputs
      BY <2>2 DEF Step
    <3> QED BY <1>1, <1>5, <2>2, <3>1, AppendProperties DEF WlTypes
  <2>4. CASE p = o
    <3>1. Len(idleCbs) + 1 \in 1 .. Len(idleCbs') /\ idleCbs'[Len(idleCbs) + 1] = Step("frame", p)
      BY <2>2, <2>3, <2>4
    <3> QED BY <2>1, <3>1 DEF Pend, Step
  <2>5. CASE p # o
    <3>1. wl'[p] = wl[p]
      BY <1>2, <2>5
    <3>2. \A k \in 1 .. Len(idleCbs) : k \in 1 .. Len(idleCbs') /\ idleCbs'[k] = idleCbs[k]
      BY <2>3
    <3> QED BY <1>1, <2>1, <3>1, <3>2 DEF Pend, Has, Step
  <2> QED BY <2>4, <2>5
<1> QED BY <1>2, <1>3, <1>4, <1>5

LEMMA UserSchedulesKeeps ==
    ASSUME ~BusyIdle, WlInv, NEW o \in WlOutputs, UserSchedules(o)
    PROVE  WlInv'
<1>1. ~crash /\ (steps = <<>> \/ (steps # <<>> /\ Head(steps) = User)) /\ steps' = steps /\ Scheduled(o)
  BY DEF UserSchedules, WlUserRuns
<1>2. WlTypes /\ WlShape /\ \A p \in WlOutputs : Pend(p) /\ Answering(p)
  BY <1>1 DEF WlInv
<1>3. /\ WlTypes' /\ ~crash'
      /\ \A p \in WlOutputs : /\ wl'[p].alive = wl[p].alive
                              /\ wl'[p].callback = wl[p].callback
      /\ \/ idleCbs' = idleCbs
         \/ ~Iterating
  BY <1>1, <1>2, ScheduledFacts
<1>4. ASSUME NEW p \in WlOutputs PROVE Pend(p)'
  BY <1>1, ScheduledPends DEF Has
<1>5. ASSUME NEW p \in WlOutputs PROVE Answering(p)'
  <2>1. ~(Head(steps) = Step("answered", p) /\ steps # <<>>)
    BY <1>1 DEF User, Step
  <2>2. steps = <<>> => ~Has("answered", p)
    BY TupleContents DEF Has
  <2> QED BY <1>1, <1>2, <1>3, <2>1, <2>2 DEF Answering, Has, Step
<1>6. WlShape'
  <2>1. CASE idleCbs' = idleCbs
    BY <1>1, <1>2, <2>1 DEF WlShape, Lasts, SendPlans, DonePlans
  <2>2. CASE ~Iterating
    <3>1. FlushShape
      BY <1>2, <2>2, NotIterating
    <3>2. FlushShape'
      BY <1>1, <3>1 DEF FlushShape, SendPlans, DonePlans
    <3> QED BY <3>2, FlushShapes
  <2> QED BY <1>3, <2>1, <2>2
<1> QED BY <1>3, <1>4, <1>5, <1>6 DEF WlInv

\* The user's other calls leave the handler and the list alone, or are made
\* while no handler of the output runs.
LEMMA UserChangesKeep ==
    ASSUME ~BusyIdle, WlInv, NEW o \in WlOutputs,
           UserCommits(o) \/ UserCreates(o) \/ UserDestroys(o)
    PROVE  WlInv'
<1>1. ~crash /\ steps' = steps
  BY DEF UserCommits, UserCreates, UserDestroys, WlUserRuns
<1>2. WlTypes /\ WlShape /\ \A p \in WlOutputs : Pend(p) /\ Answering(p)
  BY <1>1 DEF WlInv
<1>o. wl[o] \in WlState /\ NewOutput \in WlState /\ NoOutput \in WlState
  BY <1>2 DEF WlTypes, NewOutput, NoOutput, WlState
<1>s. idleCbs' = idleCbs => WlShape'
  BY <1>1, <1>2 DEF WlShape, Lasts, SendPlans, DonePlans
<1>3. CASE UserCommits(o)
  <2>1. PICK e : e = [wl[o] EXCEPT !.ready = TRUE]
    OBVIOUS
  <2>2. /\ e \in WlState /\ e.alive = wl[o].alive /\ e.callback = wl[o].callback
        /\ e.waiting = wl[o].waiting /\ e.scheduled = wl[o].scheduled
    BY <1>o, <2>1 DEF WlState
  <2>3. wl' = [wl EXCEPT ![o] = e] /\ idleCbs' = idleCbs /\ crash' = crash
    BY <1>3, <2>1 DEF UserCommits
  <2>4. /\ WlTypes'
        /\ \A p \in WlOutputs : /\ wl'[p].alive = wl[p].alive /\ wl'[p].callback = wl[p].callback
                                /\ wl'[p].waiting = wl[p].waiting
                                /\ wl'[p].scheduled = wl[p].scheduled
    BY <1>2, <2>2, <2>3 DEF WlTypes
  <2>5. ASSUME NEW p \in WlOutputs PROVE Pend(p)' /\ Answering(p)'
    <3>1. Pend(p)'
      BY <1>1, <1>2, <2>3, <2>4, PendKept DEF Has
    <3>2. Answering(p)'
      BY <1>1, <1>2, <2>4 DEF Answering, Has, Step
    <3> QED BY <3>1, <3>2
  <2> QED BY <1>s, <2>3, <2>4, <2>5 DEF WlInv
<1>4. CASE UserDestroys(o)
  <2>1. wl' = [wl EXCEPT ![o] = NoOutput] /\ idleCbs' = idleCbs /\ crash' \in BOOLEAN
    BY <1>2, <1>4 DEF UserDestroys, WlTypes
  <2>2. WlTypes' /\ ~wl'[o].alive /\ \A p \in WlOutputs : p # o => wl'[p] = wl[p]
    BY <1>2, <1>o, <2>1 DEF WlTypes, NoOutput, NewOutput
  <2>3. ASSUME NEW p \in WlOutputs PROVE Pend(p)' /\ Answering(p)'
    <3>1. CASE p = o
      BY <2>2, <3>1 DEF Pend, Answering
    <3>2. CASE p # o
      <4>1. wl'[p] = wl[p]
        BY <2>2, <3>2
      <4>2. Pend(p)'
        BY <1>1, <1>2, <2>1, <4>1, PendKept DEF Has
      <4>3. Answering(p)'
        BY <1>1, <1>2, <4>1 DEF Answering, Has, Step
      <4> QED BY <4>2, <4>3
    <3> QED BY <3>1, <3>2
  <2> QED BY <1>s, <2>1, <2>2, <2>3 DEF WlInv
<1>5. CASE UserCreates(o)
  <2>1. /\ wl' = [wl EXCEPT ![o] = NewOutput] /\ ~Iterating /\ crash' = crash
        /\ idleCbs' = Append(idleCbs, Step("new", o)) /\ ~InHandler(o)
    BY <1>5 DEF UserCreates, Queue
  <2>2. /\ wl' \in [WlOutputs -> WlState] /\ ~wl'[o].scheduled /\ ~wl'[o].callback
        /\ \A p \in WlOutputs : p # o => wl'[p] = wl[p]
    BY <1>2, <1>o, <2>1 DEF WlTypes, NewOutput
  <2>3. PICK f : f = Step("new", o)
    OBVIOUS
  <2>4. f \in {"new", "frame"} \X WlOutputs
    BY <2>3 DEF Step
  <2>5. /\ idleCbs' \in Seq({"new", "frame"} \X WlOutputs) /\ Len(idleCbs') = Len(idleCbs) + 1
        /\ \A k \in 1 .. Len(idleCbs) : idleCbs'[k] = idleCbs[k]
        /\ Len(idleCbs) \in Nat
    BY <1>2, <2>1, <2>3, <2>4, AppendProperties DEF WlTypes
  <2>6. WlTypes'
    BY <1>2, <2>1, <2>2, <2>5 DEF WlTypes
  <2>7. FlushShape /\ \A i : ~Contains(steps, Step("idle", i))
    BY <1>2, <2>1, NotIterating
  <2>8. WlShape'
    <3>1. FlushShape'
      BY <1>1, <2>7 DEF FlushShape, SendPlans, DonePlans
    <3> QED BY <3>1, FlushShapes
  <2>9. ASSUME NEW p \in WlOutputs PROVE Pend(p)' /\ Answering(p)'
    <3>1. CASE p = o
      BY <2>2, <3>1 DEF Pend, Answering
    <3>2. CASE p # o
      <4>1. wl'[p] = wl[p]
        BY <2>2, <3>2
      <4>2. \A k \in 1 .. Len(idleCbs) : k \in 1 .. Len(idleCbs') /\ idleCbs'[k] = idleCbs[k]
        BY <2>5
      <4>3. Pend(p)'
        BY <1>1, <1>2, <2>7, <4>1, <4>2 DEF Pend, Has, Step
      <4>4. Answering(p)'
        BY <1>1, <1>2, <4>1 DEF Answering, Has, Step
      <4> QED BY <4>3, <4>4
    <3> QED BY <3>1, <3>2
  <2> QED BY <2>6, <2>8, <2>9 DEF WlInv
<1> QED BY <1>3, <1>4, <1>5

\* A handler has ended or waits in dispatchEvents when the host's events come.
LEMMA EventPlan ==
    ASSUME WlTypes, WlShape, EventRuns
    PROVE  Rest = <<Flush>> /\ \A x : Contains(steps, x) => x = Flush
<1>1. CASE steps = <<>>
  BY <1>1, TupleContents DEF Rest
<1>2. CASE steps # <<>>
  <2>1. Head(steps) = Flush
    BY <1>2 DEF EventRuns
  <2>2. Head(steps)[1] = "flush"
    BY <2>1 DEF Flush
  <2>3. PICK l \in Lasts : steps = <<l>> /\ Head(steps) = l
    BY <1>2, <2>2, AtLast
  <2>4. steps = <<Flush>>
    BY <2>1, <2>3
  <2> QED BY <1>2, <2>4, TupleContents DEF Rest
<1> QED BY <1>1, <1>2

LEMMA EventsKeep ==
    ASSUME WlInv,
           OtherEvent \/ \E o \in WlOutputs : FrameDone(o) \/ Configure(o) \/ CloseEvent(o)
    PROVE  WlInv'
<1>1. ~crash /\ EventRuns /\ crash' = crash /\ idleCbs' = idleCbs
  BY DEF OtherEvent, FrameDone, Configure, CloseEvent, EventRuns
<1>2. WlTypes /\ WlShape /\ \A p \in WlOutputs : Pend(p) /\ Answering(p)
  BY <1>1 DEF WlInv
<1>3. Rest = <<Flush>> /\ \A x : Contains(steps, x) => x = Flush
  BY <1>1, <1>2, EventPlan
<1>4. \A what : \A p \in WlOutputs : ~Has(what, p)
  BY <1>3, WlAssumption DEF Has, Step, Flush
<1>5. CASE OtherEvent
  <2>1. steps' = <<User, Flush>> /\ wl' = wl
    BY <1>3, <1>5, TupleJoins DEF OtherEvent
  <2>2. \A x : Contains(steps', x) <=> x \in {User, Flush}
    BY <2>1, TupleContents
  <2>3. WlShape'
    <3>1. FlushShape'
      BY <2>1 DEF FlushShape
    <3> QED BY <3>1, FlushShapes
  <2>4. ASSUME NEW p \in WlOutputs PROVE Pend(p)' /\ Answering(p)'
    <3>1. Pend(p)'
      BY <1>1, <1>2, <1>4, <2>1, <2>2, PendKept DEF Step, User, Flush
    <3>2. ~Has("answered", p)'
      BY <2>2 DEF Has, Step, User, Flush
    <3> QED BY <3>1, <3>2 DEF Answering
  <2> QED BY <1>1, <1>2, <2>1, <2>3, <2>4 DEF WlInv, WlTypes
<1>6. ASSUME NEW o \in WlOutputs, CloseEvent(o) PROVE WlInv'
  <2>1. steps' = <<User, Flush>> /\ wl' = [wl EXCEPT ![o] = NoOutput]
    BY <1>3, <1>6, TupleJoins DEF CloseEvent
  <2>2. \A x : Contains(steps', x) <=> x \in {User, Flush}
    BY <2>1, TupleContents
  <2>3. WlShape'
    <3>1. FlushShape'
      BY <2>1 DEF FlushShape
    <3> QED BY <3>1, FlushShapes
  <2>4. NoOutput \in WlState /\ ~NoOutput.alive
    BY DEF NoOutput, NewOutput, WlState
  <2>5. WlTypes' /\ ~wl'[o].alive /\ \A p \in WlOutputs : p # o => wl'[p] = wl[p]
    BY <1>1, <1>2, <2>1, <2>4 DEF WlTypes
  <2>6. ASSUME NEW p \in WlOutputs PROVE Pend(p)' /\ Answering(p)'
    <3>1. CASE p = o
      BY <2>5, <3>1 DEF Pend, Answering
    <3>2. CASE p # o
      <4>1. wl'[p] = wl[p]
        BY <2>5, <3>2
      <4>2. Pend(p)'
        BY <1>1, <1>2, <1>4, <2>2, <4>1, PendKept DEF Step, User, Flush
      <4>3. ~Has("answered", p)'
        BY <2>2 DEF Has, Step, User, Flush
      <4> QED BY <4>2, <4>3 DEF Answering
    <3> QED BY <3>1, <3>2
  <2> QED BY <2>3, <2>5, <2>6 DEF WlInv
<1>7. ASSUME NEW o \in WlOutputs, Configure(o) PROVE WlInv'
  <2>1. steps' = <<User, Step("send", o), Flush>> /\ wl' = wl
    BY <1>3, <1>7, TupleJoins DEF Configure
  <2>2. \A x : Contains(steps', x) <=> x \in {User, Step("send", o), Flush}
    BY <2>1, TupleContents
  <2>3. WlShape'
    <3>1. FlushShape'
      BY <2>1 DEF FlushShape, SendPlans
    <3> QED BY <3>1, FlushShapes
  <2>4. ASSUME NEW p \in WlOutputs PROVE Pend(p)' /\ Answering(p)'
    <3>1. Pend(p)'
      BY <1>1, <1>2, <1>4, <2>1, <2>2, PendKept DEF Step, User, Flush
    <3>2. ~Has("answered", p)'
      BY <2>2 DEF Has, Step, User, Flush
    <3> QED BY <3>1, <3>2 DEF Answering
  <2> QED BY <1>1, <1>2, <2>1, <2>3, <2>4 DEF WlInv, WlTypes
<1>8. ASSUME NEW o \in WlOutputs, FrameDone(o) PROVE WlInv'
  <2>1. steps' = <<User, Step("schedule", o), Step("answer", o), Step("answered", o), Flush>>
    BY <1>3, <1>8, TupleJoins DEF FrameDone
  <2>2. \A x : Contains(steps', x) <=>
            x \in {User, Step("schedule", o), Step("answer", o), Step("answered", o), Flush}
    BY <2>1, TupleContents
  <2>3. WlShape'
    <3>1. FlushShape'
      BY <2>1 DEF FlushShape, DonePlans
    <3> QED BY <3>1, FlushShapes
  <2>4. PICK e : e = [wl[o] EXCEPT !.callback = FALSE, !.ready = FALSE]
    OBVIOUS
  <2>5. /\ e \in WlState /\ e.alive = wl[o].alive /\ ~e.callback
        /\ e.waiting = wl[o].waiting /\ e.scheduled = wl[o].scheduled
    <3>1. wl[o] \in WlState
      BY <1>2 DEF WlTypes
    <3> QED BY <2>4, <3>1 DEF WlState
  <2>6. wl' = [wl EXCEPT ![o] = e]
    BY <1>8, <2>4 DEF FrameDone
  <2>7. WlTypes' /\ wl'[o] = e /\ \A p \in WlOutputs : p # o => wl'[p] = wl[p]
    BY <1>1, <1>2, <2>5, <2>6 DEF WlTypes
  <2>8. ASSUME NEW p \in WlOutputs PROVE Pend(p)' /\ Answering(p)'
    <3>i. \A i : ~Contains(steps', Step("idle", i))
      BY <2>2 DEF Step, User, Flush
    <3>1. CASE p = o
      <4>1. Has("answer", p)'
        BY <2>2, <3>1 DEF Has, Step
      <4>2. Pend(p)'
        BY <1>1, <1>2, <1>4, <2>5, <2>7, <3>i, <3>1, <4>1 DEF Pend
      <4> QED BY <2>5, <2>7, <3>1, <4>2 DEF Answering
    <3>2. CASE p # o
      <4>1. wl'[p] = wl[p]
        BY <2>7, <3>2
      <4>2. Pend(p)'
        BY <1>1, <1>2, <1>4, <3>i, <4>1, PendKept
      <4>3. ~Has("answered", p)'
        BY <2>2, <3>2 DEF Has, Step, User, Flush
      <4> QED BY <4>2, <4>3 DEF Answering
    <3> QED BY <3>1, <3>2
  <2> QED BY <2>3, <2>7, <2>8 DEF WlInv
<1> QED BY <1>5, <1>6, <1>7, <1>8

LEMMA SameLasts ==
    ASSUME idleCbs' = idleCbs
    PROVE  Lasts' = Lasts
  BY DEF Lasts

LEMMA UserReturnsKeeps ==
    ASSUME WlInv, UserReturns
    PROVE  WlInv'
<1>1. /\ ~crash /\ steps # <<>> /\ Head(steps)[1] = "user" /\ steps' = Tail(steps)
      /\ UNCHANGED <<wl, idleCbs, crash>>
  BY DEF UserReturns, At
<1>2. WlTypes /\ WlShape /\ \A p \in WlOutputs : Pend(p) /\ Answering(p)
  BY <1>1 DEF WlInv
<1>3. Lasts' = Lasts
  BY <1>1, <1>2, SameLasts
<1>4. WlShape' /\ \A x : x # User => (Contains(steps', x) <=> Contains(steps, x))
  <2>1. ASSUME NEW l \in Lasts, steps = <<User, l>>
        PROVE  WlShape' /\ \A x : x # User => (Contains(steps', x) <=> Contains(steps, x))
    <3>1. steps' = <<l>>
      BY <1>1, <2>1, TupleTails
    <3> QED BY <1>3, <2>1, <3>1, TupleContents DEF WlShape
  <2>2. ASSUME NEW o \in WlOutputs, NEW l \in Lasts,
               steps \in {<<User, Step("send", o), l>>, <<User, Step("sent", o), l>>}
        PROVE  WlShape' /\ \A x : x # User => (Contains(steps', x) <=> Contains(steps, x))
    <3>1. PICK s \in {Step("send", o), Step("sent", o)} : steps = <<User, s, l>>
      BY <2>2
    <3>2. steps' = <<s, l>>
      BY <1>1, <3>1, TupleTails
    <3>3. steps' \in SendPlans(o, l)
      BY <3>1, <3>2 DEF SendPlans
    <3>4. \A x : x # User => (Contains(steps', x) <=> Contains(steps, x))
      BY <3>1, <3>2, TupleContents
    <3>5. WlShape'
      BY <1>3, <3>3 DEF WlShape, SendPlans
    <3> QED BY <3>4, <3>5
  <2>3. ASSUME NEW o \in WlOutputs,
               steps \in {<<User, Step("schedule", o), Step("answer", o), Step("answered", o), Flush>>,
                          <<User, Step("sent", o), Step("answered", o), Flush>>,
                          <<User, Step("answered", o), Flush>>}
        PROVE  WlShape' /\ \A x : x # User => (Contains(steps', x) <=> Contains(steps, x))
    <3>a. ASSUME steps = <<User, Step("schedule", o), Step("answer", o), Step("answered", o), Flush>>
          PROVE  steps' \in DonePlans(o) /\ \A x : x # User => (Contains(steps', x) <=> Contains(steps, x))
      <4>1. steps' = <<Step("schedule", o), Step("answer", o), Step("answered", o), Flush>>
        BY <1>1, <3>a, TupleTails
      <4> QED BY <3>a, <4>1, TupleContents DEF DonePlans
    <3>b. ASSUME steps = <<User, Step("sent", o), Step("answered", o), Flush>>
          PROVE  steps' \in DonePlans(o) /\ \A x : x # User => (Contains(steps', x) <=> Contains(steps, x))
      <4>1. steps' = <<Step("sent", o), Step("answered", o), Flush>>
        BY <1>1, <3>b, TupleTails
      <4> QED BY <3>b, <4>1, TupleContents DEF DonePlans
    <3>c. ASSUME steps = <<User, Step("answered", o), Flush>>
          PROVE  steps' \in DonePlans(o) /\ \A x : x # User => (Contains(steps', x) <=> Contains(steps, x))
      <4>1. steps' = <<Step("answered", o), Flush>>
        BY <1>1, <3>c, TupleTails
      <4> QED BY <3>c, <4>1, TupleContents DEF DonePlans
    <3>1. steps' \in DonePlans(o) /\ \A x : x # User => (Contains(steps', x) <=> Contains(steps, x))
      BY <2>3, <3>a, <3>b, <3>c
    <3>3. WlShape'
      BY <3>1 DEF WlShape, DonePlans
    <3> QED BY <3>1, <3>3
  <2> QED BY <1>1, <1>2, <2>1, <2>2, <2>3, AtUser
<1>5. ASSUME NEW p \in WlOutputs PROVE Pend(p)' /\ Answering(p)'
  <2>1. /\ (Has("send", p)' <=> Has("send", p)) /\ (Has("sent", p)' <=> Has("sent", p))
        /\ (Has("answer", p)' <=> Has("answer", p)) /\ (Has("answered", p)' <=> Has("answered", p))
        /\ \A i : Contains(steps', Step("idle", i)) => Contains(steps, Step("idle", i))
    BY <1>4 DEF Has, Step, User
  <2>2. Pend(p)'
    BY <1>1, <1>2, <2>1, PendKept
  <2>3. Head(steps) # Step("answered", p)
    BY <1>1 DEF Step
  <2> QED BY <1>1, <1>2, <2>1, <2>2, <2>3 DEF Answering
<1> QED BY <1>1, <1>2, <1>4, <1>5 DEF WlInv, WlTypes

LEMMA SendKeeps ==
    ASSUME WlInv, Send
    PROVE  WlInv'
<1>1. /\ ~crash /\ steps # <<>> /\ Head(steps)[1] = "send"
      /\ steps' = (IF wl[Of].alive THEN <<User, Step("sent", Of)>> ELSE <<>>) \o Tail(steps)
      /\ UNCHANGED <<wl, idleCbs, crash>>
  BY DEF Send, At
<1>2. WlTypes /\ WlShape /\ \A p \in WlOutputs : Pend(p) /\ Answering(p)
  BY <1>1 DEF WlInv
<1>3. Lasts' = Lasts
  BY <1>1, <1>2, SameLasts
<1>4. PICK o \in WlOutputs :
        /\ Of = o
        /\ \/ \E l \in Lasts : steps = <<Step("send", o), l>>
           \/ steps = <<Step("send", o), Step("answered", o), Flush>>
  BY <1>1, <1>2, AtOutput, TupleHeads DEF Step
<1>5. /\ WlShape'
      /\ \A x : x[1] \notin {"user", "send", "sent"} => (Contains(steps', x) <=> Contains(steps, x))
      /\ \A p \in WlOutputs : Has("send", p) \/ Has("sent", p) => p = o
      /\ wl[o].alive => Has("sent", o)' /\ Head(steps') = User
  <2>1. ASSUME NEW l \in Lasts, steps = <<Step("send", o), l>>
        PROVE  /\ WlShape'
               /\ \A x : x[1] \notin {"user", "send", "sent"} => (Contains(steps', x) <=> Contains(steps, x))
               /\ \A p \in WlOutputs : Has("send", p) \/ Has("sent", p) => p = o
               /\ wl[o].alive => Has("sent", o)' /\ Head(steps') = User
    <3>1. steps' = IF wl[o].alive THEN <<User, Step("sent", o), l>> ELSE <<l>>
      <4>1. Tail(steps) = <<l>>
        BY <2>1, TupleTails
      <4>2. <<User, Step("sent", o)>> \o <<l>> = <<User, Step("sent", o), l>> /\ <<>> \o <<l>> = <<l>>
        BY TupleJoins
      <4> QED BY <1>1, <1>4, <4>1, <4>2
    <3>2. \A x : Contains(steps, x) <=> x \in {Step("send", o), l}
      BY <2>1, TupleContents
    <3>3. \A x : Contains(steps', x) <=> x \in IF wl[o].alive THEN {User, Step("sent", o), l} ELSE {l}
      BY <3>1, TupleContents
    <3>4. WlShape'
      BY <1>3, <3>1 DEF WlShape, SendPlans
    <3>5. \A x : x[1] \notin {"user", "send", "sent"} => (Contains(steps', x) <=> Contains(steps, x))
      BY <3>2, <3>3 DEF Step, User
    <3>6. \A p \in WlOutputs : Has("send", p) \/ Has("sent", p) => p = o
      BY <1>2, <3>2, LastTags DEF Has, Step
    <3>7. wl[o].alive => Has("sent", o)' /\ Head(steps') = User
      BY <3>1, <3>3, TupleHeads DEF Has, Step
    <3> QED BY <3>4, <3>5, <3>6, <3>7
  <2>2. ASSUME steps = <<Step("send", o), Step("answered", o), Flush>>
        PROVE  /\ WlShape'
               /\ \A x : x[1] \notin {"user", "send", "sent"} => (Contains(steps', x) <=> Contains(steps, x))
               /\ \A p \in WlOutputs : Has("send", p) \/ Has("sent", p) => p = o
               /\ wl[o].alive => Has("sent", o)' /\ Head(steps') = User
    <3>1. steps' = IF wl[o].alive THEN <<User, Step("sent", o), Step("answered", o), Flush>>
                                  ELSE <<Step("answered", o), Flush>>
      <4>1. Tail(steps) = <<Step("answered", o), Flush>>
        BY <2>2, TupleTails
      <4>2. CASE wl[o].alive
        <5>1. PICK a, b : a = Step("sent", o) /\ b = Step("answered", o)
          OBVIOUS
        <5>2. <<User, a>> \o <<b, Flush>> = <<User, a, b, Flush>>
          BY TupleJoins
        <5> QED BY <1>1, <1>4, <4>1, <4>2, <5>1, <5>2
      <4>3. CASE ~wl[o].alive
        BY <1>1, <1>4, <4>1, <4>3, TupleJoins
      <4> QED BY <4>2, <4>3
    <3>2. \A x : Contains(steps, x) <=> x \in {Step("send", o), Step("answered", o), Flush}
      BY <2>2, TupleContents
    <3>3. \A x : Contains(steps', x) <=>
                 x \in IF wl[o].alive THEN {User, Step("sent", o), Step("answered", o), Flush}
                                      ELSE {Step("answered", o), Flush}
      BY <3>1, TupleContents
    <3>4. WlShape'
      BY <3>1 DEF WlShape, DonePlans
    <3>5. \A x : x[1] \notin {"user", "send", "sent"} => (Contains(steps', x) <=> Contains(steps, x))
      BY <3>2, <3>3 DEF Step, User
    <3>6. \A p \in WlOutputs : Has("send", p) \/ Has("sent", p) => p = o
      BY <3>2 DEF Has, Step, Flush
    <3>7. wl[o].alive => Has("sent", o)' /\ Head(steps') = User
      BY <3>1, <3>3, TupleHeads DEF Has, Step
    <3> QED BY <3>4, <3>5, <3>6, <3>7
  <2> QED BY <1>4, <2>1, <2>2
<1>6. ASSUME NEW p \in WlOutputs PROVE Pend(p)' /\ Answering(p)'
  <2>1. /\ (Has("answer", p)' <=> Has("answer", p)) /\ (Has("answered", p)' <=> Has("answered", p))
        /\ \A i : Contains(steps', Step("idle", i)) => Contains(steps, Step("idle", i))
    BY <1>5 DEF Has, Step
  <2>2. Pend(p)'
    <3>1. CASE p = o /\ wl[o].alive
      BY <1>5, <3>1 DEF Pend
    <3>2. CASE p = o /\ ~wl[o].alive
      BY <1>1, <3>2 DEF Pend
    <3>3. CASE p # o
      BY <1>1, <1>2, <1>5, <2>1, <3>3, PendKept
    <3> QED BY <3>1, <3>2, <3>3
  <2>3. Head(steps) # Step("answered", p)
    BY <1>1 DEF Step
  <2> QED BY <1>1, <1>2, <2>1, <2>2, <2>3 DEF Answering
<1> QED BY <1>1, <1>2, <1>5, <1>6 DEF WlInv, WlTypes

LEMMA SentKeeps ==
    ASSUME WlInv, Sent
    PROVE  WlInv'
<1>1. /\ ~crash /\ steps # <<>> /\ Head(steps)[1] = "sent" /\ steps' = Tail(steps)
      /\ UNCHANGED <<idleCbs, crash>>
  BY DEF Sent, At
<1>2. WlTypes /\ WlShape /\ \A p \in WlOutputs : Pend(p) /\ Answering(p)
  BY <1>1 DEF WlInv
<1>3. Lasts' = Lasts
  BY <1>1, <1>2, SameLasts
<1>4. PICK o \in WlOutputs :
        /\ Of = o
        /\ \/ \E l \in Lasts : steps = <<Step("sent", o), l>>
           \/ steps = <<Step("sent", o), Step("answered", o), Flush>>
  BY <1>1, <1>2, AtOutput, TupleHeads DEF Step
<1>5. /\ WlShape'
      /\ \A x : x # Step("sent", o) => (Contains(steps', x) <=> Contains(steps, x))
      /\ Has("answered", o)' => Head(steps') = Step("answered", o)
  <2>1. ASSUME NEW l \in Lasts, steps = <<Step("sent", o), l>>
        PROVE  /\ WlShape'
               /\ \A x : x # Step("sent", o) => (Contains(steps', x) <=> Contains(steps, x))
               /\ Has("answered", o)' => Head(steps') = Step("answered", o)
    <3>1. steps' = <<l>>
      BY <1>1, <2>1, TupleTails
    <3>2. WlShape'
      BY <1>3, <3>1 DEF WlShape
    <3>3. \A x : x # Step("sent", o) => (Contains(steps', x) <=> Contains(steps, x))
      BY <2>1, <3>1, TupleContents
    <3>4. ~Has("answered", o)'
      BY <1>2, <3>1, LastTags, TupleContents DEF Has, Step
    <3> QED BY <3>2, <3>3, <3>4
  <2>2. ASSUME steps = <<Step("sent", o), Step("answered", o), Flush>>
        PROVE  /\ WlShape'
               /\ \A x : x # Step("sent", o) => (Contains(steps', x) <=> Contains(steps, x))
               /\ Has("answered", o)' => Head(steps') = Step("answered", o)
    <3>1. steps' = <<Step("answered", o), Flush>>
      BY <1>1, <2>2, TupleTails
    <3>2. WlShape'
      BY <3>1 DEF WlShape, DonePlans
    <3>3. \A x : x # Step("sent", o) => (Contains(steps', x) <=> Contains(steps, x))
      BY <2>2, <3>1, TupleContents
    <3> QED BY <3>1, <3>2, <3>3, TupleHeads
  <2> QED BY <1>4, <2>1, <2>2
<1>6. /\ WlTypes' /\ \A p \in WlOutputs : p # o => wl'[p] = wl[p]
      /\ ~(wl'[o].alive /\ wl'[o].scheduled)
  <2>1. CASE ~wl[o].alive
    BY <1>1, <1>2, <1>4, <2>1 DEF Sent, WlTypes
  <2>2. CASE wl[o].alive
    <3>1. PICK e : e = [wl[o] EXCEPT !.scheduled = FALSE, !.callback = wl[o].callback \/ wl[o].ready]
      OBVIOUS
    <3>2. wl[o] \in WlState
      BY <1>2 DEF WlTypes
    <3>3. (wl[o].callback \/ wl[o].ready) \in BOOLEAN
      OBVIOUS
    <3>4. e \in WlState /\ e.scheduled = FALSE
      BY <3>1, <3>2, <3>3 DEF WlState
    <3>5. wl' = [wl EXCEPT ![o] = e]
      BY <1>4, <2>2, <3>1 DEF Sent
    <3> QED BY <1>1, <1>2, <3>4, <3>5 DEF WlTypes
  <2> QED BY <2>1, <2>2
<1>7. ASSUME NEW p \in WlOutputs PROVE Pend(p)' /\ Answering(p)'
  <2>1. CASE p = o
    BY <1>5, <1>6, <2>1 DEF Pend, Answering, Step
  <2>2. CASE p # o
    <3>1. wl'[p] = wl[p]
      BY <1>6, <2>2
    <3>2. /\ (Has("send", p)' <=> Has("send", p)) /\ (Has("sent", p)' <=> Has("sent", p))
          /\ (Has("answer", p)' <=> Has("answer", p)) /\ (Has("answered", p)' <=> Has("answered", p))
          /\ \A i : Contains(steps', Step("idle", i)) => Contains(steps, Step("idle", i))
      BY <1>5, <2>2 DEF Has, Step
    <3>3. Pend(p)'
      BY <1>1, <1>2, <3>1, <3>2, PendKept
    <3>4. Head(steps) # Step("answered", p)
      BY <1>1 DEF Step
    <3> QED BY <1>2, <3>1, <3>2, <3>3, <3>4 DEF Answering
  <2> QED BY <2>1, <2>2
<1> QED BY <1>5, <1>6, <1>7 DEF WlInv

\* The middle of onFrameDone.
LEMMA DoneSchedulesKeeps ==
    ASSUME ~BusyIdle, WlInv, DoneSchedules
    PROVE  WlInv'
<1>1. /\ ~crash /\ steps # <<>> /\ Head(steps)[1] = "schedule" /\ steps' = Tail(steps)
      /\ IF wl[Of].alive THEN Scheduled(Of) ELSE UNCHANGED <<wl, idleCbs, crash>>
  BY DEF DoneSchedules, At
<1>2. WlTypes /\ WlShape /\ \A p \in WlOutputs : Pend(p) /\ Answering(p)
  BY <1>1 DEF WlInv
<1>3. PICK o \in WlOutputs :
        Of = o /\ steps = <<Step("schedule", o), Step("answer", o), Step("answered", o), Flush>>
  BY <1>1, <1>2, AtOutput, TupleHeads DEF Step
<1>4. steps' = <<Step("answer", o), Step("answered", o), Flush>>
  BY <1>1, <1>3, TupleTails
<1>5. \A x : x # Step("schedule", o) => (Contains(steps', x) <=> Contains(steps, x))
  BY <1>3, <1>4, TupleContents
<1>6. WlShape'
  <2>1. FlushShape'
    BY <1>4 DEF FlushShape, DonePlans
  <2> QED BY <2>1, FlushShapes
<1>7. ASSUME NEW p \in WlOutputs
      PROVE  /\ (Has("send", p)' <=> Has("send", p)) /\ (Has("sent", p)' <=> Has("sent", p))
             /\ (Has("answer", p)' <=> Has("answer", p)) /\ (Has("answered", p)' <=> Has("answered", p))
             /\ \A i : Contains(steps', Step("idle", i)) => Contains(steps, Step("idle", i))
  BY <1>5 DEF Has, Step
<1>8. WlTypes' /\ ~crash' /\ \A p \in WlOutputs : wl'[p].alive = wl[p].alive /\ wl'[p].callback = wl[p].callback
  <2>1. CASE wl[o].alive
    BY <1>1, <1>2, <1>3, <2>1, ScheduledFacts
  <2>2. CASE ~wl[o].alive
    BY <1>1, <1>2, <1>3, <2>2 DEF WlTypes
  <2> QED BY <2>1, <2>2
<1>9. ASSUME NEW p \in WlOutputs PROVE Pend(p)' /\ Answering(p)'
  <2>1. Pend(p)'
    <3>1. CASE wl[o].alive
      BY <1>1, <1>3, <1>7, <3>1, ScheduledPends
    <3>2. CASE ~wl[o].alive
      BY <1>1, <1>2, <1>3, <1>7, <3>2, PendKept
    <3> QED BY <3>1, <3>2
  <2>2. Head(steps) # Step("answered", p)
    BY <1>1 DEF Step
  <2> QED BY <1>2, <1>7, <1>8, <2>1, <2>2 DEF Answering
<1> QED BY <1>6, <1>8, <1>9 DEF WlInv

LEMMA DoneAnswersKeeps ==
    ASSUME WlInv, DoneAnswers
    PROVE  WlInv'
<1>1. /\ ~crash /\ steps # <<>> /\ Head(steps)[1] = "answer"
      /\ steps' = (IF ~wl[Of].alive THEN <<>> ELSE IF wl[Of].waiting THEN <<Step("send", Of)>> ELSE <<User>>)
                  \o Tail(steps)
      /\ UNCHANGED <<wl, idleCbs, crash>>
  BY DEF DoneAnswers, At
<1>2. WlTypes /\ WlShape /\ \A p \in WlOutputs : Pend(p) /\ Answering(p)
  BY <1>1 DEF WlInv
<1>3. PICK o \in WlOutputs : Of = o /\ steps = <<Step("answer", o), Step("answered", o), Flush>>
  BY <1>1, <1>2, AtOutput, TupleHeads DEF Step
<1>4. PICK a, s : a = Step("answered", o) /\ s = Step("send", o)
  OBVIOUS
<1>5. steps' = IF ~wl[o].alive THEN <<a, Flush>>
               ELSE IF wl[o].waiting THEN <<s, a, Flush>> ELSE <<User, a, Flush>>
  <2>1. Tail(steps) = <<a, Flush>>
    BY <1>3, <1>4, TupleTails
  <2>2. /\ <<>> \o <<a, Flush>> = <<a, Flush>>
        /\ <<s>> \o <<a, Flush>> = <<s, a, Flush>>
        /\ <<User>> \o <<a, Flush>> = <<User, a, Flush>>
    BY TupleJoins
  <2> QED BY <1>1, <1>3, <1>4, <2>1, <2>2
<1>6. WlShape'
  <2>1. FlushShape'
    BY <1>4, <1>5 DEF FlushShape, DonePlans
  <2> QED BY <2>1, FlushShapes
<1>7. \A x : Contains(steps, x) <=> x \in {Step("answer", o), a, Flush}
  BY <1>3, <1>4, TupleContents
<1>8. \A x : Contains(steps', x) <=> x \in IF ~wl[o].alive THEN {a, Flush}
                                           ELSE IF wl[o].waiting THEN {s, a, Flush} ELSE {User, a, Flush}
  BY <1>5, TupleContents
<1>9. ASSUME NEW p \in WlOutputs PROVE Pend(p)' /\ Answering(p)'
  <2>1. /\ ~Has("send", p) /\ ~Has("sent", p) /\ (Has("answered", p)' <=> Has("answered", p))
        /\ \A i : Contains(steps', Step("idle", i)) => Contains(steps, Step("idle", i))
    BY <1>4, <1>7, <1>8 DEF Has, Step, User, Flush
  <2>2. Pend(p)'
    <3>1. CASE p = o /\ ~wl[o].alive
      BY <1>1, <3>1 DEF Pend
    <3>2. CASE p = o /\ wl[o].alive /\ wl[o].waiting
      <4>1. Has("send", p)'
        BY <1>4, <1>8, <3>2 DEF Has
      <4> QED BY <4>1 DEF Pend
    <3>3. CASE p = o /\ wl[o].alive /\ ~wl[o].waiting
      BY <1>1, <1>2, <2>1, <3>3, PendKept
    <3>4. CASE p # o
      <4>1. ~Has("answer", p)
        BY <1>4, <1>7, <3>4 DEF Has, Step, Flush
      <4> QED BY <1>1, <1>2, <2>1, <4>1, PendKept
    <3> QED BY <3>1, <3>2, <3>3, <3>4
  <2>3. Head(steps) # Step("answered", p)
    BY <1>1 DEF Step
  <2> QED BY <1>1, <1>2, <2>1, <2>2, <2>3 DEF Answering
<1> QED BY <1>1, <1>2, <1>6, <1>9 DEF WlInv, WlTypes

\* Nothing is forgotten: had the host been asked, nothing would be scheduled.
LEMMA DoneAnsweredKeeps ==
    ASSUME WlInv, DoneAnswered
    PROVE  WlInv'
<1>1. /\ ~crash /\ steps # <<>> /\ Head(steps)[1] = "answered" /\ steps' = Tail(steps)
      /\ wl' = [wl EXCEPT ![Of].waiting = FALSE]
      /\ UNCHANGED <<idleCbs, crash>>
  BY DEF DoneAnswered, At
<1>2. WlTypes /\ WlShape /\ \A p \in WlOutputs : Pend(p) /\ Answering(p)
  BY <1>1 DEF WlInv
<1>3. PICK o \in WlOutputs : Of = o /\ steps = <<Step("answered", o), Flush>>
  BY <1>1, <1>2, AtOutput, TupleHeads DEF Step
<1>4. steps' = <<Flush>>
  BY <1>1, <1>3, TupleTails
<1>5. WlShape'
  <2>1. FlushShape'
    BY <1>4 DEF FlushShape
  <2> QED BY <2>1, FlushShapes
<1>6. (\A x : Contains(steps, x) <=> x \in {Step("answered", o), Flush})
      /\ \A x : Contains(steps', x) <=> x = Flush
  BY <1>3, <1>4, TupleContents
<1>7. PICK e : e = [wl[o] EXCEPT !.waiting = FALSE]
  OBVIOUS
<1>8. e \in WlState /\ e.alive = wl[o].alive /\ e.scheduled = wl[o].scheduled
  <2>1. wl[o] \in WlState
    BY <1>2 DEF WlTypes
  <2> QED BY <1>7, <2>1 DEF WlState
<1>9. wl' = [wl EXCEPT ![o] = e]
  BY <1>1, <1>3, <1>7
<1>10. WlTypes' /\ wl'[o] = e /\ \A p \in WlOutputs : p # o => wl'[p] = wl[p]
  BY <1>1, <1>2, <1>8, <1>9 DEF WlTypes
<1>11. ASSUME NEW p \in WlOutputs PROVE Pend(p)' /\ Answering(p)'
  <2>1. /\ ~Has("send", p) /\ ~Has("sent", p) /\ ~Has("answer", p) /\ ~Has("answered", p)'
        /\ \A i : ~Contains(steps', Step("idle", i))
    BY <1>6 DEF Has, Step, Flush
  <2>2. Pend(p)'
    <3>1. CASE p = o
      <4>1. Has("answered", p)
        BY <1>6, <3>1 DEF Has
      <4>2. Head(steps) = Step("answered", p)
        BY <1>3, <3>1, TupleHeads
      <4>3. wl[p].alive /\ wl[p].scheduled => ~wl[p].callback
        BY <1>2, <4>1, <4>2 DEF Answering
      <4>4. wl'[p].alive /\ wl'[p].scheduled => wl[p].alive /\ wl[p].scheduled
        BY <1>8, <1>10, <3>1
      <4> QED BY <1>1, <1>2, <2>1, <4>3, <4>4 DEF Pend
    <3>2. CASE p # o
      <4>1. wl'[p] = wl[p]
        BY <1>10, <3>2
      <4> QED BY <1>1, <1>2, <2>1, <4>1, PendKept
    <3> QED BY <3>1, <3>2
  <2> QED BY <2>1, <2>2 DEF Answering
<1> QED BY <1>5, <1>10, <1>11 DEF WlInv

\* The loop over the idle callbacks.
LEMMA FlushBeginsKeeps ==
    ASSUME WlInv, FlushBegins
    PROVE  WlInv'
<1>1. /\ ~crash /\ steps = <<Flush>> /\ steps' = <<Step("idle", <<1, Len(idleCbs)>>)>>
      /\ UNCHANGED <<wl, idleCbs, crash>>
  BY DEF FlushBegins
<1>2. WlTypes /\ WlShape /\ \A p \in WlOutputs : Pend(p) /\ Answering(p)
  BY <1>1 DEF WlInv
<1>3. PICK l : l = Step("idle", <<1, Len(idleCbs)>>)
  OBVIOUS
<1>4. Len(idleCbs) \in Nat
  BY <1>2 DEF WlTypes
<1>5. l \in Lasts'
  <2>1. 1 \in 1 .. Len(idleCbs) + 1
    BY <1>4
  <2>2. l \in Lasts
    BY <1>3, <2>1 DEF Lasts
  <2> QED BY <1>1, <1>2, <2>2, SameLasts
<1>6. WlShape'
  BY <1>1, <1>3, <1>5 DEF WlShape
<1>7. (\A x : Contains(steps, x) <=> x = Flush) /\ (\A x : Contains(steps', x) <=> x = l)
  BY <1>1, <1>3, TupleContents
<1>8. ASSUME NEW p \in WlOutputs PROVE Pend(p)' /\ Answering(p)'
  <2>1. ~Has("send", p) /\ ~Has("sent", p) /\ ~Has("answer", p) /\ ~Has("answered", p)'
    BY <1>3, <1>7 DEF Has, Step, Flush
  <2>2. \A i : Contains(steps', Step("idle", i)) => i[1] = 1
    BY <1>3, <1>7 DEF Step
  <2>3. Pend(p)'
    <3>1. \A k \in 1 .. Len(idleCbs) : 1 <= k
      BY <1>4
    <3> QED BY <1>1, <1>2, <2>1, <2>2, <3>1 DEF Pend, Step
  <2> QED BY <2>1, <2>3 DEF Answering
<1> QED BY <1>1, <1>2, <1>6, <1>8 DEF WlInv, WlTypes

\* What is left of dispatchEvents in the loop.
LEMMA AtIdle ==
    ASSUME WlInv, At("idle")
    PROVE  /\ WlTypes /\ Len(idleCbs) \in Nat /\ \A p \in WlOutputs : Pend(p)
           /\ \E i \in 1 .. Len(idleCbs) + 1 :
                 /\ steps = <<Step("idle", <<i, Len(idleCbs)>>)>>
                 /\ Of[1] = i /\ Of[2] = Len(idleCbs)
                 /\ \A x : Contains(steps, x) <=> x = Step("idle", <<i, Len(idleCbs)>>)
<1>1. ~crash /\ steps # <<>> /\ Head(steps)[1] = "idle"
  BY DEF At
<1>2. WlTypes /\ WlShape /\ \A p \in WlOutputs : Pend(p)
  BY <1>1 DEF WlInv
<1>3. PICK l \in Lasts : steps = <<l>> /\ Head(steps) = l
  BY <1>1, <1>2, AtLast
<1>4. PICK i \in 1 .. Len(idleCbs) + 1 : l = Step("idle", <<i, Len(idleCbs)>>)
  BY <1>1, <1>2, <1>3, LastTags
<1>5. Of[1] = i /\ Of[2] = Len(idleCbs)
  BY <1>3, <1>4 DEF Of, Step
<1>6. \A x : Contains(steps, x) <=> x = Step("idle", <<i, Len(idleCbs)>>)
  BY <1>3, <1>4, TupleContents
<1>7. Len(idleCbs) \in Nat
  BY <1>2 DEF WlTypes
<1> QED BY <1>2, <1>3, <1>4, <1>5, <1>6, <1>7

LEMMA FlushCallsKeeps ==
    ASSUME WlInv, FlushCalls
    PROVE  WlInv'
<1>1. At("idle") /\ UNCHANGED <<wl, idleCbs, crash>>
  BY DEF FlushCalls
<1>2. WlTypes /\ Len(idleCbs) \in Nat /\ \A p \in WlOutputs : Pend(p)
  BY <1>1, AtIdle
<1>3. PICK i \in 1 .. Len(idleCbs) + 1 :
        /\ Of[1] = i /\ Of[2] = Len(idleCbs)
        /\ \A x : Contains(steps, x) <=> x = Step("idle", <<i, Len(idleCbs)>>)
  BY <1>1, AtIdle
<1>4. PICK c, l : c = idleCbs[i] /\ l = Step("idle", <<i + 1, Len(idleCbs)>>)
  OBVIOUS
<1>5. i \in 1 .. Len(idleCbs) /\ steps' = <<IF c[1] = "new" THEN User ELSE Step("send", c[2]), l>>
  BY <1>2, <1>3, <1>4 DEF FlushCalls
<1>6. PICK o \in WlOutputs : c = <<"new", o>> \/ c = <<"frame", o>>
  BY <1>2, <1>4, <1>5 DEF WlTypes
<1>7. PICK s : s = (IF c[1] = "new" THEN User ELSE Step("send", o)) /\ steps' = <<s, l>>
  BY <1>5, <1>6
<1>8. \A x : Contains(steps', x) <=> x \in {s, l}
  BY <1>7, TupleContents
<1>9. WlShape'
  <2>1. l \in Lasts'
    <3>1. i + 1 \in 1 .. Len(idleCbs) + 1
      BY <1>2, <1>5
    <3>2. l \in Lasts
      BY <1>4, <3>1 DEF Lasts
    <3> QED BY <1>1, <3>2, SameLasts
  <2>2. CASE s = User
    BY <1>7, <2>1, <2>2 DEF WlShape
  <2>3. CASE s = Step("send", o)
    <3>1. \E k \in Lasts' : steps' \in SendPlans(o, k)
      BY <1>7, <2>1, <2>3 DEF SendPlans
    <3> QED BY <3>1 DEF WlShape, SendPlans
  <2> QED BY <1>7, <2>2, <2>3
<1>10. ASSUME NEW p \in WlOutputs PROVE Pend(p)' /\ Answering(p)'
  <2>1. ~Has("send", p) /\ ~Has("sent", p) /\ ~Has("answer", p)
    <3>1. \A what : what # "idle" => Step(what, p) # Step("idle", <<i, Len(idleCbs)>>)
      BY DEF Step
    <3> QED BY <1>3, <3>1 DEF Has
  <2>2. ~Has("answered", p)'
    BY <1>4, <1>7, <1>8 DEF Has, Step, User
  <2>3. \A j : Contains(steps', Step("idle", j)) => j[1] = i + 1
    BY <1>4, <1>7, <1>8 DEF Step, User
  <2>4. Contains(steps, Step("idle", <<i, Len(idleCbs)>>))
    BY <1>3
  <2>5. Pend(p)'
    <3> SUFFICES ASSUME wl[p].alive, wl[p].scheduled, ~(wl[p].waiting /\ wl[p].callback) PROVE Pend(p)'
      BY <1>1 DEF Pend
    <3>1. PICK k \in 1 .. Len(idleCbs) :
            /\ idleCbs[k] = Step("frame", p)
            /\ \A j : Contains(steps, Step("idle", j)) => j[1] <= k
      BY <1>2, <2>1 DEF Pend
    <3>2. i <= k
      BY <2>4, <3>1
    <3>3. CASE k = i
      <4>1. o = p /\ c[1] = "frame"
        BY <1>4, <1>6, <3>1, <3>3 DEF Step
      <4>2. Has("send", p)'
        BY <1>7, <1>8, <4>1 DEF Has
      <4> QED BY <4>2 DEF Pend
    <3>4. CASE k # i
      <4>1. i + 1 <= k
        BY <1>2, <1>5, <3>2, <3>4
      <4> QED BY <1>1, <2>3, <3>1, <4>1 DEF Pend, Step
    <3> QED BY <3>3, <3>4
  <2> QED BY <2>2, <2>5 DEF Answering
<1> QED BY <1>1, <1>2, <1>9, <1>10 DEF WlInv, WlTypes

LEMMA FlushEndsKeeps ==
    ASSUME WlInv, FlushEnds
    PROVE  WlInv'
<1>1. At("idle") /\ Of[1] > Of[2] /\ idleCbs' = <<>> /\ steps' = <<>> /\ UNCHANGED <<wl, crash>>
  BY DEF FlushEnds
<1>2. WlTypes /\ Len(idleCbs) \in Nat /\ \A p \in WlOutputs : Pend(p)
  BY <1>1, AtIdle
<1>3. PICK i \in 1 .. Len(idleCbs) + 1 :
        /\ Of[1] = i /\ Of[2] = Len(idleCbs)
        /\ \A x : Contains(steps, x) <=> x = Step("idle", <<i, Len(idleCbs)>>)
  BY <1>1, AtIdle
<1>4. \A x : ~Contains(steps', x)
  BY <1>1, TupleContents
<1>5. ASSUME NEW p \in WlOutputs PROVE Pend(p)' /\ Answering(p)'
  <2>1. ~Has("send", p) /\ ~Has("sent", p) /\ ~Has("answer", p)
    BY <1>3 DEF Has, Step
  <2>2. Contains(steps, Step("idle", <<i, Len(idleCbs)>>))
    BY <1>3
  <2>3. wl[p].alive /\ wl[p].scheduled => wl[p].waiting /\ wl[p].callback
    <3> SUFFICES ASSUME wl[p].alive, wl[p].scheduled, ~(wl[p].waiting /\ wl[p].callback) PROVE FALSE
      OBVIOUS
    <3>1. PICK k \in 1 .. Len(idleCbs) : \A j : Contains(steps, Step("idle", j)) => j[1] <= k
      BY <1>2, <2>1 DEF Pend
    <3>2. i <= k
      BY <2>2, <3>1
    <3> QED BY <1>1, <1>2, <1>3, <3>2
  <2>4. ~Has("answered", p)'
    BY <1>4 DEF Has, Step
  <2> QED BY <1>1, <2>3, <2>4 DEF Pend, Answering
<1>6. WlTypes' /\ WlShape'
  BY <1>1, <1>2 DEF WlTypes, WlShape
<1> QED BY <1>5, <1>6 DEF WlInv

LEMMA WlInvInit == WlInit => WlInv
<1> SUFFICES ASSUME WlInit PROVE WlInv
  OBVIOUS
<1>1. NewOutput \in WlState /\ ~NewOutput.scheduled /\ ~NewOutput.callback
  BY DEF NewOutput, WlState
<1>2. IsFiniteSet({Step("new", o) : o \in WlOutputs})
  <2>1. PICK T, f : T = {Step("new", o) : o \in WlOutputs} /\ f = [o \in WlOutputs |-> Step("new", o)]
    OBVIOUS
  <2>2. f \in Surjection(WlOutputs, T)
    BY <2>1 DEF Surjection
  <2>3. IsFiniteSet(WlOutputs)
    BY WlAssumption
  <2> QED BY <2>1, <2>2, <2>3, FS_Surjection
<1>3. idleCbs \in Seq({Step("new", o) : o \in WlOutputs})
  BY <1>2, SetToSeqsContains DEF WlInit
<1>4. {Step("new", o) : o \in WlOutputs} \subseteq {"new", "frame"} \X WlOutputs
  BY DEF Step
<1>5. idleCbs \in Seq({"new", "frame"} \X WlOutputs)
  BY <1>3, <1>4
<1>6. WlTypes
  BY <1>1, <1>5 DEF WlInit, WlTypes
<1> QED BY <1>1, <1>6 DEF WlInit, WlInv, WlShape, Pend, Answering

LEMMA WlInvStep ==
    ASSUME ~BusyIdle, WlInv, [WlNext]_wlVars
    PROVE  WlInv'
<1>1. CASE UNCHANGED wlVars
  BY <1>1 DEF WlInv, WlTypes, WlShape, Pend, Answering, Has, Lasts, SendPlans, DonePlans, wlVars
<1>2. CASE Crashed
  BY <1>1, <1>2 DEF Crashed
<1>3. CASE Handler
  BY <1>3, UserReturnsKeeps, SendKeeps, SentKeeps, DoneSchedulesKeeps, DoneAnswersKeeps,
     DoneAnsweredKeeps, FlushBeginsKeeps, FlushCallsKeeps, FlushEndsKeeps DEF Handler
<1> QED BY <1>1, <1>2, <1>3, UserSchedulesKeeps, UserChangesKeep, EventsKeep DEF WlNext

\* The Wayland backend does not lose a frame: as long as the user schedules no
\* frames of other outputs in the middle of the loop over the idle callbacks
\* (dispatchEvents clears those unseen), a raised frameScheduled always has an
\* idle callback, or the host's answer to a frame callback, still to come, for
\* any number of nested outputs and whatever the host and the user do.
THEOREM NestedFramesStayPending ==
    ASSUME ~BusyIdle
    PROVE  WlSpec => []WlScheduledIsPending
<1>1. WlInv => WlScheduledIsPending
  <2> SUFFICES ASSUME WlInv, steps = <<>>, ~crash, NEW o \in WlOutputs, wl[o].alive, wl[o].scheduled
               PROVE  Contains(idleCbs, Step("frame", o)) \/ (wl[o].waiting /\ wl[o].callback)
    BY DEF WlScheduledIsPending
  <2>1. Pend(o) /\ ~Has("send", o) /\ ~Has("sent", o) /\ ~Has("answer", o)
    BY TupleContents DEF WlInv, Has
  <2> QED BY <2>1 DEF Pend, Contains
<1>2. WlInit => WlInv
  BY WlInvInit
<1>3. WlInv /\ [WlNext]_wlVars => WlInv'
  BY WlInvStep
<1> QED BY <1>1, <1>2, <1>3, PTL DEF WlSpec
=============================================================================
