------------------------- MODULE AnlandOutputProofs -------------------------
(***************************************************************************)
(* Proofs about the Anland output: its frame loop, for any depth of the    *)
(* calls that the compositor makes from its listeners, and its buffers,    *)
(* for any number of them, of consumers and of descriptors.                *)
(*                                                                         *)
(* The frame loop's theorems rest on the shape of the stack: while commit()*)
(* runs, the stack holds the end of exactly one commit, and nothing but the*)
(* events of that commit above it.  That is so if only the listeners of the*)
(* frame event ask for frames: those of the others run with the mutex held.*)
(*                                                                         *)
(* The buffers' theorems rest on who closes a DMA-BUF's descriptor (Owners)*)
(* and, for the first consumer, on every slot being imported.  A consumer  *)
(* that comes after the race of start() has its buffers imported by the    *)
(* next commit only: until then they are those of the context (LateInv),   *)
(* and what the import leaves is what any other leaves (WorldInv).  What   *)
(* the daemon sends and what importBuffers makes of it are followed        *)
(* descriptor by descriptor (Holds, Imports), by induction.                *)
(***************************************************************************)
EXTENDS AnlandOutput, Basics, SequenceTheorems, FiniteSetTheorems, TLAPS

\* What runs inside commit(), and the end of it in the stack s.
InCommit == {"present", "commitEvent", "committed"}
CommitOn(s) ==
    \E k \in 1 .. Len(s) :
        /\ s[k] = "unlock"
        /\ \A j \in 1 .. k - 1 : s[j] \in InCommit
        /\ \A j \in 1 .. Len(s) : s[j] = "unlock" => j = k
Absent(x, s) == \A j \in 1 .. Len(s) : s[j] # x

StackInv ==
    /\ calls \in Seq(Calls)
    /\ Absent("blocked", calls)
    /\ slotLocked => committing
    /\ committing => CommitOn(calls)
    /\ ~committing => Absent("unlock", calls)

-----------------------------------------------------------------------------
(* The stack.                                                              *)

\* The stack after its head ended, or gave way to something else.
LEMMA StackTail ==
    ASSUME NEW s \in Seq(Calls), s # <<>>
    PROVE  /\ Tail(s) \in Seq(Calls)
           /\ Len(Tail(s)) = Len(s) - 1 /\ Len(s) \in Nat /\ Len(s) > 0
           /\ Head(s) = s[1] /\ s[1] \in Calls
           /\ \A j \in 1 .. Len(Tail(s)) : Tail(s)[j] = s[j + 1]
  OBVIOUS

LEMMA StackPush ==
    ASSUME NEW s \in Seq(Calls), NEW c \in Calls
    PROVE  /\ <<c>> \o s \in Seq(Calls)
           /\ Len(<<c>> \o s) = Len(s) + 1
           /\ (<<c>> \o s)[1] = c
           /\ \A j \in 2 .. Len(s) + 1 : (<<c>> \o s)[j] = s[j - 1]
<1>1. PICK p : p = <<c>>
  OBVIOUS
<1>2. p \in Seq(Calls) /\ Len(p) = 1 /\ p[1] = c /\ Len(s) \in Nat
  BY <1>1
<1>3. /\ p \o s \in Seq(Calls)
      /\ Len(p \o s) = Len(p) + Len(s)
      /\ \A i \in 1 .. Len(p) + Len(s) : (p \o s)[i] =
                     IF i <= Len(p) THEN p[i] ELSE s[i - Len(p)]
  BY <1>2, ConcatProperties
<1>4. Len(p \o s) = Len(s) + 1
  BY <1>2, <1>3
<1>5. (p \o s)[1] = c
  BY <1>2, <1>3
<1>6. ASSUME NEW j \in 2 .. Len(s) + 1 PROVE (p \o s)[j] = s[j - 1]
  BY <1>2, <1>3
<1> QED BY <1>1, <1>3, <1>4, <1>5, <1>6

LEMMA StackPushTwo ==
    ASSUME NEW s \in Seq(Calls), NEW a \in Calls, NEW b \in Calls
    PROVE  <<a, b>> \o s = <<a>> \o (<<b>> \o s)
<1>1. <<a>> \in Seq(Calls) /\ <<b>> \in Seq(Calls)
  OBVIOUS
<1>2. <<a>> \o <<b>> = <<a, b>>
  <2>1. PICK p : p = <<a>> \o <<b>>
    OBVIOUS
  <2>2. PICK q : q = <<a, b>>
    OBVIOUS
  <2>3. p \in Seq(Calls) /\ Len(p) = 2 /\ p[1] = a /\ p[2] = b
    BY <1>1, <2>1, StackPush
  <2>4. q \in Seq(Calls) /\ Len(q) = 2 /\ q[1] = a /\ q[2] = b
    BY <2>2
  <2>5. \A i \in 1 .. Len(p) : p[i] = q[i]
    BY <2>3, <2>4
  <2> QED BY <2>1, <2>2, <2>3, <2>4, <2>5, SeqEqual
<1>3. (<<a>> \o <<b>>) \o s = <<a>> \o (<<b>> \o s)
  BY <1>1, ConcatAssociative
<1> QED BY <1>2, <1>3

LEMMA StackPushThree ==
    ASSUME NEW s \in Seq(Calls), NEW a \in Calls, NEW b \in Calls, NEW c \in Calls
    PROVE  <<a, b, c>> \o s = <<a>> \o (<<b>> \o (<<c>> \o s))
<1>1. <<a>> \in Seq(Calls) /\ <<b, c>> \in Seq(Calls)
  OBVIOUS
<1>2. <<a>> \o <<b, c>> = <<a, b, c>>
  <2>1. PICK p : p = <<a>> \o <<b, c>>
    OBVIOUS
  <2>2. PICK q : q = <<a, b, c>>
    OBVIOUS
  <2>3. p \in Seq(Calls) /\ Len(p) = 3 /\ p[1] = a /\ p[2] = b /\ p[3] = c
    BY <1>1, <2>1, StackPush
  <2>4. q \in Seq(Calls) /\ Len(q) = 3 /\ q[1] = a /\ q[2] = b /\ q[3] = c
    BY <2>2
  <2>5. \A i \in 1 .. Len(p) : p[i] = q[i]
    BY <2>3, <2>4
  <2> QED BY <2>1, <2>2, <2>3, <2>4, <2>5, SeqEqual
<1>3. (<<a>> \o <<b, c>>) \o s = <<a>> \o (<<b, c>> \o s)
  BY <1>1, ConcatAssociative
<1>4. <<b, c>> \o s = <<b>> \o (<<c>> \o s)
  BY StackPushTwo
<1> QED BY <1>2, <1>3, <1>4

\* What is not in the stack, and what stays in it.
LEMMA AbsentAfterPush ==
    ASSUME NEW s \in Seq(Calls), NEW c \in Calls, NEW x
    PROVE  Absent(x, <<c>> \o s) <=> Absent(x, s) /\ x # c
<1> DEFINE p == <<c>> \o s
<1>1. Len(p) = Len(s) + 1 /\ p[1] = c /\ \A j \in 2 .. Len(s) + 1 : p[j] = s[j - 1]
  BY StackPush
<1> HIDE DEF p
<1>2. ASSUME Absent(x, s), x # c, NEW j \in 1 .. Len(p) PROVE p[j] # x
  <2>1. CASE j = 1
    BY <1>1, <1>2, <2>1
  <2>2. CASE j # 1
    <3>1. j \in 2 .. Len(s) + 1 /\ j - 1 \in 1 .. Len(s) /\ p[j] = s[j - 1]
      BY <1>1, <2>2
    <3> QED BY <1>2, <3>1 DEF Absent
  <2> QED BY <2>1, <2>2
<1>3. ASSUME Absent(x, p), NEW j \in 1 .. Len(s) PROVE s[j] # x
  <2>1. j + 1 \in 2 .. Len(s) + 1 /\ j + 1 \in 1 .. Len(p) /\ (j + 1) - 1 = j
    BY <1>1
  <2>2. p[j + 1] = s[j]
    BY <1>1, <2>1
  <2> QED BY <1>3, <2>1, <2>2 DEF Absent
<1>4. Absent(x, p) => x # c
  BY <1>1 DEF Absent
<1> QED BY <1>2, <1>3, <1>4 DEF Absent, p

LEMMA AbsentAfterPop ==
    ASSUME NEW s \in Seq(Calls), s # <<>>, NEW x
    PROVE  Absent(x, s) <=> Absent(x, Tail(s)) /\ Head(s) # x
<1> DEFINE t == Tail(s)
<1>1. /\ Len(t) = Len(s) - 1 /\ Len(s) \in Nat /\ Len(s) > 0 /\ Head(s) = s[1]
      /\ \A j \in 1 .. Len(t) : t[j] = s[j + 1]
  BY StackTail
<1> HIDE DEF t
<1>2. ASSUME Absent(x, s), NEW j \in 1 .. Len(t) PROVE t[j] # x
  <2>1. j + 1 \in 1 .. Len(s) /\ t[j] = s[j + 1]
    BY <1>1
  <2> QED BY <1>2, <2>1 DEF Absent
<1>3. Absent(x, s) => Head(s) # x
  BY <1>1 DEF Absent
<1>4. ASSUME Absent(x, t), Head(s) # x, NEW j \in 1 .. Len(s) PROVE s[j] # x
  <2>1. CASE j = 1
    BY <1>1, <1>4, <2>1
  <2>2. CASE j # 1
    <3>1. j - 1 \in 1 .. Len(t) /\ t[j - 1] = s[(j - 1) + 1] /\ (j - 1) + 1 = j
      BY <1>1, <2>2
    <3> QED BY <1>4, <3>1 DEF Absent
  <2> QED BY <2>1, <2>2
<1> QED BY <1>2, <1>3, <1>4 DEF Absent, t

\* A commit begins, ...
LEMMA PushUnlock ==
    ASSUME NEW s \in Seq(Calls), Absent("unlock", s)
    PROVE  CommitOn(<<"unlock">> \o s)
<1> DEFINE p == <<"unlock">> \o s
<1>1. Len(p) = Len(s) + 1 /\ p[1] = "unlock" /\ \A j \in 2 .. Len(s) + 1 : p[j] = s[j - 1]
  BY StackPush DEF Calls
<1> HIDE DEF p
<1>2. ASSUME NEW j \in 1 .. Len(p), p[j] = "unlock" PROVE j = 1
  <2> SUFFICES ASSUME j # 1 PROVE FALSE
    OBVIOUS
  <2>1. j \in 2 .. Len(s) + 1 /\ j - 1 \in 1 .. Len(s) /\ p[j] = s[j - 1]
    BY <1>1
  <2> QED BY <1>2, <2>1 DEF Absent
<1>3. 1 \in 1 .. Len(p) /\ \A j \in 1 .. 1 - 1 : p[j] \in InCommit
  BY <1>1
<1> QED BY <1>1, <1>2, <1>3 DEF CommitOn, p

\* ... emits its events, ...
LEMMA PushInCommit ==
    ASSUME NEW s \in Seq(Calls), CommitOn(s), NEW c \in InCommit
    PROVE  CommitOn(<<c>> \o s)
<1> DEFINE p == <<c>> \o s
<1>c. c \in Calls /\ c # "unlock"
  BY DEF InCommit, Calls
<1>1. Len(p) = Len(s) + 1 /\ p[1] = c /\ \A j \in 2 .. Len(s) + 1 : p[j] = s[j - 1]
  BY <1>c, StackPush
<1> HIDE DEF p
<1>2. PICK k \in 1 .. Len(s) :
        /\ s[k] = "unlock"
        /\ \A j \in 1 .. k - 1 : s[j] \in InCommit
        /\ \A j \in 1 .. Len(s) : s[j] = "unlock" => j = k
  BY DEF CommitOn
<1>3. k + 1 \in 1 .. Len(p) /\ p[k + 1] = "unlock"
  BY <1>1, <1>2
<1>4. ASSUME NEW j \in 1 .. (k + 1) - 1 PROVE p[j] \in InCommit
  <2>1. CASE j = 1
    BY <1>1, <2>1
  <2>2. CASE j # 1
    <3>1. j \in 2 .. Len(s) + 1 /\ j - 1 \in 1 .. k - 1
      BY <2>2
    <3> QED BY <1>1, <1>2, <3>1
  <2> QED BY <2>1, <2>2
<1>5. ASSUME NEW j \in 1 .. Len(p), p[j] = "unlock" PROVE j = k + 1
  <2>1. j # 1
    BY <1>1, <1>5, <1>c
  <2>2. j \in 2 .. Len(s) + 1 /\ j - 1 \in 1 .. Len(s) /\ s[j - 1] = "unlock"
    BY <1>1, <1>5, <2>1
  <2>3. j - 1 = k
    BY <1>2, <2>2
  <2> QED BY <2>3
<1> QED BY <1>3, <1>4, <1>5 DEF CommitOn, p

\* ... whose listeners return, ...
LEMMA PopInCommit ==
    ASSUME NEW s \in Seq(Calls), CommitOn(s), Head(s) # "unlock"
    PROVE  Head(s) \in InCommit /\ CommitOn(Tail(s)) /\ s # <<>>
<1>1. PICK k \in 1 .. Len(s) :
        /\ s[k] = "unlock"
        /\ \A j \in 1 .. k - 1 : s[j] \in InCommit
        /\ \A j \in 1 .. Len(s) : s[j] = "unlock" => j = k
  BY DEF CommitOn
<1>2. s # <<>>
  BY <1>1
<1> DEFINE t == Tail(s)
<1>3. /\ Len(t) = Len(s) - 1 /\ Len(s) \in Nat /\ Head(s) = s[1]
      /\ \A j \in 1 .. Len(t) : t[j] = s[j + 1]
  BY <1>2, StackTail
<1> HIDE DEF t
<1>4. k # 1
  BY <1>1, <1>3
<1>5. Head(s) \in InCommit
  BY <1>1, <1>3, <1>4
<1>6. k - 1 \in 1 .. Len(t) /\ t[k - 1] = "unlock"
  BY <1>1, <1>3, <1>4
<1>7. ASSUME NEW j \in 1 .. (k - 1) - 1 PROVE t[j] \in InCommit
  <2>1. j + 1 \in 1 .. k - 1 /\ j \in 1 .. Len(t)
    BY <1>6
  <2> QED BY <1>1, <1>3, <2>1
<1>8. ASSUME NEW j \in 1 .. Len(t), t[j] = "unlock" PROVE j = k - 1
  <2>1. j + 1 \in 1 .. Len(s) /\ s[j + 1] = "unlock"
    BY <1>3, <1>8
  <2>2. j + 1 = k
    BY <1>1, <2>1
  <2> QED BY <2>2
<1>9. CommitOn(t)
  BY <1>6, <1>7, <1>8 DEF CommitOn
<1> QED BY <1>2, <1>5, <1>9 DEF t

\* ... and ends.
LEMMA PopUnlock ==
    ASSUME NEW s \in Seq(Calls), CommitOn(s), Head(s) = "unlock"
    PROVE  Absent("unlock", Tail(s)) /\ s # <<>>
<1>1. PICK k \in 1 .. Len(s) : \A i \in 1 .. Len(s) : s[i] = "unlock" => i = k
  BY DEF CommitOn
<1>2. s # <<>>
  BY <1>1
<1> DEFINE t == Tail(s)
<1>3. /\ Len(t) = Len(s) - 1 /\ Len(s) \in Nat /\ Len(s) > 0 /\ Head(s) = s[1]
      /\ \A j \in 1 .. Len(t) : t[j] = s[j + 1]
  BY <1>2, StackTail
<1> HIDE DEF t
<1>4. ASSUME NEW j \in 1 .. Len(t), t[j] = "unlock" PROVE FALSE
  <2>1. j + 1 \in 1 .. Len(s) /\ s[j + 1] = "unlock" /\ j + 1 # 1 /\ 1 \in 1 .. Len(s)
    BY <1>3, <1>4
  <2>2. k = 1 /\ k = j + 1
    BY <1>1, <1>3, <2>1
  <2> QED BY <2>1, <2>2
<1> QED BY <1>2, <1>4 DEF Absent, t

-----------------------------------------------------------------------------
(* Listeners of the frame event only.                                      *)

\* The stack of something that begins outside of commit().
LEMMA FreshStack ==
    ASSUME NEW s \in Seq(Calls), calls' = s, Absent("blocked", s), Absent("unlock", s),
           ~committing', ~slotLocked'
    PROVE  StackInv'
  BY DEF StackInv

\* What scheduleFrame pushes onto a stack outside of commit().
LEMMA ScheduleKeepsStack ==
    ASSUME NEW rest \in Seq(Calls), Absent("blocked", rest), Absent("unlock", rest),
           ~committing, ~slotLocked, ScheduleFrame(rest)
    PROVE  /\ StackInv'
           /\ frameScheduled' => frameScheduled \/ ~Absent("requeue", calls')
           /\ ~Absent("requeue", rest) => ~Absent("requeue", calls')
           /\ idle' = idle
<1>1. UNCHANGED <<committing, slotLocked, idle>>
  BY DEF ScheduleFrame, locks, queues
<1>2. "frame" \in Calls /\ "requeue" \in Calls
  BY DEF Calls
<1>3. CASE calls' = <<"frame">> \o rest /\ UNCHANGED frameScheduled
  <2>1. calls' \in Seq(Calls)
    BY <1>2, <1>3, StackPush
  <2>2. \A x : Absent(x, calls') <=> Absent(x, rest) /\ x # "frame"
    BY <1>2, <1>3, AbsentAfterPush
  <2> QED BY <1>1, <1>3, <2>1, <2>2, FreshStack
<1>4. CASE calls' = <<"frame", "requeue">> \o rest
  <2>1. PICK mid : mid = <<"requeue">> \o rest
    OBVIOUS
  <2>2. mid \in Seq(Calls) /\ \A x : Absent(x, mid) <=> Absent(x, rest) /\ x # "requeue"
    BY <1>2, <2>1, StackPush, AbsentAfterPush
  <2>3. calls' = <<"frame">> \o mid
    BY <1>2, <1>4, <2>1, StackPushTwo
  <2>4. calls' \in Seq(Calls) /\ \A x : Absent(x, calls') <=> Absent(x, mid) /\ x # "frame"
    BY <1>2, <2>2, <2>3, StackPush, AbsentAfterPush
  <2> QED BY <1>1, <2>2, <2>4, FreshStack
<1> QED BY <1>3, <1>4 DEF ScheduleFrame

\* Nothing but the events of a commit, and its end, is at work inside of it.
LEMMA CommitAtWork ==
    ASSUME StackInv, committing
    PROVE  calls # <<>> /\ Head(calls) \in InCommit \cup {"unlock"}
<1>1. CASE Head(calls) = "unlock"
  BY <1>1, PopUnlock DEF StackInv
<1>2. CASE Head(calls) # "unlock"
  BY <1>2, PopInCommit DEF StackInv
<1> QED BY <1>1, <1>2

-----------------------------------------------------------------------------
(* The invariant, and the actions.                                         *)

\* A request that is noted is in the idle queue, or its scheduleFrame will
\* put it there.
FlagInv ==
    /\ idle \in Nat
    /\ frameScheduled => idle > 0 \/ ~Absent("requeue", calls)

LoopInv == StackInv /\ FlagInv

\* Everything that scheduleFrame is called from.
LEMMA CallSchedulePreserves ==
    ASSUME SchedulesIn \subseteq {"frame"}, LoopInv, CallSchedule
    PROVE  LoopInv'
<1>1. ~committing /\ ~slotLocked
  <2>1. SUFFICES ASSUME committing PROVE FALSE
    BY DEF LoopInv, StackInv
  <2>2. calls # <<>> /\ Head(calls) \in InCommit \cup {"unlock"}
    BY <2>1, CommitAtWork DEF LoopInv
  <2>3. Head(calls) = "frame"
    BY <2>2 DEF CallSchedule, Running
  <2> QED BY <2>2, <2>3 DEF InCommit
<1>2. calls \in Seq(Calls) /\ Absent("blocked", calls) /\ Absent("unlock", calls)
  BY <1>1 DEF LoopInv, StackInv
<1>3. ScheduleFrame(calls)
  BY DEF CallSchedule
<1>4. /\ StackInv'
      /\ frameScheduled' => frameScheduled \/ ~Absent("requeue", calls')
      /\ ~Absent("requeue", calls) => ~Absent("requeue", calls')
      /\ idle' = idle
  BY <1>1, <1>2, <1>3, ScheduleKeepsStack
<1> QED BY <1>4 DEF LoopInv, FlagInv

LEMMA RunSchedulePreserves ==
    ASSUME LoopInv, RunSchedule
    PROVE  LoopInv'
<1>1. calls # <<>> /\ Head(calls) = "schedule" /\ calls \in Seq(Calls)
  BY DEF RunSchedule, Top, Running, LoopInv, StackInv
<1>2. ~committing /\ ~slotLocked
  <2>1. SUFFICES ASSUME committing PROVE FALSE
    BY DEF LoopInv, StackInv
  <2> QED BY <1>1, <2>1, CommitAtWork DEF LoopInv, InCommit
<1>3. /\ Tail(calls) \in Seq(Calls)
      /\ \A x : Absent(x, calls) <=> Absent(x, Tail(calls)) /\ Head(calls) # x
  BY <1>1, StackTail, AbsentAfterPop
<1>4. /\ Absent("blocked", Tail(calls)) /\ Absent("unlock", Tail(calls))
      /\ Absent("requeue", Tail(calls)) <=> Absent("requeue", calls)
  BY <1>1, <1>2, <1>3 DEF LoopInv, StackInv
<1>5. CASE ScheduleFrame(Tail(calls))
  <2>1. /\ StackInv'
        /\ frameScheduled' => frameScheduled \/ ~Absent("requeue", calls')
        /\ ~Absent("requeue", Tail(calls)) => ~Absent("requeue", calls')
        /\ idle' = idle
    BY <1>2, <1>3, <1>4, <1>5, ScheduleKeepsStack
  <2> QED BY <1>4, <2>1 DEF LoopInv, FlagInv
<1>6. CASE AlreadyScheduled /\ Pop /\ UNCHANGED <<vars, outputReady, frames, locks, queues, wire>>
  <2>1. calls' = Tail(calls) /\ UNCHANGED <<committing, slotLocked, frameScheduled, idle>>
    BY <1>6 DEF Pop, frames, locks, queues
  <2>2. StackInv'
    BY <1>2, <1>3, <1>4, <2>1, FreshStack
  <2> QED BY <1>4, <2>1, <2>2 DEF LoopInv, FlagInv
<1> QED BY <1>5, <1>6 DEF RunSchedule

\* The frame event of the link, and of the idle queue.
LEMMA RunEmitPreserves ==
    ASSUME LoopInv, RunEmit
    PROVE  LoopInv'
<1>1. calls # <<>> /\ Head(calls) = "emit" /\ calls \in Seq(Calls)
  BY DEF RunEmit, Top, Running, LoopInv, StackInv
<1>2. ~committing /\ ~slotLocked
  <2>1. SUFFICES ASSUME committing PROVE FALSE
    BY DEF LoopInv, StackInv
  <2> QED BY <1>1, <2>1, CommitAtWork DEF LoopInv, InCommit
<1>3. /\ Tail(calls) \in Seq(Calls)
      /\ \A x : Absent(x, calls) <=> Absent(x, Tail(calls)) /\ Head(calls) # x
  BY <1>1, StackTail, AbsentAfterPop
<1>4. /\ calls' = <<"frame">> \o Tail(calls)
      /\ UNCHANGED <<committing, slotLocked, frameScheduled, idle>>
  BY DEF RunEmit, frames, locks, queues
<1>5. "frame" \in Calls
  BY DEF Calls
<1>6. /\ calls' \in Seq(Calls)
      /\ \A x : Absent(x, calls') <=> Absent(x, Tail(calls)) /\ x # "frame"
  BY <1>3, <1>4, <1>5, StackPush, AbsentAfterPush
<1>7. Absent("blocked", calls') /\ Absent("unlock", calls')
  BY <1>2, <1>3, <1>6 DEF LoopInv, StackInv
<1>8. StackInv'
  BY <1>2, <1>4, <1>6, <1>7, FreshStack
<1>9. Absent("requeue", calls') <=> Absent("requeue", calls)
  BY <1>1, <1>3, <1>6
<1> QED BY <1>4, <1>8, <1>9 DEF LoopInv, FlagInv

LEMMA RequeuePreserves ==
    ASSUME LoopInv, Requeue
    PROVE  LoopInv'
<1>1. calls # <<>> /\ Head(calls) = "requeue" /\ calls \in Seq(Calls)
  BY DEF Requeue, Top, Running, LoopInv, StackInv
<1>2. ~committing /\ ~slotLocked
  <2>1. SUFFICES ASSUME committing PROVE FALSE
    BY DEF LoopInv, StackInv
  <2> QED BY <1>1, <2>1, CommitAtWork DEF LoopInv, InCommit
<1>3. /\ Tail(calls) \in Seq(Calls)
      /\ \A x : Absent(x, calls) <=> Absent(x, Tail(calls)) /\ Head(calls) # x
  BY <1>1, StackTail, AbsentAfterPop
<1>4. /\ calls' = Tail(calls)
      /\ UNCHANGED <<committing, slotLocked>>
      /\ idle' = IF idle = MaxIdle THEN idle ELSE idle + 1
  BY DEF Requeue, Pop, locks
<1>5. Absent("blocked", calls') /\ Absent("unlock", calls')
  BY <1>2, <1>3, <1>4 DEF LoopInv, StackInv
<1>6. StackInv'
  BY <1>2, <1>3, <1>4, <1>5, FreshStack
<1>7. idle' \in Nat /\ idle' > 0
  BY <1>4, LoopAssumption DEF LoopInv, FlagInv
<1> QED BY <1>6, <1>7 DEF LoopInv, FlagInv

\* A listener returns, inside of a commit or outside.
LEMMA ReturnPreserves ==
    ASSUME LoopInv, Return
    PROVE  LoopInv'
<1>1. calls # <<>> /\ Head(calls) \in Listening /\ calls \in Seq(Calls)
  BY DEF Return, Running, LoopInv, StackInv
<1>2. /\ Tail(calls) \in Seq(Calls)
      /\ \A x : Absent(x, calls) <=> Absent(x, Tail(calls)) /\ Head(calls) # x
  BY <1>1, StackTail, AbsentAfterPop
<1>3. /\ calls' = Tail(calls)
      /\ UNCHANGED <<committing, slotLocked, frameScheduled, idle>>
  BY DEF Return, Pop, frames, locks, queues
<1>4. Head(calls) # "unlock" /\ Head(calls) # "requeue"
  BY <1>1 DEF Listening
<1>5. committing' => CommitOn(calls')
  BY <1>1, <1>3, <1>4, PopInCommit DEF LoopInv, StackInv
<1>6. ~committing' => Absent("unlock", calls')
  BY <1>2, <1>3 DEF LoopInv, StackInv
<1>7. Absent("blocked", calls') /\ calls' \in Seq(Calls)
  BY <1>2, <1>3 DEF LoopInv, StackInv
<1>8. slotLocked' => committing'
  BY <1>3 DEF LoopInv, StackInv
<1>9. Absent("requeue", calls') <=> Absent("requeue", calls)
  BY <1>2, <1>3, <1>4
<1> QED BY <1>3, <1>5, <1>6, <1>7, <1>8, <1>9 DEF LoopInv, StackInv, FlagInv

\* A commit: what it pushes, above the stack as it was.
LEMMA CommitPushes ==
    ASSUME LoopInv, ~committing, committing', UNCHANGED <<frameScheduled, idle>>,
           \/ calls' = <<"commitEvent", "unlock">> \o calls
           \/ calls' = <<"present", "commitEvent", "unlock">> \o calls
    PROVE  LoopInv'
<1>1. calls \in Seq(Calls) /\ Absent("blocked", calls) /\ Absent("unlock", calls)
  BY DEF LoopInv, StackInv
<1>2. {"present", "commitEvent", "unlock"} \subseteq Calls
  BY DEF Calls
<1>3. PICK a : a = <<"unlock">> \o calls
  OBVIOUS
<1>4. /\ a \in Seq(Calls) /\ CommitOn(a)
      /\ \A x : Absent(x, a) <=> Absent(x, calls) /\ x # "unlock"
  BY <1>1, <1>2, <1>3, StackPush, PushUnlock, AbsentAfterPush
<1>5. PICK b : b = <<"commitEvent">> \o a
  OBVIOUS
<1>6. /\ b \in Seq(Calls) /\ CommitOn(b)
      /\ \A x : Absent(x, b) <=> Absent(x, a) /\ x # "commitEvent"
  BY <1>2, <1>4, <1>5, StackPush, PushInCommit, AbsentAfterPush DEF InCommit
<1>7. PICK c : c = <<"present">> \o b
  OBVIOUS
<1>8. /\ c \in Seq(Calls) /\ CommitOn(c)
      /\ \A x : Absent(x, c) <=> Absent(x, b) /\ x # "present"
  BY <1>2, <1>6, <1>7, StackPush, PushInCommit, AbsentAfterPush DEF InCommit
<1>9. <<"commitEvent", "unlock">> \o calls = b
  BY <1>1, <1>2, <1>3, <1>5, StackPushTwo
<1>10. <<"present", "commitEvent", "unlock">> \o calls = c
  <2>1. calls \in Seq(Calls) /\ "present" \in Calls /\ "commitEvent" \in Calls /\ "unlock" \in Calls
    BY <1>1, <1>2
  <2>2. <<"present", "commitEvent", "unlock">> \o calls
          = <<"present">> \o (<<"commitEvent">> \o (<<"unlock">> \o calls))
    <3>1. \A x, y, z \in Calls : <<x, y, z>> \o calls = <<x>> \o (<<y>> \o (<<z>> \o calls))
      BY <2>1, StackPushThree
    <3> QED BY <2>1, <3>1
  <2> QED BY <1>3, <1>5, <1>7, <2>2
<1>11. calls' = b \/ calls' = c
  BY <1>9, <1>10
<1>12. calls' \in Seq(Calls) /\ CommitOn(calls') /\ Absent("blocked", calls')
  BY <1>1, <1>4, <1>6, <1>8, <1>11
<1>13. Absent("requeue", calls') <=> Absent("requeue", calls)
  BY <1>4, <1>6, <1>8, <1>11
<1> QED BY <1>12, <1>13 DEF LoopInv, StackInv, FlagInv

LEMMA CommitImmediatePreserves ==
    ASSUME LoopInv, CommitImmediate
    PROVE  LoopInv'
  BY CommitPushes DEF CommitImmediate, queues

LEMMA CommitSlotPreserves ==
    ASSUME LoopInv, NEW i \in Idx, CommitSlot(i)
    PROVE  LoopInv'
  BY CommitPushes DEF CommitSlot, queues

LEMMA EmitCommitPreserves ==
    ASSUME LoopInv, EmitCommit
    PROVE  LoopInv'
<1>1. calls # <<>> /\ Head(calls) = "commitEvent" /\ calls \in Seq(Calls)
  BY DEF EmitCommit, Top, Running, LoopInv, StackInv
<1>2. PICK t : t = Tail(calls)
  OBVIOUS
<1>3. /\ t \in Seq(Calls)
      /\ \A x : Absent(x, calls) <=> Absent(x, t) /\ Head(calls) # x
  BY <1>1, <1>2, StackTail, AbsentAfterPop
<1>4. /\ calls' = <<"committed">> \o t
      /\ UNCHANGED <<committing, slotLocked, frameScheduled, idle>>
  BY <1>2 DEF EmitCommit, frames, locks, queues
<1>5. "committed" \in Calls /\ "committed" \in InCommit
  BY DEF Calls, InCommit
<1>6. /\ calls' \in Seq(Calls)
      /\ \A x : Absent(x, calls') <=> Absent(x, t) /\ x # "committed"
  BY <1>3, <1>4, <1>5, StackPush, AbsentAfterPush
<1>7. committing' => CommitOn(calls')
  <2>1. SUFFICES ASSUME committing PROVE CommitOn(calls')
    BY <1>4
  <2>2. CommitOn(t)
    BY <1>1, <1>2, <2>1, PopInCommit DEF LoopInv, StackInv
  <2> QED BY <1>3, <1>4, <1>5, <2>2, PushInCommit
<1>8. ~committing' => Absent("unlock", calls')
  BY <1>3, <1>4, <1>6 DEF LoopInv, StackInv
<1>9. Absent("blocked", calls') /\ (slotLocked' => committing')
  BY <1>3, <1>4, <1>6 DEF LoopInv, StackInv
<1>10. Absent("requeue", calls') <=> Absent("requeue", calls)
  BY <1>1, <1>3, <1>6
<1> QED BY <1>4, <1>6, <1>7, <1>8, <1>9, <1>10 DEF LoopInv, StackInv, FlagInv

\* The end of a commit.  The stack below it belongs to no other.
LEMMA CommitReturnsPreserves ==
    ASSUME LoopInv, CommitReturns
    PROVE  LoopInv'
<1>1. calls # <<>> /\ Head(calls) = "unlock" /\ calls \in Seq(Calls)
  BY DEF CommitReturns, Top, Running, LoopInv, StackInv
<1>2. /\ Tail(calls) \in Seq(Calls)
      /\ \A x : Absent(x, calls) <=> Absent(x, Tail(calls)) /\ Head(calls) # x
  BY <1>1, StackTail, AbsentAfterPop
<1>3. committing
  BY <1>1, <1>2 DEF LoopInv, StackInv
<1>4. /\ calls' = Tail(calls) /\ ~committing' /\ ~slotLocked'
      /\ UNCHANGED <<frameScheduled, idle>>
  BY DEF CommitReturns, Pop, frames, queues
<1>5. Absent("unlock", calls')
  BY <1>1, <1>3, <1>4, PopUnlock DEF LoopInv, StackInv
<1>6. Absent("blocked", calls')
  BY <1>2, <1>4 DEF LoopInv, StackInv
<1>7. StackInv'
  BY <1>2, <1>4, <1>5, <1>6, FreshStack
<1>8. Absent("requeue", calls') <=> Absent("requeue", calls)
  BY <1>1, <1>2, <1>4
<1> QED BY <1>4, <1>7, <1>8 DEF LoopInv, FlagInv

-----------------------------------------------------------------------------
(* The event loop, which runs when the stack is empty.                     *)

LEMMA IdleStack ==
    ASSUME LoopInv, ~Running
    PROVE  ~committing /\ ~slotLocked /\ (frameScheduled => idle > 0)
<1>1. calls = <<>>
  BY DEF Running
<1>2. ~committing
  BY <1>1, CommitAtWork DEF LoopInv
<1>3. Absent("requeue", calls)
  BY <1>1 DEF Absent
<1> QED BY <1>2, <1>3 DEF LoopInv, StackInv, FlagInv

\* What the event loop starts with.
LEMMA StartStacks ==
    ASSUME NEW s, s \in {<<>>, <<"frame">>, <<"present">>, <<"schedule">>, <<"emit">>, <<"emit", "schedule">>,
                         <<"schedule", "emit", "emit", "schedule">>}
    PROVE  s \in Seq(Calls) /\ Absent("blocked", s) /\ Absent("unlock", s)
<1>1. CASE s = <<>>
  BY <1>1 DEF Absent
<1>2. CASE s = <<"frame">>
  BY <1>2 DEF Absent, Calls
<1>3. CASE s = <<"present">>
  BY <1>3 DEF Absent, Calls
<1>4. CASE s = <<"schedule">>
  BY <1>4 DEF Absent, Calls
<1>5. CASE s = <<"emit">>
  BY <1>5 DEF Absent, Calls
<1>6. CASE s = <<"schedule", "emit", "emit", "schedule">>
  <2>1. s \in Seq(Calls)
    BY <1>6 DEF Calls
  <2>2. Len(s) = 4 /\ s[1] = "schedule" /\ s[2] = "emit" /\ s[3] = "emit" /\ s[4] = "schedule"
    BY <1>6
  <2>3. \A j \in 1 .. Len(s) : s[j] \in {"schedule", "emit"}
    BY <2>2
  <2> QED BY <2>1, <2>3 DEF Absent
<1>7. CASE s = <<"emit", "schedule">>
  <2>1. s \in Seq(Calls)
    BY <1>7 DEF Calls
  <2>2. Len(s) = 2 /\ s[1] = "emit" /\ s[2] = "schedule"
    BY <1>7
  <2>3. \A j \in 1 .. Len(s) : s[j] \in {"schedule", "emit"}
    BY <2>2
  <2> QED BY <2>1, <2>3 DEF Absent
<1> QED BY <1>1, <1>2, <1>3, <1>4, <1>5, <1>6, <1>7

LEMMA EventLoopPreserves ==
    ASSUME LoopInv,
           EventLoop \/ DeferFrameForIME \/ EnterFallback \/ ExitFallback \/ ConnectAgain
    PROVE  LoopInv'
<1>1. ~Running
  BY DEF EventLoop, FrameIdle, ImeIdle, OnBufferReady, DeferFrameForIME, EnterFallback,
         ExitFallback, ConnectAgain
<1>2. ~committing /\ ~slotLocked /\ (frameScheduled => idle > 0) /\ idle \in Nat
  BY <1>1, IdleStack DEF LoopInv, FlagInv
<1>3. UNCHANGED <<committing, slotLocked>>
  BY DEF EventLoop, FrameIdle, ImeIdle, OnBufferReady, DeferFrameForIME, EnterFallback,
         ExitFallback, ConnectAgain, locks
<1>4. calls' \in {<<>>, <<"frame">>, <<"present">>, <<"schedule">>, <<"emit", "schedule">>,
                  <<"schedule", "emit", "emit", "schedule">>}
  BY <1>1 DEF EventLoop, FrameIdle, ImeIdle, OnBufferReady, DeferFrameForIME, EnterFallback,
         ExitFallback, ConnectAgain, Running
<1>5. idle' \in Nat /\ (frameScheduled' => idle' > 0)
  <2>1. CASE FrameIdle
    BY <1>2, <2>1 DEF FrameIdle
  <2>2. CASE ImeIdle
    BY <1>2, <2>2 DEF ImeIdle, frames
  <2>3. CASE OnBufferReady
    BY <1>2, <2>3 DEF OnBufferReady, queues
  <2>4. CASE DeferFrameForIME
    BY <1>2, <2>4 DEF DeferFrameForIME, frames
  <2>5. CASE EnterFallback
    BY <2>5 DEF EnterFallback
  <2>6. CASE ExitFallback
    BY <1>2, <2>6 DEF ExitFallback, queues
  <2>7. CASE ConnectAgain
    BY <1>2, <2>7 DEF ConnectAgain, frames, queues
  <2> QED BY <2>1, <2>2, <2>3, <2>4, <2>5, <2>6, <2>7 DEF EventLoop
<1>6. StackInv'
  BY <1>2, <1>3, <1>4, StartStacks, FreshStack
<1> QED BY <1>5, <1>6 DEF LoopInv, FlagInv

LEMMA LoopInvInit ==
    ASSUME LoopInit
    PROVE  LoopInv
<1>1. calls = <<"emit">> /\ ~committing /\ ~slotLocked /\ ~frameScheduled /\ idle = 0
  BY DEF LoopInit
<1>2. calls \in Seq(Calls) /\ Absent("blocked", calls) /\ Absent("unlock", calls)
  BY <1>1, StartStacks
<1> QED BY <1>1, <1>2 DEF LoopInv, StackInv, FlagInv

LEMMA LoopInvStep ==
    ASSUME SchedulesIn \subseteq {"frame"}, LoopInv, [LoopNext]_allVars
    PROVE  LoopInv'
<1>1. CASE Compositor
  BY <1>1, CallSchedulePreserves, CommitImmediatePreserves, CommitSlotPreserves DEF Compositor
<1>2. CASE OutputSteps
  BY <1>2, RunSchedulePreserves, RunEmitPreserves, RequeuePreserves, EmitCommitPreserves,
     CommitReturnsPreserves DEF OutputSteps
<1>3. CASE Return
  BY <1>3, ReturnPreserves
<1>4. CASE EventLoop \/ DeferFrameForIME \/ EnterFallback \/ ExitFallback \/ ConnectAgain
  BY <1>4, EventLoopPreserves
<1>5. CASE Show \/ Elsewhere \/ UNCHANGED allVars
  <2>1. UNCHANGED <<calls, committing, slotLocked, frameScheduled, idle>>
    BY <1>5 DEF Show, Elsewhere, allVars, loop, frames, locks, queues
  <2> QED BY <2>1 DEF LoopInv, StackInv, FlagInv, Absent, CommitOn
<1> QED BY <1>1, <1>2, <1>3, <1>4, <1>5 DEF LoopNext

LEMMA LoopInvAlways ==
    ASSUME SchedulesIn \subseteq {"frame"}
    PROVE  LoopSpec => []LoopInv
<1>1. LoopInit => LoopInv
  BY LoopInvInit
<1>2. LoopInv /\ [LoopNext]_allVars => LoopInv'
  BY LoopInvStep
<1> QED BY <1>1, <1>2, PTL DEF LoopSpec

-----------------------------------------------------------------------------

\* scheduleFrame takes the mutex of the selected slot, which commit() holds
\* while its listeners run.  As long as only listeners of the frame event ask
\* for frames, no call waits for a mutex of its own thread, however deep the
\* compositor's calls are.
THEOREM NeverSelfDeadlocked ==
    ASSUME SchedulesIn \subseteq {"frame"}
    PROVE  LoopSpec => []NoSelfDeadlock
<1>1. LoopInv => NoSelfDeadlock
  <2> SUFFICES ASSUME LoopInv, calls # <<>>, Head(calls) = "blocked" PROVE FALSE
    BY DEF NoSelfDeadlock, Top, Running
  <2>1. calls \in Seq(Calls) /\ Absent("blocked", calls)
    BY DEF LoopInv, StackInv
  <2> QED BY <2>1, AbsentAfterPop
<1> QED BY <1>1, LoopInvAlways, PTL

\* m_frameScheduled makes scheduleFrame return at once: whenever it is raised,
\* frameIdle, which lowers it, is in the idle queue or about to be put there,
\* so a request is never refused for the sake of one that was forgotten.
THEOREM FlagNeverForgotten ==
    ASSUME SchedulesIn \subseteq {"frame"}
    PROVE  LoopSpec => []FrameFlagIsQueued
<1>1. LoopInv => FrameFlagIsQueued
  <2> SUFFICES ASSUME LoopInv, ~Absent("requeue", calls) PROVE "requeue" \in Range(calls)
    BY DEF FrameFlagIsQueued, LoopInv, FlagInv
  <2>1. PICK j \in 1 .. Len(calls) : calls[j] = "requeue"
    BY DEF Absent
  <2>2. j \in DOMAIN calls
    BY <2>1 DEF LoopInv, StackInv
  <2> QED BY <2>1, <2>2 DEF Range
<1> QED BY <1>1, LoopInvAlways, PTL

-----------------------------------------------------------------------------
(* The descriptor table.                                                   *)

Tables == [Fds -> Files]

\* The kinds of files are told apart.
LEMMA FilesDiffer ==
    /\ \A c \in Conns, i \in Idx :
        /\ Dmabuf(c, i) # Nothing /\ Dmabuf(c, i) # Other
        /\ Dmabuf(c, i) \in Files /\ Dmabuf(c, i) \in Dmabufs
        /\ \A d \in Conns : Dmabuf(c, i) # Channel(d)
        /\ \A j \in Idx : Dmabuf(c, i) = Dmabuf(c, j) => i = j
    /\ \A c \in Conns : Channel(c) # Nothing /\ Channel(c) # Other /\ Channel(c) \in Files /\ Channel(c) \notin Dmabufs
    /\ Other # Nothing /\ Other \in Files /\ Nothing \in Files
    /\ Other \notin Dmabufs /\ Nothing \notin Dmabufs
  BY DEF Files, Dmabufs, Dmabuf, Channel, Other, Nothing

LEMMA FdTypes ==
    /\ Fds \subseteq Nat /\ NoFd \notin Fds /\ IsFiniteSet(Fds)
    /\ NumFds \in Nat /\ MAX_BUFS \in Nat \ {0} /\ 0 \in Idx
    /\ Cardinality(Fds) = NumFds
<1>1. Fds \subseteq Nat /\ NoFd \notin Fds /\ NumFds \in Nat /\ MAX_BUFS \in Nat \ {0} /\ 0 \in Idx
  BY BoundsAssumption DEF Fds, NoFd, Idx
<1>2. IsFiniteSet(Fds) /\ Cardinality(Fds) = NumFds
  <2>1. NumFds - 1 \in Int /\ ~(0 > NumFds - 1)
    BY BoundsAssumption
  <2> QED BY <1>1, <2>1, FS_Interval DEF Fds
<1> QED BY <1>1, <1>2

\* The kernel gives the lowest free number, and opens nothing else.
LEMMA LowestIsFree ==
    ASSUME NEW f \in Tables, Free(f) # {}
    PROVE  Lowest(f) \in Fds /\ f[Lowest(f)] = Nothing /\ Lowest(f) # NoFd
<1>1. Free(f) \subseteq Nat
  BY FdTypes DEF Free
<1>2. \E x \in Free(f) : \A y \in Free(f) : x <= y
  BY <1>1, LeastNumber
<1>3. Min(Free(f)) \in Free(f)
  BY <1>2 DEF Min
<1>4. Lowest(f) \in Free(f)
  BY <1>3 DEF Lowest
<1> QED BY <1>4, FdTypes DEF Free

LEMMA OpenedTable ==
    ASSUME NEW f \in Tables, NEW x \in Files
    PROVE  /\ Opened(f, x) \in Tables
           /\ Free(f) # {} =>
                /\ Opened(f, x)[Lowest(f)] = x
                /\ \A m \in Fds : m # Lowest(f) => Opened(f, x)[m] = f[m]
                /\ x # Nothing => Cardinality(Free(Opened(f, x))) = Cardinality(Free(f)) - 1
           /\ Cardinality(Free(f)) \in Nat
<1>0. IsFiniteSet(Free(f))
  BY FdTypes, FS_Subset DEF Free
<1>c. Cardinality(Free(f)) \in Nat
  BY <1>0, FS_CardinalityType
<1>1. CASE Free(f) = {}
  BY <1>1, <1>c DEF Opened
<1>2. CASE Free(f) # {}
  <2>1. Lowest(f) \in Fds /\ f[Lowest(f)] = Nothing
    BY <1>2, LowestIsFree
  <2>2. PICK n \in Fds : n = Lowest(f)
    BY <2>1
  <2>3. Opened(f, x) = [f EXCEPT ![n] = x]
    BY <1>2, <2>2 DEF Opened
  <2>4. PICK g \in Tables : g = Opened(f, x)
    BY <2>3 DEF Tables
  <2>5. g[n] = x /\ \A m \in Fds : m # n => g[m] = f[m]
    BY <2>3, <2>4 DEF Tables
  <2>6. ASSUME x # Nothing PROVE Cardinality(Free(g)) = Cardinality(Free(f)) - 1
    <3>1. Free(g) = Free(f) \ {n}
      BY <2>5, <2>6 DEF Free
    <3>2. n \in Free(f)
      BY <2>1, <2>2 DEF Free
    <3> QED BY <1>0, <3>1, <3>2, FS_RemoveElement
  <2> QED BY <1>c, <2>2, <2>4, <2>5, <2>6
<1> QED BY <1>1, <1>2

LEMMA ClosedTable ==
    ASSUME NEW f \in Tables, NEW n
    PROVE  /\ Closed(f, n) \in Tables
           /\ \A m \in Fds : Closed(f, n)[m] = IF m = n THEN Nothing ELSE f[m]
<1>1. CASE n \in Fds
  BY <1>1, FilesDiffer DEF Closed, Tables
<1>2. CASE n \notin Fds
  BY <1>2 DEF Closed
<1> QED BY <1>1, <1>2

LEMMA ClosedAllTable ==
    ASSUME NEW f \in Tables, NEW S
    PROVE  /\ ClosedAll(f, S) \in Tables
           /\ \A m \in Fds : ClosedAll(f, S)[m] = IF m \in S THEN Nothing ELSE f[m]
  BY FilesDiffer DEF ClosedAll, Tables

\* A duplicate refers to the same file, and is the only new descriptor.
LEMMA DupTable ==
    ASSUME NEW f \in Tables, NEW n
    PROVE  /\ Duped(f, n) \in Tables /\ DupFd(f, n) \in Fds \cup {NoFd}
           /\ DupFd(f, n) = NoFd => Duped(f, n) = f
           /\ DupFd(f, n) # NoFd =>
                /\ n \in Fds /\ f[n] # Nothing /\ DupFd(f, n) \in Fds
                /\ f[DupFd(f, n)] = Nothing
                /\ Duped(f, n)[DupFd(f, n)] = f[n]
                /\ \A m \in Fds : m # DupFd(f, n) => Duped(f, n)[m] = f[m]
           /\ n \in Fds /\ f[n] # Nothing /\ Free(f) # {} => DupFd(f, n) # NoFd
<1>1. CASE n \in Fds /\ f[n] # Nothing /\ Free(f) # {}
  <2>1. PICK d : d = DupFd(f, n)
    OBVIOUS
  <2>2. d = Lowest(f)
    BY <1>1, <2>1 DEF DupFd
  <2>3. d \in Fds /\ f[d] = Nothing /\ d # NoFd
    BY <1>1, <2>2, LowestIsFree
  <2>4. Duped(f, n) = Opened(f, f[n])
    BY <2>1, <2>3 DEF Duped
  <2>5. f[n] \in Files
    BY <1>1 DEF Tables
  <2>6. Duped(f, n) \in Tables /\ Duped(f, n)[d] = f[n] /\ \A m \in Fds : m # d => Duped(f, n)[m] = f[m]
    BY <1>1, <2>2, <2>4, <2>5, OpenedTable
  <2> QED BY <1>1, <2>1, <2>3, <2>6
<1>2. CASE ~(n \in Fds /\ f[n] # Nothing /\ Free(f) # {})
  <2>1. DupFd(f, n) = NoFd
    BY <1>2 DEF DupFd, Lowest
  <2>2. Duped(f, n) = f
    BY <2>1 DEF Duped
  <2> QED BY <1>2, <2>1, <2>2
<1> QED BY <1>1, <1>2

-----------------------------------------------------------------------------
(* What the daemon sends.                                                  *)

\* The table fills up one descriptor after the other.
LEMMA ReceivedStep ==
    ASSUME NEW f \in Tables, NEW c \in Conns, NEW n \in 1 .. MAX_BUFS
    PROVE  /\ Received(f, c, n)[0] = Opened(f, Channel(c))
           /\ \A i \in 1 .. n : Received(f, c, n)[i] = Opened(Received(f, c, n)[i - 1], Dmabuf(c, i - 1))
<1> DEFINE A == Opened(f, Channel(c))
           F == [i \in 1 .. n |-> [t \in Tables |-> Opened(t, Dmabuf(c, i - 1))]]
           Body(t, i) == IF i = 0 THEN A ELSE Opened(t[i - 1], Dmabuf(c, i - 1))
           R == CHOOSE t : t = [i \in 0 .. n |-> Body(t, i)]
<1>1. Received(f, c, n) = R
  BY DEF Received
<1>2. n \in Nat /\ A \in Tables /\ \A i \in 1 .. n : \A t \in Tables : Opened(t, Dmabuf(c, i - 1)) \in Tables
  <2>1. n \in Nat /\ \A i \in 1 .. n : i - 1 \in Idx
    BY FdTypes DEF Idx
  <2>2. Channel(c) \in Files /\ \A i \in 1 .. n : Dmabuf(c, i - 1) \in Files
    BY <2>1, FilesDiffer
  <2> QED BY <2>1, <2>2, OpenedTable
<1> HIDE DEF A
<1>3. PICK t \in [0 .. n -> Tables] : t[0] = A /\ \A i \in 1 .. n : t[i] = F[i][t[i - 1]]
  <2>1. F \in [1 .. n -> [Tables -> Tables]]
    BY <1>2
  <2> HIDE DEF F
  <2>2. Recurses(Tables, n, A, F)
    BY <1>2, <2>1, Recursion
  <2> QED BY <2>2 DEF Recurses
<1>4. \A i \in 0 .. n : t[i] = Body(t, i)
  <2>1. \A i \in 0 .. n : i # 0 => i \in 1 .. n /\ i - 1 \in 0 .. n
    BY <1>2
  <2> QED BY <1>3, <2>1
<1>5. \E g : g = [i \in 0 .. n |-> Body(g, i)]
  <2> HIDE DEF Body
  <2>1. t = [i \in 0 .. n |-> Body(t, i)]
    BY <1>4, Zenon
  <2> QED BY <2>1
<1>6. R = [i \in 0 .. n |-> Body(R, i)]
  BY <1>5
<1> HIDE DEF R
<1>7. \A i \in 0 .. n : R[i] = Body(R, i)
  <2> HIDE DEF Body
  <2> QED BY <1>6
<1>8. R[0] = A
  BY <1>2, <1>7
<1>9. \A i \in 1 .. n : R[i] = Opened(R[i - 1], Dmabuf(c, i - 1))
  <2>1. \A i \in 1 .. n : i \in 0 .. n /\ i # 0
    BY <1>2
  <2> QED BY <1>7, <2>1
<1> QED BY <1>1, <1>8, <1>9 DEF A

Worlds == [file : Tables, slot : [Idx -> Bufs \cup {NoBuf}]]
Fresh(f) == [file |-> ClosedAll(f, DeadFds(SlotBufs, {staged})), slot |-> [j \in Idx |-> NoBuf]]

LEMMA ImportBufferType ==
    ASSUME NEW w \in Worlds, NEW fds, NEW c \in Conns, NEW i \in Idx
    PROVE  ImportBuffer(w, fds, c, i) \in Worlds
<1>1. PICK f \in Tables, s \in [Idx -> Bufs \cup {NoBuf}] : w.file = f /\ w.slot = s
  BY DEF Worlds
<1>2. PICK d : d = DupFd(f, fds[i])
  OBVIOUS
<1>3. d = NoFd \/ d \in Fds
  BY <1>2, DupTable
<1>4. Closed(Duped(f, fds[i]), fds[i]) \in Tables
  BY DupTable, ClosedTable
<1>5. (IF d = NoFd THEN NoBuf ELSE [conn |-> c, idx |-> i, fd |-> d]) \in Bufs \cup {NoBuf}
  BY <1>3 DEF Bufs
<1>6. [s EXCEPT ![i] = IF d = NoFd THEN NoBuf ELSE [conn |-> c, idx |-> i, fd |-> d]] \in [Idx -> Bufs \cup {NoBuf}]
  BY <1>5
<1> QED BY <1>1, <1>2, <1>4, <1>6 DEF ImportBuffer, Worlds

\* The slots are imported one after the other.
ImportsInSteps(f, fds, c, n) ==
    \E w \in [0 .. n -> Worlds] :
        /\ ImportBuffers(f, fds, c, n) = w[n]
        /\ w[0] = Fresh(f)
        /\ \A i \in 1 .. n : w[i] = ImportBuffer(w[i - 1], fds, c, i - 1)

LEMMA ImportStep ==
    ASSUME NEW f \in Tables, NEW fds, NEW c \in Conns, NEW n \in 1 .. MAX_BUFS
    PROVE  ImportsInSteps(f, fds, c, n)
<1> DEFINE A == Fresh(f)
           F == [i \in 1 .. n |-> [w \in Worlds |-> ImportBuffer(w, fds, c, i - 1)]]
           Body(w, i) == IF i = 0 THEN Fresh(f) ELSE ImportBuffer(w[i - 1], fds, c, i - 1)
           R == CHOOSE w : w = [i \in 0 .. n |-> Body(w, i)]
<1>1. ImportBuffers(f, fds, c, n) = R[n]
  BY DEF ImportBuffers, Fresh
<1>2. n \in Nat /\ \A i \in 1 .. n : i - 1 \in Idx
  BY FdTypes DEF Idx
<1>a. Fresh(f) \in Worlds
  BY ClosedAllTable DEF Fresh, Worlds
<1>b. \A i \in 1 .. n : \A w \in Worlds : ImportBuffer(w, fds, c, i - 1) \in Worlds
  BY <1>2, ImportBufferType
<1>3. PICK w \in [0 .. n -> Worlds] : w[0] = Fresh(f) /\ \A i \in 1 .. n : w[i] = F[i][w[i - 1]]
  <2>1. F \in [1 .. n -> [Worlds -> Worlds]]
    BY <1>b
  <2> HIDE DEF F
  <2>2. Recurses(Worlds, n, Fresh(f), F)
    BY <1>2, <1>a, <2>1, Recursion
  <2> QED BY <2>2 DEF Recurses
<1>c. \A i \in 0 .. n : i # 0 => i \in 1 .. n /\ i - 1 \in 0 .. n
  BY <1>2
<1>4. \A i \in 0 .. n : w[i] = Body(w, i)
  BY <1>3, <1>c
<1>5. \E g : g = [i \in 0 .. n |-> Body(g, i)]
  <2> HIDE DEF Body
  <2>1. w = [i \in 0 .. n |-> Body(w, i)]
    BY <1>4, Zenon
  <2> QED BY <2>1
<1>6. R = [i \in 0 .. n |-> Body(R, i)]
  BY <1>5
<1> HIDE DEF R
<1>7. \A i \in 0 .. n : R[i] = Body(R, i)
  <2> HIDE DEF Body
  <2> QED BY <1>6
<1>8. R[0] = Fresh(f)
  BY <1>2, <1>7
<1>d. \A i \in 1 .. n : i \in 0 .. n /\ i # 0
  BY <1>2
<1>9. \A i \in 1 .. n : R[i] = ImportBuffer(R[i - 1], fds, c, i - 1)
  BY <1>7, <1>d
<1>10. R \in [0 .. n -> Worlds]
  <2> DEFINE G == {i \in 0 .. n : R[i] \in Worlds}
  <2>1. 0 \in G
    BY <1>2, <1>8, <1>a
  <2>2. \A i \in 1 .. n : i - 1 \in G => i \in G
    BY <1>9, <1>b, <1>d
  <2>3. \A i \in 0 .. n : R[i] \in Worlds
    <3> HIDE DEF G
    <3>1. \A i \in 0 .. n : i \in G
      BY <1>2, <2>1, <2>2, UpTo
    <3> QED BY <3>1 DEF G
  <2>4. R = [i \in 0 .. n |-> R[i]]
    BY <1>6, Zenon
  <2> QED BY <2>3, <2>4
<1> QED BY <1>1, <1>8, <1>9, <1>10 DEF ImportsInSteps

\* t is the table f after the channel and the first i DMA-BUFs came.
Holds(f, t, ch, fds, c, i) ==
    /\ t \in Tables
    /\ Cardinality(Free(t)) = Cardinality(Free(f)) - 1 - i
    /\ ch \in Fds /\ f[ch] = Nothing /\ t[ch] = Channel(c)
    /\ \A j \in 0 .. i - 1 : fds[j] \in Fds /\ f[fds[j]] = Nothing /\ t[fds[j]] = Dmabuf(c, j)
    /\ \A m \in Fds : f[m] # Nothing => t[m] = f[m]
    /\ \A m \in Fds : t[m] \in Dmabufs => f[m] \in Dmabufs \/ \E j \in 0 .. i - 1 : m = fds[j]

LEMMA ReceiveOne ==
    ASSUME NEW f \in Tables, NEW t \in Tables, NEW ch, NEW fds, NEW c \in Conns, NEW i \in Idx,
           Cardinality(Free(f)) > i + 1, fds[i] = Lowest(t), Holds(f, t, ch, fds, c, i)
    PROVE  Holds(f, Opened(t, Dmabuf(c, i)), ch, fds, c, i + 1)
<1>0. i \in Nat /\ i - 1 \in Int /\ i + 1 - 1 = i /\ Cardinality(Free(f)) \in Nat /\ Cardinality(Free(t)) \in Nat
  BY FdTypes, OpenedTable, FilesDiffer DEF Idx
<1>1. Free(t) # {}
  <2>1. Cardinality(Free(t)) > 0
    BY <1>0 DEF Holds
  <2> QED BY <2>1, FS_EmptySet
<1>2. PICK d \in Fds : d = Lowest(t) /\ t[d] = Nothing
  BY <1>1, LowestIsFree
<1>3. PICK x \in Files : x = Dmabuf(c, i) /\ x # Nothing /\ x \in Dmabufs /\ x # Channel(c)
  BY FilesDiffer
<1>4. PICK u \in Tables : u = Opened(t, x)
  BY OpenedTable
<1>5. /\ u[d] = x
      /\ \A m \in Fds : m # d => u[m] = t[m]
      /\ Cardinality(Free(u)) = Cardinality(Free(t)) - 1
  BY <1>1, <1>2, <1>3, <1>4, OpenedTable
<1>6. fds[i] = d
  BY <1>2
<1>7. \A j \in 0 .. i - 1 : j \in Idx /\ Dmabuf(c, j) # Nothing
  <2>1. \A j \in 0 .. i - 1 : j \in Idx
    BY FdTypes DEF Idx
  <2> QED BY <2>1, FilesDiffer
<1>8. Cardinality(Free(u)) = Cardinality(Free(f)) - 1 - (i + 1)
  BY <1>0, <1>5 DEF Holds
<1>9. ch \in Fds /\ f[ch] = Nothing /\ u[ch] = Channel(c)
  BY <1>2, <1>5, FilesDiffer DEF Holds
<1>10. f[d] = Nothing
  BY <1>2 DEF Holds
<1>11. \A j \in 0 .. i : fds[j] \in Fds /\ f[fds[j]] = Nothing /\ u[fds[j]] = Dmabuf(c, j)
  <2> SUFFICES ASSUME NEW j \in 0 .. i
               PROVE  fds[j] \in Fds /\ f[fds[j]] = Nothing /\ u[fds[j]] = Dmabuf(c, j)
    OBVIOUS
  <2>1. CASE j = i
    BY <2>1, <1>3, <1>5, <1>6, <1>10
  <2>2. CASE j # i
    <3>1. j \in 0 .. i - 1
      BY <2>2, <1>0
    <3>2. fds[j] \in Fds /\ f[fds[j]] = Nothing /\ t[fds[j]] = Dmabuf(c, j)
      BY <3>1 DEF Holds
    <3>3. fds[j] # d
      BY <3>1, <3>2, <1>2, <1>7
    <3> QED BY <3>2, <3>3, <1>5
  <2> QED BY <2>1, <2>2
<1>12. \A m \in Fds : f[m] # Nothing => u[m] = f[m]
  BY <1>5, <1>10 DEF Holds
<1>13. ASSUME NEW m \in Fds, u[m] \in Dmabufs PROVE f[m] \in Dmabufs \/ \E j \in 0 .. i : m = fds[j]
  <2>1. CASE m = d
    BY <2>1, <1>6, <1>0
  <2>2. CASE m # d
    <3>1. f[m] \in Dmabufs \/ \E j \in 0 .. i - 1 : m = fds[j]
      BY <2>2, <1>13, <1>5 DEF Holds
    <3>2. \A j \in 0 .. i - 1 : j \in 0 .. i
      BY <1>0
    <3> QED BY <3>1, <3>2
  <2> QED BY <2>1, <2>2
<1>14. Holds(f, u, ch, fds, c, i + 1)
  BY <1>0, <1>4, <1>8, <1>9, <1>11, <1>12, <1>13 DEF Holds
<1> QED BY <1>3, <1>4, <1>14

\* All of them came, in their order.
LEMMA ReceivedAll ==
    ASSUME NEW f \in Tables, NEW fds, NEW c \in Conns, NEW n \in 1 .. MAX_BUFS,
           Cardinality(Free(f)) > n,
           \A i \in 0 .. n - 1 : fds[i] = Lowest(Received(f, c, n)[i])
    PROVE  Holds(f, Received(f, c, n)[n], Lowest(f), fds, c, n)
<1>0. n \in Nat /\ Cardinality(Free(f)) \in Nat /\ \A i \in 1 .. n : i - 1 \in Idx /\ i - 1 \in 0 .. n - 1 /\ i - 1 + 1 = i
  BY FdTypes, OpenedTable, FilesDiffer DEF Idx
<1>1. PICK T : T = Received(f, c, n)
  OBVIOUS
<1>2. T[0] = Opened(f, Channel(c)) /\ \A i \in 1 .. n : T[i] = Opened(T[i - 1], Dmabuf(c, i - 1))
  BY <1>1, ReceivedStep
<1>3. PICK ch : ch = Lowest(f)
  OBVIOUS
<1> DEFINE G == {i \in 0 .. n : Holds(f, T[i], ch, fds, c, i)}
<1>4. 0 \in G
  <2>1. Free(f) # {}
    <3>1. Cardinality(Free(f)) > 0
      BY <1>0
    <3> QED BY <3>1, FS_EmptySet
  <2>2. ch \in Fds /\ f[ch] = Nothing
    BY <1>3, <2>1, LowestIsFree
  <2>3. PICK x \in Files : x = Channel(c) /\ x # Nothing /\ x \notin Dmabufs
    BY FilesDiffer
  <2>4. /\ T[0] \in Tables /\ T[0][ch] = x /\ Cardinality(Free(T[0])) = Cardinality(Free(f)) - 1
        /\ \A m \in Fds : m # ch => T[0][m] = f[m]
    BY <1>2, <1>3, <2>1, <2>3, OpenedTable
  <2>5. Holds(f, T[0], ch, fds, c, 0)
    BY <1>0, <2>2, <2>3, <2>4 DEF Holds
  <2> QED BY <1>0, <2>5
<1>5. ASSUME NEW i \in 1 .. n, i - 1 \in G PROVE i \in G
  <2>1. Holds(f, T[i - 1], ch, fds, c, i - 1)
    BY <1>5
  <2>2. T[i - 1] \in Tables
    BY <2>1 DEF Holds
  <2>3. PICK k \in Idx : k = i - 1 /\ k + 1 = i /\ fds[k] = Lowest(T[k]) /\ Cardinality(Free(f)) > k + 1
    BY <1>0, <1>1
  <2>4. Holds(f, Opened(T[k], Dmabuf(c, k)), ch, fds, c, k + 1)
    BY <2>1, <2>2, <2>3, ReceiveOne
  <2>5. T[i] = Opened(T[k], Dmabuf(c, k))
    BY <1>2, <2>3
  <2> QED BY <2>3, <2>4, <2>5
<1>6. n \in G
  <2> HIDE DEF G
  <2> QED BY <1>0, <1>4, <1>5, UpTo
<1> QED BY <1>1, <1>3, <1>6

\* The first i of n slots are imported from the table t.  Only slot 0 can
\* find no room: closing the daemon's descriptor makes room for the next.
Imports(t, fds, c, n, w, i) ==
    /\ w \in Worlds
    /\ \A j \in i .. n - 1 : w.file[fds[j]] = Dmabuf(c, j)
    /\ \A j \in Idx : j >= i => w.slot[j] = NoBuf
    /\ \A j \in Idx : w.slot[j] # NoBuf =>
          w.slot[j].conn = c /\ w.slot[j].idx = j /\ w.slot[j].fd \in Fds /\ w.file[w.slot[j].fd] = Dmabuf(c, j)
    /\ \A j \in 1 .. i - 1 : w.slot[j] # NoBuf
    /\ i >= 1 /\ Free(t) # {} => w.slot[0] # NoBuf
    /\ i >= 1 \/ Free(t) # {} => Free(w.file) # {}
    /\ \A m \in Fds : t[m] # Nothing /\ (\A j \in 0 .. n - 1 : m # fds[j]) => w.file[m] = t[m]
    /\ \A m \in Fds : w.file[m] \in Dmabufs =>
          \/ \E j \in Idx : w.slot[j] # NoBuf /\ m = w.slot[j].fd
          \/ \E j \in i .. n - 1 : m = fds[j]
          \/ t[m] \in Dmabufs /\ \A j \in 0 .. n - 1 : m # fds[j]

LEMMA ImportOne ==
    ASSUME NEW t \in Tables, NEW fds, NEW c \in Conns, NEW n \in 1 .. MAX_BUFS, NEW w, NEW i \in 0 .. n - 1,
           \A j \in 0 .. n - 1 : fds[j] \in Fds, Imports(t, fds, c, n, w, i)
    PROVE  Imports(t, fds, c, n, ImportBuffer(w, fds, c, i), i + 1)
<1>0. /\ i \in Idx /\ i \in Nat /\ n \in Nat /\ i \in i .. n - 1 /\ 0 \in Idx
      /\ \A j \in 0 .. n - 1 : j \in Idx
      /\ \A j \in i + 1 .. n - 1 : j \in Idx /\ j \in i .. n - 1 /\ j # i
      /\ \A j \in i .. n - 1 : j # i => j \in i + 1 .. n - 1
      /\ \A j \in 1 .. i : j \in Idx /\ (j # i => j \in 1 .. i - 1)
      /\ \A j \in Idx : j >= i + 1 => j >= i /\ j # i
      /\ i + 1 - 1 = i /\ i + 1 >= 1 /\ i >= i /\ (i # 0 => i >= 1)
  BY FdTypes DEF Idx
<1>1. PICK f \in Tables, s \in [Idx -> Bufs \cup {NoBuf}] : w.file = f /\ w.slot = s
  BY DEF Imports, Worlds
<1>2. PICK a \in Fds : a = fds[i]
  OBVIOUS
<1>3. PICK d : d = DupFd(f, a)
  OBVIOUS
<1>4. PICK g \in Tables : g = Closed(Duped(f, a), a)
  BY DupTable, ClosedTable
<1>5. PICK r : r = [s EXCEPT ![i] = IF d = NoFd THEN NoBuf ELSE [conn |-> c, idx |-> i, fd |-> d]]
  OBVIOUS
<1>6. PICK v \in Worlds : v = ImportBuffer(w, fds, c, i)
  BY <1>0, ImportBufferType DEF Imports
<1>7. v.file = g /\ v.slot = r
  BY <1>1, <1>2, <1>3, <1>4, <1>5, <1>6 DEF ImportBuffer
\* What holds before the step.
<1>8. /\ f[a] = Dmabuf(c, i) /\ f[a] # Nothing /\ s[i] = NoBuf
      /\ \A j \in i .. n - 1 : f[fds[j]] = Dmabuf(c, j)
  BY <1>0, <1>1, <1>2, FilesDiffer DEF Imports
<1>9. \A j \in Idx : j # i => r[j] = s[j]
  BY <1>1, <1>5
<1>10. r[i] = IF d = NoFd THEN NoBuf ELSE [conn |-> c, idx |-> i, fd |-> d]
  BY <1>0, <1>1, <1>5
<1>11. \A j \in Idx : s[j] # NoBuf => s[j].conn = c /\ s[j].idx = j /\ s[j].fd \in Fds /\ f[s[j].fd] = Dmabuf(c, j)
  BY <1>1 DEF Imports
<1>12. \A j \in Idx : j >= i + 1 => r[j] = NoBuf
  BY <1>0, <1>1, <1>9 DEF Imports
\* What the step does to the table.
<1>13. g[a] = Nothing /\ Free(g) # {}
  <2>1. g[a] = Nothing
    BY <1>4, DupTable, ClosedTable
  <2> QED BY <2>1 DEF Free
<1>14. d # NoFd => d \in Fds /\ f[d] = Nothing /\ d # a /\ g[d] = Dmabuf(c, i)
  <2> HAVE d # NoFd
  <2>1. d \in Fds /\ f[d] = Nothing /\ Duped(f, a)[d] = f[a]
    BY <1>3, DupTable
  <2>2. d # a
    BY <2>1, <1>8
  <2>3. g[d] = Duped(f, a)[d]
    BY <1>4, <2>1, <2>2, DupTable, ClosedTable
  <2> QED BY <2>1, <2>2, <2>3, <1>8
<1>15. \A m \in Fds : m # a /\ m # d => g[m] = f[m]
  <2> SUFFICES ASSUME NEW m \in Fds, m # a, m # d PROVE g[m] = f[m]
    OBVIOUS
  <2>1. Duped(f, a)[m] = f[m]
    BY <1>3, DupTable
  <2> QED BY <2>1, <1>4, DupTable, ClosedTable
<1>16. d = NoFd => Free(f) = {}
  BY <1>3, <1>8, DupTable
<1> DEFINE Kept(m) == m \in Fds /\ f[m] # Nothing /\ m # a
<1>17. \A m : Kept(m) => g[m] = f[m]
  BY <1>14, <1>15, FdTypes
<1>18. \A j \in i + 1 .. n - 1 : g[fds[j]] = Dmabuf(c, j)
  <2> SUFFICES ASSUME NEW j \in i + 1 .. n - 1 PROVE g[fds[j]] = Dmabuf(c, j)
    OBVIOUS
  <2>1. j \in Idx /\ j # i /\ f[fds[j]] = Dmabuf(c, j) /\ fds[j] \in Fds
    BY <1>0, <1>8
  <2>2. Dmabuf(c, j) # Nothing /\ Dmabuf(c, j) # Dmabuf(c, i)
    BY <1>0, <2>1, FilesDiffer
  <2>3. Kept(fds[j])
    BY <1>8, <2>1, <2>2
  <2> QED BY <1>17, <2>1, <2>3
<1>19. \A j \in Idx : r[j] # NoBuf => r[j].conn = c /\ r[j].idx = j /\ r[j].fd \in Fds /\ g[r[j].fd] = Dmabuf(c, j)
  <2> SUFFICES ASSUME NEW j \in Idx, r[j] # NoBuf
               PROVE  r[j].conn = c /\ r[j].idx = j /\ r[j].fd \in Fds /\ g[r[j].fd] = Dmabuf(c, j)
    OBVIOUS
  <2>1. CASE j = i
    BY <2>1, <1>10, <1>14
  <2>2. CASE j # i
    <3>1. r[j] = s[j] /\ s[j].conn = c /\ s[j].idx = j /\ s[j].fd \in Fds /\ f[s[j].fd] = Dmabuf(c, j)
      BY <2>2, <1>9, <1>11
    <3>2. Dmabuf(c, j) # Nothing /\ Dmabuf(c, j) # Dmabuf(c, i)
      BY <1>0, <2>2, FilesDiffer
    <3>3. Kept(s[j].fd)
      BY <1>8, <3>1, <3>2
    <3> QED BY <1>17, <3>1, <3>3
  <2> QED BY <2>1, <2>2
<1>20. d # NoFd => r[i] # NoBuf
  BY <1>10, <1>14, FdTypes DEF NoBuf
<1>21. i >= 1 => d # NoFd
  BY <1>1, <1>16 DEF Imports
<1>22. \A j \in 1 .. i : r[j] # NoBuf
  <2> SUFFICES ASSUME NEW j \in 1 .. i PROVE r[j] # NoBuf
    OBVIOUS
  <2>1. CASE j = i
    BY <2>1, <1>20, <1>21
  <2>2. CASE j # i
    BY <2>2, <1>0, <1>1, <1>9 DEF Imports
  <2> QED BY <2>1, <2>2
<1>23. Free(t) # {} => r[0] # NoBuf
  <2> HAVE Free(t) # {}
  <2>1. CASE i = 0
    BY <2>1, <1>1, <1>16, <1>20 DEF Imports
  <2>2. CASE i # 0
    BY <2>2, <1>0, <1>1, <1>9 DEF Imports
  <2> QED BY <2>1, <2>2
<1>24. \A m \in Fds : t[m] # Nothing /\ (\A j \in 0 .. n - 1 : m # fds[j]) => g[m] = t[m]
  <2> SUFFICES ASSUME NEW m \in Fds, t[m] # Nothing, \A j \in 0 .. n - 1 : m # fds[j] PROVE g[m] = t[m]
    OBVIOUS
  <2>1. f[m] = t[m]
    BY <1>1 DEF Imports
  <2>2. Kept(m)
    BY <2>1, <1>2
  <2> QED BY <2>1, <2>2, <1>17
<1>25. ASSUME NEW m \in Fds, g[m] \in Dmabufs
       PROVE  \/ \E j \in Idx : r[j] # NoBuf /\ m = r[j].fd
              \/ \E j \in i + 1 .. n - 1 : m = fds[j]
              \/ t[m] \in Dmabufs /\ \A j \in 0 .. n - 1 : m # fds[j]
  <2>1. m # a
    BY <1>13, <1>25, FilesDiffer
  <2>2. CASE m = d
    <3>1. r[i] # NoBuf /\ m = r[i].fd
      BY <2>2, <1>10, <1>20, FdTypes
    <3> QED BY <1>0, <3>1
  <2>3. CASE m # d
    <3>1. f[m] \in Dmabufs
      BY <2>1, <2>3, <1>15, <1>25
    <3>2. \/ \E j \in Idx : s[j] # NoBuf /\ m = s[j].fd
          \/ \E j \in i .. n - 1 : m = fds[j]
          \/ t[m] \in Dmabufs /\ \A j \in 0 .. n - 1 : m # fds[j]
      BY <1>1, <3>1 DEF Imports
    <3>3. ASSUME NEW j \in Idx, s[j] # NoBuf, m = s[j].fd PROVE r[j] # NoBuf /\ m = r[j].fd
      BY <3>3, <1>8, <1>9
    <3>4. ASSUME NEW j \in i .. n - 1, m = fds[j] PROVE j \in i + 1 .. n - 1
      BY <3>4, <2>1, <1>0, <1>2
    <3> QED BY <3>2, <3>3, <3>4
  <2> QED BY <2>2, <2>3
<1>26. Imports(t, fds, c, n, v, i + 1)
  BY <1>0, <1>7, <1>12, <1>13, <1>18, <1>19, <1>22, <1>23, <1>24, <1>25 DEF Imports
<1> QED BY <1>6, <1>26

\* The slots of the first import, or of one after a release.
LEMMA ImportedAll ==
    ASSUME NEW t \in Tables, NEW fds, NEW c \in Conns, NEW n \in 1 .. MAX_BUFS,
           \A j \in 0 .. n - 1 : fds[j] \in Fds /\ t[fds[j]] = Dmabuf(c, j),
           \A j \in Idx : slot[j] = NoBuf
    PROVE  Imports(t, fds, c, n, ImportBuffers(t, fds, c, n), n)
<1>0. /\ n \in Nat /\ 0 \in 0 .. n /\ n \in 0 .. n
      /\ \A i \in 1 .. n : i - 1 \in 0 .. n - 1 /\ i - 1 + 1 = i /\ i \in 0 .. n
      /\ 0 .. 0 - 1 = {} /\ 1 .. 0 - 1 = {} /\ ~(0 >= 1)
  BY FdTypes
<1>1. PICK w \in [0 .. n -> Worlds] :
              /\ ImportBuffers(t, fds, c, n) = w[n]
              /\ w[0] = Fresh(t)
              /\ \A i \in 1 .. n : w[i] = ImportBuffer(w[i - 1], fds, c, i - 1)
  <2>1. ImportsInSteps(t, fds, c, n)
    BY ImportStep
  <2> QED BY <2>1 DEF ImportsInSteps
<1>2. w[0].file = t /\ w[0].slot = [j \in Idx |-> NoBuf] /\ w[0] \in Worlds
  <2>1. DeadFds(SlotBufs, {staged}) = {}
    BY DEF DeadFds, SlotBufs, NoBuf
  <2>2. ClosedAll(t, {}) = t
    BY DEF ClosedAll, Tables
  <2>3. w[0] = [file |-> t, slot |-> [j \in Idx |-> NoBuf]]
    BY <1>1, <2>1, <2>2, Zenon DEF Fresh
  <2>4. w[0] \in Worlds
    BY <1>0, <1>1
  <2> QED BY <2>3, <2>4
<1> DEFINE G == {i \in 0 .. n : Imports(t, fds, c, n, w[i], i)}
<1>3. 0 \in G
  <2>1. \A m \in Fds : t[m] \in Dmabufs =>
            (\E j \in 0 .. n - 1 : m = fds[j]) \/ (t[m] \in Dmabufs /\ \A j \in 0 .. n - 1 : m # fds[j])
    OBVIOUS
  <2>2. \A j \in Idx : w[0].slot[j] = NoBuf
    BY <1>2
  <2>3. Imports(t, fds, c, n, w[0], 0)
    BY <1>0, <1>2, <2>1, <2>2 DEF Imports
  <2> QED BY <1>0, <2>3
<1>4. ASSUME NEW i \in 1 .. n, i - 1 \in G PROVE i \in G
  <2>1. PICK k \in 0 .. n - 1 : k = i - 1 /\ k + 1 = i
    BY <1>0
  <2>2. Imports(t, fds, c, n, w[k], k)
    BY <1>4, <2>1
  <2>3. Imports(t, fds, c, n, ImportBuffer(w[k], fds, c, k), k + 1)
    BY <2>2, ImportOne
  <2>4. w[i] = ImportBuffer(w[k], fds, c, k)
    BY <1>1, <2>1
  <2> QED BY <1>0, <2>1, <2>3, <2>4
<1>5. n \in G
  <2> HIDE DEF G
  <2> QED BY <1>0, <1>3, <1>4, UpTo
<1> QED BY <1>1, <1>5

-----------------------------------------------------------------------------
(* No DMA-BUF is forgotten.                                                *)

\* Whoever will close a DMA-BUF's descriptor.
Owners == {staged.fd, cache} \cup {slot[i].fd : i \in Idx}

\* No consumer has got further than its handshake: the table holds only files
\* of the rest of the process.
Untouched == ~down /\ (conn = 0 \/ (conn = 1 /\ fallback /\ ~inFallback))
OnlyOthers ==
    /\ staged = NoBuf
    /\ \A n \in Fds : file[n] = IF n \in others THEN Other ELSE Nothing

\* A consumer whose buffers are left to the next commit: until then the
\* DMA-BUFs are those of the context, at the numbers it received.
Late == ~fallback /\ ~imported /\ ~down
LateInv ==
    /\ conn \in Conns \ {1} /\ count \in 1 .. MAX_BUFS
    /\ staged = NoBuf /\ cache = NoFd /\ \A i \in Idx : slot[i] = NoBuf
    /\ \A j \in 0 .. count - 1 : ctxFds[j] \in Fds /\ file[ctxFds[j]] = Dmabuf(conn, j)
    /\ \A n \in Fds : file[n] \in Dmabufs => \E j \in 0 .. count - 1 : n = ctxFds[j]
    /\ \A n \in others : file[n] = Other

\* Slots q and a cache e that own the DMA-BUFs of the table t.  Only slot 0
\* may be empty: then no slot was cached, so the cache never has the answer.
WorldInv(t, q, e) ==
    /\ t \in Tables /\ q \in [Idx -> Bufs \cup {NoBuf}] /\ e \in Fds \cup {NoFd}
    /\ \A i \in Idx : q[i] = NoBuf => i = 0 \/ i >= count
    /\ e # NoFd => q[0] # NoBuf
    /\ \A n \in Fds : t[n] \in Dmabufs => n = staged.fd \/ n = e \/ \E i \in Idx : n = q[i].fd

BufferInv ==
    /\ TypeOK
    /\ conn = 0 => fallback
    /\ fallback => ~imported /\ count = 0 /\ cache = NoFd /\ \A i \in Idx : slot[i] = NoBuf
    /\ Untouched => OnlyOthers
    /\ Late => LateInv
    /\ imported => WorldInv(file, slot, cache)
    /\ \A n \in Fds : file[n] \in Dmabufs => ~down /\ (n \in Owners \/ Late)

\* The owners, one by one.
LEMMA OwnersAre ==
    ASSUME NEW n
    PROVE  n \in Owners <=> n = staged.fd \/ n = cache \/ \E i \in Idx : n = slot[i].fd
  BY DEF Owners

LEMMA OwnersAreNext ==
    ASSUME NEW n
    PROVE  n \in Owners' <=> n = staged'.fd \/ n = cache' \/ \E i \in Idx : n = slot'[i].fd
  BY DEF Owners

LEMMA DeadAre ==
    ASSUME NEW gone, NEW kept, NEW n
    PROVE  n \in DeadFds(gone, kept) <=> n # NoFd /\ \E b \in gone : b \notin kept /\ n = b.fd
  BY DEF DeadFds

\* What of the connection a consumer brings.
LEMMA ConnectTypes ==
    ASSUME TypeOK, NEW n \in 1 .. MAX_BUFS, Handshake(n)
    PROVE  /\ conn + 1 \in Conns /\ file \in Tables /\ n \in Nat
           /\ \A i \in 0 .. n - 1 : i \in Idx
           /\ Cardinality(Free(file)) > n
           /\ conn' = conn + 1 /\ fallback /\ ~fallback' /\ ~down /\ count' = n /\ chan' = Lowest(file)
<1>1. conn \in 0 .. MaxConns /\ conn < MaxConns /\ MaxConns \in Nat /\ MAX_BUFS \in Nat
  BY BoundsAssumption DEF TypeOK, Handshake
<1>2. conn + 1 \in Conns /\ n \in Nat /\ \A i \in 0 .. n - 1 : i \in Idx
  BY <1>1 DEF Conns, Idx
<1> QED BY <1>2 DEF Handshake, HasRoom, TypeOK, Tables

\* The table t that the descriptors of a consumer are installed in.
LEMMA ConnectReceives ==
    ASSUME TypeOK, NEW n \in 1 .. MAX_BUFS, Handshake(n)
    PROVE  \E t \in Tables, fds \in [Idx -> Fds \cup {NoFd}] :
              /\ Holds(file, t, Lowest(file), fds, conn + 1, n)
              /\ \A j \in 0 .. n - 1 : fds[j] \in Fds /\ t[fds[j]] = Dmabuf(conn + 1, j)
              /\ t = Received(file, conn + 1, n)[n] /\ fds = DmabufFds(n) /\ ctxFds' = fds
<1>1. /\ conn + 1 \in Conns /\ file \in Tables /\ n \in Nat
      /\ \A i \in 0 .. n - 1 : i \in Idx
      /\ Cardinality(Free(file)) > n
  BY ConnectTypes
<1>2. PICK c \in Conns : c = conn + 1
  BY <1>1
<1>3. PICK T : T = Received(file, c, n)
  OBVIOUS
<1>4. PICK fds : fds = [i \in Idx |-> IF i < n THEN Lowest(T[i]) ELSE ctxFds[i]]
  OBVIOUS
<1>5. \A i \in 0 .. n - 1 : fds[i] = Lowest(T[i])
  BY <1>1, <1>4
<1>6. Holds(file, T[n], Lowest(file), fds, c, n)
  BY <1>1, <1>3, <1>5, ReceivedAll
<1>7. PICK t \in Tables : t = T[n]
  BY <1>6 DEF Holds
<1>8. \A j \in 0 .. n - 1 : fds[j] \in Fds /\ t[fds[j]] = Dmabuf(c, j)
  BY <1>6, <1>7 DEF Holds
<1>9. fds \in [Idx -> Fds \cup {NoFd}]
  <2>1. \A i \in Idx : i < n => i \in 0 .. n - 1
    BY <1>1, FdTypes DEF Idx
  <2>2. \A i \in Idx : i < n => Lowest(T[i]) \in Fds
    BY <2>1, <1>5, <1>8
  <2>3. \A i \in Idx : ctxFds[i] \in Fds \cup {NoFd}
    BY DEF TypeOK
  <2> QED BY <1>4, <2>2, <2>3
<1>10. fds = DmabufFds(n)
  BY <1>2, <1>3, <1>4 DEF DmabufFds
<1>11. ctxFds' = fds
  BY <1>10 DEF Handshake
<1> QED BY <1>2, <1>3, <1>6, <1>7, <1>8, <1>9, <1>10, <1>11

LEMMA ConnectImports ==
    ASSUME TypeOK, \A i \in Idx : slot[i] = NoBuf, NEW n \in 1 .. MAX_BUFS, TryExitFallback(n)
    PROVE  \E t \in Tables, fds \in [Idx -> Fds \cup {NoFd}], w \in Worlds :
              /\ Holds(file, t, Lowest(file), fds, conn + 1, n)
              /\ Imports(t, fds, conn + 1, n, w, n)
              /\ file' = w.file /\ slot' = w.slot /\ ctxFds' = fds
<1>1. Handshake(n)
  BY DEF TryExitFallback
<1>2. PICK c \in Conns : c = conn + 1
  BY <1>1, ConnectTypes
<1>3. PICK t \in Tables, fds \in [Idx -> Fds \cup {NoFd}] :
              /\ Holds(file, t, Lowest(file), fds, c, n)
              /\ \A j \in 0 .. n - 1 : fds[j] \in Fds /\ t[fds[j]] = Dmabuf(c, j)
              /\ t = Received(file, conn + 1, n)[n] /\ fds = DmabufFds(n) /\ ctxFds' = fds
  BY <1>1, <1>2, ConnectReceives
<1>4. PICK w : w = ImportBuffers(t, fds, c, n)
  OBVIOUS
<1>5. Imports(t, fds, c, n, w, n)
  BY <1>3, <1>4, ImportedAll
<1>6. w \in Worlds
  BY <1>5 DEF Imports
<1>7. file' = w.file /\ slot' = w.slot
  BY <1>2, <1>3, <1>4 DEF TryExitFallback
<1> QED BY <1>2, <1>3, <1>5, <1>6, <1>7

\* The slots after the import of a whole connection own every DMA-BUF, if what
\* is not the connection's is the staged one's.
LEMMA ImportedWorld ==
    ASSUME NEW t \in Tables, NEW fds, NEW c \in Conns, NEW n \in 1 .. MAX_BUFS, NEW w,
           Imports(t, fds, c, n, w, n), staged \in Bufs \cup {NoBuf}, count = n,
           \A m \in Fds : t[m] \in Dmabufs => m = staged.fd \/ \E j \in 0 .. n - 1 : m = fds[j]
    PROVE  WorldInv(w.file, w.slot, NoFd)
<1>0. n \in Nat /\ n .. n - 1 = {}
  BY FdTypes
<1>1. w.file \in Tables /\ w.slot \in [Idx -> Bufs \cup {NoBuf}]
  BY DEF Imports, Worlds
<1>2. ASSUME NEW i \in Idx, i # 0, ~(i >= n) PROVE w.slot[i] # NoBuf
  <2>1. i \in 1 .. n - 1
    BY <1>0, <1>2, FdTypes DEF Idx
  <2> QED BY <2>1 DEF Imports
<1>3. ASSUME NEW m \in Fds, w.file[m] \in Dmabufs
      PROVE  m = staged.fd \/ \E i \in Idx : m = w.slot[i].fd
  BY <1>0, <1>3 DEF Imports
<1> QED BY <1>1, <1>2, <1>3 DEF WorldInv

LEMMA ConnectKeepsBuffers ==
    ASSUME BufferInv, NEW n \in 1 .. MAX_BUFS, TryExitFallback(n)
    PROVE  BufferInv'
<1>1. /\ conn + 1 \in Conns /\ file \in Tables /\ n \in Nat
      /\ \A i \in 0 .. n - 1 : i \in Idx
      /\ conn' = conn + 1 /\ fallback /\ ~fallback' /\ ~down /\ ~down' /\ count' = n /\ chan' = Lowest(file)
      /\ UNCHANGED <<staged, cache, others>> /\ imported' = TRUE /\ inFallback' = FALSE
  BY ConnectTypes DEF BufferInv, TryExitFallback
<1>2. cache = NoFd /\ \A i \in Idx : slot[i] = NoBuf
  BY <1>1 DEF BufferInv
<1>3. PICK t \in Tables, fds \in [Idx -> Fds \cup {NoFd}], w \in Worlds :
              /\ Holds(file, t, Lowest(file), fds, conn + 1, n)
              /\ Imports(t, fds, conn + 1, n, w, n)
              /\ file' = w.file /\ slot' = w.slot /\ ctxFds' = fds
  BY <1>2, ConnectImports DEF BufferInv
<1>4. TypeOK'
  <2>1. file' \in [Fds -> Files] /\ slot' \in [Idx -> Bufs \cup {NoBuf}]
    BY <1>3 DEF Worlds, Tables
  <2>2. chan' \in Fds
    BY <1>1, <1>3 DEF Holds
  <2>3. conn' \in 0 .. MaxConns /\ count' \in 0 .. MAX_BUFS
    BY <1>1, BoundsAssumption DEF Conns
  <2>4. fallback' \in BOOLEAN /\ down' \in BOOLEAN
    <3>1. fallback' = FALSE /\ down' = down
      BY DEF TryExitFallback, Handshake
    <3> QED BY <3>1 DEF BufferInv, TypeOK
  <2> QED BY <1>1, <1>3, <2>1, <2>2, <2>3, <2>4 DEF BufferInv, TypeOK
<1>5. \A i \in Idx : slot'[i] = NoBuf => i = 0 \/ i >= count'
  <2> SUFFICES ASSUME NEW i \in Idx, i # 0, ~(i >= n) PROVE slot'[i] # NoBuf
    BY <1>1
  <2>1. i \in 1 .. n - 1
    BY <1>1, FdTypes DEF Idx
  <2> QED BY <2>1, <1>3 DEF Imports
<1>6. ASSUME NEW m \in Fds, file'[m] \in Dmabufs PROVE m \in Owners'
  <2>1. n .. n - 1 = {}
    BY <1>1
  <2>2. \/ \E j \in Idx : slot'[j] # NoBuf /\ m = slot'[j].fd
        \/ t[m] \in Dmabufs /\ \A j \in 0 .. n - 1 : m # fds[j]
    BY <1>3, <1>6, <2>1 DEF Imports
  <2>3. CASE \E j \in Idx : slot'[j] # NoBuf /\ m = slot'[j].fd
    BY <2>3, OwnersAreNext
  <2>4. CASE t[m] \in Dmabufs /\ \A j \in 0 .. n - 1 : m # fds[j]
    <3>1. file[m] \in Dmabufs
      BY <1>3, <2>4 DEF Holds
    <3>2. m = staged.fd \/ m = cache \/ \E i \in Idx : m = slot[i].fd
      BY <1>1, <3>1, OwnersAre DEF BufferInv, Late
    <3>3. m = staged.fd
      BY <1>2, <3>2, FdTypes DEF NoBuf
    <3> QED BY <1>1, <3>3, OwnersAreNext
  <2> QED BY <2>2, <2>3, <2>4
<1>7. conn' # 0 /\ ~Untouched' /\ ~Late'
  BY <1>1 DEF Conns, Untouched, Late
<1>8. WorldInv(file, slot, cache)'
  <2>1. cache' = NoFd
    BY <1>1, <1>2
  <2> QED BY <1>4, <1>5, <1>6, <2>1, OwnersAreNext DEF WorldInv, TypeOK, Tables
<1> QED BY <1>1, <1>4, <1>6, <1>7, <1>8 DEF BufferInv

\* Only start() leaves a table for this one: nobody has closed what it holds.
LEMMA ReconnectKeepsBuffers ==
    ASSUME BufferInv, NEW n \in 1 .. MAX_BUFS, Reconnect(n)
    PROVE  BufferInv'
<1>0. Handshake(n) /\ TypeOK
  BY DEF Reconnect, BufferInv
<1>1. /\ conn + 1 \in Conns /\ file \in Tables /\ n \in Nat
      /\ \A i \in 0 .. n - 1 : i \in Idx
      /\ conn' = conn + 1 /\ fallback /\ ~fallback' /\ ~down /\ count' = n /\ chan' = Lowest(file)
      /\ UNCHANGED <<slot, staged, cache, others, inFallback, imported, down>>
      /\ conn = 1 /\ ~inFallback
  BY <1>0, ConnectTypes DEF Reconnect
<1>2. ~imported /\ cache = NoFd /\ \A i \in Idx : slot[i] = NoBuf
  BY <1>1 DEF BufferInv
<1>3. OnlyOthers
  BY <1>1 DEF BufferInv, Untouched
<1>4. PICK t \in Tables, fds \in [Idx -> Fds \cup {NoFd}] :
              /\ Holds(file, t, Lowest(file), fds, conn + 1, n)
              /\ \A j \in 0 .. n - 1 : fds[j] \in Fds /\ t[fds[j]] = Dmabuf(conn + 1, j)
              /\ t = Received(file, conn + 1, n)[n] /\ ctxFds' = fds
  BY <1>0, ConnectReceives
<1>5. file' = t
  BY <1>4 DEF Reconnect
<1>6. TypeOK'
  <2>1. conn' \in 0 .. MaxConns /\ count' \in 0 .. MAX_BUFS
    BY <1>1, BoundsAssumption DEF Conns
  <2>2. chan' \in Fds /\ file' \in [Fds -> Files]
    BY <1>1, <1>4, <1>5 DEF Holds, Tables
  <2>3. fallback' \in BOOLEAN
    BY <1>0 DEF Handshake
  <2> QED BY <1>0, <1>1, <1>4, <2>1, <2>2, <2>3 DEF TypeOK
<1>7. ASSUME NEW m \in Fds, file'[m] \in Dmabufs PROVE \E j \in 0 .. n - 1 : m = fds[j]
  <2>1. file[m] \notin Dmabufs
    BY <1>3, FilesDiffer DEF OnlyOthers
  <2> QED BY <1>4, <1>5, <1>7, <2>1 DEF Holds
<1>8. ASSUME NEW m \in others PROVE file'[m] = Other
  <2>1. m \in Fds /\ file[m] = Other /\ file[m] # Nothing
    BY <1>0, <1>3, FilesDiffer DEF TypeOK, OnlyOthers
  <2> QED BY <1>4, <1>5, <2>1 DEF Holds
<1>9. LateInv'
  <2>1. conn' \in Conns \ {1}
    BY <1>1
  <2>2. staged' = NoBuf
    BY <1>1, <1>3 DEF OnlyOthers
  <2>3. \A j \in 0 .. count' - 1 : ctxFds'[j] \in Fds /\ file'[ctxFds'[j]] = Dmabuf(conn', j)
    BY <1>1, <1>4, <1>5
  <2> QED BY <1>1, <1>2, <1>4, <1>7, <1>8, <2>1, <2>2, <2>3 DEF LateInv
<1>10. Late' /\ ~Untouched' /\ ~imported' /\ conn' # 0
  BY <1>1, <1>2 DEF Late, Untouched
<1> QED BY <1>1, <1>6, <1>9, <1>10 DEF BufferInv

\* What the buffers' part of a commit makes of the table t, the slots q and the
\* cache e: the slot is imported, or it is slot 0 and the cache is empty.
CommitFrom(i, t, q, e) ==
    /\ q[i] # NoBuf =>
         /\ slot' = q /\ cache' = e /\ staged' = q[i]
         /\ file' = ClosedAll(t, DeadFds({staged}, {q[j] : j \in Idx} \cup {q[i]}))
    /\ q[i] = NoBuf =>
         LET w == DoImport([file |-> t, slot |-> q, cache |-> NoFd], 0)
             now == IF w.slot[0] = NoBuf THEN staged ELSE w.slot[0]
         IN  /\ i = 0 /\ e = NoFd
             /\ slot' = w.slot /\ cache' = w.cache /\ staged' = now
             /\ file' = ClosedAll(w.file, DeadFds({staged}, {w.slot[j] : j \in Idx} \cup {now}))

\* What exitFallback could not import is imported by the commit.
LEMMA CommitWorld ==
    ASSUME BufferInv, ~fallback, ~down
    PROVE  \E t \in Tables, q \in [Idx -> Bufs \cup {NoBuf}], e \in Fds \cup {NoFd} :
              /\ Imported = [file |-> t, slot |-> q, cache |-> e]
              /\ WorldInv(t, q, e)
              /\ (imported /\ t = file /\ q = slot /\ e = cache) \/ (~imported /\ conn # 1)
<1>1. CASE imported
  <2>1. WorldInv(file, slot, cache)
    BY <1>1 DEF BufferInv
  <2>2. Imported = [file |-> file, slot |-> slot, cache |-> cache]
    BY <1>1 DEF Imported
  <2> QED BY <1>1, <2>1, <2>2 DEF WorldInv
<1>2. CASE ~imported
  <2>1. LateInv
    BY <1>2 DEF BufferInv, Late
  <2>2. file \in Tables /\ staged \in Bufs \cup {NoBuf} /\ conn \in Conns /\ count \in 1 .. MAX_BUFS
    BY <2>1 DEF BufferInv, TypeOK, Tables, LateInv
  <2>3. PICK w : w = ImportBuffers(file, ctxFds, conn, count)
    OBVIOUS
  <2>4. Imports(file, ctxFds, conn, count, w, count)
    BY <2>1, <2>2, <2>3, ImportedAll DEF LateInv
  <2>5. WorldInv(w.file, w.slot, NoFd)
    BY <2>1, <2>2, <2>4, ImportedWorld DEF LateInv
  <2>6. Imported = [file |-> w.file, slot |-> w.slot, cache |-> NoFd]
    BY <1>2, <2>1, <2>3 DEF Imported, LateInv
  <2>7. conn # 1
    BY <2>1 DEF LateInv
  <2> QED BY <1>2, <2>5, <2>6, <2>7 DEF WorldInv
<1> QED BY <1>1, <1>2

LEMMA CommitSlotFacts ==
    ASSUME BufferInv, NEW i \in Idx, CommitBuffer(i)
    PROVE  /\ ~fallback /\ ~down /\ ~fallback' /\ ~down' /\ i < count /\ imported' = TRUE
           /\ UNCHANGED <<conn, fallback, ctxFds, count, chan, others, inFallback, down>>
           /\ \E t \in Tables, q \in [Idx -> Bufs \cup {NoBuf}], e \in Fds \cup {NoFd} :
                /\ WorldInv(t, q, e) /\ CommitFrom(i, t, q, e)
                /\ (imported /\ t = file /\ q = slot /\ e = cache) \/ (~imported /\ conn # 1)
<1>1. /\ ~fallback /\ ~down /\ i < count /\ imported' = TRUE
      /\ UNCHANGED <<conn, fallback, ctxFds, count, chan, others, inFallback, down>>
  BY DEF CommitBuffer
<1>2. i \in Nat /\ count \in Nat
  BY FdTypes DEF Idx, BufferInv, TypeOK
<1>3. PICK t \in Tables, q \in [Idx -> Bufs \cup {NoBuf}], e \in Fds \cup {NoFd} :
              /\ Imported = [file |-> t, slot |-> q, cache |-> e]
              /\ WorldInv(t, q, e)
              /\ (imported /\ t = file /\ q = slot /\ e = cache) \/ (~imported /\ conn # 1)
  BY <1>1, CommitWorld
<1>4. ASSUME q[i] # NoBuf
      PROVE  /\ slot' = q /\ cache' = e /\ staged' = q[i]
             /\ file' = ClosedAll(t, DeadFds({staged}, {q[j] : j \in Idx} \cup {q[i]}))
  <2>1. Imported.slot = q /\ Imported.file = t /\ Imported.cache = e
    BY <1>3
  <2> QED BY <1>4, <2>1 DEF CommitBuffer
<1>5. ASSUME q[i] = NoBuf
      PROVE  LET w == DoImport([file |-> t, slot |-> q, cache |-> NoFd], 0)
                 now == IF w.slot[0] = NoBuf THEN staged ELSE w.slot[0]
             IN  /\ i = 0 /\ e = NoFd
                 /\ slot' = w.slot /\ cache' = w.cache /\ staged' = now
                 /\ file' = ClosedAll(w.file, DeadFds({staged}, {w.slot[j] : j \in Idx} \cup {now}))
  <2>1. i = 0
    BY <1>1, <1>2, <1>3, <1>5 DEF WorldInv
  <2>2. e = NoFd
    BY <2>1, <1>3, <1>5 DEF WorldInv
  <2>3. Imported = [file |-> t, slot |-> q, cache |-> NoFd]
    BY <1>3, <2>2
  <2> DEFINE w == DoImport([file |-> t, slot |-> q, cache |-> NoFd], 0)
             now == IF w.slot[0] = NoBuf THEN staged ELSE w.slot[0]
  <2>4. CacheOrImportBuffer(Imported, 0) = w
    BY <2>3 DEF CacheOrImportBuffer
  <2>5. Imported.slot[0] = NoBuf
    BY <1>5, <2>1, <2>3
  <2>6. /\ slot' = w.slot /\ cache' = w.cache /\ staged' = now
        /\ file' = ClosedAll(w.file, DeadFds({staged}, {w.slot[j] : j \in Idx} \cup {now}))
    BY <2>1, <2>4, <2>5 DEF CommitBuffer
  <2> QED BY <2>1, <2>2, <2>6
<1>6. CommitFrom(i, t, q, e)
  BY <1>4, <1>5 DEF CommitFrom
<1> QED BY <1>1, <1>3, <1>6

\* The import that a commit makes up for.
LEMMA LateImport ==
    ASSUME NEW t \in Tables, NEW q \in [Idx -> Bufs \cup {NoBuf}], q[0] = NoBuf, conn \in Conns,
           NEW w, w = DoImport([file |-> t, slot |-> q, cache |-> NoFd], 0)
    PROVE  /\ w.file \in Tables /\ w.slot \in [Idx -> Bufs \cup {NoBuf}] /\ w.cache \in Fds \cup {NoFd}
           /\ w.cache # NoFd => w.slot[0] # NoBuf
           /\ \A j \in Idx : j # 0 => w.slot[j] = q[j]
           /\ \A m \in Fds : w.file[m] \in Dmabufs =>
                  t[m] \in Dmabufs \/ m = w.cache \/ m = w.slot[0].fd
<1>0. 0 \in Idx
  BY FdTypes
<1>1. PICK a : a = ctxFds[0]
  OBVIOUS
<1>2. PICK d : d = DupFd(t, a)
  OBVIOUS
<1>3. CASE d = NoFd
  <2>1. w = [file |-> Closed(t, a), slot |-> q, cache |-> NoFd]
    BY <1>1, <1>2, <1>3 DEF DoImport
  <2>2. Closed(t, a) \in Tables /\ \A m \in Fds : Closed(t, a)[m] = IF m = a THEN Nothing ELSE t[m]
    BY ClosedTable
  <2>3. \A m \in Fds : w.file[m] \in Dmabufs => t[m] \in Dmabufs
    BY <2>1, <2>2, FilesDiffer
  <2> QED BY <1>0, <2>1, <2>2, <2>3
<1>4. CASE d # NoFd
  <2>1. PICK f \in Tables : f = Duped(t, a)
    BY DupTable
  <2>2. d \in Fds /\ \A m \in Fds : m # d => f[m] = t[m]
    BY <1>2, <1>4, <2>1, DupTable
  <2>3. Closed(f, NoFd) = f
    BY FdTypes DEF Closed
  <2>4. PICK e : e = DupFd(f, a)
    OBVIOUS
  <2>5. PICK g \in Tables : g = Duped(f, a)
    BY DupTable
  <2>6. e \in Fds \cup {NoFd} /\ \A m \in Fds : m # e => g[m] = f[m]
    BY <2>4, <2>5, DupTable
  <2>7. PICK b \in Bufs : b = [conn |-> conn, idx |-> 0, fd |-> d]
    BY <1>0, <2>2 DEF Bufs
  <2>8. b # NoBuf /\ b.fd = d
    BY <2>2, <2>7, FdTypes DEF NoBuf
  <2>s. PICK s : s = [q EXCEPT ![0] = b]
    OBVIOUS
  <2>9. w = [file |-> g, slot |-> s, cache |-> e]
    BY <1>1, <1>2, <1>4, <2>1, <2>3, <2>4, <2>5, <2>7, <2>s DEF DoImport
  <2>10. w.file = g /\ w.slot = s /\ w.cache = e
    BY <2>9
  <2>11. w.slot \in [Idx -> Bufs \cup {NoBuf}] /\ w.slot[0] = b /\ \A j \in Idx : j # 0 => w.slot[j] = q[j]
    BY <1>0, <2>10, <2>s
  <2> QED BY <2>2, <2>6, <2>8, <2>10, <2>11
<1> QED BY <1>3, <1>4

LEMMA CommitKeepsBuffers ==
    ASSUME BufferInv, NEW i \in Idx, CommitBuffer(i)
    PROVE  BufferInv'
<1>0. /\ ~fallback /\ ~down /\ ~fallback' /\ ~down' /\ imported' = TRUE /\ 0 \in Idx
      /\ UNCHANGED <<conn, fallback, ctxFds, count, chan, others, inFallback, down>>
      /\ TypeOK
  BY CommitSlotFacts, FdTypes DEF BufferInv
<1>c. conn \in Conns
  BY <1>0, BoundsAssumption DEF BufferInv, TypeOK, Conns
<1>w. PICK t \in Tables, q \in [Idx -> Bufs \cup {NoBuf}], e \in Fds \cup {NoFd} :
            WorldInv(t, q, e) /\ CommitFrom(i, t, q, e)
  BY CommitSlotFacts
<1>s. staged \in Bufs \cup {NoBuf}
  BY <1>0 DEF TypeOK
\* It is enough that the commit leaves slots and a cache that own everything.
<1>e. ASSUME WorldInv(file, slot, cache)', staged' \in Bufs \cup {NoBuf}
      PROVE  BufferInv'
  <2>1. TypeOK'
    BY <1>0, <1>e DEF TypeOK, WorldInv, Tables
  <2>2. \A n \in Fds : file'[n] \in Dmabufs => n \in Owners'
    BY <1>e, OwnersAreNext DEF WorldInv
  <2>3. ~Untouched' /\ ~Late'
    BY <1>0, <1>c DEF Untouched, Late, Conns
  <2>4. conn' # 0
    BY <1>0, <1>c DEF Conns
  <2> QED BY <1>0, <1>e, <2>1, <2>2, <2>3, <2>4 DEF BufferInv
<1>1. CASE q[i] # NoBuf
  <2>1. PICK D : D = DeadFds({staged}, {q[j] : j \in Idx} \cup {q[i]})
    OBVIOUS
  <2>2. slot' = q /\ cache' = e /\ staged' = q[i] /\ file' = ClosedAll(t, D)
    BY <1>1, <1>w, <2>1 DEF CommitFrom
  <2>3. file' \in Tables
    BY <2>2, ClosedAllTable
  <2>4. ASSUME NEW m \in Fds, file'[m] \in Dmabufs
        PROVE  m = cache' \/ \E k \in Idx : m = slot'[k].fd
    <3>1. m \notin D /\ t[m] \in Dmabufs
      BY <2>2, <2>4, ClosedAllTable, FilesDiffer
    <3>2. m = staged.fd \/ m = e \/ \E k \in Idx : m = q[k].fd
      BY <3>1, <1>w DEF WorldInv
    <3>3. m = staged.fd => staged \in {q[j] : j \in Idx} \cup {q[i]}
      BY <2>1, <3>1, DeadAre, FdTypes
    <3> QED BY <2>2, <3>2, <3>3
  <2>5. WorldInv(file, slot, cache)'
    BY <1>0, <1>w, <2>2, <2>3, <2>4 DEF WorldInv
  <2> QED BY <1>e, <2>2, <2>5
<1>2. CASE q[i] = NoBuf
  <2> DEFINE w == DoImport([file |-> t, slot |-> q, cache |-> NoFd], 0)
             now == IF w.slot[0] = NoBuf THEN staged ELSE w.slot[0]
  <2>1. /\ i = 0 /\ e = NoFd
        /\ slot' = w.slot /\ cache' = w.cache /\ staged' = now
        /\ file' = ClosedAll(w.file, DeadFds({staged}, {w.slot[j] : j \in Idx} \cup {now}))
    BY <1>2, <1>w DEF CommitFrom
  <2>2. /\ w.file \in Tables /\ w.slot \in [Idx -> Bufs \cup {NoBuf}] /\ w.cache \in Fds \cup {NoFd}
        /\ w.cache # NoFd => w.slot[0] # NoBuf
        /\ \A j \in Idx : j # 0 => w.slot[j] = q[j]
        /\ \A m \in Fds : w.file[m] \in Dmabufs =>
               t[m] \in Dmabufs \/ m = w.cache \/ m = w.slot[0].fd
    BY <1>c, <1>2, <2>1, LateImport
  <2> HIDE DEF w
  <2>3. PICK f \in Tables, s \in [Idx -> Bufs \cup {NoBuf}], c \in Fds \cup {NoFd} :
            w.file = f /\ w.slot = s /\ w.cache = c
    BY <2>2
  <2>4. PICK D : D = DeadFds({staged}, {s[j] : j \in Idx} \cup {now})
    OBVIOUS
  <2>5. file' = ClosedAll(f, D) /\ slot' = s /\ cache' = c
    BY <2>1, <2>3, <2>4
  <2>6. staged' = (IF s[0] = NoBuf THEN staged ELSE s[0])
    BY <2>1, <2>3
  <2>7. file' \in Tables
    BY <2>5, ClosedAllTable
  <2>8. staged' \in Bufs \cup {NoBuf}
    BY <1>0, <1>s, <2>6
  <2>9. \A j \in Idx : slot'[j] = NoBuf => j = 0 \/ j >= count'
    BY <1>0, <1>w, <2>2, <2>3, <2>5 DEF WorldInv
  <2>10. ASSUME NEW m \in Fds, file'[m] \in Dmabufs
         PROVE  m = staged'.fd \/ m = cache' \/ \E k \in Idx : m = slot'[k].fd
    <3>1. m \notin D /\ f[m] \in Dmabufs
      BY <2>5, <2>10, ClosedAllTable, FilesDiffer
    <3>2. CASE m = c \/ m = s[0].fd
      BY <3>2, <2>5, <1>0
    <3>3. CASE t[m] \in Dmabufs
      <4>1. m = staged.fd \/ m = e \/ \E k \in Idx : m = q[k].fd
        BY <3>3, <1>w DEF WorldInv
      <4>2. m # e
        BY <2>1, FdTypes
      <4>3. ASSUME NEW k \in Idx, m = q[k].fd PROVE m = slot'[k].fd
        <5>1. k # 0
          BY <4>3, <1>2, <2>1, FdTypes DEF NoBuf
        <5>2. slot'[k] = q[k]
          BY <5>1, <2>2, <2>3, <2>5
        <5> QED BY <5>2, <4>3
      <4>4. ASSUME m = staged.fd PROVE m = staged'.fd \/ \E k \in Idx : m = slot'[k].fd
        <5>1. staged \in {s[j] : j \in Idx} \cup {now}
          BY <3>1, <4>4, <2>4, DeadAre, FdTypes
        <5>2. (\E j \in Idx : staged = s[j]) \/ staged = staged'
          BY <5>1, <2>1
        <5> QED BY <5>2, <4>4, <2>5
      <4> QED BY <4>1, <4>2, <4>3, <4>4
    <3> QED BY <3>1, <3>2, <3>3, <2>2, <2>3
  <2>11. cache' # NoFd => slot'[0] # NoBuf
    BY <2>2, <2>3, <2>5
  <2>12. WorldInv(file, slot, cache)'
    BY <2>5, <2>7, <2>9, <2>10, <2>11 DEF WorldInv
  <2> QED BY <1>e, <2>8, <2>12
<1> QED BY <1>1, <1>2

LEMMA ReleaseKeepsBuffers ==
    ASSUME BufferInv, ReleaseConsumer \/ Shutdown
    PROVE  BufferInv'
<1>0. file \in Tables /\ TypeOK /\ 0 \in Idx
  BY FdTypes DEF BufferInv, TypeOK, Tables
<1> DEFINE S == ContextFds \cup {cache} \cup DeadFds(SlotBufs, {staged})
           A == ContextFds \cup {cache} \cup DeadFds(SlotBufs \cup {staged}, {})
<1>1. /\ conn' = conn /\ others' = others /\ imported' = FALSE /\ inFallback' \in BOOLEAN
      /\ cache' = NoFd /\ slot' = [i \in Idx |-> NoBuf] /\ count' = 0 /\ chan' = NoFd
      /\ ctxFds' = [i \in Idx |-> IF i < count THEN NoFd ELSE ctxFds[i]]
      /\ \/ /\ fallback' = TRUE /\ inFallback' = TRUE /\ ~fallback
            /\ down' = down /\ ~down /\ staged' = staged /\ file' = ClosedAll(file, S)
         \/ fallback' = fallback /\ down' = TRUE /\ staged' = NoBuf /\ file' = ClosedAll(file, A)
  BY <1>0 DEF ReleaseConsumer, Shutdown, ForgetContext, TypeOK
<1>2. file' \in Tables
  BY <1>0, <1>1, ClosedAllTable
<1>3. TypeOK'
  <2>1. ctxFds' \in [Idx -> Fds \cup {NoFd}] /\ slot' \in [Idx -> Bufs \cup {NoBuf}]
    BY <1>0, <1>1 DEF TypeOK
  <2>2. fallback' \in BOOLEAN /\ down' \in BOOLEAN /\ staged' \in Bufs \cup {NoBuf}
    BY <1>0, <1>1 DEF TypeOK
  <2>3. count' \in 0 .. MAX_BUFS
    BY <1>1, FdTypes
  <2> QED BY <1>0, <1>1, <1>2, <2>1, <2>2, <2>3 DEF TypeOK, Tables
<1>4. \A i \in Idx : slot'[i] = NoBuf
  BY <1>1
\* Buffers that no commit imported are the context's, which closes them.
<1>5. ASSUME NEW m \in Fds, file[m] \in Dmabufs, m \notin ContextFds PROVE ~down /\ m \in Owners
  <2>1. ASSUME Late PROVE FALSE
    <3>1. PICK j \in 0 .. count - 1 : m = ctxFds[j]
      BY <1>5, <2>1 DEF BufferInv, LateInv
    <3>2. count \in 0 .. MAX_BUFS
      BY <1>0 DEF TypeOK
    <3>3. j \in Idx /\ j < count
      BY <3>2, FdTypes DEF Idx
    <3>4. m # NoFd
      BY FdTypes
    <3> QED BY <1>5, <3>1, <3>3, <3>4 DEF ContextFds
  <2> QED BY <1>5, <2>1 DEF BufferInv
<1>6. ASSUME NEW m \in Fds, file'[m] \in Dmabufs PROVE ~down' /\ m \in Owners'
  <2>1. /\ file[m] \in Dmabufs /\ m \notin ContextFds /\ m # cache
        /\ \/ m \notin S /\ ~down' /\ staged' = staged
           \/ m \notin A
    <3>1. PICK X : /\ file' = ClosedAll(file, X)
                   /\ (X = S /\ ~down' /\ staged' = staged) \/ X = A
      <4> HIDE DEF S, A
      <4>1. CASE ~down' /\ staged' = staged /\ file' = ClosedAll(file, S)
        BY <4>1
      <4>2. CASE file' = ClosedAll(file, A)
        BY <4>2
      <4>3. \/ ~down' /\ staged' = staged /\ file' = ClosedAll(file, S)
            \/ file' = ClosedAll(file, A)
        BY <1>1
      <4> QED BY <4>1, <4>2, <4>3
    <3>2. m \notin X /\ file[m] \in Dmabufs
      BY <1>0, <1>6, <3>1, ClosedAllTable, FilesDiffer
    <3>3. m \notin S \/ m \notin A
      <4> HIDE DEF S, A
      <4> QED BY <3>1, <3>2
    <3>4. m \notin ContextFds /\ m # cache
      BY <3>3
    <3> HIDE DEF S, A
    <3> QED BY <3>1, <3>2, <3>4
  <2>2. m # cache /\ (m = staged.fd \/ \E i \in Idx : m = slot[i].fd)
    BY <2>1, <1>5, OwnersAre
  <2>3. CASE m \notin S /\ ~down' /\ staged' = staged
    <3>1. m \notin DeadFds(SlotBufs, {staged}) /\ m # NoFd
      BY <2>3, FdTypes
    <3>2. ASSUME NEW i \in Idx, m = slot[i].fd PROVE m = staged.fd
      <4>1. slot[i] \in SlotBufs
        BY DEF SlotBufs
      <4> QED BY <3>1, <3>2, <4>1, DeadAre
    <3> QED BY <2>2, <2>3, <3>2, OwnersAreNext
  <2>4. CASE m \notin A
    <3>1. m \notin DeadFds(SlotBufs \cup {staged}, {}) /\ m # NoFd
      BY <2>4, FdTypes
    <3>2. \A i \in Idx : slot[i] \in SlotBufs \cup {staged}
      BY DEF SlotBufs
    <3>3. m = staged.fd \/ (\E i \in Idx : m = slot[i].fd) => FALSE
      BY <3>1, <3>2, DeadAre
    <3> QED BY <2>2, <3>3
  <2> QED BY <2>1, <2>3, <2>4
<1>7. (conn' = 0 => fallback') /\ ~Untouched' /\ ~Late'
  BY <1>1 DEF BufferInv, Untouched, Late
<1> QED BY <1>1, <1>3, <1>4, <1>6, <1>7 DEF BufferInv

\* Another part of the process opens or closes one descriptor n.
LEMMA OtherChanges ==
    ASSUME TypeOK, OpenOther \/ CloseOther
    PROVE  /\ UNCHANGED <<conn, fallback, ctxFds, count, chan, slot, staged, cache,
                          inFallback, imported, down>>
           /\ others' \subseteq Fds /\ file' \in Tables
           /\ \E n \in Fds :
                 /\ \A m \in Fds : m # n => file'[m] = file[m] /\ (m \in others' <=> m \in others)
                 /\ \/ file[n] = Nothing /\ file'[n] = Other /\ others' = others \cup {n}
                    \/ n \in others /\ file'[n] = Nothing /\ others' = others \ {n}
<1>0. file \in Tables /\ others \subseteq Fds
  BY DEF TypeOK, Tables
<1>1. UNCHANGED <<conn, fallback, ctxFds, count, chan, slot, staged, cache, inFallback, imported, down>>
  BY DEF OpenOther, CloseOther
<1>2. CASE OpenOther
  <2>1. Free(file) # {} /\ file' = Opened(file, Other) /\ others' = others \cup {Lowest(file)}
    BY <1>2 DEF OpenOther
  <2>2. PICK n \in Fds : n = Lowest(file) /\ file[n] = Nothing
    BY <1>0, <2>1, LowestIsFree
  <2>3. file' \in Tables /\ file'[n] = Other /\ \A m \in Fds : m # n => file'[m] = file[m]
    BY <1>0, <2>1, <2>2, OpenedTable, FilesDiffer
  <2> QED BY <1>0, <1>1, <2>1, <2>2, <2>3
<1>3. CASE CloseOther
  <2>1. PICK n \in others : others' = others \ {n} /\ file' = Closed(file, n)
    BY <1>3 DEF CloseOther
  <2>2. file' \in Tables /\ file'[n] = Nothing /\ \A m \in Fds : m # n => file'[m] = file[m]
    BY <1>0, <2>1, ClosedTable
  <2> QED BY <1>0, <1>1, <2>1, <2>2
<1> QED BY <1>2, <1>3

\* Whatever other parts of the process open and close.
LEMMA OthersKeepBuffers ==
    ASSUME BufferInv, OpenOther \/ CloseOther
    PROVE  BufferInv'
<1>0. TypeOK /\ others \subseteq Fds
  BY DEF BufferInv, TypeOK
<1>1. /\ UNCHANGED <<conn, fallback, ctxFds, count, chan, slot, staged, cache, inFallback, imported, down>>
      /\ others' \subseteq Fds /\ file' \in Tables
  BY <1>0, OtherChanges
<1>2. PICK n \in Fds :
            /\ \A m \in Fds : m # n => file'[m] = file[m] /\ (m \in others' <=> m \in others)
            /\ \/ file[n] = Nothing /\ file'[n] = Other /\ others' = others \cup {n}
               \/ n \in others /\ file'[n] = Nothing /\ others' = others \ {n}
  BY <1>0, OtherChanges
<1>3. \A m \in Fds : file'[m] \in Dmabufs => file[m] \in Dmabufs
  BY <1>2, FilesDiffer
<1>4. TypeOK'
  BY <1>0, <1>1 DEF TypeOK, Tables
<1>5. Owners' = Owners /\ (Untouched' <=> Untouched) /\ (Late' <=> Late)
  BY <1>1 DEF Owners, Untouched, Late
<1>6. OnlyOthers => OnlyOthers'
  <2> SUFFICES ASSUME OnlyOthers, NEW m \in Fds
               PROVE  file'[m] = IF m \in others' THEN Other ELSE Nothing
    BY <1>1 DEF OnlyOthers
  <2>1. CASE m = n
    BY <1>2, <2>1
  <2>2. CASE m # n
    BY <1>2, <2>2 DEF OnlyOthers
  <2> QED BY <2>1, <2>2
<1>7. Late => LateInv'
  <2> SUFFICES ASSUME Late, LateInv PROVE LateInv'
    BY DEF BufferInv
  <2>1. file[n] = Nothing \/ file[n] = Other
    BY <1>2 DEF LateInv
  <2>2. ASSUME NEW j \in 0 .. count - 1 PROVE ctxFds[j] \in Fds /\ file'[ctxFds[j]] = Dmabuf(conn, j)
    <3>1. ctxFds[j] \in Fds /\ file[ctxFds[j]] = Dmabuf(conn, j)
      BY DEF LateInv
    <3>2. j \in Idx /\ conn \in Conns
      BY FdTypes DEF LateInv, Idx
    <3>3. ctxFds[j] # n
      BY <2>1, <3>1, <3>2, FilesDiffer
    <3> QED BY <1>2, <3>1, <3>3
  <2>3. ASSUME NEW m \in others' PROVE file'[m] = Other
    <3>1. CASE m = n
      BY <1>2, <3>1, <2>3
    <3>2. CASE m # n
      BY <1>1, <1>2, <2>3, <3>2 DEF LateInv
    <3> QED BY <3>1, <3>2
  <2>4. \A m \in Fds : file'[m] \in Dmabufs => \E j \in 0 .. count - 1 : m = ctxFds[j]
    BY <1>3 DEF LateInv
  <2>5. /\ conn \in Conns \ {1} /\ count \in 1 .. MAX_BUFS
        /\ staged = NoBuf /\ cache = NoFd /\ \A i \in Idx : slot[i] = NoBuf
    BY DEF LateInv
  <2> QED BY <1>1, <2>2, <2>3, <2>4, <2>5 DEF LateInv
<1>8. WorldInv(file, slot, cache) => WorldInv(file, slot, cache)'
  BY <1>1, <1>3 DEF WorldInv
<1> QED BY <1>1, <1>3, <1>4, <1>5, <1>6, <1>7, <1>8 DEF BufferInv

LEMMA IdleKeepsBuffers ==
    ASSUME BufferInv, ConnectAndLose \/ UNCHANGED vars
    PROVE  BufferInv'
<1>1. UNCHANGED <<file, fallback, ctxFds, count, chan, slot, staged, cache, others, imported, down>>
  BY DEF ConnectAndLose, vars
<1>a. conn \in 0 .. MaxConns /\ MaxConns \in Nat /\ inFallback \in BOOLEAN
  BY BoundsAssumption DEF BufferInv, TypeOK
<1>2. /\ conn' \in 0 .. MaxConns /\ (conn' = 0 => conn = 0) /\ inFallback' \in BOOLEAN
      /\ (Late' <=> Late) /\ (Late => conn' = conn)
  <2>1. CASE ConnectAndLose
    <3>1. fallback /\ conn < MaxConns /\ conn' = conn + 1 /\ inFallback' = FALSE
      BY <2>1 DEF ConnectAndLose
    <3>2. conn' \in 0 .. MaxConns /\ conn' # 0
      BY <1>a, <3>1
    <3>3. ~Late /\ ~Late'
      BY <1>1, <3>1 DEF Late
    <3> QED BY <3>1, <3>2, <3>3
  <2>2. CASE UNCHANGED vars
    <3>1. conn' = conn /\ inFallback' = inFallback
      BY <2>2 DEF vars
    <3>2. Late' <=> Late
      BY <1>1 DEF Late
    <3> QED BY <1>a, <3>1, <3>2
  <2> QED BY <2>1, <2>2
<1>3. TypeOK'
  BY <1>1, <1>2 DEF BufferInv, TypeOK
<1>4. Owners' = Owners
  BY <1>1 DEF Owners
<1>5. Untouched' => Untouched
  <2>1. CASE ConnectAndLose
    <3>1. conn' = conn + 1 /\ (conn' = 1 => conn = 0)
      BY <1>a, <2>1 DEF ConnectAndLose
    <3> QED BY <1>1, <1>2, <3>1 DEF Untouched
  <2>2. CASE UNCHANGED vars
    BY <2>2 DEF Untouched, vars
  <2> QED BY <2>1, <2>2
<1>6. OnlyOthers => OnlyOthers'
  BY <1>1 DEF OnlyOthers
<1>7. Late /\ LateInv => LateInv'
  BY <1>1, <1>2 DEF LateInv
<1>8. WorldInv(file, slot, cache) => WorldInv(file, slot, cache)'
  BY <1>1 DEF WorldInv
<1> QED BY <1>1, <1>2, <1>3, <1>4, <1>5, <1>6, <1>7, <1>8 DEF BufferInv

LEMMA BuffersInit ==
    ASSUME Init
    PROVE  BufferInv
<1>1. TypeOK
  <2>1. file \in [Fds -> Files]
    BY FilesDiffer DEF Init
  <2>2. conn \in 0 .. MaxConns /\ count \in 0 .. MAX_BUFS
    BY BoundsAssumption DEF Init
  <2> QED BY <2>1, <2>2 DEF Init, TypeOK
<1>2. \A n \in Fds : file[n] \notin Dmabufs
  BY FilesDiffer DEF Init
<1>3. OnlyOthers /\ ~Late /\ ~imported
  BY DEF Init, OnlyOthers, Late
<1> QED BY <1>1, <1>2, <1>3 DEF Init, BufferInv

LEMMA BuffersStep ==
    ASSUME BufferInv, [Next]_vars
    PROVE  BufferInv'
<1>1. CASE \E n \in 1 .. MAX_BUFS : TryExitFallback(n)
  BY <1>1, ConnectKeepsBuffers
<1>r. CASE \E n \in 1 .. MAX_BUFS : Reconnect(n)
  BY <1>r, ReconnectKeepsBuffers
<1>2. CASE \E i \in Idx : CommitBuffer(i)
  BY <1>2, CommitKeepsBuffers
<1>3. CASE ReleaseConsumer \/ Shutdown
  BY <1>3, ReleaseKeepsBuffers
<1>4. CASE OpenOther \/ CloseOther
  BY <1>4, OthersKeepBuffers
<1>5. CASE ConnectAndLose \/ UNCHANGED vars
  BY <1>5, IdleKeepsBuffers
<1> QED BY <1>1, <1>2, <1>3, <1>4, <1>5, <1>r DEF Next

LEMMA BuffersAlways == Spec => []BufferInv
<1>1. Init => BufferInv
  BY BuffersInit
<1>2. BufferInv /\ [Next]_vars => BufferInv'
  BY BuffersStep
<1> QED BY <1>1, <1>2, PTL DEF Spec

\* shutdown() after any consumers, with a table of any size, however often
\* duplications failed on the way: no DMA-BUF stays open.
THEOREM ShutdownForgetsNothing == Spec => []ShutdownClosesAll
<1>1. BufferInv => ShutdownClosesAll
  BY DEF BufferInv, ShutdownClosesAll
<1> QED BY <1>1, BuffersAlways, PTL

\* cacheOrImportBuffer: when a commit looks into the DMA-BUF cache, after the
\* import that it may have to make first, the cache is empty, so it never hands
\* a slot the buffer of another.
THEOREM CacheNeverAnswers ==
    Spec => [](\A i \in Idx : ~fallback /\ ~down /\ i < count /\ Imported.slot[i] = NoBuf
                                  => Imported.cache = NoFd)
<1>1. BufferInv => \A i \in Idx : ~fallback /\ ~down /\ i < count /\ Imported.slot[i] = NoBuf
                                      => Imported.cache = NoFd
  <2> SUFFICES ASSUME BufferInv, ~fallback, ~down, NEW i \in Idx, i < count, Imported.slot[i] = NoBuf
               PROVE  Imported.cache = NoFd
    OBVIOUS
  <2>1. i \in Nat /\ count \in Nat
    BY FdTypes DEF BufferInv, TypeOK, Idx
  <2>2. PICK t, q, e : Imported = [file |-> t, slot |-> q, cache |-> e] /\ WorldInv(t, q, e)
    BY CommitWorld
  <2>3. q[i] = NoBuf /\ Imported.cache = e
    BY <2>2
  <2>4. i = 0
    BY <2>1, <2>2, <2>3 DEF WorldInv
  <2> QED BY <2>2, <2>3, <2>4 DEF WorldInv
<1> QED BY <1>1, BuffersAlways, PTL

-----------------------------------------------------------------------------
(* The first consumer.                                                     *)

\* The table has room for the channel, for the DMA-BUFs, for a duplicate and
\* for the files of the rest of the process.
Roomy == NumFds >= MAX_BUFS + 2 + MaxOthers

\* While the first consumer stays, every announced slot is imported, and the
\* staged buffer is that of a slot: a commit closes nothing.
FirstConsumer ==
    /\ chan \in Fds /\ file[chan] = Channel(1)
    /\ \A n \in others : file[n] = Other
    /\ \A i \in Idx : slot[i] # NoBuf => slot[i].fd \in Fds /\ file[slot[i].fd] = Dmabuf(1, i)
    /\ \A i \in Idx : i < count => slot[i] # NoBuf
    /\ staged = NoBuf \/ \E i \in Idx : staged = slot[i]

FirstInv ==
    /\ Cardinality(others) <= MaxOthers
    /\ conn = 1 /\ ~fallback /\ ~down => FirstConsumer

\* Before the first consumer only the rest of the process holds files.
LEMMA RoomAtFirst ==
    ASSUME Roomy, TypeOK, FirstInv, OnlyOthers, NEW n \in 1 .. MAX_BUFS
    PROVE  Cardinality(Free(file)) > n + 1
<1>1. others \subseteq Fds /\ IsFiniteSet(others) /\ IsFiniteSet(Fds) /\ Cardinality(Fds) = NumFds
  BY FdTypes, FS_Subset DEF TypeOK
<1>2. Free(file) = Fds \ others
  BY FilesDiffer DEF OnlyOthers, Free
<1>3. Cardinality(Fds \cap others) = Cardinality(others)
  <2>1. Fds \cap others = others
    BY <1>1
  <2> QED BY <2>1
<1>4. Cardinality(Fds \ others) = Cardinality(Fds) - Cardinality(Fds \cap others)
  BY <1>1, FS_Difference
<1>5. Cardinality(others) \in Nat
  BY <1>1, FS_CardinalityType
<1> QED BY <1>1, <1>2, <1>3, <1>4, <1>5, BoundsAssumption DEF Roomy, FirstInv

LEMMA ConnectKeepsFirst ==
    ASSUME Roomy, BufferInv, FirstInv, NEW n \in 1 .. MAX_BUFS, TryExitFallback(n)
    PROVE  FirstInv'
<1>0. TypeOK
  BY DEF BufferInv
<1>1. /\ conn + 1 \in Conns /\ file \in Tables /\ n \in Nat
      /\ \A i \in 0 .. n - 1 : i \in Idx
      /\ Cardinality(Free(file)) > n
      /\ conn' = conn + 1 /\ fallback /\ ~fallback' /\ ~down /\ ~down' /\ count' = n /\ chan' = Lowest(file)
      /\ UNCHANGED <<staged, cache, others>>
  BY <1>0, ConnectTypes DEF TryExitFallback
<1>2. \A i \in Idx : slot[i] = NoBuf
  BY <1>1 DEF BufferInv
<1>c. conn \in Nat
  BY <1>0, BoundsAssumption DEF TypeOK
<1>3. CASE conn # 0
  BY <1>1, <1>3, <1>c DEF FirstInv
<1>4. CASE conn = 0
  <2>o. OnlyOthers
    BY <1>1, <1>4 DEF BufferInv, Untouched
  <2>1. staged = NoBuf /\ \A m \in Fds : file[m] = IF m \in others THEN Other ELSE Nothing
    BY <2>o DEF OnlyOthers
  <2>2. PICK t \in Tables, fds \in [Idx -> Fds \cup {NoFd}], w \in Worlds :
              /\ Holds(file, t, Lowest(file), fds, conn + 1, n)
              /\ Imports(t, fds, conn + 1, n, w, n)
              /\ file' = w.file /\ slot' = w.slot /\ ctxFds' = fds
    BY <1>0, <1>2, ConnectImports
  <2>3. conn + 1 = 1 /\ 1 \in Conns
    BY <1>1, <1>4
  <2>4. Holds(file, t, chan', fds, 1, n) /\ Imports(t, fds, 1, n, w, n)
    BY <1>1, <2>2, <2>3
  <2>5. Free(t) # {}
    <3>1. Cardinality(Free(file)) > n + 1
      BY <1>0, <2>o, RoomAtFirst
    <3>2. Cardinality(Free(file)) \in Nat
      BY <1>1, OpenedTable, FilesDiffer
    <3>3. Cardinality(Free(t)) > 0
      BY <1>1, <2>4, <3>1, <3>2 DEF Holds
    <3> QED BY <3>3, FS_EmptySet
  <2>6. \A j \in 0 .. n - 1 : j \in Idx /\ fds[j] \in Fds /\ file[fds[j]] = Nothing /\ t[fds[j]] = Dmabuf(1, j)
    BY <1>1, <2>4 DEF Holds
  <2>7. chan' \in Fds /\ file'[chan'] = Channel(1)
    <3>1. chan' \in Fds /\ t[chan'] = Channel(1)
      BY <2>4 DEF Holds
    <3>2. t[chan'] # Nothing /\ \A j \in 0 .. n - 1 : chan' # fds[j]
      BY <2>3, <2>6, <3>1, FilesDiffer
    <3> QED BY <2>2, <2>4, <3>1, <3>2 DEF Imports
  <2>8. \A m \in others' : file'[m] = Other
    <3> SUFFICES ASSUME NEW m \in others PROVE file'[m] = Other
      BY <1>1
    <3>1. m \in Fds /\ file[m] = Other /\ file[m] # Nothing
      BY <1>0, <2>1, FilesDiffer DEF TypeOK
    <3>2. t[m] = Other /\ t[m] # Nothing
      BY <2>4, <3>1 DEF Holds
    <3>3. \A j \in 0 .. n - 1 : m # fds[j]
      BY <2>6, <3>1
    <3> QED BY <2>2, <2>4, <3>1, <3>2, <3>3 DEF Imports
  <2>9. \A i \in Idx : slot'[i] # NoBuf => slot'[i].fd \in Fds /\ file'[slot'[i].fd] = Dmabuf(1, i)
    BY <2>2, <2>4 DEF Imports
  <2>10. \A i \in Idx : i < count' => slot'[i] # NoBuf
    <3> SUFFICES ASSUME NEW i \in Idx, i < n PROVE slot'[i] # NoBuf
      BY <1>1
    <3>1. CASE i = 0
      BY <1>1, <2>2, <2>4, <2>5, <3>1 DEF Imports
    <3>2. CASE i # 0
      <4>1. i \in 1 .. n - 1
        BY <1>1, <3>2, FdTypes DEF Idx
      <4> QED BY <2>2, <2>4, <4>1 DEF Imports
    <3> QED BY <3>1, <3>2
  <2>11. FirstConsumer'
    BY <1>1, <2>1, <2>7, <2>8, <2>9, <2>10 DEF FirstConsumer
  <2> QED BY <1>1, <1>4, <2>11 DEF FirstInv
<1> QED BY <1>3, <1>4

LEMMA CommitKeepsFirst ==
    ASSUME BufferInv, FirstInv, NEW i \in Idx, CommitBuffer(i)
    PROVE  FirstInv'
<1>1. /\ ~fallback /\ ~down /\ ~fallback' /\ ~down' /\ i < count
      /\ UNCHANGED <<conn, fallback, ctxFds, count, chan, others, down>>
  BY CommitSlotFacts
<1>2. CASE conn # 1
  BY <1>1, <1>2 DEF FirstInv
<1>3. CASE conn = 1
  <2>1. FirstConsumer
    BY <1>1, <1>3 DEF FirstInv
  <2>2. slot[i] # NoBuf
    BY <1>1, <2>1 DEF FirstConsumer
  <2>3. CommitFrom(i, file, slot, cache)
    BY <1>3, CommitSlotFacts
  <2>4. /\ slot' = slot /\ staged' = slot[i]
        /\ file' = ClosedAll(file, DeadFds({staged}, {slot[j] : j \in Idx} \cup {slot[i]}))
    BY <2>2, <2>3 DEF CommitFrom
  <2>5. DeadFds({staged}, {slot[j] : j \in Idx} \cup {slot[i]}) = {}
    BY <2>1 DEF FirstConsumer, DeadFds, NoBuf
  <2>6. ClosedAll(file, {}) = file
    BY DEF ClosedAll, BufferInv, TypeOK
  <2>7. file' = file
    BY <2>4, <2>5, <2>6
  <2>8. FirstConsumer'
    BY <1>1, <2>1, <2>4, <2>7 DEF FirstConsumer
  <2> QED BY <1>1, <1>3, <2>8 DEF FirstInv
<1> QED BY <1>2, <1>3

LEMMA OthersKeepFirst ==
    ASSUME BufferInv, FirstInv, OpenOther \/ CloseOther
    PROVE  FirstInv'
<1>0. /\ TypeOK /\ others \subseteq Fds /\ IsFiniteSet(others)
      /\ Cardinality(others) \in Nat /\ MaxOthers \in Nat
  <2>1. TypeOK /\ others \subseteq Fds
    BY DEF BufferInv, TypeOK
  <2>2. IsFiniteSet(others)
    BY <2>1, FdTypes, FS_Subset
  <2> QED BY <2>1, <2>2, FS_CardinalityType, BoundsAssumption
<1>1. UNCHANGED <<conn, fallback, ctxFds, count, chan, slot, staged, cache, down>>
  BY <1>0, OtherChanges
<1>2. Cardinality(others') <= MaxOthers
  <2>1. CASE OpenOther
    <3>1. PICK n : others' = others \cup {n} /\ Cardinality(others) < MaxOthers
      BY <2>1 DEF OpenOther
    <3>2. Cardinality(others \cup {n}) \in {Cardinality(others), Cardinality(others) + 1}
      BY <1>0, FS_AddElement
    <3> QED BY <1>0, <3>1, <3>2
  <2>2. CASE CloseOther
    <3>1. PICK n \in others : others' = others \ {n}
      BY <2>2 DEF CloseOther
    <3>2. Cardinality(others \ {n}) = Cardinality(others) - 1
      BY <1>0, <3>1, FS_RemoveElement
    <3> QED BY <1>0, <3>1, <3>2 DEF FirstInv
  <2> QED BY <2>1, <2>2
<1>3. PICK n \in Fds :
            /\ \A m \in Fds : m # n => file'[m] = file[m] /\ (m \in others' <=> m \in others)
            /\ \/ file[n] = Nothing /\ file'[n] = Other /\ others' = others \cup {n}
               \/ n \in others /\ file'[n] = Nothing /\ others' = others \ {n}
            /\ others' \subseteq Fds
  BY <1>0, OtherChanges
<1>5. ASSUME conn = 1, ~fallback, ~down
      PROVE  FirstConsumer'
  <2>1. FirstConsumer
    BY <1>5 DEF FirstInv
  <2>2. file[n] = Nothing \/ file[n] = Other
    BY <1>3, <2>1 DEF FirstConsumer
  <2>3. 1 \in Conns
    BY <1>5, BoundsAssumption DEF BufferInv, TypeOK, Conns
  <2>4. \A m \in Fds : file[m] # Nothing /\ file[m] # Other => file'[m] = file[m]
    BY <1>3, <2>2
  <2>5. chan \in Fds /\ file'[chan] = Channel(1)
    BY <2>1, <2>3, <2>4, FilesDiffer DEF FirstConsumer
  <2>6. ASSUME NEW i \in Idx, slot[i] # NoBuf PROVE slot[i].fd \in Fds /\ file'[slot[i].fd] = Dmabuf(1, i)
    BY <2>1, <2>3, <2>4, <2>6, FilesDiffer DEF FirstConsumer
  <2>7. \A m \in others' : file'[m] = Other
    <3> SUFFICES ASSUME NEW m \in others' PROVE file'[m] = Other
      OBVIOUS
    <3>1. m \in Fds /\ (m # n => m \in others /\ file'[m] = file[m])
      BY <1>3
    <3> QED BY <1>3, <2>1, <3>1 DEF FirstConsumer
  <2>8. (\A i \in Idx : i < count => slot[i] # NoBuf) /\ (staged = NoBuf \/ \E i \in Idx : staged = slot[i])
    BY <2>1 DEF FirstConsumer
  <2> QED BY <1>1, <2>5, <2>6, <2>7, <2>8 DEF FirstConsumer
<1> QED BY <1>1, <1>2, <1>5 DEF FirstInv

LEMMA RestKeepsFirst ==
    ASSUME BufferInv, FirstInv, ReleaseConsumer \/ Shutdown \/ ConnectAndLose \/ UNCHANGED vars
           \/ \E n \in 1 .. MAX_BUFS : Reconnect(n)
    PROVE  FirstInv'
<1>0. conn \in Nat /\ (conn = 0 => fallback)
  BY BoundsAssumption DEF BufferInv, TypeOK
<1>1. CASE ReleaseConsumer
  <2>1. fallback' /\ conn' # 0 /\ others' = others
    BY <1>0, <1>1 DEF ReleaseConsumer
  <2> QED BY <2>1 DEF FirstInv
<1>2. CASE Shutdown
  <2>1. down' /\ others' = others
    BY <1>2 DEF Shutdown
  <2> QED BY <2>1 DEF FirstInv
<1>3. CASE ConnectAndLose
  <2>1. fallback' /\ conn' # 0 /\ others' = others
    BY <1>0, <1>3 DEF ConnectAndLose
  <2> QED BY <2>1 DEF FirstInv
<1>4. CASE UNCHANGED vars
  BY <1>4 DEF vars, FirstInv, FirstConsumer
<1>5. CASE \E n \in 1 .. MAX_BUFS : Reconnect(n)
  <2>1. conn' = 2 /\ others' = others
    BY <1>5 DEF Reconnect, Handshake
  <2> QED BY <2>1 DEF FirstInv
<1> QED BY <1>1, <1>2, <1>3, <1>4, <1>5

LEMMA FirstInit ==
    ASSUME Init
    PROVE  FirstInv
<1>1. Cardinality(others) = 0
  BY FS_EmptySet DEF Init
<1> QED BY <1>1, BoundsAssumption DEF Init, FirstInv

LEMMA FirstAlways ==
    ASSUME Roomy
    PROVE  Spec => []FirstInv
<1>1. Init => FirstInv
  BY FirstInit
<1>2. BufferInv /\ FirstInv /\ [Next]_vars => FirstInv'
  <2> SUFFICES ASSUME BufferInv, FirstInv, [Next]_vars PROVE FirstInv'
    OBVIOUS
  <2>1. CASE \E n \in 1 .. MAX_BUFS : TryExitFallback(n)
    BY <2>1, ConnectKeepsFirst
  <2>2. CASE \E i \in Idx : CommitBuffer(i)
    BY <2>2, CommitKeepsFirst
  <2>3. CASE OpenOther \/ CloseOther
    BY <2>3, OthersKeepFirst
  <2>4. CASE \/ ReleaseConsumer \/ Shutdown \/ ConnectAndLose \/ UNCHANGED vars
             \/ \E n \in 1 .. MAX_BUFS : Reconnect(n)
    BY <2>4, RestKeepsFirst
  <2> QED BY <2>1, <2>2, <2>3, <2>4 DEF Next
<1> QED BY <1>1, <1>2, BuffersAlways, PTL DEF Spec

\* importBuffer and commit, for the first consumer, any number of buffers and
\* any files of the rest of the process, in a table with room for all of
\* them: every slot wraps the buffer that was announced under its index.
THEOREM SlotsKeepTheirDmabufs ==
    ASSUME NumFds >= MAX_BUFS + 2 + MaxOthers
    PROVE  Spec => []SlotIsItsDmabuf
<1>1. FirstInv => SlotIsItsDmabuf
  BY DEF FirstInv, FirstConsumer, SlotIsItsDmabuf
<1>2. Roomy
  BY DEF Roomy
<1>3. Spec => []FirstInv
  BY <1>2, FirstAlways
<1> QED BY <1>1, <1>3, PTL

\* importBuffer and cacheOrImportBuffer, likewise: neither the link's
\* descriptor nor one of another part of the process is ever closed.
THEOREM ForeignFilesStayOpen ==
    ASSUME NumFds >= MAX_BUFS + 2 + MaxOthers
    PROVE  Spec => []NoForeignClose
<1>1. FirstInv => NoForeignClose
  BY DEF FirstInv, FirstConsumer, NoForeignClose
<1>2. Roomy
  BY DEF Roomy
<1>3. Spec => []FirstInv
  BY <1>2, FirstAlways
<1> QED BY <1>1, <1>3, PTL

-----------------------------------------------------------------------------
(* The frame loop uses the buffers as AnlandBuffers says.                  *)

\* Every step of the frame loop is one of the buffers, or leaves them alone,
\* so the theorems about them hold of the output as well.
THEOREM LoopKeepsBufferSpec == LoopSpec => Spec
<1>1. LoopInit => Init
  BY DEF LoopInit
<1>2. [LoopNext]_allVars => [Next]_vars
  <2> SUFFICES ASSUME [LoopNext]_allVars PROVE [Next]_vars
    OBVIOUS
  <2>1. CASE Compositor
    <3>1. CASE CallSchedule \/ CommitImmediate
      BY <3>1 DEF CallSchedule, ScheduleFrame, CommitImmediate
    <3>2. CASE \E i \in Idx : CommitSlot(i)
      <4>1. PICK i \in Idx : CommitBuffer(i)
        BY <3>2 DEF CommitSlot
      <4> QED BY <4>1 DEF Next
    <3> QED BY <2>1, <3>1, <3>2 DEF Compositor
  <2>2. CASE OutputSteps
    BY <2>2 DEF OutputSteps, RunSchedule, ScheduleFrame, RunEmit, Requeue, EmitCommit, CommitReturns
  <2>3. CASE Return \/ EventLoop \/ DeferFrameForIME \/ Show
    BY <2>3 DEF Return, EventLoop, FrameIdle, ImeIdle, OnBufferReady, DeferFrameForIME, Show
  <2>4. CASE EnterFallback
    BY <2>4 DEF EnterFallback, Next
  <2>5. CASE ExitFallback
    BY <2>5 DEF ExitFallback, Next
  <2>c. CASE ConnectAgain
    BY <2>c DEF ConnectAgain, Next
  <2>6. CASE Elsewhere
    BY <2>6 DEF Elsewhere, Next
  <2>7. CASE UNCHANGED allVars
    BY <2>7 DEF allVars
  <2> QED BY <2>1, <2>2, <2>3, <2>4, <2>5, <2>6, <2>7, <2>c DEF LoopNext
<1> QED BY <1>1, <1>2, PTL DEF LoopSpec, Spec
=============================================================================
