-------------------------- MODULE DrmOutputProofs --------------------------
(* Proofs about the DRM frame loop, for any set of buffers and any driver. *)
EXTENDS DrmOutput, TLAPS

\* The kernel never holds more flips than the fd has room for events: what
\* keeps the event count in its type.
EventRoom == kms.events + Pending <= MaxEvents

\* A driver and a user that do the ordinary: no async flips, no unplugging, no
\* session switch, and no refusal that a modeset would have cured.
Steady == ~Tearing /\ ~Hotplug /\ ~VtSwitch /\ "plain" \notin Refusals

\* Where the buffers are: the kernel shows or has queued the back buffer, the
\* plane's buffers are locked, and what is staged is not.
BufferPlaces ==
    /\ kms.queued # NoFB => kms.queued = back
    /\ kms.queued = NoFB => kms.scanout = back
    /\ back # NoFB => back \in locked
    /\ front # NoFB => front \in locked
    /\ isPageFlipPending /\ back # NoFB => front # back
    /\ st.dirty => st.buffer \notin locked /\ st.buffer # NoFB

\* What the last successful commit left staged.
CommittedState ==
    /\ active /\ output
    /\ lastCommitNoBuffer <=> back = NoFB
    /\ back # NoFB => st.buffer # NoFB
    /\ back # NoFB /\ ~st.reconfig => st.enabled
    /\ st.enabled /\ ~st.reconfig /\ ~st.dirty => st.buffer = back

SteadyInv ==
    /\ TypeOK
    /\ OneFlip
    /\ ScanoutLocked
    /\ BufferPlaces
    /\ CommittedState

-----------------------------------------------------------------------------
(* Whatever the driver, the user and the consumer do.                      *)

Data == [fb : FB, blocking : BOOLEAN, modeset : BOOLEAN, event : BOOLEAN, async : BOOLEAN]

\* A commit that leaves a flip queued has asked for its event.
Queues(d) == ~d.blocking /\ d.fb # NoFB => d.event

AnyInv ==
    /\ TypeOK
    /\ EventRoom
    /\ FlipEventOwed
    /\ ScheduledIsQueued

\* What commitState hands to the connector, in both attempts, is well-typed.
LEMMA CommitDataType ==
    ASSUME TypeOK, NEW tear \in BOOLEAN, NEW mismatch \in BOOLEAN
    PROVE  /\ CommitData(tear, mismatch) \in Data
           /\ RetryData(CommitData(tear, mismatch)) \in Data
           /\ Queues(CommitData(tear, mismatch))
BY DEF TypeOK, StagedState, FB, CommitData, RetryData, Data, Queues

\* The kernel's state after a commit it accepted: typed, within its room, and
\* still owing an event if it owed one or was asked for one.
LEMMA KernelStep ==
    ASSUME TypeOK, EventRoom, NEW d \in Data, Queues(d), KernelApplies(d),
           d.event => d.fb # NoFB /\ kms.events + Pending < MaxEvents
    PROVE  /\ kms' \in [scanout : FB, queued : FB, events : 0 .. MaxEvents]
           /\ EventRoom'
           /\ kms.events > 0 \/ kms.queued # NoFB \/ d.event
                => kms'.events > 0 \/ kms'.queued # NoFB
BY ConstantsAssumption DEF TypeOK, EventRoom, Data, FB, KernelApplies, Pending, Queues

\* A commit the kernel accepted keeps the invariant.
LEMMA AppliedKeepsAnyInv ==
    ASSUME AnyInv, NEW d \in Data, Queues(d), Applied(d),
           d.event => d.fb # NoFB /\ kms.events + Pending < MaxEvents
    PROVE  AnyInv'
<1> USE DEF AnyInv
<1>1. /\ kms' \in [scanout : FB, queued : FB, events : 0 .. MaxEvents]
      /\ EventRoom'
      /\ kms.events > 0 \/ kms.queued # NoFB \/ d.event
           => kms'.events > 0 \/ kms'.queued # NoFB
  BY KernelStep DEF Applied
<1>2. front' \in FB /\ back' \in FB /\ last' \in FB /\ locked' \subseteq Buffers
  BY DEF TypeOK, Applied, ApplyCommit, Data, FB
<1>3. st' \in StagedState
  BY DEF TypeOK, Applied, StagedState
<1>4. TypeOK'
  BY <1>1, <1>2, <1>3, Zenon DEF TypeOK, Applied, StagedState
<1>5. FlipEventOwed'
  BY <1>1 DEF FlipEventOwed, Applied
<1>6. ScheduledIsQueued'
  BY DEF ScheduledIsQueued, Applied
<1> QED BY <1>1, <1>4, <1>5, <1>6

\* Committing, in each of its three outcomes.
LEMMA CommitKeepsAnyInv ==
    ASSUME AnyInv, NEW tear \in BOOLEAN, NEW mismatch \in BOOLEAN,
           \/ CommitAccepted(tear, mismatch)
           \/ CommitRetried(tear, mismatch)
           \/ CommitRefused(tear, mismatch)
    PROVE  AnyInv'
<1> DEFINE d == CommitData(tear, mismatch)
<1>1. d \in Data /\ RetryData(d) \in Data /\ Queues(d)
  BY CommitDataType DEF AnyInv
<1>2. CASE CommitAccepted(tear, mismatch)
  <2>1. Applied(d) /\ KernelAccepts(d)
    BY <1>2 DEF CommitAccepted
  <2>2. d.event => d.fb # NoFB /\ kms.events + Pending < MaxEvents
    BY <2>1 DEF KernelAccepts
  <2> QED BY <1>1, <2>1, <2>2, AppliedKeepsAnyInv
<1>3. CASE CommitRetried(tear, mismatch)
  <2>1. Applied(RetryData(d)) /\ KernelAccepts(RetryData(d))
    BY <1>3 DEF CommitRetried
  <2>2. RetryData(d).event
          => RetryData(d).fb # NoFB /\ kms.events + Pending < MaxEvents
    BY <2>1 DEF KernelAccepts
  <2>3. Queues(RetryData(d))
    BY <1>1 DEF Queues, RetryData, Data
  <2> QED BY <1>1, <2>1, <2>2, <2>3, AppliedKeepsAnyInv
<1>4. CASE CommitRefused(tear, mismatch)
  <2>1. st' \in StagedState /\ commitTainted' \in BOOLEAN
    BY <1>4 DEF CommitRefused, AnyInv, TypeOK, StagedState
  <2>2. TypeOK'
    BY <1>4, <2>1 DEF CommitRefused, AnyInv, TypeOK, loop, planes
  <2> QED
    BY <1>4, <2>2 DEF CommitRefused, AnyInv, EventRoom, Pending, FlipEventOwed,
       ScheduledIsQueued, loop, planes
<1> QED BY <1>2, <1>3, <1>4

\* test() keeps the invariant: it applies nothing.
LEMMA TestKeepsAnyInv ==
    ASSUME AnyInv, NEW mismatch \in BOOLEAN, Test(mismatch)
    PROVE  AnyInv'
<1>1. st' \in StagedState /\ commitTainted' \in BOOLEAN
  BY DEF Test, AnyInv, TypeOK, StagedState
<1>2. UNCHANGED <<active, output, enabledState, lastCommitNoBuffer, loop, planes, handler, kms, owed>>
  BY DEF Test
<1>3. TypeOK'
  BY <1>1, <1>2 DEF AnyInv, TypeOK, loop, planes
<1> QED
  BY <1>2, <1>3 DEF AnyInv, EventRoom, Pending, FlipEventOwed, ScheduledIsQueued, loop

\* Staging a state keeps the invariant.
LEMMA StageKeepsAnyInv ==
    ASSUME AnyInv, NEW s \in StagedState, Stage(s)
    PROVE  AnyInv'
BY DEF Stage, AnyInv, TypeOK, EventRoom, Pending, FlipEventOwed, ScheduledIsQueued,
   flags, loop, planes

\* Every step keeps the invariant that needs no assumption on the driver.
LEMMA NextKeepsAnyInv == AnyInv /\ [Next]_vars => AnyInv'
<1> SUFFICES ASSUME AnyInv, [Next]_vars PROVE AnyInv'
  OBVIOUS
<1> USE ConstantsAssumption
<1>1. ASSUME NEW e \in BOOLEAN, SetEnabled(e) PROVE AnyInv'
  <2>1. [st EXCEPT !.enabled = e, !.reconfig = TRUE] \in StagedState
    BY DEF AnyInv, TypeOK, StagedState
  <2> QED BY <1>1, <2>1, StageKeepsAnyInv DEF SetEnabled
<1>2. CASE SetReconfig
  <2>1. [st EXCEPT !.reconfig = TRUE] \in StagedState
    BY DEF AnyInv, TypeOK, StagedState
  <2> QED BY <1>2, <2>1, StageKeepsAnyInv DEF SetReconfig
<1>3. ASSUME NEW b \in Buffers, SetBuffer(b) PROVE AnyInv'
  <2>1. [st EXCEPT !.buffer = b, !.dirty = TRUE] \in StagedState
    BY DEF AnyInv, TypeOK, StagedState, FB
  <2> QED BY <1>3, <2>1, StageKeepsAnyInv DEF SetBuffer
<1>4. CASE ScheduleFrame
  BY <1>4 DEF ScheduleFrame, Schedule, AnyInv, TypeOK, EventRoom, Pending, FlipEventOwed,
     ScheduledIsQueued, flags, planes
<1>5. CASE FrameIdle
  BY <1>5 DEF FrameIdle, AnyInv, TypeOK, EventRoom, Pending, FlipEventOwed,
     ScheduledIsQueued, flags, planes
<1>6. CASE HandlePF
  <2>1. /\ kms' \in [scanout : FB, queued : FB, events : 0 .. MaxEvents]
        /\ EventRoom'
    BY <1>6 DEF HandlePF, AnyInv, TypeOK, EventRoom, Pending
  <2>2. TypeOK'
    BY <1>6, <2>1, ZenonT(60) DEF HandlePF, OnPresent, AnyInv, TypeOK, FB, flags, planes
  <2> QED BY <1>6, <2>1, <2>2 DEF HandlePF, AnyInv, FlipEventOwed, ScheduledIsQueued
<1>7. CASE PresentReturns
  BY <1>7, ZenonT(60) DEF PresentReturns, AnyInv, TypeOK, EventRoom, Pending, FlipEventOwed,
     ScheduledIsQueued, flags, loop, planes
<1>8. CASE FrameReturns
  BY <1>8 DEF FrameReturns, AnyInv, TypeOK, EventRoom, Pending, FlipEventOwed,
     ScheduledIsQueued, flags, planes
<1>9. CASE VBlank
  <2>1. /\ kms' \in [scanout : FB, queued : FB, events : 0 .. MaxEvents]
        /\ EventRoom' /\ kms'.events > 0
    BY <1>9 DEF VBlank, AnyInv, TypeOK, EventRoom, Pending, FB
  <2>2. TypeOK'
    BY <1>9, <2>1 DEF VBlank, AnyInv, TypeOK, flags, loop, planes
  <2> QED BY <1>9, <2>1, <2>2 DEF VBlank, AnyInv, FlipEventOwed, ScheduledIsQueued, loop
<1>10. CASE SessionOff
  BY <1>10 DEF SessionOff, AnyInv, TypeOK, EventRoom, Pending, FlipEventOwed,
     ScheduledIsQueued, flags, loop, planes
<1>11. CASE OtherMaster
  BY <1>11 DEF OtherMaster, AnyInv, TypeOK, EventRoom, Pending, FlipEventOwed,
     ScheduledIsQueued, FB, flags, loop, planes
<1>12. CASE SessionOn
  <2> DEFINE d == [fb |-> IF st.enabled THEN st.buffer ELSE NoFB,
                   blocking |-> TRUE, modeset |-> TRUE, event |-> FALSE, async |-> FALSE]
  <2>1. d \in Data /\ Queues(d) /\ ~d.event
    BY DEF AnyInv, TypeOK, StagedState, Data, FB, Queues
  <2>2. KernelApplies(d) \/ UNCHANGED kms
    BY <1>12 DEF SessionOn
  <2>3. /\ kms' \in [scanout : FB, queued : FB, events : 0 .. MaxEvents]
        /\ EventRoom'
        /\ kms.events > 0 \/ kms.queued # NoFB => kms'.events > 0 \/ kms'.queued # NoFB
    <3> HIDE DEF d
    <3>1. CASE KernelApplies(d)
      BY <3>1, <2>1, KernelStep DEF AnyInv
    <3>2. CASE UNCHANGED kms
      BY <3>2 DEF AnyInv, TypeOK, EventRoom, Pending
    <3> QED BY <2>2, <3>1, <3>2
  <2>4. TypeOK'
    BY <1>12, <2>3 DEF SessionOn, AnyInv, TypeOK, flags, loop, planes
  <2> QED BY <1>12, <2>3, <2>4 DEF SessionOn, AnyInv, FlipEventOwed, ScheduledIsQueued, loop
<1>13. CASE Disconnect
  BY <1>13 DEF Disconnect, AnyInv, TypeOK, EventRoom, Pending, FlipEventOwed,
     ScheduledIsQueued, FB, flags
<1>14. CASE Connect
  <2>1. NewState \in StagedState
    BY DEF NewState, StagedState, FB
  <2> QED
    BY <1>14, <2>1 DEF Connect, AnyInv, TypeOK, EventRoom, Pending, FlipEventOwed,
       ScheduledIsQueued, planes
<1>15. CASE UNCHANGED vars
  BY <1>15 DEF vars, AnyInv, TypeOK, EventRoom, Pending, FlipEventOwed,
     ScheduledIsQueued, flags, loop, planes
<1> QED
  BY <1>1, <1>2, <1>3, <1>4, <1>5, <1>6, <1>7, <1>8, <1>9, <1>10, <1>11, <1>12, <1>13,
     <1>14, <1>15, CommitKeepsAnyInv, TestKeepsAnyInv DEF Next, Consumer, Loop, Environment

\* The initial state satisfies the invariant.
LEMMA InitAnyInv == Init => AnyInv
<1> SUFFICES ASSUME Init PROVE AnyInv
  OBVIOUS
<1>1. st \in StagedState
  BY DEF Init, NewState, StagedState, FB
<1>2. /\ kms \in [scanout : FB, queued : FB, events : 0 .. MaxEvents]
      /\ EventRoom
  BY ConstantsAssumption DEF Init, FB, EventRoom, Pending
<1>3. TypeOK
  BY <1>1, <1>2, Zenon DEF Init, TypeOK, FB
<1> QED BY <1>2, <1>3 DEF Init, AnyInv, FlipEventOwed, ScheduledIsQueued

\* Every variable of the frame loop keeps its type, and the kernel's event
\* count stays within the room of the fd.
THEOREM TypeCorrect == Spec => []TypeOK
<1>1. AnyInv => TypeOK
  BY DEF AnyInv
<1> QED BY <1>1, InitAnyInv, NextKeepsAnyInv, PTL DEF Spec

\* With any driver, any user and any consumer: a pending flip is one the kernel
\* still owes an event for (handlePF will lower isPageFlipPending).
THEOREM PendingFlipHasEvent == Spec => []FlipEventOwed
<1>1. AnyInv => FlipEventOwed
  BY DEF AnyInv
<1> QED BY <1>1, InitAnyInv, NextKeepsAnyInv, PTL DEF Spec

\* With any driver, any user and any consumer: frameEventScheduled says
\* exactly that frameIdle is queued (scheduleFrame, ~CDRMOutput).
THEOREM ScheduledFrameIsQueued == Spec => []ScheduledIsQueued
<1>1. AnyInv => ScheduledIsQueued
  BY DEF AnyInv
<1> QED BY <1>1, InitAnyInv, NextKeepsAnyInv, PTL DEF Spec

\* isFrameRunning belongs to handlePF, which in the present event has still to
\* find the output enabled: it is, as long as no listener of that event commits.
RunningInv ==
    isFrameRunning =>
        \/ handler = "frame"
        \/ handler = "present" /\ active /\ enabledState

LEMMA NextKeepsRunningInv ==
    ASSUME ~BusyPresent, RunningInv, [Next]_vars
    PROVE  RunningInv'
<1> USE DEF RunningInv
<1>1. ASSUME NEW s, Stage(s) PROVE RunningInv'
  BY <1>1 DEF Stage, flags, loop
<1>2. ASSUME NEW tear, NEW mismatch,
             CommitAccepted(tear, mismatch) \/ CommitRetried(tear, mismatch)
      PROVE  RunningInv'
  <2>1. handler # "present"
    BY <1>2 DEF CommitAccepted, CommitRetried, CommitAllowed, ConsumerFree
  <2>2. UNCHANGED <<isFrameRunning, handler>>
    BY <1>2 DEF CommitAccepted, CommitRetried, Applied
  <2> QED BY <2>1, <2>2
<1>3. ASSUME NEW tear, NEW mismatch, CommitRefused(tear, mismatch) \/ Test(mismatch)
      PROVE  RunningInv'
  BY <1>3 DEF CommitRefused, Test, loop
<1>4. CASE ScheduleFrame
  BY <1>4 DEF ScheduleFrame, flags
<1>5. CASE FrameIdle
  BY <1>5 DEF FrameIdle, flags
<1>6. CASE HandlePF
  <2>1. ~isFrameRunning
    BY <1>6 DEF HandlePF
  <2>2. UNCHANGED <<active, enabledState>>
    BY <1>6 DEF HandlePF, flags
  <2>3. CASE output
    <3>1. handler' = "present" /\ isFrameRunning' = (isFrameRunning \/ (active /\ enabledState))
      BY <1>6, <2>3 DEF HandlePF
    <3> QED BY <2>1, <2>2, <3>1
  <2>4. CASE ~output
    BY <1>6, <2>1, <2>4 DEF HandlePF
  <2> QED BY <2>3, <2>4
<1>7. CASE PresentReturns
  BY <1>7 DEF PresentReturns, flags, loop
<1>8. CASE FrameReturns
  <2>1. isFrameRunning' = (isFrameRunning /\ handler # "frame") /\ handler # "present"
    BY <1>8 DEF FrameReturns
  <2> QED BY <2>1
<1>9. CASE Environment
  BY <1>9 DEF Environment, VBlank, SessionOff, OtherMaster, SessionOn, Disconnect, Connect,
     flags, loop
<1>10. CASE UNCHANGED vars
  BY <1>10 DEF vars, flags, loop
<1>11. CASE Consumer
  BY <1>1, <1>2, <1>3, <1>4, <1>11 DEF Consumer, SetEnabled, SetReconfig, SetBuffer
<1> QED BY <1>5, <1>6, <1>7, <1>8, <1>9, <1>10, <1>11 DEF Next, Loop

\* handlePF lowers isFrameRunning on every path back to the event loop, so that
\* scheduleFrame is never silenced by a frame that is over.  A listener of the
\* present event that disabled the output would break it.
THEOREM RunningFrameEnds == ASSUME ~BusyPresent PROVE Spec => []FrameRunningEnds
<1>1. Init => RunningInv
  BY DEF Init, RunningInv
<1>2. RunningInv /\ [Next]_vars => RunningInv'
  BY NextKeepsRunningInv
<1>3. RunningInv => FrameRunningEnds
  BY DEF RunningInv, FrameRunningEnds
<1> QED BY <1>1, <1>2, <1>3, PTL DEF Spec

-----------------------------------------------------------------------------
(* The ordinary driver and user: one flip at a time, and what is on screen *)
(* stays locked.                                                           *)

SteadyConj ==
    /\ OneFlip
    /\ ScanoutLocked
    /\ BufferPlaces
    /\ CommittedState

\* Without a refusal that a modeset cures, the second attempt never runs: a
\* commit that may not modeset is one the kernel accepts.
LEMMA NoRetry ==
    ASSUME Steady, SteadyInv, NEW tear \in BOOLEAN, NEW mismatch \in BOOLEAN
    PROVE  ~CommitRetried(tear, mismatch)
<1> DEFINE d == CommitData(tear, mismatch)
<1> SUFFICES ASSUME CommitRetried(tear, mismatch) PROVE FALSE
  OBVIOUS
<1>1. /\ MayRefuse(d) /\ ~d.modeset /\ CommitAllowed /\ Inputs(tear, mismatch)
  BY DEF CommitRetried
<1>2. ~st.reconfig /\ ~lastCommitNoBuffer /\ ~mismatch
  BY <1>1 DEF CommitData
<1>3. back # NoFB /\ st.enabled /\ st.buffer # NoFB
  BY <1>2 DEF SteadyInv, CommittedState
<1>4. d.fb # NoFB /\ (d.blocking \/ st.dirty) /\ (d.event => st.dirty)
  BY <1>3 DEF CommitData
<1>5. ~(kms.scanout = NoFB /\ kms.queued = NoFB)
  BY <1>3 DEF SteadyInv, BufferPlaces
<1>6. st.dirty => kms.events + Pending < MaxEvents /\ kms.queued = NoFB
  BY <1>1, <1>3, ConstantsAssumption
     DEF CommitAllowed, SteadyInv, OneFlip, TypeOK, Pending
<1>7. KernelAccepts(d)
  <2> HIDE DEF d
  <2> QED BY <1>1, <1>4, <1>5, <1>6 DEF KernelAccepts
<1>8. (IF d.modeset THEN "modeset" ELSE "plain") = "plain"
  BY <1>1
<1> QED
  <2> HIDE DEF d
  <2> QED BY <1>1, <1>7, <1>8 DEF MayRefuse, Steady

\* An accepted commit keeps the steady invariant: the buffer it queues is locked
\* first, and it finds no other flip in flight.
LEMMA AcceptedKeepsSteady ==
    ASSUME Steady, SteadyInv, NEW tear \in BOOLEAN, NEW mismatch \in BOOLEAN,
           CommitAccepted(tear, mismatch)
    PROVE  SteadyConj'
<1> DEFINE d == CommitData(tear, mismatch)
<1>1. /\ CommitAllowed /\ Inputs(tear, mismatch) /\ KernelAccepts(d) /\ Applied(d)
  BY DEF CommitAccepted
<1>2. ~d.async
  BY <1>1 DEF CommitData, Inputs, Steady
<1>3. /\ st' = [st EXCEPT !.dirty = FALSE, !.reconfig = FALSE]
      /\ enabledState' = st.enabled
      /\ lastCommitNoBuffer' = (d.fb = NoFB)
      /\ active' = active /\ output' = output
  BY <1>1 DEF Applied
<1>4. /\ ~st'.dirty /\ ~st'.reconfig
      /\ st'.enabled = st.enabled /\ st'.buffer = st.buffer
  BY <1>3 DEF SteadyInv, TypeOK, StagedState
<1>5. CASE ~st.enabled
  <2>1. d.fb = NoFB /\ ~d.event
    BY <1>5 DEF CommitData
  <2>2. front' = NoFB /\ back' = NoFB /\ isPageFlipPending' = isPageFlipPending
    BY <1>1, <1>5, <2>1 DEF Applied, ApplyCommit, SteadyInv, TypeOK
  <2>3. kms' = [scanout |-> NoFB, queued |-> NoFB, events |-> kms.events + Pending]
    BY <1>1, <2>1 DEF Applied, KernelApplies, SteadyInv, TypeOK, Pending
  <2>4. OneFlip'
    BY <2>2, <2>3 DEF SteadyInv, OneFlip, Pending, TypeOK
  <2>5. ScanoutLocked' /\ BufferPlaces'
    BY <1>4, <2>2, <2>3 DEF ScanoutLocked, BufferPlaces
  <2>6. CommittedState'
    BY <1>3, <1>4, <1>5, <2>1, <2>2 DEF SteadyInv, CommittedState
  <2> QED BY <2>4, <2>5, <2>6 DEF SteadyConj
<1>6. CASE st.enabled
  <2>1. /\ d.fb = st.buffer
        /\ d.event <=> st.dirty
        /\ ~d.blocking => st.dirty /\ ~st.reconfig
        /\ d.blocking \in BOOLEAN /\ d.event \in BOOLEAN
    BY <1>6 DEF CommitData, SteadyInv, TypeOK, StagedState
  <2>2. /\ front' = front /\ back' = st.buffer
        /\ locked' = locked \cup ({st.buffer} \ {NoFB})
    BY <1>1, <1>2, <1>6, <2>1 DEF Applied, ApplyCommit
  <2>3. isPageFlipPending' = (isPageFlipPending \/ (st.buffer # NoFB /\ st.dirty))
    BY <1>1, <1>6, <2>1 DEF Applied
  <2>4. isPageFlipPending => ~st.dirty /\ st.buffer = back
    BY <1>1, <1>6 DEF CommitAllowed, SteadyInv, CommittedState
  <2>5. st.dirty => st.buffer # NoFB /\ st.buffer \notin locked
    BY DEF SteadyInv, BufferPlaces
  <2>6. \/ /\ kms'.scanout = st.buffer /\ kms'.queued = NoFB
           /\ kms'.events = kms.events + Pending + (IF st.dirty THEN 1 ELSE 0)
        \/ /\ kms'.scanout = kms.scanout /\ kms'.queued = st.buffer
           /\ kms'.events = kms.events /\ st.buffer # NoFB /\ st.dirty
    <3> HIDE DEF d
    <3>1. KernelApplies(d)
      BY <1>1 DEF Applied
    <3> QED BY <1>2, <2>1, <3>1 DEF KernelApplies, SteadyInv, TypeOK
  <2>7. st.dirty => kms.events = 0 /\ Pending = 0 /\ ~isPageFlipPending
    BY <2>4 DEF SteadyInv, OneFlip, TypeOK, Pending
  <2>8. OneFlip'
    <3>1. CASE st.dirty
      <4>1. isPageFlipPending' = TRUE
        BY <2>3, <2>5, <3>1
      <4>2. kms'.events + Pending' = 1
        BY <2>6, <2>7, <3>1 DEF Pending
      <4> QED BY <4>1, <4>2 DEF OneFlip
    <3>2. CASE ~st.dirty
      <4>1. isPageFlipPending' = isPageFlipPending
        BY <2>3, <3>2 DEF SteadyInv, TypeOK
      <4>2. kms'.events + Pending' = kms.events + Pending
        BY <2>6, <3>2 DEF SteadyInv, TypeOK, Pending
      <4> QED BY <4>1, <4>2 DEF SteadyInv, OneFlip
    <3> QED BY <3>1, <3>2
  <2>9. ScanoutLocked'
    BY <2>2, <2>6 DEF SteadyInv, ScanoutLocked, TypeOK, FB
  <2>10. BufferPlaces'
    BY <1>4, <2>2, <2>3, <2>4, <2>5, <2>6 DEF SteadyInv, BufferPlaces
  <2>11. CommittedState'
    BY <1>3, <1>4, <1>6, <2>1, <2>2 DEF SteadyInv, CommittedState
  <2> QED BY <2>8, <2>9, <2>10, <2>11 DEF SteadyConj
<1> QED BY <1>5, <1>6

\* Every step keeps the steady invariant.
LEMMA NextKeepsSteady ==
    ASSUME Steady PROVE SteadyInv /\ [Next]_vars => SteadyConj'
<1> SUFFICES ASSUME SteadyInv, [Next]_vars PROVE SteadyConj'
  OBVIOUS
<1> USE DEF SteadyConj
<1>1. ASSUME NEW s \in StagedState, Stage(s),
             s.reconfig \/ (s.reconfig = st.reconfig /\ s.enabled = st.enabled),
             \/ s.dirty = st.dirty /\ s.buffer = st.buffer
             \/ s.dirty /\ s.buffer \in Buffers \ locked
      PROVE  SteadyConj'
  <2>1. st' = s /\ UNCHANGED <<active, output, lastCommitNoBuffer, isPageFlipPending,
                              front, back, locked, kms>>
    BY <1>1 DEF Stage, flags, loop, planes
  <2>2. OneFlip' /\ ScanoutLocked'
    BY <2>1 DEF SteadyInv, OneFlip, ScanoutLocked, Pending
  <2>3. BufferPlaces'
    BY <1>1, <2>1, ConstantsAssumption DEF SteadyInv, BufferPlaces
  <2>4. CommittedState'
    BY <1>1, <2>1, ConstantsAssumption DEF SteadyInv, CommittedState
  <2> QED BY <2>2, <2>3, <2>4
<1>2. ASSUME NEW e \in BOOLEAN, SetEnabled(e) PROVE SteadyConj'
  <2> DEFINE s == [st EXCEPT !.enabled = e, !.reconfig = TRUE]
  <2>1. s \in StagedState /\ s.reconfig /\ s.dirty = st.dirty /\ s.buffer = st.buffer
    BY DEF SteadyInv, TypeOK, StagedState
  <2> QED BY <1>1, <1>2, <2>1 DEF SetEnabled
<1>3. CASE SetReconfig
  <2> DEFINE s == [st EXCEPT !.reconfig = TRUE]
  <2>1. s \in StagedState /\ s.reconfig /\ s.dirty = st.dirty /\ s.buffer = st.buffer
    BY DEF SteadyInv, TypeOK, StagedState
  <2> QED BY <1>1, <1>3, <2>1 DEF SetReconfig
<1>4. ASSUME NEW b \in Buffers, SetBuffer(b) PROVE SteadyConj'
  <2> DEFINE s == [st EXCEPT !.buffer = b, !.dirty = TRUE]
  <2>1. /\ s \in StagedState /\ s.reconfig = st.reconfig /\ s.enabled = st.enabled
        /\ s.dirty /\ s.buffer = b
    BY DEF SteadyInv, TypeOK, StagedState, FB
  <2>2. b \notin locked /\ Stage(s)
    BY <1>4 DEF SetBuffer
  <2> QED BY <1>1, <2>1, <2>2
\* A refused commit and a test change nothing but the reconfig bit.
<1>5. ASSUME NEW m \in BOOLEAN, st' = [st EXCEPT !.reconfig = @ \/ m],
             UNCHANGED <<active, output, enabledState, lastCommitNoBuffer, loop, planes, handler, kms, owed>>
      PROVE  SteadyConj'
  <2>1. /\ st'.enabled = st.enabled /\ st'.dirty = st.dirty /\ st'.buffer = st.buffer
        /\ st.reconfig => st'.reconfig
    BY <1>5 DEF SteadyInv, TypeOK, StagedState
  <2>2. UNCHANGED <<isPageFlipPending, front, back, locked>>
    BY <1>5 DEF loop, planes
  <2> QED
    BY <1>5, <2>1, <2>2 DEF SteadyInv, OneFlip, ScanoutLocked, BufferPlaces,
       CommittedState, Pending
<1>6. ASSUME NEW tear \in BOOLEAN, NEW m \in BOOLEAN, CommitRefused(tear, m)
      PROVE  SteadyConj'
  BY <1>5, <1>6 DEF CommitRefused
<1>7. ASSUME NEW m \in BOOLEAN, Test(m) PROVE SteadyConj'
  BY <1>5, <1>7 DEF Test
<1>8. CASE \/ ScheduleFrame \/ FrameIdle \/ PresentReturns \/ FrameReturns
           \/ UNCHANGED vars
  <2>1. UNCHANGED <<active, output, st, lastCommitNoBuffer, isPageFlipPending,
                    front, back, locked, kms>>
    BY <1>8 DEF ScheduleFrame, FrameIdle, PresentReturns, FrameReturns, vars,
       flags, loop, planes
  <2> QED
    BY <2>1 DEF SteadyInv, OneFlip, ScanoutLocked, BufferPlaces, CommittedState, Pending
<1>9. CASE HandlePF
  <2>1. /\ kms.events > 0 /\ kms'.events = kms.events - 1
        /\ kms'.scanout = kms.scanout /\ kms'.queued = kms.queued
        /\ isPageFlipPending' = FALSE /\ UNCHANGED <<active, output, st, lastCommitNoBuffer>>
    BY <1>9 DEF HandlePF, SteadyInv, TypeOK, flags
  <2>2. front' = back /\ back' = back /\ locked' = locked \ {front}
    BY <1>9 DEF HandlePF, OnPresent, SteadyInv, CommittedState
  <2>3. kms.events = 1 /\ kms.queued = NoFB /\ isPageFlipPending
    BY <2>1 DEF SteadyInv, OneFlip, TypeOK, Pending
  <2>4. kms.scanout = back /\ (back # NoFB => front # back)
    BY <2>3 DEF SteadyInv, BufferPlaces
  <2>5. OneFlip'
    BY <2>1, <2>3 DEF OneFlip, Pending
  <2>6. ScanoutLocked' /\ BufferPlaces'
    BY <2>1, <2>2, <2>3, <2>4 DEF SteadyInv, ScanoutLocked, BufferPlaces
  <2>7. CommittedState'
    BY <2>1, <2>2 DEF SteadyInv, CommittedState
  <2> QED BY <2>5, <2>6, <2>7
<1>10. CASE VBlank
  <2>1. /\ kms.queued # NoFB
        /\ kms' = [scanout |-> kms.queued, queued |-> NoFB, events |-> kms.events + 1]
        /\ UNCHANGED <<active, output, st, lastCommitNoBuffer, isPageFlipPending,
                       front, back, locked>>
    BY <1>10 DEF VBlank, flags, loop, planes
  <2> QED
    BY <2>1 DEF SteadyInv, OneFlip, ScanoutLocked, BufferPlaces, CommittedState, Pending,
       TypeOK
<1>11. ~SessionOff /\ ~OtherMaster /\ ~SessionOn /\ ~Disconnect /\ ~Connect
  BY DEF Steady, SteadyInv, CommittedState, SessionOff, OtherMaster, SessionOn, Disconnect,
     Connect
<1> QED
  BY <1>2, <1>3, <1>4, <1>6, <1>7, <1>8, <1>9, <1>10, <1>11, NoRetry, AcceptedKeepsSteady
     DEF Next, Consumer, Loop, Environment

\* The initial state satisfies the steady invariant.
LEMMA InitSteady == Init => SteadyConj
BY DEF Init, NewState, SteadyConj, OneFlip, ScanoutLocked, BufferPlaces, CommittedState,
   Pending

\* Under the steady assumptions SteadyInv holds in every reachable state.
LEMMA SteadyInvariant == ASSUME Steady PROVE Spec => []SteadyInv
<1>1. Init => SteadyInv
  BY InitAnyInv, InitSteady DEF AnyInv, SteadyInv, SteadyConj
<1>2. TypeOK /\ SteadyConj => SteadyInv
  BY DEF SteadyInv, SteadyConj
<1>3. SteadyInv /\ [Next]_vars => SteadyConj'
  BY NextKeepsSteady
<1> QED BY <1>1, <1>2, <1>3, TypeCorrect, PTL DEF Spec

\* commitState's check on isPageFlipPending keeps at most one flip in flight,
\* for any number of buffers, whatever the consumer does and even if it calls
\* back from the present event.
THEOREM OneFlipAtATime == ASSUME Steady PROVE Spec => []OneFlip
<1>1. SteadyInv => OneFlip
  BY DEF SteadyInv
<1> QED BY <1>1, SteadyInvariant, PTL

\* The buffer on screen and the one queued for it stay locked: onPresent and
\* releaseFBReferences never hand the consumer a buffer the display reads.
THEOREM ScreenStaysLocked == ASSUME Steady PROVE Spec => []ScanoutLocked
<1>1. SteadyInv => ScanoutLocked
  BY DEF SteadyInv
<1> QED BY <1>1, SteadyInvariant, PTL
=============================================================================
