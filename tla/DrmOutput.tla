----------------------------- MODULE DrmOutput -----------------------------
(***************************************************************************)
(* One DRM connector that owns a CRTC, its CDRMOutput, and the kernel's    *)
(* KMS side of that CRTC: the frame loop of the DRM backend.               *)
(*                                                                         *)
(* The program is one thread.  The consumer (a compositor) runs either     *)
(* from the top of its event loop (handler = "none") or inside a signal    *)
(* that the backend is emitting; between an emit and the code after it the *)
(* consumer may call back into the output.  The kernel runs concurrently.  *)
(*                                                                         *)
(* Single GPU: the blit path of a secondary GPU and the cursor plane are   *)
(* not part of this module.  A mode is assumed to be set, so the checks in *)
(* commitState that refuse a commit without touching any state are         *)
(* stuttering steps.                                                       *)
(***************************************************************************)
EXTENDS Naturals

CONSTANTS
    Buffers,         \* buffers of the consumer
    NoFB,            \* a null framebuffer pointer
    MaxEvents,       \* flip events the kernel can hold for one DRM fd
    Refusals,        \* commits the driver may refuse: "plain", "modeset"
    Tearing,         \* the driver supports async flips and they are used
    Hotplug,         \* the monitor may be unplugged and plugged again
    VtSwitch,        \* the session may be switched away and back
    RequestInFrame,  \* a frame may be requested in a flip's frame event
                     \* that has not committed anything
    BusyPresent      \* the present event's listeners may commit

ASSUME ConstantsAssumption ==
    /\ NoFB \notin Buffers
    /\ MaxEvents \in Nat \ {0}
    /\ Refusals \subseteq {"plain", "modeset"}
    /\ {Tearing, Hotplug, VtSwitch, RequestInFrame, BusyPresent} \subseteq BOOLEAN

VARIABLES
    active,              \* session->active
    output,              \* connector->output exists (and status is connected)
    st,                  \* output->state: what the consumer has staged
    enabledState,        \* output->enabledState
    lastCommitNoBuffer,  \* output->lastCommitNoBuffer
    commitTainted,       \* connector->commitTainted
    isPageFlipPending,   \* connector->isPageFlipPending
    isFrameRunning,      \* connector->isFrameRunning
    frameEventScheduled, \* connector->frameEventScheduled
    idle,                \* frameIdle is in the backend's idle queue
    front, back, last,   \* crtc->primary's framebuffers
    locked,              \* buffers with lockedByBackend set
    handler,             \* the signal being emitted: none, present, frame, idle
    kms,                 \* the kernel: scanned out, queued flip, unread events
    owed                 \* history: a frame was asked for and not yet given

flags == <<enabledState, lastCommitNoBuffer, commitTainted>>
loop == <<isPageFlipPending, isFrameRunning, frameEventScheduled, idle>>
planes == <<front, back, last, locked>>
vars == <<active, output, st, flags, loop, planes, handler, kms, owed>>

FB == Buffers \cup {NoFB}

StagedState == [enabled : BOOLEAN, buffer : FB, dirty : BOOLEAN, reconfig : BOOLEAN]

\* A fresh COutputState.  "dirty" is the committed bit of the buffer, "reconfig"
\* any of the committed bits ENABLED, FORMAT, MODE, HDR and WCG.
NewState == [enabled |-> FALSE, buffer |-> NoFB, dirty |-> FALSE, reconfig |-> FALSE]

TypeOK ==
    /\ active \in BOOLEAN
    /\ output \in BOOLEAN
    /\ st \in StagedState
    /\ enabledState \in BOOLEAN
    /\ lastCommitNoBuffer \in BOOLEAN
    /\ commitTainted \in BOOLEAN
    /\ isPageFlipPending \in BOOLEAN
    /\ isFrameRunning \in BOOLEAN
    /\ frameEventScheduled \in BOOLEAN
    /\ idle \in BOOLEAN
    /\ front \in FB /\ back \in FB /\ last \in FB
    /\ locked \subseteq Buffers
    /\ handler \in {"none", "present", "frame", "idle"}
    /\ kms \in [scanout : FB, queued : FB, events : 0 .. MaxEvents]
    /\ owed \in BOOLEAN

-----------------------------------------------------------------------------
(* The kernel's atomic commit, as Atomic.cpp and Legacy.cpp use it.        *)

Pending == IF kms.queued = NoFB THEN 0 ELSE 1

\* EBUSY for a non-blocking commit over a queued flip; a commit that may not
\* modeset cannot switch the CRTC on or off; no async flip with a modeset; an
\* event needs an enabled CRTC and room on the fd.
KernelAccepts(d) ==
    /\ d.blocking \/ kms.queued = NoFB
    /\ d.modeset \/ ((d.fb = NoFB) <=> (kms.scanout = NoFB /\ kms.queued = NoFB))
    /\ ~(d.async /\ d.modeset)
    /\ d.event => /\ d.fb # NoFB
                  /\ kms.events + Pending < MaxEvents

\* The driver may refuse for reasons of its own as well.
MayRefuse(d) ==
    \/ ~KernelAccepts(d)
    \/ (IF d.modeset THEN "modeset" ELSE "plain") \in Refusals

\* A blocking commit returns after the flip before it and its own completed,
\* an async flip replaces the framebuffer at once, any other is queued.
KernelApplies(d) ==
    IF d.blocking \/ d.async \/ d.fb = NoFB
      THEN kms' = [scanout |-> d.fb, queued |-> NoFB,
                   events  |-> kms.events + Pending + (IF d.event THEN 1 ELSE 0)]
      ELSE kms' = [kms EXCEPT !.queued = d.fb]

VBlank ==
    /\ kms.queued # NoFB
    /\ kms' = [scanout |-> kms.queued, queued |-> NoFB, events |-> kms.events + 1]
    /\ UNCHANGED <<active, output, st, flags, loop, planes, handler, owed>>

-----------------------------------------------------------------------------
(* Staging: COutputState's setters.                                        *)

\* The consumer runs, in a place where it may touch the output's state.
ConsumerFree == output /\ (handler = "present" => BusyPresent)

Stage(s) ==
    /\ ConsumerFree
    /\ st' = s
    /\ UNCHANGED <<active, output, flags, loop, planes, handler, kms, owed>>

SetEnabled(e) == Stage([st EXCEPT !.enabled = e, !.reconfig = TRUE])

\* setMode, setCustomMode, setFormat, setHDRMetadata and setWideColorGamut.
SetReconfig == Stage([st EXCEPT !.reconfig = TRUE])

\* The consumer renders only into buffers that the backend does not hold.
SetBuffer(b) == b \notin locked /\ Stage([st EXCEPT !.buffer = b, !.dirty = TRUE])

-----------------------------------------------------------------------------
(* CDRMOutput::commitState and the connector's commit.                     *)

\* SDRMConnectorCommitData.  tear: presentationMode is IMMEDIATE; mismatch:
\* the buffer's format is not the state's.
CommitData(tear, mismatch) ==
    [fb       |-> IF st.enabled THEN st.buffer ELSE NoFB,
     blocking |-> st.reconfig \/ ~st.dirty \/ mismatch,
     modeset  |-> st.reconfig \/ lastCommitNoBuffer \/ mismatch,
     event    |-> st.enabled /\ st.dirty,
     async    |-> tear /\ st.dirty /\ ~mismatch]

\* The second attempt: a blocking modeset that always asks for a flip event.
RetryData(d) == [d EXCEPT !.modeset = TRUE, !.blocking = TRUE, !.event = TRUE, !.async = FALSE]

\* The guard of a real commit with the check on the pending flip dropped.
CommitAllowed_NoPendingCheck == ConsumerFree /\ active

CommitAllowed ==
    /\ ConsumerFree
    /\ active
    /\ ~(st.enabled /\ (st.reconfig \/ st.dirty) /\ isPageFlipPending)

Inputs(tear, mismatch) ==
    /\ tear => Tearing
    /\ mismatch => st.enabled /\ st.buffer # NoFB

\* A bug: a null framebuffer is locked too.
ApplyCommit_NoNullCheck(d) ==
    IF ~st.enabled
      THEN /\ front' = NoFB /\ back' = NoFB /\ last' = NoFB
           /\ locked' = locked \ {front, last}
      ELSE /\ back' = d.fb
           /\ front' = IF d.async THEN d.fb ELSE front
           /\ last' = IF d.async THEN front ELSE last
           /\ locked' = (locked \cup {d.fb}) \ (IF d.async THEN {front} ELSE {})

\* What a successful commit does to the planes: applyCommit, and for a
\* tearing commit the onPresent that follows it.  A disabling commit has no
\* framebuffer and releases every reference the plane holds.
ApplyCommit(d) ==
    IF ~st.enabled
      THEN /\ front' = NoFB /\ back' = NoFB /\ last' = NoFB
           /\ locked' = locked \ {front, last}
      ELSE /\ back' = d.fb
           /\ front' = IF d.async THEN d.fb ELSE front
           /\ last' = IF d.async THEN front ELSE last
           /\ locked' = (locked \cup ({d.fb} \ {NoFB})) \ (IF d.async THEN {front} ELSE {})

\* impl->commit, applyCommit and the tail of commitState on success.
Applied(d) ==
    /\ KernelApplies(d)
    /\ isPageFlipPending' = (isPageFlipPending \/ (d.fb # NoFB /\ st.enabled /\ d.event))
    /\ ApplyCommit(d)
    /\ enabledState' = st.enabled
    /\ lastCommitNoBuffer' = (d.fb = NoFB)
    /\ commitTainted' = FALSE
    /\ st' = [st EXCEPT !.dirty = FALSE, !.reconfig = FALSE]
    /\ owed' = (owed /\ st.enabled)
    /\ UNCHANGED <<active, output, isFrameRunning, frameEventScheduled, idle, handler>>

CommitAccepted(tear, mismatch) ==
    /\ CommitAllowed
    /\ Inputs(tear, mismatch)
    /\ KernelAccepts(CommitData(tear, mismatch))
    /\ Applied(CommitData(tear, mismatch))

CommitRetried(tear, mismatch) ==
    LET d == CommitData(tear, mismatch) IN
    /\ CommitAllowed
    /\ Inputs(tear, mismatch)
    /\ MayRefuse(d)
    /\ ~d.modeset /\ ~commitTainted
    /\ KernelAccepts(RetryData(d))
    /\ Applied(RetryData(d))

\* Both attempts fail, or the first does and there is no second.  What was
\* staged stays staged; a format mismatch has been written into the state.
CommitRefused(tear, mismatch) ==
    LET d == CommitData(tear, mismatch)
        retry == ~d.modeset /\ ~commitTainted
    IN
    /\ CommitAllowed
    /\ Inputs(tear, mismatch)
    /\ MayRefuse(d)
    /\ retry => MayRefuse(RetryData(d))
    /\ commitTainted' = (commitTainted \/ retry)
    /\ st' = [st EXCEPT !.reconfig = @ \/ mismatch]
    /\ UNCHANGED <<active, output, enabledState, lastCommitNoBuffer, loop, planes, handler, kms, owed>>

\* CDRMOutput::test(): nothing is applied, but two refusals taint the
\* connector.  A test blocks and asks for no event.
Test(mismatch) ==
    LET d == [CommitData(FALSE, mismatch) EXCEPT !.event = FALSE, !.blocking = TRUE]
        r == [d EXCEPT !.modeset = TRUE]
    IN
    /\ ConsumerFree /\ active
    /\ Inputs(FALSE, mismatch)
    /\ st' = [st EXCEPT !.reconfig = @ \/ mismatch]
    /\ \/ /\ KernelAccepts(d) \/ d.modeset \/ commitTainted \/ KernelAccepts(r)
          /\ UNCHANGED commitTainted
       \/ /\ MayRefuse(d) /\ MayRefuse(r)
          /\ ~d.modeset /\ ~commitTainted
          /\ commitTainted' = TRUE
    /\ UNCHANGED <<active, output, enabledState, lastCommitNoBuffer, loop, planes, handler, kms, owed>>

-----------------------------------------------------------------------------
(* Frame scheduling and the page flip handler.                             *)

\* scheduleFrame's effect on the loop.  A bug: the flag is raised and
\* frameIdle never queued.
Schedule_NoIdle ==
    LET busy == isPageFlipPending \/ isFrameRunning \/ frameEventScheduled \/ ~enabledState IN
    /\ frameEventScheduled' = (frameEventScheduled \/ ~busy)
    /\ UNCHANGED idle

Schedule ==
    LET busy == isPageFlipPending \/ isFrameRunning \/ frameEventScheduled \/ ~enabledState IN
    /\ frameEventScheduled' = (frameEventScheduled \/ ~busy)
    /\ idle' = (idle \/ ~busy)

ScheduleFrame ==
    /\ output
    /\ handler = "frame" => isPageFlipPending \/ RequestInFrame
    /\ Schedule
    /\ owed' = (owed \/ (enabledState /\ active))
    /\ UNCHANGED <<active, output, st, flags, isPageFlipPending, isFrameRunning, planes, handler, kms>>

\* frameIdle, run by CBackend::dispatchIdle.  A bug: the flag stays raised.
FrameIdle_KeepsFlag ==
    /\ handler = "none" /\ idle
    /\ idle' = FALSE
    /\ IF isPageFlipPending \/ isFrameRunning
         THEN UNCHANGED <<handler, owed>>
         ELSE handler' = "idle" /\ owed' = FALSE
    /\ UNCHANGED <<active, output, st, flags, isPageFlipPending, isFrameRunning, frameEventScheduled, planes, kms>>

FrameIdle ==
    /\ handler = "none" /\ idle
    /\ idle' = FALSE
    /\ frameEventScheduled' = FALSE
    /\ IF isPageFlipPending \/ isFrameRunning
         THEN UNCHANGED <<handler, owed>>
         ELSE handler' = "idle" /\ owed' = FALSE
    /\ UNCHANGED <<active, output, st, flags, isPageFlipPending, isFrameRunning, planes, kms>>

\* A bug: the buffer that comes on screen is released, not the one before it.
OnPresent_ReleasesNew ==
    /\ last' = front
    /\ front' = back
    /\ locked' = locked \ {back}
    /\ UNCHANGED back

OnPresent ==
    /\ last' = front
    /\ front' = back
    /\ locked' = locked \ {front}
    /\ UNCHANGED back

\* The flip event is read; a connector without an output ignores it.
HandlePF_KeepsPending ==
    /\ handler = "none" /\ kms.events > 0
    /\ kms' = [kms EXCEPT !.events = @ - 1]
    /\ IF output
         THEN /\ isFrameRunning' = (isFrameRunning \/ (active /\ enabledState))
              /\ OnPresent
              /\ handler' = "present"
         ELSE UNCHANGED <<isFrameRunning, planes, handler>>
    /\ UNCHANGED <<active, output, st, flags, isPageFlipPending, frameEventScheduled, idle, owed>>

HandlePF ==
    /\ handler = "none" /\ kms.events > 0
    /\ kms' = [kms EXCEPT !.events = @ - 1]
    /\ isPageFlipPending' = FALSE
    /\ IF output
         THEN /\ isFrameRunning' = (isFrameRunning \/ (active /\ enabledState))
              /\ OnPresent
              /\ handler' = "present"
         ELSE UNCHANGED <<isFrameRunning, planes, handler>>
    /\ UNCHANGED <<active, output, st, flags, frameEventScheduled, idle, owed>>

\* The present event's listeners are done: handlePF emits the frame event, or not.
PresentReturns ==
    /\ handler = "present"
    /\ IF active /\ enabledState
         THEN handler' = "frame" /\ owed' = FALSE
         ELSE handler' = "none" /\ UNCHANGED owed
    /\ UNCHANGED <<active, output, st, flags, loop, planes, kms>>

\* A bug: isFrameRunning is lowered only if the frame's listeners committed.
FrameReturns_OnlyAfterCommit ==
    /\ handler \in {"frame", "idle"}
    /\ handler' = "none"
    /\ isFrameRunning' = (isFrameRunning /\ ~(handler = "frame" /\ isPageFlipPending))
    /\ UNCHANGED <<active, output, st, flags, isPageFlipPending, frameEventScheduled, idle, planes, kms, owed>>

FrameReturns ==
    /\ handler \in {"frame", "idle"}
    /\ handler' = "none"
    /\ isFrameRunning' = (isFrameRunning /\ handler # "frame")
    /\ UNCHANGED <<active, output, st, flags, isPageFlipPending, frameEventScheduled, idle, planes, kms, owed>>

-----------------------------------------------------------------------------
(* The session and the monitor.                                            *)

\* libseat takes the session away.  A frame asked for is no longer promised:
\* a flip that completes meanwhile emits no frame event.
SessionOff ==
    /\ VtSwitch /\ active /\ handler = "none"
    /\ active' = FALSE
    /\ owed' = FALSE
    /\ UNCHANGED <<output, st, flags, loop, planes, handler, kms>>

\* Another DRM master sets the CRTC up for itself.
OtherMaster ==
    /\ ~active /\ kms.queued = NoFB
    /\ kms' = [kms EXCEPT !.scanout = NoFB]
    /\ UNCHANGED <<active, output, st, flags, loop, planes, handler, owed>>

\* restoreAfterVT: a blocking modeset straight to the kernel, which applies
\* nothing to the planes and asks for no event; none if the state has no mode.
\* The recheckOutputs it begins with may find the monitor unplugged or plugged
\* in: a Disconnect before this step, or a Connect after it.
SessionOn ==
    LET d == [fb |-> IF st.enabled THEN st.buffer ELSE NoFB,
              blocking |-> TRUE, modeset |-> TRUE, event |-> FALSE, async |-> FALSE]
    IN
    /\ ~active /\ handler = "none"
    /\ active' = TRUE
    /\ \/ output /\ KernelApplies(d)
       \/ (output => "modeset" \in Refusals \/ st = NewState) /\ UNCHANGED kms
    /\ UNCHANGED <<output, st, flags, loop, planes, handler, owed>>

\* SDRMConnector::disconnect with the destructor of the output.  A bug: the
\* destructor leaves the flag of the cancelled idle event raised.
Disconnect_KeepsScheduled ==
    /\ Hotplug /\ output /\ handler = "none"
    /\ output' = FALSE
    /\ front' = NoFB /\ back' = NoFB /\ last' = NoFB
    /\ locked' = locked \ {front, back, last}
    /\ idle' = FALSE
    /\ isPageFlipPending' = FALSE
    /\ owed' = FALSE
    /\ UNCHANGED <<active, st, flags, isFrameRunning, frameEventScheduled, handler, kms>>

Disconnect ==
    /\ Hotplug /\ output /\ handler = "none"
    /\ output' = FALSE
    /\ front' = NoFB /\ back' = NoFB /\ last' = NoFB
    /\ locked' = locked \ {front, back, last}
    /\ idle' = FALSE
    /\ frameEventScheduled' = FALSE
    /\ isPageFlipPending' = FALSE
    /\ owed' = FALSE
    /\ UNCHANGED <<active, st, flags, isFrameRunning, handler, kms>>

\* SDRMConnector::connect: a new output, announced and scheduled for a frame.
Connect ==
    /\ ~output /\ handler = "none"
    /\ output' = TRUE
    /\ st' = NewState
    /\ enabledState' = TRUE
    /\ lastCommitNoBuffer' = TRUE
    /\ frameEventScheduled' = ~(isPageFlipPending \/ isFrameRunning)
    /\ idle' = ~(isPageFlipPending \/ isFrameRunning)
    /\ owed' = active
    /\ UNCHANGED <<active, commitTainted, isPageFlipPending, isFrameRunning, planes, handler, kms>>

-----------------------------------------------------------------------------

\* An output found before the backend was ready is announced by onReady and
\* gets no frame event of its own; the CRTC shows nothing of ours.
Init ==
    /\ active = TRUE
    /\ output = TRUE
    /\ st = NewState
    /\ enabledState = TRUE
    /\ lastCommitNoBuffer = TRUE
    /\ commitTainted = FALSE
    /\ isPageFlipPending = FALSE
    /\ isFrameRunning = FALSE
    /\ frameEventScheduled = FALSE
    /\ idle = FALSE
    /\ front = NoFB /\ back = NoFB /\ last = NoFB
    /\ locked = {}
    /\ handler = "none"
    /\ kms = [scanout |-> NoFB, queued |-> NoFB, events |-> 0]
    /\ owed = FALSE

Consumer ==
    \/ \E e \in BOOLEAN : SetEnabled(e)
    \/ SetReconfig
    \/ \E b \in Buffers : SetBuffer(b)
    \/ \E tear, mismatch \in BOOLEAN :
         \/ CommitAccepted(tear, mismatch)
         \/ CommitRetried(tear, mismatch)
         \/ CommitRefused(tear, mismatch)
    \/ \E mismatch \in BOOLEAN : Test(mismatch)
    \/ ScheduleFrame

Loop == FrameIdle \/ HandlePF \/ PresentReturns \/ FrameReturns

Environment == VBlank \/ SessionOff \/ OtherMaster \/ SessionOn \/ Disconnect \/ Connect

Next == Consumer \/ Loop \/ Environment

Spec == Init /\ [][Next]_vars

\* The event loop keeps dispatching readable fds, listeners return and the
\* display keeps refreshing; nothing is asked of the consumer or the user.
Fairness ==
    /\ WF_vars(VBlank)
    /\ WF_vars(FrameIdle)
    /\ WF_vars(HandlePF)
    /\ WF_vars(PresentReturns)
    /\ WF_vars(FrameReturns)

FairSpec == Spec /\ Fairness

-----------------------------------------------------------------------------

\* isPageFlipPending, which refuses commits and frames, is raised only while
\* the kernel still owes this fd a flip event that will lower it.
FlipEventOwed ==
    isPageFlipPending => kms.events > 0 \/ kms.queued # NoFB

\* frameEventScheduled, which stops scheduleFrame from queueing, is raised
\* exactly while frameIdle is in the idle queue, whatever outputs come and go.
ScheduledIsQueued == frameEventScheduled <=> idle

\* At most one flip is in flight, and the flag says so: a commit that would
\* queue a second one is refused (commitState's check on isPageFlipPending).
OneFlip ==
    /\ kms.events + Pending <= 1
    /\ isPageFlipPending <=> kms.events + Pending = 1

\* A buffer that the display reads, or is about to, is locked by the backend:
\* backendRelease never invites the consumer to draw into it.
ScanoutLocked ==
    /\ kms.scanout # NoFB => kms.scanout \in locked
    /\ kms.queued # NoFB => kms.queued \in locked

\* A framebuffer whose buffer was handed back is gone from KMS: what the
\* comment on tearing commits says of the rotation they do ("the last FB should
\* already be gone from KMS because it's been immediately replaced").
ReleasedIsGone ==
    last # NoFB /\ last \notin locked => last \notin {kms.scanout, kms.queued}

\* isFrameRunning never outlives the handler that raised it: handlePF lowers
\* it on every path back to the event loop.
FrameRunningEnds == handler = "none" => ~isFrameRunning

\* A pending flip is always cleared: commits are not refused for ever.
FlipServed == isPageFlipPending ~> ~isPageFlipPending

\* A frame asked for on an enabled output of an active session is given, or
\* the output is disabled or removed, or the session is taken away.
FrameServed == owed ~> ~owed
=============================================================================
