------------------------------ MODULE FrameLoop ------------------------------
(***************************************************************************)
(* Outputs on top of the idle queue.  A headless output's scheduleFrame    *)
(* queues its frame callback if the frame is due, and sets a timer for it  *)
(* otherwise; the timers share one timerfd.  A DRM output's frameIdle uses *)
(* the queue only, and is taken back when the output is destroyed.  The    *)
(* user's code runs inside every frame event, where it may schedule frames *)
(* and destroy outputs.                                                    *)
(***************************************************************************)
EXTENDS IdleLoop, FiniteSets

CONSTANTS
    DrmOutputs,     \* the callbacks that belong to DRM outputs
    DestroyQueued   \* FALSE: an output is not destroyed while its callback is where
                    \* the destructor does not take it back from
ASSUME FrameLoopAssumption ==
    IsFiniteSet(Callbacks) /\ DrmOutputs \subseteq Callbacks /\ DestroyQueued \in BOOLEAN

VARIABLES
    alive,      \* the outputs that exist
    scheduled,  \* frameScheduled (DRM: frameEventScheduled)
    timer,      \* the timer of each output: "none", "waiting", due just "now", or "past"
    timerfd,    \* "far" (minutes ahead), "set" for the soonest timer, or "readable"
    toFire,     \* dispatchTimers: the timers it has taken out and not called yet
    firing,     \* dispatchTimers: "off", "between" timers, or "inside" one
    frames      \* which frame each output is on

timerVars == <<timer, timerfd, toFire, firing>>
loopVars == <<idleVars, timerVars, alive, scheduled, frames>>

FrameLoopTypeOK ==
    /\ IdleTypeOK
    /\ alive \subseteq Callbacks
    /\ scheduled \in [Callbacks -> BOOLEAN]
    /\ timer \in [Callbacks -> {"none", "waiting", "now", "past"}]
    /\ timerfd \in {"far", "set", "readable"}
    /\ toFire \in Seq(Callbacks)
    /\ firing \in {"off", "between", "inside"}
    /\ frames \in [Callbacks -> {0, 1}]

-----------------------------------------------------------------------------

\* User code runs at the top of the event loop or in a frame event.
UserRuns ==
    \/ dispatch = "off" /\ firing = "off"
    \/ dispatch = "inside" \/ firing = "inside"

\* updateTimerFD with the timers t: an absolute time, so one in the past
\* makes the fd readable at once.
UpdateTimerFD(t) ==
    timerfd' = IF \E c \in Callbacks : t[c] \in {"now", "past"} THEN "readable"
               ELSE IF \E c \in Callbacks : t[c] = "waiting" THEN "set" ELSE "far"

\* addTimer: the fd is set after the timer is in the list.
AddTimer(c) ==
    /\ timer' = [timer EXCEPT ![c] = "waiting"]
    /\ UpdateTimerFD(timer')

\* scheduleFrame for a frame that is due, and of a DRM output that is not
\* waiting for a flip: through the idle queue, ...
ScheduleNow(c) ==
    /\ UserRuns /\ c \in alive /\ ~scheduled[c]
    /\ scheduled' = [scheduled EXCEPT ![c] = TRUE]
    /\ AddIdleEvent(c)
    /\ UNCHANGED <<timerVars, alive, frames>>

\* ... and for one that is not: through a timer.
ScheduleLater(c) ==
    /\ UserRuns /\ c \in alive \ DrmOutputs /\ ~scheduled[c]
    /\ scheduled' = [scheduled EXCEPT ![c] = TRUE]
    /\ AddTimer(c)
    /\ UNCHANGED <<idleVars, toFire, firing, alive, frames>>

\* createOutput.  The name stands for another output only when nothing is
\* left of the old one.
CreateOutput(c) ==
    /\ UserRuns /\ c \notin alive
    /\ ~Contains(pending \o batch \o toFire, c) /\ timer[c] = "none"
    /\ alive' = alive \cup {c}
    /\ scheduled' = [scheduled EXCEPT ![c] = FALSE]
    /\ UNCHANGED <<idleVars, timerVars, frames>>

\* Destruction of a headless output leaves the idle queue and the timers as
\* they are (a timer's callback holds a weak pointer, the queue does not), ...
DestroyHeadless(c) ==
    /\ UserRuns /\ c \in alive \ DrmOutputs
    /\ DestroyQueued \/ ~Contains(pending \o batch, c)
    /\ alive' = alive \ {c}
    /\ UNCHANGED <<idleVars, timerVars, scheduled, frames>>

\* ... and that of a DRM output removes its callback from the queue.
DestroyDrm(c) ==
    /\ UserRuns /\ c \in alive \cap DrmOutputs
    /\ DestroyQueued \/ ~Contains(batch, c)
    /\ alive' = alive \ {c}
    /\ RemoveIdleEvent(c)
    /\ UNCHANGED <<timerVars, scheduled, frames>>

\* framecb: lower the flag and emit the frame event.  A bug: the flag is
\* lowered after the event, so that a request made inside is dropped.
FrameCb_KeepsFlag(c) ==
    /\ UNCHANGED scheduled
    /\ frames' = [frames EXCEPT ![c] = 1 - @]

FrameCb(c) ==
    /\ scheduled' = [scheduled EXCEPT ![c] = FALSE]
    /\ frames' = [frames EXCEPT ![c] = 1 - @]

\* The idle queue calls framecb, of a destroyed output too.
IdleFrame ==
    /\ CallNext
    /\ FrameCb(Head(batch))
    /\ UNCHANGED <<timerVars, alive>>

IdleStep ==
    /\ firing = "off"
    /\ DispatchIdle \/ CallReturns \/ DispatchEnds \/ Expire
    /\ UNCHANGED <<timerVars, alive, scheduled, frames>>

\* Time passes: the soonest timer is due, which the fd was set for, and then
\* past.
TimerDue(c) ==
    /\ timer[c] = "waiting"
    /\ timer' = [timer EXCEPT ![c] = "now"]
    /\ timerfd' = IF timerfd = "set" THEN "readable" ELSE timerfd
    /\ UNCHANGED <<idleVars, alive, scheduled, toFire, firing, frames>>

TimerPasses(c) ==
    /\ timer[c] = "now"
    /\ timer' = [timer EXCEPT ![c] = "past"]
    /\ UNCHANGED <<idleVars, alive, scheduled, timerfd, toFire, firing, frames>>

\* dispatchTimers: read the fd, take out the timers that have expired (one
\* that is due this very moment has not), ...
DispatchTimers ==
    /\ timerfd = "readable" /\ firing = "off" /\ dispatch = "off"
    /\ firing' = "between"
    /\ timerfd' = "far"
    /\ LET past == {c \in Callbacks : timer[c] = "past"} IN
       /\ toFire' \in SetToSeqs(past)
       /\ timer' = [c \in Callbacks |-> IF c \in past THEN "none" ELSE timer[c]]
    /\ UNCHANGED <<idleVars, alive, scheduled, frames>>

\* ... call each one: framecb if its output exists, ...
FireNext ==
    /\ firing = "between" /\ toFire # <<>>
    /\ toFire' = Tail(toFire)
    /\ \/ /\ Head(toFire) \in alive
          /\ FrameCb(Head(toFire))
          /\ firing' = "inside"
       \/ /\ Head(toFire) \notin alive
          /\ UNCHANGED <<scheduled, frames, firing>>
    /\ UNCHANGED <<idleVars, alive, timer, timerfd>>

FireReturns ==
    /\ firing = "inside"
    /\ firing' = "between"
    /\ UNCHANGED <<idleVars, alive, scheduled, timer, timerfd, toFire, frames>>

\* ... and set the fd again.
FiringEnds ==
    /\ firing = "between" /\ toFire = <<>>
    /\ firing' = "off"
    /\ UpdateTimerFD(timer)
    /\ UNCHANGED <<idleVars, alive, scheduled, timer, toFire, frames>>

-----------------------------------------------------------------------------

FrameLoopInit ==
    /\ IdleInit
    /\ alive = Callbacks
    /\ scheduled = [c \in Callbacks |-> FALSE]
    /\ timer = [c \in Callbacks |-> "none"]
    /\ timerfd = "far"
    /\ toFire = <<>>
    /\ firing = "off"
    /\ frames = [c \in Callbacks |-> 0]

FrameLoopNext ==
    \/ \E c \in Callbacks :
        \/ ScheduleNow(c) \/ ScheduleLater(c) \/ CreateOutput(c)
        \/ DestroyHeadless(c) \/ DestroyDrm(c)
        \/ TimerDue(c) \/ TimerPasses(c)
    \/ IdleFrame \/ IdleStep
    \/ DispatchTimers \/ FireNext \/ FireReturns \/ FiringEnds

\* Time passes, the event loop serves both fds in turn, and callbacks return.
\* A read of the timer fd may be overtaken by a dispatch of the idle queue,
\* and the other way round, but not for ever.
FrameLoopFairness ==
    /\ \A c \in Callbacks : WF_loopVars(TimerDue(c)) /\ WF_loopVars(TimerPasses(c))
    /\ SF_loopVars(DispatchTimers)
    /\ SF_loopVars(DispatchIdle /\ IdleStep)
    /\ WF_loopVars(IdleFrame) /\ WF_loopVars(CallReturns /\ IdleStep) /\ WF_loopVars(DispatchEnds /\ IdleStep)
    /\ WF_loopVars(FireNext) /\ WF_loopVars(FireReturns) /\ WF_loopVars(FiringEnds)

FrameLoopSpec == FrameLoopInit /\ [][FrameLoopNext]_loopVars /\ FrameLoopFairness

-----------------------------------------------------------------------------

Clock == INSTANCE FrameClock WITH
    Outputs <- Callbacks,
    open <- alive, asked <- {c \in alive : scheduled[c]}, frame <- frames

\* The outputs implement the promise of scheduleFrame, through the
\* idle queue and through timers, and whatever the user does inside the frame events:
\* one frame for every request, none unasked, none of a destroyed output, and
\* each request is answered.
IsFrameClock == Clock!ClockSpec

\* What removeIdleEvent promises ("remove an idle event from the queue") and
\* ~CDRMOutput relies on: the callback of a destroyed output is not called.
RemovedNotCalled ==
    dispatch = "between" =>
        \A i \in 1 .. Len(batch) : batch[i] \in DrmOutputs => batch[i] \in alive
=============================================================================
