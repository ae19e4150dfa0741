---------------------------- MODULE AnlandOutput ----------------------------
(***************************************************************************)
(* The frame loop of CAnlandOutput on top of its buffers: frames that the  *)
(* compositor asks for, commits that refresh the consumer's screen, the    *)
(* answers that come back, and a link that falls back and returns.         *)
(*                                                                         *)
(* Everything runs on one thread, but every event calls the compositor,    *)
(* which may call the output again from there.  calls is the stack of what *)
(* is running: its head is at work, the rest waits for it.                 *)
(***************************************************************************)
EXTENDS AnlandBuffers, Sequences, SequencesExt

CONSTANTS
    MaxCalls,           \* bound: calls the compositor makes in one turn of the event loop
    MaxRefresh,         \* refreshes that the fence socket holds
    MaxIdle,            \* bound: copies of frameIdle that are told apart
    SchedulesIn         \* events whose listeners ask for a frame

ASSUME LoopAssumption ==
    /\ MaxCalls \in Nat \ {0}
    /\ MaxRefresh \in Nat \ {0}
    /\ MaxIdle \in Nat \ {0}
    /\ SchedulesIn \subseteq {"frame", "present", "committed"}

\* What may be on the stack: calls still to be made (schedule, emit),
\* listeners at work (frame, present, committed), and what is left of
\* scheduleFrame and commit after their events (requeue, commitEvent, unlock).
\* A blocked call never returns.
Calls == {"schedule", "emit", "frame", "present", "committed",
          "requeue", "commitEvent", "unlock", "blocked"}

VARIABLES
    calls,           \* the stack
    made,            \* calls the compositor made since the stack was empty
    outputReady,     \* m_outputReady
    shouldTrigger,   \* m_shouldTriggerRefresh
    framePending,    \* m_framePending
    frameScheduled,  \* m_frameScheduled
    committing,      \* m_commitInProgress
    slotLocked,      \* the mutex of the selected slot
    idle,            \* copies of frameIdle in the idle queue
    ime,             \* the callback of deferFrameForIME is in the idle queue
    refresh,         \* refreshes on their way to the consumer
    bufferReady      \* the eventfd is signalled

frames == <<shouldTrigger, framePending, frameScheduled>>
locks == <<committing, slotLocked>>
queues == <<idle, ime>>
wire == <<refresh, bufferReady>>
loop == <<calls, made, outputReady, frames, locks, queues, wire>>
allVars == <<vars, loop>>

LoopTypeOK ==
    /\ TypeOK
    /\ calls \in Seq(Calls)
    /\ made \in 0 .. MaxCalls
    /\ {outputReady, shouldTrigger, framePending, frameScheduled,
        committing, slotLocked, ime, bufferReady} \subseteq BOOLEAN
    /\ idle \in 0 .. MaxIdle
    /\ refresh \in 0 .. MaxRefresh

Running == calls # <<>>
Top(c) == Running /\ Head(calls) = c

\* The compositor's code runs in the event loop and in every listener.
Listening == {"frame", "present", "committed"}
CompositorRuns == ~down /\ (Running => Head(calls) \in Listening)
Room == made < MaxCalls /\ made' = made + 1

\* What is at work ends.
Pop ==
    /\ calls' = Tail(calls)
    /\ made' = IF Len(calls) = 1 THEN 0 ELSE made

-----------------------------------------------------------------------------
(* scheduleFrame.                                                          *)

\* Before the callback of an earlier request ran, the call does nothing.
AlreadyScheduled == ~inFallback /\ outputReady /\ frameScheduled

\* What the call does to the output, with the rest of the stack below it.
\* In fallback it is only a frame event.
ScheduleFrame(rest) ==
    /\ ~AlreadyScheduled
    /\ \/ /\ inFallback \/ ~outputReady
          /\ calls' = <<"frame">> \o rest
          /\ UNCHANGED <<frameScheduled, shouldTrigger>>
       \/ /\ ~inFallback /\ outputReady
          /\ frameScheduled' = TRUE
          /\ IF imported /\ slotLocked
             THEN calls' = <<"blocked">> \o rest /\ UNCHANGED shouldTrigger
             ELSE calls' = <<"frame", "requeue">> \o rest /\ shouldTrigger' = TRUE
    /\ UNCHANGED <<vars, outputReady, framePending, locks, queues, wire>>

\* The compositor asks for a frame.
CallSchedule ==
    /\ CompositorRuns /\ Room
    /\ Running => Head(calls) \in SchedulesIn
    /\ ScheduleFrame(calls)

\* A call that the link or the idle queue made.
RunSchedule ==
    /\ Top("schedule")
    /\ \/ ScheduleFrame(Tail(calls)) /\ UNCHANGED made
       \/ AlreadyScheduled /\ Pop /\ UNCHANGED <<vars, outputReady, frames, locks, queues, wire>>

\* A frame event that the link emits.
RunEmit ==
    /\ Top("emit")
    /\ calls' = <<"frame">> \o Tail(calls)
    /\ UNCHANGED <<made, vars, outputReady, frames, locks, queues, wire>>

\* The end of scheduleFrame: frameIdle is queued, once more if onBufferReady
\* lowered the flag before it ran.
Requeue ==
    /\ Top("requeue")
    /\ Pop
    /\ idle' = IF idle = MaxIdle THEN idle ELSE idle + 1
    /\ UNCHANGED <<vars, outputReady, frames, locks, ime, wire>>

\* The idle queue calls frameIdle.
FrameIdle ==
    /\ ~Running /\ ~down
    /\ idle > 0
    /\ idle' = idle - 1
    /\ frameScheduled' = FALSE
    /\ IF inFallback \/ ~outputReady
       THEN UNCHANGED <<calls, shouldTrigger>>
       ELSE calls' = <<"frame">> /\ shouldTrigger' = TRUE
    /\ UNCHANGED <<made, vars, outputReady, framePending, locks, ime, wire>>

\* updateTextInput defers a frame, and the idle queue asks for it.
DeferFrameForIME ==
    /\ ~Running /\ ~down /\ ~fallback
    /\ ~ime
    /\ ime' = TRUE
    /\ UNCHANGED <<made, vars, calls, outputReady, frames, locks, idle, wire>>

ImeIdle ==
    /\ ~Running /\ ~down
    /\ ime
    /\ ime' = FALSE
    /\ calls' = IF fallback THEN <<>> ELSE <<"schedule">>
    /\ UNCHANGED <<made, vars, outputReady, frames, locks, idle, wire>>

\* A listener returns.
Return ==
    /\ Running /\ Head(calls) \in Listening
    /\ Pop
    /\ UNCHANGED <<vars, outputReady, frames, locks, queues, wire>>

-----------------------------------------------------------------------------
(* commit.                                                                 *)

\* A commit inside a commit returns at once and changes nothing.

\* In fallback, and when there are no buffers to import, a commit completes
\* without the consumer.
CommitImmediate ==
    /\ CompositorRuns /\ Room /\ ~committing
    /\ inFallback \/ ~outputReady \/ (~imported /\ fallback)
    /\ committing' = TRUE
    /\ framePending' = FALSE
    /\ calls' = <<"present", "commitEvent", "unlock">> \o calls
    /\ UNCHANGED <<vars, outputReady, shouldTrigger, frameScheduled, slotLocked, queues, wire>>

\* trigger_refresh: the message is lost if the socket is full, and nobody
\* looks.
Triggered == IF refresh = MaxRefresh THEN refresh ELSE refresh + 1

\* A commit of the slot that the consumer selected.  Its mutex is held until
\* the listeners of the events returned.  Without a request for a frame the
\* consumer is not told and the frame counts as presented.  A bug: the frame
\* is marked as pending in both cases.
CommitSlot_AlwaysPending(i) ==
    /\ CompositorRuns /\ Room /\ ~committing
    /\ outputReady
    /\ CommitBuffer(i)
    /\ committing' = TRUE
    /\ slotLocked' = TRUE
    /\ shouldTrigger' = FALSE
    /\ framePending' = TRUE
    /\ refresh' = IF shouldTrigger THEN Triggered ELSE refresh
    /\ calls' = <<"commitEvent", "unlock">> \o calls
    /\ UNCHANGED <<outputReady, frameScheduled, queues, bufferReady>>

CommitSlot(i) ==
    /\ CompositorRuns /\ Room /\ ~committing
    /\ outputReady
    /\ CommitBuffer(i)
    /\ committing' = TRUE
    /\ slotLocked' = TRUE
    /\ shouldTrigger' = FALSE
    /\ framePending' = shouldTrigger
    /\ \/ /\ shouldTrigger
          /\ refresh' = Triggered
          /\ calls' = <<"commitEvent", "unlock">> \o calls
       \/ /\ ~shouldTrigger
          /\ calls' = <<"present", "commitEvent", "unlock">> \o calls
          /\ UNCHANGED refresh
    /\ UNCHANGED <<outputReady, frameScheduled, queues, bufferReady>>

EmitCommit ==
    /\ Top("commitEvent")
    /\ calls' = <<"committed">> \o Tail(calls)
    /\ UNCHANGED <<made, vars, outputReady, frames, locks, queues, wire>>

\* The end of commit: the two guards.  A bug: the mutex that was locked again
\* by hand stays locked.
CommitReturns_KeepsLock ==
    /\ Top("unlock")
    /\ Pop
    /\ committing' = FALSE
    /\ UNCHANGED <<vars, outputReady, frames, slotLocked, queues, wire>>

CommitReturns ==
    /\ Top("unlock")
    /\ Pop
    /\ committing' = FALSE
    /\ slotLocked' = FALSE
    /\ UNCHANGED <<vars, outputReady, frames, queues, wire>>

-----------------------------------------------------------------------------
(* The consumer, and the link to it.                                       *)

\* The consumer shows a frame and says so.
Show ==
    /\ ~fallback /\ ~down
    /\ refresh > 0
    /\ refresh' = refresh - 1
    /\ bufferReady' = TRUE
    /\ UNCHANGED <<made, vars, calls, outputReady, frames, locks, queues>>

\* onBufferReady.  The mutex is released before the event.
OnBufferReady ==
    /\ ~Running /\ ~down
    /\ bufferReady /\ ~inFallback
    /\ bufferReady' = FALSE
    /\ frameScheduled' = FALSE
    /\ framePending' = FALSE
    /\ calls' = <<"present">>
    /\ UNCHANGED <<made, vars, outputReady, shouldTrigger, locks, queues, refresh>>

\* enter_fallback, found out in the event loop.  An output that is in
\* fallback already is left alone.  A bug: the request for a frame is kept,
\* while its callback is taken out of the queue.
EnterFallback_KeepsScheduled ==
    /\ ~Running
    /\ ReleaseConsumer
    /\ outputReady' = FALSE
    /\ shouldTrigger' = FALSE
    /\ framePending' = FALSE
    /\ idle' = 0
    /\ refresh' = 0
    /\ bufferReady' = FALSE
    /\ calls' = <<"present">>
    /\ UNCHANGED <<made, frameScheduled, locks, ime>>

EnterFallback ==
    /\ ~Running
    /\ ReleaseConsumer
    /\ outputReady' = FALSE
    /\ shouldTrigger' = FALSE
    /\ framePending' = FALSE
    /\ frameScheduled' = FALSE
    /\ idle' = 0
    /\ refresh' = 0
    /\ bufferReady' = FALSE
    /\ calls' = <<"present">>
    /\ UNCHANGED <<made, locks, ime>>

\* exitFallback and the rest of tryConnect: the frame is asked for and
\* announced twice.  If the consumer is gone again, the output still leaves
\* fallback.
ExitFallback ==
    /\ ~Running
    /\ (\E n \in 1 .. MAX_BUFS : TryExitFallback(n)) \/ ConnectAndLose
    /\ outputReady' = TRUE
    /\ frameScheduled' = FALSE
    /\ shouldTrigger' = FALSE
    /\ calls' = <<"schedule", "emit", "emit", "schedule">>
    /\ UNCHANGED <<made, framePending, locks, queues, wire>>

\* tryConnect with an output that has left fallback already.
ConnectAgain ==
    /\ ~Running
    /\ \E n \in 1 .. MAX_BUFS : Reconnect(n)
    /\ calls' = <<"emit", "schedule">>
    /\ UNCHANGED <<made, outputReady, frames, locks, queues, wire>>

\* shutdown(), and files of the rest of the process.
Elsewhere ==
    /\ \/ ~Running /\ Shutdown
       \/ OpenOther
       \/ CloseOther
    /\ UNCHANGED loop

-----------------------------------------------------------------------------

\* initialize: the output is ready, in fallback.
LoopInit ==
    /\ Init
    /\ calls = <<"emit">>
    /\ made = 0
    /\ outputReady = TRUE
    /\ shouldTrigger = FALSE
    /\ framePending = FALSE
    /\ frameScheduled = FALSE
    /\ committing = FALSE
    /\ slotLocked = FALSE
    /\ idle = 0
    /\ ime = FALSE
    /\ refresh = 0
    /\ bufferReady = FALSE

Compositor == CallSchedule \/ CommitImmediate \/ \E i \in Idx : CommitSlot(i)
OutputSteps == RunSchedule \/ RunEmit \/ Requeue \/ EmitCommit \/ CommitReturns
EventLoop == FrameIdle \/ ImeIdle \/ OnBufferReady

LoopNext ==
    \/ Compositor
    \/ OutputSteps
    \/ Return
    \/ EventLoop
    \/ DeferFrameForIME
    \/ Show
    \/ EnterFallback
    \/ ExitFallback
    \/ ConnectAgain
    \/ Elsewhere

LoopSpec == LoopInit /\ [][LoopNext]_allVars

\* The output's own code runs on and every listener returns in the end, the
\* event loop serves every source that is ready again and again, and the
\* consumer answers.
Fairness ==
    /\ WF_allVars(OutputSteps \/ Return)
    /\ SF_allVars(FrameIdle)
    /\ SF_allVars(OnBufferReady)
    /\ WF_allVars(Show)

FairLoopSpec == LoopSpec /\ Fairness

-----------------------------------------------------------------------------

\* commit() holds the slot's mutex while its listeners run, and scheduleFrame
\* takes it.  With listeners that ask for frames in the frame event only, the
\* thread never waits for a mutex that it holds itself.
NoSelfDeadlock == ~Top("blocked")

\* scheduleFrame does nothing while m_frameScheduled is raised, so the flag
\* must not outlive the callback that lowers it: it is in the idle queue, or
\* scheduleFrame is about to put it there.
FrameFlagIsQueued ==
    frameScheduled => idle > 0 \/ "requeue" \in Range(calls)

\* pendingPageFlip() keeps the compositor from rendering: a pending frame is
\* presented in the end, by the consumer or by the loss of it, whatever
\* refreshes were lost on a full socket, unless the output is shut down.
PendingEnds == framePending ~> (~framePending \/ down)

=============================================================================
