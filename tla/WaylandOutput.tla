--------------------------- MODULE WaylandOutput ---------------------------
(***************************************************************************)
(* The nested outputs of the Wayland backend.  An output asks the host for *)
(* a frame callback after it showed a buffer, and gives its user a frame   *)
(* when the host answers; frames asked for in between wait for the answer, *)
(* others for the backend's list of idle callbacks, which dispatchEvents   *)
(* runs and clears whenever the host has sent something.  Every event runs *)
(* code of the user, so a handler is a sequence of steps; `steps` holds    *)
(* what is left of the one that runs.                                      *)
(***************************************************************************)
EXTENDS Naturals, Sequences, SequencesExt, FiniteSets

CONSTANTS
    WlOutputs,  \* the outputs
    Nobody,     \* no output: of a step that concerns none
    MaxIdle,    \* bound: idle callbacks at which requests and configures pause.  A
                \* configure lowers the flag of an output that is in the list, so
                \* that it may come to be in it twice
    BusyIdle    \* the user schedules frames of, or creates, other outputs while
                \* dispatchEvents goes through the list of idle callbacks
ASSUME WlAssumption ==
    /\ IsFiniteSet(WlOutputs) /\ Nobody \notin WlOutputs
    /\ MaxIdle \in Nat
    /\ BusyIdle \in BOOLEAN

VARIABLES
    wl,         \* the outputs' state
    idleCbs,    \* idleCallbacks: <<"new", o>> announces o, <<"frame", o>> gives it a frame
    steps,      \* what the running handler has still to do; empty in the event loop
    crash       \* the process has used memory that is gone

wlVars == <<wl, idleCbs, steps, crash>>

WlState == [
    alive     : BOOLEAN,    \* the output exists
    scheduled : BOOLEAN,    \* frameScheduled
    callback  : BOOLEAN,    \* frameCallback: the host was asked and has not answered
    waiting   : BOOLEAN,    \* frameScheduledWhileWaiting
    ready     : BOOLEAN ]   \* readyForFrameCallback

NewOutput == [alive |-> TRUE, scheduled |-> FALSE, callback |-> FALSE, waiting |-> FALSE, ready |-> TRUE]
NoOutput  == [NewOutput EXCEPT !.alive = FALSE, !.ready = FALSE]

Step(what, o) == <<what, o>>
User == <<"user", Nobody>>
Flush == <<"flush", Nobody>>     \* dispatchEvents has the idle callbacks still to run

WlTypeOK ==
    /\ wl \in [WlOutputs -> WlState]
    /\ idleCbs \in Seq({"new", "frame"} \X WlOutputs)
    /\ crash \in BOOLEAN

-----------------------------------------------------------------------------

\* The handler that runs is at step `what`; it concerns output Of.
At(what) == ~crash /\ steps # <<>> /\ Head(steps)[1] = what
Of == Head(steps)[2]

\* The user's code runs in the event loop (its own timers) or in a listener.
WlUserRuns == ~crash /\ (steps # <<>> => Head(steps) = User)

\* A handler of output o runs.
InHandler(o) == \E i \in 1 .. Len(steps) : steps[i][2] = o

\* dispatchEvents is in its loop over the idle callbacks.
Iterating == \E i \in 1 .. Len(steps) : steps[i][1] = "idle"

\* idleCallbacks.emplace_back: in the middle of that loop it may move the
\* vector under the loop's iterators.
Queue(cb) ==
    /\ BusyIdle \/ ~Iterating
    /\ idleCbs' = Append(idleCbs, cb)
    /\ \/ UNCHANGED crash
       \/ Iterating /\ crash' = TRUE

\* scheduleFrame, from the user and from onFrameDone.  A bug: every request
\* waits for the host, whether it was asked or not.
Scheduled_AlwaysWaits(o) ==
    /\ wl' = [wl EXCEPT ![o].scheduled = TRUE, ![o].waiting = TRUE]
    /\ UNCHANGED <<idleCbs, crash>>

Scheduled(o) ==
    \/ /\ wl[o].scheduled
       /\ UNCHANGED <<wl, idleCbs, crash>>
    \/ /\ ~wl[o].scheduled /\ wl[o].callback
       /\ wl' = [wl EXCEPT ![o].scheduled = TRUE, ![o].waiting = TRUE]
       /\ UNCHANGED <<idleCbs, crash>>
    \/ /\ ~wl[o].scheduled /\ ~wl[o].callback
       /\ wl' = [wl EXCEPT ![o].scheduled = TRUE]
       /\ Queue(Step("frame", o))

UserSchedules(o) ==
    /\ WlUserRuns /\ wl[o].alive /\ Len(idleCbs) < MaxIdle
    /\ Scheduled(o)
    /\ UNCHANGED steps

\* commit of a buffer.  The commits that are refused, that have no buffer or
\* come before there is a swapchain leave the frame loop as it is.
UserCommits(o) ==
    /\ WlUserRuns /\ wl[o].alive
    /\ wl' = [wl EXCEPT ![o].ready = TRUE]
    /\ UNCHANGED <<idleCbs, steps, crash>>

\* createOutput: announced from an idle callback.  A destroyed output is made
\* anew only when nothing refers to the old one.
UserCreates(o) ==
    /\ WlUserRuns /\ ~wl[o].alive /\ Len(idleCbs) < MaxIdle
    /\ ~Contains(idleCbs, Step("new", o)) /\ ~Contains(idleCbs, Step("frame", o))
    /\ ~InHandler(o)
    /\ wl' = [wl EXCEPT ![o] = NewOutput]
    /\ Queue(Step("new", o))
    /\ UNCHANGED steps

\* destroy: the frame callback is dropped; idle callbacks hold weak pointers.
\* A listener that destroys the output whose handler called it leaves that
\* handler with a dangling `this`, unless the user holds another reference.
UserDestroys(o) ==
    /\ WlUserRuns /\ wl[o].alive
    /\ wl' = [wl EXCEPT ![o] = NoOutput]
    /\ \/ UNCHANGED crash
       \/ InHandler(o) /\ crash' = TRUE
    /\ UNCHANGED <<idleCbs, steps>>

UserReturns ==
    /\ At("user")
    /\ steps' = Tail(steps)
    /\ UNCHANGED <<wl, idleCbs, crash>>

-----------------------------------------------------------------------------
\* dispatchEvents: the events the host has sent, then the idle callbacks.

EventRuns == ~crash /\ (steps # <<>> => Head(steps) = Flush)
Rest == IF steps = <<>> THEN <<Flush>> ELSE steps

\* onFrameDone.
FrameDone(o) ==
    /\ EventRuns /\ wl[o].alive /\ wl[o].callback
    /\ wl' = [wl EXCEPT ![o].callback = FALSE, ![o].ready = FALSE]
    /\ steps' = <<User, Step("schedule", o), Step("answer", o), Step("answered", o)>> \o Rest
    /\ UNCHANGED <<idleCbs, crash>>

\* xdg_toplevel.configure: the state event, then sendFrameAndSetCallback.
Configure(o) ==
    /\ EventRuns /\ wl[o].alive /\ Len(idleCbs) < MaxIdle
    /\ steps' = <<User, Step("send", o)>> \o Rest
    /\ UNCHANGED <<wl, idleCbs, crash>>

\* xdg_toplevel.close.
CloseEvent(o) ==
    /\ EventRuns /\ wl[o].alive
    /\ wl' = [wl EXCEPT ![o] = NoOutput]
    /\ steps' = <<User>> \o Rest
    /\ UNCHANGED <<idleCbs, crash>>

\* Whatever else the host sends: input, released buffers, pings.
OtherEvent ==
    /\ EventRuns
    /\ steps' = <<User>> \o Rest
    /\ UNCHANGED <<wl, idleCbs, crash>>

\* sendFrameAndSetCallback: the frame event, ...
Send ==
    /\ At("send")
    /\ steps' = (IF wl[Of].alive THEN <<User, Step("sent", Of)>> ELSE <<>>) \o Tail(steps)
    /\ UNCHANGED <<wl, idleCbs, crash>>

\* ... and, if a buffer was shown since, the next frame callback.  A bug: the
\* flag stays raised.
Sent_KeepsScheduled ==
    /\ At("sent")
    /\ wl' = IF ~wl[Of].alive THEN wl
             ELSE [wl EXCEPT ![Of].callback = @ \/ wl[Of].ready]
    /\ steps' = Tail(steps)
    /\ UNCHANGED <<idleCbs, crash>>

Sent ==
    /\ At("sent")
    /\ wl' = IF ~wl[Of].alive THEN wl
             ELSE [wl EXCEPT ![Of].scheduled = FALSE, ![Of].callback = @ \/ wl[Of].ready]
    /\ steps' = Tail(steps)
    /\ UNCHANGED <<idleCbs, crash>>

\* The middle of onFrameDone: a frame is scheduled, always, ...
DoneSchedules ==
    /\ At("schedule")
    /\ IF wl[Of].alive THEN Scheduled(Of) ELSE UNCHANGED <<wl, idleCbs, crash>>
    /\ steps' = Tail(steps)

\* ... the frame event is given, with or without a new callback, ...
DoneAnswers ==
    /\ At("answer")
    /\ steps' = (IF ~wl[Of].alive THEN <<>> ELSE IF wl[Of].waiting THEN <<Step("send", Of)>> ELSE <<User>>)
                \o Tail(steps)
    /\ UNCHANGED <<wl, idleCbs, crash>>

\* ... and nothing waits any more.
DoneAnswered ==
    /\ At("answered")
    /\ wl' = [wl EXCEPT ![Of].waiting = FALSE]
    /\ steps' = Tail(steps)
    /\ UNCHANGED <<idleCbs, crash>>

\* The idle callbacks.  The loop's end is the end of the list when it began.
FlushBegins ==
    /\ ~crash /\ steps = <<Flush>>
    /\ steps' = <<Step("idle", <<1, Len(idleCbs)>>)>>
    /\ UNCHANGED <<wl, idleCbs, crash>>

FlushCalls ==
    /\ At("idle")
    /\ LET i == Of[1]  n == Of[2] IN
       /\ i <= n
       /\ steps' = <<IF idleCbs[i][1] = "new" THEN User ELSE Step("send", idleCbs[i][2]),
                     Step("idle", <<i + 1, n>>)>>
    /\ UNCHANGED <<wl, idleCbs, crash>>

FlushEnds ==
    /\ At("idle")
    /\ Of[1] > Of[2]
    /\ idleCbs' = <<>>
    /\ steps' = <<>>
    /\ UNCHANGED <<wl, crash>>

Crashed == crash /\ UNCHANGED wlVars

-----------------------------------------------------------------------------

\* After start(): the outputs are made and not yet announced.
WlInit ==
    /\ wl = [o \in WlOutputs |-> NewOutput]
    /\ idleCbs \in SetToSeqs({Step("new", o) : o \in WlOutputs})
    /\ steps = <<>>
    /\ crash = FALSE

Handler == UserReturns \/ Send \/ Sent \/ DoneSchedules \/ DoneAnswers \/ DoneAnswered
           \/ FlushBegins \/ FlushCalls \/ FlushEnds

WlNext ==
    \/ \E o \in WlOutputs :
        \/ UserSchedules(o) \/ UserCommits(o) \/ UserCreates(o) \/ UserDestroys(o)
        \/ FrameDone(o) \/ Configure(o) \/ CloseEvent(o)
    \/ OtherEvent \/ Handler \/ Crashed

WlSpec == WlInit /\ [][WlNext]_wlVars

\* Handlers and listeners return, and the host answers a frame callback.  It
\* owes nothing else: idle callbacks that are queued in the event loop wait
\* for whatever it sends next.
WlFairness ==
    /\ WF_wlVars(Handler)
    /\ \A o \in WlOutputs : SF_wlVars(FrameDone(o))

-----------------------------------------------------------------------------

\* frameScheduled makes scheduleFrame do nothing, so whenever it is raised
\* something must be on its way that lowers it: an idle callback, or the
\* host's answer to a frame callback that was told of the request.
WlScheduledIsPending ==
    steps = <<>> /\ ~crash =>
        \A o \in WlOutputs : wl[o].alive /\ wl[o].scheduled =>
            Contains(idleCbs, Step("frame", o)) \/ (wl[o].waiting /\ wl[o].callback)

\* A frame asked for while the host was asked is given when it answers.
WlWaitingServed == \A o \in WlOutputs :
    wl[o].alive /\ wl[o].waiting ~> ~wl[o].waiting \/ crash
=============================================================================
