------------------------------ MODULE IdleLoop ------------------------------
(***************************************************************************)
(* CBackend's idle events: a queue of callbacks behind one timerfd.        *)
(* Outputs queue their frame callback here.  FrameLoop puts outputs on it. *)
(***************************************************************************)
EXTENDS Naturals, Sequences, SequencesExt, Lists

CONSTANT Callbacks  \* idle callbacks, each belonging to one output

VARIABLES
    pending,   \* idle.pending
    armed,     \* the timerfd will expire, 240 s after it was set
    readable,  \* the timerfd has expired and was not read
    dispatch,  \* dispatchIdle: "off", "between" callbacks, or "inside" one
    batch      \* the callbacks of its copy still to be called

idleVars == <<pending, armed, readable, dispatch, batch>>

IdleTypeOK ==
    /\ pending \in Seq(Callbacks)
    /\ armed \in BOOLEAN
    /\ readable \in BOOLEAN
    /\ dispatch \in {"off", "between", "inside"}
    /\ batch \in Seq(Callbacks)

-----------------------------------------------------------------------------

\* updateIdleTimer() with the queue q.  A timerfd set to the present expires
\* at once; one set 240 s ahead is no longer readable.
UpdateIdleTimer(q) ==
    /\ armed' = (q = <<>>)
    /\ readable' = (q # <<>>)

\* addIdleEvent.  A bug: the timer is set before the callback is queued.
AddIdleEvent_ArmsFirst(c) ==
    /\ pending' = Append(pending, c)
    /\ UpdateIdleTimer(pending)
    /\ UNCHANGED <<dispatch, batch>>

AddIdleEvent(c) ==
    /\ pending' = Append(pending, c)
    /\ UpdateIdleTimer(pending')
    /\ UNCHANGED <<dispatch, batch>>

\* removeIdleEvent: the timer stays.
RemoveIdleEvent(c) ==
    /\ pending' = Keep(pending, Callbacks \ {c})
    /\ UNCHANGED <<armed, readable, dispatch, batch>>

\* The 240 s are over.
Expire ==
    /\ armed
    /\ armed' = FALSE
    /\ readable' = TRUE
    /\ UNCHANGED <<pending, dispatch, batch>>

\* dispatchIdle: read the timer, take a copy of the queue and clear it, ...
DispatchIdle ==
    /\ readable /\ dispatch = "off"
    /\ readable' = FALSE
    /\ dispatch' = "between"
    /\ batch' = pending
    /\ pending' = <<>>
    /\ UNCHANGED armed

\* ... call each callback of the copy, ...
CallNext ==
    /\ dispatch = "between" /\ batch # <<>>
    /\ batch' = Tail(batch)
    /\ dispatch' = "inside"
    /\ UNCHANGED <<pending, armed, readable>>

CallReturns ==
    /\ dispatch = "inside"
    /\ dispatch' = "between"
    /\ UNCHANGED <<pending, armed, readable, batch>>

\* ... and arm the timer for what the callbacks queued.
DispatchEnds ==
    /\ dispatch = "between" /\ batch = <<>>
    /\ dispatch' = "off"
    /\ UpdateIdleTimer(pending)
    /\ UNCHANGED <<pending, batch>>

IdleInit ==
    /\ pending = <<>>
    /\ armed = FALSE
    /\ readable = FALSE
    /\ dispatch = "off"
    /\ batch = <<>>

-----------------------------------------------------------------------------

\* A queued callback always finds the timer expired: none waits for the 240 s
\* of an empty queue, also when another callback queued it.
NoLostWakeup ==
    pending # <<>> /\ dispatch = "off" => readable
=============================================================================
