---------------------------- MODULE SessionInput ----------------------------
(***************************************************************************)
(* The input side of a CSession: the devices libinput reports while the    *)
(* seat is active, what the session keeps of them (CLibinputDevice and the *)
(* tablet tools), which of them it announces to the caller, and the events *)
(* it passes on.  libinput, the seat and the kernel's devices are external:*)
(* libinput reports a device before its events, releases what is held      *)
(* before it reports the device's removal, and loses every device when it  *)
(* is suspended.                                                           *)
(***************************************************************************)
EXTENDS Naturals, Sequences, SequencesExt, FiniteSets

CONSTANTS
    InputDevices,   \* the kernel's input devices
    Caps,           \* per device: its capabilities
    Tools,          \* tablet tools
    UniqueTools,    \* those that have a serial number
    MaxInput        \* bound: events that wait in libinput before users add more

Capabilities == {"keyboard", "pointer", "touch", "switch", "tablet", "pad"}

ASSUME InputAssumption ==
    /\ Caps \in [InputDevices -> SUBSET Capabilities]
    /\ IsFiniteSet(InputDevices)
    /\ UniqueTools \subseteq Tools
    /\ Tools \cap Capabilities = {}
    /\ MaxInput \in Nat

With(cap) == {d \in InputDevices : cap \in Caps[d]}
NoTool == "none"

\* libinput's events.
Passive == {"added", "removed", "keyboard", "pointer", "touch", "pad"}
InputEvents ==
    [kind : Passive, dev : InputDevices]
      \cup [kind : {"button"}, dev : InputDevices, pressed : BOOLEAN, count : Nat]
      \cup [kind : {"switch"}, dev : With("switch"), on : BOOLEAN]
      \cup [kind : {"in", "out", "tool"}, dev : With("tablet"), tool : Tools]

VARIABLES
    when,       \* "attempt", "waiting" for the seat, "created", "ready"
    enabled,    \* session->active
    early,      \* libinput was dispatched before the backend was ready
    attached,   \* the kernel: devices that are plugged in
    open,       \* libinput's devices: session->sessionDevices holds each, open
    held,       \* libinput: pointers on which the button is down
    near,       \* libinput: the tool in proximity of each tablet
    queue,      \* libinput: its events, oldest first
    known,      \* libinputDevices
    kept,       \* tabletTools: pairs of a tablet and a tool
    told,       \* what was announced and still exists: pairs of a device and a capability or tool
    button,     \* the button as the caller has last heard of it
    lid         \* switchy->state of each device

seatVars == <<when, enabled, early>>
libinputVars == <<attached, open, held, near, queue>>
sessionVars == <<known, kept, told, button, lid>>
inputVars == <<seatVars, libinputVars, sessionVars>>

InputTypeOK ==
    /\ when \in {"attempt", "waiting", "created", "ready"}
    /\ enabled \in BOOLEAN /\ early \in BOOLEAN /\ button \in BOOLEAN
    /\ attached \subseteq InputDevices /\ open \subseteq attached
    /\ held \subseteq open
    /\ near \in [With("tablet") -> Tools \cup {NoTool}]
    /\ queue \in Seq(InputEvents)
    /\ known \subseteq InputDevices
    /\ kept \subseteq With("tablet") \X Tools
    /\ told \subseteq InputDevices \X (Capabilities \cup Tools)
    /\ lid \in [With("switch") -> BOOLEAN]

-----------------------------------------------------------------------------
(* libinput: what it puts in its queue.                                    *)

Event(kind, d) == [kind |-> kind, dev |-> d]
ButtonEvent(d, pressed, count) == [kind |-> "button", dev |-> d, pressed |-> pressed, count |-> count]
ToolEvent(d, what, tool) == [kind |-> what, dev |-> d, tool |-> tool]

AddedEvents(devs) == [k \in 1 .. Cardinality(devs) |-> Event("added", SetToSeq(devs)[k])]

\* A device goes: its button is released, its tool leaves, it is removed.
GoneEvents(d, h) ==
    (IF d \in h THEN <<ButtonEvent(d, FALSE, Cardinality(h \ {d}))>> ELSE <<>>)
      \o (IF d \in With("tablet") /\ near[d] # NoTool THEN <<ToolEvent(d, "out", near[d])>> ELSE <<>>)
      \o <<Event("removed", d)>>

\* All devices go, one after the other.
AllGone ==
    LET gone == SetToSeq(open)
        events[n \in 0 .. Cardinality(open)] ==
            IF n = 0 THEN <<>>
            ELSE events[n - 1] \o GoneEvents(gone[n], held \ {gone[k] : k \in 1 .. n - 1})
    IN  events[Cardinality(open)]

\* libinputOpen: a device is only reported once the seat has opened it.
OpenAll == open' = attached /\ queue' = queue \o AddedEvents(attached \ open)

-----------------------------------------------------------------------------
(* The seat and the backend's start.                                       *)

\* CSession::attempt dispatches the seat's events before libinput exists, and
\* leaves libinput's to the event loop.  A bug: it dispatches them at its end.
SessionAttempt_DispatchesLast ==
    /\ when = "attempt"
    /\ enabled' = TRUE
    /\ open' = attached /\ known' = attached
    /\ when' = "created"
    /\ UNCHANGED <<early, attached, held, near, queue, kept, told, button, lid>>

SessionAttempt ==
    /\ when = "attempt"
    /\ \/ enabled' = TRUE /\ when' = "created" /\ OpenAll
       \/ enabled' = FALSE /\ when' = "waiting" /\ UNCHANGED <<open, queue>>
    /\ UNCHANGED <<early, attached, held, near, sessionVars>>

\* libseatEnableSeat resumes libinput, which opens what is there.
LibseatEnableSeat ==
    /\ when \in {"waiting", "ready"} /\ ~enabled /\ Len(queue) < MaxInput
    /\ enabled' = TRUE
    /\ OpenAll
    /\ UNCHANGED <<when, early, attached, held, near, sessionVars>>

\* libseatDisableSeat suspends it: libinputClose for every device.
LibseatDisableSeat ==
    /\ when = "ready" /\ enabled /\ Len(queue) < MaxInput
    /\ enabled' = FALSE
    /\ open' = {} /\ held' = {} /\ near' = [t \in DOMAIN near |-> NoTool]
    /\ queue' = queue \o AllGone
    /\ UNCHANGED <<when, early, attached, sessionVars>>

\* CDRMBackend::attempt waits: a round that finds the seat enabled also
\* dispatches libinput, or five seconds pass.
WaitEnds ==
    /\ when = "waiting"
    /\ enabled => queue = <<>>
    /\ when' = "created"
    /\ UNCHANGED <<enabled, early, libinputVars, sessionVars>>

\* CBackend::start sets ready; CSession::onReady does nothing.
BackendReady ==
    /\ when = "created"
    /\ when' = "ready"
    /\ UNCHANGED <<enabled, early, libinputVars, sessionVars>>

-----------------------------------------------------------------------------
(* Users and the kernel.                                                   *)

Attach(d) ==
    /\ d \notin attached /\ Len(queue) < MaxInput
    /\ attached' = attached \cup {d}
    /\ open' = IF enabled THEN open \cup {d} ELSE open
    /\ queue' = IF enabled THEN Append(queue, Event("added", d)) ELSE queue
    /\ UNCHANGED <<seatVars, held, near, sessionVars>>

Detach(d) ==
    /\ d \in attached /\ Len(queue) < MaxInput
    /\ attached' = attached \ {d}
    /\ open' = open \ {d}
    /\ queue' = IF d \in open THEN queue \o GoneEvents(d, held) ELSE queue
    /\ held' = held \ {d}
    /\ near' = [t \in DOMAIN near |-> IF t = d THEN NoTool ELSE near[t]]
    /\ UNCHANGED <<seatVars, sessionVars>>

Uses(d, cap) == d \in open /\ cap \in Caps[d] /\ Len(queue) < MaxInput

\* Keys, motion, touches, pad buttons: events without a state of their own.
UserInput(d, cap) ==
    /\ Uses(d, cap) /\ cap \notin {"switch", "tablet"}
    /\ queue' = Append(queue, Event(cap, d))
    /\ UNCHANGED <<seatVars, attached, open, held, near, sessionVars>>

UserButton(d) ==
    /\ Uses(d, "pointer")
    /\ held' = IF d \in held THEN held \ {d} ELSE held \cup {d}
    /\ queue' = Append(queue, ButtonEvent(d, d \notin held, Cardinality(held')))
    /\ UNCHANGED <<seatVars, attached, open, near, sessionVars>>

UserSwitch(d) ==
    /\ Uses(d, "switch")
    /\ \E on \in BOOLEAN : queue' = Append(queue, [kind |-> "switch", dev |-> d, on |-> on])
    /\ UNCHANGED <<seatVars, attached, open, held, near, sessionVars>>

\* A tool comes near and goes again; near the tablet it moves, taps, clicks.
UserTool(d, t) ==
    /\ Uses(d, "tablet")
    /\ \/ near[d] = NoTool /\ near' = [near EXCEPT ![d] = t]
          /\ queue' = Append(queue, ToolEvent(d, "in", t))
       \/ near[d] = t /\ near' = [near EXCEPT ![d] = NoTool]
          /\ queue' = Append(queue, ToolEvent(d, "out", t))
       \/ near[d] = t /\ UNCHANGED near
          /\ queue' = Append(queue, ToolEvent(d, "tool", t))
    /\ UNCHANGED <<seatVars, attached, open, held, sessionVars>>

-----------------------------------------------------------------------------
(* dispatchLibinputEvents and handleLibinputEvent.                         *)

Dispatches == when = "ready" \/ (when = "waiting" /\ enabled)

\* An event is taken, in the order libinput reported them.
Take(kind) ==
    /\ Dispatches /\ queue # <<>> /\ Head(queue).kind = kind
    /\ queue' = Tail(queue)
    /\ early' = (early \/ when # "ready")
    /\ UNCHANGED <<when, enabled, attached, open, held, near>>

Dev == Head(queue).dev

\* CLibinputDevice::init makes an interface per capability and announces it
\* only when the backend is ready.
Announced(d, whats) == told' = IF when = "ready" THEN told \cup ({d} \X whats) ELSE told

HandleAdded ==
    /\ Take("added")
    /\ known' = known \cup {Dev}
    /\ Announced(Dev, Caps[Dev])
    /\ lid' = [s \in DOMAIN lid |-> IF s = Dev THEN FALSE ELSE lid[s]]
    /\ UNCHANGED <<kept, button>>

\* ~CLibinputDevice: the interfaces and the tools go with it.
HandleRemoved ==
    /\ Take("removed")
    /\ known' = known \ {Dev}
    /\ told' = {p \in told : p[1] # Dev}
    /\ kept' = {p \in kept : p[1] # Dev}
    /\ UNCHANGED <<button, lid>>

\* Events that are passed on to the device's interface and change nothing.
PassedOn(cap) == Take(cap) /\ UNCHANGED sessionVars

HandleKey == PassedOn("keyboard")
HandlePointer == PassedOn("pointer")
HandleTouch == PassedOn("touch")
HandlePad == PassedOn("pad")

\* A button is the seat's: only its first press and last release count.  A bug:
\* every pointer's presses and releases are passed on.
Counts_Always(e) == TRUE

Counts(e) == IF e.pressed THEN e.count = 1 ELSE e.count = 0

HandleButton ==
    /\ Take("button")
    /\ button' = IF Counts(Head(queue)) THEN Head(queue).pressed ELSE button
    /\ UNCHANGED <<known, kept, told, lid>>

\* A toggle to the state the device is in already is dropped, the lid's and
\* the tablet mode's alike.
HandleSwitch ==
    /\ Take("switch")
    /\ lid' = [lid EXCEPT ![Dev] = Head(queue).on]
    /\ UNCHANGED <<known, kept, told, button>>

\* toolFrom: the tool, made and announced when it is new.
ToolFrom(t) ==
    /\ kept' = kept \cup {<<Dev, t>>}
    /\ IF <<Dev, t>> \in kept THEN UNCHANGED told ELSE Announced(Dev, {t})

HandleTool ==
    /\ \/ Take("in") \/ Take("tool")
    /\ ToolFrom(Head(queue).tool)
    /\ UNCHANGED <<known, button, lid>>

\* Leaving, a tool without a serial number is dropped after the event.
HandleToolLeaves ==
    /\ Take("out")
    /\ LET t == Head(queue).tool
       IN  IF t \in UniqueTools THEN ToolFrom(t)
           ELSE /\ kept' = kept \ {<<Dev, t>>}
                /\ told' = told \ {<<Dev, t>>}
    /\ UNCHANGED <<known, button, lid>>

-----------------------------------------------------------------------------

InputInit ==
    /\ when = "attempt" /\ enabled = FALSE /\ early = FALSE
    /\ attached \in SUBSET InputDevices
    /\ open = {} /\ held = {} /\ queue = <<>>
    /\ near = [t \in With("tablet") |-> NoTool]
    /\ known = {} /\ kept = {} /\ told = {}
    /\ button = FALSE
    /\ lid = [s \in With("switch") |-> FALSE]

InputNext ==
    \/ SessionAttempt \/ LibseatEnableSeat \/ LibseatDisableSeat \/ WaitEnds \/ BackendReady
    \/ \E d \in InputDevices : Attach(d) \/ Detach(d) \/ UserButton(d) \/ UserSwitch(d)
    \/ \E d \in InputDevices, c \in Capabilities : UserInput(d, c)
    \/ \E d \in InputDevices, t \in Tools : UserTool(d, t)
    \/ HandleAdded \/ HandleRemoved
    \/ HandleKey \/ HandlePointer \/ HandleTouch \/ HandlePad
    \/ HandleButton \/ HandleSwitch \/ HandleTool \/ HandleToolLeaves

InputSpec == InputInit /\ [][InputNext]_inputVars

-----------------------------------------------------------------------------

\* Unless libinput was dispatched while create waited for the seat, every
\* interface and every tool that events go to was announced to the caller:
\* CSession::onReady announces nothing, so what was made before ready never
\* is.  And an event is never that of a device the session does not know.
KnownIsTold ==
    /\ ~early => kept \subseteq told /\ \A d \in known : {d} \X Caps[d] \subseteq told
    /\ queue # <<>> /\ Head(queue).kind # "added" => Dev \in known

\* Once libinput's queue holds no button event, the caller takes the button to
\* be down exactly when some pointer holds it, also after a pointer that held
\* it was unplugged or the seat was switched away.
SeatButtonAgrees ==
    (\A k \in DOMAIN queue : queue[k].kind # "button") => button = (held # {})
=============================================================================
