----------------------------- MODULE FrameClock -----------------------------
(***************************************************************************)
(* What scheduleFrame promises the user of an output, whatever is behind   *)
(* it: a request is answered by one frame event, requests that come before *)
(* the answer count as one, there is no frame nobody asked for, and an     *)
(* output that is gone gives none.                                         *)
(***************************************************************************)
EXTENDS Naturals

CONSTANT Outputs

VARIABLES
    open,   \* the outputs that exist
    asked,  \* those of which a frame was requested and not given
    frame   \* which frame each is on: it changes with every frame event

clock == <<open, asked, frame>>

ClockInit ==
    /\ open \in SUBSET Outputs
    /\ asked = {}
    /\ frame = [o \in Outputs |-> 0]

Open(o) ==
    /\ o \notin open
    /\ open' = open \cup {o}
    /\ UNCHANGED <<asked, frame>>

Close(o) ==
    /\ o \in open
    /\ open' = open \ {o}
    /\ asked' = asked \ {o}
    /\ UNCHANGED frame

Ask(o) ==
    /\ o \in open
    /\ asked' = asked \cup {o}
    /\ UNCHANGED <<open, frame>>

Give(o) ==
    /\ o \in open \cap asked
    /\ asked' = asked \ {o}
    /\ frame' = [frame EXCEPT ![o] = 1 - @]
    /\ UNCHANGED open

ClockNext == \E o \in Outputs : Open(o) \/ Close(o) \/ Ask(o) \/ Give(o)

\* No frame unasked, and none of an output that is gone.
ClockSafe == ClockInit /\ [][ClockNext]_clock

\* And every request is answered.
ClockSpec == ClockSafe /\ \A o \in Outputs : WF_clock(Give(o))
=============================================================================
