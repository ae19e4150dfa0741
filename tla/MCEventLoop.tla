---------------------------- MODULE MCEventLoop ----------------------------
(* What the event loop must not lose: the frames of headless outputs and of *)
(* idle events, those of nested Wayland outputs, and the Anland consumer.   *)
(* They share no state here, so each behaviour is one of them, with the     *)
(* others at rest.                                                          *)
EXTENDS FrameLoop, WaylandOutput, AnlandLink

VARIABLE part   \* the one that moves

loopVariables == <<loopVars, wlVars, vars, part>>

LoopsInit ==
    /\ FrameLoopInit /\ WlInit /\ Init
    /\ part \in {"clock", "wayland", "anland"}
    /\ part # "wayland" => idleCbs = CHOOSE q \in SetToSeqs({Step("new", o) : o \in WlOutputs}) : TRUE
    /\ part # "anland" => ~consumer /\ ~daemon

LoopsNext ==
    /\ \/ part = "clock" /\ FrameLoopNext /\ UNCHANGED <<wlVars, vars>>
       \/ part = "wayland" /\ WlNext /\ UNCHANGED <<loopVars, vars>>
       \/ part = "anland" /\ Next /\ UNCHANGED <<loopVars, wlVars>>
    /\ UNCHANGED part

\* The fairness of each part; at rest, none of its fair actions is enabled.
LoopsSpec ==
    /\ LoopsInit /\ [][LoopsNext]_loopVariables
    /\ FrameLoopFairness /\ WlFairness /\ WF_vars(part = "anland" /\ Backend)
=============================================================================
