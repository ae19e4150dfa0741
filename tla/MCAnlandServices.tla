-------------------------- MODULE MCAnlandServices --------------------------
(* What the Anland link carries besides pictures: the camera service, the   *)
(* audio service, its ring, and the input events.  They share no state, so  *)
(* each behaviour is one of them, with the other three at rest.             *)
EXTENDS AnlandCamera, AnlandAudio, AnlandRing, AnlandInput

VARIABLE part   \* the one that moves

vars == <<camVars, audVars, ringVars, inVars, part>>

Init == CameraInit /\ AudioInit /\ RingInit /\ InputInit
        /\ part \in {"camera", "audio", "ring", "input"}
        /\ (part # "camera" => server) /\ (part # "audio" => pw.server)

Next ==
    /\ \/ part = "camera" /\ CameraNext /\ UNCHANGED <<audVars, ringVars, inVars>>
       \/ part = "audio" /\ AudioNext /\ UNCHANGED <<camVars, ringVars, inVars>>
       \/ part = "ring" /\ RingNext /\ UNCHANGED <<camVars, audVars, inVars>>
       \/ part = "input" /\ InputNext /\ UNCHANGED <<camVars, audVars, ringVars>>
    /\ UNCHANGED part

Spec == Init /\ [][Next]_vars /\ AudioFairness /\ InputFairness
=============================================================================
