--------------------------- MODULE MCDrmResources ---------------------------
(* What a session has to drive: its GPUs and input devices, what an output  *)
(* is lit with, a CRTC, a ring of buffers and the allocator they come from, *)
(* and an output that nothing disturbs (the settings of DrmOutput).  The    *)
(* parts share no state here, so each behaviour is one of them, with the    *)
(* others at rest.                                                          *)
EXTENDS MCDrmCrtc, Swapchain, Gbm, MCBackendStart, MCSessionInput, DrmOutput

VARIABLE part   \* the one that moves

resourceVars == <<crtcVars, swVars, gbmVars, gpuVars, inputVars, vars, part>>

\* Two lists of formats that have one modifier of one format in common.
TwoTables == {[XRGB10 |-> {Linear, "tiled"}, other |-> {}],
              [XRGB10 |-> {"tiled"}, other |-> {Implicit}]}

ResourcesInit ==
    /\ CrtcInit /\ SwapchainInit /\ GbmInit /\ BackendInit /\ InputInit /\ Init
    /\ part \in {"crtc", "ring", "gbm", "gpus", "input", "output"}
    /\ part # "crtc" => plugged = {}
    /\ part # "gbm" => tables.renderable = NoTable /\ tables.primary = tables.output
                     /\ tables.primary = tables.cursor /\ Cardinality(Listed(tables.primary)) = 1
    /\ part # "gpus" => present = {} /\ requests = <<Request("drm", "mandatory")>> /\ toCreate = requests
    /\ part # "input" => attached = {}

ResourcesNext ==
    /\ \/ part = "crtc" /\ CrtcNext /\ UNCHANGED <<swVars, gbmVars, gpuVars, inputVars, vars>>
       \/ part = "ring" /\ SwapchainNext /\ UNCHANGED <<crtcVars, gbmVars, gpuVars, inputVars, vars>>
       \/ part = "gbm" /\ GbmNext /\ UNCHANGED <<crtcVars, swVars, gpuVars, inputVars, vars>>
       \/ part = "gpus" /\ BackendNext /\ UNCHANGED <<crtcVars, swVars, gbmVars, inputVars, vars>>
       \/ part = "input" /\ InputNext /\ UNCHANGED <<crtcVars, swVars, gbmVars, gpuVars, vars>>
       \/ part = "output" /\ Next /\ UNCHANGED <<crtcVars, swVars, gbmVars, gpuVars, inputVars>>
    /\ UNCHANGED part

ResourcesSpec == ResourcesInit /\ [][ResourcesNext]_resourceVars
=============================================================================
