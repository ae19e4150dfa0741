---------------------------- MODULE MCFrameLoop ----------------------------
(* A DRM output and a headless one that share the idle queue. *)
EXTENDS FrameLoop
=============================================================================
