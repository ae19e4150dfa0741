---------------------------- MODULE MCDrmOutput ----------------------------
(* The DRM frame loop with two or three buffers, for TLC. *)
EXTENDS DrmOutput, TLC

\* Nothing tells one buffer from another.
BufferSymmetry == Permutations(Buffers)
=============================================================================
