-------------------------- MODULE MCAnlandBuffers --------------------------
(* The Anland buffers with a small descriptor table. *)
EXTENDS AnlandBuffers
=============================================================================
