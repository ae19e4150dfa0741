--------------------------- MODULE MCAnlandOutput ---------------------------
(* The Anland output and its buffers with few consumers and shallow stacks. *)
EXTENDS AnlandOutput
=============================================================================
