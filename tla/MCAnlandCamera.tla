--------------------------- MODULE MCAnlandCamera ---------------------------
(* The camera service by itself, with the fairness its threads give: what   *)
(* a recording camera gets, once handleResourceEvent has closed its sockets.*)
EXTENDS AnlandCamera
=============================================================================
