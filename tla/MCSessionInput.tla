--------------------------- MODULE MCSessionInput ---------------------------
(* Two pointers, one of them with keys and a lid switch, and a tablet. *)
EXTENDS SessionInput

CONSTANTS mouse, combo, pen, marker, stylus

MCCaps == [d \in InputDevices |->
    CASE d = mouse -> {"pointer"}
      [] d = combo -> {"pointer", "keyboard", "switch"}
      [] d = pen   -> {"tablet", "pad", "touch"}]
=============================================================================
