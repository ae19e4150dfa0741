----------------------------- MODULE MCDrmCrtc -----------------------------
(* A GPU with fewer CRTCs than connectors, two of them tiles of a monitor. *)
EXTENDS DrmCrtc

MCConnectors == <<1, 2, 3>>
MCPossible == <<{1, 2}, {1, 2}, {2}>>
MCTileGroup == <<0, 1, 1>>
MCFullRes == {2}
MCBootCrtc == <<2, 0, 0>>

\* No tiles, one CRTC that two connectors can use.
TwoConnectors == <<1, 2>>
TwoPossible == <<{1, 2}, {1}>>
NoTiles == <<0, 0>>
NoBootCrtc == <<0, 0>>
=============================================================================
