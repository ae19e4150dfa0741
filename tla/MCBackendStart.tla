--------------------------- MODULE MCBackendStart ---------------------------
(* A laptop's two GPUs, one of them with the panel, and a display adapter. *)
EXTENDS BackendStart

CONSTANTS igpu, dgpu, usb

MCCardList == <<dgpu, igpu, usb>>
MCPanels == [c \in Cards |-> IF c = igpu THEN 1 ELSE 0]
MCDeviceLists == {<<>>, <<usb, dgpu>>}
MCRequests == {
    <<Request("drm", "mandatory")>>,
    <<Request("wayland", "available"), Request("drm", "available"), Request("headless", "fallback")>>,
    <<Request("wayland", "mandatory"), Request("null", "fallback")>>,
    <<Request("anland", "available"), Request("anland", "fallback"), Request("drm", "available")>> }
=============================================================================
