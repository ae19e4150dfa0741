CONSTANTS
    b1 = b1
    b2 = b2
    Buffers = {b1, b2}
    NoFB = NoFB
    MaxEvents = 2
    Refusals = {"plain", "modeset"}
    Tearing = TRUE
    Hotplug = TRUE
    VtSwitch = TRUE
    RequestInFrame = FALSE
    BusyPresent = FALSE
SPECIFICATION FairSpec
INVARIANTS
    FrameRunningEnds
PROPERTIES
    FlipServed
    FrameServed
