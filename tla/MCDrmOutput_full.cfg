CONSTANTS
    b1 = b1
    b2 = b2
    b3 = b3
    Buffers = {b1, b2, b3}
    NoFB = NoFB
    MaxEvents = 2
    Refusals = {"plain", "modeset"}
    Tearing = TRUE
    Hotplug = TRUE
    VtSwitch = TRUE
    RequestInFrame = TRUE
    BusyPresent = TRUE
SYMMETRY BufferSymmetry
SPECIFICATION Spec
INVARIANTS
    TypeOK
    FlipEventOwed
    ScheduledIsQueued
