CONSTANTS
    b1 = b1
    b2 = b2
    b3 = b3
    Buffers = {b1, b2, b3}
    NoFB = NoFB
    MaxEvents = 2
    Refusals = {"modeset"}
    Tearing = TRUE
    Hotplug = FALSE
    VtSwitch = FALSE
    RequestInFrame = FALSE
    BusyPresent = FALSE
SYMMETRY BufferSymmetry
SPECIFICATION Spec
INVARIANTS
    ReleasedIsGone
