SPECIFICATION FrameLoopSpec
CONSTANTS
    c1 = c1
    c2 = c2
    Callbacks = {c1, c2}
    DrmOutputs = {c1, c2}
    DestroyQueued = TRUE
INVARIANT RemovedNotCalled
