SPECIFICATION Spec
CONSTANTS
    BufCount = 2
    AnyOrder = FALSE
    MaxFrames = 4
INVARIANTS
    TimeoutEndsCapture
