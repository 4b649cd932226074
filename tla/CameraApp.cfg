SPECIFICATION FairSpec
CONSTANTS
    BufCount = 2
    AnyOrder = TRUE
    MaxFrames = 4
INVARIANTS
    TypeOK
    CopyIsStable
    WholeFrame
    CopySourceMapped
    BuffersAccounted
    PlanesNotFreed
PROPERTIES
    CapturesAdvance
    EveryCaptureReturns
