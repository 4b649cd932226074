SPECIFICATION Spec
CONSTANTS
    Conn <- MCConn
    end = end
    none = none
    MaxUndefined = 1
    MaxFrames = 3
INVARIANTS
    ListIsConnected
    UndefinedOnlyOnOverlap
    FramesConsecutive
PROPERTIES
    ImplementsBroadcast
