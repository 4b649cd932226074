SPECIFICATION FairSpec
CONSTANTS
    Conn <- MCConn
    end = end
    none = none
    MaxUndefined = 1
    MaxFrames = 2
PROPERTIES
    EveryCloseFreed
    EveryFrameWritten
