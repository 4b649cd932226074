SPECIFICATION FairSpec
CONSTANTS
    TooLong = {3}
    Complete = {1, 4}
    Garbled = Garbled
    Parts = 2
    Capacity = 1
    MaxFrames = 4
    MaxConn = 2
INVARIANT TypeOK
PROPERTIES ImplementsFeed NoGapOnAConnection FrameArrives ComesBack
