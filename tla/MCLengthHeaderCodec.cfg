SPECIFICATION FairSpec
CONSTANTS
    zero = zero
    one = one
    longest = longest
    oversize = oversize
    Garbled = Garbled
    Message <- MCMessage
    Size <- MCSize
    MaxLen = 3
    MaxSent = 3
INVARIANTS
    OnFrameBoundary
    HangsUpOnOversize
    LeftoverBounded
PROPERTIES
    ImplementsChannel
    EverySendAnswered
