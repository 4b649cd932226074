SPECIFICATION FairSpec
CONSTANTS
    Caller = {p, q}
    none = none
    MaxConn = 2
    MaxWrites = 3
INVARIANTS
    TypeOK
    NoDanglingPointer
    WrittenInOrder
PROPERTIES
    KeepsTrying
    EveryCloseFreed
