SPECIFICATION Spec
CONSTANTS
    Byte = {0, 1, 2}
    Zero = 0
    Chunk <- MCChunk
    kCheapPrepend = 2
    kInitialSize = 3
    MaxContent = 5
INVARIANTS
    TypeOK
    MemoryBounded
PROPERTIES
    ImplementsQueue
