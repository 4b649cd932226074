SPECIFICATION FairSpec
CONSTANTS
    empty = empty
    cut = cut
    whole = whole
    NoImage = NoImage
    Image <- MCImage
    Size <- MCSize
    Complete = {whole}
    MAX_TOTAL_IMAGE_SIZE = 6
    UintMod = 16
    MaxAccepted = 5
INVARIANTS
    NoPopOfEmptyQueue
    AccountingExact
    QueueBounded
PROPERTIES
    RejectedOnlyWhenFull
    ImplementsFifo
    EveryImageTaken
