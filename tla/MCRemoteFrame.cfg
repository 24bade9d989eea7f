CONSTANTS
    FRAME_CHUNK_CELLS = 2
    FRAME_CHUNK_SIZE = 4
    Totals = {3, 5}
    Offsets = {0, 4}
    TxCapacity = 1
    RequestIds = 16
    MaxRequests = 2
    MaxFrames = 3
SPECIFICATION FairSpec
INVARIANTS TypeOK PageIsUntorn PageIsWholeAndFresh RefusedOnlyIfDisturbed
PROPERTY EveryRequestAnswered
