CONSTANTS
    TxCapacity = 5
    RxCapacity = 1
    PeriphTxCapacity = 2
    Generations = 16
    RESYNC_FAST_ATTEMPTS = 2
    Gated = TRUE
    MaxRevision = 1
    MaxContext = 1
    MaxStatus = 0
    MaxRefusals = 1
    MaxFaults = 1
SPECIFICATION FairSpec
PROPERTY MismatchSchedulesSnapshot
