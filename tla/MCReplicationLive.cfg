CONSTANTS
    TxCapacity = 4
    RxCapacity = 1
    PeriphTxCapacity = 2
    Generations = 16
    RESYNC_FAST_ATTEMPTS = 2
    Gated = FALSE
    MaxRevision = 2
    MaxContext = 2
    MaxStatus = 1
    MaxRefusals = 1
    MaxFaults = 1
SPECIFICATION FairSpec
PROPERTY EventuallyReplicated
