CONSTANTS
    NumLayers = 2
    NumCells = 3
    Slots = 2
    Batch = 2
    WholeLayers = FALSE
    BulkTransfer = TRUE
    QueueCap = 3
    MetadataEndpoint = TRUE
    MaxResets = 1
    MaxLosses = 1
    MaxOthers = 1
    Files <- MCFiles
    Boards <- MCBoards
    Firmwares <- MCModern
    Timeout = 3
    MaxToggles = 2
SPECIFICATION HostFairSpec
CHECK_DEADLOCK FALSE
INVARIANTS
    KeysPointAtTables AppliedIsDurable ReportIsTrue
PROPERTIES
    UnlistedIsLeftAlone CommandsEnd
