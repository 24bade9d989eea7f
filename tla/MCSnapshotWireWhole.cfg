CONSTANTS
    Values <- MCValues
    Default = 0
    LEDS_PER_HALF = 2
    SCENE_CAPACITY = 2
    Layers = {0, 1}
    Snapshots <- MCSnapshots
    MaxTransfers = 1
    TxCapacity = 16
SPECIFICATION Spec
INVARIANT OnlyWholeSnapshotsCommit
CHECK_DEADLOCK FALSE
