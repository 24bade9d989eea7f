SPECIFICATION SplitSpec
CONSTANTS
    Values <- MCValues
    Default = 0
    LEDS_PER_HALF = 2
    SCENE_CAPACITY = 2
    Layers = {0, 1}
    Snapshots <- MCSnapshots
    MaxTransfers = 2
    WireSnapshots <- MCWireSnapshots
    WireTransfers = 3
    TxCapacity = 16
    None = None
    HalfLeds = 40
    BoardLeds = 80
    EXTENSION_PARAM_CHUNK = 12
    SPLIT_APP_MSG_MAX = 26
    Messages <- MCLinkMessages
    Rules <- MCLinkRules
    Bytes = {0, 1, 2, 3, 5, 13, 39, 40, 80, 100, 101, 128, 192, 255}
    Shorter = 1
    DigestSnapshots <- MCDigestSnapshots
INVARIANTS
    TypeOK StagedFromOneTransfer CommittedBaseIntact
    CondGatesNeverMisattached WireIsSound AttestationIsExact
PROPERTY
    ImplementsAnyLink
CHECK_DEADLOCK FALSE
