CONSTANTS
    Subjects = {"chain", "panic", "magic", "hits"}
    Boards <- MCBoards
    MaxSleeps = 3
    MaxCables = 1
    MaxFrames = 2
    MaxFaults = 1
    Unreadable = {2}
    Stages = 1
    BootsModulus = 4
    MaxCrashes = 3
    MaxResets = 3
    Keys <- MCKeys
    Profiles = {"p1", "p2"}
    Controls = {"clear", "clear_all", "boot", "toggle", "light"}
    ActionOf <- OneOfEach
    QueueDepth = 1
    MagicTxCapacity = 1
    MaxPresses = 3
    MaxHostCalls = 1
    MaxDrops = 1
    Width = 2
    HitTxCapacity = 2
    HitCapacity = 1
    MaxHitPresses = 1
SPECIFICATION FairSpec
CHECK_DEADLOCK FALSE
INVARIANTS
    BootShowsThePast ClearsWhatWasAsked EachPressHitsOnce
PROPERTIES
    OffIsDark ReportSurvives ChainSettles BootReachesPeripheral
