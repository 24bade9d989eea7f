CONSTANTS
    Idle = Idle
    Predicates = {"layer", "connection", "layers", "maintenance"}
    Times = {0, 2}
    Attempts = 3
    Emitters = {1, 2, 3}
    Switches = {11, 12}
    SwitchOf <- MCSwitchOf
    EmitterZone <- MCEmitterZone
    NoSwitch = 0
    Gates = {"a", "b"}
    ArmLists <- MCArmLists
    MaxEntries = 2
    MaxMacros = 3
    SpaceSize = 8
    LongMacro = 2
    MaxLength = 2
    MaxFileMacros = 4
    MaxLosses = 1
    PullLayers = 3
    Slots = 3
    Keyboards <- PulledKeyboards
    Others <- PulledOthers
    OldFiles <- PulledOldFiles
    HidKeys = {2, 4, 38, 39, 40, 231, 255}
    Codes <- EveryCode
    MaxLayer = 17
    MaxIndex = 34
    Hosts = {"usb", "ble"}
    Leds = {1, 2, 3}
    Colours = {"red", "blue"}
    LightingCommands <- MCLightingCommands
    NumLayers = 2
    NumKeys = 2
    KeyActions = {"a", "b"}
    Names = {"n1", "n2"}
    KeymapCommands <- MCKeymapCommands
    BulkTransfer = TRUE
    Rounds = 2
    MaxForeign = 2
    ChunkSize = 2
    MaxRevision = 2
SPECIFICATION Spec
CHECK_DEADLOCK FALSE
INVARIANTS
    RuleIsWrittenOrRefused EntriesResolveAsWritten MacrosArrive
    PulledFileIsFaithful KeysRoundTrip KeymapReportIsTrue FailureCleansUp
PROPERTY
    SuccessIsExact
