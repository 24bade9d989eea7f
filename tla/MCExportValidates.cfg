CONSTANTS
    NumLayers = 3
    Slots = 3
    Keyboards <- MCPlainModTap
    Others <- MCOthers
    OldFiles <- MCOldFiles
SPECIFICATION Spec
CHECK_DEADLOCK FALSE
INVARIANT ExportValidates
