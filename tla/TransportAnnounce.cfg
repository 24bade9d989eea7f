CONSTANTS
    AutoSplit = TRUE
    TxCapacity = 2
    MaxEdges = 1
    MaxLinks = 2
    MaxBoots = 2
    MaxTraffic = 1
    MaxFaults = 1
SPECIFICATION FairSpec
INVARIANT AnnouncedInSession
PROPERTY HostsCatchUp
