SPECIFICATION FairSpec
CONSTANTS
    SerialMod = 32
    PerDay = 3
    MaxDeltas = 2
    ZoneNames <- TwoZones
    Procs <- OneProcs
    Persisted = {"z1"}
    Messages <- TwoMessages
    Images <- TwoImages
    InitialFiles <- TwoFiles
    DefaultTTL = 1
    FirstDay = 4
    Faults = {"write", "rename", "sync"}
    MaxJobs = 3
    MaxDays = 0
    MaxBoots = 1
PROPERTIES
    WritersAreAtomic
    EveryRequestAnswered
CHECK_DEADLOCK FALSE
