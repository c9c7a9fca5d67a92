SPECIFICATION Spec
CONSTANTS
    SerialMod = 32
    PerDay = 3
    MaxDeltas = 2
    ZoneNames <- OneZone
    Procs <- OneProcs
    Persisted <- OneZone
    Messages <- OneMessages
    Images <- OneImages
    InitialFiles <- OneFiles
    DefaultTTL = 1
    FirstDay = 4
    Faults = {"write", "rename"}
    MaxJobs = 3
    MaxDays = 1
    MaxBoots = 1
INVARIANTS
    TypeOK
    JournalIsExact
    PublishedZonesSound
PROPERTIES
    RestartKeepsUpdates
CHECK_DEADLOCK FALSE
