SPECIFICATION XSpec
CONSTANTS
    SerialMod = 64
    PerDay = 3
    MaxDeltas = 2
    ZoneNames <- XZones
    Procs = {"p1", "p2"}
    Persisted = {}
    Messages <- SameTTL
    Images <- XImages
    InitialFiles <- XFiles
    DefaultTTL = 1
    FirstDay = 4
    Faults = {}
    MaxJobs = 4
    MaxDays = 0
    MaxBoots = 0
    Secondaries = {"s1"}
    ZoneOfSecondary <- XZoneOf
    AllowAXFRFallback = TRUE
INVARIANTS
    CopyIsAPublishedVersion
    EveryAnswerApplies
CHECK_DEADLOCK FALSE
