SPECIFICATION Spec
CONSTANTS
    Zones <- MCZones
    Workers <- MCWorkers
    Route <- MCRoute
    Targets <- MCTargets
    Attempts = 2
    Callers = {"c1", "c2"}
    MaxSerial = 2
INVARIANTS
    TypeOK
    QueueDiscipline
PROPERTIES
    LastSOAReachesTargets
    CloseTerminates
CHECK_DEADLOCK FALSE
