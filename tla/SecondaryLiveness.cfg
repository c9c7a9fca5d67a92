SPECIFICATION Spec
CONSTANT Settings <- Liveness
PROPERTIES
    SerialsAdvance
    
    ExpiredZonesWithdrawn
    CatchesUp
CHECK_DEADLOCK FALSE
