SPECIFICATION Spec
CONSTANT Settings <- Mutations
INVARIANTS
    WorkersExclusive
PROPERTIES
    RemovedStaysAway
    CurrentWorkersExpireOnTime
CHECK_DEADLOCK FALSE
