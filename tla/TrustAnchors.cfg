SPECIFICATION Spec
CONSTANTS
    k1 = k1
    k2 = k2
    k3 = k3
    Keys <- MCKeys
    Eligible <- MCKeys
    Bootstrap <- MCBootstrap
    TTLs <- MCTTLs
    AddHoldDown = 2
    RemoveHoldDown = 1
    MaxHold = 2
    MaxFaults = 2
    Settleable <- MCSettleable
INVARIANTS
    TypeOK
    AnchorsSound
PROPERTIES
    HoldDownRespected
    RevocationIsFinal
    PublishedKeysAdopted
CHECK_DEADLOCK FALSE
