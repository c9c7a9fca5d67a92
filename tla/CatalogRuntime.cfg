SPECIFICATION Spec
CONSTANTS
    SerialMod = 8
    Order <- MCOrder
    Groups <- MCGroups
    Allowed <- MCAllowed
    Reserved <- MCReserved
    Members = {"m1", "m2"}
    Raws <- MCRaws
    MaxMembers <- MCLimit
    MaxActions <- MCLimit
    DryRun = {}
    ApprovalAbove <- MCApprovalAbove
    Approved <- MCApproved
    Burst = 3
    Rate = 2
    Faults = {"persist", "store"}
    MaxReceipts = 3
    MaxVersion = 2
    MaxMinutes = 1
    MaxBoots = 1
INVARIANTS
    StateFileLoads
    CommitsPersist
    ReconciliationsSettle
PROPERTIES
    OwnershipMovesByOwner
CHECK_DEADLOCK FALSE
