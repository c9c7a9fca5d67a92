SPECIFICATION Spec
CONSTANTS
    SerialMod = 8
    PerDay = 3
    MaxCNAMEHops = 3
    LabelOrder <- Order
    PrefixBits = 1
    AddressBits = 2
    Configs <- AllConfigs
INVARIANTS
    AuthoritativeAnswersHold
    
    LimitersKeepBooks
PROPERTIES
    SlowClientsAdmitted
CHECK_DEADLOCK FALSE
