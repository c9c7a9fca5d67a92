SPECIFICATION Spec
CONSTANTS
    Settings <- MCSettings
    LabelOrder <- MCLabelOrder
    MaxAliasChain = 3
    NegativeFloor = 1
    NegativeCeiling = 4
    DefaultNegative = 2
    PositiveCeiling = 4
INVARIANTS
    LookupsDisciplined
    CacheSound
    AnswersAreTrue
    
PROPERTIES
    CallersReturn
CHECK_DEADLOCK FALSE
