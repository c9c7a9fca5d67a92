SPECIFICATION Spec
CONSTANTS
    Settings <- DeniedChild
    LabelOrder <- MCLabelOrder
    MaxAliasChain = 3
    NegativeFloor = 1
    NegativeCeiling = 4
    DefaultNegative = 2
    PositiveCeiling = 4
INVARIANTS
    SynthesizedDenialsHold
CHECK_DEADLOCK FALSE
