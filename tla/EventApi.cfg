CONSTANTS
    MaxStarts = 3
    MaxOS = 2
SPECIFICATION Spec
CHECK_DEADLOCK FALSE
INVARIANTS
    ApiInv
    InitializedKnowsBoth
    EmitReachesTheCore
PROPERTIES
    InitializedComes
