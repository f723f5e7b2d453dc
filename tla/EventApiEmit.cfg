CONSTANTS
    MaxStarts = 1
    MaxOS = 1
SPECIFICATION Spec
CHECK_DEADLOCK FALSE
INVARIANTS
    EmitThrows
