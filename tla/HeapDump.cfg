CONSTANTS
    Forms = {"callback", "file+callback"}
    MaxCalls = 4
SPECIFICATION Spec
CHECK_DEADLOCK FALSE
INVARIANTS
    DumpInv
    CallbackContract
PROPERTIES
    BusyEnds
