CONSTANTS
    Module <- MCModule
    MaxRequires = 3
SPECIFICATION LoaderSpec
CHECK_DEADLOCK FALSE
INVARIANTS
    LoaderInv
