CONSTANTS
    MaxRequests = 4
SPECIFICATION Spec
INVARIANTS
    RequestInv
    EmittedOnce
    EmittedIsOver
    CurrentIsActive
    RootKeepsItsTree
    EveryRootEmitted
