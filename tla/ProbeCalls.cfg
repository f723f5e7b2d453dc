CONSTANTS
    Ops <- Each
    MaxRequests = 3
    MaxCalls = 3
    MaxSwitches = 1
    MaxEnds = 2
SPECIFICATION CallSpec
INVARIANTS
    CallInv
    EndedIsStopped
    MeasuredByItself
    RootIsWhole
