CONSTANTS
    Probe <- MCProbe
    Type <- MCType
    ModuleName <- MCModuleName
    MaxStarts = 3
SPECIFICATION Spec
INVARIANTS
    OffUntilRestart
    EnabledStaysOn
    SwitchInv
