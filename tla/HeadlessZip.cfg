CONSTANTS
    MaxRuns = 4
    MaxSeconds = 3
    MaxStarts = 2
    FilesToKeep = 2
    UnlinkThrows = FALSE
SPECIFICATION Spec
CHECK_DEADLOCK FALSE
INVARIANTS
    HandOverInv
    KeepsTheNewest
    NothingIsLeft
PROPERTIES
    RunsArePacked
