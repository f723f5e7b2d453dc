CONSTANTS
    Thresholds = {0, 1, 1000}
    JsonUsed = TRUE
    RemoteClient = TRUE
    WatchdogBuilt = TRUE
    MaxCommands = 6
    MaxStarts = 3
SPECIFICATION Spec
CHECK_DEADLOCK FALSE
INVARIANTS
    ProfilerOnWhenEnabled
    QuietWhenStopped
    TextModeInv
PROPERTIES
    OffIsObeyed
    ThresholdTakesEffect
