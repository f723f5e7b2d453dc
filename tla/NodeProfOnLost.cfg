CONSTANTS
    Thresholds = {0, 1, 1000}
    JsonUsed = FALSE
    RemoteClient = FALSE
    WatchdogBuilt = TRUE
    MaxCommands = 3
    MaxStarts = 2
SPECIFICATION Spec
CHECK_DEADLOCK FALSE
PROPERTIES
    OnIsObeyed
