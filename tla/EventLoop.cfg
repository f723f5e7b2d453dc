CONSTANTS
    Latency <- MCLatency
    Minute = 3
    MaxEnables = 2
    MaxStarts = 2
    MaxSamples = 3
    MaxTicks = 1
SPECIFICATION Spec
CHECK_DEADLOCK FALSE
INVARIANTS
    LoopInv
    ReportsTheSamples
    MonitoredOnce
PROPERTIES
    IdleProcessEnds
