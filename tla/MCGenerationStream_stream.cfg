CONSTANTS
    MaxAttempts = 2
    Heartbeat = 2
    IdleTimeout = 6
    Latency = 1
    MaxStall = 2
    MaxWire = 2
SPECIFICATION FairSpec
CHECK_DEADLOCK FALSE
INVARIANTS
    NoFalseTimeout
    PageIsTruthful
PROPERTIES
    CarriesOneGeneration
    PageLeavesProgress
