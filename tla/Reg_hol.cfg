CONSTANTS
    Servers = {s1, s2}
    Lifetimes = {1}
    LifetimeWrites = {}
    ThresholdNum = 1
    ThresholdDen = 2
    SendTimeout = 0
    ReconnectEnabled = TRUE
    MaxRetries = 0
    InitialBackoff = 1
    MaxBackoff = 1
    Multiplier = 2
    AttemptMod = 2
    Modes = {"up", "down"}
    InstanceDeletes = FALSE
    MaxDepth = 1
    MaxOps = 3
SPECIFICATION FairSpec
PROPERTIES ReachableServerRecovers
