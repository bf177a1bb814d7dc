CONSTANTS
    Servers = {s1}
    Lifetimes = {4}
    LifetimeWrites = {2, 6}
    ThresholdNum = 1
    ThresholdDen = 2
    SendTimeout = 1
    ReconnectEnabled = TRUE
    MaxRetries = 2
    InitialBackoff = 1
    MaxBackoff = 3
    Multiplier = 2
    AttemptMod = 4
    Modes = {"up", "down", "sick"}
    InstanceDeletes = TRUE
    MaxDepth = 2
    MaxOps = 4
SPECIFICATION Spec
INVARIANTS IteratorsValid RegisteredMeansRegistered BoundedSkew RetriesBounded
