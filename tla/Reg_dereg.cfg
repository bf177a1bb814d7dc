CONSTANTS
    Servers = {s1}
    Lifetimes = {2}
    LifetimeWrites = {}
    ThresholdNum = 1
    ThresholdDen = 2
    SendTimeout = 1
    ReconnectEnabled = TRUE
    MaxRetries = 0
    InitialBackoff = 1
    MaxBackoff = 3
    Multiplier = 2
    AttemptMod = 4
    Modes = {"up", "down"}
    InstanceDeletes = FALSE
    MaxDepth = 1
    MaxOps = 3
SPECIFICATION Spec
PROPERTIES NoUnaskedRegistration
