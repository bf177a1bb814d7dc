CONSTANTS
    TicksPerSecond = 2
    Mod32 = 1073741824
    Paths <- MCPaths
    Bodies <- MCBodies
    Methods = {"GET", "PUT", "POST", "DELETE"}
    GpsAnswers <- MCGps
    Suggested = {0, 65535}
    Configs <- MCConfigs
    Settings <- MCSettings
    ErrorCodes <- MCErrorCodes
    MaxOps = 3
SPECIFICATION Spec
CHECK_DEADLOCK FALSE
INVARIANTS TypeOK DecodesWhatWasSent AnswerDescribesObject PositionFromValidFix ErrorsNotMasked
PROPERTIES ChangedReadsBack InstanceWriteAppliesValid OthersKept CreatedUnlessWrapped
