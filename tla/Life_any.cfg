CONSTANTS
    Apps = {a1, a2}
    Event = event
    Nobody = nobody
    Servers = {s1, s2}
    AppCalls = {"start", "stop", "register", "deregister"}
    CallbackStops = {a1, event}
SPECIFICATION FairSpec
INVARIANTS TypeOK TeardownUndisturbed ReportedStateSettles TerminatesOnlyAfterSelfStop
PROPERTIES StopReturnsUnlessCallback
CHECK_DEADLOCK FALSE
