CONSTANTS
    Apps = {a1}
    Event = event
    Nobody = nobody
    Servers = {s1}
    AppCalls = {"start", "stop", "register", "deregister"}
    CallbackStops = {event}
SPECIFICATION FairSpec
PROPERTIES StopReturns
CHECK_DEADLOCK FALSE
