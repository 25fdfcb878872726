CONSTANTS
    p1 = p1
    p2 = p2
    Procs = {p1}
    None = None
    GuestCalls = {"begin", "abort"}
    MaxCalls = 2
    MaxAborts = 1
    MaxClock = 0
    IdBefore <- IdOrder
    LogMayFail = FALSE
SPECIFICATION Spec
PROPERTY StopEndsRun
