CONSTANTS
    p1 = p1
    p2 = p2
    Procs = {p1, p2}
    None = None
    GuestCalls = {"work"}
    MaxCalls = 0
    MaxAborts = 1
    MaxClock = 0
    IdBefore <- IdOrder
    LogMayFail = FALSE
SPECIFICATION Spec
INVARIANT HolderCanProgress
