CONSTANTS
    p1 = p1
    p2 = p2
    Procs = {p1, p2}
    None = None
    GuestCalls = {"begin"}
    MaxCalls = 1
    MaxAborts = 1
    MaxClock = 1
    IdBefore <- IdOrder
    LogMayFail = FALSE
SPECIFICATION Spec
INVARIANTS
    NobodyStranded
    OneProcessRuns
    LogIsCurrent
PROPERTIES
    HistoryFrozen
    QuantaAsPromised
