CONSTANTS
    Syscalls = {s1, s2}
    Results = {r1, r2}
    NoCall = NoCall
    NoResult = NoResult
    MaxCalls = 3
SPECIFICATION Spec
INVARIANTS
    JournalBeforeExecute
    JournalBeforeObserve
    ReplayAgrees
PROPERTY JournalProtocolHolds
