CONSTANTS
    Submissions = {s1, s2, s3}
    Workers = {w1, w2}
    None = None
SPECIFICATION FairSpec
INVARIANTS
    OnOneWorker
    ReleasedAfterUse
PROPERTIES
    ResultArrives
    CloseReturns
    PoolKeepsPromise
CHECK_DEADLOCK FALSE
