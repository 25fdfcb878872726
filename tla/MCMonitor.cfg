CONSTANTS
    Ops <- MCOps
    Labels <- MCLabels
    Carries <- MCCarries
    Forbids <- MCForbids
    RequireApproval <- MCRequireApproval
    HandlerLabels <- MCHandlerLabels
    None = None
    MaxProcs = 2
    MaxCalls = 2
    MaxRevision = 2
    MaxTasks = 2
SPECIFICATION Spec
INVARIANTS
    TaintCoversGiven
    CrossingApproved
    HistoryKeepsProvenance
