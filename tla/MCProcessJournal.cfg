CONSTANTS
    Payloads = {a, b}
    MaxLength = 4
    MaxRevision = 3
SYMMETRY PayloadSymmetry
SPECIFICATION Spec
INVARIANTS
    LoadFindsRecord
    RunningViewIsDurable
    EntriesShowView
PROPERTIES
    AbandonedFrozen
    StoreKeepsProtocol
