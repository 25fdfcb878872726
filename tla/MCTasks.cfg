CONSTANTS
    None = None
    TTL = 1
    Duration = 1
    Decisions = {"approved", "denied"}
    MaxPosition = 1
    MaxRevision = 2
    MaxTasks = 2
    MaxClock = 2
    MaxRestarts = 1
SPECIFICATION FairSpec
INVARIANTS
    OneTaskPerCall
    ParkedOnTask
    ServedAsDecided
PROPERTIES
    SettlesOnce
    DeadlinesSettle
    SettledWakes
