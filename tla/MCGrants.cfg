CONSTANTS
    Written <- MCWritten
    Trimmed <- MCTrimmed
    Names <- MCNames
    Families <- MCFamilies
    Bodies <- MCBodies
    Cases <- MCCases
    Accepts <- MCAccepts
    NoSchema = NoSchema
    MaxGrants = 2
    MaxFamilies = 2
    Half = 32
    Millisecond = 2
    Second = 6
    DefaultMaxTimer = 12
    MaxMS = 40
SPECIFICATION Spec
INVARIANTS
    OnlyGrantedRuns
    ProtocolIsServed
    ValidCallPasses
    TimerWithinGrant
CHECK_DEADLOCK FALSE
