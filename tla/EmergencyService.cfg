SPECIFICATION Spec
CONSTANTS
    MaxInputs = 1
    MaxGroups = 1
    LiftMultipleDelay = 0
    CollisionMultipleDelay = 0
    Wrap = 4
    Requests <- DelayedStop
    PressDelays = {0}
    HlTimeout = 2
    RetryInterval = 1
    StatusPeriod = 2
    HighLevelValues <- ClearAll
INVARIANTS
    TypeOK
    ReasonsExact
    LatchHolds
    ReportedInTime
    SilenceEngages
VIEW TimeView
