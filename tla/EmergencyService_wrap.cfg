SPECIFICATION Spec
CONSTANTS
    MaxInputs = 1
    MaxGroups = 1
    LiftMultipleDelay = 0
    CollisionMultipleDelay = 0
    Wrap = 4
    Requests <- DelayedLift
    PressDelays = {0}
    HlTimeout = 2
    RetryInterval = 1
    StatusPeriod = 2
    HighLevelValues <- SignOfLife
INVARIANTS
    SilenceStaysEngaged
VIEW TimeView
