SPECIFICATION FairSpec
CONSTANTS
    MaxContinues = 1
    AltModels = {}
    Handlers = {p1}
    JobEnds <- SerialEnds
    RunsFirst = FALSE
    MaxAttempts = 3
    MaxFaults = 1
    MaxPresses = 2
    CrashAt <- Anywhere
    MayExhaust = TRUE
INVARIANTS
    AttemptFollowsItsJob
PROPERTIES
    StopIsFinal
    DecisionIsMade
CHECK_DEADLOCK FALSE
