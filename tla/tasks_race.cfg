SPECIFICATION Spec
CONSTANTS
    MaxContinues = 1
    AltModels = {}
    Handlers = {p1, p2}
    JobEnds <- HungEnds
    RunsFirst = TRUE
    MaxAttempts = 3
    MaxFaults = 1
    MaxPresses = 0
    CrashAt <- Anywhere
    MayExhaust = FALSE
SYMMETRY HandlerSymmetry
INVARIANTS
    OneFollowUpPerEnding
CHECK_DEADLOCK FALSE
