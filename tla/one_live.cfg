SPECIFICATION Spec
CONSTANTS
    MaxContinues = 1
    AltModels = {}
    Handlers = {p1, p2}
    JobEnds <- HungEnds
    RunsFirst = FALSE
    MaxAttempts = 3
    MaxFaults = 0
    MaxPresses = 1
    CrashAt = {}
    MayExhaust = FALSE
INVARIANT OneLiveJob
CHECK_DEADLOCK FALSE
