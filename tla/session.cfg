SPECIFICATION Spec
CONSTANTS
    Viewers = {v1, v2}
    Streams <- TwoTurns
    Logs <- TwoLogs
    JobsOf <- TurnsAndTasks
    Stride = 9
    PageSize = 2
    MaxFaults = 1
SYMMETRY ViewerSymmetry
INVARIANTS
    ReaderFollows

    
CHECK_DEADLOCK FALSE
