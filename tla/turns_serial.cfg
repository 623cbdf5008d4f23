SPECIFICATION FairSpec
CONSTANTS
    Handlers = {p1}
    Agents = {claude, codex}
    Primary = claude
    JobEnds <- Ends
    MaxTurns = 3
    Faults = {"crash", "refused"}
    MaxFaults = 1
    Streams = FALSE
    MayStop = FALSE
    MayRetarget = TRUE
INVARIANTS
    ResumesOwnSession
PROPERTIES
    MessagesLand
CHECK_DEADLOCK FALSE
