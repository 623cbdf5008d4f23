SPECIFICATION Spec
CONSTANTS
    Handlers = {p1, p2}
    Agents = {claude}
    Primary = claude
    JobEnds <- AnsweredOrSilent
    MaxTurns = 2
    Faults = {"crash", "choose", "refused", "lost"}
    MaxFaults = 1
    Streams = TRUE
    MayStop = TRUE
    MayRetarget = FALSE
SYMMETRY HandlerSymmetry
INVARIANTS
    TurnsInOrder
CHECK_DEADLOCK FALSE
