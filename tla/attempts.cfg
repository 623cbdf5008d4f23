SPECIFICATION AttemptsSpec
CONSTANTS
    Agents = {"claude", "codex", "opencode", "api", "aider"}
    Available = {"claude", "codex", "opencode", "api"}
    Reads <- AgentReads
    Jobs <- AllJobs
    MaxTries = 2
    MayCommit = TRUE
    MayHold = TRUE
    MaxFaults = 1
    MaxContinues = 1
    AltModels = {"oc", "mm"}
    MaxAttempts = 8
    Settings <- OwnedOrAlone
INVARIANTS
    OneAgentAtATime
    OkIsEarned
    PushedIsThePatch
    DoneIsRecent
    AutomaticChainBounded
PROPERTIES
    OthersWorkStays
    EveryJobEnds
CHECK_DEADLOCK FALSE
