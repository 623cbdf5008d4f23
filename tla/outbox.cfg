SPECIFICATION FairSpec
CONSTANTS
    MaxEvents = 2
    Publishers = {p1, p2}
    Batch = 2
    Lease = 1
    SendTimeout = 1
    MaxBackoff = 1
    DeadAfterRefusals = 1
    DeadAfterAttempts = 2
    Answers = {"ok", "lost", "failed", "refused"}
    MayDawdle = FALSE
    MaxFaults = 1
INVARIANTS
    TwoOnlyWhenLate
PROPERTIES
    EverySettles
