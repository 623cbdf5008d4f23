SPECIFICATION Spec
CONSTANTS
    Parts = {"worker", "approvals"}
    Sessions = {s1}
    Commands = {c1}
    Pages = {p1, p2}
    MaxSessions = 1
    MaxCrashes = 1
    MaxStuck = 1
    Conns = {n1}
    Shared = {n1}
    Hosts = {h1, h2}
    Kinds = {"http", "connect"}
    Budget = 1
    Chunk = 2
    Burst = 1
    PerHost = 1
    MaxOpen = 2
    Checks = {"limits"}
    Tolerance = 2
    Stale = 3
    MaxSent = 2
    MaxClock = 7
    TimeBox = 2
    Money = 2
    Steps = 1
    SiteLife = 2
    MaxTime = 4
    Calls = {c1, c2, c3}
    Alike = {c1, c2}
    MaxFaults = 1
    HostOf <- TwoSites
    SummaryOf <- LinesOfCalls
INVARIANTS
    AllowedByTheOwner
PROPERTIES
    RequestsAreAnswered
    CallsAreAnswered
CHECK_DEADLOCK FALSE
