SPECIFICATION Spec
CONSTANTS
    Parts = {"runner", "files", "knowledge", "skills", "tokens", "fleet", "placement", "memory", "desk", "bench", "settings", "account", "proof"}
    Pair = {x1, x2}
    JobHarnesses = {"claude", "codex", "opencode"}
    Blocks <- FourBlocks
    Pieces = 2
    Calls = {"t1"}
    Files = {"f1", "f2", "f3"}
    SizeOf <- ThirdTooLarge
    Programs = {}
    Texts = {"x", "s"}
    Secrets = {"s"}
    Teams = {"team"}
    Endings <- TwoEndings
    Tabs = {x1, x2, t3}
    Bodies = {"a", "b"}
    Audiences = {"private", "public"}
    Projects = {"p"}
    Machines = {1, 2}
    FleetAgents = {"cc", "cx"}
    Windows = {"5h", "week"}
    Readings <- FourReadings
    Chain <- TwoAgents
    PlacedTasks = {"a"}
    PlacedOn = {"cc", "cx"}
    Paid = {"cc"}
    OwnPlans = {"cx"}
    Handlers = {x1, x2, pump}
    SetAgents = {"claude", "codex"}
    AccountTasks = {"k1", "k2"}
    OwnTables = {"settings"}
    KeyedTables = {"lines", "attempts"}
    Statics = {"s1"}
    Routes = {"r1", "r2"}
    Families = {"m", "n"}
    Catalogs <- ThreeCatalogs
    StepLimit = 1
    Override = 0
    MaxRestarts = 1
    MaxTurns = 3
    MaxFiles = 2
    MaxFileSize = 2
    MaxMessageSize = 2
    MaxDeaths = 1
    MaxCapture = 3
    MaxDays = 2
    MaxRows = 2
    MaxSeen = 2
    MaxVersions = 3
    MaxFailures = 1
    Cap = 2
    MaxCost = 2
    MaxAttempts = 3
    MaxUnread = 2
    MaxRefusals = 2
    MaxReports = 3
    MaxReads = 2
    MaxLost = 2
    MaxExpiries = 2
    MaxUnanswered = 2
    Budget = 1
    MaxTargets = 2
    MaxTasks = 2
    MaxMishaps = 1
    Groups = 1
    TaskCount = 2
    MaxActive = 1
    DailyTasks = 3
    MaxFaults = 1
    MaxAborts = 1
SYMMETRY Symmetry
INVARIANTS
    SaidOnce
    WholeOrNothing
    NoTextTwice
    SavesAreKept
    BudgetHolds
    ChoosesRoom
    TaughtOnce
    AnswersAreTrue
    OneTaskPerKey
    PublishedWhole
    ErasedIsGone
    DoneIsShown
    SitesAreStopped
CHECK_DEADLOCK FALSE
