SPECIFICATION ProcessSpec
CONSTANTS
    None = None
    Community = {}
    MaxBayesEntries = 2
    SampleSize = 2
    PostNum = 1
    PostDen = 2
    AutoNum = 0
    SeedAgents = 2
    MaxUpdates = 2
    MaxReloads = 1
    MaxEdits = 2
    MaxTicks = 3
    MaxRestarts = 1
    MaxErrors = 0
    TarpitThreshold = 5
    ConfNum = 1
    FalseNum = 1
    Den = 2
    MaxSuggestions = 2
    SampleLimit = 2
    MaxEvents = 3
    MaxCycles = 2
    MaxRefused = 1
    MaxBytes = 3
    MaxLine = 2
    Retention = 1
    MaxLines = 5
    MaxTime = 3
    MaxFailures = 2
    BufSize = 2
    Counters = {c1, c2}
    Polled = {c1}
    MaxCount = 2
    MaxRequests = 2
    MaxEventRows = 2
    Share = 2
    ClientOf <- MCClientOf
    MaxRows = 4
    MaxDumps = 3
    MaxFaults = 2
    Clients = {1, 2}
    Trusted = {2}
    Servers = {1, 2}
    FleetPoints = {0}
    LearnedPoints = {30}
    HoneypotPaths = {"/x"}
    ChallengeAt = 40
    TarpitAt = 60
    HistoryWindow = 2
    MaxHistory = 3
    RepeatWindow = 0
    ToolMin = 2
    HmmMin = 3
    GraphMin = 2
    CookieMin = 2
    FanoutMin = 2
    Moment = 0
    MaxClock = 2
    MaxScored = 3
    Addresses = {1, 2}
    Calls = {1, 2}
    DefaultWindow = 1
    DefaultPrints = 1
    MaxIdle = 1
    MaxNow = 3
    MaxObserved = 3
    Width = 2
    Numerics <- MCNumerics
    Settings <- MCSettings
    MinRows = 2
    Pairs <- MCPairs
    Vectors <- MCVectors
    MinMined = 2
    Requests <- MCRequests
    Ext <- MCExt
    Words <- MCWords
    Plain <- MCPlain
    MinSuggested = 1
    Shapes <- MCShapes
    Families <- MCFamilies
    Reloads <- MCReloads
    Facts <- MCFacts
    Detectors <- MCDetectors
    Lower <- MCLower
    Registry <- MCRegistry
    Reputation <- MCReputation
    CanaryOwner <- MCCanaryOwner
    Rotation <- MCRotation
    FanoutTiers <- MCFanoutTiers
    BundleTiers <- MCBundleTiers
    MaxFits = 2
    MaxStarts = 1
INVARIANT LabelledByRules
CHECK_DEADLOCK FALSE
