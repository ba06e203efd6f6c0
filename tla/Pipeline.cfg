SPECIFICATION Spec
CONSTANTS
    w1 = w1
    w2 = w2
    c1 = c1
    c2 = c2
    Workers = {w1, w2}
    Clients = {c1, c2}
    Trusted = {c2}
    Kinds <- MCKinds
    Policies <- MCPolicies
    Scores = {1, 2}
    ChallengeAt = 1
    TarpitAt = 2
    Modes <- MCTarpit
    HasChallenge = TRUE
    Window = 1
    MaxHist = 2
    MaxIdle = 0
    MaxTime = 2
    MaxRequests = 3
SYMMETRY Interchangeable
CHECK_DEADLOCK FALSE
INVARIANTS
    TypeOK
    HistoryFaithful
    FailurePair
    TreatedAsScored
    LoggedAsTreated
