SPECIFICATION AccessSpec
CONSTANTS
    Requests = {r1, r2}
    Creds = {k1, k2}
    Files = {f}
    Chains <- MCChains
    Policies = {"full", "skip"}
    None = None
    ConfiguredTTL = 0
    DefaultTTL = 2
    Timeout = 1
    MaxChanges = 2
    MaxTime = 4
    Clients = {a, b}
    LoadBalancer = lb
    Paths = {p}
    Ticks = 3
    AnswerTTL = 1
    CanaryTTL = 2
    MaxSize = 1
    MaxBodies = 3
    MaxReloads = 1
    MaxFailures = 1
SYMMETRY CheckSymmetry
INVARIANTS AccessTypeOK RejectedWasInvalid AcceptedWasValid SameAnswer ReplayIsKnown
CHECK_DEADLOCK FALSE
