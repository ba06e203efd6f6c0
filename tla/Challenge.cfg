SPECIFICATION Spec
CONSTANTS
    c1 = c1
    n1 = n1
    w1 = w1
    w2 = w2
    Challenges = {c1}
    Nonces = {n1}
    Workers = {w1, w2}
    Work <- MCWork
    RuleSets <- MCRuleSets
    DefaultTTL = 4
    DefaultCap = 4
    MaxTTL = 3
    Tolerance = 0
    MaxSkew = 1
    Second = 2
    MaxTime = 4
    MaxRestarts = 1
SYMMETRY Symmetry
INVARIANTS
    TypeOK
    AcceptedOnceInWindow
    RepeatOnlyIfAccepted
    TokenHonoured
CHECK_DEADLOCK FALSE
