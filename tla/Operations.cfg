SPECIFICATION OpsSpec
CONSTANTS
    MaxEntries = 5
    MaxFaults = 1
    MaxRuns = 3
    Clients = {c1, c2}
    Sections = {s1, s2}
    RawDocs <- MCRawDocs
    Signals = {g1, g2}
    EngineName <- MCEngineName
    MaxSaves <- MCMaxSaves
    Custom = {x}
    Paths = {p1, p2}
    DefaultDecoys = {p1}
    FormValues = {1}
    MaxFailed = 1
    None = None
    Bad = Bad
    Broken = Broken
    s1 = s1
    s2 = s2
    g1 = g1
    g2 = g2
    g3 = g3
SYMMETRY ClientSymmetry
INVARIANTS OpsTypeOK LostEntriesShow TableIsOneChain SavedAsAsked ConsoleIsCurrent
CHECK_DEADLOCK FALSE
