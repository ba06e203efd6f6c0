SPECIFICATION SafeSpec
CONSTANTS
    h1 = h1
    h2 = h2
    a = a
    b = b
    Handlers = {h1, h2}
    Clients = {a, b}
    QueueSize = 2
    MaxEventRows = 2
    TrimDivisor = 2
    MaxRequests = 3
    MaxDeltas = 1
    MaxFaults = 1
SYMMETRY Symmetry
INVARIANTS
    TypeOK
    NothingVanishes
    RowsInOrder
    CloseFlushesQuiet
PROPERTY ImplementsLog
CHECK_DEADLOCK FALSE
