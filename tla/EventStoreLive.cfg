SPECIFICATION Spec
CONSTANTS
    h1 = h1
    h2 = h2
    a = a
    b = b
    Handlers = {h1, h2}
    Clients = {a}
    QueueSize = 1
    MaxEventRows = 2
    TrimDivisor = 2
    MaxRequests = 2
    MaxDeltas = 1
    MaxFaults = 1
PROPERTY QueueDrains
CHECK_DEADLOCK FALSE
