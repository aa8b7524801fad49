SPECIFICATION Spec
CONSTANTS
    Clients = {c1}
    Triggers = {c1}
    Humans = {h1}
    Nothing = Nothing
    InWorkers = {w1, w2}
    OutWorkers = {v1, v2}
    MaxAttempts = 2
    MaxFaults = 1
SYMMETRY WorkerSymmetry
INVARIANTS
    TypeOK EchoSafe
PROPERTIES
    DecidedOnce TakeoverOrder
CHECK_DEADLOCK FALSE
