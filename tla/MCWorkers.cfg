SPECIFICATION MCWorkersSpec
CONSTANTS
    Objects = {o1}
    SpoolReaders = {r1}
    NoObject = NoObject
    MaxTokens = 2
    MaxSpoolFaults = 1
    MaxFeed = 2
    FeedLimit = 1
    AnaWorkers = {a1}
    MaxAnaAttempts = 2
    MaxAnaFaults = 1
    WorkerProcs = {k1, k2}
    NoProc = NoProc
    RuntimeLoops = {l1}
    MaxConsecutive = 2
    MaxRuntimeFaults = 1
    MaxCpFaults = 0
    OauthCallers = {c1, c2, c3}
    Lifecycle = c1
    NoCaller = NoCaller
    MaxPairs = 3
    PersistTries = 2
    MaxOauthFaults = 1
PROPERTIES
    NothingOutlives EveryItemSettles RotationExact DueIsRefreshed BadProcessStops GraceEnds
CHECK_DEADLOCK FALSE
