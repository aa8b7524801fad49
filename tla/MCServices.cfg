SPECIFICATION MCServicesSpec
CONSTANTS
    MasterMsgs = {1, 2, 3}
    MasterHandlers = {1, 2}
    Masters = {ma, mb}
    FirstMaster = ma
    NoMaster = NoMaster
    MaxCallbacks = 3
    MaxMasterFaults = 1
    Canonicals = {1, 2}
    IdSessions = {1, 2}
    NamedLinks = {"deal", "email"}
    MaxReviews = 2
    MaxLinkOps = 3
    MaxGlueOps = 3
    CrmContacts = {1, 2}
    CrmCards = {1, 2, 3}
    CardOps = {1, 2}
    MaxLinkedCustomers = 2
    MaxContactPages = 2
    MaxCardChanges = 1
    MaxAttempts = 8
    BreakerThreshold = 1
    MaxTeyaFaults = 1
    ConfirmMsgs = {1, 2}
    AdmitCalls = {1, 2}
    Contents = {1, 2}
    BookWorkers = {1, 2}
    MaxCreateAttempts = 2
    MaxDialogEvents = 2
    MaxBookFaults = 2
    PiiCallers = {p1, p2, p3}
    MaxReferenceRetries = 2
    MaxPiiFaults = 1
    MaxFeed = 2
    FeedLimit = 1
    AnaWorkers = {1, 2}
    MaxAnaAttempts = 2
    MaxAnaFaults = 1
    Objects = {o1}
    SpoolReaders = {1, 2}
    NoObject = NoObject
    MaxTokens = 2
    MaxSpoolFaults = 1
    WorkerProcs = {k1, k2}
    NoProc = NoProc
    RuntimeLoops = {l1, l2}
    MaxConsecutive = 2
    MaxRuntimeFaults = 0
    MaxCpFaults = 1
    Workers = {w1, w2}
    NoWorker = NoWorker
    MaxReservations = 4
    MaxDeletes = 2
    MirrorJobs = {j1}
    MaxMirrorAttempts = 2
    MaxMoves = 1
    MaxMirrorFaults = 1
INVARIANTS
    ServicesTypeOK RequestServedOnce OneBookingOnePair OneHonestWorker OneTrackedDeal BreakerProtects
PROPERTIES
    CommandOnceAsPreviewed OneIdentity CardOnVerifiedContact BooksAsConfirmed PlaintextOnce LeadFilledOnce SpoolKeepsHanded FencedRead PublicationCurrent MirrorTruthful
CHECK_DEADLOCK FALSE
VIEW ServicesView
