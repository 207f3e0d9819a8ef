CONSTANTS
    s3 = s3
    s1 = s1
    s2 = s2
    w1 = w1
    c1 = c1
    NoShow = NoShow
    Changed = Changed
    Nothing = Nothing
    Show <- MCShow
    Caller <- MCCaller
    BeforeMaintenance = 1
    UpdatesEvery = 1
    MissFor = 1
    LookupFor = 2
    SafetyRefresh = 1
    MaxCalls = 2
    Series <- MCTwoSeries
    Title <- MCTitle
    Group <- MCTwoGroup
    Refused <- MCNone
    WantedFor = 2
    MaxDay = 0
    MaxMishaps = 1
    AtStart = AtStart
    Loader <- MCLoader
    MaxDrops = 2
    MaxBadLoads = 2
    l1 = l1
    l2 = l2
    NoIndex = NoIndex
    q1 = q1
    b1 = b1
    x = x
    y = y
    Nobody = Nobody
    Asker <- MCAsker
    Batch <- MCBatch
    Text <- MCText
    TextsOf <- MCTextsOf
    CacheMax = 1
    Idle = 1
    Client <- MCClient
    Grace = 2
    MaxClock = 4
    k1 = k1
    k2 = k2
    p1 = p1
    p2 = p2
    f1 = f1
    f2 = f2
    NoGeneration = NoGeneration
SPECIFICATION ServingSpec
INVARIANTS LoadInv GraceKept
PROPERTIES WantedIsAnswered GetEnds WorkKept IdleFreed StopEnds RowReachesFile
CHECK_DEADLOCK FALSE
