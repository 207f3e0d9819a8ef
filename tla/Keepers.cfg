CONSTANTS
    Corpus <- MCCorpus
    Listed <- MCListed
    Known <- MCKnown
    MediaOf <- MCMedia
    DateOf <- MCDates
    Seed <- MCKnown
    LastDate = 2
    PageSize = 1
    PageCap = 2
    DailyMax = 10
    SweepEvery = 1
    FillAfter = 2
    MaxAge = 2
    RollDays = 3
    AnswerAge = 1
    MaxDay = 3
    MaxMishaps = 2
    Authorities <- MCAuthorities
    Catalog = 2
    Rates <- MCRates
    Bulk <- MCBulk
    Rating <- MCRating
    Unrated = Unrated
    Reader <- MCReader
    DailyBudget = 2
    RefreshAfter = 1
    MemoCap = 1
    LastDay = 2
    MaxGeneration = 2
    MaxTroubles = 1
    Call <- MCCall
    Base = 2
    MaxPause = 8
    RetryAfters <- MCRetryAfters
    Day = 10
    MaxNow = 6
    MaxRefusals = 4
    Key <- MCKey
    MaxEntries = 2
    Putter <- MCPutter
    Saver <- MCSaver
    MaxUses = 3
    MaxLosses = 1
    Input <- MCKey
    Cap = 2
    MaxTick = 7
    NoVector = NoVector
    r1 = r1
    c1 = c1
    c2 = c2
    c3 = c3
    k1 = k1
    k2 = k2
    k3 = k3
    p1 = p1
    p2 = p2
    s1 = s1
    s2 = s2
SPECIFICATION KeepersSpec
INVARIANTS TmdbInv MaturityInv MemoInv
PROPERTIES WaitedOut EvictsByRecency
CHECK_DEADLOCK FALSE
