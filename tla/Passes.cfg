CONSTANTS
    netflix = netflix
    hulu = hulu
    All = All
    Service <- MCService
    Charted <- MCNetflix
    Upcoming <- MCNetflix
    Wants <- MCWants
    Daily = 2
    RefreshAfter = 1
    ServicesAfter = 9
    SoonAfter = 2
    LookBack = 1
    KeepAdded = 3
    ServeFor = 2
    AddedPages = 1
    SoonPages = 1
    MaxPages = 2
    MaxDate = 2
    MaxFaults = 1
    s1 = s1
    s2 = s2
    s3 = s3
    w1 = w1
    c1 = c1
    NoShow = NoShow
    Changed = Changed
    Nothing = Nothing
    Show <- MCShow
    Caller <- MCCaller
    BeforeMaintenance = 1
    UpdatesEvery = 1
    MissFor = 1
    LookupFor = 2
    SafetyRefresh = 1
    MaxCalls = 2
    Series <- MCSeries
    Group <- MCGroup
    Title <- MCTitle
    Refused <- MCNone
    WantedFor = 1
    MaxDay = 1
    MaxMishaps = 1
SPECIFICATION PassesSpec
INVARIANTS BudgetKept NoHoleInAdditions QueueMatches WaitersTold NothingLeftBehind MaintenanceTurns
PROPERTY AnswerStays
