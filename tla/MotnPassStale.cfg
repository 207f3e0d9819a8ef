CONSTANTS
    netflix = netflix
    hulu = hulu
    All = All
    Service <- MCService
    Charted <- MCNetflix
    Upcoming <- MCNetflix
    Wants <- MCSoon
    Daily = 3
    RefreshAfter = 1
    ServicesAfter = 9
    SoonAfter = 2
    LookBack = 1
    KeepAdded = 3
    ServeFor = 2
    AddedPages = 1
    SoonPages = 2
    MaxPages = 2
    MaxDate = 2
    MaxFaults = 1
SPECIFICATION MotnSpec
INVARIANT LeavingNotTooOld
