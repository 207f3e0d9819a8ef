CONSTANTS
    t1 = t1
    Refresher = Refresher
    netflix = netflix
    disney = disney
    popular = popular
    added = added
    other = other
    us = us
    NoTask = NoTask
    List = List
    Task <- MCTask
    Service <- MCService
    Country <- MCCountry
    Trending <- MCAggregate
    Led <- MCNoRow
    PackageLists <- MCPackages
    Row <- MCThreeRows
    RowServices <- MCThreeServices
    RowCountry <- MCThreeCountry
    MaxPermits = 1
    Due = 1
    Ttl = 1
    MaxAge = 1
    MaxAsked = 2
    PerPass = 1
SPECIFICATION RowsSpec
INVARIANT LastAskedKept
PROPERTIES ExpiredIsReplaced FetchEnds
