CONSTANTS
    t1 = t1
    Refresher = Refresher
    netflix = netflix
    disney = disney
    popular = popular
    added = added
    other = other
    us = us
    NoTask = NoTask
    List = List
    Task <- MCTask
    Service <- MCTwoServices
    Country <- MCCountry
    Trending <- MCNoRow
    Led <- MCNoRow
    PackageLists <- MCPackages
    Row <- MCLacking
    RowServices <- MCLackingServices
    RowCountry <- MCLackingCountry
    MaxPermits = 1
    Due = 1
    Ttl = 2
    MaxAge = 2
    MaxAsked = 2
    PerPass = 1
SPECIFICATION RecoveringSpec
PROPERTY ExpiredIsReplaced
