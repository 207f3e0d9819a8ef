CONSTANTS
    t1 = t1
    t2 = t2
    netflix = netflix
    disney = disney
    trending = trending
    popular = popular
    us = us
    NoTask = NoTask
    List = List
    Service <- MCService
    Country <- MCCountry
    Trending <- MCTrending
    Row <- MCRow
    RowServices <- MCRowServices
    RowCountry <- MCRowCountry
    PackageLists <- MCPackages
    Due = 1
    Ttl = 2
    MaxAge = 2
    Task <- MCTask
    Led <- MCLed
    MaxPermits = 1
SPECIFICATION FetchSpec
PROPERTY BlipKeepsRow
