CONSTANTS
    t1 = t1
    t2 = t2
    netflix = netflix
    disney = disney
    trending = trending
    popular = popular
    us = us
    NoTask = NoTask
    List = List
    Service <- MCService
    Country <- MCCountry
    Trending <- MCTrending
    Row <- MCRow
    RowServices <- MCRowServices
    RowCountry <- MCRowCountry
    PackageLists <- MCPackages
    Due = 1
    Ttl = 2
    MaxAge = 2
    Task <- MCTask
    Led <- MCLed
    MaxPermits = 2
    NoIndex = NoIndex
    DayHours = 3
    MaxHour = 13
    Film <- MCFilm
    Series <- MCSeries
    Admitted <- MCAdmitted
    Kind <- MCKind
    Mode <- MCMode
    Data <- MCData
    ValuesOf <- MCValuesOf
    Carries <- MCCarries
    Guessed <- MCGuessed
    Probability <- MCProbability
    LikeRow <- MCLikeRow
    Threshold <- MCThreshold
    Tables <- MCTables
    Asker <- MCAsker
    Question <- MCQuestion
    MinVotes = 10
    TopK = 1
    MinTitles <- MCMinTitles
    Only <- MCOnly
SPECIFICATION AnswersSpec
SYMMETRY Symmetry
INVARIANTS UpstreamCapped NoFetchOverFresh FreshIsWhole AnswersTell TitlesInv
PROPERTIES LastGoodKept LastGoodServed
