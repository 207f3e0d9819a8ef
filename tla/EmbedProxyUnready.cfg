CONSTANTS
    e1 = e1
    s1 = s1
    r1 = r1
    Post <- MCPost
    Search <- MCSearch
    Rank <- MCRank
    Permits = 1
    Bodies = 1
    Cpus = 1
SPECIFICATION ProxySpec
INVARIANT UnrankedStaysShort
CHECK_DEADLOCK FALSE
