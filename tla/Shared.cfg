CONSTANTS
    p1 = p1
    p2 = p2
    w1 = w1
    w2 = w2
    k1 = k1
    k2 = k2
    k3 = k3
    NoGeneration = NoGeneration
    Putter <- MCPutter
    Writer <- MCWriter
    Key <- MCThreeKeys
    MaxEntries = 2
    MaxPuts = 3
    MaxClock = 1
    MaxRestarts = 1
    e1 = e1
    s1 = s1
    r1 = r1
    Post <- MCPost
    Search <- MCSearch
    Rank <- MCRank
    Permits = 1
    Bodies = 1
    Cpus = 1
SPECIFICATION SharedSpec
SYMMETRY Symmetry
INVARIANTS SavedOrPending ProxyInv
PROPERTIES FileNeverGoesBack NewestSurvive
CHECK_DEADLOCK FALSE
