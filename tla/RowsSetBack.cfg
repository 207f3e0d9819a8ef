CONSTANTS
    p1 = p1
    p2 = p2
    w1 = w1
    w2 = w2
    k1 = k1
    k2 = k2
    k3 = k3
    NoGeneration = NoGeneration
    Putter <- MCPutter
    Writer <- MCWriter
    Key <- MCThreeKeys
    MaxEntries = 2
    MaxPuts = 3
    MaxClock = 1
    MaxRestarts = 0
SPECIFICATION Spec
SYMMETRY Symmetry
PROPERTY NewestAlwaysSurvive
CHECK_DEADLOCK FALSE
