CONSTANTS
    t1 = t1
    t2 = t2
    t3 = t3
    k1 = k1
    k2 = k2
    g1 = g1
    g2 = g2
    g3 = g3
    g4 = g4
    g5 = g5
    r1 = r1
    r2 = r2
    r3 = r3
    r4 = r4
    r5 = r5
    NoTask = NoTask
    NoKey = NoKey
    NoGate = NoGate
    Key <- MCKey
    Task <- MCTask
    Gate <- MCGate
    Request <- MCRequest
    Capacity = 2
    QueueMax = 2
SPECIFICATION GateSpec
INVARIANTS WorkBounded GateTells
PROPERTIES WantedGateStays WaitersMove KeepsPromise RequestsLeave
