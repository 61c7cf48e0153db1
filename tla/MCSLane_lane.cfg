SPECIFICATION LiveSpec

CONSTANTS
    Keys = {1}
    Buckets = {1}
    Pack <- MCPack
    Deltas <- MCDeltas
    p1 = p1
    p2 = p2
    Producers = {p1, p2}
    f1 = f1
    f2 = f2
    Flushers = {f1, f2}
    NumSlots = 2
    SeqEnds = {1}
    MaxEnvelopes = 2
    Buffer = 1

INVARIANTS
    TypeOK
    SinkHoldsPrefix

PROPERTIES
    ImplementsLane
    FlushReturns
    EverythingReachesSink
