SPECIFICATION ShardLiveSpec

CONSTANTS
    Keys = {1, 2}
    Buckets = {1, 2}
    Pack <- MCPack
    Deltas <- MCDeltas
    NumSlots = 4
    SeqEnds = {1, 2}
    MaxEnvelopes = 4

INVARIANTS
    DeltasConserved
    RepeatedIdsWereGiven

PROPERTIES
    IngestReturns
