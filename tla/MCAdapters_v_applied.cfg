SPECIFICATION Spec

CONSTANTS
    k1 = k1
    k2 = k2
    c1 = c1
    c2 = c2
    c3 = c3
    w1 = w1
    w2 = w2
    Adapters = {"postgres"}
    Keys = {k1, k2}
    Commits = {c1, c2, c3}
    Writers = {w1, w2}
    KeyOf <- MCKeyOf
    VecOf <- MCVecOf
    TokenOf <- MCTokenOf
    Batches <- MCBatches
    CreateMissingKeys = TRUE
    Partitions = {1, 2}
    PartitionOf <- MCPartitionOf
    MaxCalls = 2
    MaxErrors = 1

INVARIANTS
    AppliedInScalar
