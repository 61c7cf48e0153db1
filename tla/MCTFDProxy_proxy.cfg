SPECIFICATION Spec

CONSTANTS
    Envelopes <- MCEnvelopes
    c1 = c1
    c2 = c2
    Callers = {c1, c2}
    Programs = {"proxy", "sim"}
    BufChunks = 3
    MaxRestarts = 1

SYMMETRY MCSymmetry

INVARIANTS
    TypeOK
    StateReflectsAcknowledged
    ShutdownKeepsAcknowledged
    VQueueIsLog
