SPECIFICATION Spec

CONSTANTS
    k1 = k1
    k2 = k2
    Keys = {k1, k2}
    h1 = h1
    h2 = h2
    Handlers = {h1, h2}
    CommitThreshold = 2
    Configs <- WriteConfigs
    MaxInstances = 2
    MaxTear = 2
    MaxWritten = 5
    MaxFailures = 2
    MaxCrashes = 1

SYMMETRY Symmetry

INVARIANTS
    TypeOK
    KeyWithinLimit
    CommittedIsDurable
    NoPhantomWrites
    FlushLosesNothing
