SPECIFICATION LiveSpec

CONSTANTS
    k1 = k1
    Keys = {k1}
    h1 = h1
    Handlers = {h1}
    CommitThreshold = 2
    Configs <- LoopConfigs
    MaxInstances = 1
    MaxTear = 1
    MaxWritten = 4
    MaxFailures = 1
    MaxCrashes = 0

PROPERTIES
    ThresholdCommits
    MaxAgeFlushes
    ShutdownCompletes
