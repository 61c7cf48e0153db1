SPECIFICATION LiveSpec

CONSTANTS
    k1 = k1
    o1 = o1
    o2 = o2
    e1 = e1
    e2 = e2
    Keys = {k1}
    Vectors <- MCVectors
    Configs <- MCConfigs
    Observers = {o1, o2}
    Enablers = {e1, e2}
    MaxCalls = 2
    MaxEnables = 2
    MaxPoints = 2

INVARIANTS
    TypeOK
    KPIsNonNegative
    KeysAddUp
    LoopMatchesConfig

PROPERTIES
    ExporterReleased
