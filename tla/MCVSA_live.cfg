SPECIFICATION LiveSpec

CONSTANTS
    t1 = t1
    t2 = t2
    Threads = {t1, t2}
    Readers = {}
    Aggregator = agg
    NoThread = none
    InitialScalar = 2
    NumStripes = 1
    HGroups = 0
    GroupCount = 0
    FastPathGuard = 0
    UseCachedGate = TRUE
    CacheSlack = 0
    AnyChooser = TRUE
    ConsumeAmounts = {1}
    RefundAmounts = {1}
    CommitAmounts = {2}
    UpdateAmounts = {1}
    MaxUsed = 2
    MaxStripe = 2

PROPERTIES
    CallsReturn
    CacheConverges
