SPECIFICATION Spec

CONSTANTS
    t1 = t1
    t2 = t2
    Threads = {t1, t2}
    Readers = {t1}
    Aggregator = agg
    NoThread = none
    InitialScalar = 2
    NumStripes = 4
    HGroups = 2
    GroupCount = 2
    FastPathGuard = 1
    UseCachedGate = FALSE
    CacheSlack = 0
    AnyChooser = FALSE
    ConsumeAmounts = {1}
    RefundAmounts = {1}
    CommitAmounts = {2}
    UpdateAmounts = {}
    MaxUsed = 3
    MaxStripe = 1

INVARIANTS
    SumsAgree

