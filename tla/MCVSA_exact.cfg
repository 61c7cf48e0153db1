SPECIFICATION Spec

CONSTANTS
    t1 = t1
    t2 = t2
    t3 = t3
    Threads = {t1, t2, t3}
    Readers = {}
    Aggregator = agg
    NoThread = none
    InitialScalar = 4
    NumStripes = 2
    HGroups = 0
    GroupCount = 0
    FastPathGuard = 0
    UseCachedGate = FALSE
    CacheSlack = 0
    AnyChooser = FALSE
    ConsumeAmounts = {1, 2}
    RefundAmounts = {1, 2}
    CommitAmounts = {1, 3}
    UpdateAmounts = {}
    MaxUsed = 8
    MaxStripe = 3

SYMMETRY Symmetry

INVARIANTS
    TypeOK
    NoOversubscription
    NetNonNegative
    ScalarLaw

PROPERTIES
    CommitPreservesAvailability
    DenyJustified
    ImplementsQuota
