SPECIFICATION LiveSpec
CONSTANTS
    w1 = w1
    w2 = w2
    j1 = j1
    j2 = j2
    Workers = {w1, w2}
    NoWorker = NoWorker
    Jobs = {j1, j2}
    JobOf <- JobEach
    MaxAttempts = 1
    FullProgress = 1
    TicksPerSecond = 2
    LeaseTicks = 1
    CasRetries = 1
    RecoveryBatch = 1
    MaxVersion = 1
    MaxClock = 2
    MaxRestarts = 1
CHECK_DEADLOCK FALSE
PROPERTIES
    AbandonedClaimsAreRecovered
