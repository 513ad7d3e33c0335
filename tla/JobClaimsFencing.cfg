SPECIFICATION Spec
CONSTANTS
    w1 = w1
    w2 = w2
    j1 = j1
    j2 = j2
    Workers = {w1, w2}
    NoWorker = NoWorker
    Jobs = {j1}
    JobOf <- OneJob
    MaxAttempts = 2
    FullProgress = 1
    TicksPerSecond = 1
    LeaseTicks = 2
    CasRetries = 2
    RecoveryBatch = 1
    MaxVersion = 3
    MaxClock = 3
    MaxRestarts = 1
SYMMETRY Symmetry
CHECK_DEADLOCK FALSE
INVARIANTS
    ExclusiveAttempts
    CompletedMatchesPublication
    PublishedBlobsExist
PROPERTIES
    ImplementsLifecycle
    NewerAttemptsWin
    TerminalIsFinal
    ProgressNeverRegresses
    LiveLeaseIsKept
