SPECIFICATION FairSpec
CONSTANTS
    s1 = s1
    s2 = s2
    r1 = r1
    NumUsers = 1
    Schedulers = {s1}
    Requests = {r1}
    MaxAttempts = 2
    DayLength = 2
    Interval = 2
    RetryDelay = 1
    LockTime = 1
    MaxClock = 3
    MaxAborts = 1
INVARIANTS
    LocksExclude
    StatusesTellTheRun
PROPERTIES
    SucceededRunsStay
    DueUsersAreTried
