SPECIFICATION FairSpec
CONSTANTS
    NumJobs = 2
    MaxWorkers = 2
    MaxHistory = 1
    NumAgents = 2
    MaxFaults = 2
    MaxCrashes = 1
CHECK_DEADLOCK FALSE
INVARIANTS
    RecordedOutcomesStay
    ReportsAgree
PROPERTIES
    AcceptedJobsEnd
