SPECIFICATION Spec
CONSTANTS
    NumJobs = 1
    Idempotent <- NoneIdempotent
    MaxAttempts = 2
    NoWorker = NoWorker
    NoJob = NoJob
    RecoveryBatch = 1
    PageSize = 1
    MaxFaults = 1
    MaxNewer = 0
PROPERTIES
    FinishedJobsStayFinished
