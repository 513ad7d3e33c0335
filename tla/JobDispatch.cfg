SPECIFICATION ControlledSpec
CONSTANTS
    NumJobs = 1
    Idempotent <- OneIdempotent
    MaxAttempts = 2
    NoWorker = NoWorker
    NoJob = NoJob
    RecoveryBatch = 1
    PageSize = 1
    MaxFaults = 1
    MaxNewer = 1
PROPERTIES
    QueuedJobsAreDispatched
    JobsEndUnlessOverwritten
