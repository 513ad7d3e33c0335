SPECIFICATION Spec
CONSTANTS
    Jobs = {j1}
    MaxAttempts = 3
    NumDates = 2
    NumStrategies = 2
    NoExecution = NoExecution
INVARIANTS
    RunsTradeOnce
    DatesTradeInOrder
    AggregatesMatchRuns
    CompletedJobsAreWhole
PROPERTIES
    CompletedRunsStay
CHECK_DEADLOCK FALSE
