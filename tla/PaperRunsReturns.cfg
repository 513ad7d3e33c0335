SPECIFICATION Spec
CONSTANTS
    Jobs = {j1, j2}
    MaxAttempts = 1
    NumDates = 1
    NumStrategies = 1
    NoExecution = NoExecution
INVARIANTS
    NoReturnIsLost
CHECK_DEADLOCK FALSE
