SPECIFICATION Spec
CONSTANTS
    r1 = r1
    r2 = r2
    Requests = {r1, r2}
    NumEvents = 2
    PlanEvents <- FirstIsPlan
    MaxAttempts = 2
    MaxSyncs = 1
INVARIANTS
    PlanIsSynchronized
