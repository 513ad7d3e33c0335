SPECIFICATION Spec
CONSTANTS
    c1 = c1
    c2 = c2
    k1 = k1
    k2 = k2
    small = small
    large = large
    NumFeatures = 2
    NumDays = 2
    Keys = {k1, k2}
    Payloads = {small, large}
    Wanted <- MCWanted
    Calls = {c1, c2}
    Limits <- TwoLimits
    Legacy <- OldUsage
SYMMETRY Symmetry
INVARIANTS
    CountersAreExact
    JobsArePaid
    WaitsAreInOrder
PROPERTIES
    LimitsAreKept
    ChargedTogetherAndOnce
