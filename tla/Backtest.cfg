SPECIFICATION BacktestSpec
CONSTANTS
    NumSymbols = 2
    InitialCash = 1000
    Unit = 2
    Targets <- SomeTargets
    PriceRows <- SomePrices
    AdjustmentBps = 100
    CommissionBps = 200
    PeriodCosts = {0, 7}
    Configs <- Modes
    MaxRows = 3
    Settings <- SomeSettings
CHECK_DEADLOCK FALSE
INVARIANTS
    BooksBalance
    RebalanceReachesTargets
    FoldsDoNotLeak
    TestsCoverTheData
    DecisionsUseThePast
PROPERTIES
    FillsNeverOverdraw
