SPECIFICATION StorageSpec
CONSTANTS
    MaxPages = 10
    ReservePages = 2
    CommitSlack = 1
    AppendAllowance = 1
    Credit = {2, 3}
    FirstPages = 2
    MaxGrowth = 4
INVARIANT
    LogHoldsOneTransaction
