SPECIFICATION PartsSpec
CONSTANTS
    MaxWorks = 2
    Consumers = {alice, bob}
    ResourceSets <- MCResourceSets
    Keys = {}
    EntryLimit = 9
    ReservedEntries = 0
    EventLimit = 8
    ReplayLimit = 2
    ItemLimit = 2
    ScopeLimit = 2
    ScopesPerItem = 1
    MaxBundles = 2
    MaxVerdicts = 0
    MaxNotes = 1
    MaxPages = 10
    ReservePages = 2
    CommitSlack = 1
    AppendAllowance = 1
    Credit = {2, 3}
    FirstPages = 2
    MaxGrowth = 4
INVARIANTS
    LiveClaimsDisjoint
    OverdueOncePerEpoch
    FundedNeverRefused
PROPERTIES
    ImplementsOwnership
    SweepsInTheEnd
