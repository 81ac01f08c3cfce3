SPECIFICATION PartsSpec
CONSTANTS
    MaxWorks = 2
    Consumers = {alice, bob}
    ResourceSets <- Bare
    Keys = {k1}
    EntryLimit = 9
    ReservedEntries = 1
    EventLimit = 8
    ReplayLimit = 2
    ItemLimit = 2
    ScopeLimit = 3
    ScopesPerItem = 2
    MaxBundles = 2
    MaxVerdicts = 1
    MaxNotes = 1
    NoticeItems = {"w1"}
    NoticeRoles = {"r1", "r2"}
    Creator = "creator"
    NoAudience = "none"
    MaxAudiences = 2
    MaxWorkEvents = 3
    MaxNoticeFaults = 1
    CullBatch = 1
    CullBudget = 2
    MaxPurgeMsgs = 2
    MaxPurgeActs = 5
    NoticeFamilies = {"claude", "codex", "deepseek", "grok", "opencode"}
    MaxNotices = 2
    MaxWakeTime = 4
    MaxHostActs = 3
    KeyFamilies = {"claude", "codex", "agy", "grok"}
    MaxUser = 4
    LogFamilies = {"claude", "codex", "agy", "grok", "opencode", "deepseek"}
    MaxLog = 5
    ReadingSources = {"codex", "opencode", "deepseek"}
    SourceAge = 2
    ConfirmAge = 1
    ConfirmEvery = 1
    MarkKept = 2
    RolloutBatch = 3
    MaxReadingTime = 4
    MaxRollout = 4
    MaxReadingFaults = 1
SYMMETRY Symmetry
INVARIANTS
    StoreCompatible
    ControlsFunded
    KeyAppliedOnce
    QuietPassTellsAll
    NothingTakenUnmarked
    NoticesSound
    KeysSafe
    QuietIsTrue
PROPERTIES
    AdmittedOnCurrent
    CompactsNewest
CHECK_DEADLOCK FALSE
