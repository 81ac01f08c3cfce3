SPECIFICATION PartsSpec
CONSTANTS
    a1 = a1
    l1 = l1
    s1 = s1
    s2 = s2
    NoSession = NoSession
    NoAddress = NoAddress
    NoLaunch = NoLaunch
    NoHost = NoHost
    NoPane = NoPane
    Address = {a1}
    Session = {s1, s2}
    Launch = {l1}
    Host = {}
    Pane = {}
    LaunchHost <- Hostless
    Requests <- Starts
    Purgeable = {}
    LaunchAddress <- Addresses
    HostPane <- NoPanes
    LaunchSession <- Unchosen
    MaxSeq = 2
    MaxReads = 2
    PageLimit = 2
    CullBatch = 1
    
    RoomSessions = {"m1"}
    PostKeys = {"k1"}
    MaxPosts = 2
    MaxRevisions = 4
    MaxRoomPosts = 2
    MaxRoomReplays = 2
    MaxItems = 2
    MaxRevision = 2
    MaxLines = 2
    MaxFailures = 2
    MaxRestores = 2
    MaxBoardOps = 5
    MemoryConsumers = {"c1"}
    MaxHead = 2
    MaxCuts = 3
    MaxSnapshots = 2
    SnapshotsPerConsumer = 2
    MemoryTail = 1
    LoginClients = {"c1", "c2"}
    MaxLogins = 2
    MaxLinks = 1
    FreeFailures = 1
    MaxSecrets = 2
    MaxIssued = 2
SYMMETRY Sessions
INVARIANTS
    UnackedKept
    ReadHonest
    RoomsSound
    ArchiveSound
    CaughtUpIsCurrent
    LoginsAreCurrent
PROPERTIES
    HandledNeverRegresses
CHECK_DEADLOCK FALSE
