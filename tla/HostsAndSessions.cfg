SPECIFICATION PartsSpec
CONSTANTS
    s1 = s1
    s2 = s2
    s3 = s3
    a1 = a1
    a2 = a2
    l1 = l1
    l2 = l2
    l3 = l3
    h1 = h1
    h2 = h2
    p1 = p1
    NoSession = NoSession
    NoAddress = NoAddress
    NoLaunch = NoLaunch
    NoHost = NoHost
    NoPane = NoPane
    Address = {a1, a2}
    Session = {s1, s2, s3}
    Launch = {l1, l2, l3}
    Host = {h1, h2}
    Pane = {p1}
    LaunchHost <- Hosts
    Requests <- Successions
    Purgeable = {}
    LaunchAddress <- Addresses
    HostPane <- Panes
    LaunchSession <- Unchosen
    
    LeaseKinds = {"foreground", "background"}
    LeaseSettings <- ShortAndLong
    DefaultLease <- Long
    SweepEvery = 1
    MaxLeaseTime = 4
    MaxToolCalls = 2
    MaxLeaseFaults = 1
    SetupFamilies = {"claude", "codex", "agy", "opencode", "grok"}
    MaxCommands = 3
    MaxUserEdits = 1
    PyUnits = {"u1", "u2"}
    MemoryUnits = {"u1"}
    MaxAttempts = 2
    MaxFaults = 2
    MaxPyWrites = 2
    MaxDaemons = 4
    MaxInstalls = 3
    MaxLost = 1
    MaxLinkEdits = 1
    MaxTransitions = 2
    MaxLogins = 2
INVARIANTS
    FencedNeverHolds
    RunningNeverLapses
    LeaseEndsWithHost
    SetupSound
    UpgradeSound
    InstallSound
    TransitionHonest
PROPERTIES
    SuccessionIsProven
CHECK_DEADLOCK FALSE
