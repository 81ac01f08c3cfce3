SPECIFICATION Spec
CONSTANTS
    s1 = s1
    s2 = s2
    s3 = s3
    a1 = a1
    a2 = a2
    l1 = l1
    l2 = l2
    l3 = l3
    h1 = h1
    h2 = h2
    p1 = p1
    NoSession = NoSession
    NoAddress = NoAddress
    NoLaunch = NoLaunch
    NoHost = NoHost
    NoPane = NoPane
    Address = {a1, a2}
    Session = {s1, s2}
    Launch = {l1, l3}
    Host = {}
    Pane = {p1}
    LaunchHost <- Hostless
    Requests <- Moves
    Purgeable = {s1}
    LaunchAddress <- Addresses
    HostPane <- Panes
    LaunchSession <- Unchosen
PROPERTY
    ActiveHolderKeepsAddress
