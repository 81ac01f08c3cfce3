SPECIFICATION LeaseSpec
CONSTANTS
    LeaseKinds = {"plain"}
    LeaseSettings <- Defaults
    DefaultLease <- Default
    SweepEvery = 1
    MaxLeaseTime = 6
    MaxToolCalls = 1
    MaxLeaseFaults = 1
INVARIANT
    IdleNotLost
CHECK_DEADLOCK FALSE
