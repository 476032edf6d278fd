\* A tick is 2.5 s.
SPECIFICATION ClusterSpec
CONSTANTS
    MaxNeighbors = 10
    ExpNeg <- MCExpNeg
    Ln <- MCLn
    Root <- MCRoot
    NeighborTimeout = 24
    ChTimeout = 18
    Neighborhood = {1, 2}
    Profile <- MCProfile
    Drained <- MCDrained
    SharedWeights <- MCWeights
    BootTime = 1
    JoinTime = 1
    DiscoverTime = 2
    Window = 4
    Grace = 1
    Stellar = 8
    Data = 8
    PreGuard = 1
    Resend = 2
    MissThreshold = 2
    MaxFaults = 1
    Rivalry = 36
    Settling = 48
INVARIANTS
    SettlesInTime
    RivalsResolved
