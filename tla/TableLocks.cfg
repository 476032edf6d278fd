CONSTANTS
    Head = h
    Nbrs = {h, n1, n2}
    MaxNeighbors = 2
    MissThreshold = 2
    UpdateWait = 10
    AllWait = 20
    CleanWait = 2
    LookWait = 1
    CountWait = 1
    TrustWait = 2
    SaveTime = 3
    Period = 20
    Run = 2
SPECIFICATION Spec
INVARIANT GivesUpInTheCross
INVARIANT HostDelayBounded
PROPERTY TasksReturn
