SPECIFICATION Spec
CONSTANTS
    Nodes = {1, 2, 3}
    MaxNeighbors = 10
    ExpNeg <- MCExpNeg
    Ln <- MCLn
    Root <- MCRoot
    Profiles <- MCProfiles
    Weights <- MCWeights
    Varied <- MCVaried
    Signals <- MCSignals
INVARIANTS
    WinnerEligible
    WinnerUndominated
    DeferenceIsOneWay
CHECK_DEADLOCK FALSE
