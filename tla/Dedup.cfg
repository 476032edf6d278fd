\* A table of two entries for three nodes, rings of two for three numbers.
SPECIFICATION FilterSpec
CONSTANTS
    MaxNodes = 2
    History = 2
    Nodes = {n1, n2, n3}
    Seqs = {s1, s2, s3}
    NoNode = 0
    MaxHeard = 6
    MaxTime = 2
    MaxReinits = 1
SYMMETRY Symmetry
INVARIANTS
    TableOK
    RefusedWasStored
    StoredTwiceOnlyIfForgotten
CHECK_DEADLOCK FALSE
