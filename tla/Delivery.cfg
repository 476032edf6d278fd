\* One member; up to two troubles of any kind.
SPECIFICATION FairSpec
CONSTANTS
    MaxNodes = 2
    History = 1
    Members = {m1}
    BatchMax = 2
    Capacity = 3
    PurgeAt = 3
    Attempts = 2
    FrameLimit = 0
    MaxSeq = 3
    MaxFaults = 2
    MaxWriteFails = 1
    MaxRestarts = 1
    MaxHeadEvents = 1
    MaxRecords = 4
    MaxTrouble = 2
INVARIANTS
    Lossless
    HeldOnce
    DuplicatesAreFarApart
PROPERTIES
    WrittenArrives
CHECK_DEADLOCK FALSE
