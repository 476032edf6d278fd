\* One member; a head that goes to the UAV once.
SPECIFICATION Spec
CONSTANTS
    MaxNodes = 2
    History = 1
    Members = {m1}
    BatchMax = 2
    Capacity = 3
    PurgeAt = 3
    Attempts = 2
    FrameLimit = 0
    MaxSeq = 2
    MaxFaults = 0
    MaxWriteFails = 0
    MaxRestarts = 0
    MaxHeadEvents = 1
    MaxRecords = 3
    MaxTrouble = 1
PROPERTIES
    HoldsWhileBusy
CHECK_DEADLOCK FALSE
