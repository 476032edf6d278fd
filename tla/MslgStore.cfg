\* Two storing tasks, two failing calls, one reset, five records.
SPECIFICATION Spec
CONSTANTS
    Producers = {app_main, wifi}
    Drainer = state_machine
    NoTask = none
    BatchMax = 2
    UploadMax = 5
    Capacity = 20
    PurgeAt = 16
    MaxRecords = 5
    MaxFaults = 2
    MaxCrashes = 1
SYMMETRY Symmetry
INVARIANTS
    StoredInOrder
    TailIsCurrent
    CountExact
    UploadIntact
PROPERTIES
    ImplementsRecordLog
