SPECIFICATION Spec
CONSTANTS
    Bits = 3
    UavCode = 5
    Captures <- MCCaptures
    MaxRetries = 1
    MaxRecords = 2
    MaxFaults = 1
INVARIANTS
    StaysOffTheAccessPoint
    NoTriggerFromOnboarding
    Listening
PROPERTIES
    StartsForTheUav
    ClearedAfterUpload
    OnboardingEnds
