\* Three attempts as in the code, a queue of three frames.
SPECIFICATION Spec
CONSTANTS
    Attempts = 3
    QueueLen = 3
INVARIANTS
    SemaphoreReturns
    OneInFlight
    VerdictIsFresh
