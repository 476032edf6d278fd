\* Phases of 2 and 6 ticks; guard and shortest slot 2, resend 3, send 1; the 500 ms are 1, a chunk 2.
SPECIFICATION FairSpec
CONSTANTS
    CH = ch
    Members = {m1, m2}
    Stellar = 2
    Data = 6
    Guard = 2
    Resend = 3
    MinSlot = 2
    Validity = 6
    SendTicks = 1
    Slack = 1
    Margin = 1
    ChunkTicks = 2
INVARIANTS
    StaysForTheHead
    DrainInOwnData
    SpillBounded
PROPERTIES
    EverySlotComes
