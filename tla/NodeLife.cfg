CONSTANTS
    Groups <- MCGroups
    Light <- MCLight
    Faulty <- MCFaulty
    Default <- MCDefault
    Configured <- MCConfigured
    Factor <- MCFactor
    Voltages <- MCVoltages
    NormalMin = 60
    PowerSaveMin = 10
    SampleNormal = 2
    SampleSave = 5
    SlotTimes <- MCSlotTimes
    SlotLength = 2
    SleepTime = 3
    Sensors = 1
    InitTries = 3
    SavePeriod = 5
    Reputations = {900}
    Gaps = {0, 3, 30}
    Signals <- MCSignals
    MaxBeacons = 1
    MaxAwake = 18
SPECIFICATION Spec
INVARIANT SleepsOnlyWhenEmpty
INVARIANT ReadOnTime
 
INVARIANT SavedSurvives
