SPECIFICATION BleSpec
CONSTANTS
    MaxEvents = 1
    MaxFaults = 1

    
PROPERTIES
    BeaconsGoOn
    MemberHears
