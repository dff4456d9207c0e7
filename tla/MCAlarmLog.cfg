SPECIFICATION Spec
CONSTANTS
    MaxAlarm = 4
    PerFile = 2
    CharVals = 2
    MaxBoots = 7

    
PROPERTIES
    RestartIsSafe
