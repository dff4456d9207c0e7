SPECIFICATION ButtonsSpec
CONSTANTS
    UpdatePolls = 3
    MaxPress = 3
    Debounce = 1
    MinVolume = 3
    MaxVolume = 4
    MaxDown = 2
INVARIANTS
    StoppedMeansSilent

    
    
    
