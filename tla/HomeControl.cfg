CONSTANTS
    Doors = {"d1", "far"}
    FarDoors = {"far"}
    NCtrl = 2
    FrameLen = 2
    RecvTimeout = 2
    MaxAir = 0
    SceneIds = {0, 1}
    MaxMadplay = 2
    PauseTimeout = 2
    PauseOther = 1
    MaxEvents = 2
SPECIFICATION Spec
INVARIANTS
    DoorsOpened
PROPERTIES
    
    RequestsServed
CHECK_DEADLOCK FALSE
