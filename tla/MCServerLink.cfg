SPECIFICATION Spec
CONSTANTS
    Retry = 2
    Times = 2
    MaxFd = 5
    MaxNet = 2
    MaxRec = 2
INVARIANTS
    OffMeansClosed
PROPERTIES
    LinkComesUp
    
