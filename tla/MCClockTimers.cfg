CONSTANTS
    Instants <- MCInstants
    Confs <- MCConfs
    MAX_RTIMER = 1
    MaxSets = 1
SPECIFICATION ClockSpec
INVARIANTS
    
    ReadInOrder
    TimersDue
CHECK_DEADLOCK FALSE
