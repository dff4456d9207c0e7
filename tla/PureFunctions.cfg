\* Every day from 2000-1-1 to the last one of which every second fits 32 bits.
CONSTANT MaxDay = 24854
SPECIFICATION DaysSpec
INVARIANTS
    CalendarAgrees
    CodeOpensInTime
    ValuesSurvive
    CrcDetects
    ItemsReadBack
    
CHECK_DEADLOCK FALSE
