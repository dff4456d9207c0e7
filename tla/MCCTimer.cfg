SPECIFICATION Spec
CONSTANTS
    MaxCTimer = 3
    IdMod = 4
    Devs = {1, 2}
    MaxAdds = 5
INVARIANTS
    ListInOrder
    PassComplete
    StaleHandleHarmless
    NeverOverdue
PROPERTIES
    ImplementsTimerSet
