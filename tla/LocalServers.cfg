SPECIFICATION Spec
CONSTANTS
    Clients = {"a", "b"}
    MaxData = 3
    MaxBacklog = 3
    MaxFaults = 4
INVARIANTS
    RepliesToAsker
    RefusalsHaveCause
CHECK_DEADLOCK FALSE
