SPECIFICATION SSpec
CONSTANTS
    MaxCTimer = 2
    IdMod = 8
    Devs = {2, 3}
    MaxAdds = 4
    LogonDev = 3
    CmdDev = 2
    OtherDev = 2
INVARIANTS
    NoDeadHandle
    OneIdleTimer
    SessionIsGuarded

    
