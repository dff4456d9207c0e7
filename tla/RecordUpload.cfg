SPECIFICATION UploadSpec
CONSTANTS
    Cycles = {1, 2, 3, 6}
    DialTimes = {1, 4, 8}
    MaxRetry = 2
    Short = 2
    Long = 4
    TIMEOUT_KEEPALIVE = 3
    TIMEOUT_GNOWAIT = 2
    MaxAlarm = 4
    MaxMade = 8
INVARIANTS
    
    
    NeverPutOff

    
