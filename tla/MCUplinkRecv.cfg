SPECIFICATION RecvSpec
CONSTANTS
    ByteVals = 3
    HEAD = 2
    TAIL = 1
    Gap = 2
    Hdr = 5
    Timeout = 2
    Crc <- CheckSum
    MaxBuf = 10
INVARIANTS
    QuietResets

    
