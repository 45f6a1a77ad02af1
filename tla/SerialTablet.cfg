SPECIFICATION Spec
CONSTANTS
    PacketLength = 3
    MaxBitErrors = 3
    Failing = {"send", "read", "hangup"}
    MaxPackets = 4
    MaxLosses = 2
    MaxQueue = 3
INVARIANTS TypeOK NoSplice WholePacketsAreRead TouchIsPen
CHECK_DEADLOCK FALSE
