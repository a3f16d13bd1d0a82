SPECIFICATION Spec
CONSTANTS
    DataStart = 0
    DataSize = 16
    Addrs <- MCLaneAddrs
    RegionList <- MCRegions
    FbOffsets = {0}
    GpioOffsets = {0, 4}
    SecureBits = {7, 10}
    Instrs <- MCInstrs
    Statuses = {8, 1032}
    InitWords <- MCInitWords
PROPERTY SecureBitsKept
CHECK_DEADLOCK FALSE
