SPECIFICATION FramingSpec
CONSTANTS
    LenLen = 1
    BlockSize = 3
    Capacity = 3
    MaxBytes = 7
    MaxPacket = 3
    MaxBlocks = 3
    StreamTable <- MCStreamTable
    AeadTable <- MCAeadTable
    Method <- MCMethod
INVARIANT StreamExact
INVARIANT NonceOnce
 
INVARIANT KeysExact
CHECK_DEADLOCK FALSE
