SPECIFICATION Spec
CONSTANTS
    Byte <- MCByte
    Block <- MCBlock
    Image <- MCImage
    PartitionTable <- TwoOta
    PageSize = 2
    OtaEndValidates = FALSE
    FlashMayFail = TRUE
    MaxStream = 4
PROPERTIES
    ActivatesWholeStream
