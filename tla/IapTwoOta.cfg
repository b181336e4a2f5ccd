SPECIFICATION Spec
CONSTANTS
    Byte <- MCByte
    Block <- MCBlock
    Image <- MCImage
    PartitionTable <- TwoOta
    PageSize = 2
    OtaEndValidates = TRUE
    FlashMayFail = TRUE
    MaxStream = 4
INVARIANTS
    TypeOK
    BuffersFollowSession
    SessionSparesBootPartition
    NoByteLost
    BootPartitionHoldsImage
PROPERTIES
    ActivatesWhatWasStreamed
    CallsReturn
    ImplementsFirmwareSlots
