SPECIFICATION UpdaterSpec
CHECK_DEADLOCK FALSE
CONSTANTS
    Version <- TwoVersions
    Byte <- AllBytes
    Image <- AllImages
    Block <- Fragments
    MaxStream = 4
    PartitionTable <- OnlyOta
    PageSize = 2
    PollingInterval = 1
    MetaInterval <- Positive
    AutoReboot = TRUE
    ManualChecks = FALSE
    TimersMayFail = TRUE
    OtaEndValidates = TRUE
    FlashMayFail = TRUE
    ImageLen = 2
    MaxFragment = 1
PROPERTIES
    Converges
