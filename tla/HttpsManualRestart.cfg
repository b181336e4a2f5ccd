SPECIFICATION UpdaterSpec
CONSTANTS
    Version <- TwoVersions
    Byte <- AllBytes
    Image <- AllImages
    Block <- Fragments
    MaxStream = 2
    PartitionTable <- OnlyOta
    PageSize = 2
    PollingInterval = 0
    MetaInterval <- Never
    AutoReboot = FALSE
    ManualChecks = TRUE
    TimersMayFail = FALSE
    OtaEndValidates = TRUE
    FlashMayFail = TRUE
    ImageLen = 2
    MaxFragment = 1
PROPERTIES
    DueCheckInstalls
