SPECIFICATION UpdaterSpec
CHECK_DEADLOCK FALSE
CONSTANTS
    Version <- TwoVersions
    Byte <- AllBytes
    Image <- AllImages
    Block <- Fragments
    MaxStream = 6
    PartitionTable <- TwoOta
    PageSize = 2
    PollingInterval = 1
    MetaInterval <- Positive
    AutoReboot = FALSE
    ManualChecks = FALSE
    TimersMayFail = FALSE
    OtaEndValidates = TRUE
    FlashMayFail = TRUE
    ImageLen = 3
    MaxFragment = 2
INVARIANTS
    NewFirmwareIsInstalled
