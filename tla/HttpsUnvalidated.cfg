SPECIFICATION UpdaterSpec
CONSTANTS
    Version <- TwoVersions
    Byte <- AllBytes
    Image <- AllImages
    Block <- Fragments
    MaxStream = 6
    PartitionTable <- OneOta
    PageSize = 2
    PollingInterval = 1
    MetaInterval <- AnyInterval
    AutoReboot = TRUE
    ManualChecks = TRUE
    TimersMayFail = TRUE
    OtaEndValidates = FALSE
    FlashMayFail = FALSE
    ImageLen = 3
    MaxFragment = 2
INVARIANTS
    DownloadIsNamed
PROPERTIES
    ActivatesTheDownload
    ImplementsFirmwareSlots
