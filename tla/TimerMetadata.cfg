SPECIFICATION Spec
SYMMETRY Symmetry
CONSTANTS
    Cell <- Cells
    IntOf <- Ints
    PathSize = 3
    Word = 32
    MsPerS = 4
    TickRate = 2
    CreatePeriod = 1
    Timer = {t1, t2}
    QueueLen = 2
    PollingInterval = 1
    CurrentVersion = 1
    MetadataText <- PublishedTexts
INVARIANTS
    TypeOK
    NoStrayTimer
    PeriodIsInterval
    PollingStopsOnlyIf
PROPERTIES
    ReadsWhatWasPublished
