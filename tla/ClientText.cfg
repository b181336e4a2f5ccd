SPECIFICATION Spec
CONSTANTS
    HeaderLen = 2
    EmptyLineLen = 1
    BodyLen <- AnyBody
    ContentLength <- AnyLength
    Mode <- BothModes
    BufferLen = 4
    TlsBufferLen = 4
INVARIANTS
    BodyIsText
