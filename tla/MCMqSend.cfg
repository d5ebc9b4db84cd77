SPECIFICATION FairSpec
CONSTANTS
    Block = 4
    Sizes <- MCSizes
    Uri = uri
    Type = type
    Subject = subject
    Msg = msg
    Null = null
INVARIANTS
    SendTypeOK
    BufferSafe
    SuccessMeansSent
PROPERTIES
    ProgramEnds
CHECK_DEADLOCK FALSE
