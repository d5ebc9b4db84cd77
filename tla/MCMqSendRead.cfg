SPECIFICATION FairSpec
CONSTANTS
    Block = 4
    Sizes <- MCSizes
    Uri = uri
    Type = type
    Subject = subject
    Msg = msg
    Null = null
PROPERTIES
    ReadErrorReported
CHECK_DEADLOCK FALSE
