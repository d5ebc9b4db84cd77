SPECIFICATION FairSpec
CONSTANTS
    Count = 3
    Rooms = {0, 1, 2}
    MaxRuns = 2
    Msg = msg
    Uri = uri
    Null = null
INVARIANTS
    RecvTypeOK
    LossBounded
    AllAccepted
PROPERTIES
    Drained
CHECK_DEADLOCK FALSE
