SPECIFICATION Spec
CONSTANTS
    m1 = m1
    m2 = m2
    Null = Null
    Uri = Uri
    MsgHandles <- MCMsgHandles
    Window = 1
    Types = {}
    Subjects = {}
    Addresses = {}
    Chunks = {}
    Arrivals = 4
    MaxPuts = 0
    MaxChunks = 0
SYMMETRY Symmetry
INVARIANTS
    TypeOK
    DispositionFollows
    SettledWithHandle
    TrackersDistinct
PROPERTIES
    QueueSpec
CHECK_DEADLOCK FALSE
