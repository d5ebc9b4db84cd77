SPECIFICATION Spec
CONSTANTS
    m1 = m1
    m2 = m2
    Null = Null
    Uri = Uri
    MsgHandles <- MCMsgHandles
    Window = 1
    Types = {}
    Subjects = {}
    Addresses = {}
    Chunks = {}
    Arrivals = 2
    MaxPuts = 0
    MaxChunks = 0
SYMMETRY Symmetry
INVARIANTS
    DispositionHonoured
CHECK_DEADLOCK FALSE
