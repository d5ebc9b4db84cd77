SPECIFICATION Spec
CONSTANTS
    m1 = m1
    m2 = m2
    Null = Null
    Uri = Uri
    MsgHandles = {m1}
    Window = 1
    Types = {}
    Subjects = {}
    Addresses = {}
    Chunks = {}
    Arrivals = 1
    MaxPuts = 0
    MaxChunks = 0
INVARIANTS
    DispositionFailureReported
CHECK_DEADLOCK FALSE
