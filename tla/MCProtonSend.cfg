SPECIFICATION Spec
CONSTANTS
    m1 = m1
    m2 = m2
    Null = Null
    Uri = Uri
    MsgHandles = {m1}
    Window = 1
    Types = {text}
    Subjects = {subject}
    Addresses = {elsewhere}
    Chunks = {bytes}
    Arrivals = 0
    MaxPuts = 2
    MaxChunks = 1
INVARIANTS
    MessengerBalance
    ErrorIsFresh
    AddressedRight
PROPERTIES
    QueueSpec
CHECK_DEADLOCK FALSE
