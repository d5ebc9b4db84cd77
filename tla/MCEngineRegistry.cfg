SPECIFICATION Spec
CONSTANTS
    t1 = t1
    t2 = t2
    amqp = amqp
    other = other
    proton = proton
    plugin = plugin
    h = h
    Null = Null
    Threads <- MCThreads
    Schemes <- MCSchemes
    Constructors <- MCConstructors
    Handles <- MCHandles
    Builtins <- MCBuiltins
    BuiltinConstructor = proton
INVARIANTS
    TypeOK
    SchemesUnique
    SlotsBounded
    ConstructorPinned
    InitBeforeLookup
    NobodyStuck
    IInv
PROPERTY MapSpec
