SPECIFICATION LoaderSpec
CONSTANTS
    t1 = t1
    t2 = t2
    amqp = amqp
    random = random
    proton = proton
    randomctor = randomctor
    randomso = randomso
    readme = readme
    h = h
    Null = Null
    Threads <- MCThreads
    Schemes <- MCSchemes
    Constructors <- MCConstructors
    Handles <- MCHandles
    Builtins <- MCBuiltins
    BuiltinConstructor = proton
    Files <- MCFiles
    Loadable <- MCLoadable
    NameLen <- MCNameLen
    HandleOf <- MCHandleOf
    Wants <- MCWantsTwo
INVARIANTS
    PluginsMapped
