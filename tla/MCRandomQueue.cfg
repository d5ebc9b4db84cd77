SPECIFICATION Spec
CONSTANTS
    m1 = m1
    m2 = m2
    east = east
    west = west
    inEast = inEast
    unset = unset
    Null = Null
    Empty = Empty
    Dead = Dead
    MsgHandles <- MCMsgHandles
    Names = {east, west}
    Clusters <- MCClusters
    PartitionOf <- MCPartitionOf
    MaxCopies = 4
SYMMETRY Symmetry
INVARIANTS
    TypeOK
    PartitionResolves
    CopiesOwned
    ErrorTells
CHECK_DEADLOCK FALSE
