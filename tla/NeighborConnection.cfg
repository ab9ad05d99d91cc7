SPECIFICATION FairSpec
CONSTANTS
    n1 = n1
    n2 = n2
    l1 = l1
    l2 = l2
    Node <- MCNode
    Neighbor <- MCNeighbor
    Link <- MCLink
    From <- MCSameFrom
    HeaderLength = 1
    DatabaseLength <- MCDatabaseLength
    MaxBlocks = 3
    MaxCrashes = 1
INVARIANTS
    TypeOK CutIndependent LostHasCause ReceivedCounts
PROPERTIES
    ImplementsTransfer ConnectionsClose GossipArrives
CHECK_DEADLOCK FALSE
