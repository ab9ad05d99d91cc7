SPECIFICATION Spec
CONSTANTS
    n1 = n1
    n2 = n2
    n3 = n3
    Node <- MCRing
    Neighbor <- MCRingNeighbor
    GenesisAddress <- MCGenesisAddress
    Tx <- MCTxAll
    Nonce <- MCNonce
    MeetsTarget <- MCMeetsTarget
    MaxBroadcasts = 3
    MaxFaults = 2
INVARIANTS
    TypeOK HandlerDrains TransitBounded ChainsReplay ChainsLinked NoDoubleSpend MoneyConserved OneTransactionPerBlock
PROPERTIES
    PoisonFreezes ImplementsLongestChain ChainsOnlyGrow
CHECK_DEADLOCK FALSE
