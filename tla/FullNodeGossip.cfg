SPECIFICATION FairSpec
CONSTANTS
    n1 = n1
    n2 = n2
    n3 = n3
    Node <- MCRing
    Neighbor <- MCSpurNeighbor
    GenesisAddress <- MCGenesisAddress
    Tx <- MCTx
    Nonce <- MCNonce
    MeetsTarget <- MCMeetsTarget
    MaxBroadcasts = 3
    MaxFaults = 0
INVARIANT
    GossipOwed
PROPERTY
    ChainSpreads
CHECK_DEADLOCK FALSE
