SPECIFICATION Spec
CONSTANTS
    n1 = n1
    n2 = n2
    n3 = n3
    Node <- MCPair
    Neighbor <- MCPairNeighbor
    GenesisAddress <- MCGenesisAddress
    Tx <- MCTx
    Nonce <- MCNonce
    MeetsTarget <- MCMeetsTarget
    MaxBroadcasts = 2
    MaxFaults = 1
INVARIANT
    DatabasesDiscarded
CHECK_DEADLOCK FALSE
