SPECIFICATION Spec
CONSTANTS
    h1 = h1
    h2 = h2
    Seed <- MCSeed
    Node <- MCOneNode
    FullNodeOf <- MCOneNodeOf
    Shared <- MCPrivate
    GenesisAddress <- MCGenesisAddress
    Nonce <- MCNonce
    MeetsTarget <- MCMeetsTarget
    Amount = {0, 50}
    MaxCreated = 3
    MaxHeight = 2
    MaxSessions = 0
INVARIANT
    RemainderReturned
CHECK_DEADLOCK FALSE
