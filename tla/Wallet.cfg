SPECIFICATION Spec
CONSTANTS
    h1 = h1
    h2 = h2
    Seed <- MCSeed
    Node <- MCTwoNodes
    FullNodeOf <- MCTwoNodesOf
    Shared <- MCSharing
    GenesisAddress <- MCGenesisAddress
    Nonce <- MCNonce
    MeetsTarget <- MCMeetsTarget
    Amount <- MCAmount
    MaxCreated = 3
    MaxHeight = 2
    MaxSessions = 1
INVARIANTS
    TypeOK BalanceIsUnspent ValidInputsAreUnspent FreshIsValid SpendsOwned HandedOutOnce OnePerBlockSeen RespentOnce
CHECK_DEADLOCK FALSE
