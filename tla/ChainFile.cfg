SPECIFICATION Spec
CONSTANTS
    Nonce <- MCNonce
    MeetsTarget <- MCMeetsTarget
    Content <- MCContent
    Received <- MCReceived
    GenesisAddress <- MCGenesisAddress
    Reader <- MCReader
    MaxCalls = 6
    MaxCrashes = 2
INVARIANTS
    TypeOK MinedStaysMined
PROPERTIES
    ReaderSeesGrowth ImplementsStore
