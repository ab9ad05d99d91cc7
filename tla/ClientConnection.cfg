SPECIFICATION Spec
CONSTANTS
    b1 = b1
    r1 = r1
    Broadcast <- MCBroadcast
    Request <- MCRequest
    HeaderLength = 2
    TransactionLength = 1
    DatabaseLength <- MCDatabaseLength
    MaxBlocks = 2
    MaxCrashes = 1
INVARIANTS
    TypeOK CutIndependent UnansweredHasCause FreshAnswer
PROPERTY
    ImplementsTransfer
CHECK_DEADLOCK FALSE
