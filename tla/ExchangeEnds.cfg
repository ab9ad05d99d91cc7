SPECIFICATION FairSpec
CONSTANTS
    b1 = b1
    r1 = r1
    Broadcast <- MCBroadcast
    Request <- MCRequest
    HeaderLength = 1
    TransactionLength = 1
    DatabaseLength <- MCOneByte
    MaxBlocks = 2
    MaxCrashes = 1
PROPERTIES
    ExchangeEnds ServerCloses BroadcastArrives
CHECK_DEADLOCK FALSE
