\* Six calls through one-place queues: every place of the cycle dispatcher,
\* socket, target, socket, read, respReceiverQueue can be full at once.
SPECIFICATION OpenFairSpec
CONSTANTS
    Calls = {1, 2, 3, 4, 5, 6}
    NoCall = NoCall
    NoMsg = NoMsg
    IdSpace = 7
    FirstIds = {0}
    ConcurrentLimit = 1
    WireLimit = 1
    ServiceLimit = 1
CHECK_DEADLOCK FALSE
PROPERTIES
    EncodeEnds
