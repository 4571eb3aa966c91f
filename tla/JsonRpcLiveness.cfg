\* Liveness of the JSON-RPC client.
SPECIFICATION FairSpec
CONSTANTS
    Calls = {c1, c2}
    NoCall = NoCall
    NoMsg = NoMsg
    IdSpace = 3
    FirstIds = {1}
    ConcurrentLimit = 1
    WireLimit = 1
    ServiceLimit = 2
CHECK_DEADLOCK FALSE
PROPERTIES
    CallsReturnUnaided
    CancelReleasesCallers
    GoroutinesEnd
