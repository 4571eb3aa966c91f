\* Safety of the JSON-RPC client: three calls, two slots, ids that do not wrap.
SPECIFICATION Spec
CONSTANTS
    Calls = {c1, c2, c3}
    NoCall = NoCall
    NoMsg = NoMsg
    IdSpace = 4
    FirstIds = {2}
    ConcurrentLimit = 2
    WireLimit = 1
    ServiceLimit = 2
SYMMETRY CallSymmetry
\* The client may come to rest: every call has returned and read waits for data.
CHECK_DEADLOCK FALSE
INVARIANTS
    NoPanic
    
    AnswerIsOwn
    SemaphoreExact
    ResponsesAreKept
    WaiterIsReachable
PROPERTIES
    ImplementsService
