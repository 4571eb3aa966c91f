\* The lock file under timeouts, crashes and one Stop among three operations.
SPECIFICATION FairSpec
CONSTANTS
    Ops = {o1, o2, o3}
    Stops = {o1}
    NoOp = NoOp
\* Every operation may have ended.
CHECK_DEADLOCK FALSE
INVARIANTS
    OverlapOnlyAfterStop
    NoLockLeaks
PROPERTIES
    LockReturns
