\* A Stop, an operation that waits for its lock and one that comes after it.
SPECIFICATION Spec
CONSTANTS
    Ops = {o1, o2, o3}
    Stops = {o1}
    NoOp = NoOp
\* Every operation may have ended.
CHECK_DEADLOCK FALSE
INVARIANTS
    Serialized
