SPECIFICATION Spec
CONSTANTS
    None = None
    Checksum = Checksum
    Disks = {d1, d2}
    StoreIds = {s1, s2, s3}
    Lvols = {l1, l2}
    LvolNames = {n1, n2}
    MaxCommands = 2
SYMMETRY Symmetry
INVARIANTS
    ListTellsTheTruth
    ListIsComplete
    ListFailsForCause
    AddedStoreIsOwn
