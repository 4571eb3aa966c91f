SPECIFICATION Spec
CONSTANTS
    ip = ip
    p1 = p1
    p2 = p2
    None = None
    Nqns = {n1, n2}
    Addrs <- TwoPorts
    Controllers = {c1, c2, c3}
    Devices = {d1, d2}
    MaxChanges = 2
SYMMETRY Symmetry
INVARIANTS
    ReportedPathExisted
    SteadyPathIsFound
    NotFoundMeansGone
PROPERTIES
    DisconnectsOnlyItsPath
