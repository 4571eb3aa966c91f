\* Starts and stops, crashes and lost paths on one volume with two targets.
SPECIFICATION Spec
CONSTANTS
    Addrs = {a1, a2}
    Namespaces = {n1, n2}
    DmNumbers = {d1, d2}
    Requests <- StartsAndStops
    Syncs = FALSE
    None = None
    Zero = Zero
SYMMETRY Symmetry
INVARIANTS
    DevicePresent
PROPERTIES
    EndpointServes
    StoppedIsClean
    CleanStartSucceeds
