\* The other operations, and SyncDmDeviceSize, which takes no lock.
SPECIFICATION Spec
CONSTANTS
    Addrs = {a1}
    Namespaces = {n1, n2}
    DmNumbers = {d1}
    Requests <- Maintenance
    Syncs = TRUE
    None = None
    Zero = Zero
SYMMETRY Symmetry
PROPERTIES
    EndpointServes
