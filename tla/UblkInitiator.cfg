\* Two volumes and ids 1 .. 3: the generator wraps after three starts.
SPECIFICATION Spec
CONSTANTS
    Initiators = {v1, v2}
    NoBdev = NoBdev
    MaxUblkId = 3
SYMMETRY VolumeSymmetry
INVARIANTS
    ReservedIdIsFree
    StopsOnlyOwnDisk
    OneDiskPerBdev
    DiskIsKnown
