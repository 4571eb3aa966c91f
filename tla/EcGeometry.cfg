\* The ratios of the code, on smaller clusters: 16 pages of 8 bytes, growth by 2.
SPECIFICATION Spec
CONSTANTS
    KiB = 8
    WibRegionStripes = 1
    ClusterSize = 128
    MdPageSize = 8
    MaxGrowthFactor = 2
    ShardSizeAlignment = 64
    MaxUint32 = 41
    StripSizes = {4, 8}
    DataChunks = {0, 1, 2, 3}
    VolumeSizes <- AroundBoundaries
CHECK_DEADLOCK FALSE
INVARIANTS
    ShardBacksSpec
    AdmissionPredictsSpdk
    MaxIsLargest
PROPERTIES
    CallsEnd
