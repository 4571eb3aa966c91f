----------------------------- MODULE EcGeometry -----------------------------
(***************************************************************************)
(* The sizes of an erasure-coded volume (pkg/spdk/types/ec_geometry.go).   *)
(* A volume of volumeSize bytes lives in an lvstore on an EC bdev, whose k *)
(* data chunks lie on shards of equal size.  ComputeShardSize says how     *)
(* large a shard has to be for that, ValidateECCreationSize whether SPDK   *)
(* can create the lvstore at all, MaxECVolumeSizeForCreation how large a   *)
(* volume it accepts.                                                      *)
(*                                                                         *)
(* Two loops make these hard to check by example: the metadata of the      *)
(* lvstore takes space on the device that it describes, so that its size   *)
(* is found by iteration, and the limit is found by bisection over a       *)
(* function that has no inverse.  A behaviour is one call of a function;   *)
(* each turn of a loop is a step.                                          *)
(***************************************************************************)
EXTENDS Integers

CONSTANTS
    KiB,                \* bytes in a KiB: 1024
    WibRegionStripes,   \* 1024
    ClusterSize,        \* EcLvstoreClusterSize, 4 MiB
    MdPageSize,         \* ecLvstoreMdPageSize, 4096
    MaxGrowthFactor,    \* EcLvstoreMaxGrowthFactor, 10
    ShardSizeAlignment, \* ecShardSizeAlignment, 2 MiB
    MaxUint32,          \* the number of metadata pages that SPDK can count
    StripSizes,         \* values of stripSizeKB
    DataChunks,         \* values of k
    VolumeSizes         \* values of volumeSize

Positive == Nat \ {0}

ASSUME UnitsAssumption ==
    /\ {KiB, WibRegionStripes, ClusterSize, MdPageSize, MaxGrowthFactor,
        ShardSizeAlignment, MaxUint32} \subseteq Positive
    /\ DataChunks \subseteq Nat
    /\ VolumeSizes \subseteq Nat

\* A cluster is a whole number of metadata pages, and its own metadata takes a small
\* part of it: 40 of 1024 pages with the values of the code.
ASSUME ClusterAssumption ==
    /\ ClusterSize % MdPageSize = 0
    /\ 4 * MaxGrowthFactor < ClusterSize \div MdPageSize

\* EcFrontReservationStrips "assumes a valid strip size": its write-intent bitmap has room
\* for its header, and a shard is a whole number of strips.
ASSUME StripsAssumption ==
    \A strip \in StripSizes :
        /\ strip \in Positive
        /\ strip * KiB >= 28
        /\ ShardSizeAlignment % (strip * KiB) = 0

CeilDiv(a, b) == (a + b - 1) \div b
-----------------------------------------------------------------------------
(***************************************************************************)
(* What SPDK keeps at the front of every base disk: two copies of the      *)
(* unmapped bitmap, two of the write-intent bitmap, two commit records.    *)
(***************************************************************************)

EcFrontReservationStrips(strip) ==
    LET stripBytes == strip * KiB
        wibPayload == stripBytes - 24 - 4
        maxStripes == (wibPayload \div 8) * 64 * WibRegionStripes
        blobBytes  == 40 + ((maxStripes + 63) \div 64) * 8
        slotStrips == CeilDiv(blobBytes + 4, stripBytes)
    IN slotStrips * 2 + 2 + 2

EcFrontReservationBytes(strip) == EcFrontReservationStrips(strip) * strip * KiB
-----------------------------------------------------------------------------
(***************************************************************************)
(* The metadata of an lvstore.                                             *)
(***************************************************************************)

MdRatioBase == 100

MdPagesPerClusterRatio == MdRatioBase * MaxGrowthFactor

PagesPerCluster == ClusterSize \div MdPageSize

MaxCreationSize == (MaxUint32 \div (MdPagesPerClusterRatio \div MdRatioBase)) * ClusterSize

lvstoreMaskPages(bits) == CeilDiv(8 + CeilDiv(bits, 8), MdPageSize)

Larger(a, b) == IF a > b THEN a ELSE b

\* The clusters that the super block, the masks and the mdLen metadata pages take.
MetadataClusters(clusters, mdLen) ==
    CeilDiv(1 + lvstoreMaskPages(mdLen)
              + Larger(lvstoreMaskPages(clusters), lvstoreMaskPages(mdLen))
              + lvstoreMaskPages(mdLen) + mdLen,
            PagesPerCluster)

lvstoreMetadataBytesFor(deviceBytes) ==
    LET clusters == CeilDiv(deviceBytes, ClusterSize)
        mdLen    == CeilDiv(clusters * MdPagesPerClusterRatio, MdRatioBase)
    IN MetadataClusters(clusters, mdLen) * ClusterSize

\* ComputeShardSize and EcUsableSize, once lvstoreMetadataBytes has returned meta.
ShardSize(volumeSize, meta, k, strip) ==
    LET backing == volumeSize + meta
        perDisk == CeilDiv(backing, k) + EcFrontReservationBytes(strip)
    IN CeilDiv(perDisk, ShardSizeAlignment) * ShardSizeAlignment

UsableSize(volumeSize, meta, k, strip) ==
    (ShardSize(volumeSize, meta, k, strip) - EcFrontReservationBytes(strip)) * k

MaxClusters == MaxCreationSize \div ClusterSize

\* As if the limit itself were too large.
BelowLimit(usable) == usable \div ClusterSize < MaxClusters

\* The comparison of ValidateECCreationSize, and of fits in the bisection.
WithinLimit(usable) == usable \div ClusterSize <= MaxClusters
-----------------------------------------------------------------------------
(***************************************************************************)
(* One call.  The function asks for the size of one volume, or of many.    *)
(***************************************************************************)

Calls ==
    [function : {"ComputeShardSize", "ValidateECCreationSize"},
     volumeSize : VolumeSizes, k : DataChunks, strip : StripSizes]
      \cup [function : {"MaxECVolumeSizeForCreation"}, k : DataChunks, strip : StripSizes]

VARIABLES
    call,      \* the function and its arguments
    pc,        \* "estimate", "iterate": lvstoreMetadataBytes; "sized": after it; "returned"
    size,      \* the volume size that is being looked at
    meta,      \* the estimate of its metadata
    lo, hi     \* the bounds of the bisection

vars == <<call, pc, size, meta, lo, hi>>

\* EcUsableSize of the size that was looked at: 0 for an empty volume.
Usable ==
    IF size = 0 \/ call.k = 0 THEN 0 ELSE UsableSize(size, meta, call.k, call.strip)

\* Without a size or without data chunks there is nothing to compute.
LookAt(volumeSize) ==
    /\ size' = volumeSize
    /\ meta' = 0
    /\ pc' = IF volumeSize = 0 \/ call.k = 0 THEN "sized" ELSE "estimate"

Init ==
    /\ call \in Calls
    /\ pc = "called"
    /\ size = 0
    /\ meta = 0
    /\ lo = 1
    /\ hi = MaxCreationSize

Begin ==
    /\ pc = "called"
    /\ IF call.function = "MaxECVolumeSizeForCreation"
       THEN /\ pc' = "probe"
            /\ UNCHANGED <<size, meta>>
       ELSE LookAt(call.volumeSize)
    /\ UNCHANGED <<call, lo, hi>>

\* lvstoreMetadataBytes: the metadata of a device for the data alone, ...
Estimate ==
    /\ pc = "estimate"
    /\ meta' = lvstoreMetadataBytesFor(size)
    /\ pc' = "iterate"
    /\ UNCHANGED <<call, size, lo, hi>>

\* ... then of one for the data and the metadata, until that is no more, ...
Iterate ==
    /\ pc = "iterate"
    /\ LET next == lvstoreMetadataBytesFor(size + meta)
       IN /\ next > meta
          /\ meta' = next
    /\ UNCHANGED <<call, pc, size, lo, hi>>

\* Without the spare cluster.
SettleExactly ==
    /\ pc = "iterate"
    /\ lvstoreMetadataBytesFor(size + meta) <= meta
    /\ pc' = "sized"
    /\ UNCHANGED <<call, size, meta, lo, hi>>

\* ... and a spare cluster.
Settle ==
    /\ pc = "iterate"
    /\ lvstoreMetadataBytesFor(size + meta) <= meta
    /\ meta' = meta + ClusterSize
    /\ pc' = "sized"
    /\ UNCHANGED <<call, size, lo, hi>>

\* The middle rounded down: with hi = lo + 1 it is lo, and stays so.
ProbeLower ==
    /\ pc = "probe"
    /\ lo < hi
    /\ LookAt(lo + (hi - lo) \div 2)
    /\ UNCHANGED <<call, lo, hi>>

Probe ==
    /\ pc = "probe"
    /\ lo < hi
    /\ LookAt(lo + (hi - lo + 1) \div 2)
    /\ UNCHANGED <<call, lo, hi>>

\* The size that fits is left behind, as in a search for the first that does not.
HalveBeyond ==
    /\ pc = "sized"
    /\ call.function = "MaxECVolumeSizeForCreation"
    /\ IF WithinLimit(Usable)
       THEN /\ lo' = size + 1
            /\ UNCHANGED hi
       ELSE /\ hi' = size - 1
            /\ UNCHANGED lo
    /\ pc' = "probe"
    /\ UNCHANGED <<call, size, meta>>

Halve ==
    /\ pc = "sized"
    /\ call.function = "MaxECVolumeSizeForCreation"
    /\ IF WithinLimit(Usable)
       THEN /\ lo' = size
            /\ UNCHANGED hi
       ELSE /\ hi' = size - 1
            /\ UNCHANGED lo
    /\ pc' = "probe"
    /\ UNCHANGED <<call, size, meta>>

\* MaxECVolumeSizeForCreation returns lo, the others what they computed for size.
Return ==
    /\ \/ pc = "probe" /\ ~(lo < hi)
       \/ pc = "sized" /\ call.function # "MaxECVolumeSizeForCreation"
    /\ pc' = "returned"
    /\ UNCHANGED <<call, size, meta, lo, hi>>

Next == Begin \/ Estimate \/ Iterate \/ Settle \/ Probe \/ Halve \/ Return

\* One goroutine, which runs.
Spec == Init /\ [][Next]_vars /\ WF_vars(Next)
-----------------------------------------------------------------------------
(***************************************************************************)
(* What SPDK makes of these sizes, as the tests of the package replay it   *)
(* (ec_geometry_test.go:84-112, 216-223).                                  *)
(***************************************************************************)

\* ec_compute_geometry: whole strips of the shards, without those in front.
EcBdevSize(shard, chunks, strip) ==
    (shard \div (strip * KiB) - EcFrontReservationStrips(strip)) * chunks * (strip * KiB)

\* spdk_bs_init, which rounds down: the clusters that are left for data.
DataClusters(device) ==
    LET clusters == device \div ClusterSize
        mdLen    == (clusters * MdPagesPerClusterRatio) \div MdRatioBase
    IN clusters - MetadataClusters(clusters, mdLen)

\* setup_lvs_opts, which refuses an lvstore with more metadata pages than it can count.
Creatable(device) ==
    ((device \div ClusterSize) * MdPagesPerClusterRatio) \div MdRatioBase <= MaxUint32

\* The metadata of a volume is settled with n clusters if that holds what describes the
\* volume and these clusters.
Settled(volumeSize, n) ==
    lvstoreMetadataBytesFor(volumeSize + n * ClusterSize) <= n * ClusterSize

\* SPDK can create the lvstore for the volume on shards with some settled size, and a
\* spare cluster.  Larger metadata only make the device larger.
SpdkAccepts(volumeSize, chunks, strip) ==
    \E n \in 0 .. MaxClusters :
        /\ Settled(volumeSize, n)
        /\ Creatable(EcBdevSize(ShardSize(volumeSize, (n + 1) * ClusterSize, chunks, strip),
                                chunks, strip))
-----------------------------------------------------------------------------
TypeOK ==
    /\ call \in Calls
    /\ pc \in {"called", "probe", "estimate", "iterate", "sized", "returned"}
    /\ {size, meta, lo, hi} \subseteq Nat

Returned(function) == pc = "returned" /\ call.function = function

\* On shards of the size that ComputeShardSize returns, the EC bdev has exactly the size
\* that EcUsableSize tells, and after SPDK has taken the metadata of the lvstore from it
\* the volume fits into the rest.
ShardBacksSpec ==
    Returned("ComputeShardSize") /\ size > 0 /\ call.k > 0 =>
        LET device == EcBdevSize(ShardSize(size, meta, call.k, call.strip),
                                 call.k, call.strip)
        IN /\ device = Usable
           /\ DataClusters(device) >= CeilDiv(size, ClusterSize)

\* ValidateECCreationSize accepts a volume if and only if SPDK can create its lvstore.
AdmissionPredictsSpdk ==
    Returned("ValidateECCreationSize") /\ size > 0 /\ call.k > 0 =>
        (WithinLimit(Usable) <=> SpdkAccepts(size, call.k, call.strip))

\* MaxECVolumeSizeForCreation returns the largest volume for which that is so: all up to
\* it can be created, and none beyond.
MaxIsLargest ==
    Returned("MaxECVolumeSizeForCreation") /\ call.k > 0 =>
        \A v \in 2 .. MaxCreationSize + 1 : SpdkAccepts(v, call.k, call.strip) <=> v <= lo

\* Neither the iteration nor the bisection goes on for ever.
CallsEnd == <>(pc = "returned")
=============================================================================
