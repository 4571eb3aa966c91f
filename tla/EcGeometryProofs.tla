-------------------------- MODULE EcGeometryProofs --------------------------
(***************************************************************************)
(* For every value of the constants: on shards of the size that            *)
(* ComputeShardSize returns the volume fits, ValidateECCreationSize        *)
(* accepts what SPDK accepts, and MaxECVolumeSizeForCreation finds the     *)
(* largest such size.                                                      *)
(*                                                                         *)
(* The argument is about clusters: a volume of h clusters with n clusters  *)
(* of metadata is settled if Md(h + n) <= n.  Md grows more slowly than    *)
(* its argument (MdSlow), so that c - Md(c) only grows with c, and what is *)
(* settled stays settled for smaller volumes.                              *)
(***************************************************************************)
EXTENDS EcGeometry, TLAPS

(***************************************************************************)
(* Division of naturals.                                                   *)
(***************************************************************************)

LEMMA DivIs ==
    ASSUME NEW a \in Nat, NEW b \in Positive
    PROVE  /\ a \div b \in Nat
           /\ b * (a \div b) <= a
           /\ a < b * (a \div b) + b
BY DEF Positive

LEMMA DivUnique ==
    ASSUME NEW a \in Nat, NEW b \in Positive, NEW q \in Nat, b * q <= a, a < b * q + b
    PROVE  a \div b = q
BY DEF Positive

LEMMA DivExact ==
    ASSUME NEW a \in Nat, NEW b \in Positive, a % b = 0
    PROVE  a = (a \div b) * b
BY DEF Positive

LEMMA DivShift ==
    ASSUME NEW a \in Nat, NEW b \in Positive, NEW n \in Nat
    PROVE  (a + n * b) \div b = (a \div b) + n
BY DEF Positive

LEMMA DivMono ==
    ASSUME NEW a \in Nat, NEW c \in Nat, NEW b \in Positive, a <= c
    PROVE  a \div b <= c \div b
BY DEF Positive

LEMMA MulMono ==
    ASSUME NEW a \in Nat, NEW c \in Nat, NEW b \in Nat, a <= c
    PROVE  b * a <= b * c
OBVIOUS

LEMMA CeilIs ==
    ASSUME NEW a \in Nat, NEW b \in Positive
    PROVE  /\ CeilDiv(a, b) \in Nat
           /\ a <= b * CeilDiv(a, b)
           /\ b * CeilDiv(a, b) < a + b
<1>1. a + b - 1 \in Nat
  BY DEF Positive
<1> QED
  BY <1>1, DivIs DEF CeilDiv, Positive

LEMMA CeilShift ==
    ASSUME NEW a \in Nat, NEW b \in Positive, NEW n \in Nat
    PROVE  CeilDiv(a + n * b, b) = CeilDiv(a, b) + n
<1>1. /\ a + b - 1 \in Nat
      /\ a + n * b + b - 1 = (a + b - 1) + n * b
  BY DEF Positive
<1> QED
  BY <1>1, DivShift DEF CeilDiv

LEMMA CeilMono ==
    ASSUME NEW a \in Nat, NEW c \in Nat, NEW b \in Positive, a <= c
    PROVE  CeilDiv(a, b) <= CeilDiv(c, b)
<1>1. /\ a + b - 1 \in Nat
      /\ c + b - 1 \in Nat
      /\ a + b - 1 <= c + b - 1
  BY DEF Positive
<1> QED
  BY <1>1, DivMono DEF CeilDiv

\* The quotient grows no faster than the dividend.
LEMMA CeilSlow ==
    ASSUME NEW a \in Nat, NEW c \in Nat, NEW b \in Positive, a <= c
    PROVE  CeilDiv(c, b) <= CeilDiv(a, b) + (c - a)
<1> DEFINE d == c - a
<1>1. /\ d \in Nat
      /\ a + d * b \in Nat
      /\ c <= a + d * b
  BY DEF Positive
<1>2. CeilDiv(c, b) <= CeilDiv(a + d * b, b)
  BY <1>1, CeilMono
<1> QED
  BY <1>1, <1>2, CeilShift
-----------------------------------------------------------------------------
(***************************************************************************)
(* The metadata of c clusters, in clusters.                                *)
(***************************************************************************)

Md(c) == MetadataClusters(c, c * MaxGrowthFactor)

LEMMA Units ==
    /\ KiB \in Positive /\ WibRegionStripes \in Positive /\ ClusterSize \in Positive
    /\ MdPageSize \in Positive /\ MaxGrowthFactor \in Positive
    /\ ShardSizeAlignment \in Positive /\ MaxUint32 \in Positive
    /\ PagesPerCluster \in Positive
    /\ 4 * MaxGrowthFactor < PagesPerCluster
<1>1. /\ KiB \in Positive /\ WibRegionStripes \in Positive /\ ClusterSize \in Positive
      /\ MdPageSize \in Positive /\ MaxGrowthFactor \in Positive
      /\ ShardSizeAlignment \in Positive /\ MaxUint32 \in Positive
  BY UnitsAssumption
<1>2. ClusterSize \div MdPageSize \in Nat
  BY <1>1, DivIs DEF Positive
<1> QED
  BY <1>1, <1>2, ClusterAssumption DEF PagesPerCluster, Positive

\* Rounding up or down, the ratio is exact.
LEMMA RatioExact ==
    ASSUME NEW c \in Nat
    PROVE  /\ CeilDiv(c * MdPagesPerClusterRatio, MdRatioBase) = c * MaxGrowthFactor
           /\ (c * MdPagesPerClusterRatio) \div MdRatioBase = c * MaxGrowthFactor
<1> DEFINE q == c * MaxGrowthFactor
<1>1. q \in Nat
  BY Units DEF Positive
<1>2. c * MdPagesPerClusterRatio = 100 * q
  BY Units DEF Positive, MdPagesPerClusterRatio, MdRatioBase
<1>3. (100 * q) \div 100 = q /\ (100 * q + 99) \div 100 = q
  BY <1>1
<1> HIDE DEF q
<1>4. 100 * q + 100 - 1 = 100 * q + 99
  BY <1>1
<1>5. CeilDiv(100 * q, 100) = q
  BY <1>3, <1>4 DEF CeilDiv
<1> QED
  BY <1>2, <1>3, <1>5 DEF MdRatioBase, q

LEMMA MaskIs ==
    ASSUME NEW a \in Nat, NEW c \in Nat, a <= c
    PROVE  /\ lvstoreMaskPages(a) \in Nat
           /\ lvstoreMaskPages(a) <= lvstoreMaskPages(c)
           /\ lvstoreMaskPages(c) <= lvstoreMaskPages(a) + (c - a)
<1> DEFINE x == 8 + CeilDiv(a, 8)
           y == 8 + CeilDiv(c, 8)
<1>1. 8 \in Positive
  BY DEF Positive
<1>2. CeilDiv(a, 8) \in Nat /\ CeilDiv(c, 8) \in Nat
  BY <1>1, CeilIs
<1>3. x \in Nat /\ y \in Nat /\ x <= y /\ y <= x + (c - a)
  BY <1>1, <1>2, CeilMono, CeilSlow
<1>4. /\ lvstoreMaskPages(a) = CeilDiv(x, MdPageSize)
      /\ lvstoreMaskPages(c) = CeilDiv(y, MdPageSize)
  BY DEF lvstoreMaskPages
<1> HIDE DEF x, y
<1>5. /\ CeilDiv(x, MdPageSize) \in Nat
      /\ CeilDiv(y, MdPageSize) \in Nat
      /\ CeilDiv(x, MdPageSize) <= CeilDiv(y, MdPageSize)
      /\ CeilDiv(y, MdPageSize) <= CeilDiv(x, MdPageSize) + (y - x)
  BY <1>3, Units, CeilIs, CeilMono, CeilSlow
<1> QED
  BY <1>3, <1>4, <1>5

\* The mask of the used clusters has the room of that of the metadata pages, which are more.
LEMMA MdIs ==
    ASSUME NEW c \in Nat
    PROVE  LET g == c * MaxGrowthFactor
           IN /\ g \in Nat
              /\ Md(c) = CeilDiv(1 + 3 * lvstoreMaskPages(g) + g, PagesPerCluster)
              /\ lvstoreMaskPages(g) \in Nat
              /\ Md(c) \in Nat
<1> DEFINE g == c * MaxGrowthFactor
<1>1. g \in Nat /\ c <= g
  BY Units DEF Positive
<1> HIDE DEF g
<1>2. /\ lvstoreMaskPages(c) \in Nat
      /\ lvstoreMaskPages(g) \in Nat
      /\ lvstoreMaskPages(c) <= lvstoreMaskPages(g)
  BY <1>1, MaskIs
<1>3. Larger(lvstoreMaskPages(c), lvstoreMaskPages(g)) = lvstoreMaskPages(g)
  BY <1>2 DEF Larger
<1>4. 1 + lvstoreMaskPages(g) + Larger(lvstoreMaskPages(c), lvstoreMaskPages(g))
        + lvstoreMaskPages(g) + g
      = 1 + 3 * lvstoreMaskPages(g) + g
  BY <1>1, <1>2, <1>3
<1>5. Md(c) = CeilDiv(1 + 3 * lvstoreMaskPages(g) + g, PagesPerCluster)
  BY <1>4 DEF Md, MetadataClusters, g
<1>6. Md(c) \in Nat
  BY <1>1, <1>2, <1>5, Units, CeilIs
<1> QED
  BY <1>1, <1>2, <1>5, <1>6 DEF g

\* More clusters have more metadata, but not by as many clusters.
LEMMA MdSlow ==
    ASSUME NEW a \in Nat, NEW c \in Nat, a <= c
    PROVE  /\ Md(a) \in Nat
           /\ Md(c) \in Nat
           /\ Md(a) <= Md(c)
           /\ Md(c) <= Md(a) + (c - a)
<1> DEFINE ga == a * MaxGrowthFactor
           gc == c * MaxGrowthFactor
           ma == lvstoreMaskPages(ga)
           mc == lvstoreMaskPages(gc)
           pa == 1 + 3 * ma + ga
           pc_ == 1 + 3 * mc + gc
           d == c - a
<1>1. /\ ga \in Nat /\ ma \in Nat /\ Md(a) \in Nat /\ Md(a) = CeilDiv(pa, PagesPerCluster)
      /\ gc \in Nat /\ mc \in Nat /\ Md(c) \in Nat /\ Md(c) = CeilDiv(pc_, PagesPerCluster)
  BY MdIs
<1>2. d \in Nat /\ ga <= gc /\ gc - ga = d * MaxGrowthFactor
  BY Units DEF Positive
<1>3. d * (4 * MaxGrowthFactor) <= d * PagesPerCluster
  BY <1>2, Units, MulMono DEF Positive
<1> HIDE DEF ga, gc
<1>4. ma <= mc /\ mc <= ma + (gc - ga)
  BY <1>1, <1>2, MaskIs
<1>5. /\ pa \in Nat /\ pc_ \in Nat /\ pa <= pc_
      /\ pc_ <= pa + 4 * (gc - ga)
  BY <1>1, <1>2, <1>4
<1>6. 4 * (gc - ga) = d * (4 * MaxGrowthFactor)
  BY <1>2, Units DEF Positive
<1>7. /\ pa + d * PagesPerCluster \in Nat
      /\ pc_ <= pa + d * PagesPerCluster
  BY <1>1, <1>2, <1>3, <1>5, <1>6, Units DEF Positive
<1> HIDE DEF pa, pc_, d
<1>8. CeilDiv(pa, PagesPerCluster) <= CeilDiv(pc_, PagesPerCluster)
  BY <1>5, Units, CeilMono
<1>9. CeilDiv(pc_, PagesPerCluster) <= CeilDiv(pa + d * PagesPerCluster, PagesPerCluster)
  BY <1>5, <1>7, Units, CeilMono
<1>10. CeilDiv(pa + d * PagesPerCluster, PagesPerCluster) = CeilDiv(pa, PagesPerCluster) + d
  BY <1>2, <1>5, Units, CeilShift
<1> QED
  BY <1>1, <1>2, <1>8, <1>9, <1>10 DEF d

LEMMA ForIs ==
    ASSUME NEW v \in Nat, NEW n \in Nat
    PROVE  /\ CeilDiv(v, ClusterSize) \in Nat
           /\ lvstoreMetadataBytesFor(v + n * ClusterSize)
                = Md(CeilDiv(v, ClusterSize) + n) * ClusterSize
<1>1. CeilDiv(v, ClusterSize) \in Nat
  BY Units, CeilIs
<1>2. CeilDiv(v + n * ClusterSize, ClusterSize) = CeilDiv(v, ClusterSize) + n
  BY Units, CeilShift
<1>3. CeilDiv(v, ClusterSize) + n \in Nat
  BY <1>1
<1>4. CeilDiv((CeilDiv(v, ClusterSize) + n) * MdPagesPerClusterRatio, MdRatioBase)
        = (CeilDiv(v, ClusterSize) + n) * MaxGrowthFactor
  BY <1>3, RatioExact
<1> QED
  BY <1>1, <1>2, <1>4 DEF lvstoreMetadataBytesFor, Md

LEMMA SettledIs ==
    ASSUME NEW v \in Nat, NEW n \in Nat
    PROVE  Settled(v, n) <=> Md(CeilDiv(v, ClusterSize) + n) <= n
<1> DEFINE m == Md(CeilDiv(v, ClusterSize) + n)
<1>1. CeilDiv(v, ClusterSize) + n \in Nat
  BY ForIs
<1>2. m \in Nat
  BY <1>1, MdIs
<1>3. Settled(v, n) <=> m * ClusterSize <= n * ClusterSize
  BY ForIs DEF Settled
<1> HIDE DEF m
<1>4. m * ClusterSize <= n * ClusterSize <=> m <= n
  BY <1>2, Units DEF Positive
<1> QED
  BY <1>3, <1>4 DEF m

\* What is settled for a volume is settled for a smaller one.
LEMMA SettledMono ==
    ASSUME NEW v \in Nat, NEW w \in Nat, v <= w, NEW n \in Nat, Settled(w, n)
    PROVE  Settled(v, n)
<1> DEFINE a == CeilDiv(v, ClusterSize) + n
           c == CeilDiv(w, ClusterSize) + n
<1>1. a \in Nat /\ c \in Nat /\ a <= c
  <2>1. CeilDiv(v, ClusterSize) \in Nat /\ CeilDiv(w, ClusterSize) \in Nat
    BY Units, CeilIs
  <2>2. CeilDiv(v, ClusterSize) <= CeilDiv(w, ClusterSize)
    BY Units, CeilMono
  <2> QED
    BY <2>1, <2>2
<1>2. Md(c) <= n
  BY SettledIs
<1> HIDE DEF a, c
<1>3. Md(a) <= n
  BY <1>1, <1>2, MdSlow
<1> QED
  BY <1>3, SettledIs DEF a

\* A device that is larger than the volume and its settled metadata by a cluster has room
\* for all clusters of the volume.
LEMMA DataFits ==
    ASSUME NEW v \in Nat, NEW n \in Nat, Settled(v, n),
           NEW device \in Nat, v + (n + 1) * ClusterSize <= device
    PROVE  DataClusters(device) >= CeilDiv(v, ClusterSize)
<1> DEFINE h == CeilDiv(v, ClusterSize)
           c == device \div ClusterSize
<1>1. /\ h \in Nat /\ h + n \in Nat /\ c \in Nat
      /\ ClusterSize * h < v + ClusterSize
      /\ device < ClusterSize * c + ClusterSize
  <2>1. h \in Nat /\ ClusterSize * h < v + ClusterSize
    BY Units, CeilIs
  <2>2. c \in Nat /\ device < ClusterSize * c + ClusterSize
    BY Units, DivIs
  <2> QED
    BY <2>1, <2>2
<1>2. DataClusters(device) = c - Md(c)
  BY <1>1, RatioExact DEF DataClusters, Md
<1>3. Md(h + n) <= n
  BY SettledIs
<1> HIDE DEF h, c
<1>4. ClusterSize * (h + n) < ClusterSize * (c + 1)
  BY <1>1, Units DEF Positive
<1>5. h + n <= c
  BY <1>1, <1>4, Units DEF Positive
<1>6. Md(h + n) \in Nat /\ Md(c) \in Nat /\ Md(c) <= Md(h + n) + (c - (h + n))
  BY <1>1, <1>5, MdSlow
<1> QED
  BY <1>1, <1>2, <1>3, <1>6 DEF h
-----------------------------------------------------------------------------
(***************************************************************************)
(* The EC bdev on shards of the computed size.                             *)
(***************************************************************************)

LEMMA FrontIs ==
    ASSUME NEW strip \in StripSizes
    PROVE  /\ strip * KiB \in Positive
           /\ EcFrontReservationStrips(strip) \in Nat
           /\ EcFrontReservationBytes(strip) = EcFrontReservationStrips(strip) * (strip * KiB)
           /\ EcFrontReservationBytes(strip) \in Nat
<1> DEFINE bytes   == strip * KiB
           payload == bytes - 24 - 4
           words   == payload \div 8
           stripes == words * 64 * WibRegionStripes
           blob    == 40 + ((stripes + 63) \div 64) * 8
           slot    == CeilDiv(blob + 4, bytes)
<1>1. strip \in Positive /\ bytes \in Positive /\ payload \in Nat
  BY StripsAssumption, Units DEF Positive
<1> HIDE DEF payload
<1>2. words \in Nat
  BY <1>1, DivIs DEF Positive
<1> HIDE DEF words
<1>3. stripes \in Nat
  BY <1>2, Units DEF Positive
<1> HIDE DEF stripes
<1>4. blob \in Nat
  <2>1. (stripes + 63) \div 64 \in Nat
    BY <1>3, DivIs DEF Positive
  <2> QED
    BY <2>1
<1> HIDE DEF blob, bytes
<1>5. slot \in Nat
  BY <1>1, <1>4, CeilIs
<1>6. EcFrontReservationStrips(strip) = slot * 2 + 2 + 2
  BY DEF EcFrontReservationStrips, slot, blob, stripes, words, payload, bytes
<1> HIDE DEF slot
<1>7. EcFrontReservationStrips(strip) \in Nat
  BY <1>5, <1>6
<1>8. EcFrontReservationBytes(strip) = EcFrontReservationStrips(strip) * bytes
  BY <1>1, <1>7, Units DEF EcFrontReservationBytes, bytes, Positive
<1>9. EcFrontReservationStrips(strip) * bytes \in Nat
  BY <1>1, <1>7 DEF Positive
<1> QED
  BY <1>1, <1>7, <1>8, <1>9 DEF bytes

\* The shards are aligned and back the volume; the strips cut off nothing.
LEMMA UsableIs ==
    ASSUME NEW v \in Nat, NEW meta_ \in Nat, NEW chunks \in Positive, NEW strip \in StripSizes
    PROVE  LET shard == ShardSize(v, meta_, chunks, strip)
               usable == UsableSize(v, meta_, chunks, strip)
           IN /\ EcBdevSize(shard, chunks, strip) = usable
              /\ usable \in Nat
              /\ v + meta_ <= usable
<1> DEFINE bytes   == strip * KiB
           front   == EcFrontReservationStrips(strip)
           part    == CeilDiv(v + meta_, chunks)
           perDisk == part + front * bytes
           units   == CeilDiv(perDisk, ShardSizeAlignment)
           per     == ShardSizeAlignment \div bytes
           shard   == units * ShardSizeAlignment
<1>1. /\ bytes \in Positive /\ front \in Nat
      /\ EcFrontReservationBytes(strip) = front * bytes
  BY FrontIs
<1>2. part \in Nat /\ v + meta_ <= chunks * part
  BY CeilIs
<1>3. front * bytes \in Nat
  BY <1>1 DEF Positive
<1>4. ShardSizeAlignment % bytes = 0
  BY StripsAssumption
<1>5. per \in Nat /\ ShardSizeAlignment = per * bytes
  <2>1. ShardSizeAlignment \in Nat
    BY Units DEF Positive
  <2> HIDE DEF bytes
  <2>2. ShardSizeAlignment \div bytes \in Nat
    BY <1>1, <2>1, DivIs
  <2>3. ShardSizeAlignment = (ShardSizeAlignment \div bytes) * bytes
    BY <1>1, <1>4, <2>1, DivExact
  <2> QED
    BY <2>2, <2>3
<1> HIDE DEF bytes, front, part, per
<1>6. perDisk \in Nat
  BY <1>2, <1>3
<1>7. units \in Nat /\ perDisk <= ShardSizeAlignment * units
  BY <1>6, Units, CeilIs
<1>8. /\ ShardSize(v, meta_, chunks, strip) = shard
      /\ UsableSize(v, meta_, chunks, strip) = (shard - front * bytes) * chunks
  BY <1>1 DEF ShardSize, UsableSize, part
<1> HIDE DEF units, perDisk
<1>9. shard \in Nat /\ perDisk <= shard
  BY <1>7, Units DEF Positive
<1>10. shard = (units * per) * bytes /\ units * per \in Nat
  BY <1>1, <1>5, <1>7 DEF Positive
<1>11. shard \div bytes = units * per
  BY <1>1, <1>9, <1>10, DivUnique DEF Positive
<1>12. EcBdevSize(shard, chunks, strip) = (units * per - front) * chunks * bytes
  BY <1>11 DEF EcBdevSize, bytes, front
<1>13. (units * per - front) * chunks * bytes = (shard - front * bytes) * chunks
  BY <1>1, <1>10 DEF Positive
<1>14. part <= shard - front * bytes /\ shard - front * bytes \in Nat
  BY <1>2, <1>3, <1>9 DEF perDisk
<1> HIDE DEF shard
<1>15. chunks * part <= (shard - front * bytes) * chunks
  BY <1>2, <1>14, MulMono DEF Positive
<1>16. (shard - front * bytes) * chunks \in Nat
  BY <1>14 DEF Positive
<1>17. EcBdevSize(ShardSize(v, meta_, chunks, strip), chunks, strip)
         = UsableSize(v, meta_, chunks, strip)
  BY <1>8, <1>12, <1>13
<1>18. chunks * part \in Nat
  BY <1>2 DEF Positive
<1>19. v + meta_ <= (shard - front * bytes) * chunks
  BY <1>2, <1>15, <1>16, <1>18
<1> QED
  BY <1>8, <1>16, <1>17, <1>19

LEMMA UsableMono ==
    ASSUME NEW v \in Nat, NEW m \in Nat, NEW w \in Nat, NEW n \in Nat, v + m <= w + n,
           NEW chunks \in Positive, NEW strip \in StripSizes
    PROVE  UsableSize(v, m, chunks, strip) <= UsableSize(w, n, chunks, strip)
<1> DEFINE front == EcFrontReservationBytes(strip)
           p == CeilDiv(v + m, chunks)
           q == CeilDiv(w + n, chunks)
           a == CeilDiv(p + front, ShardSizeAlignment)
           b == CeilDiv(q + front, ShardSizeAlignment)
<1>1. front \in Nat
  BY FrontIs
<1> HIDE DEF front
<1>2. p \in Nat /\ q \in Nat
  BY CeilIs
<1>3. p <= q
  BY CeilMono
<1> HIDE DEF p, q
<1>4. p + front \in Nat /\ q + front \in Nat /\ p + front <= q + front
  BY <1>1, <1>2, <1>3
<1>5. a \in Nat /\ b \in Nat
  BY <1>4, Units, CeilIs
<1>6. a <= b
  BY <1>4, Units, CeilMono
<1>7. /\ UsableSize(v, m, chunks, strip) = (a * ShardSizeAlignment - front) * chunks
      /\ UsableSize(w, n, chunks, strip) = (b * ShardSizeAlignment - front) * chunks
  BY DEF UsableSize, ShardSize, front, p, q
<1> HIDE DEF a, b
<1>8. a * ShardSizeAlignment <= b * ShardSizeAlignment
  BY <1>5, <1>6, Units, MulMono DEF Positive
<1>9. /\ a * ShardSizeAlignment \in Nat /\ b * ShardSizeAlignment \in Nat
  BY <1>5, Units DEF Positive
<1> DEFINE x == a * ShardSizeAlignment - front
           y == b * ShardSizeAlignment - front
<1>10. x \in Int /\ y \in Int /\ x <= y
  BY <1>1, <1>8, <1>9
<1> HIDE DEF x, y
<1>11. x * chunks <= y * chunks
  BY <1>10 DEF Positive
<1> QED
  BY <1>7, <1>11 DEF x, y

LEMMA LimitIs ==
    /\ MaxClusters = MaxUint32 \div MaxGrowthFactor
    /\ MaxClusters \in Nat
    /\ MaxCreationSize = MaxClusters * ClusterSize
    /\ MaxCreationSize \in Nat
<1> DEFINE q == MaxUint32 \div MaxGrowthFactor
<1>1. q \in Nat
  BY Units, DivIs DEF Positive
<1>2. MdPagesPerClusterRatio \div MdRatioBase = MaxGrowthFactor
  BY Units DEF Positive, MdPagesPerClusterRatio, MdRatioBase
<1>3. MaxCreationSize = q * ClusterSize
  BY <1>2 DEF MaxCreationSize
<1> HIDE DEF q
<1>4. q * ClusterSize \in Nat
  BY <1>1, Units DEF Positive
<1>5. (q * ClusterSize) \div ClusterSize = q
  BY <1>1, <1>4, Units, DivUnique DEF Positive
<1> QED
  BY <1>1, <1>3, <1>4, <1>5 DEF MaxClusters, q

\* The comparison in clusters is that of SPDK in metadata pages.
LEMMA LimitIsSpdks ==
    ASSUME NEW u \in Nat
    PROVE  WithinLimit(u) <=> Creatable(u)
<1> DEFINE c == u \div ClusterSize
           g == MaxGrowthFactor
           q == MaxUint32 \div g
<1>1. c \in Nat
  BY Units, DivIs
<1>2. Creatable(u) <=> c * g <= MaxUint32
  BY <1>1, RatioExact DEF Creatable
<1>3. WithinLimit(u) <=> c <= q
  BY LimitIs DEF WithinLimit
<1>4. q \in Nat /\ g * q <= MaxUint32 /\ MaxUint32 < g * q + g
  BY Units, DivIs DEF Positive
<1> HIDE DEF c, q
<1>5. c <= q => g * c <= g * q
  BY <1>1, <1>4, Units, MulMono DEF Positive
<1>6. q + 1 <= c => g * (q + 1) <= g * c
  BY <1>1, <1>4, Units, MulMono DEF Positive
<1>7. g * (q + 1) = g * q + g /\ g * c = c * g /\ g * c \in Nat /\ g * q \in Nat
  BY <1>1, <1>4, Units DEF Positive
<1>8. c <= q <=> c * g <= MaxUint32
  BY <1>1, <1>4, <1>5, <1>6, <1>7, Units DEF Positive
<1> QED
  BY <1>2, <1>3, <1>8

\* With the least settled metadata, the limit tells whether SPDK accepts the volume.
LEMMA AcceptIs ==
    ASSUME NEW v \in Nat, NEW chunks \in Positive, NEW strip \in StripSizes,
           NEW n \in Nat, Settled(v, n), \A j \in Nat : Settled(v, j) => n <= j
    PROVE  WithinLimit(UsableSize(v, (n + 1) * ClusterSize, chunks, strip))
             <=> SpdkAccepts(v, chunks, strip)
<1> DEFINE device(j) == EcBdevSize(ShardSize(v, (j + 1) * ClusterSize, chunks, strip),
                                   chunks, strip)
           usable(j) == UsableSize(v, (j + 1) * ClusterSize, chunks, strip)
<1>1. ASSUME NEW j \in Nat
      PROVE  /\ (j + 1) * ClusterSize \in Nat
             /\ device(j) = usable(j)
             /\ usable(j) \in Nat
             /\ v + (j + 1) * ClusterSize <= usable(j)
  <2>1. (j + 1) * ClusterSize \in Nat
    BY Units DEF Positive
  <2> QED
    BY <2>1, UsableIs
<1>2. ASSUME WithinLimit(usable(n))
      PROVE  SpdkAccepts(v, chunks, strip)
  <2>1. Creatable(device(n))
    BY <1>1, <1>2, LimitIsSpdks
  <2>2. (n + 1) * ClusterSize <= usable(n)
    BY <1>1
  <2>3. ((n + 1) * ClusterSize) \div ClusterSize = n + 1
    BY <1>1, Units, DivUnique DEF Positive
  <2>4. n + 1 <= usable(n) \div ClusterSize
    BY <1>1, <2>2, <2>3, Units, DivMono
  <2>5. usable(n) \div ClusterSize \in Nat
    BY <1>1, Units, DivIs
  <2>6. n <= MaxClusters
    BY <1>2, <2>4, <2>5, LimitIs DEF WithinLimit
  <2>7. n \in 0 .. MaxClusters
    BY <2>6, LimitIs
  <2> QED
    BY <2>1, <2>7 DEF SpdkAccepts
<1>3. ASSUME SpdkAccepts(v, chunks, strip)
      PROVE  WithinLimit(usable(n))
  <2>1. PICK j \in 0 .. MaxClusters : Settled(v, j) /\ Creatable(device(j))
    BY <1>3 DEF SpdkAccepts
  <2>2. j \in Nat /\ n <= j
    BY <2>1, LimitIs
  <2>3. (n + 1) * ClusterSize <= (j + 1) * ClusterSize
    BY <2>2, Units, MulMono DEF Positive
  <2>4. v + (n + 1) * ClusterSize <= v + (j + 1) * ClusterSize
    BY <1>1, <2>2, <2>3
  <2>5. usable(n) <= usable(j)
    BY <1>1, <2>2, <2>4, UsableMono
  <2>6. WithinLimit(usable(j))
    BY <1>1, <2>1, <2>2, LimitIsSpdks
  <2>7. usable(n) \in Nat /\ usable(j) \in Nat
    BY <1>1, <2>2
  <2> HIDE DEF usable
  <2>8. usable(n) \div ClusterSize <= usable(j) \div ClusterSize
    BY <2>5, <2>7, Units, DivMono
  <2>9. usable(n) \div ClusterSize \in Nat /\ usable(j) \div ClusterSize \in Nat
    BY <2>7, Units, DivIs
  <2> QED
    BY <2>6, <2>8, <2>9, LimitIs DEF WithinLimit
<1> QED
  BY <1>2, <1>3

\* What SPDK accepts, it accepts for a smaller volume too.
LEMMA AcceptMono ==
    ASSUME NEW v \in Nat, NEW w \in Nat, v <= w,
           NEW chunks \in Positive, NEW strip \in StripSizes,
           SpdkAccepts(w, chunks, strip)
    PROVE  SpdkAccepts(v, chunks, strip)
<1>1. PICK n \in 0 .. MaxClusters :
        /\ Settled(w, n)
        /\ Creatable(EcBdevSize(ShardSize(w, (n + 1) * ClusterSize, chunks, strip),
                                chunks, strip))
  BY DEF SpdkAccepts
<1> DEFINE m == (n + 1) * ClusterSize
           a == UsableSize(v, m, chunks, strip)
           b == UsableSize(w, m, chunks, strip)
<1>2. n \in Nat
  BY <1>1, LimitIs
<1>3. m \in Nat
  BY <1>2, Units DEF Positive
<1>4. Settled(v, n)
  BY <1>1, <1>2, SettledMono
<1>5. Creatable(EcBdevSize(ShardSize(w, m, chunks, strip), chunks, strip))
  BY <1>1
<1> HIDE DEF m
<1>6. /\ a \in Nat /\ EcBdevSize(ShardSize(v, m, chunks, strip), chunks, strip) = a
      /\ b \in Nat /\ EcBdevSize(ShardSize(w, m, chunks, strip), chunks, strip) = b
  BY <1>3, UsableIs
<1>7. v + m <= w + m
  BY <1>3
<1>8. a <= b
  BY <1>3, <1>7, UsableMono
<1> HIDE DEF a, b
<1>9. WithinLimit(b)
  BY <1>5, <1>6, LimitIsSpdks
<1>10. /\ a \div ClusterSize <= b \div ClusterSize
       /\ a \div ClusterSize \in Nat /\ b \div ClusterSize \in Nat
  <2>1. a \div ClusterSize <= b \div ClusterSize
    BY <1>6, <1>8, Units, DivMono
  <2>2. a \div ClusterSize \in Nat /\ b \div ClusterSize \in Nat
    BY <1>6, Units, DivIs
  <2> QED
    BY <2>1, <2>2
<1>11. WithinLimit(a)
  BY <1>9, <1>10, LimitIs DEF WithinLimit
<1>12. Creatable(EcBdevSize(ShardSize(v, m, chunks, strip), chunks, strip))
  BY <1>6, <1>11, LimitIsSpdks
<1> QED
  BY <1>1, <1>4, <1>12 DEF SpdkAccepts, m

\* Nothing beyond the size that SPDK can create leaves room for metadata.
LEMMA AcceptBound ==
    ASSUME NEW v \in Nat, MaxCreationSize < v,
           NEW chunks \in Positive, NEW strip \in StripSizes
    PROVE  ~ SpdkAccepts(v, chunks, strip)
<1> SUFFICES ASSUME SpdkAccepts(v, chunks, strip)
             PROVE  FALSE
  OBVIOUS
<1>1. PICK n \in 0 .. MaxClusters :
        Creatable(EcBdevSize(ShardSize(v, (n + 1) * ClusterSize, chunks, strip),
                             chunks, strip))
  BY DEF SpdkAccepts
<1> DEFINE m == (n + 1) * ClusterSize
           a == UsableSize(v, m, chunks, strip)
<1>2. n \in Nat
  BY <1>1, LimitIs
<1>3. m \in Nat /\ ClusterSize <= m
  BY <1>2, Units DEF Positive
<1>4. Creatable(EcBdevSize(ShardSize(v, m, chunks, strip), chunks, strip))
  BY <1>1
<1> HIDE DEF m
<1>5. a \in Nat /\ v + m <= a /\ EcBdevSize(ShardSize(v, m, chunks, strip), chunks, strip) = a
  BY <1>3, UsableIs
<1> HIDE DEF a
<1>6. WithinLimit(a)
  BY <1>4, <1>5, LimitIsSpdks
<1>7. ClusterSize * (MaxClusters + 1) = MaxCreationSize + ClusterSize
  BY LimitIs, Units DEF Positive
<1>8. ClusterSize * (MaxClusters + 1) <= a
  BY <1>3, <1>5, <1>7, LimitIs, Units DEF Positive
<1>9. (ClusterSize * (MaxClusters + 1)) \div ClusterSize = MaxClusters + 1
  BY LimitIs, Units, DivUnique DEF Positive
<1>10. ClusterSize * (MaxClusters + 1) \in Nat
  BY LimitIs, Units DEF Positive
<1>11. MaxClusters + 1 <= a \div ClusterSize
  BY <1>5, <1>8, <1>9, <1>10, Units, DivMono
<1>12. a \div ClusterSize \in Nat
  BY <1>5, Units, DivIs
<1> QED
  BY <1>6, <1>11, <1>12, LimitIs DEF WithinLimit
-----------------------------------------------------------------------------
(***************************************************************************)
(* The inductive invariant.                                                *)
(***************************************************************************)

Searches == call.function = "MaxECVolumeSizeForCreation"

Accepted(v) == SpdkAccepts(v, call.k, call.strip)

Least(n) == \A j \in Nat : Settled(size, j) => n <= j

\* The iteration approaches the least settled metadata from below.
LoopInv ==
    /\ pc \in {"estimate", "iterate"} => size > 0 /\ call.k > 0
    /\ pc = "iterate" => \E n \in Nat : meta = n * ClusterSize /\ Least(n)

\* At its end it has them, and a spare cluster.
SizedInv ==
    /\ pc = "sized" \/ (pc = "returned" /\ ~ Searches)
    /\ size > 0
    /\ call.k > 0
    => \E n \in Nat : meta = (n + 1) * ClusterSize /\ Settled(size, n) /\ Least(n)

\* The bisection keeps what it has found out about its bounds.
SearchInv ==
    /\ Searches => lo >= 1
    /\ Searches /\ pc \in {"estimate", "iterate", "sized"} => lo < size /\ size <= hi
    /\ Searches /\ pc = "returned" => hi <= lo
    /\ ~ Searches => pc # "probe"
    /\ Searches /\ call.k > 0 =>
         /\ lo = 1 \/ Accepted(lo)
         /\ hi = MaxCreationSize \/ ~ Accepted(hi + 1)

IInv == TypeOK /\ LoopInv /\ SizedInv /\ SearchInv

LEMMA CallIs ==
    ASSUME TypeOK
    PROVE  /\ call.k \in DataChunks /\ call.k \in Nat
           /\ call.strip \in StripSizes
           /\ call.k > 0 => call.k \in Positive
           /\ ~ Searches => call.volumeSize \in Nat
<1>1. /\ call.k \in DataChunks /\ call.strip \in StripSizes
      /\ ~ Searches => call.volumeSize \in VolumeSizes
  BY DEF TypeOK, Calls, Searches
<1>2. DataChunks \subseteq Nat /\ VolumeSizes \subseteq Nat
  BY UnitsAssumption
<1>3. call.k \in Nat /\ (~ Searches => call.volumeSize \in Nat)
  BY <1>1, <1>2
<1> QED
  BY <1>1, <1>3 DEF Positive

LEMMA InitInv == Init => IInv
<1> SUFFICES ASSUME Init PROVE IInv
  OBVIOUS
<1>1. TypeOK
  BY LimitIs DEF Init, TypeOK
<1>2. LoopInv /\ SizedInv
  BY DEF Init, LoopInv, SizedInv
<1>3. SearchInv
  BY DEF Init, SearchInv
<1> QED
  BY <1>1, <1>2, <1>3 DEF IInv

LEMMA ForIsNat ==
    ASSUME NEW v \in Nat
    PROVE  lvstoreMetadataBytesFor(v) \in Nat
<1>1. /\ CeilDiv(v, ClusterSize) + 0 \in Nat
      /\ lvstoreMetadataBytesFor(v + 0 * ClusterSize)
           = Md(CeilDiv(v, ClusterSize) + 0) * ClusterSize
  BY ForIs
<1>2. v + 0 * ClusterSize = v
  BY Units DEF Positive
<1>3. Md(CeilDiv(v, ClusterSize) + 0) \in Nat
  BY <1>1, MdIs
<1> QED
  BY <1>1, <1>2, <1>3, Units DEF Positive

\* The next estimate is a number of clusters, and not more than what is settled.
LEMMA NextEstimate ==
    ASSUME NEW v \in Nat, NEW n \in Nat,
           \A j \in Nat : Settled(v, j) => n <= j
    PROVE  \E m \in Nat :
             /\ lvstoreMetadataBytesFor(v + n * ClusterSize) = m * ClusterSize
             /\ \A j \in Nat : Settled(v, j) => m <= j
<1> DEFINE h == CeilDiv(v, ClusterSize)
           m == Md(h + n)
<1>1. h \in Nat /\ lvstoreMetadataBytesFor(v + n * ClusterSize) = m * ClusterSize
  BY ForIs
<1>2. ASSUME NEW j \in Nat, Settled(v, j)
      PROVE  m <= j
  <2>1. Md(h + j) <= j
    BY <1>2, SettledIs
  <2> HIDE DEF h
  <2>2. h + n \in Nat /\ h + j \in Nat /\ h + n <= h + j
    BY <1>1, <1>2
  <2>3. Md(h + n) \in Nat /\ Md(h + j) \in Nat /\ Md(h + n) <= Md(h + j)
    BY <2>2, MdSlow
  <2> QED
    BY <2>1, <2>3
<1>3. m \in Nat
  <2> HIDE DEF h
  <2>1. h + n \in Nat
    BY <1>1
  <2> QED
    BY <2>1, MdIs
<1> QED
  BY <1>1, <1>2, <1>3

LEMMA NextInv == IInv /\ [Next]_vars => IInv'
<1> SUFFICES ASSUME IInv, [Next]_vars
             PROVE  IInv'
  OBVIOUS
<1> USE DEF IInv
<1>0. /\ TypeOK /\ size \in Nat /\ meta \in Nat /\ lo \in Nat /\ hi \in Nat
      /\ call \in Calls
  BY DEF TypeOK
<1>1. CASE Begin
  <2>1. call' = call /\ lo' = lo /\ hi' = hi
    BY <1>1 DEF Begin
  <2>2. CASE Searches
    <3>1. pc' = "probe" /\ size' = size /\ meta' = meta
      BY <1>1, <2>2 DEF Begin, Searches
    <3> QED
      BY <1>0, <1>1, <2>1, <2>2, <3>1
      DEF Begin, TypeOK, LoopInv, SizedInv, SearchInv, Searches, Accepted
  <2>3. CASE ~ Searches
    <3>1. call.volumeSize \in Nat /\ call.k \in Nat
      BY <1>0, <2>3, CallIs
    <3>2. size' = call.volumeSize /\ meta' = 0
      BY <1>1, <2>3 DEF Begin, Searches, LookAt
    <3>3. pc' = "sized" => size' = 0 \/ call.k = 0
      BY <1>1, <2>3, <3>2 DEF Begin, Searches, LookAt
    <3>4. pc' \in {"sized", "estimate"} /\ (pc' = "estimate" => size' > 0 /\ call.k > 0)
      BY <1>1, <2>3, <3>1, <3>2 DEF Begin, Searches, LookAt
    <3>5. TypeOK'
      BY <1>0, <2>1, <3>1, <3>2, <3>4 DEF TypeOK
    <3>6. LoopInv' /\ SizedInv'
      BY <2>1, <3>1, <3>2, <3>3, <3>4 DEF LoopInv, SizedInv
    <3>7. SearchInv'
      BY <2>1, <2>3, <3>4 DEF SearchInv, Searches
    <3> QED
      BY <3>5, <3>6, <3>7
  <2> QED
    BY <2>2, <2>3
<1>2. CASE Estimate
  <2> USE DEF Estimate
  <2>1. meta' \in Nat
    BY <1>0, <1>2, ForIsNat
  <2>2. \E n \in Nat : meta' = n * ClusterSize /\ Least(n)
    <3>1. \A j \in Nat : Settled(size, j) => 0 <= j
      OBVIOUS
    <3>2. size + 0 * ClusterSize = size
      BY <1>0, Units DEF Positive
    <3> QED
      BY <1>0, <1>2, <3>1, <3>2, NextEstimate DEF Least
  <2>3. TypeOK'
    BY <1>0, <1>2, <2>1 DEF TypeOK
  <2>4. LoopInv'
    BY <1>2, <2>2 DEF LoopInv, Least
  <2>5. SizedInv' /\ SearchInv'
    BY <1>2 DEF SizedInv, SearchInv, Searches, Accepted
  <2> QED
    BY <2>3, <2>4, <2>5
<1>3. CASE Iterate
  <2> USE DEF Iterate
  <2>1. meta' = lvstoreMetadataBytesFor(size + meta) /\ size + meta \in Nat
    BY <1>0, <1>3
  <2>2. PICK n \in Nat : meta = n * ClusterSize /\ Least(n)
    BY <1>3 DEF LoopInv
  <2>3. \E m \in Nat : meta' = m * ClusterSize /\ Least(m)
    BY <1>0, <2>1, <2>2, NextEstimate DEF Least
  <2>4. TypeOK'
    BY <1>0, <1>3, <2>1, ForIsNat DEF TypeOK
  <2>5. LoopInv'
    BY <1>3, <2>3 DEF LoopInv, Least
  <2>6. SizedInv' /\ SearchInv'
    BY <1>3 DEF SizedInv, SearchInv, Searches, Accepted
  <2> QED
    BY <2>4, <2>5, <2>6
<1>4. CASE Settle
  <2> USE DEF Settle
  <2>1. PICK n \in Nat : meta = n * ClusterSize /\ Least(n)
    BY <1>4 DEF LoopInv
  <2>2. Settled(size, n)
    BY <1>4, <2>1 DEF Settled
  <2>3. meta' = (n + 1) * ClusterSize /\ meta' \in Nat
    BY <1>0, <1>4, <2>1, Units DEF Positive
  <2>4. TypeOK'
    BY <1>0, <1>4, <2>3 DEF TypeOK
  <2>5. SizedInv'
    BY <1>4, <2>1, <2>2, <2>3 DEF SizedInv, Least
  <2>6. LoopInv' /\ SearchInv'
    BY <1>4 DEF LoopInv, SearchInv, Searches, Accepted
  <2> QED
    BY <2>4, <2>5, <2>6
<1>5. CASE Probe
  <2> DEFINE middle == lo + (hi - lo + 1) \div 2
  <2>1. call' = call /\ lo' = lo /\ hi' = hi /\ lo < hi /\ pc = "probe"
    BY <1>5 DEF Probe
  <2>2. middle \in Nat /\ lo < middle /\ middle <= hi
    BY <1>0, <2>1
  <2>3. size' = middle /\ meta' = 0
    BY <1>5 DEF Probe, LookAt
  <2>4. pc' = IF middle = 0 \/ call.k = 0 THEN "sized" ELSE "estimate"
    BY <1>5 DEF Probe, LookAt
  <2> HIDE DEF middle
  <2>5. call.k \in Nat
    BY <1>0, CallIs
  <2>6. TypeOK'
    BY <1>0, <2>1, <2>2, <2>3, <2>4 DEF TypeOK
  <2>7. LoopInv' /\ SizedInv'
    BY <1>0, <2>1, <2>2, <2>3, <2>4, <2>5 DEF LoopInv, SizedInv
  <2>8. SearchInv'
    BY <1>0, <2>1, <2>2, <2>3, <2>4 DEF SearchInv, Searches, Accepted
  <2> QED
    BY <2>6, <2>7, <2>8
<1>6. CASE Halve
  <2>1. /\ Searches /\ pc = "sized" /\ pc' = "probe"
        /\ call' = call /\ size' = size /\ meta' = meta
        /\ lo < size /\ size <= hi /\ lo >= 1
    BY <1>6 DEF Halve, Searches, SearchInv
  <2>2. \/ WithinLimit(Usable) /\ lo' = size /\ hi' = hi
        \/ ~ WithinLimit(Usable) /\ lo' = lo /\ hi' = size - 1
    BY <1>6 DEF Halve
  <2>3. lo' \in Nat /\ hi' \in Nat /\ lo' >= 1
    BY <1>0, <2>1, <2>2
  <2>4. call.k > 0 => (WithinLimit(Usable) <=> Accepted(size))
    <3> SUFFICES ASSUME call.k > 0
                 PROVE  WithinLimit(Usable) <=> Accepted(size)
      OBVIOUS
    <3>1. PICK n \in Nat : meta = (n + 1) * ClusterSize /\ Settled(size, n) /\ Least(n)
      BY <1>0, <2>1 DEF SizedInv
    <3>2. call.k \in Positive /\ call.strip \in StripSizes
      BY <1>0, CallIs
    <3>3. Usable = UsableSize(size, (n + 1) * ClusterSize, call.k, call.strip)
      BY <1>0, <2>1, <3>1, <3>2 DEF Usable, Positive
    <3> QED
      BY <1>0, <3>1, <3>2, <3>3, AcceptIs DEF Accepted, Least
  <2>5. TypeOK'
    BY <1>0, <2>1, <2>3 DEF TypeOK
  <2>6. LoopInv' /\ SizedInv'
    BY <2>1 DEF LoopInv, SizedInv
  <2>7. SearchInv'
    <3>1. call.k > 0 => /\ lo' = 1 \/ Accepted(lo')
                        /\ hi' = MaxCreationSize \/ ~ Accepted(hi' + 1)
      <4>1. CASE WithinLimit(Usable) /\ lo' = size /\ hi' = hi
        BY <2>1, <2>4, <4>1 DEF SearchInv
      <4>2. CASE ~ WithinLimit(Usable) /\ lo' = lo /\ hi' = size - 1
        <5>1. hi' + 1 = size
          BY <1>0, <4>2
        <5> QED
          BY <2>1, <2>4, <4>2, <5>1 DEF SearchInv
      <4> QED
        BY <2>2, <4>1, <4>2
    <3> QED
      BY <2>1, <2>3, <3>1 DEF SearchInv, Searches, Accepted
  <2> QED
    BY <2>5, <2>6, <2>7
<1>7. CASE Return
  <2>1. /\ call' = call /\ size' = size /\ meta' = meta /\ lo' = lo /\ hi' = hi
        /\ pc' = "returned"
        /\ \/ pc = "probe" /\ ~(lo < hi)
           \/ pc = "sized" /\ ~ Searches
    BY <1>7 DEF Return, Searches
  <2>2. TypeOK' /\ LoopInv'
    BY <1>0, <2>1 DEF TypeOK, LoopInv
  <2>3. SizedInv'
    BY <2>1 DEF SizedInv, Searches, Least, SearchInv
  <2>4. SearchInv'
    BY <1>0, <2>1 DEF SearchInv, Searches, Accepted
  <2> QED
    BY <2>2, <2>3, <2>4
<1>8. CASE UNCHANGED vars
  BY <1>8 DEF vars, TypeOK, LoopInv, SizedInv, SearchInv, Searches, Accepted, Least
<1> QED
  BY <1>1, <1>2, <1>3, <1>4, <1>5, <1>6, <1>7, <1>8 DEF Next

LEMMA Invariance == Spec => []IInv
<1>1. Init => IInv
  BY InitInv
<1>2. IInv /\ [Next]_vars => IInv'
  BY NextInv
<1> QED
  BY <1>1, <1>2, PTL DEF Spec

\* Sizes are never negative.
THEOREM TypeCorrect == Spec => []TypeOK
<1>1. IInv => TypeOK
  BY DEF IInv
<1> QED
  BY <1>1, Invariance, PTL

\* ComputeShardSize: the volume fits into the lvstore on its shards.
THEOREM ShardsBackSpec == Spec => []ShardBacksSpec
<1>1. IInv => ShardBacksSpec
  <2> SUFFICES ASSUME IInv, Returned("ComputeShardSize"), size > 0, call.k > 0
               PROVE  LET device == EcBdevSize(ShardSize(size, meta, call.k, call.strip),
                                               call.k, call.strip)
                      IN /\ device = Usable
                         /\ DataClusters(device) >= CeilDiv(size, ClusterSize)
    BY DEF ShardBacksSpec
  <2>1. TypeOK /\ size \in Nat /\ pc = "returned" /\ ~ Searches
    BY DEF IInv, TypeOK, Returned, Searches
  <2>2. call.k \in Positive /\ call.strip \in StripSizes
    BY <2>1, CallIs
  <2>3. PICK n \in Nat : meta = (n + 1) * ClusterSize /\ Settled(size, n)
    BY <2>1 DEF IInv, SizedInv
  <2>4. meta \in Nat
    BY <2>1 DEF TypeOK
  <2> DEFINE device == EcBdevSize(ShardSize(size, meta, call.k, call.strip),
                                  call.k, call.strip)
  <2>5. /\ device = UsableSize(size, meta, call.k, call.strip)
        /\ device \in Nat
        /\ size + meta <= device
    BY <2>1, <2>2, <2>4, UsableIs
  <2>6. device = Usable
    BY <2>1, <2>2, <2>5 DEF Usable, Positive
  <2> HIDE DEF device
  <2>7. DataClusters(device) >= CeilDiv(size, ClusterSize)
    BY <2>1, <2>3, <2>5, DataFits
  <2> QED
    BY <2>6, <2>7 DEF device
<1> QED
  BY <1>1, Invariance, PTL

\* ValidateECCreationSize: it accepts what SPDK accepts.
THEOREM AdmissionsPredictSpdk == Spec => []AdmissionPredictsSpdk
<1>1. IInv => AdmissionPredictsSpdk
  <2> SUFFICES ASSUME IInv, Returned("ValidateECCreationSize"), size > 0, call.k > 0
               PROVE  WithinLimit(Usable) <=> SpdkAccepts(size, call.k, call.strip)
    BY DEF AdmissionPredictsSpdk
  <2>1. TypeOK /\ size \in Nat /\ pc = "returned" /\ ~ Searches
    BY DEF IInv, TypeOK, Returned, Searches
  <2>2. call.k \in Positive /\ call.strip \in StripSizes
    BY <2>1, CallIs
  <2>3. PICK n \in Nat : meta = (n + 1) * ClusterSize /\ Settled(size, n) /\ Least(n)
    BY <2>1 DEF IInv, SizedInv
  <2>4. Usable = UsableSize(size, (n + 1) * ClusterSize, call.k, call.strip)
    BY <2>1, <2>2, <2>3 DEF Usable, Positive
  <2> QED
    BY <2>1, <2>2, <2>3, <2>4, AcceptIs DEF Least
<1> QED
  BY <1>1, Invariance, PTL

\* MaxECVolumeSizeForCreation: bisection finds the largest size that SPDK accepts.
THEOREM MaximumIsLargest == Spec => []MaxIsLargest
<1>1. IInv => MaxIsLargest
  <2> SUFFICES ASSUME IInv, Returned("MaxECVolumeSizeForCreation"), call.k > 0,
                      NEW v \in 2 .. MaxCreationSize + 1
               PROVE  SpdkAccepts(v, call.k, call.strip) <=> v <= lo
    BY DEF MaxIsLargest
  <2>1. /\ TypeOK /\ lo \in Nat /\ hi \in Nat /\ v \in Nat /\ v >= 2
        /\ pc = "returned" /\ Searches
    BY LimitIs DEF IInv, TypeOK, Returned, Searches
  <2>2. call.k \in Positive /\ call.strip \in StripSizes
    BY <2>1, CallIs
  <2>3. /\ hi <= lo
        /\ lo = 1 \/ Accepted(lo)
        /\ hi = MaxCreationSize \/ ~ Accepted(hi + 1)
    BY <2>1 DEF IInv, SearchInv
  <2>4. CASE v <= lo
    BY <2>1, <2>2, <2>3, <2>4, AcceptMono DEF Accepted
  <2>5. CASE lo < v
    <3>1. hi + 1 \in Nat /\ hi + 1 <= v
      BY <2>1, <2>3, <2>5
    <3>2. CASE hi = MaxCreationSize
      <4>1. MaxCreationSize < v
        BY <2>1, <3>1, <3>2
      <4> QED
        BY <2>1, <2>2, <2>5, <4>1, AcceptBound
    <3>3. CASE ~ Accepted(hi + 1)
      BY <2>1, <2>2, <2>5, <3>1, <3>3, AcceptMono DEF Accepted
    <3> QED
      BY <2>3, <3>2, <3>3
  <2> QED
    BY <2>1, <2>4, <2>5
<1> QED
  BY <1>1, Invariance, PTL
-----------------------------------------------------------------------------
(***************************************************************************)
(* The loops come to an end: the safety half of CallsEnd.  There is always *)
(* a settled size, which the iteration cannot pass; and every step makes   *)
(* the triple of the width of the bisection, the stage of the current      *)
(* probe and the distance to the settled size smaller, lexicographically.  *)
(* With fairness, which TLC adds, that is termination.                     *)
(***************************************************************************)

\* As many clusters as the volume has pages of metadata settle it.
Enough(v) == PagesPerCluster * Md(CeilDiv(v, ClusterSize))

\* The growth of the metadata over n times the pages of a cluster.
LEMMA MdLeap ==
    ASSUME NEW a \in Nat, NEW n \in Nat
    PROVE  /\ a + PagesPerCluster * n \in Nat
           /\ Md(a + PagesPerCluster * n) <= Md(a) + 4 * MaxGrowthFactor * n
<1> DEFINE d == PagesPerCluster * n
           c == a + d
           ga == a * MaxGrowthFactor
           gc == c * MaxGrowthFactor
           gd == d * MaxGrowthFactor
           ma == lvstoreMaskPages(ga)
           mc == lvstoreMaskPages(gc)
           pa == 1 + 3 * ma + ga
           pc_ == 1 + 3 * mc + gc
           t == 4 * MaxGrowthFactor * n
<1>1. d \in Nat /\ c \in Nat /\ t \in Nat
  BY Units DEF Positive
<1>2. gd \in Nat /\ gc = ga + gd /\ 4 * gd = t * PagesPerCluster
  BY Units DEF Positive
<1> HIDE DEF c
<1>3. /\ ga \in Nat /\ ma \in Nat /\ Md(a) \in Nat /\ Md(a) = CeilDiv(pa, PagesPerCluster)
      /\ gc \in Nat /\ mc \in Nat /\ Md(c) \in Nat /\ Md(c) = CeilDiv(pc_, PagesPerCluster)
  BY <1>1, MdIs
<1> HIDE DEF d, ga, gc, gd, t
<1>4. ga <= gc
  BY <1>2, <1>3
<1>5. mc <= ma + (gc - ga)
  BY <1>3, <1>4, MaskIs
<1> HIDE DEF ma, mc
<1>6. pa \in Nat /\ pc_ \in Nat /\ pc_ <= pa + 4 * gd
  BY <1>2, <1>3, <1>5
<1>7. pa + t * PagesPerCluster \in Nat /\ pc_ <= pa + t * PagesPerCluster
  BY <1>1, <1>2, <1>6
<1> HIDE DEF pa, pc_
<1>8. CeilDiv(pc_, PagesPerCluster) <= CeilDiv(pa + t * PagesPerCluster, PagesPerCluster)
  BY <1>6, <1>7, Units, CeilMono
<1>9. CeilDiv(pa + t * PagesPerCluster, PagesPerCluster) = CeilDiv(pa, PagesPerCluster) + t
  BY <1>1, <1>6, Units, CeilShift
<1> QED
  BY <1>1, <1>3, <1>8, <1>9 DEF c, d, t

\* Every volume has a settled size of its metadata.
LEMMA EnoughSettles ==
    ASSUME NEW v \in Nat
    PROVE  Enough(v) \in Nat /\ Settled(v, Enough(v))
<1> DEFINE h == CeilDiv(v, ClusterSize)
           n == Md(h)
<1>1. h \in Nat
  BY Units, CeilIs
<1> HIDE DEF h
<1>2. n \in Nat
  BY <1>1, MdIs
<1>3. /\ h + PagesPerCluster * n \in Nat
      /\ Md(h + PagesPerCluster * n) <= n + 4 * MaxGrowthFactor * n
  BY <1>1, <1>2, MdLeap
<1>4. Md(h + PagesPerCluster * n) \in Nat
  BY <1>3, MdIs
<1> HIDE DEF n
<1>5. PagesPerCluster * n \in Nat
  BY <1>2, Units DEF Positive
<1>6. n + 4 * MaxGrowthFactor * n <= PagesPerCluster * n
  <2>1. 4 * MaxGrowthFactor + 1 \in Nat /\ 4 * MaxGrowthFactor + 1 <= PagesPerCluster
    BY Units DEF Positive
  <2>2. n * (4 * MaxGrowthFactor + 1) <= n * PagesPerCluster
    BY <1>2, <2>1, Units, MulMono DEF Positive
  <2> QED
    BY <1>2, <2>2, Units DEF Positive
<1>7. Md(h + PagesPerCluster * n) <= PagesPerCluster * n
  BY <1>2, <1>3, <1>4, <1>5, <1>6, Units DEF Positive
<1>8. Enough(v) = PagesPerCluster * n
  BY DEF Enough, n, h
<1> QED
  BY <1>5, <1>7, <1>8, SettledIs DEF h

\* A bound of the least settled metadata, in bytes.
LEMMA LeastIsBounded ==
    ASSUME NEW n \in Nat, size \in Nat, Least(n)
    PROVE  /\ Enough(size) * ClusterSize \in Nat
           /\ n * ClusterSize <= Enough(size) * ClusterSize
<1>1. Enough(size) \in Nat /\ n <= Enough(size)
  BY EnoughSettles DEF Least
<1>2. ClusterSize * n <= ClusterSize * Enough(size)
  BY <1>1, Units, MulMono DEF Positive
<1> QED
  BY <1>1, <1>2, Units DEF Positive

Width == IF lo < hi THEN hi - lo ELSE 0

Stage ==
    CASE pc = "called"   -> 5
      [] pc = "probe"    -> 4
      [] pc = "estimate" -> 3
      [] pc = "iterate"  -> 2
      [] pc = "sized"    -> 1
      [] pc = "returned" -> 0

Distance == IF pc = "iterate" THEN Enough(size) * ClusterSize - meta ELSE 0

Measured == Width \in Nat /\ Stage \in 0 .. 5 /\ Distance \in Nat

Shrinks ==
    \/ Width' < Width
    \/ Width' = Width /\ Stage' < Stage
    \/ Width' = Width /\ Stage' = Stage /\ Distance' < Distance

\* Never is the estimate more than what is enough, with the spare cluster.
MetadataBounded == meta <= (Enough(size) + 1) * ClusterSize

LEMMA StageIs ==
    ASSUME TypeOK
    PROVE  /\ pc = "called" => Stage = 5
           /\ pc = "probe" => Stage = 4
           /\ pc = "estimate" => Stage = 3
           /\ pc = "iterate" => Stage = 2
           /\ pc = "sized" => Stage = 1
           /\ pc = "returned" => Stage = 0
           /\ Stage \in 0 .. 5
BY DEF TypeOK, Stage

LEMMA WidthIs ==
    ASSUME TypeOK
    PROVE  Width \in Nat /\ (lo < hi => Width = hi - lo)
BY DEF TypeOK, Width

LEMMA DistanceIs ==
    ASSUME IInv
    PROVE  Distance \in Nat
<1>1. CASE pc = "iterate"
  <2>1. size \in Nat /\ meta \in Nat
    BY DEF IInv, TypeOK
  <2>2. PICK n \in Nat : meta = n * ClusterSize /\ Least(n)
    BY <1>1 DEF IInv, LoopInv
  <2>3. /\ Enough(size) * ClusterSize \in Nat
        /\ meta <= Enough(size) * ClusterSize
    BY <2>1, <2>2, LeastIsBounded
  <2>4. Distance = Enough(size) * ClusterSize - meta
    BY <1>1 DEF Distance
  <2> QED
    BY <2>1, <2>3, <2>4
<1>2. CASE pc # "iterate"
  BY <1>2 DEF Distance
<1> QED
  BY <1>1, <1>2

LEMMA EveryStepShrinks ==
    ASSUME IInv, IInv', Next
    PROVE  Shrinks
<1>0. /\ TypeOK /\ TypeOK'
      /\ size \in Nat /\ meta \in Nat /\ lo \in Nat /\ hi \in Nat
  BY DEF IInv, TypeOK
<1>2. CASE UNCHANGED <<lo, hi>> /\ Stage' < Stage
  BY <1>2 DEF Shrinks, Width
<1>3. CASE Begin
  <2>1. pc = "called" /\ pc' \in {"probe", "estimate", "sized"} /\ UNCHANGED <<lo, hi>>
    BY <1>3 DEF Begin, LookAt
  <2> QED
    BY <1>2, <2>1 DEF Stage
<1>4. CASE Estimate
  BY <1>2, <1>4 DEF Estimate, Stage
<1>5. CASE Iterate
  <2>1. /\ pc = "iterate" /\ pc' = "iterate" /\ size' = size /\ UNCHANGED <<lo, hi>>
        /\ meta' > meta
    BY <1>5 DEF Iterate
  <2>2. meta' \in Nat
    BY DEF IInv, TypeOK
  <2>3. Enough(size) * ClusterSize \in Nat
    <3>1. Enough(size) \in Nat
      BY <1>0, EnoughSettles
    <3> QED
      BY <3>1, Units DEF Positive
  <2>4. /\ Distance = Enough(size) * ClusterSize - meta
        /\ Distance' = Enough(size) * ClusterSize - meta'
    BY <2>1 DEF Distance, Enough
  <2>5. Distance' < Distance
    BY <1>0, <2>1, <2>2, <2>3, <2>4
  <2>6. Stage' = Stage /\ Width' = Width
    BY <2>1 DEF Stage, Width
  <2> QED
    BY <2>5, <2>6 DEF Shrinks
<1>6. CASE Settle
  BY <1>2, <1>6 DEF Settle, Stage
<1>7. CASE Probe
  <2>1. pc = "probe" /\ pc' \in {"estimate", "sized"} /\ UNCHANGED <<lo, hi>>
    BY <1>7 DEF Probe, LookAt
  <2> QED
    BY <1>2, <2>1 DEF Stage
<1>8. CASE Halve
  <2>1. lo < size /\ size <= hi
    BY <1>8 DEF Halve, IInv, SearchInv, Searches
  <2>2. \/ lo' = size /\ hi' = hi
        \/ lo' = lo /\ hi' = size - 1
    BY <1>8 DEF Halve
  <2>3. Width = hi - lo
    BY <1>0, <2>1 DEF Width
  <2>4. Width' < Width
    BY <1>0, <2>1, <2>2, <2>3 DEF Width
  <2> QED
    BY <2>4 DEF Shrinks
<1>9. CASE Return
  <2>1. pc \in {"probe", "sized"} /\ pc' = "returned" /\ UNCHANGED <<lo, hi>>
    BY <1>9 DEF Return
  <2> QED
    BY <1>2, <2>1 DEF Stage
<1> QED
  BY <1>3, <1>4, <1>5, <1>6, <1>7, <1>8, <1>9 DEF Next

\* Neither loop can go on for ever: every step of a call, the turns of the iteration and
\* of the bisection included, makes a well-founded measure smaller.
THEOREM LoopsShrink == Spec => []Measured /\ [][Shrinks]_vars
<1>1. IInv => Measured
  BY WidthIs, StageIs, DistanceIs DEF IInv, Measured
<1>2. IInv /\ IInv' /\ [Next]_vars => [Shrinks]_vars
  BY EveryStepShrinks
<1> QED
  BY <1>1, <1>2, Invariance, PTL DEF Spec

LEMMA BoundGrows ==
    ASSUME NEW v \in Nat
    PROVE  /\ 0 <= (Enough(v) + 1) * ClusterSize
           /\ Enough(v) * ClusterSize + ClusterSize = (Enough(v) + 1) * ClusterSize
           /\ Enough(v) * ClusterSize <= (Enough(v) + 1) * ClusterSize
<1>1. Enough(v) \in Nat
  BY EnoughSettles
<1> QED
  BY <1>1, Units DEF Positive

LEMMA BoundNext == IInv /\ IInv' /\ MetadataBounded /\ [Next]_vars => MetadataBounded'
<1> SUFFICES ASSUME IInv, IInv', MetadataBounded, [Next]_vars
             PROVE  MetadataBounded'
  OBVIOUS
<1>0. size \in Nat /\ size' \in Nat /\ meta \in Nat /\ meta' \in Nat
  BY DEF IInv, TypeOK
<1>1. CASE UNCHANGED <<size, meta>>
  BY <1>1 DEF MetadataBounded, Enough
<1>2. CASE meta' = 0
  BY <1>0, <1>2, BoundGrows DEF MetadataBounded, Enough
<1>3. CASE pc' = "iterate"
  <2>1. \E n \in Nat : meta' = n * ClusterSize
                        /\ \A j \in Nat : Settled(size', j) => n <= j
    BY <1>3 DEF IInv, LoopInv, Least
  <2>2. PICK n \in Nat : meta' = n * ClusterSize
                         /\ \A j \in Nat : Settled(size', j) => n <= j
    BY <2>1
  <2>3. Enough(size') \in Nat /\ n <= Enough(size')
    BY <1>0, <2>2, EnoughSettles
  <2>4. ClusterSize * n <= ClusterSize * Enough(size')
    BY <2>3, Units, MulMono DEF Positive
  <2> QED
    BY <1>0, <2>2, <2>3, <2>4, Units DEF MetadataBounded, Enough, Positive
<1>4. CASE Settle
  <2>1. PICK n \in Nat : meta = n * ClusterSize /\ Least(n)
    BY <1>4 DEF IInv, LoopInv, Settle
  <2>2. /\ Enough(size) * ClusterSize \in Nat
        /\ meta <= Enough(size) * ClusterSize
    BY <1>0, <2>1, LeastIsBounded
  <2>3. meta' = meta + ClusterSize /\ size' = size
    BY <1>4 DEF Settle
  <2>4. Enough(size) * ClusterSize + ClusterSize = (Enough(size) + 1) * ClusterSize
    BY <1>0, BoundGrows
  <2>5. meta' <= (Enough(size) + 1) * ClusterSize
    BY <1>0, <2>2, <2>3, <2>4, Units DEF Positive
  <2> QED
    BY <2>3, <2>5 DEF MetadataBounded, Enough
<1>5. CASE Begin
  BY <1>1, <1>2, <1>5 DEF Begin, LookAt
<1>6. CASE Estimate
  BY <1>3, <1>6 DEF Estimate
<1>7. CASE Iterate
  BY <1>3, <1>7 DEF Iterate
<1>8. CASE Probe
  BY <1>2, <1>8 DEF Probe, LookAt
<1>9. CASE Halve
  BY <1>1, <1>9 DEF Halve
<1>10. CASE Return
  BY <1>1, <1>10 DEF Return
<1>11. CASE UNCHANGED vars
  BY <1>1, <1>11 DEF vars
<1> QED
  BY <1>4, <1>5, <1>6, <1>7, <1>8, <1>9, <1>10, <1>11 DEF Next

\* lvstoreMetadataBytes never looks at more metadata than a bound that depends on the
\* volume alone: no volume makes the estimate of its own metadata run away.
THEOREM MetadataIsBounded == Spec => []MetadataBounded
<1>1. Init => MetadataBounded
  <2> SUFFICES ASSUME Init PROVE MetadataBounded
    OBVIOUS
  <2>1. size = 0 /\ meta = 0
    BY DEF Init
  <2> QED
    BY <2>1, BoundGrows DEF MetadataBounded
<1>2. IInv /\ IInv' /\ MetadataBounded /\ [Next]_vars => MetadataBounded'
  BY BoundNext
<1> QED
  BY <1>1, <1>2, Invariance, PTL DEF Spec

\* Between the probe and the comparison, the size is the middle of the bounds.
MiddleInv ==
    Searches /\ pc \in {"estimate", "iterate", "sized"} =>
        size = lo + (hi - lo + 1) \div 2

\* A turn of the bisection leaves at most half of the sizes it had.
Halves == Halve => hi' - lo' <= (hi - lo) \div 2

\* MaxECVolumeSizeForCreation looks at no more sizes than its limit has binary digits.
THEOREM SearchHalves == Spec => [][Halves]_vars
<1>1. Init => MiddleInv
  BY DEF Init, MiddleInv
<1>2. IInv /\ MiddleInv /\ [Next]_vars => MiddleInv'
  <2> SUFFICES ASSUME IInv, MiddleInv, [Next]_vars
               PROVE  MiddleInv'
    OBVIOUS
  <2> USE DEF MiddleInv, Searches
  <2>1. CASE Begin
    BY <2>1 DEF Begin
  <2>2. CASE Estimate
    BY <2>2 DEF Estimate
  <2>3. CASE Iterate
    BY <2>3 DEF Iterate
  <2>4. CASE Settle
    BY <2>4 DEF Settle
  <2>5. CASE Probe
    BY <2>5 DEF Probe, LookAt
  <2>6. CASE Halve
    BY <2>6 DEF Halve
  <2>7. CASE Return
    BY <2>7 DEF Return
  <2>8. CASE UNCHANGED vars
    BY <2>8 DEF vars
  <2> QED
    BY <2>1, <2>2, <2>3, <2>4, <2>5, <2>6, <2>7, <2>8 DEF Next
<1>3. IInv /\ MiddleInv => Halves
  <2> SUFFICES ASSUME IInv, MiddleInv, Halve
               PROVE  hi' - lo' <= (hi - lo) \div 2
    BY DEF Halves
  <2>1. lo \in Nat /\ hi \in Nat /\ lo < size /\ size <= hi
    BY DEF Halve, IInv, TypeOK, SearchInv, Searches
  <2>2. size = lo + (hi - lo + 1) \div 2
    BY DEF Halve, MiddleInv, Searches
  <2>3. \/ lo' = size /\ hi' = hi
        \/ lo' = lo /\ hi' = size - 1
    BY DEF Halve
  <2> QED
    BY <2>1, <2>2, <2>3
<1> QED
  BY <1>1, <1>2, <1>3, Invariance, PTL DEF Spec
=============================================================================
