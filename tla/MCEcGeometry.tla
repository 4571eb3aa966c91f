---------------------------- MODULE MCEcGeometry ----------------------------
(* Instances of EcGeometry for TLC, whose integers have 32 bits. *)
EXTENDS EcGeometry

\* Every size around the multiples of a quarter of a cluster, up to beyond the limit.
AroundBoundaries ==
    {n * (ClusterSize \div 4) + e : n \in 0 .. 4 * (MaxClusters + 1), e \in 0 .. 1}
=============================================================================
