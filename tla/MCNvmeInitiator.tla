-------------------------- MODULE MCNvmeInitiator --------------------------
(* What callers ask for: starts and stops with every argument, between     *)
(* switches of the path, ...                                               *)
EXTENDS NvmeInitiator, TLC

StartsAndStops ==
    {o \in Operations : o.name \in {"Start", "Stop", "ConnectPath", "ReconnectPath"}}

(* ... or all other operations, around starts that create the dm device.   *)
Maintenance ==
    {o \in Operations :
        /\ o.name = "Start" => o.cleanup
        /\ o.name = "Stop" => o.cleanup /\ o.strict}

Symmetry == Permutations(Addrs) \cup Permutations(Namespaces) \cup Permutations(DmNumbers)
=============================================================================
