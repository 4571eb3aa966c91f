---------------------------- MODULE MCLvolStore -----------------------------
(***************************************************************************)
(* Two disks, two lvols; symmetric but for the values of xattrs.           *)
(***************************************************************************)
EXTENDS LvolStore, TLC

Symmetry ==
    Permutations(Disks) \cup Permutations(StoreIds) \cup Permutations(Lvols)
        \cup Permutations(LvolNames)
=============================================================================
