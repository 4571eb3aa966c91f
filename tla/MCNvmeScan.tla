----------------------------- MODULE MCNvmeScan -----------------------------
(***************************************************************************)
(* Two ports of one target, a subsystem that is looked for and another.    *)
(***************************************************************************)
EXTENDS NvmeScan, TLC

CONSTANTS ip, p1, p2

TwoPorts == {[ip |-> ip, port |-> p1], [ip |-> ip, port |-> p2]}

Symmetry == Permutations(Controllers) \cup Permutations(Devices) \cup Permutations(Nqns)
=============================================================================
