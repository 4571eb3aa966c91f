---------------------------- MODULE MCExposeBdev ----------------------------
(* Instances of ExposeBdev for TLC. *)
EXTENDS ExposeBdev, TLC

\* A start for all hosts (WithANAState), one for some, and Stop: the other starts differ
\* from these in no branch.
OneOfEachKind ==
    {[name |-> "Start", hosts |-> Hosts], [name |-> "Stop"]}
      \cup {[name |-> "StartWithANAState", ana |-> a] : a \in AnaStates \ {Optimized}}

\* Volumes and hosts differ only in their names.
Symmetric == Permutations(Volumes) \cup Permutations(Hosts)
=============================================================================
